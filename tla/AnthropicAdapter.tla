--------------------------- MODULE AnthropicAdapter ---------------------------
(***************************************************************************)
(* The frame loop of the Anthropic adapter (provider/anthropic).  A frame   *)
(* is an event of the Messages API: message_start, block_start,             *)
(* block_delta, block_stop, message_delta, message_stop, ping, error.       *)
(*                                                                          *)
(* The usage of a message_delta is "inside" its delta object, "beside" it   *)
(* or absent: the adapter looks for it inside.                               *)
(***************************************************************************)
EXTENDS ProviderEvents

NoReason == "none"

NewAnthropic == [start |-> FALSE, finish |-> NoReason]

\* Mutant: a tool call is an ordinary end.
ReasonWithoutTools(r) ==
    CASE r = "max_tokens" -> "length"
      [] r = "refusal" -> "refusal"
      [] OTHER -> "stop"

AnthropicReason(r) ==
    CASE r = "max_tokens" -> "length"
      [] r = "tool_use" -> "tool_calls"
      [] r = "refusal" -> "refusal"
      [] OTHER -> "stop"

\* A block of another kind (server_tool_use, a tool result) is not announced.
ContentBlockStart(f) ==
    CASE f.kind = "text" -> <<BlockOf("text")>>
      [] f.kind = "thinking" ->
            <<BlockOf("thinking")>> \o Only(f.piece # Nothing, <<ThinkingOf(f.piece)>>)
      [] f.kind = "tool_use" -> <<ToolBlock(f.id)>>
      [] f.kind = "redacted_thinking" ->
            <<BlockOf("redacted_thinking")>> \o Only(f.piece # Nothing, <<RedactedEvent>>)
      [] OTHER -> <<>>

\* The delta's index is not used: the converter attributes it by recency.
ContentBlockDelta(f) ==
    CASE f.kind = "text" -> <<TextOf(f.piece)>>
      [] f.kind = "thinking" -> <<ThinkingOf(f.piece)>>
      [] f.kind = "signature" -> <<SignatureEvent>>
      [] f.kind = "tool_use" -> <<Fragment(f.id, NoIndex, f.piece)>>
      [] OTHER -> <<>>

AnthropicEvents(a, f) ==
    CASE f.type = "message_start" -> Only(f.usage, <<UsageEvent>>)
      [] f.type = "block_start" -> ContentBlockStart(f)
      [] f.type = "block_delta" -> ContentBlockDelta(f)
      [] f.type = "block_stop" -> <<BlockStopOf(f.index)>>
      [] f.type = "message_delta" -> Only(f.usage = "inside", <<UsageEvent>>)
      [] f.type = "message_stop" -> <<StopEvent(a.finish)>>
      [] f.type = "error" -> <<ErrorEvent>>
      [] OTHER -> <<>>

\* Mutant: only message_start starts the stream.
MessageStartOnly(a, f) ==
    [a |-> [start |-> TRUE,
            finish |-> IF f.type = "message_delta" /\ f.reason # NoReason
                       THEN AnthropicReason(f.reason) ELSE a.finish],
     out |-> Only(f.type = "message_start", <<StartEvent>>) \o AnthropicEvents(a, f),
     then |-> "read"]

\* The reason is kept until message_stop; after an error the loop reads on.
AnthropicFrame(a, f) ==
    [a |-> [start |-> TRUE,
            finish |-> IF f.type = "message_delta" /\ f.reason # NoReason
                       THEN AnthropicReason(f.reason) ELSE a.finish],
     out |-> Only(~a.start, <<StartEvent>>) \o AnthropicEvents(a, f),
     then |-> "read"]

\* A stop is made up when no reason was seen, whether or not message_stop was.
AnthropicEnd(a, broken, degraded) ==
    Only(broken /\ ~a.start, <<ErrorEvent>>)
        \o Only(a.finish = NoReason /\ a.start, <<StopEvent(degraded)>>)
        \o <<DoneEvent>>
=============================================================================
