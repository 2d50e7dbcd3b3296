----------------------------- MODULE BambooAdapter -----------------------------
(***************************************************************************)
(* The frame loop of the adapter for another bamboo gateway                 *)
(* (provider/bamboo/stream.go, chat.go).  It reads the frames that          *)
(* AnthropicAdapter describes, with more finish reasons and one answer to a *)
(* reply that breaks off.                                                   *)
(***************************************************************************)
EXTENDS ProviderEvents

NewBamboo == [start |-> FALSE, finish |-> "none"]

BambooReason(r) ==
    CASE r = "max_tokens" -> "length"
      [] r = "tool_use" -> "tool_calls"
      [] r \in {"pause_turn", "refusal", "server_tool_use"} -> r
      [] OTHER -> "stop"

\* The content a block starts with is an event of its own.
BambooBlockStart(f) ==
    CASE f.kind = "thinking" ->
            <<BlockOf(f.kind)>> \o Only(f.piece # Nothing, <<ThinkingOf(f.piece)>>)
      [] f.kind = "redacted_thinking" ->
            <<BlockOf(f.kind)>> \o Only(f.piece # Nothing, <<RedactedEvent>>)
      [] f.kind = "text" -> <<BlockOf(f.kind)>>
      [] f.kind = "tool_use" -> <<ToolBlock(f.id)>>
      [] OTHER -> <<>>

\* The index of the block a delta belongs to is not read.
BambooBlockDelta(f) ==
    CASE f.kind = "text" -> <<TextOf(f.piece)>>
      [] f.kind = "thinking" -> <<ThinkingOf(f.piece)>>
      [] f.kind = "tool_use" -> <<Fragment(f.id, NoIndex, f.piece)>>
      [] f.kind = "signature" -> <<SignatureEvent>>
      [] OTHER -> <<>>

BambooEvents(a, f) ==
    CASE f.type = "message_start" -> Only(f.usage, <<UsageEvent>>)
      [] f.type = "block_start" -> BambooBlockStart(f)
      [] f.type = "block_delta" -> BambooBlockDelta(f)
      [] f.type = "block_stop" -> <<BlockStopOf(f.index)>>
      [] f.type = "message_delta" -> Only(f.usage = "inside", <<UsageEvent>>)
      [] f.type = "message_stop" -> <<StopEvent(a.finish)>>
      [] f.type = "error" -> <<ErrorEvent>>
      [] OTHER -> <<>>

BambooFrame(a, f) ==
    [a |-> [start |-> TRUE,
            finish |-> IF f.type = "message_delta" /\ f.reason # "none"
                       THEN BambooReason(f.reason) ELSE a.finish],
     out |-> Only(~a.start, <<StartEvent>>) \o BambooEvents(a, f),
     then |-> "read"]

\* A reply without a reason is ended as an ordinary one.
BambooEnd(a, broken) ==
    Only(broken /\ ~a.start, <<ErrorEvent>>)
        \o Only(a.finish = "none" /\ a.start, <<StopEvent("stop")>>)
        \o <<DoneEvent>>
=============================================================================
