-------------------------- MODULE ResponsesAdapter --------------------------
(***************************************************************************)
(* The frame loops of the OpenAI Responses adapter, over HTTP and over a    *)
(* WebSocket (provider/openai/responses).  A frame is an event of the API:  *)
(* created, item_call, item_reasoning, summary_part, reasoning (a delta of  *)
(* the reasoning or of its summary), text, arguments, reasoning_done,       *)
(* completed, incomplete, failed, error; or one that does not parse.        *)
(***************************************************************************)
EXTENDS ProviderEvents

NewResponses == [start |-> FALSE, stop |-> FALSE, text |-> FALSE, thinking |-> FALSE]

\* The block is announced before the first delta of its kind.
WithBlock(flag, kind, events) == Only(~flag, <<BlockOf(kind)>>) \o events

ItemAdded(a, f) ==
    IF f.type = "item_call" THEN <<ToolCall(f.id, NoIndex)>>
    ELSE WithBlock(a.thinking, "thinking", Only(f.encrypted, <<SignatureEvent>>))

\* Mutant: the usage of a failed response is left out.
UsageOfSuccess(f, event) == Only(f.usage /\ event.type = "stop", <<UsageEvent>>) \o <<event>>

\* What a frame that ends the response carries: its usage, then why it ended.
FinalEvents(f, event) == Only(f.usage, <<UsageEvent>>) \o <<event>>

ResponseFinishReason(f) ==
    IF f.calls THEN "tool_calls"
    ELSE IF f.type = "incomplete" THEN "length" ELSE "stop"

ResponsesEvents(a, f) ==
    CASE f.type = "created" -> <<MetadataOf("response")>>
      [] f.type \in {"item_call", "item_reasoning"} -> ItemAdded(a, f)
      [] f.type = "summary_part" -> WithBlock(a.thinking, "thinking", <<>>)
      [] f.type = "reasoning" -> WithBlock(a.thinking, "thinking", <<ThinkingOf(f.piece)>>)
      [] f.type = "text" -> WithBlock(a.text, "text", <<TextOf(f.piece)>>)
      [] f.type = "arguments" -> <<Fragment(f.id, NoIndex, f.piece)>>
      [] f.type = "reasoning_done" -> <<MetadataOf("reasoning")>>
      [] f.type \in {"completed", "incomplete"} ->
            FinalEvents(f, StopEvent(ResponseFinishReason(f)))
      [] f.type = "failed" -> FinalEvents(f, ErrorEvent)
      [] f.type = "error" -> <<ErrorEvent>>
      [] OTHER -> <<>>

\* A frame that does not parse is skipped before Start; after an error, and
\* after the end of the response, the loop reads on.
ResponsesFrame(a, f) ==
    IF f.type = "junk" THEN [a |-> a, out |-> <<>>, then |-> "read"]
    ELSE [a |-> [start |-> TRUE,
                 stop |-> a.stop \/ f.type \in {"completed", "incomplete"},
                 text |-> a.text \/ f.type = "text",
                 thinking |-> a.thinking \/ f.type \in {"item_reasoning", "summary_part", "reasoning"}],
          out |-> Only(~a.start, <<StartEvent>>) \o ResponsesEvents(a, f),
          then |-> "read"]

\* Over a WebSocket a first frame that is an error ends the call at once, so that
\* Chat can refuse it, and a later one, or the end of the response, the loop.
WebSocketFrame(a, f) ==
    LET r == ResponsesFrame(a, f)
        isError == f.type \in {"error", "failed"}
    IN  IF isError /\ ~a.start
        THEN [a |-> a, out |-> ResponsesEvents(a, f), then |-> "return"]
        ELSE IF isError \/ f.type \in {"completed", "incomplete"} THEN [r EXCEPT !.then = "end"]
        ELSE r

\* A reply that was never started is started, so that Done has something to end.
ResponsesEnd(a, broken, degraded) ==
    Only(broken /\ ~a.start, <<ErrorEvent>>)
        \o Only(~a.stop /\ a.start, <<StopEvent(degraded)>>)
        \o Only(~a.start, <<StartEvent>>)
        \o <<DoneEvent>>
=============================================================================
