------------------------- MODULE ResponsesSerializer -------------------------
(***************************************************************************)
(* The stream serializer of bamboo/codec/responses/stream.go: client events *)
(* in, events of the Responses API out.  A serializer s keeps what it wrote *)
(* in `out'.  Item ids are left out, an item is known by its output index;  *)
(* reasoningID tells whether the id of the reasoning item is set, which the *)
(* upstream's metadata may do before there is a reasoning block.            *)
(***************************************************************************)
EXTENDS ClientEvents

NewResponsesSerializer ==
    [created |-> FALSE, completed |-> FALSE, failed |-> FALSE,
     next |-> 0, output |-> <<>>,
     messageAdded |-> FALSE, messageIndex |-> 0, text |-> <<>>,
     reasoningID |-> FALSE, reasoningIndex |-> 0, thought |-> <<>>,
     currentCall |-> NoID, blocks |-> <<>>, out |-> <<>>]

Item(kind, at, call, data) == [kind |-> kind, at |-> at, call |-> call, data |-> data]
Wrote(ev, item) == [ev |-> ev, item |-> item, output |-> <<>>]
Response(ev, output) == [ev |-> ev, item |-> Item("none", -1, NoID, <<>>), output |-> output]

Write(s, w) == [s EXCEPT !.out = Append(@, w)]

EnsureCreated(s) ==
    IF s.created THEN s
    ELSE Write([s EXCEPT !.created = TRUE], Response("created", <<>>))

\* A message and a reasoning item are added once, every block of their kind
\* is a part of them; each tool block is an item of its own.
EnsureMessageBlock(s, i) ==
    LET added == IF s.messageAdded THEN s
                 ELSE [s EXCEPT !.messageAdded = TRUE, !.messageIndex = s.next, !.next = @ + 1]
    IN  IF i \in DOMAIN s.blocks THEN s
        ELSE [added EXCEPT !.blocks = With(@, i, Item("text", added.messageIndex, NoID, <<>>))]

EnsureReasoningBlock(s, i) ==
    LET added == IF s.reasoningID THEN s
                 ELSE [s EXCEPT !.reasoningID = TRUE, !.reasoningIndex = s.next, !.next = @ + 1]
    IN  IF i \in DOMAIN s.blocks THEN s
        ELSE [added EXCEPT !.blocks = With(@, i, Item("thinking", added.reasoningIndex, NoID, <<>>))]

\* Mutant: the call takes the next output index without using it up.
ToolKeepsNext(s, i, call) ==
    IF i \in DOMAIN s.blocks THEN s
    ELSE [s EXCEPT !.currentCall = call,
                   !.blocks = With(@, i, Item("tool_use", s.next, call, <<>>))]

EnsureToolBlock(s, i, call) ==
    IF i \in DOMAIN s.blocks THEN s
    ELSE [s EXCEPT !.next = @ + 1, !.currentCall = call,
                   !.blocks = With(@, i, Item("tool_use", s.next, call, <<>>))]

ItemStart(s, i) == Write(s, Wrote("added", s.blocks[i]))

ResponsesBlockStart(t, e) ==
    LET s == EnsureCreated(t) IN
    CASE e.info = "text" ->
            IF s.messageAdded THEN EnsureMessageBlock([t EXCEPT !.created = TRUE], e.index)
            ELSE ItemStart(EnsureMessageBlock(s, e.index), e.index)
      [] e.info = "thinking" -> ItemStart(EnsureReasoningBlock(s, e.index), e.index)
      [] e.info = "tool_use" -> ItemStart(EnsureToolBlock(s, e.index, e.tool), e.index)
      [] OTHER -> s

\* A delta is written with the item it belongs to and its own piece.
ItemDelta(s, i, piece) == Write(s, Wrote("delta", [s.blocks[i] EXCEPT !.data = piece]))

ResponsesBlockDelta(s, e, p) ==
    LET message == EnsureMessageBlock(s, e.index)
        reasoning == EnsureReasoningBlock(EnsureCreated(s), e.index)
        tool == EnsureToolBlock(s, e.index, s.currentCall)
    IN  CASE IsSignature(e, p) -> EnsureReasoningBlock(s, e.index)
          [] e.info = "text" -> ItemDelta([message EXCEPT !.text = @ \o p.piece], e.index, p.piece)
          [] e.info = "thinking" ->
                ItemDelta([reasoning EXCEPT !.thought = @ \o p.piece], e.index, p.piece)
          [] OTHER -> ItemDelta([tool EXCEPT !.blocks[e.index].data = @ \o p.piece], e.index, p.piece)

\* The block of a stop, or the item it is taken for when there is none.
StoppedBlock(s, i) ==
    IF i \in DOMAIN s.blocks THEN s
    ELSE IF s.messageAdded THEN EnsureMessageBlock(s, i)
    ELSE IF s.reasoningID THEN EnsureReasoningBlock(s, i)
    ELSE s

\* The item is done with all the text of its kind, or the call's arguments.
ResponsesBlockStop(t, e) ==
    LET s == StoppedBlock(t, e.index)
        block == s.blocks[e.index]
        item == CASE block.kind = "text" -> [block EXCEPT !.data = s.text]
                  [] block.kind = "thinking" -> [block EXCEPT !.data = s.thought]
                  [] OTHER -> block
    IN  IF e.index \notin DOMAIN s.blocks THEN s
        ELSE Write([s EXCEPT !.blocks = Without(@, e.index), !.output = Append(@, item)],
                   Wrote("done", item))

ApplyReasoningMeta(s, p) ==
    IF p.type = "metadata" /\ p.kind = "reasoning" THEN [s EXCEPT !.reasoningID = TRUE] ELSE s

\* handleStop puts a usage on its message_delta, the metadata's has none.
ResponsesMessageDelta(t, e, p) ==
    LET s == EnsureCreated(ApplyReasoningMeta(t, p))
        status == IF e.info = "max_tokens" THEN "incomplete" ELSE "completed"
    IN  IF ~IsFinalDelta(e) THEN s
        ELSE IF s.completed THEN t
        ELSE Write([s EXCEPT !.completed = TRUE], Response(status, s.output))

\* Mutant: the failure is told and the stream goes on.
FailAndGoOn(s) == Write([s EXCEPT !.blocks = <<>>], Response("failed", <<>>))

ResponsesError(s) ==
    Write([s EXCEPT !.failed = TRUE, !.completed = TRUE, !.blocks = <<>>], Response("failed", <<>>))

ResponsesSerialize(s, e, p) ==
    IF s.failed THEN s ELSE
    CASE e.type = "message_start" -> EnsureCreated(s)
      [] e.type = "block_start" -> ResponsesBlockStart(s, e)
      [] e.type = "block_delta" -> ResponsesBlockDelta(s, e, p)
      [] e.type = "block_stop" -> ResponsesBlockStop(s, e)
      [] e.type = "message_delta" -> ResponsesMessageDelta(s, e, p)
      [] e.type = "error" -> ResponsesError(s)
      [] OTHER -> s
=============================================================================
