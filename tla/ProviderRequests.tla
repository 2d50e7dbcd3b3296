--------------------------- MODULE ProviderRequests ---------------------------
(***************************************************************************)
(* What each adapter makes of the messages of a conversation                *)
(* (provider/*/message.go).  The content of a message is abstracted to      *)
(* whether there is any; tool calls and results keep their order.           *)
(***************************************************************************)
EXTENDS ToolPairing, TLC, FiniteSetsExt

-----------------------------------------------------------------------------
(* Chat completions: a tool message goes to the place right behind the          *)
(* assistant that declared its call.  `decl' is the place of the assistant that *)
(* declared an id, `count' the results inserted behind an assistant, by the     *)
(* place the assistant had then.                                                *)

AppendMessage(s, m) ==
    [s EXCEPT !.out = Append(@, m),
              !.decl = [id \in ToSet(m.calls) |-> Len(s.out) + 1] @@ @]

\* Mutant: results are left where the client put them.
AppendResult(s, m) == AppendMessage(s, m)

InsertResult(s, m) ==
    LET anchor == s.decl[m.id]
        count == IF anchor \in DOMAIN s.count THEN s.count[anchor] ELSE 0
        at == anchor + 1 + count
    IN  [out |-> InsertAt(s.out, at, m),
         decl |-> [id \in DOMAIN s.decl |-> IF s.decl[id] >= at THEN s.decl[id] + 1 ELSE s.decl[id]],
         count |-> (anchor :> count + 1) @@ s.count]

CompletionsMessages(msgs) ==
    LET Build(s, m) ==
            IF m.role = "tool" /\ m.id \in DOMAIN s.decl THEN InsertResult(s, m)
            ELSE AppendMessage(s, m)
    IN  FoldLeft(Build, [out |-> <<>>, decl |-> <<>>, count |-> <<>>], msgs).out

-----------------------------------------------------------------------------
(* The Messages API, of Anthropic and of bamboo: a message has blocks.  Only    *)
(* bamboo is told foreign thinking.                                             *)

Block(type, id) == [type |-> type, id |-> id]

MessageBlocks(m, toBamboo) ==
    LET blocks == If(m.thinking /\ toBamboo, <<Block("thinking", NoID)>>)
                    \o If(m.text # "none", <<Block("text", NoID)>>)
                    \o [p \in DOMAIN m.calls |-> Block("tool_use", m.calls[p])]
    IN  IF blocks = <<>> THEN <<Block("empty", NoID)>> ELSE blocks

\* Mutant: a result merges into any user message before it.
MergesIntoUser(wire) == wire # <<>> /\ Last(wire).role = "user"

MergesResult(wire) ==
    wire # <<>> /\ Last(wire).role = "user" /\ Last(wire).blocks[1].type = "tool_result"

\* Results that follow each other are one user message.
WireMessages(msgs, toBamboo) ==
    LET Build(wire, m) ==
            IF m.role # "tool"
            THEN Append(wire, [role |-> m.role, blocks |-> MessageBlocks(m, toBamboo)])
            ELSE IF MergesResult(wire)
            THEN [wire EXCEPT ![Len(wire)].blocks = Append(@, Block("tool_result", m.id))]
            ELSE Append(wire, [role |-> "user", blocks |-> <<Block("tool_result", m.id)>>])
    IN  FoldLeft(Build, <<>>, msgs)

-----------------------------------------------------------------------------
(* Gemini: a model turn with calls is closed by one user turn with a response   *)
(* to each; turns of one role are merged unless they call or respond.           *)

GeminiPart(type, id, from) == [type |-> type, id |-> id, from |-> from]
GeminiTurn(role, parts) == [role |-> role, parts |-> parts]

\* The first result of the call, or a made-up one ("from" is 0).
ResponseTo(msgs, id) ==
    LET given == {p \in DOMAIN msgs : msgs[p].role = "tool" /\ msgs[p].id = id}
    IN  GeminiPart("response", id, IF given = {} THEN 0 ELSE msgs[Min(given)].from)

FunctionResponses(msgs, calls) ==
    GeminiTurn("user", [p \in DOMAIN calls |-> ResponseTo(msgs, calls[p])])

\* Foreign thinking is not sent, a message may be left with an empty text.
AssistantTurn(m) ==
    LET parts == If(m.text # "none", <<GeminiPart("text", NoID, m.from)>>)
                    \o [p \in DOMAIN m.calls |-> GeminiPart("call", m.calls[p], m.from)]
    IN  GeminiTurn("model", IF parts = <<>> THEN <<GeminiPart("empty", NoID, m.from)>> ELSE parts)

TurnsOf(msgs, m) ==
    CASE m.role = "user" ->
            <<GeminiTurn("user", <<GeminiPart(IF m.text = "none" THEN "empty" ELSE "text", NoID, m.from)>>)>>
      [] m.role = "assistant" ->
            <<AssistantTurn(m)>> \o If(m.calls # <<>>, <<FunctionResponses(msgs, m.calls)>>)
      [] OTHER -> <<>>

HasFunctionPart(turn) == \E part \in ToSet(turn.parts) : part.type \in {"call", "response"}
HasModelContent(turn) == \E part \in ToSet(turn.parts) : part.type \in {"call", "text"}

MergeConsecutiveTurns(turns) ==
    LET Merge(merged, turn) ==
            IF /\ merged # <<>> /\ Last(merged).role = turn.role
               /\ ~HasFunctionPart(Last(merged)) /\ ~HasFunctionPart(turn)
            THEN [merged EXCEPT ![Len(merged)].parts = @ \o turn.parts]
            ELSE Append(merged, turn)
    IN  FoldLeft(Merge, <<>>, turns)

\* Mutant: the request may end with a turn of the model.
EndAsGiven(turns) == turns

\* Model turns without content are cut off at the end, one with is continued.
EndWithUser(turns) ==
    LET kept == {p \in DOMAIN turns : turns[p].role = "user" \/ HasModelContent(turns[p])}
        rest == SubSeq(turns, 1, IF kept = {} THEN 0 ELSE Max(kept))
    IN  rest \o If(rest # <<>> /\ Last(rest).role = "model",
                   <<GeminiTurn("user", <<GeminiPart("text", NoID, 0)>>)>>)

GeminiContents(msgs) ==
    EndWithUser(MergeConsecutiveTurns(FlattenSeq([p \in DOMAIN msgs |-> TurnsOf(msgs, msgs[p])])))

\* The ids a generated one must differ from.
UsedIDs(msgs) ==
    UNION {ToSet(msgs[p].calls) \cup ({msgs[p].id} \ {NoID}) : p \in DOMAIN msgs}

-----------------------------------------------------------------------------
(* Responses: an assistant message becomes a message and its calls.             *)

ResponsesInput(msgs) ==
    LET Items(m) ==
            CASE m.role = "user" -> <<Block("user", NoID)>>
              [] m.role = "tool" -> <<Block("function_call_output", m.id)>>
              [] OTHER -> If(m.text # "none", <<Block("message", NoID)>>)
                              \o [p \in DOMAIN m.calls |-> Block("function_call", m.calls[p])]
    IN  FlattenSeq([p \in DOMAIN msgs |-> Items(msgs[p])])
=============================================================================
