------------------------------ MODULE Upstream ------------------------------
(***************************************************************************)
(* The model APIs the adapters read from: the frames each may send next,    *)
(* after those in `fed'.  They are no part of the repository; the grammar   *)
(* is the one its adapters and their tests reckon with.  An upstream is     *)
(*   "completions"  chat completions with numbered tool calls,              *)
(*   "unnumbered"   the same from a gateway that leaves the numbers out,    *)
(*   "inline"       the same, with think tags inside the content,           *)
(*   "glued"        the same from a server that glues frames together, cuts *)
(*                  them off and may leave out the blank line at the end,   *)
(*   "responses", "websocket"  the Responses API over its two transports,   *)
(*   "gemini"       generateContent,                                        *)
(*   "anthropic"    the Messages API,                                       *)
(*   "bamboo"       the same without the indexes of blocks.                 *)
(***************************************************************************)
EXTENDS ProviderEvents, SSEScanner, FiniteSets

CONSTANTS CallIDs,    (* the ids of tool calls, in the order they are used      *)
          MaxFrames   (* bound: the frames of a reply, for each kind            *)

Kinds == {"completions", "unnumbered", "inline", "glued", "responses", "websocket", "gemini",
          "anthropic", "bamboo"}
NoCallID == "no tool"

\* What a frame gives to the reader of the reply, piece by piece.
Said(what, id, piece) == [what |-> what, id |-> id, piece |-> piece]
SaidIf(what, piece) == Only(piece # Nothing, <<Said(what, NoID, piece)>>)

PartSays(part) ==
    CASE part.type \in {"thought", "text"} ->
            SaidIf(IF part.type = "text" THEN "text" ELSE "thinking", part.piece)
      [] OTHER -> <<>>

Says(f) ==
    CASE f.type = "chunk" ->
            SaidIf("thinking", f.reasoning) \o SaidIf("text", f.content)
                \o FlattenSeq([p \in DOMAIN f.calls |->
                        Only(f.calls[p].piece # Nothing,
                             <<Said("arguments", f.calls[p].of, f.calls[p].piece)>>)])
      [] f.type = "candidate" -> FlattenSeq([p \in DOMAIN f.parts |-> PartSays(f.parts[p])])
      [] f.type = "block_start" -> Only(f.kind = "thinking", SaidIf("thinking", f.piece))
      [] f.type = "block_delta" ->
            IF f.kind = "tool_use" THEN <<Said("arguments", f.id, f.piece)>>
            ELSE Only(f.kind # "signature", SaidIf(f.kind, f.piece))
      [] f.type = "text" -> SaidIf("text", f.piece)
      [] f.type = "reasoning" -> SaidIf("thinking", f.piece)
      [] f.type = "arguments" -> <<Said("arguments", f.id, f.piece)>>
      [] OTHER -> <<>>

\* What was given of one kind, or for one tool call, joined.
Joined(said, what, id) ==
    FlattenSeq([p \in DOMAIN said |->
                   Only(said[p].what = what /\ said[p].id = id, said[p].piece)])
Given(fed, what, id) == Joined(FlattenSeq([p \in DOMAIN fed |-> Says(fed[p])]), what, id)

\* The next pieces of a call's arguments: one object, or its two halves.
NextArguments(fed, id) ==
    CASE Given(fed, "arguments", id) = <<>> -> {<<"half">>, <<"whole">>}
      [] Given(fed, "arguments", id) = <<"half">> -> {<<"half">>}
      [] OTHER -> {}

Sent(fed, types) == {p \in DOMAIN fed : fed[p].type \in types}
Once(fed, type, frames) == IF Sent(fed, {type}) = {} THEN frames ELSE {}
NewPiece(fed) == <<Len(fed) + 1>>

\* The id of the next tool call: at most one, none when all are used.
NextCallIDs(used) ==
    {CallIDs[p] : p \in {q \in DOMAIN CallIDs :
                            CallIDs[q] \notin used /\ \A r \in 1..(q - 1) : CallIDs[r] \in used}}

-----------------------------------------------------------------------------
(* Chat completions. *)

EmptyChunk == [type |-> "chunk", usage |-> FALSE, reasoning |-> Nothing, signature |-> FALSE,
               content |-> Nothing, calls |-> <<>>, finish |-> "none"]
CallDelta(id, x, of, piece) == [signature |-> FALSE, id |-> id, index |-> x, of |-> of, piece |-> piece]

ChunkCalls(fed) ==
    (UNION {{c.id : c \in ToSet(fed[p].calls)} : p \in Sent(fed, {"chunk"})}) \ {NoID}

NumberOf(kind, id) ==
    IF kind = "unnumbered" THEN NoIndex
    ELSE (CHOOSE p \in DOMAIN CallIDs : CallIDs[p] = id) - 1

\* A call is opened with or without a fragment, fed by its number, or while it
\* is the last one; two calls may come in one chunk.
CallDeltas(kind, fed) ==
    LET known == ChunkCalls(fed)
        feedable == {id \in known : kind # "unnumbered" \/ id = CallIDs[Cardinality(known)]}
        Open(id, piece) == CallDelta(id, NumberOf(kind, id), id, piece)
    IN  {<<Open(id, piece)>> : id \in NextCallIDs(known), piece \in {Nothing, <<"half">>}}
            \cup {<<CallDelta(NoID, NumberOf(kind, id), id, piece)>> :
                     id \in feedable, piece \in {<<"half">>, <<"whole">>}}
            \cup (IF known = {} /\ Len(CallIDs) > 1
                  THEN {<<Open(CallIDs[1], <<"half">>), Open(CallIDs[2], <<"whole">>)>>} ELSE {})

Legal(fed, calls) == \A q \in DOMAIN calls :
    calls[q].piece # Nothing => calls[q].piece \in NextArguments(fed, calls[q].of)

Snippets == {<<"x">>, <<"<">>, <<"t", ">">>, <<"/", ">">>, <<"<", "t", ">">>, <<"<", "/", ">">>}

CompletionsFrames(kind, fed) ==
    LET finished == \E p \in Sent(fed, {"chunk"}) : fed[p].finish # "none"
        thought == Given(fed, "thinking", NoID) # <<>>
    IN  IF kind = "inline"
        THEN IF finished THEN {}
             ELSE {[EmptyChunk EXCEPT !.content = s] : s \in Snippets}
                      \cup {[EmptyChunk EXCEPT !.finish = "stop"]}
        ELSE IF finished
        THEN {[EmptyChunk EXCEPT !.usage = TRUE]}
        ELSE {[EmptyChunk EXCEPT !.content = NewPiece(fed)],
              [EmptyChunk EXCEPT !.reasoning = NewPiece(fed)],
              [type |-> "error"]}
             \cup {[EmptyChunk EXCEPT !.finish = r] : r \in {"stop", "length", "tool_calls"}}
             \cup (IF thought THEN {[EmptyChunk EXCEPT !.signature = TRUE]} ELSE {})
             \cup {[EmptyChunk EXCEPT !.calls = c] :
                      c \in {d \in CallDeltas(kind, fed) : Legal(fed, d)}}
             \cup (IF fed = <<>> THEN {[type |-> "junk"]} ELSE {})

-----------------------------------------------------------------------------
(* The Responses API: items one after the other.  A response that fails before  *)
(* it was created has no usage.                                                 *)

ResponsesFrames(fed) ==
    LET calls == {fed[p].id : p \in Sent(fed, {"item_call"})}
        lastCall == {fed[p].id : p \in {q \in Sent(fed, {"item_call"}) :
                        \A r \in Sent(fed, {"item_call"}) : r <= q}}
        ended == Sent(fed, {"completed", "incomplete", "failed"}) # {}
        reasoned == Sent(fed, {"item_reasoning", "summary_part", "reasoning"}) # {}
        End(t, usage) == [type |-> t, usage |-> usage, calls |-> calls # {}]
    IN  IF Len(fed) = Cardinality(Sent(fed, {"junk"}))
        THEN {[type |-> t] : t \in {"created", "error"}} \cup {End("failed", FALSE)}
                 \cup Once(fed, "junk", {[type |-> "junk"]})
        ELSE IF ended THEN {}
        ELSE {[type |-> "text", piece |-> NewPiece(fed)],
              [type |-> "reasoning", piece |-> NewPiece(fed)]}
             \cup {[type |-> "item_reasoning", encrypted |-> b] : b \in BOOLEAN}
             \cup Once(fed, "summary_part", {[type |-> "summary_part"]})
             \cup (IF reasoned THEN Once(fed, "reasoning_done", {[type |-> "reasoning_done"]}) ELSE {})
             \cup {[type |-> "item_call", id |-> id] : id \in NextCallIDs(calls)}
             \cup (UNION {{[type |-> "arguments", id |-> id, piece |-> piece] :
                              piece \in NextArguments(fed, id)} : id \in lastCall})
             \cup {End("completed", TRUE), End("completed", FALSE), End("incomplete", TRUE),
                   End("failed", TRUE)}
             \cup Once(fed, "error", {[type |-> "error"]})

-----------------------------------------------------------------------------
(* Gemini: a candidate has up to two parts; a call is whole. *)

APart(t, piece, signature, id) == [type |-> t, piece |-> piece, signature |-> signature, id |-> id]

\* `used' are the ids that the history and this reply have given to calls.
CandidateParts(fed, used) ==
    LET Call(id) == APart("call", Nothing, FALSE, id)
        text == APart("text", NewPiece(fed), FALSE, NoID)
        ids == {NoID} \cup (ToSet(CallIDs) \ used)
        room == Cardinality(ToSet(CallIDs) \ used)
    IN  {<<>>, <<text>>, <<APart("thought", NewPiece(fed), FALSE, NoID)>>,
         <<APart("thought", NewPiece(fed), TRUE, NoID)>>,
         <<APart("none", Nothing, TRUE, NoID)>>}
            \cup (IF room > 0 THEN {<<Call(id)>> : id \in ids} \cup {<<text, Call(NoID)>>} ELSE {})
            \cup (IF room > 1 THEN {<<Call(NoID), Call(NoID)>>} ELSE {})

GeminiFrames(fed, used) ==
    LET parts == CandidateParts(fed, used)
        finished == \E p \in Sent(fed, {"candidate"}) : fed[p].finish # "none"
    IN  IF finished THEN {}
        ELSE {[type |-> "candidate", usage |-> FALSE, parts |-> q, finish |-> "none"] :
                 q \in parts \ {<<>>}}
             \cup {[type |-> "candidate", usage |-> u, parts |-> q, finish |-> r] :
                      q \in parts, r \in {"STOP", "MAX_TOKENS"}, u \in BOOLEAN}
             \cup {[type |-> "error"]} \cup (IF fed = <<>> THEN {[type |-> "junk"]} ELSE {})

-----------------------------------------------------------------------------
(* The Messages API: blocks one after the other, each started and stopped. *)

MessageDeltas ==
    {[type |-> "message_delta", reason |-> r, usage |-> u] :
        r \in {"end_turn", "max_tokens", "tool_use"}, u \in {"inside", "none"}}

AnthropicFrames(kind, fed) ==
    LET starts == Sent(fed, {"block_start"})
        n == Cardinality(starts)
        running == n > Cardinality(Sent(fed, {"block_stop"}))
        block == fed[CHOOSE p \in starts : \A q \in starts : q <= p]
        calls == {fed[p].id : p \in starts} \ {NoID, NoCallID}
        at == IF kind = "bamboo" THEN NoIndex ELSE n
        Block(k, id, piece) == [type |-> "block_start", kind |-> k, id |-> id, index |-> at, piece |-> piece]
        Delta(k, id, piece) == [type |-> "block_delta", kind |-> k, id |-> id, index |-> block.index,
                                piece |-> piece]
        arguments == {Delta("tool_use", block.id, piece) : piece \in NextArguments(fed, block.id)}
        deltas == CASE block.kind = "text" -> {Delta("text", NoID, NewPiece(fed))}
                    [] block.kind = "thinking" -> {Delta("thinking", NoID, NewPiece(fed)),
                                                   Delta("signature", NoID, Nothing)}
                    [] block.kind \in {"tool_use", "server_tool_use"} -> arguments
                    [] OTHER -> {}
    IN  CASE fed = <<>> -> {[type |-> "message_start", usage |-> b] : b \in BOOLEAN}
                              \cup {[type |-> "ping"], [type |-> "error"]}
          [] Sent(fed, {"message_stop"}) # {} -> {}
          [] Sent(fed, {"message_delta"}) # {} -> {[type |-> "message_stop"]}
          [] running -> deltas \cup {[type |-> "block_stop", index |-> block.index]}
                               \cup Once(fed, "error", {[type |-> "error"]})
          [] OTHER -> {Block("text", NoID, Nothing), Block("thinking", NoID, Nothing),
                       Block("thinking", NoID, NewPiece(fed)),
                       Block("redacted_thinking", NoID, Nothing),
                       Block("redacted_thinking", NoID, <<"data">>)}
                      \cup {Block("server_tool_use", NoCallID, Nothing)}
                      \cup {Block("tool_use", id, Nothing) : id \in NextCallIDs(calls)}
                      \cup MessageDeltas
                      \cup Once(fed, "error", {[type |-> "error"]})

NextFrames(kind, fed, used) ==
    CASE Len(fed) >= MaxFrames[kind] -> {}
      [] kind \in {"completions", "unnumbered", "inline", "glued"} -> CompletionsFrames(kind, fed)
      [] kind \in {"responses", "websocket"} -> ResponsesFrames(fed)
      [] kind = "gemini" -> GeminiFrames(fed, used)
      [] OTHER -> AnthropicFrames(kind, fed)

\* The next event of the body, by its data lines, and whether the body ends with
\* it and without a blank line.
Event(lines, last) == [lines |-> lines, last |-> last]

\* The frames among the lines of an event.
FramesIn(event) ==
    FlattenSeq([p \in DOMAIN event.lines |->
                   IF IsFrame(event.lines[p]) THEN <<event.lines[p]>> ELSE <<>>])

GluedEvents(fed) ==
    LET Next(after) == NextFrames("glued", after, {})
        pairs == UNION {{<<f, g>> : g \in Next(Append(fed, f))} :
                            f \in {h \in Next(fed) : h.type # "error"}}
        ones == {<<f>> : f \in Next(fed)}
    IN  [lines : pairs \cup ones \cup {<<CutLine, f>> : f \in Next(fed)}
                     \cup {<<f, DoneLine>> : f \in Next(fed)} \cup {<<CutLine>>, <<DoneLine>>},
         last : BOOLEAN]

NextEvents(kind, fed, used) ==
    IF kind = "glued" THEN GluedEvents(fed)
    ELSE {Event(<<f>>, FALSE) : f \in NextFrames(kind, fed, used)}
=============================================================================
