-------------------------- MODULE GeminiSerializer --------------------------
(***************************************************************************)
(* The stream serializer of bamboo/codec/gemini/stream.go: client events    *)
(* in, chunks of generateContent out.  A tool call is held back until its   *)
(* arguments are complete and every call declared before it was written.    *)
(* Arguments are a JSON object when they are absent, one "whole" object, or *)
(* its two halves.  `native' says that the upstream is Gemini: its thoughts *)
(* and signatures are written, those of others are not.                     *)
(*                                                                          *)
(* A serializer s keeps what it wrote in `out' and counts in `errors' the   *)
(* events that it could not serialize.                                      *)
(***************************************************************************)
EXTENDS ClientEvents, SequencesExt

NewGeminiSerializer(native) ==
    [native |-> native, calls |-> <<>>, order |-> <<>>, nextCall |-> 1, thinking |-> <<>>,
     signatures |-> <<>>, failed |-> FALSE, finished |-> FALSE, errors |-> 0, out |-> <<>>]

Part(t, id, data) == [type |-> t, id |-> id, data |-> data]
Parts(s, parts) == [s EXCEPT !.out = @ \o parts]

\* Mutant: the arguments of a call are not checked.
AnyArguments(args) == TRUE

IsObject(args) == args \in {<<>>, <<"whole">>, <<"half", "half">>}

\* A failed serializer forgets its calls and writes nothing any more.
Fail(s) == [s EXCEPT !.failed = TRUE, !.calls = <<>>, !.order = <<>>,
                     !.thinking = <<>>, !.signatures = <<>>]
Failing(s) == [Fail(s) EXCEPT !.errors = @ + 1]

\* A signature of a thought without text goes to the part that follows it.
Takeable(s) ==
    {q \in DOMAIN s.signatures :
        s.thinking[s.signatures[q]].completed /\ ~s.thinking[s.signatures[q]].nonempty}

TakeSignature(s) ==
    IF Takeable(s) = {} THEN s
    ELSE LET first == CHOOSE q \in Takeable(s) : \A r \in Takeable(s) : q <= r
         IN  [s EXCEPT !.signatures = RemoveAt(@, first)]

GeminiBlockStart(s, e) ==
    CASE e.info = "tool_use" /\ e.index \notin DOMAIN s.calls ->
            [TakeSignature(s) EXCEPT
                !.calls = With(@, e.index, [id |-> e.tool, args |-> <<>>,
                                            completed |-> FALSE, emitted |-> FALSE]),
                !.order = Append(@, e.index)]
      [] e.info = "thinking" ->
            [s EXCEPT !.thinking = With(@, e.index, [nonempty |-> FALSE, completed |-> FALSE])]
      [] OTHER -> s

GeminiBlockDelta(s, e, p) ==
    CASE IsSignature(e, p) ->
            IF ~s.native THEN s
            ELSE [s EXCEPT !.signatures = Append(@, e.index),
                           !.thinking = @ @@ (e.index :> [nonempty |-> FALSE, completed |-> FALSE])]
      [] e.info = "text" -> Parts(TakeSignature(s), <<Part("text", NoID, p.piece)>>)
      [] e.info = "thinking" ->
            IF ~s.native \/ e.index \notin DOMAIN s.thinking THEN s
            ELSE Parts([s EXCEPT !.thinking[e.index].nonempty = TRUE],
                       <<Part("thought", NoID, p.piece)>>)
      [] e.index \in DOMAIN s.calls /\ ~s.calls[e.index].completed ->
            [s EXCEPT !.calls[e.index].args = @ \o p.piece]
      [] OTHER -> Failing(s)

\* The calls that can be written now: completed, and none before them is not.
Emittable(s) ==
    {q \in s.nextCall..Len(s.order) :
        \A r \in s.nextCall..q : s.calls[s.order[r]].completed}

EmitCalls(s) ==
    LET upTo == s.nextCall + Cardinality(Emittable(s)) - 1
        emitted == SubSeq(s.order, s.nextCall, upTo)
    IN  [s EXCEPT !.calls = [i \in DOMAIN @ |->
                                IF i \in ToSet(emitted) THEN [@[i] EXCEPT !.emitted = TRUE] ELSE @[i]],
                  !.nextCall = upTo + 1,
                  !.out = @ \o [q \in DOMAIN emitted |->
                                   Part("call", s.calls[emitted[q]].id, s.calls[emitted[q]].args)]]

GeminiBlockStop(t, e) ==
    LET s == IF e.index \in DOMAIN t.thinking
             THEN [t EXCEPT !.thinking[e.index].completed = TRUE] ELSE t
    IN  IF e.index \notin DOMAIN s.calls \/ s.calls[e.index].completed THEN s
        ELSE IF ~IsObject(s.calls[e.index].args) THEN Failing(s)
        ELSE EmitCalls([s EXCEPT !.calls[e.index].completed = TRUE])

Incomplete(s) == \E i \in ToSet(s.order) : ~s.calls[i].emitted

GeminiReason(r) == IF r = "max_tokens" THEN "MAX_TOKENS" ELSE "STOP"

\* The end: signatures that were not taken go out with it.
GeminiMessageDelta(s, e) ==
    CASE ~IsFinalDelta(e) -> s
      [] Incomplete(s) -> Failing(s)
      [] OTHER -> Parts([s EXCEPT !.finished = TRUE, !.signatures = <<>>, !.thinking = <<>>],
                        <<Part("finish", NoID, <<GeminiReason(e.info)>>)>>)

GeminiFlush(s) ==
    IF s.failed \/ s.finished THEN s
    ELSE IF Incomplete(s) THEN Failing(s)
    ELSE [s EXCEPT !.finished = TRUE, !.signatures = <<>>, !.thinking = <<>>]

GeminiSerialize(s, e, p) ==
    IF s.failed \/ s.finished THEN s ELSE
    CASE e.type = "block_start" -> GeminiBlockStart(s, e)
      [] e.type = "block_delta" -> GeminiBlockDelta(s, e, p)
      [] e.type = "block_stop" -> GeminiBlockStop(s, e)
      [] e.type = "message_delta" -> GeminiMessageDelta(s, e)
      [] e.type = "message_stop" -> GeminiFlush(s)
      [] e.type = "error" -> Parts(Fail(s), <<Part("error", NoID, <<>>)>>)
      [] OTHER -> s
=============================================================================
