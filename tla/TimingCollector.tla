---------------------------- MODULE TimingCollector ----------------------------
(***************************************************************************)
(* provider.TimingCollector (provider/timing.go), which a caller of an      *)
(* adapter shows every event of its channel: marks in time and the stages   *)
(* Stats makes of them.  A time is a number that grows with the frames, all *)
(* events of a frame have that of its arrival.  Characters are not counted; *)
(* the collector's `phase' is written and never read.                       *)
(***************************************************************************)
EXTENDS ProviderEvents

Never == 0              \* the zero time
RequestSentAt == 1      \* the anchors that the start event carries
ResponseHeaderAt == 2

NewTimingCollector ==
    [start |-> Never, firstByte |-> Never, stop |-> Never, lastEvent |-> Never,
     requestSent |-> Never, header |-> Never, thinkingStart |-> Never, thinkingEnd |-> Never,
     contentStart |-> Never, contentEnd |-> Never, toolStart |-> Never, usage |-> FALSE]

Mark(time, now) == IF time = Never THEN now ELSE time

\* Mutant: a stage ends again with every event that ends it.
EndsAgain(end, start, now) == IF start # Never THEN now ELSE end

\* A stage that has begun ends once.
Ends(end, start, now) == IF end = Never /\ start # Never THEN now ELSE end

\* A text delta ends the thinking unless the content has ended.
TextDelta(tc, now) ==
    [tc EXCEPT !.contentStart = Mark(@, now),
               !.thinkingEnd = IF tc.contentEnd = Never THEN Ends(@, tc.thinkingStart, now) ELSE @]

TextStart(tc, now) ==
    [tc EXCEPT !.contentStart = Mark(@, now), !.thinkingEnd = Ends(@, tc.thinkingStart, now)]

ToolEvent(tc, now) ==
    [tc EXCEPT !.toolStart = Mark(@, now),
               !.thinkingEnd = Ends(@, tc.thinkingStart, now),
               !.contentEnd = Ends(@, tc.contentStart, now)]

HandleDelta(tc, e, now) ==
    CASE e.type \in {"block", "content"} /\ e.kind = "thinking" ->
            [tc EXCEPT !.thinkingStart = Mark(@, now)]
      [] e.type = "block" /\ e.kind = "text" -> TextStart(tc, now)
      [] e.type = "content" /\ e.kind = "text" -> TextDelta(tc, now)
      [] e.type \in {"tool", "fragment"} \/ e.kind = "tool_use" -> ToolEvent(tc, now)
      [] e.type = "usage" -> [tc EXCEPT !.usage = TRUE]
      [] OTHER -> tc

\* Every delta is taken for the first byte, that of usage or metadata as well.
Observe(tc, e, now) ==
    LET seen == [tc EXCEPT !.lastEvent = now, !.start = Mark(@, now)]
    IN  CASE e.type = "start" ->
                [seen EXCEPT !.requestSent = RequestSentAt, !.header = ResponseHeaderAt]
          [] e.type = "stop" -> [seen EXCEPT !.stop = now]
          [] e.type \in {"done", "error"} -> seen
          [] OTHER -> HandleDelta([seen EXCEPT !.firstByte = Mark(@, now)], e, now)

-----------------------------------------------------------------------------
(* Stats. *)

\* A mark, or what stands in for one that was not set.
Or(mark, standIn) == IF mark # Never THEN mark ELSE standIn

Begin(tc) == Or(tc.requestSent, tc.start)
End(tc) == Or(tc.stop, tc.lastEvent)

\* The stages that have begun (thinking, content, tools), each from its start to the
\* first mark of its end.
Stages(tc) ==
    LET toolEnd == Or(tc.toolStart, End(tc))
        stages == <<[from |-> tc.thinkingStart, to |-> Or(tc.thinkingEnd, Or(tc.contentStart, toolEnd))],
                    [from |-> tc.contentStart, to |-> Or(tc.contentEnd, toolEnd)],
                    [from |-> tc.toolStart, to |-> End(tc)]>>
    IN  [p \in {q \in 1..3 : stages[q].from # Never} |-> stages[p]]
================================================================================
