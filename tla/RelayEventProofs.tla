-------------------------- MODULE RelayEventProofs --------------------------
(***************************************************************************)
(* What is proved of one event on its way through RelayStream.  Dispatched  *)
(* says of each event of an adapter what the converter has pending after it *)
(* (Ordinary events, or the Ending of the message), and for each serializer *)
(* there is a lemma on what it adds to its output for an event and for the  *)
(* flush at the end, and that it ends its output once.  The last part goes  *)
(* back to the request: the turns it has for Gemini.                        *)
(***************************************************************************)
EXTENDS RelayAdapterProofs

-----------------------------------------------------------------------------
(* What the converter makes of an event. *)

\* Events of the client that are neither an error nor the end of a message.
Ordinary(q) ==
    /\ IsSequence(q)
    /\ \A p \in 1..Len(q) : ~IsFinal(q[p]) /\ q[p].type \notin {"error", "message_stop"}

\* The end of a message, behind an error or not.
Ending(q) ==
    /\ IsSequence(q) /\ Len(q) \in Nat /\ Len(q) >= 2
    /\ IsFinal(q[Len(q) - 1]) /\ q[Len(q)].type = "message_stop"
    /\ \A p \in 1..(Len(q) - 2) :
          ~IsFinal(q[p]) /\ q[p].type # "message_stop" /\ (q[p].type = "error" => p = 1)

\* The types of ordinary events, message_delta aside.
ClientTypes == {"message_start", "block_start", "block_delta", "block_stop", "ping"}

LEMMA OrdinaryMade ==
    ASSUME NEW q, Made(q, ClientTypes)
    PROVE  Ordinary(q)
<1>1. \A p \in 1..Len(q) : q[p].type \in ClientTypes
  BY MadeAt
<1>2. IsSequence(q)
  BY DEF Made, IsSequence
<1> QED
  BY <1>1, <1>2 DEF Ordinary, IsFinal, ClientTypes

LEMMA OrdinaryEmpty == Ordinary(<<>>)
  BY MadeEmpty, OrdinaryMade

LEMMA StopsMade ==
    /\ \A b, i : Made(StopIf(b, i), ClientTypes)
    /\ Made(StopAllTextOrThinking, ClientTypes)
<1>1. \A i : BlockStop(i).type \in ClientTypes
  BY DEF BlockStop, Event, ClientTypes
<1>2. \A i : Made(<<BlockStop(i)>>, ClientTypes)
  BY <1>1, MadeOne
<1>3. \A b, i : Made(StopIf(b, i), ClientTypes)
  BY <1>2, MadeEmpty DEF StopIf
<1> QED
  BY <1>3, MadeJoin DEF StopAllTextOrThinking

\* A handler of the middle: it ends nothing and keeps the flags.
Passes ==
    /\ started' = started /\ stopHandled' = stopHandled
    /\ crashed' = crashed \/ (crashed' = TRUE /\ pending' = <<>>)
    /\ Ordinary(pending')
    /\ IsFiniteSet(openTools')

\* The handlers of the middle pass, one lemma for each that does something.
LEMMA PanicPasses ==
    ASSUME Panic, IsFiniteSet(openTools)
    PROVE  Passes
  BY OrdinaryEmpty DEF Panic, Passes

LEMMA IgnorePasses ==
    ASSUME Ignore, IsFiniteSet(openTools), pending = <<>>
    PROVE  Passes
  BY OrdinaryEmpty DEF Ignore, Passes, converterVars

LEMMA ContentPasses ==
    ASSUME NEW k, NEW b, HandleContent(k, b), IsFiniteSet(openTools)
    PROVE  Passes
<1>1. \A i : BlockDelta(i, k).type \in ClientTypes /\ BlockStart(i, k).type \in ClientTypes
  BY DEF BlockDelta, BlockStart, Event, ClientTypes
<1>2. \A i : Made(<<BlockDelta(i, k)>>, ClientTypes) /\ Made(<<BlockStart(i, k)>>, ClientTypes)
  BY <1>1, MadeOne
<1>3. \A i : Made(IF b THEN <<BlockDelta(i, k)>> ELSE <<>>, ClientTypes)
  BY <1>2, MadeEmpty
<1>4. \A i, c, j : Made(StopIf(c, j) \o <<BlockStart(nextIndex, k)>>
                           \o (IF b THEN <<BlockDelta(i, k)>> ELSE <<>>), ClientTypes)
  BY <1>2, <1>3, StopsMade, MadeJoin
<1>5. \E i : \/ pending' = (IF b THEN <<BlockDelta(i, k)>> ELSE <<>>)
             \/ \E c, j : pending' = StopIf(c, j) \o <<BlockStart(nextIndex, k)>>
                                         \o (IF b THEN <<BlockDelta(i, k)>> ELSE <<>>)
  BY Zenon DEF HandleContent
<1>6. Made(pending', ClientTypes)
  BY <1>3, <1>4, <1>5, Zenon
<1>7. started' = started /\ stopHandled' = stopHandled /\ crashed' = crashed /\ openTools' = openTools
  BY DEF HandleContent
<1> QED
  BY <1>6, <1>7, OrdinaryMade DEF Passes

LEMMA ToolPasses ==
    ASSUME NEW id, NEW x, StartToolBlock(id, x), IsFiniteSet(openTools)
    PROVE  Passes
<1>1. ToolStart(nextIndex, id).type \in ClientTypes
  BY DEF ToolStart, Event, ClientTypes
<1>2. Made(<<ToolStart(nextIndex, id)>>, ClientTypes)
  BY <1>1, MadeOne
<1>3. Made(StopAllTextOrThinking \o <<ToolStart(nextIndex, id)>>, ClientTypes)
  BY <1>2, StopsMade, MadeJoin
<1>4. IsFiniteSet(openTools \cup {nextIndex})
  BY FS_AddElement
<1>5. \/ Panic
      \/ /\ started' = started /\ stopHandled' = stopHandled /\ crashed' = crashed
         /\ \/ pending' = StopAllTextOrThinking /\ openTools' = openTools
            \/ /\ pending' = StopAllTextOrThinking \o <<ToolStart(nextIndex, id)>>
               /\ openTools' = openTools \cup {nextIndex}
  BY DEF StartToolBlock
<1>6. CASE Panic
  BY <1>6, PanicPasses
<1>7. CASE ~Panic
  <2>1. Made(pending', ClientTypes) /\ IsFiniteSet(openTools')
    BY <1>3, <1>4, <1>5, <1>7, StopsMade
  <2> QED
    BY <1>5, <1>7, <2>1, OrdinaryMade DEF Passes
<1> QED
  BY <1>6, <1>7

LEMMA OthersPass ==
    ASSUME IsFiniteSet(openTools), pending = <<>>,
           \/ HandleUsage \/ HandleMetadata \/ HandleRedacted
           \/ \E x, id : HandleToolDelta(x, id)
           \/ \E i : HandleBlockStop(i)
           \/ \E r : RecordFinishReason(r)
    PROVE  Passes
<1>1. CASE HandleUsage
  <2>1. Message("ping").type \in ClientTypes
    BY DEF Message, Event, ClientTypes
  <2>2. Made(<<Message("ping")>>, ClientTypes)
    BY <2>1, MadeOne
  <2> QED
    BY <1>1, <2>2, OrdinaryMade DEF HandleUsage, Passes
<1>2. CASE HandleMetadata
  <2> DEFINE q == <<MessageDelta("none")>>
  <2>1. MessageDelta("none").type = "message_delta" /\ MessageDelta("none").info = "none"
    BY DEF MessageDelta, Event
  <2>2. Len(q) = 1 /\ q[1] = MessageDelta("none") /\ IsSequence(q)
    BY SequenceOfOne
  <2> HIDE DEF q
  <2>3. Ordinary(q)
    BY <2>1, <2>2 DEF Ordinary, IsFinal
  <2> QED
    BY <1>2, <2>3 DEF HandleMetadata, Passes, q
<1>3. CASE HandleRedacted
  <2>1. /\ BlockStart(nextIndex, "redacted_thinking").type \in ClientTypes
        /\ BlockStop(nextIndex).type \in ClientTypes
    BY DEF BlockStart, BlockStop, Event, ClientTypes
  <2>2. Made(<<BlockStart(nextIndex, "redacted_thinking"), BlockStop(nextIndex)>>, ClientTypes)
    BY <2>1, MadeTwo
  <2>3. Made(StopAllTextOrThinking
                 \o <<BlockStart(nextIndex, "redacted_thinking"), BlockStop(nextIndex)>>, ClientTypes)
    BY <2>2, StopsMade, MadeJoin
  <2> QED
    BY <1>3, <2>3, OrdinaryMade, PanicPasses DEF HandleRedacted, Passes
<1>4. CASE \E x, id : HandleToolDelta(x, id)
  <2>1. PICK x, id : HandleToolDelta(x, id)
    BY <1>4
  <2>2. \A i : ToolDelta(i, id).type \in ClientTypes
    BY DEF ToolDelta, Event, ClientTypes
  <2>3. Made(<<ToolDelta(ToolDeltaIndex(x), id)>>, ClientTypes)
    BY <2>2, MadeOne
  <2> QED
    BY <2>1, <2>3, OrdinaryMade DEF HandleToolDelta, Passes
<1>5. CASE \E i : HandleBlockStop(i)
  <2>1. PICK i : HandleBlockStop(i)
    BY <1>5
  <2> DEFINE stops == StopIf(i \in openTools, i) \o StopIf(content["text"] = i, i)
                          \o StopIf(content["thinking"] = i, i)
  <2>2. Made(stops, ClientTypes)
    BY StopsMade, MadeJoin
  <2>3. IsFiniteSet(openTools \ {i})
    BY FS_Subset
  <2>4. \/ Ignore \/ Panic
        \/ /\ started' = started /\ stopHandled' = stopHandled /\ crashed' = crashed
           /\ openTools' = openTools \ {i}
           /\ pending' = stops
    BY <2>1 DEF HandleBlockStop
  <2> HIDE DEF stops
  <2> QED
    BY <2>2, <2>3, <2>4, OrdinaryMade, PanicPasses, IgnorePasses DEF Passes
<1>6. CASE \E r : RecordFinishReason(r)
  BY <1>6, OrdinaryEmpty DEF RecordFinishReason, Passes
<1> QED
  BY <1>1, <1>2, <1>3, <1>4, <1>5, <1>6

\* The handler that ends a message.
LEMMA StopEnds ==
    ASSUME NEW prefix, prefix \in {<<>>, <<Message("error")>>}, HandleStop(prefix), IsFiniteSet(openTools)
    PROVE  /\ started' = started /\ stopHandled' = TRUE /\ crashed' = crashed
           /\ Ending(pending') /\ IsFiniteSet(openTools')
           /\ prefix = <<Message("error")>> => pending'[1].type = "error"
<1>1. PICK tools \in Ascending(openTools \ stopped) :
          pending' = prefix
              \o StopIf(content["thinking"] # NoBlock /\ content["thinking"] \notin stopped,
                        content["thinking"])
              \o StopIf(content["text"] # NoBlock /\ content["text"] \notin stopped,
                        content["text"])
              \o [p \in 1..Cardinality(openTools \ stopped) |-> BlockStop(tools[p])]
              \o <<MessageDelta(StopReason), Message("message_stop")>>
  BY Zenon DEF HandleStop
<1> DEFINE x == StopIf(content["thinking"] # NoBlock /\ content["thinking"] \notin stopped,
                       content["thinking"])
           y == StopIf(content["text"] # NoBlock /\ content["text"] \notin stopped, content["text"])
           n == Cardinality(openTools \ stopped)
           z == [p \in 1..n |-> BlockStop(tools[p])]
           last == <<MessageDelta(StopReason), Message("message_stop")>>
           T == {"block_stop"}
<1>2. n \in Nat
  <2>1. IsFiniteSet(openTools \ stopped)
    BY FS_Subset
  <2> QED
    BY <2>1, FS_CardinalityType
<1>3. \A i : BlockStop(i).type \in T
  BY DEF BlockStop, Event
<1>4. Made(z, T)
  <2> DEFINE S == {BlockStop(tools[p]) : p \in 1..n}
  <2>1. z \in Seq(S)
    <3> HIDE DEF n
    <3> QED
      BY <1>2
  <2>2. \A e \in S : e.type \in T
    BY <1>3
  <2> HIDE DEF S, z, T
  <2> QED
    BY <2>1, <2>2 DEF Made
<1>5. Made(x, T) /\ Made(y, T)
  <2>1. \A i : Made(<<BlockStop(i)>>, T)
    BY <1>3, MadeOne
  <2> QED
    BY <2>1, MadeEmpty DEF StopIf
<1> HIDE DEF x, y, z, n, last, T
<1>6. Made(x \o y \o z, T)
  BY <1>4, <1>5, MadeJoin
<1> DEFINE m == x \o y \o z
<1>7. /\ MessageDelta(StopReason).type = "message_delta" /\ MessageDelta(StopReason).info # "none"
      /\ Message("message_stop").type = "message_stop" /\ Message("error").type = "error"
  BY DEF MessageDelta, Message, Event, StopReason
<1>8. \E S : m \in Seq(S)
  BY <1>6 DEF Made
<1>9. \A p \in 1..Len(m) : m[p].type = "block_stop"
  <2>1. Made(m, T)
    BY <1>6
  <2> HIDE DEF m
  <2>2. \A p \in 1..Len(m) : m[p].type \in T
    BY <2>1, MadeAt
  <2> QED
    BY <2>2 DEF T
<1>10. pending' = prefix \o m \o last
  <2>1. PICK S1 : x \in Seq(S1)
    BY <1>5 DEF Made
  <2>2. PICK S2 : y \in Seq(S2)
    BY <1>5 DEF Made
  <2>3. PICK S3 : z \in Seq(S3)
    BY <1>4 DEF Made
  <2>4. PICK S4 : prefix \in Seq(S4)
    <3>1. IsSequence(prefix)
      BY SequenceOfNone, SequenceOfOne
    <3> QED
      BY <3>1 DEF IsSequence
  <2> DEFINE U == S1 \cup S2 \cup S3 \cup S4
  <2>5. x \in Seq(U) /\ y \in Seq(U) /\ z \in Seq(U) /\ prefix \in Seq(U)
    BY <2>1, <2>2, <2>3, <2>4
  <2>6. pending' = prefix \o x \o y \o z \o last
    BY <1>1 DEF x, y, z, n, last
  <2> HIDE DEF U
  <2>7. prefix \o x \o y \o z = prefix \o (x \o y \o z)
    BY <2>5
  <2> QED
    BY <2>6, <2>7
<1> HIDE DEF m
<1>11. prefix \o m \in Seq({prefix[p] : p \in 1..Len(prefix)} \cup {m[p] : p \in 1..Len(m)})
  <2> DEFINE U == {prefix[p] : p \in 1..Len(prefix)} \cup {m[p] : p \in 1..Len(m)}
  <2>1. \E S : prefix \in Seq(S)
    <3>1. IsSequence(prefix)
      BY SequenceOfNone, SequenceOfOne
    <3> QED
      BY <3>1 DEF IsSequence
  <2>2. prefix \in Seq(U) /\ m \in Seq(U)
    BY <1>8, <2>1
  <2> HIDE DEF U
  <2>3. prefix \o m \in Seq(U)
    BY <2>2
  <2> QED
    BY <2>3 DEF U
<1> DEFINE h == prefix \o m
<1>12. /\ Len(h) \in Nat /\ \E S : h \in Seq(S)
       /\ \A p \in 1..Len(h) : h[p].type = "block_stop" \/ (h[p].type = "error" /\ p = 1)
       /\ prefix = <<Message("error")>> => Len(h) >= 1 /\ h[1].type = "error"
  <2>1. Len(h) \in Nat /\ \E S : h \in Seq(S)
    BY <1>11
  <2>2. CASE prefix = <<>>
    <3>1. h = m
      BY <1>8, <2>2
    <3> QED
      BY <1>9, <2>1, <2>2, <3>1
  <2>3. CASE prefix = <<Message("error")>>
    <3> DEFINE w == Message("error")
    <3>0. w.type = "error"
      BY <1>7
    <3> HIDE DEF w
    <3>1. h = <<w>> \o m
      BY <2>3 DEF w
    <3>2. Len(h) = 1 + Len(m) /\ h[1] = w /\ \A p \in 1..Len(h) : p # 1 => h[p] = m[p - 1]
      BY <1>8, <3>1
    <3>3. Len(m) \in Nat
      BY <1>8
    <3> QED
      BY <1>9, <2>1, <3>0, <3>2, <3>3
  <2> QED
    BY <2>2, <2>3
<1> HIDE DEF h
<1> DEFINE d == MessageDelta(StopReason)
           s == Message("message_stop")
<1>13. pending' = Append(Append(h, d), s)
  <2> HIDE DEF d, s
  <2>1. pending' = h \o <<d, s>>
    BY <1>10 DEF h, last, d, s
  <2> QED
    BY <1>12, <2>1
<1>14. d.type = "message_delta" /\ d.info # "none" /\ s.type = "message_stop"
  BY <1>7
<1> HIDE DEF d, s
<1>15. /\ Len(pending') = Len(h) + 2 /\ pending'[Len(h) + 1] = d /\ pending'[Len(h) + 2] = s
       /\ \A p \in 1..Len(h) : pending'[p] = h[p]
       /\ IsSequence(pending')
  <2>1. PICK S : h \in Seq(S)
    BY <1>12
  <2> DEFINE U == S \cup {d, s}
  <2>2. h \in Seq(U) /\ d \in U /\ s \in U
    BY <2>1
  <2> HIDE DEF U
  <2>3. Append(Append(h, d), s) \in Seq(U)
    BY <2>2
  <2> QED
    BY <1>13, <2>2, <2>3 DEF IsSequence
<1>16. Ending(pending')
  BY <1>12, <1>14, <1>15 DEF Ending, IsFinal
<1>17. openTools' = {} /\ started' = started /\ stopHandled' = TRUE /\ crashed' = crashed
  BY DEF HandleStop
<1>18. IsFiniteSet(openTools')
  BY <1>17, FS_EmptySet
<1>19. prefix = <<Message("error")>> => pending'[1].type = "error"
  BY <1>12, <1>15
<1> QED
  BY <1>16, <1>17, <1>18, <1>19

\* What the converter has pending after each event: an error or Done ends a
\* message that is started and not ended, and only such a one.
LEMMA Dispatched ==
    ASSUME NEW e, e.type \in Speech \cup {"done"}, pending = <<>>, IsFiniteSet(openTools),
           started \in BOOLEAN, stopHandled \in BOOLEAN, Dispatch(e)
    PROVE  /\ IsFiniteSet(openTools')
           /\ e.type = "start" => /\ started' = TRUE /\ stopHandled' = FALSE /\ crashed' = crashed
                                  /\ Ordinary(pending')
           /\ e.type = "stop" => pending' = <<>> /\ crashed' = crashed
           /\ e.type \notin {"start", "error", "done"} => Passes
           /\ e.type \in {"error", "done"} => started' = started /\ crashed' = crashed
           /\ e.type \in {"error", "done"} /\ started /\ ~stopHandled =>
                  stopHandled' = TRUE /\ Ending(pending')
           /\ e.type \in {"error", "done"} /\ ~(started /\ ~stopHandled) =>
                  /\ stopHandled' = stopHandled
                  /\ pending' = IF e.type = "error" THEN <<Message("error")>> ELSE <<>>
           /\ e.type = "error" => pending'[1].type = "error"
<1>1. CASE e.type = "start"
  <2>1. Message("message_start").type \in ClientTypes
    BY DEF Message, Event, ClientTypes
  <2>2. Ordinary(<<Message("message_start")>>)
    BY <2>1, MadeOne, OrdinaryMade
  <2>3. HandleStart
    BY <1>1 DEF Dispatch
  <2>4. IsFiniteSet(openTools')
    BY <2>3, FS_EmptySet DEF HandleStart
  <2> QED
    BY <1>1, <2>2, <2>3, <2>4 DEF HandleStart
<1>2. CASE e.type = "stop"
  <2>1. RecordFinishReason(e.kind)
    BY <1>2 DEF Dispatch
  <2>2. Passes
    BY <2>1, OthersPass
  <2>3. pending' = <<>> /\ crashed' = crashed
    BY <2>1 DEF RecordFinishReason
  <2> QED
    BY <1>2, <2>2, <2>3 DEF Passes
<1>3. CASE e.type = "error"
  <2>1. HandleError
    BY <1>3 DEF Dispatch
  <2>2. CASE started /\ ~stopHandled
    <3>1. HandleStop(<<Message("error")>>)
      BY <2>1, <2>2 DEF HandleError
    <3> DEFINE prefix == <<Message("error")>>
    <3>2. prefix \in {<<>>, <<Message("error")>>} /\ HandleStop(prefix) /\ prefix = <<Message("error")>>
      BY <3>1
    <3> HIDE DEF prefix
    <3>3. /\ started' = started /\ stopHandled' = TRUE /\ crashed' = crashed
          /\ Ending(pending') /\ IsFiniteSet(openTools') /\ pending'[1].type = "error"
      BY <3>2, StopEnds
    <3> QED
      BY <1>3, <2>2, <3>3
  <2>3. CASE ~(started /\ ~stopHandled)
    <3>1. /\ pending' = <<Message("error")>> /\ started' = started /\ stopHandled' = stopHandled
          /\ crashed' = crashed /\ openTools' = openTools
      BY <2>1, <2>3 DEF HandleError
    <3>2. Message("error").type = "error"
      BY DEF Message, Event
    <3>3. pending'[1].type = "error"
      BY <3>1, <3>2
    <3> QED
      BY <1>3, <2>3, <3>1, <3>3
  <2> QED
    BY <2>2, <2>3
<1>4. CASE e.type = "done"
  <2>1. HandleDone
    BY <1>4 DEF Dispatch
  <2>2. CASE started /\ ~stopHandled
    <3>1. HandleStop(<<>>)
      BY <2>1, <2>2 DEF HandleDone
    <3> DEFINE prefix == <<>>
    <3>2. prefix \in {<<>>, <<Message("error")>>} /\ HandleStop(prefix)
      BY <3>1
    <3> HIDE DEF prefix
    <3>3. /\ started' = started /\ stopHandled' = TRUE /\ crashed' = crashed
          /\ Ending(pending') /\ IsFiniteSet(openTools')
      BY <3>2, StopEnds
    <3> QED
      BY <1>4, <2>2, <3>3
  <2>3. CASE ~(started /\ ~stopHandled)
    <3>1. Ignore
      BY <2>1, <2>3 DEF HandleDone
    <3> QED
      BY <1>4, <2>3, <3>1 DEF Ignore, converterVars
  <2> QED
    BY <2>2, <2>3
<1>5. CASE e.type \notin {"start", "stop", "error", "done"}
  <2>1. \/ HandleUsage \/ HandleMetadata \/ HandleRedacted \/ Ignore
        \/ \E k, b : HandleContent(k, b)
        \/ \E id, x : StartToolBlock(id, x)
        \/ \E x, id : HandleToolDelta(x, id)
        \/ \E i : HandleBlockStop(i)
    BY <1>5 DEF Dispatch
  <2>2. Passes
    BY <2>1, OthersPass, ContentPasses, ToolPasses, IgnorePasses
  <2> QED
    BY <1>5, <2>2 DEF Passes
<1> QED
  BY <1>1, <1>2, <1>3, <1>4, <1>5

\* HandleDone by itself, when the channel of the adapter was closed.
LEMMA Closed ==
    ASSUME HandleDone, pending = <<>>, IsFiniteSet(openTools), started \in BOOLEAN, stopHandled \in BOOLEAN
    PROVE  /\ IsFiniteSet(openTools') /\ started' = started /\ crashed' = crashed
           /\ started /\ ~stopHandled => stopHandled' = TRUE /\ Ending(pending')
           /\ ~(started /\ ~stopHandled) => stopHandled' = stopHandled /\ pending' = <<>>
<1>1. API!DoneEvent.type = "done"
  BY DEF API!DoneEvent, API!Plain, API!PEvent
<1>2. Dispatch(API!DoneEvent)
  BY <1>1 DEF Dispatch
<1> DEFINE e == API!DoneEvent
<1>3. e.type \in Speech \cup {"done"} /\ e.type = "done" /\ Dispatch(e)
  BY <1>1, <1>2
<1> HIDE DEF e
<1>4. /\ IsFiniteSet(openTools')
      /\ e.type \in {"error", "done"} => started' = started /\ crashed' = crashed
      /\ e.type \in {"error", "done"} /\ started /\ ~stopHandled =>
             stopHandled' = TRUE /\ Ending(pending')
      /\ e.type \in {"error", "done"} /\ ~(started /\ ~stopHandled) =>
             /\ stopHandled' = stopHandled
             /\ pending' = IF e.type = "error" THEN <<Message("error")>> ELSE <<>>
  BY <1>3, Dispatched
<1> QED
  BY <1>3, <1>4

-----------------------------------------------------------------------------
(* The serializer of the Responses API. *)

\* What the Responses serializer writes before the end.
Between == {"created", "added", "delta", "done"}

\* The fields of the serializer that its end depends on.
ResponsesKeeps(s) == {"failed", "completed", "out"} \subseteq DOMAIN s /\ IsSequence(s.out)

\* t wrote more than s, but no end.
Continues(s, t) ==
    /\ ResponsesKeeps(t) /\ t.failed = s.failed /\ t.completed = s.completed
    /\ Len(s.out) \in Nat /\ Len(t.out) \in Nat /\ Len(s.out) <= Len(t.out)
    /\ \A p \in 1..Len(s.out) : t.out[p] = s.out[p]
    /\ \A p \in 1..Len(t.out) : p > Len(s.out) => t.out[p].ev \in Between

LEMMA ContinuesSame ==
    ASSUME NEW s, ResponsesKeeps(s), NEW t, DOMAIN t = DOMAIN s,
           t.failed = s.failed, t.completed = s.completed, t.out = s.out
    PROVE  Continues(s, t)
<1>1. PICK S : s.out \in Seq(S)
  BY DEF ResponsesKeeps, IsSequence
<1>2. Len(s.out) \in Nat
  BY <1>1
<1> QED
  BY <1>2 DEF Continues, ResponsesKeeps

\* Going on twice is going on.
LEMMA ContinuesOn ==
    ASSUME NEW r, NEW s, NEW t, Continues(r, s), Continues(s, t)
    PROVE  Continues(r, t)
<1>1. \A p \in 1..Len(r.out) : p \in 1..Len(s.out) /\ t.out[p] = r.out[p]
  BY DEF Continues
<1>2. ASSUME NEW p \in 1..Len(t.out), p > Len(r.out)
      PROVE  t.out[p].ev \in Between
  <2>1. CASE p <= Len(s.out)
    <3>1. p \in 1..Len(s.out)
      BY <1>2, <2>1 DEF Continues
    <3> QED
      BY <1>2, <3>1 DEF Continues
  <2>2. CASE ~(p <= Len(s.out))
    BY <1>2, <2>2 DEF Continues
  <2> QED
    BY <2>1, <2>2
<1>3. Len(r.out) <= Len(t.out)
  BY DEF Continues
<1> QED
  BY <1>1, <1>2, <1>3 DEF Continues

LEMMA SequenceAppend ==
    ASSUME NEW q, IsSequence(q), NEW w
    PROVE  /\ IsSequence(Append(q, w)) /\ Len(q) \in Nat /\ Len(Append(q, w)) = Len(q) + 1
           /\ Append(q, w)[Len(q) + 1] = w
           /\ \A p \in 1..Len(q) : Append(q, w)[p] = q[p]
<1>1. PICK S : q \in Seq(S)
  BY DEF IsSequence
<1>2. Append(q, w) \in Seq(S \cup {w})
  BY <1>1
<1> QED
  BY <1>1, <1>2 DEF IsSequence

LEMMA SequenceJoin ==
    ASSUME NEW q, IsSequence(q), NEW r, IsSequence(r)
    PROVE  /\ IsSequence(q \o r) /\ Len(q) \in Nat /\ Len(r) \in Nat
           /\ Len(q \o r) = Len(q) + Len(r)
           /\ \A p \in 1..Len(q) : (q \o r)[p] = q[p]
           /\ \A p \in 1..(Len(q) + Len(r)) : p > Len(q) => (q \o r)[p] = r[p - Len(q)]
<1>1. PICK S : q \in Seq(S)
  BY DEF IsSequence
<1>2. PICK R : r \in Seq(R)
  BY DEF IsSequence
<1>3. q \o r \in Seq(S \cup R)
  BY <1>1, <1>2
<1> QED
  BY <1>1, <1>2, <1>3 DEF IsSequence

LEMMA WriteContinues ==
    ASSUME NEW s, ResponsesKeeps(s), NEW w, w.ev \in Between
    PROVE  Continues(s, ToResponses!Write(s, w))
<1> DEFINE t == ToResponses!Write(s, w)
<1>1. /\ DOMAIN t = DOMAIN s /\ t.failed = s.failed /\ t.completed = s.completed
      /\ t.out = Append(s.out, w)
  BY DEF ToResponses!Write, ResponsesKeeps
<1> HIDE DEF t
<1>2. /\ IsSequence(t.out) /\ Len(s.out) \in Nat /\ Len(t.out) = Len(s.out) + 1
      /\ t.out[Len(s.out) + 1] = w
      /\ \A p \in 1..Len(s.out) : t.out[p] = s.out[p]
  BY <1>1, SequenceAppend DEF ResponsesKeeps
<1>3. Continues(s, t)
  BY <1>1, <1>2 DEF Continues, ResponsesKeeps
<1> QED
  BY <1>3 DEF t

LEMMA EnsuredCreated ==
    ASSUME NEW s, ResponsesKeeps(s)
    PROVE  Continues(s, ToResponses!EnsureCreated(s))
<1>1. CASE s.created
  <2>1. Continues(s, s)
    BY ContinuesSame
  <2> QED
    BY <1>1, <2>1 DEF ToResponses!EnsureCreated
<1>2. CASE ~s.created
  <2> DEFINE t == [s EXCEPT !.created = TRUE]
             w == ToResponses!Response("created", <<>>)
  <2>1. DOMAIN t = DOMAIN s /\ t.failed = s.failed /\ t.completed = s.completed /\ t.out = s.out
    BY DEF ResponsesKeeps
  <2>2. w.ev \in Between
    BY DEF ToResponses!Response, Between
  <2>3. ToResponses!EnsureCreated(s) = ToResponses!Write(t, w)
    BY <1>2 DEF ToResponses!EnsureCreated
  <2> HIDE DEF t, w
  <2>4. Continues(s, t)
    BY <2>1, ContinuesSame
  <2>5. Continues(t, ToResponses!Write(t, w))
    BY <2>2, <2>4, WriteContinues DEF Continues
  <2> QED
    BY <2>3, <2>4, <2>5, ContinuesOn
<1> QED
  BY <1>1, <1>2

\* The records that are made for a block write nothing.
Quiet0(s, t) ==
    DOMAIN t = DOMAIN s /\ t.failed = s.failed /\ t.completed = s.completed /\ t.out = s.out

LEMMA BlocksQuiet ==
    ASSUME NEW s, ResponsesKeeps(s), NEW i, NEW call
    PROVE  /\ Quiet0(s, ToResponses!EnsureMessageBlock(s, i))
           /\ Quiet0(s, ToResponses!EnsureReasoningBlock(s, i))
           /\ Quiet0(s, ToResponses!EnsureToolBlock(s, i, call))
           /\ Quiet0(s, ToResponses!StoppedBlock(s, i))
<1>1. ASSUME NEW x, NEW y, NEW z
      PROVE  /\ Quiet0(s, [s EXCEPT !.blocks = x])
             /\ Quiet0(s, [[s EXCEPT !.messageAdded = TRUE, !.messageIndex = x, !.next = y]
                              EXCEPT !.blocks = z])
             /\ Quiet0(s, [[s EXCEPT !.reasoningID = TRUE, !.reasoningIndex = x, !.next = y]
                              EXCEPT !.blocks = z])
             /\ Quiet0(s, [s EXCEPT !.next = x, !.currentCall = y, !.blocks = z])
  BY DEF Quiet0, ResponsesKeeps
<1>2. Quiet0(s, s)
  BY DEF Quiet0
<1>3. Quiet0(s, ToResponses!EnsureMessageBlock(s, i))
  BY <1>1, <1>2, Zenon DEF ToResponses!EnsureMessageBlock
<1>4. Quiet0(s, ToResponses!EnsureReasoningBlock(s, i))
  BY <1>1, <1>2, Zenon DEF ToResponses!EnsureReasoningBlock
<1>5. Quiet0(s, ToResponses!EnsureToolBlock(s, i, call))
  BY <1>1, <1>2, Zenon DEF ToResponses!EnsureToolBlock
<1>6. Quiet0(s, ToResponses!StoppedBlock(s, i))
  BY <1>2, <1>3, <1>4, Zenon DEF ToResponses!StoppedBlock
<1> QED
  BY <1>3, <1>4, <1>5, <1>6

LEMMA QuietContinues ==
    ASSUME NEW s, NEW t, NEW u, Continues(s, t), Quiet0(t, u)
    PROVE  Continues(s, u) /\ ResponsesKeeps(u)
  BY DEF Continues, Quiet0, ResponsesKeeps

LEMMA WriteOn ==
    ASSUME NEW s, NEW t, Continues(s, t), NEW w, w.ev \in Between
    PROVE  Continues(s, ToResponses!Write(t, w))
<1>1. Continues(t, ToResponses!Write(t, w))
  BY WriteContinues DEF Continues
<1> QED
  BY <1>1, ContinuesOn

LEMMA BlockStartContinues ==
    ASSUME NEW s, ResponsesKeeps(s), NEW e
    PROVE  Continues(s, ToResponses!ResponsesBlockStart(s, e))
<1> DEFINE c == ToResponses!EnsureCreated(s)
           d == [s EXCEPT !.created = TRUE]
<1>1. Continues(s, c)
  BY EnsuredCreated
<1>2. Quiet0(s, d) /\ ResponsesKeeps(d) /\ Continues(s, s)
  BY ContinuesSame DEF Quiet0, ResponsesKeeps
<1>3. Continues(s, d)
  BY <1>2, QuietContinues
<1> HIDE DEF c, d
<1>4. \A i, x : ToResponses!Wrote("added", x).ev \in Between
  BY DEF ToResponses!Wrote, Between
<1>5. ASSUME NEW t, Continues(s, t), NEW i
      PROVE  Continues(s, ToResponses!ItemStart(t, i))
  BY <1>4, <1>5, WriteOn DEF ToResponses!ItemStart
<1>6. ResponsesKeeps(c)
  BY <1>1 DEF Continues
<1>7. \A i, call : /\ Continues(s, ToResponses!EnsureMessageBlock(d, i))
                   /\ Continues(s, ToResponses!EnsureMessageBlock(c, i))
                   /\ Continues(s, ToResponses!EnsureReasoningBlock(c, i))
                   /\ Continues(s, ToResponses!EnsureToolBlock(c, i, call))
  BY <1>1, <1>2, <1>3, <1>6, BlocksQuiet, QuietContinues
<1> QED
  BY <1>1, <1>5, <1>7, Zenon DEF ToResponses!ResponsesBlockStart, c, d

LEMMA BlockDeltaContinues ==
    ASSUME NEW s, ResponsesKeeps(s), NEW e, NEW p
    PROVE  Continues(s, ToResponses!ResponsesBlockDelta(s, e, p))
<1> DEFINE c == ToResponses!EnsureCreated(s)
           message == ToResponses!EnsureMessageBlock(s, e.index)
           reasoning == ToResponses!EnsureReasoningBlock(c, e.index)
           tool == ToResponses!EnsureToolBlock(s, e.index, s.currentCall)
           m == [message EXCEPT !.text = @ \o p.piece]
           r == [reasoning EXCEPT !.thought = @ \o p.piece]
           t == [tool EXCEPT !.blocks[e.index].data = @ \o p.piece]
<1>1. Continues(s, c)
  BY EnsuredCreated
<1>2. ResponsesKeeps(c) /\ Continues(s, s)
  BY <1>1, ContinuesSame DEF Continues
<1>3. /\ Continues(s, message) /\ Continues(s, reasoning) /\ Continues(s, tool)
      /\ Continues(s, ToResponses!EnsureReasoningBlock(s, e.index))
  <2> HIDE DEF c
  <2> QED
    BY <1>1, <1>2, BlocksQuiet, QuietContinues
<1>4. Quiet0(message, m) /\ Quiet0(reasoning, r) /\ Quiet0(tool, t)
  <2>1. ResponsesKeeps(message) /\ ResponsesKeeps(reasoning) /\ ResponsesKeeps(tool)
    BY <1>3 DEF Continues
  <2> HIDE DEF message, reasoning, tool
  <2> QED
    BY <2>1 DEF Quiet0, ResponsesKeeps
<1> HIDE DEF m, r, t
<1>5. Continues(s, m) /\ Continues(s, r) /\ Continues(s, t)
  <2> HIDE DEF message, reasoning, tool
  <2> QED
    BY <1>3, <1>4, QuietContinues
<1>6. \A x : ToResponses!Wrote("delta", x).ev \in Between
  BY DEF ToResponses!Wrote, Between
<1>7. ASSUME NEW u, Continues(s, u), NEW i, NEW piece
      PROVE  Continues(s, ToResponses!ItemDelta(u, i, piece))
  BY <1>6, <1>7, WriteOn DEF ToResponses!ItemDelta
<1> QED
  BY <1>3, <1>5, <1>7, Zenon DEF ToResponses!ResponsesBlockDelta, m, r, t, message, reasoning, tool, c

LEMMA BlockStopContinues ==
    ASSUME NEW s, ResponsesKeeps(s), NEW e
    PROVE  Continues(s, ToResponses!ResponsesBlockStop(s, e))
<1> DEFINE b == ToResponses!StoppedBlock(s, e.index)
<1>1. Continues(s, b)
  <2>1. Continues(s, s) /\ Quiet0(s, b)
    BY ContinuesSame, BlocksQuiet
  <2> HIDE DEF b
  <2> QED
    BY <2>1, QuietContinues
<1> HIDE DEF b
<1>2. \A x : ToResponses!Wrote("done", x).ev \in Between
  BY DEF ToResponses!Wrote, Between
<1>3. \A x, y : Quiet0(b, [b EXCEPT !.blocks = x, !.output = y])
  BY <1>1 DEF Quiet0, Continues, ResponsesKeeps
<1>4. \A x, y : Continues(s, [b EXCEPT !.blocks = x, !.output = y])
  BY <1>1, <1>3, QuietContinues
<1>5. \A x, y, z : Continues(s, ToResponses!Write([b EXCEPT !.blocks = x, !.output = y],
                                                  ToResponses!Wrote("done", z)))
  BY <1>2, <1>4, WriteOn
<1> QED
  BY <1>1, <1>5, Zenon DEF ToResponses!ResponsesBlockStop, b

\* The last event written is an end, and it was none before.
EndsResponses(s, t, evs) ==
    \E u : /\ Continues(s, u) /\ ResponsesKeeps(t) /\ Len(t.out) = Len(u.out) + 1
           /\ t.out[Len(t.out)].ev \in evs
           /\ \A p \in 1..Len(u.out) : t.out[p] = u.out[p]
           /\ t.completed = TRUE

\* An event but the final one and an error goes on; those two end the reply,
\* unless it is failed or completed already.
LEMMA ResponsesSerialized ==
    ASSUME NEW s, ResponsesKeeps(s), NEW e, NEW p
    PROVE  LET t == ToResponses!ResponsesSerialize(s, e, p) IN
           /\ ResponsesKeeps(t)
           /\ s.failed \/ e.type = "message_stop" => t = s
           /\ ~s.failed /\ e.type = "error" =>
                  t.failed = TRUE /\ EndsResponses(s, t, {"failed"})
           /\ ~s.failed /\ IsFinal(e) =>
                  IF s.completed THEN t = s
                  ELSE t.failed = s.failed /\ EndsResponses(s, t, {"completed", "incomplete"})
           /\ ~s.failed /\ e.type # "error" /\ ~IsFinal(e) => Continues(s, t)
<1> DEFINE t == ToResponses!ResponsesSerialize(s, e, p)
<1>0. Continues(s, s)
  BY ContinuesSame
<1>1. CASE s.failed
  <2>1. t = s
    BY <1>1, Zenon DEF ToResponses!ResponsesSerialize
  <2> HIDE DEF t
  <2>2. ResponsesKeeps(t)
    BY <2>1
  <2> QED
    BY <1>1, <2>1, <2>2 DEF t
<1>2. CASE ~s.failed /\ e.type = "error"
  <2> DEFINE w == ToResponses!Response("failed", <<>>)
             u == [s EXCEPT !.failed = TRUE, !.completed = TRUE, !.blocks = <<>>]
  <2>1. t = ToResponses!Write(u, w)
    BY <1>2 DEF ToResponses!ResponsesSerialize, ToResponses!ResponsesError
  <2>2. w.ev = "failed"
    BY DEF ToResponses!Response
  <2>3. u.out = s.out /\ u.failed = TRUE /\ u.completed = TRUE /\ DOMAIN u = DOMAIN s
    BY DEF ResponsesKeeps
  <2> HIDE DEF u, w, t
  <2>4. t.out = Append(s.out, w) /\ t.failed = TRUE /\ t.completed = TRUE /\ DOMAIN t = DOMAIN s
    BY <2>1, <2>3 DEF ToResponses!Write, ResponsesKeeps
  <2>5. EndsResponses(s, t, {"failed"})
    <3>1. /\ IsSequence(t.out) /\ Len(t.out) = Len(s.out) + 1 /\ t.out[Len(t.out)] = w
          /\ \A q \in 1..Len(s.out) : t.out[q] = s.out[q]
      BY <2>4, SequenceAppend DEF ResponsesKeeps
    <3> QED
      BY <1>0, <2>2, <2>4, <3>1 DEF EndsResponses, ResponsesKeeps
  <2>6. ResponsesKeeps(t)
    BY <2>5 DEF EndsResponses
  <2> QED
    BY <1>2, <2>4, <2>5, <2>6 DEF IsFinal, t
<1>3. CASE ~s.failed /\ e.type = "message_delta"
  <2> DEFINE m == ToResponses!ApplyReasoningMeta(s, p)
             c == ToResponses!EnsureCreated(m)
             w == ToResponses!Response(IF e.info = "max_tokens" THEN "incomplete" ELSE "completed", c.output)
             u == [c EXCEPT !.completed = TRUE]
  <2>1. Continues(s, m)
    <3>1. Quiet0(s, m)
      BY DEF Quiet0, ToResponses!ApplyReasoningMeta, ResponsesKeeps
    <3> HIDE DEF m
    <3> QED
      BY <1>0, <3>1, QuietContinues
  <2>2. Continues(s, c)
    <3>1. ResponsesKeeps(m)
      BY <2>1 DEF Continues
    <3> HIDE DEF m
    <3>2. Continues(m, ToResponses!EnsureCreated(m))
      BY <3>1, EnsuredCreated
    <3> QED
      BY <2>1, <3>2, ContinuesOn
  <2>3. t = ToResponses!ResponsesMessageDelta(s, e, p)
    BY <1>3 DEF ToResponses!ResponsesSerialize
  <2>4. t = IF ~IsFinal(e) THEN c ELSE IF c.completed THEN s ELSE ToResponses!Write(u, w)
    <3> HIDE DEF t
    <3> QED
      BY <1>3, <2>3, Zenon DEF ToResponses!ResponsesMessageDelta, ToResponses!IsFinalDelta, IsFinal
  <2>5. w.ev \in {"completed", "incomplete"}
    BY DEF ToResponses!Response
  <2> HIDE DEF m, c, w, t
  <2>6. ResponsesKeeps(c) /\ c.completed = s.completed /\ c.failed = s.failed
    BY <2>2 DEF Continues
  <2>7. u.out = c.out /\ u.failed = c.failed /\ u.completed = TRUE /\ DOMAIN u = DOMAIN c
    BY <2>6 DEF ResponsesKeeps
  <2> HIDE DEF u
  <2>8. CASE IsFinal(e) /\ ~s.completed
    <3>1. t.out = Append(c.out, w) /\ t.failed = s.failed /\ t.completed = TRUE /\ DOMAIN t = DOMAIN c
      BY <2>4, <2>6, <2>7, <2>8 DEF ToResponses!Write, ResponsesKeeps
    <3>2. /\ IsSequence(t.out) /\ Len(t.out) = Len(c.out) + 1 /\ t.out[Len(t.out)] = w
          /\ \A q \in 1..Len(c.out) : t.out[q] = c.out[q]
      BY <2>6, <3>1, SequenceAppend DEF ResponsesKeeps
    <3>3. ResponsesKeeps(t)
      BY <2>6, <3>1, <3>2 DEF ResponsesKeeps
    <3>4. EndsResponses(s, t, {"completed", "incomplete"})
      BY <2>2, <2>5, <3>1, <3>2, <3>3 DEF EndsResponses
    <3> QED
      BY <1>3, <2>8, <3>1, <3>3, <3>4 DEF t
  <2>9. CASE IsFinal(e) /\ s.completed
    BY <1>0, <1>3, <2>4, <2>6, <2>9 DEF t, Continues
  <2>10. CASE ~IsFinal(e)
    BY <1>3, <2>2, <2>4, <2>6, <2>10 DEF t
  <2> QED
    BY <2>8, <2>9, <2>10
<1>4. CASE ~s.failed /\ e.type \notin {"error", "message_delta"}
  <2>1. ~IsFinal(e)
    BY <1>4 DEF IsFinal
  <2>2. /\ Continues(s, t)
        /\ e.type = "message_stop" => t = s
    BY <1>0, <1>4, EnsuredCreated, BlockStartContinues, BlockDeltaContinues, BlockStopContinues
       DEF ToResponses!ResponsesSerialize
  <2> HIDE DEF t
  <2>3. ResponsesKeeps(t)
    BY <2>2 DEF Continues
  <2> QED
    BY <1>4, <2>1, <2>2, <2>3 DEF t
<1> QED
  BY <1>1, <1>2, <1>3, <1>4

-----------------------------------------------------------------------------
(* What a serializer adds to its output. *)

\* r is q and then more, of these types only.
Adds(q, r, types) ==
    /\ IsSequence(r) /\ Len(q) \in Nat /\ Len(r) \in Nat /\ Len(q) <= Len(r)
    /\ \A p \in 1..Len(q) : r[p] = q[p]
    /\ \A p \in 1..Len(r) : p > Len(q) => r[p].type \in types

LEMMA AddsNothing ==
    ASSUME NEW q, IsSequence(q), NEW types
    PROVE  Adds(q, q, types)
<1>1. Len(q) \in Nat
  <2>1. PICK S : q \in Seq(S)
    BY DEF IsSequence
  <2> QED
    BY <2>1
<1> QED
  BY <1>1 DEF Adds

LEMMA AddsMade ==
    ASSUME NEW q, IsSequence(q), NEW r, NEW types, Made(r, types)
    PROVE  Adds(q, q \o r, types)
<1>1. IsSequence(r)
  BY DEF Made, IsSequence
<1>2. /\ IsSequence(q \o r) /\ Len(q) \in Nat /\ Len(r) \in Nat
      /\ Len(q \o r) = Len(q) + Len(r)
      /\ \A p \in 1..Len(q) : (q \o r)[p] = q[p]
      /\ \A p \in 1..(Len(q) + Len(r)) : p > Len(q) => (q \o r)[p] = r[p - Len(q)]
  BY <1>1, SequenceJoin
<1>3. \A p \in 1..Len(r) : r[p].type \in types
  BY MadeAt
<1> DEFINE z == q \o r
<1> HIDE DEF z
<1>4. Adds(q, z, types)
  BY <1>2, <1>3 DEF Adds, z
<1> QED
  BY <1>4 DEF z

-----------------------------------------------------------------------------
(* The serializer of chat completions. *)

\* The field of the serializer that its end depends on.
OpenAIKeeps(s) == "out" \in DOMAIN s /\ IsSequence(s.out)

\* What it sends before the finish.
OpenAITypes == {"role", "call", "signature", "text", "thinking", "arguments", "error"}

\* t sent more than s, of these types only.
OpenAIAdds(s, t, types) == OpenAIKeeps(t) /\ Adds(s.out, t.out, types)

LEMMA SendAdds ==
    ASSUME NEW s, OpenAIKeeps(s), NEW c, NEW types, c.type \in types
    PROVE  OpenAIAdds(s, ToOpenAI!Send(s, <<c>>), types)
<1> DEFINE t == ToOpenAI!Send(s, <<c>>)
           r == <<c>>
<1>1. t.out = s.out \o r /\ "out" \in DOMAIN t
  BY DEF ToOpenAI!Send, OpenAIKeeps
<1>2. Made(r, types)
  BY MadeOne
<1> HIDE DEF t, r
<1>3. Adds(s.out, t.out, types)
  BY <1>1, <1>2, AddsMade DEF OpenAIKeeps
<1>4. OpenAIAdds(s, t, types)
  BY <1>1, <1>3 DEF OpenAIAdds, OpenAIKeeps, Adds
<1> QED
  BY <1>4 DEF t

LEMMA ChunkTypes ==
    /\ \A t, n, id, data : ToOpenAI!Chunk(t, n, id, data).type = t
    /\ \A t : ToOpenAI!ChunkOf(t).type = t
  BY DEF ToOpenAI!Chunk, ToOpenAI!ChunkOf

\* Only the final event makes a finish; usage may follow it.
LEMMA OpenAISerialized ==
    ASSUME NEW s, OpenAIKeeps(s), NEW e, NEW p
    PROVE  LET t == ToOpenAI!OpenAISerialize(s, e, p) IN
           /\ OpenAIKeeps(t)
           /\ e.type = "message_stop" => t = s
           /\ ~IsFinal(e) => OpenAIAdds(s, t, OpenAITypes)
           /\ IsFinal(e) => /\ Adds(s.out, t.out, {"finish", "usage"})
                            /\ Len(t.out) = Len(s.out) + 2
                            /\ t.out[Len(s.out) + 1].type = "finish"
                            /\ t.out[Len(s.out) + 2].type = "usage"
<1> DEFINE t == ToOpenAI!OpenAISerialize(s, e, p)
<1>0. OpenAIAdds(s, s, OpenAITypes)
  BY AddsNothing DEF OpenAIAdds, OpenAIKeeps
<1>1. CASE e.type = "message_delta" /\ IsFinal(e)
  <2> DEFINE x == ToOpenAI!Chunk("finish", ToOpenAI!NoCall, NoID, <<ToOpenAI!OpenAIReason(e.info)>>)
             y == ToOpenAI!ChunkOf("usage")
             r == <<x, y>>
  <2>1. x.type = "finish" /\ y.type = "usage"
    BY ChunkTypes
  <2>2. ToOpenAI!OpenAIMessageDelta(s, e) = [s EXCEPT !.out = @ \o r]
    BY <1>1, Zenon DEF ToOpenAI!OpenAIMessageDelta, ToOpenAI!IsFinalDelta, IsFinal, ToOpenAI!Send
  <2> HIDE DEF x, y
  <2>3. Made(r, {"finish", "usage"})
    BY <2>1, MadeTwo
  <2>4. Len(r) = 2 /\ r[1] = x /\ r[2] = y
    OBVIOUS
  <2> HIDE DEF r
  <2>5. t = [s EXCEPT !.out = @ \o r]
    BY <1>1, <2>2 DEF ToOpenAI!OpenAISerialize
  <2> HIDE DEF t
  <2>6. t.out = s.out \o r /\ "out" \in DOMAIN t
    BY <2>5 DEF OpenAIKeeps
  <2>7. Adds(s.out, t.out, {"finish", "usage"})
    BY <2>3, <2>6, AddsMade DEF OpenAIKeeps
  <2>8. IsSequence(r)
    BY <2>3 DEF Made, IsSequence
  <2>9. /\ Len(s.out) \in Nat /\ Len(t.out) = Len(s.out) + 2
        /\ t.out[Len(s.out) + 1] = r[1] /\ t.out[Len(s.out) + 2] = r[2]
    <3> DEFINE q == s.out
    <3>1. IsSequence(q)
      BY DEF OpenAIKeeps
    <3>2. t.out = q \o r
      BY <2>6
    <3> HIDE DEF q
    <3>3. /\ Len(q) \in Nat /\ Len(q \o r) = Len(q) + Len(r)
          /\ \A i \in 1..(Len(q) + Len(r)) : i > Len(q) => (q \o r)[i] = r[i - Len(q)]
      BY <2>8, <3>1, SequenceJoin
    <3>4. Len(q) + 1 \in 1..(Len(q) + 2) /\ Len(q) + 2 \in 1..(Len(q) + 2)
      BY <3>3
    <3>5. (q \o r)[Len(q) + 1] = r[1] /\ (q \o r)[Len(q) + 2] = r[2]
      BY <2>4, <3>3, <3>4
    <3> QED
      BY <2>4, <3>2, <3>3, <3>5 DEF q
  <2> QED
    BY <1>1, <2>1, <2>4, <2>6, <2>7, <2>9 DEF t, OpenAIKeeps, Adds
<1>2. CASE e.type = "message_delta" /\ ~IsFinal(e)
  <2>1. ToOpenAI!OpenAIMessageDelta(s, e) = s
    BY <1>2, Zenon DEF ToOpenAI!OpenAIMessageDelta, ToOpenAI!IsFinalDelta, IsFinal
  <2>2. t = s
    BY <1>2, <2>1 DEF ToOpenAI!OpenAISerialize
  <2> HIDE DEF t
  <2> QED
    BY <1>0, <1>2, <2>2 DEF t
<1>3. CASE e.type # "message_delta"
  <2>1. \A c : c.type \in OpenAITypes => OpenAIAdds(s, ToOpenAI!Send(s, <<c>>), OpenAITypes)
    BY SendAdds
  <2>2. OpenAIAdds(s, ToOpenAI!OpenAIBlockDelta(s, e, p), OpenAITypes)
    BY <2>1, ChunkTypes DEF ToOpenAI!OpenAIBlockDelta, OpenAITypes
  <2>3. OpenAIAdds(s, ToOpenAI!OpenAIBlockStart(s, e), OpenAITypes)
    <3> DEFINE c == ToOpenAI!Chunk("call", s.toolIndex, e.tool, <<>>)
               u == [s EXCEPT !.byBlock = ToOpenAI!With(@, e.index, s.toolIndex),
                              !.currentTool = s.toolIndex, !.toolIndex = @ + 1]
    <3>1. c.type \in OpenAITypes
      BY ChunkTypes DEF OpenAITypes
    <3>2. u.out = s.out /\ OpenAIKeeps(u)
      BY DEF OpenAIKeeps
    <3>3. ToOpenAI!OpenAIBlockStart(s, e) = IF e.info # "tool_use" THEN s ELSE ToOpenAI!Send(u, <<c>>)
      BY Zenon DEF ToOpenAI!OpenAIBlockStart
    <3> HIDE DEF c, u
    <3>4. OpenAIAdds(u, ToOpenAI!Send(u, <<c>>), OpenAITypes)
      BY <3>1, <3>2, SendAdds
    <3> QED
      BY <1>0, <3>2, <3>3, <3>4 DEF OpenAIAdds
  <2>4. OpenAIAdds(s, t, OpenAITypes) /\ (e.type = "message_stop" => t = s)
    BY <1>0, <1>3, <2>1, <2>2, <2>3, ChunkTypes DEF ToOpenAI!OpenAISerialize, OpenAITypes
  <2> HIDE DEF t
  <2>5. ~IsFinal(e)
    BY <1>3 DEF IsFinal
  <2> QED
    BY <1>3, <2>4, <2>5 DEF t, OpenAIAdds
<1> QED
  BY <1>1, <1>2, <1>3

LEMMA OpenAIFlushed ==
    ASSUME NEW s, OpenAIKeeps(s)
    PROVE  OpenAIAdds(s, ToOpenAI!OpenAIFlush(s), {"[DONE]"})
  BY SendAdds, ChunkTypes DEF ToOpenAI!OpenAIFlush

-----------------------------------------------------------------------------
(* The serializer of Gemini. *)

\* The fields of the serializer that its end depends on.
GeminiFields == {"failed", "finished", "errors", "out", "order", "nextCall"}
GeminiKeeps(s) ==
    /\ GeminiFields \subseteq DOMAIN s
    /\ s.failed \in BOOLEAN /\ s.finished \in BOOLEAN /\ s.errors \in Nat /\ s.nextCall \in Nat
    /\ IsSequence(s.out) /\ IsSequence(s.order)

\* The flags and the count that are read of it did not change.
GeminiSame(s, t) ==
    DOMAIN t = DOMAIN s /\ t.failed = s.failed /\ t.finished = s.finished /\ t.errors = s.errors

\* The parts of a candidate.
PartTypes == {"text", "thought", "call"}
\* t wrote parts only.
GeminiGoesOn(s, t) == GeminiKeeps(t) /\ GeminiSame(s, t) /\ Adds(s.out, t.out, PartTypes)
\* t writes nothing any more, because a call was not whole; that is reported as
\* an error of the serializer.
GeminiFails(s, t) ==
    GeminiKeeps(t) /\ t.failed = TRUE /\ t.finished = s.finished /\ t.errors = s.errors + 1 /\ t.out = s.out
\* t wrote one thing more, of this type.
GeminiWrites(s, t, type) ==
    GeminiKeeps(t) /\ t.errors = s.errors /\ Adds(s.out, t.out, {type}) /\ Len(t.out) = Len(s.out) + 1

LEMMA FailingFails ==
    ASSUME NEW s, GeminiKeeps(s)
    PROVE  GeminiFails(s, ToGemini!Failing(s))
<1> DEFINE u == ToGemini!Fail(s)
           t == [u EXCEPT !.errors = @ + 1]
<1>1. /\ DOMAIN u = DOMAIN s /\ u.failed = TRUE /\ u.finished = s.finished /\ u.errors = s.errors
      /\ u.out = s.out /\ u.order = <<>> /\ u.nextCall = s.nextCall
  BY DEF ToGemini!Fail, GeminiKeeps, GeminiFields
<1> HIDE DEF u
<1>2. /\ DOMAIN t = DOMAIN u /\ t.failed = u.failed /\ t.finished = u.finished /\ t.errors = u.errors + 1
      /\ t.out = u.out /\ t.order = u.order /\ t.nextCall = u.nextCall
  BY <1>1 DEF GeminiKeeps, GeminiFields
<1>3. ToGemini!Failing(s) = t
  BY DEF ToGemini!Failing, u
<1> HIDE DEF t
<1>4. IsSequence(<<>>)
  BY SequenceOfNone
<1>5. IsSequence(t.order) /\ IsSequence(t.out)
  BY <1>1, <1>2, <1>4, Zenon DEF GeminiKeeps
<1>6. GeminiKeeps(t)
  <2>1. GeminiFields \subseteq DOMAIN t
    BY <1>1, <1>2 DEF GeminiKeeps
  <2>2. t.failed \in BOOLEAN
    BY <1>1, <1>2
  <2>3. t.finished \in BOOLEAN
    BY <1>1, <1>2 DEF GeminiKeeps
  <2>4. t.errors \in Nat /\ t.nextCall \in Nat
    BY <1>1, <1>2 DEF GeminiKeeps
  <2> QED
    BY <1>5, <2>1, <2>2, <2>3, <2>4 DEF GeminiKeeps
<1> QED
  BY <1>1, <1>2, <1>3, <1>6 DEF GeminiFails

LEMMA GeminiStays ==
    ASSUME NEW s, GeminiKeeps(s), NEW t, GeminiSame(s, t), t.out = s.out,
           IsSequence(t.order), t.nextCall \in Nat
    PROVE  GeminiGoesOn(s, t)
<1>1. Adds(s.out, s.out, PartTypes)
  BY AddsNothing DEF GeminiKeeps
<1> QED
  BY <1>1 DEF GeminiGoesOn, GeminiKeeps, GeminiSame

LEMMA GeminiPart ==
    ASSUME NEW s, GeminiKeeps(s), NEW w, NEW types, w.type \in types
    PROVE  LET t == ToGemini!Parts(s, <<w>>) IN
           /\ GeminiKeeps(t) /\ GeminiSame(s, t) /\ Adds(s.out, t.out, types)
           /\ Len(t.out) = Len(s.out) + 1
<1> DEFINE t == ToGemini!Parts(s, <<w>>)
           r == <<w>>
           q == s.out
<1>1. /\ t.out = q \o r /\ GeminiSame(s, t) /\ t.order = s.order /\ t.nextCall = s.nextCall
  BY DEF ToGemini!Parts, GeminiKeeps, GeminiFields, GeminiSame
<1>2. Made(r, types) /\ Len(r) = 1
  BY MadeOne
<1> HIDE DEF t, r
<1>3. IsSequence(q) /\ IsSequence(r)
  BY <1>2 DEF GeminiKeeps, Made, IsSequence
<1> HIDE DEF q
<1>4. Adds(q, q \o r, types) /\ Len(q \o r) = Len(q) + 1
  <2>1. Adds(q, q \o r, types)
    BY <1>2, <1>3, AddsMade
  <2>2. Len(q \o r) = Len(q) + Len(r)
    BY <1>3, SequenceJoin
  <2> QED
    BY <1>2, <2>1, <2>2
<1>5. GeminiKeeps(t)
  BY <1>1, <1>4 DEF GeminiKeeps, GeminiSame, Adds
<1> QED
  BY <1>1, <1>4, <1>5 DEF t, q

LEMMA PartWritten ==
    ASSUME NEW s, GeminiKeeps(s), NEW w, w.type \in PartTypes
    PROVE  GeminiGoesOn(s, ToGemini!Parts(s, <<w>>))
  BY GeminiPart DEF GeminiGoesOn

LEMMA PartType == \A t, id, data : ToGemini!Part(t, id, data).type = t
  BY DEF ToGemini!Part

LEMMA GeminiOn ==
    ASSUME NEW s, NEW t, NEW u, GeminiSame(s, t), t.out = s.out
    PROVE  /\ GeminiGoesOn(t, u) => GeminiGoesOn(s, u)
           /\ GeminiFails(t, u) => GeminiFails(s, u)
  BY DEF GeminiGoesOn, GeminiFails, GeminiSame

LEMMA SignatureTaken ==
    ASSUME NEW s, GeminiKeeps(s)
    PROVE  LET t == ToGemini!TakeSignature(s) IN
           /\ GeminiKeeps(t) /\ GeminiSame(s, t) /\ t.out = s.out
<1>1. ASSUME NEW x
      PROVE  LET t == [s EXCEPT !.signatures = x] IN
             GeminiKeeps(t) /\ GeminiSame(s, t) /\ t.out = s.out
  BY DEF GeminiKeeps, GeminiFields, GeminiSame
<1>2. GeminiKeeps(s) /\ GeminiSame(s, s) /\ s.out = s.out
  BY DEF GeminiSame
<1> QED
  BY <1>1, <1>2, Zenon DEF ToGemini!TakeSignature

LEMMA GeminiStarts ==
    ASSUME NEW s, GeminiKeeps(s), NEW e
    PROVE  GeminiGoesOn(s, ToGemini!GeminiBlockStart(s, e))
<1> DEFINE u == ToGemini!TakeSignature(s)
<1>1. GeminiKeeps(u) /\ GeminiSame(s, u) /\ u.out = s.out
  BY SignatureTaken
<1> HIDE DEF u
<1>2. ASSUME NEW x, NEW i
      PROVE  GeminiGoesOn(s, [u EXCEPT !.calls = x, !.order = Append(@, i)])
  <2> DEFINE t == [u EXCEPT !.calls = x, !.order = Append(@, i)]
  <2>1. GeminiSame(u, t) /\ t.out = u.out /\ t.order = Append(u.order, i) /\ t.nextCall = u.nextCall
    BY <1>1 DEF GeminiKeeps, GeminiFields, GeminiSame
  <2> HIDE DEF t
  <2>2. IsSequence(t.order) /\ t.nextCall \in Nat
    BY <1>1, <2>1, SequenceAppend DEF GeminiKeeps
  <2>3. GeminiGoesOn(u, t)
    BY <1>1, <2>1, <2>2, GeminiStays
  <2>4. GeminiGoesOn(s, t)
    BY <1>1, <2>3, GeminiOn
  <2> QED
    BY <2>4 DEF t
<1>3. ASSUME NEW x
      PROVE  GeminiGoesOn(s, [s EXCEPT !.thinking = x])
  <2> DEFINE t == [s EXCEPT !.thinking = x]
  <2>1. GeminiSame(s, t) /\ t.out = s.out /\ t.order = s.order /\ t.nextCall = s.nextCall
    BY DEF GeminiKeeps, GeminiFields, GeminiSame
  <2> HIDE DEF t
  <2>2. GeminiGoesOn(s, t)
    BY <2>1, GeminiStays DEF GeminiKeeps
  <2> QED
    BY <2>2 DEF t
<1>4. GeminiGoesOn(s, s)
  BY GeminiStays DEF GeminiKeeps, GeminiSame
<1> QED
  BY <1>2, <1>3, <1>4, Zenon DEF ToGemini!GeminiBlockStart, u

LEMMA GeminiFeeds ==
    ASSUME NEW s, GeminiKeeps(s), NEW e, NEW p
    PROVE  LET t == ToGemini!GeminiBlockDelta(s, e, p) IN GeminiGoesOn(s, t) \/ GeminiFails(s, t)
<1>1. GeminiGoesOn(s, s)
  BY GeminiStays DEF GeminiKeeps, GeminiSame
<1>2. ASSUME NEW x, NEW y
      PROVE  /\ GeminiGoesOn(s, [s EXCEPT !.signatures = x, !.thinking = y])
             /\ GeminiGoesOn(s, [s EXCEPT !.calls = x])
             /\ GeminiGoesOn(s, [s EXCEPT !.thinking = x])
  <2> DEFINE t == [s EXCEPT !.signatures = x, !.thinking = y]
             u == [s EXCEPT !.calls = x]
             v == [s EXCEPT !.thinking = x]
  <2>1. GeminiSame(s, t) /\ t.out = s.out /\ t.order = s.order /\ t.nextCall = s.nextCall
    BY DEF GeminiKeeps, GeminiFields, GeminiSame
  <2>2. GeminiSame(s, u) /\ u.out = s.out /\ u.order = s.order /\ u.nextCall = s.nextCall
    BY DEF GeminiKeeps, GeminiFields, GeminiSame
  <2>3. GeminiSame(s, v) /\ v.out = s.out /\ v.order = s.order /\ v.nextCall = s.nextCall
    BY DEF GeminiKeeps, GeminiFields, GeminiSame
  <2> HIDE DEF t, u, v
  <2>4. GeminiGoesOn(s, t) /\ GeminiGoesOn(s, u) /\ GeminiGoesOn(s, v)
    BY <2>1, <2>2, <2>3, GeminiStays DEF GeminiKeeps
  <2> QED
    BY <2>4 DEF t, u, v
<1> DEFINE fed0 == ToGemini!TakeSignature(s)
           thought == [s EXCEPT !.thinking[e.index].nonempty = TRUE]
           word == ToGemini!Part("text", NoID, p.piece)
           idea == ToGemini!Part("thought", NoID, p.piece)
<1>3. GeminiGoesOn(s, ToGemini!Parts(fed0, <<word>>))
  <2>1. GeminiKeeps(fed0) /\ GeminiSame(s, fed0) /\ fed0.out = s.out
    BY SignatureTaken
  <2>2. word.type \in PartTypes
    BY PartType DEF PartTypes
  <2> HIDE DEF fed0, word
  <2>3. GeminiGoesOn(fed0, ToGemini!Parts(fed0, <<word>>))
    BY <2>1, <2>2, PartWritten
  <2> QED
    BY <2>1, <2>3, GeminiOn
<1>4. GeminiGoesOn(s, ToGemini!Parts(thought, <<idea>>))
  <2>1. /\ GeminiSame(s, thought) /\ thought.out = s.out /\ thought.order = s.order
        /\ thought.nextCall = s.nextCall
    BY DEF GeminiKeeps, GeminiFields, GeminiSame
  <2>2. idea.type \in PartTypes
    BY PartType DEF PartTypes
  <2> HIDE DEF thought, idea
  <2>3. GeminiKeeps(thought)
    BY <2>1 DEF GeminiKeeps, GeminiSame
  <2>4. GeminiGoesOn(thought, ToGemini!Parts(thought, <<idea>>))
    BY <2>2, <2>3, PartWritten
  <2> QED
    BY <2>1, <2>4, GeminiOn
<1>5. GeminiFails(s, ToGemini!Failing(s))
  BY FailingFails
<1> QED
  BY <1>1, <1>2, <1>3, <1>4, <1>5, Zenon DEF ToGemini!GeminiBlockDelta, fed0, thought, word, idea

LEMMA SameCardinality == \A S : ToGemini!Cardinality(S) = Cardinality(S)
  BY Zenon DEF ToGemini!Cardinality, Cardinality

\* However many calls can be written now.
LEMMA CallsEmitted ==
    ASSUME NEW s, GeminiKeeps(s)
    PROVE  GeminiGoesOn(s, ToGemini!EmitCalls(s))
<1> DEFINE n == Cardinality(ToGemini!Emittable(s))
           upTo == s.nextCall + n - 1
           emitted == SubSeq(s.order, s.nextCall, upTo)
           r == [q \in DOMAIN emitted |->
                    ToGemini!Part("call", s.calls[emitted[q]].id, s.calls[emitted[q]].args)]
           x == [i \in DOMAIN s.calls |->
                    IF i \in ToGemini!ToSet(emitted) THEN [s.calls[i] EXCEPT !.emitted = TRUE] ELSE s.calls[i]]
           t == [s EXCEPT !.calls = x, !.nextCall = upTo + 1, !.out = @ \o r]
<1>1. n \in Nat
  <2>1. PICK S : s.order \in Seq(S)
    BY DEF GeminiKeeps, IsSequence
  <2>2. s.nextCall \in Int /\ Len(s.order) \in Int
    BY <2>1 DEF GeminiKeeps
  <2>3. IsFiniteSet(s.nextCall..Len(s.order))
    BY <2>2, FS_Interval
  <2>4. ToGemini!Emittable(s) \subseteq s.nextCall..Len(s.order)
    BY Zenon DEF ToGemini!Emittable
  <2>5. IsFiniteSet(ToGemini!Emittable(s))
    BY <2>3, <2>4, FS_Subset
  <2> QED
    BY <2>5, FS_CardinalityType
<1>2. ToGemini!EmitCalls(s) = t
  BY SameCardinality, Zenon DEF ToGemini!EmitCalls
<1> HIDE DEF n
<1>3. DOMAIN emitted = 1..n
  BY <1>1 DEF GeminiKeeps
<1>4. Made(r, PartTypes)
  <2> DEFINE S == {r[q] : q \in 1..n}
  <2>1. \A e \in S : e.type \in PartTypes
    <3>0. \A q \in 1..n : r[q] = ToGemini!Part("call", s.calls[emitted[q]].id, s.calls[emitted[q]].args)
      BY <1>3
    <3> HIDE DEF r
    <3>1. \A q \in 1..n : r[q].type = "call"
      BY <3>0, PartType
    <3> QED
      BY <3>1 DEF PartTypes
  <2>2. DOMAIN r = 1..n /\ r = [q \in 1..n |-> r[q]]
    BY <1>3
  <2> HIDE DEF r
  <2>3. r \in Seq(S)
    BY <1>1, <2>2
  <2> QED
    BY <2>1, <2>3 DEF Made
<1> HIDE DEF r, x
<1>5. upTo + 1 \in Nat
  BY <1>1 DEF GeminiKeeps
<1> HIDE DEF upTo
<1>6. /\ GeminiSame(s, t) /\ t.out = s.out \o r /\ t.order = s.order /\ t.nextCall = upTo + 1
  BY DEF GeminiKeeps, GeminiFields, GeminiSame
<1> HIDE DEF t
<1>7. Adds(s.out, t.out, PartTypes)
  BY <1>4, <1>6, AddsMade DEF GeminiKeeps
<1>8. GeminiKeeps(t)
  BY <1>5, <1>6, <1>7 DEF GeminiKeeps, GeminiSame, Adds
<1> QED
  BY <1>2, <1>6, <1>7, <1>8 DEF GeminiGoesOn

LEMMA GeminiStops ==
    ASSUME NEW s, GeminiKeeps(s), NEW e
    PROVE  LET t == ToGemini!GeminiBlockStop(s, e) IN GeminiGoesOn(s, t) \/ GeminiFails(s, t)
<1> DEFINE thought == [s EXCEPT !.thinking[e.index].completed = TRUE]
           u == IF e.index \in DOMAIN s.thinking THEN thought ELSE s
           v == [u EXCEPT !.calls[e.index].completed = TRUE]
<1>1. /\ GeminiSame(s, thought) /\ thought.out = s.out /\ thought.order = s.order
      /\ thought.nextCall = s.nextCall
  BY DEF GeminiKeeps, GeminiFields, GeminiSame
<1>2. ToGemini!GeminiBlockStop(s, e) =
          IF e.index \notin DOMAIN u.calls \/ u.calls[e.index].completed THEN u
          ELSE IF ~ToGemini!IsObject(u.calls[e.index].args) THEN ToGemini!Failing(u)
          ELSE ToGemini!EmitCalls(v)
  BY Zenon DEF ToGemini!GeminiBlockStop
<1> HIDE DEF thought
<1>3. GeminiSame(s, u) /\ u.out = s.out /\ u.order = s.order /\ u.nextCall = s.nextCall
  BY <1>1 DEF GeminiSame
<1> HIDE DEF u
<1>4. GeminiKeeps(u)
  BY <1>3 DEF GeminiKeeps, GeminiSame
<1>5. GeminiSame(u, v) /\ v.out = u.out /\ v.order = u.order /\ v.nextCall = u.nextCall
  BY <1>4 DEF GeminiKeeps, GeminiFields, GeminiSame
<1> HIDE DEF v
<1>6. GeminiKeeps(v)
  BY <1>4, <1>5 DEF GeminiKeeps, GeminiSame
<1>7. GeminiGoesOn(s, u)
  BY <1>3, <1>4, GeminiStays DEF GeminiKeeps
<1>8. GeminiFails(s, ToGemini!Failing(u))
  <2>1. GeminiFails(u, ToGemini!Failing(u))
    BY <1>4, FailingFails
  <2> QED
    BY <1>3, <2>1, GeminiOn
<1>9. GeminiGoesOn(s, ToGemini!EmitCalls(v))
  <2>1. GeminiGoesOn(v, ToGemini!EmitCalls(v))
    BY <1>6, CallsEmitted
  <2>2. GeminiSame(s, v) /\ v.out = s.out
    BY <1>3, <1>5 DEF GeminiSame
  <2> QED
    BY <2>1, <2>2, GeminiOn
<1> QED
  BY <1>2, <1>7, <1>8, <1>9

\* The end with a reason, and the end of the stream without one.
GeminiFinishes(s, t) == GeminiWrites(s, t, "finish") /\ t.finished = TRUE /\ t.failed = s.failed

\* t is finished without a word, as the flush does.
GeminiEnds(s, t) ==
    /\ GeminiKeeps(t) /\ t.finished = TRUE /\ t.failed = s.failed /\ t.errors = s.errors /\ t.out = s.out

LEMMA GeminiDeltas ==
    ASSUME NEW s, GeminiKeeps(s), NEW e, e.type = "message_delta"
    PROVE  LET t == ToGemini!GeminiMessageDelta(s, e) IN
           /\ ~IsFinal(e) => GeminiGoesOn(s, t) \/ GeminiFails(s, t)
           /\ IsFinal(e) => GeminiFinishes(s, t) \/ GeminiFails(s, t)
<1> DEFINE u == [s EXCEPT !.finished = TRUE, !.signatures = <<>>, !.thinking = <<>>]
           w == ToGemini!Part("finish", NoID, <<ToGemini!GeminiReason(e.info)>>)
           done == ToGemini!Parts(u, <<w>>)
           t == ToGemini!GeminiMessageDelta(s, e)
<1>1. /\ DOMAIN u = DOMAIN s /\ u.failed = s.failed /\ u.finished = TRUE /\ u.errors = s.errors
      /\ u.out = s.out /\ u.order = s.order /\ u.nextCall = s.nextCall
  BY DEF GeminiKeeps, GeminiFields
<1>2. w.type \in {"finish"}
  BY PartType
<1>3. /\ ~IsFinal(e) => t = s \/ t = ToGemini!Failing(s)
      /\ IsFinal(e) => t = ToGemini!Failing(s) \/ t = done
  <2> HIDE DEF u, w
  <2>1. CASE e.info = "none"
    BY <2>1 DEF ToGemini!GeminiMessageDelta, ToGemini!IsFinalDelta, IsFinal
  <2>2. CASE e.info # "none"
    <3>1. ToGemini!IsFinalDelta(e)
      BY <2>2 DEF ToGemini!IsFinalDelta
    <3>2. t = ToGemini!Failing(s) \/ t = done
      BY <3>1, Zenon DEF ToGemini!GeminiMessageDelta, u, w
    <3> QED
      BY <2>2, <3>2 DEF IsFinal
  <2> QED
    BY <2>1, <2>2
<1> HIDE DEF u, w, t
<1>4. GeminiFinishes(s, done)
  <2>1. GeminiKeeps(u)
    BY <1>1 DEF GeminiKeeps
  <2>2. /\ GeminiKeeps(done) /\ GeminiSame(u, done) /\ Adds(u.out, done.out, {"finish"})
        /\ Len(done.out) = Len(u.out) + 1
    BY <1>2, <2>1, GeminiPart
  <2> HIDE DEF done
  <2> QED
    BY <1>1, <2>2 DEF GeminiFinishes, GeminiWrites, GeminiSame
<1>5. GeminiFails(s, ToGemini!Failing(s))
  BY FailingFails
<1>6. GeminiGoesOn(s, s)
  BY GeminiStays DEF GeminiKeeps, GeminiSame
<1> HIDE DEF done
<1> QED
  BY <1>3, <1>4, <1>5, <1>6 DEF t

LEMMA GeminiFlushed ==
    ASSUME NEW s, GeminiKeeps(s)
    PROVE  LET t == ToGemini!GeminiFlush(s) IN
           /\ s.failed \/ s.finished => t = s
           /\ ~s.failed /\ ~s.finished => GeminiEnds(s, t) \/ GeminiFails(s, t)
<1> DEFINE u == [s EXCEPT !.finished = TRUE, !.signatures = <<>>, !.thinking = <<>>]
           t == ToGemini!GeminiFlush(s)
<1>1. /\ DOMAIN u = DOMAIN s /\ u.failed = s.failed /\ u.finished = TRUE /\ u.errors = s.errors
      /\ u.out = s.out /\ u.order = s.order /\ u.nextCall = s.nextCall
  BY DEF GeminiKeeps, GeminiFields
<1>2. /\ s.failed \/ s.finished => t = s
      /\ ~s.failed /\ ~s.finished => t = ToGemini!Failing(s) \/ t = u
  BY Zenon DEF ToGemini!GeminiFlush
<1> HIDE DEF u, t
<1>3. GeminiEnds(s, u)
  BY <1>1 DEF GeminiEnds, GeminiKeeps
<1>4. GeminiFails(s, ToGemini!Failing(s))
  BY FailingFails
<1> QED
  BY <1>2, <1>3, <1>4 DEF t

LEMMA GeminiErrors ==
    ASSUME NEW s, GeminiKeeps(s)
    PROVE  LET t == ToGemini!Parts(ToGemini!Fail(s), <<ToGemini!Part("error", NoID, <<>>)>>) IN
           GeminiWrites(s, t, "error") /\ t.failed = TRUE
<1> DEFINE u == ToGemini!Fail(s)
           w == ToGemini!Part("error", NoID, <<>>)
           t == ToGemini!Parts(u, <<w>>)
<1>1. /\ DOMAIN u = DOMAIN s /\ u.failed = TRUE /\ u.finished = s.finished /\ u.errors = s.errors
      /\ u.out = s.out /\ u.order = <<>> /\ u.nextCall = s.nextCall
  BY DEF ToGemini!Fail, GeminiKeeps, GeminiFields
<1>2. w.type \in {"error"}
  BY PartType
<1> HIDE DEF u, w
<1>3. GeminiKeeps(u)
  <2>1. IsSequence(u.order) /\ IsSequence(u.out)
    BY <1>1, SequenceOfNone, Zenon DEF GeminiKeeps
  <2>2. u.failed \in BOOLEAN /\ GeminiFields \subseteq DOMAIN u
    BY <1>1 DEF GeminiKeeps
  <2>3. u.finished \in BOOLEAN /\ u.errors \in Nat /\ u.nextCall \in Nat
    BY <1>1 DEF GeminiKeeps
  <2> QED
    BY <2>1, <2>2, <2>3 DEF GeminiKeeps
<1>4. /\ GeminiKeeps(t) /\ GeminiSame(u, t) /\ Adds(u.out, t.out, {"error"})
      /\ Len(t.out) = Len(u.out) + 1
  BY <1>2, <1>3, GeminiPart
<1> HIDE DEF t
<1>5. GeminiWrites(s, t, "error") /\ t.failed = TRUE
  BY <1>1, <1>4 DEF GeminiWrites, GeminiSame
<1> QED
  BY <1>5 DEF t, u, w

\* What each event adds.
LEMMA GeminiSerialized ==
    ASSUME NEW s, GeminiKeeps(s), NEW e, NEW p
    PROVE  LET t == ToGemini!GeminiSerialize(s, e, p) IN
           /\ GeminiKeeps(t)
           /\ s.failed \/ s.finished => t = s
           /\ ~s.failed /\ ~s.finished =>
                 /\ e.type = "error" => GeminiWrites(s, t, "error") /\ t.failed = TRUE
                 /\ IsFinal(e) => GeminiFinishes(s, t) \/ GeminiFails(s, t)
                 /\ e.type = "message_stop" => GeminiEnds(s, t) \/ GeminiFails(s, t)
                 /\ e.type \notin {"error", "message_stop"} /\ ~IsFinal(e) =>
                       GeminiGoesOn(s, t) \/ GeminiFails(s, t)
<1> DEFINE t == ToGemini!GeminiSerialize(s, e, p)
<1>1. CASE s.failed \/ s.finished
  <2>1. t = s
    BY <1>1 DEF ToGemini!GeminiSerialize
  <2> HIDE DEF t
  <2> QED
    BY <1>1, <2>1 DEF t
<1>2. CASE ~(s.failed \/ s.finished)
  <2>0. GeminiGoesOn(s, s)
    BY GeminiStays DEF GeminiKeeps, GeminiSame
  <2>1. CASE e.type = "message_delta"
    <3>1. t = ToGemini!GeminiMessageDelta(s, e)
      BY <1>2, <2>1 DEF ToGemini!GeminiSerialize
    <3> HIDE DEF t
    <3>2. /\ ~IsFinal(e) => GeminiGoesOn(s, t) \/ GeminiFails(s, t)
          /\ IsFinal(e) => GeminiFinishes(s, t) \/ GeminiFails(s, t)
      BY <2>1, <3>1, GeminiDeltas
    <3>3. GeminiKeeps(t)
      BY <3>2 DEF GeminiGoesOn, GeminiFails, GeminiFinishes, GeminiWrites
    <3> QED
      BY <1>2, <2>1, <3>2, <3>3 DEF t
  <2>2. CASE e.type = "message_stop"
    <3>1. t = ToGemini!GeminiFlush(s)
      BY <1>2, <2>2 DEF ToGemini!GeminiSerialize
    <3> HIDE DEF t
    <3> QED
      BY <1>2, <2>2, <3>1, GeminiFlushed DEF t, GeminiEnds, GeminiFails, IsFinal
  <2>3. CASE e.type = "error"
    <3>1. t = ToGemini!Parts(ToGemini!Fail(s), <<ToGemini!Part("error", NoID, <<>>)>>)
      BY <1>2, <2>3 DEF ToGemini!GeminiSerialize
    <3> HIDE DEF t
    <3>2. GeminiWrites(s, t, "error") /\ t.failed = TRUE
      BY <3>1, GeminiErrors
    <3> QED
      BY <1>2, <2>3, <3>2 DEF t, GeminiWrites, IsFinal
  <2>4. CASE e.type \notin {"message_delta", "message_stop", "error"}
    <3>1. \/ t = ToGemini!GeminiBlockStart(s, e) \/ t = ToGemini!GeminiBlockDelta(s, e, p)
          \/ t = ToGemini!GeminiBlockStop(s, e) \/ t = s
      BY <1>2, <2>4 DEF ToGemini!GeminiSerialize
    <3> HIDE DEF t
    <3>2. GeminiGoesOn(s, t) \/ GeminiFails(s, t)
      BY <2>0, <3>1, GeminiStarts, GeminiFeeds, GeminiStops
    <3> QED
      BY <1>2, <2>4, <3>2 DEF t, GeminiGoesOn, GeminiFails, IsFinal
  <2> QED
    BY <2>1, <2>2, <2>3, <2>4
<1> QED
  BY <1>1, <1>2

-----------------------------------------------------------------------------
(* A serializer ends its output once. *)

\* The end of a reply of the Responses API: whether it is told to be complete,
\* whether it is told at all, and that it is told once and agrees with the
\* flags.
ResponsesCompleted(s) == \E p \in 1..Len(s.out) : s.out[p].ev \in {"completed", "incomplete"}
ResponsesConcluded(s) == \E p \in 1..Len(s.out) : s.out[p].ev \in ResponseEnds
ResponsesOnce(s) ==
    /\ \A p \in 1..Len(s.out) : s.out[p].ev \in ResponseEnds => p = Len(s.out)
    /\ s.failed \/ s.completed => ResponsesConcluded(s)
    /\ ResponsesConcluded(s) => s.completed /\ (s.failed \/ ResponsesCompleted(s))
    /\ s.failed => ~ResponsesCompleted(s)

\* The same of a reply of Gemini, whose end may be missing when the serializer
\* itself failed.
GeminiFinish(s) == \E p \in 1..Len(s.out) : s.out[p].type = "finish"
GeminiEnd(s) == \E p \in 1..Len(s.out) : s.out[p].type \in {"finish", "error"}
GeminiOnce(s) ==
    /\ \A p \in 1..Len(s.out) : s.out[p].type \in {"finish", "error"} => p = Len(s.out)
    /\ GeminiEnd(s) => s.failed \/ s.finished
    /\ s.failed => s.errors > 0 \/ GeminiEnd(s)

\* The same of a chat completion.
OpenAIOnce(s) ==
    \A p \in 1..Len(s.out) : s.out[p].type = "finish" =>
        \A q \in 1..Len(s.out) : q > p => s.out[q].type \in {"usage", "[DONE]"}

OpenAIFinished(s) == \E p \in 1..Len(s.out) : s.out[p].type = "finish"

LEMMA ContinuesEnds ==
    ASSUME NEW s, NEW t, Continues(s, t)
    PROVE  /\ ResponsesCompleted(t) <=> ResponsesCompleted(s)
           /\ ResponsesConcluded(t) <=> ResponsesConcluded(s)
           /\ ~ResponsesConcluded(s) => \A p \in 1..Len(t.out) : t.out[p].ev \notin ResponseEnds
<1>1. Between \cap ResponseEnds = {} /\ {"completed", "incomplete"} \subseteq ResponseEnds
  BY DEF Between, ResponseEnds
<1>2. /\ Len(s.out) \in Nat /\ Len(t.out) \in Nat /\ Len(s.out) <= Len(t.out)
      /\ \A p \in 1..Len(s.out) : p \in 1..Len(t.out) /\ t.out[p] = s.out[p]
      /\ \A p \in 1..Len(t.out) : p \in 1..Len(s.out) \/ t.out[p].ev \in Between
  BY DEF Continues
<1> QED
  BY <1>1, <1>2 DEF ResponsesCompleted, ResponsesConcluded

LEMMA ResponsesEndOnce ==
    ASSUME NEW s, NEW t, NEW evs, evs \subseteq ResponseEnds, EndsResponses(s, t, evs), ~ResponsesConcluded(s)
    PROVE  /\ \A p \in 1..Len(t.out) : t.out[p].ev \in ResponseEnds => p = Len(t.out)
           /\ ResponsesConcluded(t) /\ t.completed
           /\ \E p \in 1..Len(t.out) : t.out[p].ev \in evs
           /\ \A p \in 1..Len(t.out) : t.out[p].ev \in ResponseEnds => t.out[p].ev \in evs
<1>1. PICK u : /\ Continues(s, u) /\ ResponsesKeeps(t) /\ Len(t.out) = Len(u.out) + 1
               /\ t.out[Len(t.out)].ev \in evs
               /\ \A p \in 1..Len(u.out) : t.out[p] = u.out[p]
               /\ t.completed = TRUE
  BY DEF EndsResponses
<1>2. Len(u.out) \in Nat
  BY <1>1 DEF Continues
<1>3. \A p \in 1..Len(u.out) : u.out[p].ev \notin ResponseEnds
  BY <1>1, ContinuesEnds
<1>4. \A p \in 1..Len(t.out) : p = Len(t.out) \/ p \in 1..Len(u.out)
  BY <1>1, <1>2
<1>5. Len(t.out) \in 1..Len(t.out)
  BY <1>1, <1>2
<1> QED
  BY <1>1, <1>3, <1>4, <1>5 DEF ResponsesConcluded

\* One event more: an end stays the only one, a failed reply is never
\* completed.
LEMMA ResponsesStep ==
    ASSUME NEW s, ResponsesKeeps(s), ResponsesOnce(s), NEW e, NEW p
    PROVE  LET t == ToResponses!ResponsesSerialize(s, e, p) IN
           /\ ResponsesKeeps(t)
           /\ e.type = "message_stop" => t = s
           /\ e.type = "error" /\ ~ResponsesCompleted(s) =>
                 ResponsesOnce(t) /\ t.failed /\ ~ResponsesCompleted(t) /\ ResponsesConcluded(t)
           /\ IsFinal(e) => /\ ResponsesOnce(t) /\ ResponsesConcluded(t)
                            /\ t.failed = s.failed \/ t = s
                            /\ s.failed => t = s
           /\ e.type # "error" /\ ~IsFinal(e) /\ (s.failed \/ ~ResponsesConcluded(s)) =>
                 /\ ResponsesOnce(t) /\ t.failed = s.failed
                 /\ ResponsesCompleted(t) <=> ResponsesCompleted(s)
                 /\ ResponsesConcluded(t) <=> ResponsesConcluded(s)
<1> DEFINE t == ToResponses!ResponsesSerialize(s, e, p)
<1>1. /\ ResponsesKeeps(t)
      /\ s.failed \/ e.type = "message_stop" => t = s
      /\ ~s.failed /\ e.type = "error" =>
             t.failed = TRUE /\ EndsResponses(s, t, {"failed"})
      /\ ~s.failed /\ IsFinal(e) =>
             IF s.completed THEN t = s
             ELSE t.failed = s.failed /\ EndsResponses(s, t, {"completed", "incomplete"})
      /\ ~s.failed /\ e.type # "error" /\ ~IsFinal(e) => Continues(s, t)
  BY ResponsesSerialized
<1> HIDE DEF t
<1>2. ASSUME e.type = "error", ~ResponsesCompleted(s)
      PROVE  ResponsesOnce(t) /\ t.failed /\ ~ResponsesCompleted(t) /\ ResponsesConcluded(t)
  <2>1. CASE s.failed
    BY <1>1, <1>2, <2>1 DEF ResponsesOnce
  <2>2. CASE ~s.failed
    <3>1. ~ResponsesConcluded(s)
      BY <1>2, <2>2 DEF ResponsesOnce
    <3>2. {"failed"} \subseteq ResponseEnds /\ {"completed", "incomplete"} \subseteq ResponseEnds
      BY DEF ResponseEnds
    <3>3. /\ \A q \in 1..Len(t.out) : t.out[q].ev \in ResponseEnds => q = Len(t.out)
          /\ ResponsesConcluded(t) /\ t.completed
          /\ \A q \in 1..Len(t.out) : t.out[q].ev \in ResponseEnds => t.out[q].ev \in {"failed"}
      BY <1>1, <1>2, <2>2, <3>1, <3>2, ResponsesEndOnce
    <3>4. ~ResponsesCompleted(t)
      BY <3>2, <3>3 DEF ResponsesCompleted
    <3> QED
      BY <1>1, <1>2, <2>2, <3>3, <3>4 DEF ResponsesOnce
  <2> QED
    BY <2>1, <2>2
<1>3. ASSUME IsFinal(e)
      PROVE  /\ ResponsesOnce(t) /\ ResponsesConcluded(t)
             /\ t.failed = s.failed \/ t = s
             /\ s.failed => t = s
  <2>1. CASE s.failed \/ s.completed
    BY <1>1, <1>3, <2>1 DEF ResponsesOnce
  <2>2. CASE ~(s.failed \/ s.completed)
    <3>1. ~ResponsesConcluded(s)
      BY <2>2 DEF ResponsesOnce
    <3>2. {"completed", "incomplete"} \subseteq ResponseEnds
      BY DEF ResponseEnds
    <3>3. t.failed = s.failed /\ EndsResponses(s, t, {"completed", "incomplete"})
      BY <1>1, <1>3, <2>2
    <3>4. /\ \A q \in 1..Len(t.out) : t.out[q].ev \in ResponseEnds => q = Len(t.out)
          /\ ResponsesConcluded(t) /\ t.completed
          /\ \E q \in 1..Len(t.out) : t.out[q].ev \in {"completed", "incomplete"}
      BY <3>1, <3>2, <3>3, ResponsesEndOnce
    <3>5. ResponsesCompleted(t)
      BY <3>4 DEF ResponsesCompleted
    <3> QED
      BY <2>2, <3>3, <3>4, <3>5 DEF ResponsesOnce
  <2> QED
    BY <2>1, <2>2
<1>4. ASSUME e.type # "error", ~IsFinal(e), s.failed \/ ~ResponsesConcluded(s)
      PROVE  /\ ResponsesOnce(t) /\ t.failed = s.failed
             /\ ResponsesCompleted(t) <=> ResponsesCompleted(s)
             /\ ResponsesConcluded(t) <=> ResponsesConcluded(s)
  <2>1. CASE s.failed
    BY <1>1, <2>1
  <2>2. CASE ~s.failed
    <3>1. Continues(s, t) /\ ~ResponsesConcluded(s)
      BY <1>1, <1>4, <2>2
    <3>2. /\ ResponsesCompleted(t) <=> ResponsesCompleted(s)
          /\ ResponsesConcluded(t) <=> ResponsesConcluded(s)
          /\ \A q \in 1..Len(t.out) : t.out[q].ev \notin ResponseEnds
      BY <3>1, ContinuesEnds
    <3> QED
      BY <2>2, <3>1, <3>2 DEF ResponsesOnce, Continues
  <2> QED
    BY <2>1, <2>2
<1> QED
  BY <1>1, <1>2, <1>3, <1>4 DEF t

\* Of a chat completion; only a second final event could spoil it.
LEMMA OpenAIStep ==
    ASSUME NEW s, OpenAIKeeps(s), NEW e, NEW p
    PROVE  LET t == ToOpenAI!OpenAISerialize(s, e, p) IN
           /\ OpenAIKeeps(t)
           /\ e.type = "message_stop" => t = s
           /\ ~IsFinal(e) => OpenAIFinished(t) <=> OpenAIFinished(s)
           /\ IsFinal(e) => OpenAIFinished(t)
           /\ ~OpenAIFinished(s) => OpenAIOnce(t)
<1> DEFINE t == ToOpenAI!OpenAISerialize(s, e, p)
<1>1. /\ OpenAIKeeps(t)
      /\ e.type = "message_stop" => t = s
      /\ ~IsFinal(e) => OpenAIAdds(s, t, OpenAITypes)
      /\ IsFinal(e) => /\ Adds(s.out, t.out, {"finish", "usage"})
                       /\ Len(t.out) = Len(s.out) + 2
                       /\ t.out[Len(s.out) + 1].type = "finish"
                       /\ t.out[Len(s.out) + 2].type = "usage"
  BY OpenAISerialized
<1> HIDE DEF t
<1>2. CASE IsFinal(e)
  <2>1. /\ Len(s.out) \in Nat /\ Len(t.out) = Len(s.out) + 2
        /\ \A q \in 1..Len(s.out) : t.out[q] = s.out[q]
        /\ t.out[Len(s.out) + 1].type = "finish" /\ t.out[Len(s.out) + 2].type = "usage"
    BY <1>1, <1>2 DEF Adds
  <2>2. OpenAIFinished(t)
    <3>1. Len(s.out) + 1 \in 1..Len(t.out)
      BY <2>1
    <3> QED
      BY <2>1, <3>1 DEF OpenAIFinished
  <2>3. ~OpenAIFinished(s) => OpenAIOnce(t)
    BY <2>1 DEF OpenAIFinished, OpenAIOnce
  <2> QED
    BY <1>1, <1>2, <2>2, <2>3 DEF t
<1>3. CASE ~IsFinal(e)
  <2>1. /\ Len(s.out) \in Nat /\ Len(t.out) \in Nat /\ Len(s.out) <= Len(t.out)
        /\ \A q \in 1..Len(s.out) : t.out[q] = s.out[q]
        /\ \A q \in 1..Len(t.out) : q > Len(s.out) => t.out[q].type \in OpenAITypes
    BY <1>1, <1>3 DEF OpenAIAdds, Adds
  <2>2. "finish" \notin OpenAITypes
    BY DEF OpenAITypes
  <2>3. \A q \in 1..Len(t.out) : t.out[q].type = "finish" => q \in 1..Len(s.out)
    BY <2>1, <2>2
  <2>4. \A q \in 1..Len(s.out) : q \in 1..Len(t.out)
    BY <2>1
  <2>5. OpenAIFinished(t) <=> OpenAIFinished(s)
    BY <2>1, <2>3, <2>4 DEF OpenAIFinished
  <2>6. ~OpenAIFinished(s) => OpenAIOnce(t)
    BY <2>5 DEF OpenAIFinished, OpenAIOnce
  <2> QED
    BY <1>1, <1>3, <2>5, <2>6 DEF t
<1> QED
  BY <1>2, <1>3

LEMMA OpenAIFlushStep ==
    ASSUME NEW s, OpenAIKeeps(s)
    PROVE  LET t == ToOpenAI!OpenAIFlush(s) IN
           /\ OpenAIKeeps(t)
           /\ OpenAIFinished(t) <=> OpenAIFinished(s)
           /\ OpenAIOnce(s) => OpenAIOnce(t)
<1> DEFINE t == ToOpenAI!OpenAIFlush(s)
<1>1. OpenAIAdds(s, t, {"[DONE]"})
  BY OpenAIFlushed
<1> HIDE DEF t
<1>2. /\ Len(s.out) \in Nat /\ Len(t.out) \in Nat /\ Len(s.out) <= Len(t.out)
      /\ \A q \in 1..Len(s.out) : q \in 1..Len(t.out) /\ t.out[q] = s.out[q]
      /\ \A q \in 1..Len(t.out) : q \in 1..Len(s.out) \/ t.out[q].type = "[DONE]"
  BY <1>1 DEF OpenAIAdds, Adds
<1>3. OpenAIFinished(t) <=> OpenAIFinished(s)
  BY <1>2 DEF OpenAIFinished
<1>4. OpenAIOnce(s) => OpenAIOnce(t)
  BY <1>2 DEF OpenAIOnce
<1> QED
  BY <1>1, <1>3, <1>4 DEF t, OpenAIAdds

\* The serializer of Gemini writes nothing any more.
IsDone(s) == s.failed \/ s.finished

\* What is left open did not end.
LEMMA GeminiOpen ==
    ASSUME NEW s, GeminiOnce(s), ~IsDone(s)
    PROVE  ~GeminiEnd(s) /\ ~GeminiFinish(s)
  BY DEF GeminiOnce, IsDone, GeminiEnd, GeminiFinish

LEMMA PartsEndNothing ==
    ASSUME NEW s, ~GeminiEnd(s), NEW t, Adds(s.out, t.out, PartTypes)
    PROVE  ~GeminiEnd(t) /\ ~GeminiFinish(t)
<1>1. PartTypes \cap {"finish", "error"} = {}
  BY DEF PartTypes
<1>2. \A p \in 1..Len(t.out) : t.out[p].type \notin {"finish", "error"}
  BY <1>1 DEF Adds, GeminiEnd
<1> QED
  BY <1>2 DEF GeminiEnd, GeminiFinish

LEMMA PartEnds ==
    ASSUME NEW s, ~GeminiEnd(s), NEW t, NEW type \in {"finish", "error"}, GeminiWrites(s, t, type)
    PROVE  /\ \A p \in 1..Len(t.out) : t.out[p].type \in {"finish", "error"} => p = Len(t.out)
           /\ GeminiEnd(t)
           /\ type = "error" => ~GeminiFinish(t)
<1>1. /\ Len(s.out) \in Nat /\ Len(t.out) = Len(s.out) + 1
      /\ \A p \in 1..Len(s.out) : t.out[p] = s.out[p]
      /\ \A p \in 1..Len(t.out) : p > Len(s.out) => t.out[p].type \in {type}
  BY DEF GeminiWrites, Adds
<1>2. \A p \in 1..Len(t.out) : p = Len(t.out) \/ p \in 1..Len(s.out)
  BY <1>1
<1>3. \A p \in 1..Len(s.out) : t.out[p].type \notin {"finish", "error"}
  BY <1>1 DEF GeminiEnd
<1>4. Len(t.out) \in 1..Len(t.out) /\ t.out[Len(t.out)].type = type
  BY <1>1
<1> QED
  BY <1>2, <1>3, <1>4 DEF GeminiEnd, GeminiFinish

LEMMA FailsOnce ==
    ASSUME NEW s, GeminiKeeps(s), GeminiOnce(s), NEW t, GeminiFails(s, t)
    PROVE  /\ GeminiOnce(t) /\ t.errors > 0 /\ t.errors >= s.errors /\ IsDone(t)
           /\ GeminiEnd(t) <=> GeminiEnd(s)
           /\ GeminiFinish(t) <=> GeminiFinish(s)
  BY DEF GeminiFails, GeminiKeeps, GeminiOnce, IsDone, GeminiEnd, GeminiFinish

\* Of Gemini: once done it stays as it is.
LEMMA GeminiStep ==
    ASSUME NEW s, GeminiKeeps(s), GeminiOnce(s), NEW e, NEW p
    PROVE  LET t == ToGemini!GeminiSerialize(s, e, p) IN
           /\ GeminiKeeps(t) /\ GeminiOnce(t)
           /\ IsDone(s) => t = s
           /\ IsDone(s) => IsDone(t)
           /\ GeminiEnd(s) => GeminiEnd(t)
           /\ t.errors >= s.errors
           /\ e.type # "message_stop" => (t.finished => s.finished \/ GeminiEnd(t))
           /\ ~IsFinal(e) => (GeminiFinish(t) => GeminiFinish(s))
           /\ e.type = "error" => IsDone(t)
           /\ IsFinal(e) => IsDone(t) /\ (t = s \/ t.errors > 0 \/ GeminiEnd(t))
<1> DEFINE t == ToGemini!GeminiSerialize(s, e, p)
<1>1. /\ GeminiKeeps(t)
      /\ s.failed \/ s.finished => t = s
      /\ ~s.failed /\ ~s.finished =>
            /\ e.type = "error" => GeminiWrites(s, t, "error") /\ t.failed = TRUE
            /\ IsFinal(e) => GeminiFinishes(s, t) \/ GeminiFails(s, t)
            /\ e.type = "message_stop" => GeminiEnds(s, t) \/ GeminiFails(s, t)
            /\ e.type \notin {"error", "message_stop"} /\ ~IsFinal(e) =>
                  GeminiGoesOn(s, t) \/ GeminiFails(s, t)
  BY GeminiSerialized
<1> HIDE DEF t
<1>0. s.errors \in Nat
  BY DEF GeminiKeeps
<1>2. CASE IsDone(s)
  <2>1. t = s
    BY <1>1, <1>2 DEF IsDone
  <2> QED
    BY <1>0, <1>1, <1>2, <2>1 DEF t
<1>3. CASE ~IsDone(s)
  <2>1. ~GeminiEnd(s) /\ ~GeminiFinish(s)
    BY <1>3, GeminiOpen
  <2>2. CASE GeminiFails(s, t)
    <3>1. /\ GeminiOnce(t) /\ t.errors > 0 /\ t.errors >= s.errors /\ IsDone(t)
          /\ GeminiEnd(t) <=> GeminiEnd(s)
          /\ GeminiFinish(t) <=> GeminiFinish(s)
      BY <2>2, FailsOnce
    <3>2. t.finished = s.finished
      BY <2>2 DEF GeminiFails
    <3> QED
      BY <1>1, <1>3, <3>1, <3>2 DEF t
  <2>3. CASE e.type = "error"
    <3>1. GeminiWrites(s, t, "error") /\ t.failed = TRUE
      BY <1>1, <1>3, <2>3 DEF IsDone
    <3>2. /\ \A q \in 1..Len(t.out) : t.out[q].type \in {"finish", "error"} => q = Len(t.out)
          /\ GeminiEnd(t) /\ ~GeminiFinish(t)
      BY <2>1, <3>1, PartEnds
    <3>3. GeminiOnce(t) /\ IsDone(t)
      BY <3>1, <3>2 DEF GeminiOnce, IsDone
    <3>4. t.errors = s.errors
      BY <3>1 DEF GeminiWrites
    <3>5. ~IsFinal(e)
      BY <2>3 DEF IsFinal
    <3> QED
      BY <1>0, <1>1, <1>3, <2>3, <3>2, <3>3, <3>4, <3>5 DEF t
  <2>4. CASE IsFinal(e) /\ GeminiFinishes(s, t)
    <3>1. /\ \A q \in 1..Len(t.out) : t.out[q].type \in {"finish", "error"} => q = Len(t.out)
          /\ GeminiEnd(t)
      BY <2>1, <2>4, PartEnds DEF GeminiFinishes
    <3>2. t.failed = s.failed /\ t.finished = TRUE /\ t.errors = s.errors
      BY <2>4 DEF GeminiFinishes, GeminiWrites
    <3>3. GeminiOnce(t) /\ IsDone(t)
      BY <1>3, <3>1, <3>2 DEF GeminiOnce, IsDone
    <3> QED
      BY <1>0, <1>1, <1>3, <2>4, <3>1, <3>2, <3>3 DEF t, IsFinal
  <2>5. CASE e.type = "message_stop" /\ GeminiEnds(s, t)
    <3>1. t.finished = TRUE /\ t.failed = s.failed /\ t.errors = s.errors /\ t.out = s.out
      BY <2>5 DEF GeminiEnds
    <3>2. ~GeminiEnd(t) /\ ~GeminiFinish(t)
      BY <2>1, <3>1 DEF GeminiEnd, GeminiFinish
    <3>3. GeminiOnce(t)
      BY <1>3, <3>1, <3>2 DEF GeminiOnce, GeminiEnd, IsDone
    <3>4. ~IsFinal(e)
      BY <2>5 DEF IsFinal
    <3> QED
      BY <1>0, <1>1, <1>3, <2>1, <2>5, <3>1, <3>2, <3>3, <3>4 DEF t
  <2>6. CASE e.type \notin {"error", "message_stop"} /\ ~IsFinal(e) /\ GeminiGoesOn(s, t)
    <3>1. GeminiSame(s, t) /\ Adds(s.out, t.out, PartTypes)
      BY <2>6 DEF GeminiGoesOn
    <3>2. ~GeminiEnd(t) /\ ~GeminiFinish(t)
      BY <2>1, <3>1, PartsEndNothing
    <3>3. t.failed = s.failed /\ t.finished = s.finished /\ t.errors = s.errors
      BY <3>1 DEF GeminiSame
    <3>4. GeminiOnce(t)
      BY <1>3, <3>2, <3>3 DEF GeminiOnce, GeminiEnd, IsDone
    <3> QED
      BY <1>0, <1>1, <1>3, <2>1, <2>6, <3>2, <3>3, <3>4 DEF t
  <2> QED
    BY <1>1, <1>3, <2>2, <2>3, <2>4, <2>5, <2>6 DEF IsDone
<1> QED
  BY <1>2, <1>3

LEMMA GeminiFlushStep ==
    ASSUME NEW s, GeminiKeeps(s), GeminiOnce(s)
    PROVE  LET t == ToGemini!GeminiFlush(s) IN
           /\ GeminiKeeps(t) /\ GeminiOnce(t)
           /\ IsDone(s) => IsDone(t)
           /\ GeminiEnd(t) <=> GeminiEnd(s)
           /\ GeminiFinish(t) <=> GeminiFinish(s)
           /\ t.errors >= s.errors
<1> DEFINE t == ToGemini!GeminiFlush(s)
<1>1. /\ s.failed \/ s.finished => t = s
      /\ ~s.failed /\ ~s.finished => GeminiEnds(s, t) \/ GeminiFails(s, t)
  BY GeminiFlushed
<1> HIDE DEF t
<1>0. s.errors \in Nat
  BY DEF GeminiKeeps
<1>2. CASE IsDone(s)
  <2>1. t = s
    BY <1>1, <1>2 DEF IsDone
  <2> QED
    BY <1>0, <1>2, <2>1 DEF t
<1>3. CASE ~IsDone(s) /\ GeminiFails(s, t)
  <2>1. /\ GeminiOnce(t) /\ t.errors >= s.errors
        /\ GeminiEnd(t) <=> GeminiEnd(s)
        /\ GeminiFinish(t) <=> GeminiFinish(s)
    BY <1>3, FailsOnce
  <2> QED
    BY <1>3, <2>1 DEF t, GeminiFails
<1>4. CASE ~IsDone(s) /\ GeminiEnds(s, t)
  <2>1. t.finished = TRUE /\ t.failed = s.failed /\ t.errors = s.errors /\ t.out = s.out /\ GeminiKeeps(t)
    BY <1>4 DEF GeminiEnds
  <2>2. /\ GeminiEnd(t) <=> GeminiEnd(s)
        /\ GeminiFinish(t) <=> GeminiFinish(s)
    BY <2>1 DEF GeminiEnd, GeminiFinish
  <2>3. GeminiOnce(t)
    BY <1>4, <2>1, <2>2 DEF GeminiOnce, IsDone, GeminiEnd
  <2> QED
    BY <1>0, <1>4, <2>1, <2>2, <2>3 DEF t
<1> QED
  BY <1>1, <1>2, <1>3, <1>4 DEF IsDone

-----------------------------------------------------------------------------
(* The timing collector: the marks of any events, in any order. *)

\* A collector, whose marks are times.
TimingType ==
    [start : Nat, firstByte : Nat, stop : Nat, lastEvent : Nat, requestSent : Nat, header : Nat,
     thinkingStart : Nat, thinkingEnd : Nat, contentStart : Nat, contentEnd : Nat, toolStart : Nat,
     usage : BOOLEAN]

\* A stage that is over was begun before.
Over(start, end) == end # 0 => start # 0 /\ start <= end

\* A stage that began before the next one was over by then.
Before(start, end, next) == start # 0 /\ next # 0 /\ start < next => end # 0 /\ end <= next

\* The marks that events set.
MarksOf(tc) == {tc.start, tc.firstByte, tc.stop, tc.thinkingStart, tc.thinkingEnd, tc.contentStart,
                tc.contentEnd, tc.toolStart}

\* No mark is later than the last event; none but those of start and stop come
\* before the first byte, and the stop not before the start.
Anchored(tc) ==
    /\ tc.requestSent \in {0, 1}
    /\ tc.start = 0 <=> tc.lastEvent = 0
    /\ tc.start # 0 => 2 <= tc.start
    /\ tc.stop # 0 => tc.start <= tc.stop /\ tc.start # 0
    /\ \A m \in MarksOf(tc) : m <= tc.lastEvent
    /\ \A m \in {tc.thinkingStart, tc.contentStart, tc.toolStart} :
          m # 0 => tc.firstByte # 0 /\ tc.firstByte <= m

\* The three stages, of which the earlier was over when a later one began.
Staged(tc) ==
    /\ Over(tc.thinkingStart, tc.thinkingEnd) /\ Over(tc.contentStart, tc.contentEnd)
    /\ Before(tc.thinkingStart, tc.thinkingEnd, tc.contentStart)
    /\ Before(tc.thinkingStart, tc.thinkingEnd, tc.toolStart)
    /\ Before(tc.contentStart, tc.contentEnd, tc.toolStart)
    /\ tc.thinkingEnd # 0 => tc.contentStart # 0 \/ tc.toolStart # 0
    /\ tc.contentEnd # 0 => tc.toolStart # 0

Marked(tc) == tc \in TimingType /\ Anchored(tc) /\ Staged(tc)

\* No event breaks that: the parts of Observe one by one, then the whole.
LEMMA NothingMarked == Marked(Timing!NewTimingCollector) /\ Timing!NewTimingCollector.lastEvent = 0
  BY DEF Marked, TimingType, Anchored, Staged, Over, Before, MarksOf, Timing!NewTimingCollector, Timing!Never

LEMMA SeenMarked ==
    ASSUME NEW tc, Marked(tc), NEW time \in Nat, 2 <= time, tc.lastEvent <= time
    PROVE  LET seen == [tc EXCEPT !.lastEvent = time, !.start = Timing!Mark(@, time)] IN
           /\ Marked(seen) /\ seen.lastEvent = time
           /\ Marked([seen EXCEPT !.requestSent = 1, !.header = 2])
           /\ Marked([seen EXCEPT !.stop = time])
           /\ LET first == [seen EXCEPT !.firstByte = Timing!Mark(@, time)] IN
              Marked(first) /\ first.lastEvent = time /\ first.firstByte # 0
<1> DEFINE seen == [tc EXCEPT !.lastEvent = time, !.start = Timing!Mark(@, time)]
           first == [seen EXCEPT !.firstByte = Timing!Mark(@, time)]
<1>1. /\ seen \in TimingType /\ seen.lastEvent = time /\ seen.start = Timing!Mark(tc.start, time)
      /\ seen.firstByte = tc.firstByte /\ seen.stop = tc.stop /\ seen.requestSent = tc.requestSent
      /\ seen.thinkingStart = tc.thinkingStart /\ seen.thinkingEnd = tc.thinkingEnd
      /\ seen.contentStart = tc.contentStart /\ seen.contentEnd = tc.contentEnd
      /\ seen.toolStart = tc.toolStart
  BY DEF Marked, TimingType, Timing!Mark
<1> HIDE DEF seen
<1>2. Marked(seen) /\ seen.start # 0
  BY <1>1 DEF Marked, TimingType, Anchored, Staged, MarksOf, Timing!Mark, Timing!Never
<1>3. Marked([seen EXCEPT !.requestSent = 1, !.header = 2])
  BY <1>2 DEF Marked, TimingType, Anchored, Staged, MarksOf
<1>4. Marked([seen EXCEPT !.stop = time])
  BY <1>1, <1>2 DEF Marked, TimingType, Anchored, Staged, MarksOf
<1>5. /\ first \in TimingType /\ first.lastEvent = time /\ first.start = seen.start
      /\ first.firstByte = Timing!Mark(seen.firstByte, time) /\ first.stop = seen.stop
      /\ first.requestSent = seen.requestSent
      /\ first.thinkingStart = seen.thinkingStart /\ first.thinkingEnd = seen.thinkingEnd
      /\ first.contentStart = seen.contentStart /\ first.contentEnd = seen.contentEnd
      /\ first.toolStart = seen.toolStart
  BY <1>1, <1>2 DEF Marked, TimingType, Timing!Mark
<1> HIDE DEF first
<1>6. Marked(first) /\ first.firstByte # 0
  BY <1>1, <1>2, <1>5 DEF Marked, TimingType, Anchored, Staged, MarksOf, Timing!Mark, Timing!Never
<1> QED
  BY <1>1, <1>2, <1>3, <1>4, <1>5, <1>6 DEF seen, first

\* Marks that one of the handlers sets.
Moves(tc, s, time, text, tool) ==
    /\ s \in TimingType /\ s.lastEvent = tc.lastEvent /\ s.start = tc.start /\ s.stop = tc.stop
    /\ s.firstByte = tc.firstByte /\ s.requestSent = tc.requestSent
    /\ s.thinkingStart = tc.thinkingStart
    /\ s.contentStart = IF text /\ tc.contentStart = 0 THEN time ELSE tc.contentStart
    /\ s.toolStart = IF tool /\ tc.toolStart = 0 THEN time ELSE tc.toolStart
    /\ s.contentEnd = IF tool /\ tc.contentEnd = 0 /\ tc.contentStart # 0 THEN time ELSE tc.contentEnd
    /\ s.thinkingEnd \in
          {tc.thinkingEnd, IF tc.thinkingEnd = 0 /\ tc.thinkingStart # 0 THEN time ELSE tc.thinkingEnd}
    /\ tool \/ tc.contentEnd = 0 =>
          s.thinkingEnd = IF tc.thinkingEnd = 0 /\ tc.thinkingStart # 0 THEN time ELSE tc.thinkingEnd

LEMMA MovesMarked ==
    ASSUME NEW tc, Marked(tc), NEW time \in Nat, 2 <= time, tc.lastEvent = time, tc.firstByte # 0,
           NEW text \in BOOLEAN, NEW tool \in BOOLEAN, text # tool, NEW s, Moves(tc, s, time, text, tool)
    PROVE  Marked(s)
<1>1. s \in TimingType /\ tc \in TimingType
  BY DEF Moves, Marked
<1>2. Anchored(s)
  BY <1>1 DEF Moves, Marked, TimingType, Anchored, MarksOf, Staged, Over
<1>3. Staged(s)
  BY <1>1 DEF Moves, Marked, TimingType, Anchored, MarksOf, Staged, Over, Before
<1> QED
  BY <1>1, <1>2, <1>3 DEF Marked

LEMMA DeltaMarked ==
    ASSUME NEW tc, Marked(tc), NEW time \in Nat, 2 <= time, tc.lastEvent = time, tc.firstByte # 0
    PROVE  /\ Marked([tc EXCEPT !.thinkingStart = Timing!Mark(@, time)])
           /\ Marked(Timing!TextDelta(tc, time))
           /\ Marked(Timing!TextStart(tc, time))
           /\ Marked(Timing!ToolEvent(tc, time))
           /\ Marked([tc EXCEPT !.usage = TRUE])
<1>1. Marked([tc EXCEPT !.thinkingStart = Timing!Mark(@, time)])
  BY DEF Marked, TimingType, Anchored, Staged, Over, Before, MarksOf, Timing!Mark, Timing!Never
<1>2. Moves(tc, Timing!TextDelta(tc, time), time, TRUE, FALSE)
  BY DEF Moves, Marked, TimingType, Timing!Mark, Timing!Ends, Timing!Never, Timing!TextDelta
<1>3. Moves(tc, Timing!TextStart(tc, time), time, TRUE, FALSE)
  BY DEF Moves, Marked, TimingType, Timing!Mark, Timing!Ends, Timing!Never, Timing!TextStart
<1>4. Moves(tc, Timing!ToolEvent(tc, time), time, FALSE, TRUE)
  BY DEF Moves, Marked, TimingType, Timing!Mark, Timing!Ends, Timing!Never, Timing!ToolEvent
<1>5. Marked([tc EXCEPT !.usage = TRUE])
  BY DEF Marked, TimingType, Anchored, Staged, Over, Before, MarksOf
<1> QED
  BY <1>1, <1>2, <1>3, <1>4, <1>5, MovesMarked

LEMMA HandledMarked ==
    ASSUME NEW tc, Marked(tc), NEW e, NEW time \in Nat, 2 <= time, tc.lastEvent = time, tc.firstByte # 0
    PROVE  LET s == Timing!HandleDelta(tc, e, time) IN Marked(s) /\ s.lastEvent = time
<1> DEFINE s == Timing!HandleDelta(tc, e, time)
<1>1. s \in {[tc EXCEPT !.thinkingStart = Timing!Mark(@, time)], Timing!TextDelta(tc, time),
             Timing!TextStart(tc, time), Timing!ToolEvent(tc, time), [tc EXCEPT !.usage = TRUE], tc}
  BY Zenon DEF Timing!HandleDelta
<1>2. \A r \in {[tc EXCEPT !.thinkingStart = Timing!Mark(@, time)], Timing!TextDelta(tc, time),
               Timing!TextStart(tc, time), Timing!ToolEvent(tc, time), [tc EXCEPT !.usage = TRUE], tc} :
          r.lastEvent = time
  BY DEF Marked, TimingType, Timing!TextDelta, Timing!TextStart, Timing!ToolEvent
<1>3. /\ Marked([tc EXCEPT !.thinkingStart = Timing!Mark(@, time)])
      /\ Marked(Timing!TextDelta(tc, time))
      /\ Marked(Timing!TextStart(tc, time))
      /\ Marked(Timing!ToolEvent(tc, time))
      /\ Marked([tc EXCEPT !.usage = TRUE])
  BY DeltaMarked
<1> QED
  BY <1>1, <1>2, <1>3, Zenon

LEMMA ObservedMarked ==
    ASSUME NEW tc, Marked(tc), NEW e, NEW time \in Nat, 2 <= time, tc.lastEvent <= time
    PROVE  LET s == Timing!Observe(tc, e, time) IN Marked(s) /\ s.lastEvent = time
<1> DEFINE seen == [tc EXCEPT !.lastEvent = time, !.start = Timing!Mark(@, time)]
           first == [seen EXCEPT !.firstByte = Timing!Mark(@, time)]
           anchored == [seen EXCEPT !.requestSent = 1, !.header = 2]
           ended == [seen EXCEPT !.stop = time]
           s == Timing!Observe(tc, e, time)
<1>1. /\ Marked(seen) /\ seen.lastEvent = time /\ Marked(anchored) /\ Marked(ended)
      /\ Marked(first) /\ first.lastEvent = time /\ first.firstByte # 0
  BY SeenMarked
<1>2. anchored.lastEvent = seen.lastEvent /\ ended.lastEvent = seen.lastEvent
  <2> HIDE DEF seen
  <2> QED
    OBVIOUS
<1>3. s \in {anchored, ended, seen, Timing!HandleDelta(first, e, time)}
  BY Zenon DEF Timing!Observe, Timing!RequestSentAt, Timing!ResponseHeaderAt
<1> HIDE DEF seen, first, anchored, ended
<1>4. Marked(Timing!HandleDelta(first, e, time)) /\ Timing!HandleDelta(first, e, time).lastEvent = time
  BY <1>1, HandledMarked
<1> QED
  BY <1>1, <1>2, <1>3, <1>4, Zenon

\* Stats of such marks.
LEMMA MarkedMeasured ==
    ASSUME Marked(timing)
    PROVE  StagesMeasured
<1> DEFINE tc == timing
           stages == Timing!Stages(tc)
           tool == Timing!Or(tc.toolStart, Timing!End(tc))
           thinkingTo == Timing!Or(tc.thinkingEnd, Timing!Or(tc.contentStart, tool))
           contentTo == Timing!Or(tc.contentEnd, tool)
<1>1. /\ DOMAIN stages \subseteq 1..3
      /\ 1 \in DOMAIN stages <=> tc.thinkingStart # 0
      /\ 2 \in DOMAIN stages <=> tc.contentStart # 0
      /\ 3 \in DOMAIN stages <=> tc.toolStart # 0
      /\ 1 \in DOMAIN stages => stages[1].from = tc.thinkingStart /\ stages[1].to = thinkingTo
      /\ 2 \in DOMAIN stages => stages[2].from = tc.contentStart /\ stages[2].to = contentTo
      /\ 3 \in DOMAIN stages => stages[3].from = tc.toolStart /\ stages[3].to = Timing!End(tc)
  BY DEF Timing!Stages, Timing!Never
<1> HIDE DEF stages
<1> SUFFICES ASSUME tc.lastEvent # 0,
                    \A p, q \in DOMAIN stages : p < q => stages[p].from < stages[q].from,
                    \A p \in DOMAIN stages : stages[p].from <= Timing!End(tc)
             PROVE  /\ Timing!Begin(tc) <= Timing!End(tc)
                    /\ \A p \in DOMAIN stages :
                          /\ tc.firstByte <= stages[p].from
                          /\ stages[p].from <= stages[p].to /\ stages[p].to <= Timing!End(tc)
                    /\ \A p, q \in DOMAIN stages : p < q => stages[p].to <= stages[q].from
  BY DEF StagesMeasured, stages, Timing!Never
<1>2. tc \in TimingType /\ Anchored(tc) /\ Staged(tc)
  BY DEF Marked
<1>3. Timing!Begin(tc) <= Timing!End(tc) /\ Timing!End(tc) \in Nat /\ Timing!End(tc) # 0
  BY <1>2 DEF Anchored, TimingType, MarksOf, Timing!Begin, Timing!End, Timing!Or, Timing!Never
<1>4. /\ 1 \in DOMAIN stages => tc.thinkingStart <= Timing!End(tc)
      /\ 2 \in DOMAIN stages => tc.contentStart <= Timing!End(tc)
      /\ 3 \in DOMAIN stages => tc.toolStart <= Timing!End(tc)
      /\ 1 \in DOMAIN stages /\ 2 \in DOMAIN stages => tc.thinkingStart < tc.contentStart
      /\ 1 \in DOMAIN stages /\ 3 \in DOMAIN stages => tc.thinkingStart < tc.toolStart
      /\ 2 \in DOMAIN stages /\ 3 \in DOMAIN stages => tc.contentStart < tc.toolStart
  BY <1>1
<1> DEFINE end == Timing!End(tc)
<1> HIDE DEF end
<1>5. /\ 1 \in DOMAIN stages => /\ tc.thinkingStart <= thinkingTo /\ thinkingTo <= end
                                /\ 2 \in DOMAIN stages => thinkingTo <= tc.contentStart
                                /\ 3 \in DOMAIN stages => thinkingTo <= tc.toolStart
      /\ 2 \in DOMAIN stages => /\ tc.contentStart <= contentTo /\ contentTo <= end
                                /\ 3 \in DOMAIN stages => contentTo <= tc.toolStart
  BY <1>1, <1>2, <1>3, <1>4 DEF Staged, Over, Before, TimingType, Timing!Or, Timing!Never, end
<1>6. \A p \in DOMAIN stages : tc.firstByte <= stages[p].from
  BY <1>1, <1>2 DEF Anchored, TimingType
<1> HIDE DEF thinkingTo, contentTo
<1>7. \A p \in DOMAIN stages : stages[p].from <= stages[p].to /\ stages[p].to <= end
  BY <1>1, <1>2, <1>3, <1>4, <1>5 DEF end, TimingType
<1>8. \A p, q \in DOMAIN stages : p < q => stages[p].to <= stages[q].from
  BY <1>1, <1>5
<1> QED
  BY <1>3, <1>6, <1>7, <1>8 DEF end

-----------------------------------------------------------------------------
(* The turns of a request to Gemini. *)

\* What is filtered of the places behind the first n is the rest of the sequence.
IsRest(kept, s, n, b) ==
    Len(s) = n + b /\ \A p \in 1..Len(s) : p \in kept <=> p > n

IsEnd(q, s, n, b) ==
    Len(q) = b /\ \A k \in 1..b : q[k] = s[n + k]

LEMMA FilteredRest ==
    ASSUME NEW s, NEW n \in Nat, NEW b \in Nat, NEW kept, IsRest(kept, s, n, b),
           NEW q, NEW v, Filters(q, s, kept, v)
    PROVE  IsEnd(q, s, n, b)
<1> DEFINE l == Len(q)
           Bad == {k \in 1..l : v[k] # n + k}
<1>1. /\ l \in Nat
      /\ \A k \in 1..l : v[k] \in 1..(n + b) /\ v[k] > n /\ q[k] = s[v[k]]
      /\ \A k, j \in 1..l : k < j => v[k] < v[j]
      /\ \A p \in 1..(n + b) : p > n => \E k \in 1..l : v[k] = p
  BY Domains DEF Filters, IsRest
<1> HIDE DEF l
<1>2. Bad = {}
  <2> SUFFICES ASSUME Bad # {} PROVE FALSE
    OBVIOUS
  <2>1. Bad \in SUBSET Nat
    BY <1>1
  <2>2. PICK m \in Bad : \A k \in Bad : m <= k
    BY <2>1, Smallest
  <2>3. m \in 1..l /\ m \in Nat /\ v[m] \in 1..(n + b) /\ v[m] > n /\ v[m] # n + m
    BY <1>1, <2>2
  <2>4. \A k \in 1..l : k < m => v[k] = n + k
    BY <1>1, <2>1, <2>2
  <2>5. v[m] > n + m
    <3>1. CASE m = 1
      BY <2>3, <3>1
    <3>2. CASE m # 1
      <4>1. m - 1 \in 1..l /\ m - 1 < m /\ n + (m - 1) = (n + m) - 1
        BY <1>1, <2>3, <3>2
      <4>2. v[m - 1] = n + (m - 1) /\ v[m - 1] < v[m]
        BY <1>1, <2>3, <2>4, <4>1
      <4> QED
        BY <2>3, <4>1, <4>2
    <3> QED
      BY <3>1, <3>2
  <2>6. n + m \in 1..(n + b) /\ n + m > n
    BY <2>3, <2>5
  <2>7. PICK k \in 1..l : v[k] = n + m
    BY <1>1, <2>6
  <2>8. k \in Nat /\ (k < m \/ k = m \/ m < k)
    BY <1>1, <2>3
  <2>9. m < k => v[m] < v[k]
    BY <1>1, <2>3
  <2> QED
    BY <2>3, <2>4, <2>5, <2>7, <2>8, <2>9
<1>3. \A k \in 1..l : v[k] = n + k
  BY <1>2
<1>4. l = b
  <2>1. l <= b
    <3>1. l # 0 => l \in 1..l /\ v[l] = n + l /\ v[l] <= n + b
      BY <1>1, <1>3
    <3> QED
      BY <1>1, <3>1
  <2>2. ~(l < b)
    <3> SUFFICES ASSUME l < b PROVE FALSE
      OBVIOUS
    <3>1. (n + l) + 1 \in 1..(n + b) /\ (n + l) + 1 > n
      BY <1>1
    <3>2. PICK k \in 1..l : v[k] = (n + l) + 1
      BY <1>1, <3>1
    <3>3. v[k] = n + k /\ k <= l /\ k \in Nat
      BY <1>1, <1>3
    <3> QED
      BY <1>1, <3>2, <3>3
  <2> QED
    BY <1>1, <2>1, <2>2
<1> QED
  BY <1>1, <1>3, <1>4 DEF IsEnd, l

\* A turn: of the user or the model, with parts.
IsTurn(t) == t.role \in {"user", "model"} /\ "parts" \in DOMAIN t /\ IsSequence(t.parts)
Calls(t) == \E p \in 1..Len(t.parts) : t.parts[p].type = "call"
Answers(t) == \E p \in 1..Len(t.parts) : t.parts[p].type = "response"

\* The turn u has the results of the calls of t.
Closes(msgs, t, u) ==
    /\ u.role = "user" /\ Answers(u)
    /\ Len(u.parts) = Len(CallParts(t))
    /\ \A q \in DOMAIN CallParts(t) :
          /\ u.parts[q].type = "response" /\ u.parts[q].id = CallParts(t)[q].id
          /\ \E r \in DOMAIN msgs : /\ msgs[r].role = "tool" /\ msgs[r].id = CallParts(t)[q].id
                                    /\ u.parts[q].from = msgs[r].from

LEMMA CallPartsFilter ==
    ASSUME NEW t, IsSequence(t.parts)
    PROVE  \E v : Filters(CallParts(t), t.parts, {p \in DOMAIN t.parts : t.parts[p].type = "call"}, v)
<1> DEFINE s == t.parts
           kept == {p \in DOMAIN s : s[p].type = "call"}
<1>1. \A p \in DOMAIN s : (IF s[p].type = "call" THEN <<s[p]>> ELSE <<>>) = (IF p \in kept THEN <<s[p]>> ELSE <<>>)
  OBVIOUS
<1>2. [p \in DOMAIN s |-> IF s[p].type = "call" THEN <<s[p]>> ELSE <<>>] =
      [p \in DOMAIN s |-> IF p \in kept THEN <<s[p]>> ELSE <<>>]
  BY <1>1
<1>3. CallParts(t) = Filtered(s, kept)
  BY <1>2 DEF CallParts, Filtered
<1> QED
  BY <1>3, FilteredPlaces

LEMMA CallsHaveParts ==
    ASSUME NEW t, IsSequence(t.parts)
    PROVE  IsSequence(CallParts(t)) /\ (CallParts(t) # <<>> <=> Calls(t))
<1> DEFINE kept == {p \in DOMAIN t.parts : t.parts[p].type = "call"}
           c == CallParts(t)
<1>1. PICK v : Filters(c, t.parts, kept, v)
  BY CallPartsFilter
<1>2. DOMAIN t.parts = 1..Len(t.parts)
  BY Domains
<1>3. \A p \in 1..Len(t.parts) : p \in kept <=> t.parts[p].type = "call"
  BY <1>2
<1> HIDE DEF kept, c
<1>4. IsSequence(c)
  BY <1>1 DEF Filters
<1>5. PICK S : c \in Seq(S)
  BY <1>4 DEF IsSequence
<1>6. c # <<>> <=> 1 \in 1..Len(c)
  BY <1>5
<1>7. Len(c) \in Nat
  BY <1>5
<1>8. 1 \in 1..Len(c) => Calls(t)
  BY <1>1, <1>3 DEF Filters, Calls
<1>9. Calls(t) => 1 \in 1..Len(c)
  <2> SUFFICES ASSUME Calls(t) PROVE 1 \in 1..Len(c)
    OBVIOUS
  <2>1. PICK p \in 1..Len(t.parts) : p \in kept
    BY <1>3 DEF Calls
  <2>2. PICK k \in 1..Len(c) : v[k] = p
    BY <1>1, <2>1 DEF Filters
  <2> QED
    BY <1>7, <2>2
<1> QED
  BY <1>4, <1>6, <1>8, <1>9 DEF c

\* Every call of the messages has a result among them.
AllAnswered(msgs) ==
    \A k \in 1..Len(msgs) : msgs[k].role = "assistant" =>
        \A j \in 1..Len(msgs[k].calls) : \E r \in 1..Len(msgs) : msgs[r].role = "tool" /\ msgs[r].id = msgs[k].calls[j]

\* What becomes of a message: no turn, one that does not call, or one with its answer.
LEMMA TurnsOfIs ==
    ASSUME NEW msgs, AllPassed(msgs), AllAnswered(msgs), NEW k \in 1..Len(msgs),
           NEW c, c = Requests!TurnsOf(msgs, msgs[k])
    PROVE  /\ IsSequence(c) /\ \A j \in 1..Len(c) : IsTurn(c[j]) /\ j \in {1, 2}
           /\ \A j \in 1..Len(c) : Calls(c[j]) => j = 1 /\ 2 \in 1..Len(c) /\ Closes(msgs, c[1], c[2])
<1> DEFINE m == msgs[k]
<1>0. /\ Passed(m) /\ DOMAIN msgs = 1..Len(msgs)
      /\ \A j \in 1..0 : FALSE
      /\ \A j \in 1..1 : j = 1
      /\ \A j \in 1..2 : j = 1 \/ j = 2
      /\ 1 \in 1..1 /\ 1 \in 1..2 /\ 2 \in 1..2
  BY Domains DEF AllPassed
<1>1. CASE m.role = "user"
  <2> DEFINE y == IF m.text = "none" THEN "empty" ELSE "text"
             x == Requests!GeminiPart(y, NoID, m.from)
             t == Requests!GeminiTurn("user", <<x>>)
  <2>1. c = <<t>>
    BY <1>1 DEF Requests!TurnsOf
  <2>2. x.type # "call" /\ t.role = "user" /\ t.parts = <<x>> /\ "parts" \in DOMAIN t
    BY DEF Requests!GeminiPart, Requests!GeminiTurn
  <2> HIDE DEF x, t
  <2>3. Len(<<x>>) = 1 /\ <<x>>[1] = x /\ Len(<<t>>) = 1 /\ <<t>>[1] = t /\ IsSequence(<<x>>) /\ IsSequence(<<t>>)
    BY SequenceOfOne
  <2>4. ~Calls(t)
    BY <1>0, <2>2, <2>3 DEF Calls
  <2>5. IsTurn(t)
    BY <2>2, <2>3 DEF IsTurn
  <2> QED
    BY <1>0, <2>1, <2>3, <2>4, <2>5
<1>2. CASE m.role = "tool"
  <2>1. c = <<>>
    BY <1>2 DEF Requests!TurnsOf
  <2>2. Len(<<>>) = 0
    OBVIOUS
  <2> QED
    BY <1>0, <2>1, <2>2, SequenceOfNone
<1>3. CASE m.role = "assistant"
  <2> DEFINE s == m.calls
             b0 == Len(s)
             x == Requests!GeminiPart("text", NoID, m.from)
             e == Requests!GeminiPart("empty", NoID, m.from)
             h == Requests!If(m.text # "none", <<x>>)
             g == [p \in DOMAIN s |-> Requests!GeminiPart("call", s[p], m.from)]
             parts == IF h \o g = <<>> THEN <<e>> ELSE h \o g
             t == Requests!GeminiTurn("model", parts)
             rs == [p \in DOMAIN s |-> Requests!ResponseTo(msgs, s[p])]
             u == Requests!GeminiTurn("user", rs)
             n == Len(h)
  <2>1. c = <<t>> \o (IF s # <<>> THEN <<u>> ELSE <<>>)
    BY <1>3 DEF Requests!TurnsOf, Requests!AssistantTurn, Requests!FunctionResponses, Requests!If
  <2>2. PICK S : s \in Seq(S)
    BY <1>0 DEF Passed, IsSequence
  <2>3. b0 \in Nat /\ DOMAIN s = 1..b0 /\ (s = <<>> <=> b0 = 0)
    BY <2>2
  <2>4. /\ x.type = "text" /\ e.type = "empty"
        /\ \A z, f : Requests!GeminiPart("call", z, f).type = "call" /\ Requests!GeminiPart("call", z, f).id = z
        /\ t.role = "model" /\ t.parts = parts /\ "parts" \in DOMAIN t
        /\ u.role = "user" /\ u.parts = rs /\ "parts" \in DOMAIN u
    BY DEF Requests!GeminiPart, Requests!GeminiTurn
  <2>5. h = <<>> \/ h = <<x>>
    BY DEF Requests!If
  <2>6. \A p \in 1..b0 : g[p] = Requests!GeminiPart("call", s[p], m.from) /\ rs[p] = Requests!ResponseTo(msgs, s[p])
    BY <2>3
  <2> DEFINE U == {x, e} \cup {Requests!GeminiPart("call", y, m.from) : y \in S}
             R == {Requests!ResponseTo(msgs, y) : y \in S}
  <2>7. g \in Seq(U) /\ Len(g) = b0 /\ rs \in Seq(R) /\ Len(rs) = b0 /\ x \in U /\ e \in U
    <3>1. \A p \in 1..b0 : s[p] \in S
      BY <2>2
    <3>2. \A p \in 1..b0 : g[p] \in U /\ rs[p] \in R
      BY <2>6, <3>1
    <3>3. DOMAIN g = 1..b0 /\ DOMAIN rs = 1..b0 /\ g = [p \in 1..b0 |-> g[p]] /\ rs = [p \in 1..b0 |-> rs[p]]
      BY <2>3
    <3> HIDE DEF U, R, g, rs, b0
    <3>4. g \in [1..b0 -> U] /\ rs \in [1..b0 -> R]
      BY <3>2, <3>3
    <3> QED
      BY <2>3, <3>4 DEF U
  <2> HIDE DEF x, e, h, g, t, u, rs, s, U, R
  <2>8. <<>> \in Seq(U) /\ <<x>> \in Seq(U) /\ <<e>> \in Seq(U) /\ Len(<<e>>) = 1 /\ <<e>>[1] = e /\ Len(<<x>>) = 1 /\ <<x>>[1] = x
        /\ Len(<<>>) = 0
    BY <2>7
  <2>9. h \in Seq(U) /\ n \in Nat /\ \A p \in 1..n : h[p].type = "text"
    BY <1>0, <2>4, <2>5, <2>8
  <2>10. /\ h \o g \in Seq(U) /\ Len(h \o g) = n + b0
         /\ \A p \in 1..n : (h \o g)[p] = h[p]
         /\ \A p \in 1..b0 : (h \o g)[n + p] = g[p]
    BY <2>7, <2>9
  <2>11. parts \in Seq(U)
    BY <2>8, <2>10
  <2>12. IsTurn(t) /\ IsTurn(u)
    BY <2>4, <2>7, <2>11 DEF IsTurn, IsSequence
  <2>13. ~Calls(u)
    <3>1. \A y : Requests!ResponseTo(msgs, y).type = "response"
      BY DEF Requests!ResponseTo, Requests!GeminiPart
    <3>2. \A p \in 1..b0 : rs[p].type = "response"
      BY <2>6, <3>1
    <3> QED
      BY <2>4, <2>7, <3>2 DEF Calls
  <2>14. CASE s = <<>>
    <3>1. c = <<t>>
      BY <2>1, <2>14
    <3>2. Len(<<t>>) = 1 /\ <<t>>[1] = t /\ IsSequence(<<t>>)
      BY SequenceOfOne
    <3>3. ~Calls(t)
      <4>1. \A p \in 1..Len(parts) : parts[p].type # "call"
        <5>1. b0 = 0
          BY <2>3, <2>14
        <5>2. Len(h \o g) = n /\ \A p \in 1..n : (h \o g)[p].type = "text"
          BY <2>9, <2>10, <5>1
        <5>3. Len(<<e>>) = 1 /\ \A p \in 1..1 : <<e>>[p].type = "empty"
          BY <1>0, <2>4, <2>8
        <5> HIDE DEF n
        <5> QED
          BY <5>2, <5>3
      <4> QED
        BY <2>4, <4>1 DEF Calls
    <3> QED
      BY <1>0, <2>12, <3>1, <3>2, <3>3
  <2>15. CASE s # <<>>
    <3>1. c = <<t>> \o <<u>>
      BY <2>1, <2>15
    <3>2. Len(c) = 2 /\ c[1] = t /\ c[2] = u /\ IsSequence(c)
      <4> DEFINE W == {t, u}
      <4>1. <<t>> \in Seq(W) /\ <<u>> \in Seq(W)
        OBVIOUS
      <4>2. Len(<<t>>) = 1 /\ Len(<<u>>) = 1 /\ <<t>>[1] = t /\ <<u>>[1] = u
        OBVIOUS
      <4> HIDE DEF W
      <4> QED
        BY <3>1, <4>1, <4>2 DEF IsSequence
    <3>3. b0 # 0 /\ 1 \in 1..b0
      BY <2>3, <2>15
    <3>4. h \o g # <<>>
      BY <2>3, <2>8, <2>9, <2>10, <3>3
    <3>5. parts = h \o g
      BY <3>4
    <3> DEFINE kept == {p \in DOMAIN t.parts : t.parts[p].type = "call"}
    <3>6. DOMAIN parts = 1..(n + b0) /\ Len(parts) = n + b0
      BY <2>10, <3>5
    <3>7. \A p \in 1..(n + b0) : p \in kept <=> p > n
      <4> SUFFICES ASSUME NEW p \in 1..(n + b0) PROVE parts[p].type = "call" <=> p > n
        BY <2>4, <3>6
      <4>1. CASE p \in 1..n
        <5>1. parts[p].type = "text"
          BY <2>9, <2>10, <3>5, <4>1
        <5> QED
          BY <2>9, <4>1, <5>1
      <4>2. CASE p - n \in 1..b0 /\ p = n + (p - n)
        <5> DEFINE z == p - n
        <5>1. z \in 1..b0 /\ p = n + z
          BY <4>2
        <5> HIDE DEF z, parts
        <5>2. parts[p] = Requests!GeminiPart("call", s[z], m.from)
          BY <2>6, <2>10, <3>5, <5>1
        <5> QED
          BY <2>3, <2>4, <2>9, <4>2, <5>2
      <4> HIDE DEF n, b0
      <4>3. p \in 1..n \/ (p - n \in 1..b0 /\ p = n + (p - n))
        BY <2>3, <2>9
      <4> QED
        BY <4>1, <4>2, <4>3
    <3>8. PICK v : Filters(CallParts(t), t.parts, kept, v)
      BY <2>12, CallPartsFilter DEF IsTurn
    <3>9. Len(CallParts(t)) = b0 /\ \A q \in 1..b0 : CallParts(t)[q] = t.parts[n + q]
      <4> HIDE DEF kept, parts, n, b0
      <4>1. Len(t.parts) = n + b0
        BY <2>4, <3>6
      <4>2. \A p \in 1..Len(t.parts) : p \in kept <=> p > n
        BY <3>7, <4>1
      <4>3. n \in Nat /\ b0 \in Nat
        BY <2>3, <2>9
      <4>4. IsRest(kept, t.parts, n, b0)
        BY <4>1, <4>2 DEF IsRest
      <4> DEFINE s1 == t.parts
                 q1 == CallParts(t)
      <4>5. IsRest(kept, s1, n, b0) /\ Filters(q1, s1, kept, v)
        BY <3>8, <4>4
      <4> HIDE DEF s1, q1
      <4>6. IsEnd(q1, s1, n, b0)
        BY <4>3, <4>5, FilteredRest
      <4> QED
        BY <4>6 DEF IsEnd, s1, q1
    <3>10. DOMAIN CallParts(t) = 1..b0
      BY <2>12, <3>9, CallsHaveParts, Domains DEF IsTurn
    <3>11. ASSUME NEW q \in 1..b0
           PROVE  /\ u.parts[q].type = "response" /\ u.parts[q].id = CallParts(t)[q].id
                  /\ \E r \in DOMAIN msgs : /\ msgs[r].role = "tool" /\ msgs[r].id = CallParts(t)[q].id
                                            /\ u.parts[q].from = msgs[r].from
      <4>1. CallParts(t)[q].id = s[q]
        <5>1. CallParts(t)[q] = t.parts[n + q]
          BY <3>9
        <5>2. t.parts[n + q] = g[q]
          BY <2>4, <2>10, <3>5
        <5>3. g[q] = Requests!GeminiPart("call", s[q], m.from)
          BY <2>6
        <5> HIDE DEF n, parts
        <5> QED
          BY <2>4, <5>1, <5>2, <5>3
      <4> DEFINE given == {p \in DOMAIN msgs : msgs[p].role = "tool" /\ msgs[p].id = s[q]}
      <4>2. given # {}
        <5>1. \E r \in 1..Len(msgs) : msgs[r].role = "tool" /\ msgs[r].id = m.calls[q]
          BY <1>3 DEF AllAnswered, b0, s
        <5> QED
          BY <1>0, <5>1 DEF s
      <4>3. given \in SUBSET Nat
        BY <1>0, Domains DEF AllPassed
      <4>4. Requests!Min(given) \in given
        <5>1. \E z \in given : \A y \in given : z <= y
          BY <4>2, <4>3, Smallest
        <5> HIDE DEF given
        <5> QED
          BY <5>1 DEF Requests!Min
      <4>5. u.parts[q] = Requests!GeminiPart("response", s[q], msgs[Requests!Min(given)].from)
        <5>1. u.parts[q] = Requests!ResponseTo(msgs, s[q])
          BY <2>4, <2>6
        <5> QED
          BY <4>2, <5>1 DEF Requests!ResponseTo
      <4>6. /\ u.parts[q].type = "response" /\ u.parts[q].id = s[q]
            /\ u.parts[q].from = msgs[Requests!Min(given)].from
        BY <4>5 DEF Requests!GeminiPart
      <4> QED
        BY <4>1, <4>4, <4>6
    <3>12. Closes(msgs, t, u)
      <4>1. Answers(u)
        BY <2>4, <2>7, <3>3, <3>11 DEF Answers
      <4> QED
        BY <2>4, <2>7, <3>9, <3>10, <3>11, <4>1 DEF Closes
    <3> QED
      BY <1>0, <2>12, <2>13, <3>1, <3>2, <3>12
  <2> QED
    BY <2>14, <2>15
<1> QED
  BY <1>0, <1>1, <1>2, <1>3 DEF Passed

\* Every turn that calls is closed by the next.
CallsClosed(msgs, turns) ==
    /\ IsSequence(turns)
    /\ \A k \in 1..Len(turns) : IsTurn(turns[k])
    /\ \A k \in 1..Len(turns) : Calls(turns[k]) =>
          k + 1 \in 1..Len(turns) /\ Closes(msgs, turns[k], turns[k + 1])

AllTurns(msgs) == FlattenSeq([p \in DOMAIN msgs |-> Requests!TurnsOf(msgs, msgs[p])])

LEMMA TurnsClosed ==
    ASSUME NEW msgs, AllPassed(msgs), AllAnswered(msgs), NEW turns, turns = AllTurns(msgs)
    PROVE  CallsClosed(msgs, turns)
<1> DEFINE ss == [p \in DOMAIN msgs |-> Requests!TurnsOf(msgs, msgs[p])]
           n == Len(msgs)
<1>1. DOMAIN msgs = 1..n /\ n \in Nat /\ IsSequence(msgs) /\ \A i \in 1..n : i \in Nat
  BY Domains DEF AllPassed
<1>2. \A i \in 1..n : ss[i] = Requests!TurnsOf(msgs, msgs[i])
  BY <1>1
<1>3. ss = [p \in DOMAIN msgs |-> ss[p]]
  OBVIOUS
<1>4. turns = FlattenSeq(ss)
  BY DEF AllTurns
<1> HIDE DEF ss
<1>5. \A i \in 1..n : /\ IsSequence(ss[i]) /\ \A j \in 1..Len(ss[i]) : IsTurn(ss[i][j]) /\ j \in {1, 2}
                      /\ \A j \in 1..Len(ss[i]) : Calls(ss[i][j]) =>
                            j = 1 /\ 2 \in 1..Len(ss[i]) /\ Closes(msgs, ss[i][1], ss[i][2])
  <2> TAKE i \in 1..n
  <2> DEFINE c == ss[i]
  <2>1. c = Requests!TurnsOf(msgs, msgs[i])
    BY <1>2
  <2> HIDE DEF c
  <2>2. /\ IsSequence(c) /\ \A j \in 1..Len(c) : IsTurn(c[j]) /\ j \in {1, 2}
        /\ \A j \in 1..Len(c) : Calls(c[j]) => j = 1 /\ 2 \in 1..Len(c) /\ Closes(msgs, c[1], c[2])
    BY <2>1, TurnsOfIs
  <2> QED
    BY <2>2 DEF c
<1>6. \A i \in 1..Len(msgs) : IsSequence(ss[i])
  BY <1>5
<1>7. PICK o, w : Placed(turns, ss, n, o, w)
  BY <1>1, <1>3, <1>4, <1>6, PlacesOver
<1>8. /\ IsSequence(turns)
      /\ \A k \in 1..Len(turns) : o[k] \in 1..n /\ w[k] \in 1..Len(ss[o[k]]) /\ turns[k] = ss[o[k]][w[k]]
      /\ \A k, l \in 1..Len(turns) : k < l => o[k] < o[l] \/ (o[k] = o[l] /\ w[k] < w[l])
      /\ \A i \in 1..n : \A j \in 1..Len(ss[i]) : \E k \in 1..Len(turns) : o[k] = i /\ w[k] = j
  BY <1>7 DEF Placed
<1>9. /\ Len(turns) \in Nat /\ \A k \in 1..Len(turns) : k \in Nat /\ o[k] \in Nat /\ w[k] \in {1, 2}
  BY <1>1, <1>5, <1>8, Domains
<1>10. \A k \in 1..Len(turns) : IsTurn(turns[k])
  <2> TAKE k \in 1..Len(turns)
  <2>1. o[k] \in 1..n /\ w[k] \in 1..Len(ss[o[k]]) /\ turns[k] = ss[o[k]][w[k]]
    BY <1>8
  <2> QED
    BY <1>5, <2>1
<1>11. ASSUME NEW k \in 1..Len(turns), Calls(turns[k])
       PROVE  k + 1 \in 1..Len(turns) /\ Closes(msgs, turns[k], turns[k + 1])
  <2> DEFINE i == o[k]
  <2>1. i \in 1..n /\ w[k] \in 1..Len(ss[i]) /\ turns[k] = ss[i][w[k]]
    BY <1>8
  <2> HIDE DEF i
  <2>2. w[k] = 1 /\ 2 \in 1..Len(ss[i]) /\ Closes(msgs, ss[i][1], ss[i][2])
    BY <1>5, <1>11, <2>1
  <2>3. PICK l \in 1..Len(turns) : o[l] = i /\ w[l] = 2
    BY <1>8, <2>1, <2>2
  <2>4. k < l
    <3>1. l < k => o[l] < o[k] \/ (o[l] = o[k] /\ w[l] < w[k])
      BY <1>8
    <3>2. l # k
      BY <2>2, <2>3
    <3>3. o[l] = o[k] /\ o[k] \in Nat
      BY <1>9, <2>3 DEF i
    <3> QED
      BY <1>9, <2>2, <2>3, <3>1, <3>2, <3>3
  <2> DEFINE z == k + 1
  <2>5. z \in 1..Len(turns) /\ k < z /\ (z < l \/ z = l)
    BY <1>9, <2>4
  <2> HIDE DEF z
  <2>6. z = l
    <3> SUFFICES ASSUME z < l PROVE FALSE
      BY <2>5
    <3>1. o[k] < o[z] \/ (o[k] = o[z] /\ w[k] < w[z])
      BY <1>8, <2>5
    <3>2. o[z] < o[l] \/ (o[z] = o[l] /\ w[z] < w[l])
      BY <1>8, <2>5
    <3>3. o[k] = i /\ o[l] = i /\ w[k] = 1 /\ w[l] = 2 /\ i \in Nat /\ o[z] \in Nat /\ w[z] \in {1, 2}
      BY <1>9, <2>1, <2>2, <2>3, <2>5 DEF i
    <3> QED
      BY <3>1, <3>2, <3>3
  <2>7. turns[z] = ss[i][2]
    BY <1>8, <2>3, <2>6
  <2> QED
    BY <2>1, <2>2, <2>5, <2>7 DEF z
<1> QED
  BY <1>8, <1>10, <1>11 DEF CallsClosed

LEMMA FunctionParts ==
    ASSUME NEW t, IsTurn(t)
    PROVE  Requests!HasFunctionPart(t) <=> Calls(t) \/ Answers(t)
<1>1. DOMAIN t.parts = 1..Len(t.parts)
  BY Domains DEF IsTurn
<1>2. \A part : part \in Requests!ToSet(t.parts) <=> \E p \in 1..Len(t.parts) : t.parts[p] = part
  BY <1>1 DEF Requests!ToSet
<1> QED
  BY <1>2 DEF Requests!HasFunctionPart, Calls, Answers

\* The first m turns of q are merged to s: turn k is in turn g[k] of it.
Merged(q, m, s, g) ==
    /\ IsSequence(s)
    /\ \A p \in 1..Len(s) : IsTurn(s[p])
    /\ \A k \in 1..m : g[k] \in 1..Len(s)
    /\ m > 0 => g[m] = Len(s)
    /\ \A k \in 1..m : k > 1 => g[k] = g[k - 1] \/ g[k] = g[k - 1] + 1
    /\ \A k \in 1..m : Requests!HasFunctionPart(q[k]) =>
          s[g[k]] = q[k] /\ \A l \in 1..m : g[l] = g[k] => l = k
    /\ \A p \in 1..Len(s) : Requests!HasFunctionPart(s[p]) =>
          \E k \in 1..m : g[k] = p /\ Requests!HasFunctionPart(q[k])

LEMMA MergingKeeps ==
    ASSUME NEW q, NEW n \in Nat, NEW s, NEW g, Merged(q, n, s, g), NEW m, m = n + 1, IsTurn(q[m])
    PROVE  \E h : Merged(q, m, Merging(s, q[m]), h)
<1> DEFINE e == q[m]
           c == Len(s)
           F(t) == Requests!HasFunctionPart(t)
<1>1. PICK S : s \in Seq(S)
  BY DEF Merged, IsSequence
<1>2. c \in Nat /\ (s = <<>> <=> c = 0) /\ Requests!Last(s) = s[c] /\ (s # <<>> => c \in 1..c)
  BY <1>1 DEF Requests!Last
<1>3. /\ \A p \in 1..c : IsTurn(s[p])
      /\ \A k \in 1..n : g[k] \in 1..c
      /\ n > 0 => g[n] = c
      /\ \A k \in 1..n : k > 1 => g[k] = g[k - 1] \/ g[k] = g[k - 1] + 1
      /\ \A k \in 1..n : F(q[k]) => s[g[k]] = q[k] /\ \A l \in 1..n : g[l] = g[k] => l = k
      /\ \A p \in 1..c : F(s[p]) => \E k \in 1..n : g[k] = p /\ F(q[k])
  BY DEF Merged
<1>4. /\ \A k \in 1..m : k \in 1..n \/ k = m
      /\ \A k \in 1..n : k \in 1..m /\ k # m /\ (k > 1 => k - 1 \in 1..n)
      /\ m \in 1..m /\ m > 0 /\ m - 1 = n /\ (m > 1 => n > 0 /\ n \in 1..n)
  OBVIOUS
<1> HIDE DEF e, F
<1>5. CASE s # <<>> /\ s[c].role = e.role /\ ~F(s[c]) /\ ~F(e)
  <2> DEFINE l == s[c]
             x == [l EXCEPT !.parts = @ \o e.parts]
             z == [s EXCEPT ![c] = x]
             h == [k \in 1..m |-> IF k = m THEN c ELSE g[k]]
             T == S \cup {x}
  <2>1. Merging(s, e) = z
    BY <1>2, <1>5 DEF Merging, F
  <2>2. IsTurn(l) /\ c \in 1..c /\ IsTurn(e)
    BY <1>2, <1>3, <1>5 DEF e
  <2>3. x.role = l.role /\ x.parts = l.parts \o e.parts /\ "parts" \in DOMAIN x
    BY <2>2 DEF IsTurn
  <2>4. z \in Seq(T) /\ Len(z) = c /\ z[c] = x /\ \A p \in 1..c : p # c => z[p] = s[p]
    <3> HIDE DEF x
    <3>1. s \in Seq(T) /\ x \in T
      BY <1>1
    <3> HIDE DEF T
    <3> QED
      BY <2>2, <3>1
  <2> HIDE DEF l, x, z, h, T
  <2>5. IsTurn(x) /\ ~F(x)
    <3>1. PICK P : l.parts \in Seq(P)
      BY <2>2 DEF IsTurn, IsSequence
    <3>2. PICK R : e.parts \in Seq(R)
      BY <2>2 DEF IsTurn, IsSequence
    <3> DEFINE a1 == l.parts
               b1 == e.parts
               j == a1 \o b1
    <3>3. a1 \in Seq(P \cup R) /\ b1 \in Seq(P \cup R)
      BY <3>1, <3>2
    <3> HIDE DEF a1, b1
    <3>4. /\ j \in Seq(P \cup R) /\ Len(j) = Len(a1) + Len(b1) /\ Len(a1) \in Nat /\ Len(b1) \in Nat
          /\ \A p \in 1..Len(a1) : j[p] = a1[p]
          /\ \A p \in 1..Len(b1) : j[Len(a1) + p] = b1[p]
      BY <3>3
    <3>5. IsTurn(x)
      BY <2>2, <2>3, <3>4 DEF IsTurn, IsSequence, a1, b1
    <3>6. ~Calls(l) /\ ~Answers(l) /\ ~Calls(e) /\ ~Answers(e)
      BY <1>5, <2>2, FunctionParts DEF F, l
    <3>7. \A p \in 1..Len(j) : p \in 1..Len(a1) \/ (p - Len(a1) \in 1..Len(b1) /\ p = Len(a1) + (p - Len(a1)))
      BY <3>4
    <3>8. \A p \in 1..Len(j) : j[p].type # "call" /\ j[p].type # "response"
      <4> SUFFICES ASSUME NEW p \in 1..Len(j) PROVE j[p].type # "call" /\ j[p].type # "response"
        OBVIOUS
      <4>1. CASE p \in 1..Len(a1)
        BY <3>4, <3>6, <4>1 DEF Calls, Answers, a1
      <4>2. CASE p - Len(a1) \in 1..Len(b1) /\ p = Len(a1) + (p - Len(a1))
        <5> DEFINE y == p - Len(a1)
        <5>1. y \in 1..Len(b1) /\ p = Len(a1) + y
          BY <4>2
        <5> HIDE DEF y
        <5>2. j[p] = b1[y]
          BY <3>4, <5>1
        <5> QED
          BY <3>6, <5>1, <5>2 DEF Calls, Answers, b1
      <4> QED
        BY <3>7, <4>1, <4>2
    <3>9. x.parts = j
      BY <2>3 DEF a1, b1
    <3> HIDE DEF j
    <3>10. ~Calls(x) /\ ~Answers(x)
      BY <3>8, <3>9 DEF Calls, Answers
    <3> QED
      BY <3>5, <3>10, FunctionParts DEF F
  <2>6. h[m] = c /\ \A k \in 1..n : h[k] = g[k]
    BY <1>4 DEF h
  <2>7. \A p \in 1..c : IsTurn(z[p]) /\ (F(z[p]) <=> F(s[p])) /\ (F(z[p]) => z[p] = s[p])
    <3> SUFFICES ASSUME NEW p \in 1..c PROVE IsTurn(z[p]) /\ (F(z[p]) <=> F(s[p])) /\ (F(z[p]) => z[p] = s[p])
      OBVIOUS
    <3>1. CASE p = c
      BY <1>5, <2>4, <2>5, <3>1
    <3>2. CASE p # c
      BY <1>3, <2>4, <3>2
    <3> QED
      BY <3>1, <3>2
  <2>8. \A k \in 1..m : h[k] \in 1..c
    BY <1>3, <1>4, <2>2, <2>6
  <2>9. \A k \in 1..m : k > 1 => h[k] = h[k - 1] \/ h[k] = h[k - 1] + 1
    <3> SUFFICES ASSUME NEW k \in 1..m, k > 1 PROVE h[k] = h[k - 1] \/ h[k] = h[k - 1] + 1
      OBVIOUS
    <3>1. CASE k \in 1..n
      <4>1. k - 1 \in 1..n
        BY <1>4, <3>1
      <4> QED
        BY <1>3, <2>6, <3>1, <4>1
    <3>2. CASE k = m
      <4>1. k - 1 = n /\ n > 0 /\ n \in 1..n
        BY <1>4, <3>2
      <4> QED
        BY <1>3, <2>6, <3>2, <4>1
    <3> QED
      BY <1>4, <3>1, <3>2
  <2>10. \A k \in 1..m : F(q[k]) => z[h[k]] = q[k] /\ \A i \in 1..m : h[i] = h[k] => i = k
    <3> SUFFICES ASSUME NEW k \in 1..m, F(q[k])
                 PROVE  z[h[k]] = q[k] /\ \A i \in 1..m : h[i] = h[k] => i = k
      OBVIOUS
    <3>1. k \in 1..n
      BY <1>4, <1>5 DEF e
    <3>2. s[g[k]] = q[k] /\ g[k] \in 1..c /\ F(s[g[k]])
      BY <1>3, <3>1
    <3>3. z[g[k]] = q[k] /\ g[k] # c
      BY <1>5, <2>7, <3>2
    <3> QED
      BY <1>3, <1>4, <2>6, <3>1, <3>3
  <2>11. \A p \in 1..c : F(z[p]) => \E k \in 1..m : h[k] = p /\ F(q[k])
    <3> SUFFICES ASSUME NEW p \in 1..c, F(z[p]) PROVE \E k \in 1..m : h[k] = p /\ F(q[k])
      OBVIOUS
    <3>1. PICK k \in 1..n : g[k] = p /\ F(q[k])
      BY <1>3, <2>7
    <3> QED
      BY <1>4, <2>6, <3>1
  <2>12. Merged(q, m, z, h)
    <3> USE DEF F
    <3> QED
      BY <1>4, <2>4, <2>6, <2>7, <2>8, <2>9, <2>10, <2>11 DEF Merged, IsSequence
  <2> QED
    BY <2>1, <2>12 DEF e
<1>6. CASE ~(s # <<>> /\ s[c].role = e.role /\ ~F(s[c]) /\ ~F(e))
  <2> DEFINE z == Append(s, e)
             d0 == c + 1
             h == [k \in 1..m |-> IF k = m THEN d0 ELSE g[k]]
             T == S \cup {e}
  <2>1. Merging(s, e) = z
    BY <1>2, <1>6 DEF Merging, F
  <2>2. s \in Seq(T) /\ e \in T
    BY <1>1
  <2> HIDE DEF T
  <2>3. z \in Seq(T) /\ Len(z) = d0 /\ z[d0] = e /\ \A p \in 1..c : z[p] = s[p]
    BY <2>2
  <2>4. /\ \A p \in 1..d0 : p \in 1..c \/ p = d0
        /\ \A p \in 1..c : p \in 1..d0 /\ p # d0
        /\ d0 \in 1..d0 /\ d0 \in Nat
    BY <1>2
  <2>5. h[m] = d0 /\ \A k \in 1..n : h[k] = g[k]
    BY <1>4
  <2>6. d0 = c + 1
    OBVIOUS
  <2> HIDE DEF z, h, d0
  <2>7. \A p \in 1..d0 : IsTurn(z[p])
    BY <1>3, <2>3, <2>4 DEF e
  <2>8. \A k \in 1..m : h[k] \in 1..d0
    BY <1>3, <1>4, <2>4, <2>5
  <2>9. \A k \in 1..m : k > 1 => h[k] = h[k - 1] \/ h[k] = h[k - 1] + 1
    <3> SUFFICES ASSUME NEW k \in 1..m, k > 1 PROVE h[k] = h[k - 1] \/ h[k] = h[k - 1] + 1
      OBVIOUS
    <3>1. CASE k \in 1..n
      <4>1. k - 1 \in 1..n
        BY <1>4, <3>1
      <4> QED
        BY <1>3, <2>5, <2>6, <3>1, <4>1
    <3>2. CASE k = m
      <4>1. k - 1 = n /\ n > 0 /\ n \in 1..n
        BY <1>4, <3>2
      <4> QED
        BY <1>3, <2>5, <2>6, <3>2, <4>1
    <3> QED
      BY <1>4, <3>1, <3>2
  <2>10. \A k \in 1..m : F(q[k]) => z[h[k]] = q[k] /\ \A i \in 1..m : h[i] = h[k] => i = k
    <3> SUFFICES ASSUME NEW k \in 1..m, F(q[k])
                 PROVE  z[h[k]] = q[k] /\ \A i \in 1..m : h[i] = h[k] => i = k
      OBVIOUS
    <3>1. CASE k \in 1..n
      <4>1. s[g[k]] = q[k] /\ g[k] \in 1..c
        BY <1>3, <3>1
      <4> QED
        <5>1. h[k] = g[k] /\ z[h[k]] = q[k] /\ h[k] # d0
          BY <2>3, <2>4, <2>5, <3>1, <4>1
        <5>2. ASSUME NEW i \in 1..m, h[i] = h[k] PROVE i = k
          <6>1. i \in 1..n
            BY <1>4, <2>5, <5>1, <5>2
          <6>2. g[i] = g[k]
            BY <2>5, <5>1, <5>2, <6>1
          <6> QED
            BY <1>3, <3>1, <6>1, <6>2
        <5> QED
          BY <5>1, <5>2
    <3>2. CASE k = m
      BY <1>3, <1>4, <2>3, <2>4, <2>5, <3>2 DEF e
    <3> QED
      BY <1>4, <3>1, <3>2
  <2>11. \A p \in 1..d0 : F(z[p]) => \E k \in 1..m : h[k] = p /\ F(q[k])
    BY <1>3, <1>4, <2>3, <2>4, <2>5 DEF e
  <2>12. Merged(q, m, z, h)
    <3> USE DEF F
    <3> QED
      BY <1>4, <2>3, <2>5, <2>7, <2>8, <2>9, <2>10, <2>11 DEF Merged, IsSequence
  <2> QED
    BY <2>1, <2>12 DEF e
<1> QED
  BY <1>5, <1>6

LEMMA FoldSteps ==
    ASSUME NEW fold, NEW base, NEW q, NEW n \in Nat, NEW f, Folds(fold, base, q, n, f)
    PROVE  f[1..0] = base /\ \A m \in 1..n : f[1..m] = Step(fold, f[1..(m - 1)], q[m])
<1>1. \A s \in SUBSET (1..n) :
          f[s] = IF s = {} THEN base ELSE Step(fold, f[s \ {Max(s)}], q[Max(s)])
  BY DEF Folds
<1>2. 1..0 = {} /\ 1..0 \in SUBSET (1..n)
  OBVIOUS
<1>3. ASSUME NEW m \in 1..n PROVE f[1..m] = Step(fold, f[1..(m - 1)], q[m])
  <2>1. 1..m \in SUBSET (1..n) /\ 1..m # {}
    OBVIOUS
  <2>2. m \in 1..m /\ Max(1..m) = m
    <3>1. 1..m \in SUBSET (1..m) /\ m \in 1..m
      OBVIOUS
    <3> QED
      BY <3>1, MaxIs
  <2>3. (1..m) \ {m} = 1..(m - 1)
    OBVIOUS
  <2> QED
    BY <1>1, <2>1, <2>2, <2>3
<1> QED
  BY <1>1, <1>2, <1>3

LEMMA TurnsFold ==
    ASSUME NEW S, NEW q \in Seq(S)
    PROVE  \E f : /\ Folds("turns", <<>>, q, Len(q), f)
                  /\ Requests!MergeConsecutiveTurns(q) = f[1..Len(q)]
<1> DEFINE Is(f) == f = [s \in SUBSET DOMAIN q |->
                            IF s = {} THEN <<>>
                            ELSE Merging(f[s \ {Max(s)}], q[Max(s)])]
<1>1. DOMAIN q = 1..Len(q)
  OBVIOUS
<1>2. \A f : Is(f) <=> Folds("turns", <<>>, q, Len(q), f)
  BY <1>1 DEF Folds, Step
<1>3. \E f : Is(f)
  <2>1. Len(q) \in Nat
    OBVIOUS
  <2>2. \E f : Folds("turns", <<>>, q, Len(q), f)
    BY <2>1, FoldExists
  <2> QED
    BY <2>2, <1>2
<1>4. Requests!MergeConsecutiveTurns(q) = (CHOOSE f : Is(f))[DOMAIN q]
  BY DEF Requests!MergeConsecutiveTurns, Requests!FoldLeft, Requests!MapThenFoldSet, Requests!Max, Max, Merging
<1>5. Is(CHOOSE f : Is(f))
  BY <1>3
<1> QED
  BY <1>1, <1>2, <1>4, <1>5

LEMMA MergedTurns ==
    ASSUME NEW q, IsSequence(q), \A k \in 1..Len(q) : IsTurn(q[k])
    PROVE  \E g : Merged(q, Len(q), Requests!MergeConsecutiveTurns(q), g)
<1> DEFINE n == Len(q)
<1>1. PICK S : q \in Seq(S)
  BY DEF IsSequence
<1>2. PICK f : Folds("turns", <<>>, q, n, f) /\ Requests!MergeConsecutiveTurns(q) = f[1..n]
  BY <1>1, TurnsFold
<1>3. n \in Nat
  BY <1>1
<1> DEFINE Bad == {m \in Nat : m \in 0..n /\ ~\E g : Merged(q, m, f[1..m], g)}
<1>4. f[1..0] = <<>> /\ \A m \in 1..n : f[1..m] = Merging(f[1..(m - 1)], q[m])
  <2>1. \A s, e : Step("turns", s, e) = Merging(s, e)
    BY DEF Step
  <2> HIDE DEF n
  <2>2. f[1..0] = <<>> /\ \A m \in 1..n : f[1..m] = Step("turns", f[1..(m - 1)], q[m])
    BY <1>2, <1>3, FoldSteps
  <2> QED
    BY <2>1, <2>2
<1>5. Bad = {}
  <2> SUFFICES ASSUME Bad # {} PROVE FALSE
    OBVIOUS
  <2>1. PICK m \in Bad : \A k \in Bad : m <= k
    BY Smallest
  <2>2. CASE m = 0
    <3>1. Len(<<>>) = 0 /\ \A p \in 1..0 : FALSE
      OBVIOUS
    <3>2. Merged(q, 0, <<>>, <<>>)
      BY <3>1, SequenceOfNone DEF Merged
    <3> QED
      BY <1>4, <2>1, <2>2, <3>2
  <2>3. CASE m # 0
    <3> DEFINE l == m - 1
    <3>1. l \in Nat /\ l \in 0..n /\ l \notin Bad /\ m \in 1..n /\ m = l + 1
      BY <1>3, <2>1, <2>3
    <3>2. PICK g : Merged(q, l, f[1..l], g)
      BY <3>1
    <3>3. IsTurn(q[m]) /\ f[1..m] = Merging(f[1..l], q[m])
      BY <1>4, <3>1
    <3> HIDE DEF l
    <3>4. \E h : Merged(q, m, Merging(f[1..l], q[m]), h)
      BY <3>1, <3>2, <3>3, MergingKeeps
    <3> QED
      BY <2>1, <3>3, <3>4
  <2> QED
    BY <2>2, <2>3
<1>6. n \in 0..n
  BY <1>3
<1> QED
  BY <1>2, <1>3, <1>5, <1>6

\* A set of places has a last one.
LEMMA Largest ==
    ASSUME NEW n \in Nat, NEW S \in SUBSET (1..n), S # {}
    PROVE  Requests!Max(S) \in S /\ \A k \in S : Requests!Max(S) >= k
<1> DEFINE T == {x \in Nat : \E k \in S : x = n - k}
<1>1. T \in SUBSET Nat /\ T # {}
  <2>1. PICK k \in S : k \in 1..n
    OBVIOUS
  <2>2. n - k \in T
    BY <2>1
  <2> QED
    BY <2>2
<1>2. PICK m \in T : \A x \in T : m <= x
  BY <1>1, Smallest
<1>3. PICK l \in S : m = n - l
  BY <1>2
<1>4. \A k \in S : l >= k
  <2> TAKE k \in S
  <2>1. k \in 1..n /\ l \in 1..n /\ n - k \in T
    OBVIOUS
  <2> QED
    BY <1>2, <1>3, <2>1
<1> QED
  BY <1>4 DEF Requests!Max

\* What Gemini is sent: it ends with the user, and calls are closed.
LEMMA ContentsClosed ==
    ASSUME NEW msgs, AllPassed(msgs), AllAnswered(msgs),
           NEW contents, contents = Requests!GeminiContents(msgs)
    PROVE  CallsClosed(msgs, contents) /\ (contents # <<>> => Requests!Last(contents).role = "user")
<1> DEFINE q == AllTurns(msgs)
           s == Requests!MergeConsecutiveTurns(q)
           c == Len(s)
           F(t) == Requests!HasFunctionPart(t)
           kept == {p \in DOMAIN s : s[p].role = "user" \/ Requests!HasModelContent(s[p])}
           n == IF kept = {} THEN 0 ELSE Requests!Max(kept)
           rest == SubSeq(s, 1, n)
           x == Requests!GeminiPart("text", NoID, 0)
           u == Requests!GeminiTurn("user", <<x>>)
<1>1. CallsClosed(msgs, q)
  BY TurnsClosed
<1>2. PICK g : Merged(q, Len(q), s, g)
  BY <1>1, MergedTurns DEF CallsClosed
<1>3. contents = rest \o (IF rest # <<>> /\ Requests!Last(rest).role = "model" THEN <<u>> ELSE <<>>)
  BY DEF Requests!GeminiContents, Requests!EndWithUser, Requests!If, AllTurns, Requests!FlattenSeq, FlattenSeq
<1> HIDE DEF q, s
<1>4. /\ IsSequence(q) /\ Len(q) \in Nat
      /\ \A k \in 1..Len(q) : IsTurn(q[k]) /\ k \in Nat
      /\ \A k \in 1..Len(q) : Calls(q[k]) => k + 1 \in 1..Len(q) /\ Closes(msgs, q[k], q[k + 1])
  BY <1>1, Domains DEF CallsClosed
<1>5. /\ IsSequence(s) /\ DOMAIN s = 1..c /\ c \in Nat
      /\ \A p \in 1..c : IsTurn(s[p])
      /\ \A k \in 1..Len(q) : g[k] \in 1..c
      /\ \A k \in 1..Len(q) : k > 1 => g[k] = g[k - 1] \/ g[k] = g[k - 1] + 1
      /\ \A k \in 1..Len(q) : F(q[k]) => s[g[k]] = q[k] /\ \A l \in 1..Len(q) : g[l] = g[k] => l = k
      /\ \A p \in 1..c : F(s[p]) => \E k \in 1..Len(q) : g[k] = p /\ F(q[k])
  BY <1>2, Domains DEF Merged
<1>6. /\ \A k \in 1..Len(q) : F(q[k]) <=> Calls(q[k]) \/ Answers(q[k])
      /\ \A p \in 1..c : F(s[p]) <=> Calls(s[p]) \/ Answers(s[p])
  BY <1>4, <1>5, FunctionParts
<1> HIDE DEF F, c
<1>7. ASSUME NEW p \in 1..c, Calls(s[p])
      PROVE  p + 1 \in 1..c /\ Closes(msgs, s[p], s[p + 1])
  <2>1. PICK k \in 1..Len(q) : g[k] = p /\ F(q[k])
    BY <1>5, <1>6, <1>7
  <2>2. s[p] = q[k]
    BY <1>5, <2>1
  <2> DEFINE l == k + 1
  <2>3. l \in 1..Len(q) /\ Closes(msgs, q[k], q[l]) /\ l > 1 /\ l - 1 = k /\ l # k
    BY <1>4, <1>7, <2>2
  <2> HIDE DEF l
  <2>4. F(q[l])
    BY <1>6, <2>3 DEF Closes
  <2>5. s[g[l]] = q[l] /\ g[l] # g[k] /\ g[l] \in 1..c
    BY <1>5, <2>1, <2>3, <2>4
  <2>6. g[l] = p + 1
    BY <1>5, <2>1, <2>3, <2>5
  <2> QED
    BY <2>2, <2>3, <2>5, <2>6
<1>8. kept \in SUBSET (1..c)
  BY <1>5
<1>9. \A p \in 1..c : s[p].role = "user" => p \in kept
  BY <1>5
<1>10. kept # {} => n \in kept /\ \A p \in kept : n >= p
  BY <1>5, <1>8, Largest
<1>11. kept = {} => n = 0
  OBVIOUS
<1> HIDE DEF kept, n
<1>12. /\ n \in 0..c /\ n \in Nat
       /\ \A p \in 1..c : s[p].role = "user" => p \in 1..n
  <2>1. CASE kept = {}
    <3>1. n = 0
      BY <1>11, <2>1
    <3>2. \A p \in 1..c : s[p].role # "user"
      BY <1>9, <2>1
    <3> QED
      BY <1>5, <3>1, <3>2
  <2>2. CASE kept # {}
    <3>1. n \in 1..c /\ \A p \in kept : n >= p /\ p \in 1..c
      BY <1>8, <1>10, <2>2
    <3>2. n \in 0..c /\ n \in Nat
      BY <1>5, <3>1
    <3>3. ASSUME NEW p \in 1..c, s[p].role = "user" PROVE p \in 1..n
      <4>1. n >= p
        BY <1>9, <3>1, <3>3
      <4> QED
        BY <1>5, <3>2, <4>1
    <3> QED
      BY <3>2, <3>3
  <2> QED
    BY <2>1, <2>2
<1>13. /\ IsSequence(rest) /\ Len(rest) = n /\ (rest = <<>> <=> n = 0)
       /\ \A p \in 1..n : rest[p] = s[p]
  <2>1. PICK S : s \in Seq(S)
    BY <1>5 DEF IsSequence
  <2>2. rest \in Seq(S) /\ Len(rest) = n /\ \A p \in 1..n : rest[p] = s[p]
    BY <1>12, <2>1 DEF c
  <2> HIDE DEF rest
  <2>3. rest = <<>> <=> n = 0
    BY <2>2
  <2> QED
    BY <2>2, <2>3 DEF IsSequence
<1>14. /\ x.type = "text" /\ u.role = "user" /\ u.parts = <<x>> /\ "parts" \in DOMAIN u
  BY DEF Requests!GeminiPart, Requests!GeminiTurn
<1> HIDE DEF x, u, rest
<1>15. IsTurn(u) /\ ~Calls(u)
  <2>1. Len(<<x>>) = 1 /\ <<x>>[1] = x /\ IsSequence(<<x>>) /\ \A p \in 1..1 : p = 1
    BY SequenceOfOne
  <2> QED
    BY <1>14, <2>1 DEF IsTurn, Calls
<1>16. Requests!Last(rest) = rest[n]
  BY <1>13 DEF Requests!Last
<1>17. ASSUME NEW p \in 1..n, Calls(s[p])
       PROVE  p + 1 \in 1..n /\ Closes(msgs, s[p], s[p + 1])
  <2>1. p \in 1..c /\ p + 1 \in 1..c /\ Closes(msgs, s[p], s[p + 1])
    BY <1>5, <1>7, <1>12, <1>17
  <2>2. s[p + 1].role = "user"
    BY <2>1 DEF Closes
  <2> QED
    BY <1>12, <2>1, <2>2
<1>18. \A p \in 1..n : IsTurn(s[p])
  BY <1>5, <1>12
<1>19. CASE rest # <<>> /\ Requests!Last(rest).role = "model"
  <2> DEFINE d0 == n + 1
  <2>1. contents = Append(rest, u)
    <3>1. PICK S : rest \in Seq(S)
      BY <1>13 DEF IsSequence
    <3>2. contents = rest \o <<u>>
      BY <1>3, <1>19
    <3> DEFINE T == S \cup {u}
    <3>3. rest \in Seq(T) /\ u \in T
      BY <3>1
    <3> HIDE DEF T
    <3> QED
      BY <3>2, <3>3
  <2>2. IsSequence(contents) /\ Len(contents) = d0 /\ contents[d0] = u /\ \A p \in 1..n : contents[p] = s[p]
    <3>1. PICK S : rest \in Seq(S)
      BY <1>13 DEF IsSequence
    <3> DEFINE T == S \cup {u}
    <3>2. rest \in Seq(T) /\ u \in T
      BY <3>1
    <3> HIDE DEF T
    <3>3. contents \in Seq(T) /\ Len(contents) = Len(rest) + 1 /\ contents[Len(rest) + 1] = u
          /\ \A p \in 1..Len(rest) : contents[p] = rest[p]
      BY <2>1, <3>2
    <3> QED
      BY <1>13, <3>3 DEF IsSequence
  <2>3. /\ \A p \in 1..d0 : p \in 1..n \/ p = d0
        /\ \A p \in 1..n : p \in 1..d0
        /\ d0 \in 1..d0
    BY <1>12
  <2> HIDE DEF d0
  <2>4. \A p \in 1..Len(contents) : IsTurn(contents[p])
    BY <1>15, <1>18, <2>2, <2>3
  <2>5. ASSUME NEW p \in 1..Len(contents), Calls(contents[p])
        PROVE  p + 1 \in 1..Len(contents) /\ Closes(msgs, contents[p], contents[p + 1])
    <3>1. p \in 1..n
      BY <1>15, <2>2, <2>3, <2>5
    <3>2. p + 1 \in 1..n /\ Closes(msgs, s[p], s[p + 1])
      BY <1>17, <2>2, <2>5, <3>1
    <3> QED
      BY <2>2, <2>3, <3>1, <3>2
  <2>6. Requests!Last(contents).role = "user"
    BY <1>14, <2>2 DEF Requests!Last
  <2> QED
    BY <2>2, <2>4, <2>5, <2>6 DEF CallsClosed
<1>20. CASE ~(rest # <<>> /\ Requests!Last(rest).role = "model")
  <2>1. contents = rest
    <3>1. PICK S : rest \in Seq(S)
      BY <1>13 DEF IsSequence
    <3>2. contents = rest \o <<>>
      BY <1>3, <1>20
    <3> QED
      BY <3>1, <3>2
  <2>2. IsSequence(contents) /\ Len(contents) = n /\ \A p \in 1..n : contents[p] = s[p]
    BY <1>13, <2>1
  <2>3. \A p \in 1..Len(contents) : IsTurn(contents[p])
    BY <1>18, <2>2
  <2>4. ASSUME NEW p \in 1..Len(contents), Calls(contents[p])
        PROVE  p + 1 \in 1..Len(contents) /\ Closes(msgs, contents[p], contents[p + 1])
    BY <1>17, <2>2, <2>4
  <2>5. contents # <<>> => Requests!Last(contents).role = "user"
    <3> SUFFICES ASSUME contents # <<>> PROVE Requests!Last(contents).role = "user"
      OBVIOUS
    <3>1. n \in 1..n
      BY <1>12, <1>13, <2>1
    <3>2. IsTurn(contents[n]) /\ contents[n] = rest[n]
      BY <1>18, <1>13, <2>2, <3>1
    <3> QED
      BY <1>16, <1>20, <2>1, <3>2 DEF IsTurn
  <2> QED
    BY <2>2, <2>3, <2>4, <2>5 DEF CallsClosed
<1> QED
  BY <1>19, <1>20

LEMMA RequestAnswered ==
    ASSUME RequestInv, chat = "asking"
    PROVE  AllPassed(messages) /\ AllAnswered(messages)
<1> DEFINE msgs == FlattenSeq(Converteds(request))
<1>1. messages = Requests!SanitizeToolMessages(msgs) /\ AllSpoken(request)
  BY DEF RequestInv, Requests!MessagesToProvider, Converteds, Requests!FlattenSeq, FlattenSeq
<1>2. AllPassed(msgs)
  BY <1>1, ConvertedConveys
<1> HIDE DEF msgs
<1>3. PICK w : AllPassed(messages) /\ Sanitizes(messages, msgs, w)
  BY <1>1, <1>2, SanitizeIs
<1>4. ASSUME NEW k \in 1..Len(messages), messages[k].role = "assistant", NEW j \in 1..Len(messages[k].calls)
      PROVE  \E r \in 1..Len(messages) : messages[r].role = "tool" /\ messages[r].id = messages[k].calls[j]
  <2> DEFINE id == messages[k].calls[j]
  <2>1. Has(messages[k].calls, id)
    BY DEF Has
  <2> HIDE DEF id
  <2>2. ~Unpaired(messages, id)
    BY <1>4, <2>1 DEF Unpaired
  <2>3. KeptIn(msgs, id)
    BY <1>2, <1>3, <2>2, UnkeptIsUnpaired
  <2>4. PICK z, t, r : Paired(messages, id, z, t, r)
    BY <1>2, <1>3, <2>3, KeptIsPaired
  <2> QED
    BY <2>4 DEF Paired, id
<1> QED
  BY <1>3, <1>4 DEF AllAnswered

LEMMA RequestCloses == RequestInv => ModelTurnsClosed
<1> SUFFICES ASSUME RequestInv, chat = "asking"
             PROVE  ModelTurnsClosed
  BY DEF ModelTurnsClosed
<1> DEFINE contents == Requests!GeminiContents(messages)
<1>1. AllPassed(messages) /\ AllAnswered(messages)
  BY RequestAnswered
<1>2. CallsClosed(messages, contents) /\ (contents # <<>> => Requests!Last(contents).role = "user")
  BY <1>1, ContentsClosed
<1> HIDE DEF contents
<1>3. IsSequence(contents) /\ DOMAIN contents = 1..Len(contents) /\ Len(contents) \in Nat
      /\ \A p \in 1..Len(contents) : IsTurn(contents[p])
  BY <1>2, Domains DEF CallsClosed
<1>4. contents # <<>> => Last(contents).role = "user"
  BY <1>2 DEF Last, Requests!Last
<1>5. ASSUME NEW p \in DOMAIN contents, CallParts(contents[p]) # <<>>
      PROVE  /\ p < Len(contents)
             /\ LET calls == CallParts(contents[p])
                    responses == contents[p + 1].parts
                IN  /\ Len(responses) = Len(calls)
                    /\ \A q \in DOMAIN calls :
                          /\ responses[q].type = "response" /\ responses[q].id = calls[q].id
                          /\ \E r \in ResultAt(calls[q].id) : responses[q].from = messages[r].from
  <2>1. Calls(contents[p])
    BY <1>3, <1>5, CallsHaveParts DEF IsTurn
  <2>2. p + 1 \in 1..Len(contents) /\ Closes(messages, contents[p], contents[p + 1])
    BY <1>2, <1>3, <2>1 DEF CallsClosed
  <2>3. p < Len(contents)
    BY <1>3, <2>2
  <2> QED
    BY <2>2, <2>3 DEF Closes, ResultAt
<1> QED
  BY <1>4, <1>5 DEF ModelTurnsClosed, contents

\* A request to Gemini ends with the user, and a turn of the model that calls is
\* followed by one with the responses to its calls, in the order of the calls
\* (gemini/message.go:30-41, 62-66).
THEOREM ModelTurnsAreClosed == Spec => []ModelTurnsClosed
<1>1. Spec => []RequestInv
  BY SpecRequest
<1> QED
  BY <1>1, RequestCloses, PTL
=============================================================================
