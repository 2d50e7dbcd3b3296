------------------------ MODULE StreamConverterProofs ------------------------
(***************************************************************************)
(* What the handlers of the converter keep, and what a strict client makes *)
(* of the events they return: lemmas for every stream a converter is part  *)
(* of (ConverterStreamProofs, ChatStreamProofs).                            *)
(***************************************************************************)
EXTENDS StreamConverter, StreamClient, FiniteSetTheorems, SequenceTheorems, TLAPS

-----------------------------------------------------------------------------
(* Events and batches of events. *)

\* Every event a handler builds is an event of the stream (convert.go:611-1096).
LEMMA EventTyping ==
    /\ \A i \in Nat, k \in BlockKinds : BlockStart(i, k) \in EventType
    /\ \A i \in Nat, id \in Tools : ToolStart(i, id) \in EventType
    /\ \A i \in Nat, k \in ContentKinds : BlockDelta(i, k) \in EventType
    /\ \A i \in Nat, id \in Tools \cup {NoTool} : ToolDelta(i, id) \in EventType
    /\ \A i \in Nat : BlockStop(i) \in EventType
    /\ \A r \in StopReasons \cup {"none"} : MessageDelta(r) \in EventType
    /\ \A t \in {"message_start", "message_stop", "ping", "error"} : Message(t) \in EventType
<1>1. \A i \in Nat, k \in BlockKinds : BlockStart(i, k) \in EventType
  BY DEF BlockStart, Event, EventType, Tools
<1>2. \A i \in Nat, id \in Tools : ToolStart(i, id) \in EventType
  BY DEF ToolStart, Event, EventType, BlockKinds
<1>3. \A i \in Nat, k \in ContentKinds : BlockDelta(i, k) \in EventType
  BY DEF BlockDelta, Event, EventType, Tools
<1>4. \A i \in Nat, id \in Tools \cup {NoTool} : ToolDelta(i, id) \in EventType
  BY DEF ToolDelta, Event, EventType
<1>5. \A i \in Nat : BlockStop(i) \in EventType
  BY DEF BlockStop, Event, EventType
<1>6. \A r \in StopReasons \cup {"none"} : MessageDelta(r) \in EventType
  BY DEF MessageDelta, Event, EventType
<1>7. \A t \in {"message_start", "message_stop", "ping", "error"} : Message(t) \in EventType
  BY DEF Message, Event, EventType
<1>8. QED
  BY <1>1, <1>2, <1>3, <1>4, <1>5, <1>6, <1>7

\* The batch of a block that may have to be stopped.
LEMMA StopIfTyping ==
    ASSUME NEW b \in BOOLEAN, NEW i, b => i \in Nat
    PROVE  StopIf(b, i) \in Seq(EventType)
<1>1. CASE b
  <2>1. BlockStop(i) \in EventType
    BY <1>1, EventTyping
  <2>2. QED
    BY <1>1, <2>1 DEF StopIf
<1>2. CASE ~b
  BY <1>2 DEF StopIf
<1>3. QED
  BY <1>1, <1>2

\* Batches are put together in the order of their parts.
LEMMA ConcatTyping ==
    ASSUME NEW s \in Seq(EventType), NEW t \in Seq(EventType)
    PROVE  s \o t \in Seq(EventType)
  BY ConcatProperties

\* A sequence of one event of a set is a sequence over the set.
LEMMA OneEvent ==
    ASSUME NEW e \in EventType
    PROVE  <<e>> \in Seq(EventType)
  OBVIOUS

\* The same for two events.
LEMMA TwoEvents ==
    ASSUME NEW e \in EventType, NEW f \in EventType
    PROVE  <<e, f>> \in Seq(EventType)
  OBVIOUS

\* Two events are one behind the other.
LEMMA TwoConcat ==
    ASSUME NEW e \in EventType, NEW f \in EventType
    PROVE  <<e, f>> = <<e>> \o <<f>>
<1>1. <<e>> \in Seq(EventType)
  OBVIOUS
<1>2. Append(<<e>>, f) = <<e>> \o <<f>>
  BY <1>1, AppendIsConcat
<1>3. <<e, f>> = Append(<<e>>, f)
  OBVIOUS
<1> QED
  BY <1>2, <1>3

-----------------------------------------------------------------------------
(* Each handler keeps the converter's types, and the open tool blocks finite. *)

ConverterInv == ConverterTypeOK /\ IsFiniteSet(openTools)

\* A converter that has seen nothing is well formed.
LEMMA ConverterInitTyping ==
    ASSUME ConverterInit
    PROVE  ConverterInv
<1>1. /\ content \in [ContentKinds -> Nat \cup {NoBlock}]
      /\ byIndex \in [ToolIndexes -> Nat \cup {NoBlock}]
      /\ byID \in [ToolIDs -> Nat \cup {NoBlock}]
  BY DEF ConverterInit
<1>2. pending \in Seq(EventType)
  BY DEF ConverterInit
<1>3. currentTool \in Nat \cup {NoBlock}
  BY DEF ConverterInit
<1>4. ConverterTypeOK
  BY <1>1, <1>2, <1>3 DEF ConverterInit, ConverterTypeOK
<1> QED
  BY <1>4, FS_EmptySet DEF ConverterInit, ConverterInv

\* Receiving an event keeps the client well formed.
LEMMA ReceiveTyping ==
    ASSUME ClientTypeOK(BlockType, StopReasons), NEW e \in EventType, Receive(e)
    PROVE  ClientTypeOK(BlockType, StopReasons)'
<1>1. blocks' \in Seq(BlockType)
  <2>1. blocks \in Seq(BlockType)
    BY DEF ClientTypeOK
  <2>2. e.type = "block_start" => [kind |-> e.info, tool |-> e.tool] \in BlockType
    BY DEF EventType, BlockType
  <2>3. e.type = "block_start" =>
            Append(blocks, [kind |-> e.info, tool |-> e.tool]) \in Seq(BlockType)
    BY <2>1, <2>2, AppendProperties
  <2> QED
    BY <2>1, <2>3 DEF Receive
<1>2. open' \in SUBSET Nat
  <2>1. e.type = "block_start" => e.index \in Nat
    BY DEF EventType
  <2> QED
    BY <2>1 DEF ClientTypeOK, Receive
<1>3. phase' \in {"idle", "streaming", "closing", "ended", "broken"}
  BY DEF ClientTypeOK, Receive, NextPhase
<1>4. reason' \in {"none"} \cup StopReasons
  BY DEF ClientTypeOK, Receive, IsFinal, EventType
<1> QED
  BY <1>1, <1>2, <1>3, <1>4 DEF ClientTypeOK

\* What recordFinishReason keeps is a reason the client knows (convert.go:589-594).
LEMMA RecordedTyping ==
    ASSUME ConverterTypeOK, NEW r
    PROVE  Recorded(r) \in {"none"} \cup StopReasons
  BY DEF ConverterTypeOK, Recorded, MapFinishReason, StopReasons

\* So is what handleStop reports (convert.go:1025-1040).
LEMMA StopReasonTyping ==
    ASSUME ConverterTypeOK
    PROVE  StopReason \in StopReasons
  BY DEF ConverterTypeOK, StopReason, StopReasons

\* stopAllTextOrThinking returns events (convert.go:681-698).
LEMMA StopAllTyping ==
    ASSUME ConverterTypeOK
    PROVE  StopAllTextOrThinking \in Seq(EventType)
<1>1. \A k \in ContentKinds : content[k] # NoBlock => content[k] \in Nat
  BY DEF ConverterTypeOK
<1>2. StopIf(content["thinking"] # NoBlock, content["thinking"]) \in Seq(EventType)
  BY <1>1, StopIfTyping DEF ContentKinds
<1>3. StopIf(content["text"] # NoBlock, content["text"]) \in Seq(EventType)
  BY <1>1, StopIfTyping DEF ContentKinds
<1>4. QED
  BY <1>2, <1>3, ConcatTyping DEF StopAllTextOrThinking

\* handleStart leaves the converter well formed (convert.go:623-654).
LEMMA StartTyping ==
    ASSUME ConverterInv, HandleStart
    PROVE  ConverterInv'
<1>1. <<Message("message_start")>> \in Seq(EventType)
  BY EventTyping, OneEvent
<1>2. QED
  BY <1>1, FS_EmptySet
     DEF HandleStart, ConverterInv, ConverterTypeOK, NoBlock, StopReasons

\* Text, thinking and their starts leave the converter well formed (convert.go:797-882).
LEMMA ContentTyping ==
    ASSUME ConverterInv, NEW k \in ContentKinds, NEW d \in BOOLEAN, HandleContent(k, d)
    PROVE  ConverterInv'
<1> DEFINE idx == IF content[k] # NoBlock THEN content[k] ELSE nextIndex
           delta == IF d THEN <<BlockDelta(idx, k)>> ELSE <<>>
<1>1. idx \in Nat /\ nextIndex \in Nat /\ nextIndex + 1 \in Nat
  BY DEF ConverterInv, ConverterTypeOK
<1>2. delta \in Seq(EventType)
  <2>1. BlockDelta(idx, k) \in EventType
    BY <1>1, EventTyping
  <2>2. QED
    BY <2>1
<1>3. Other(k) \in ContentKinds
  BY DEF Other, ContentKinds
<1>4. <<BlockStart(nextIndex, k)>> \in Seq(EventType)
  BY <1>1, EventTyping, OneEvent DEF BlockKinds
<1>5. StopIf(content[Other(k)] # NoBlock, content[Other(k)]) \in Seq(EventType)
  <2>1. content[Other(k)] # NoBlock => content[Other(k)] \in Nat
    BY <1>3 DEF ConverterInv, ConverterTypeOK
  <2>2. QED
    BY <2>1, StopIfTyping
<1>6. StopIf(content[Other(k)] # NoBlock, content[Other(k)])
          \o <<BlockStart(nextIndex, k)>> \o delta \in Seq(EventType)
  BY <1>2, <1>4, <1>5, ConcatTyping
<1>7. pending' \in Seq(EventType)
  BY <1>2, <1>6 DEF HandleContent
<1>8. content' \in [ContentKinds -> Nat \cup {NoBlock}] /\ nextIndex' \in Nat /\ blockIndex' \in Nat
  BY <1>1 DEF HandleContent, ConverterInv, ConverterTypeOK
<1>9. QED
  BY <1>7, <1>8 DEF HandleContent, ConverterInv, ConverterTypeOK

\* startToolBlock leaves the converter well formed (convert.go:722-761).
LEMMA ToolTyping ==
    ASSUME ConverterAssumption, ConverterInv, NEW id \in Tools,
           NEW x \in ToolIndexes \cup {NoIndex}, StartToolBlock(id, x)
    PROVE  ConverterInv'
<1> DEFINE known == KnownTool(id, x)
<1>1. CASE known # NoBlock /\ pending' = StopAllTextOrThinking
           /\ content' = [k \in ContentKinds |-> NoBlock]
           /\ currentTool' = known /\ blockIndex' = known
           /\ UNCHANGED <<started, nextIndex, openTools, byIndex, byID, toolMaps,
                          finishReason, stopHandled, stopped, crashed>>
  <2>1. known \in Nat
    BY <1>1 DEF KnownTool, ConverterAssumption, ConverterInv, ConverterTypeOK, Tools
  <2>2. StopAllTextOrThinking \in Seq(EventType)
    BY StopAllTyping DEF ConverterInv
  <2>3. QED
    BY <1>1, <2>1, <2>2 DEF ConverterInv, ConverterTypeOK
<1>2. CASE known = NoBlock /\ pending' = StopAllTextOrThinking \o <<ToolStart(nextIndex, id)>>
           /\ content' = [k \in ContentKinds |-> NoBlock]
           /\ currentTool' = nextIndex /\ blockIndex' = nextIndex
           /\ nextIndex' = nextIndex + 1
           /\ openTools' = openTools \cup {nextIndex}
           /\ byIndex' = [y \in ToolIndexes |-> IF y = x THEN nextIndex ELSE byIndex[y]]
           /\ byID' = [y \in ToolIDs |-> IF y = id THEN nextIndex ELSE byID[y]]
           /\ finishReason' = Recorded("tool_calls")
           /\ UNCHANGED <<started, toolMaps, stopHandled, stopped, crashed>>
  <2>1. nextIndex \in Nat /\ nextIndex + 1 \in Nat
    BY DEF ConverterInv, ConverterTypeOK
  <2>2. StopAllTextOrThinking \in Seq(EventType)
    BY StopAllTyping DEF ConverterInv
  <2>3. <<ToolStart(nextIndex, id)>> \in Seq(EventType)
    BY <2>1, EventTyping, OneEvent
  <2>4. pending' \in Seq(EventType)
    BY <1>2, <2>2, <2>3, ConcatTyping
  <2>5. finishReason' \in {"none"} \cup StopReasons
    BY <1>2, RecordedTyping DEF ConverterInv
  <2>6. IsFiniteSet(openTools')
    BY <1>2, FS_AddElement DEF ConverterInv
  <2>7. byIndex' \in [ToolIndexes -> Nat \cup {NoBlock}]
    BY <1>2, <2>1 DEF ConverterInv, ConverterTypeOK
  <2>8. byID' \in [ToolIDs -> Nat \cup {NoBlock}]
    BY <1>2, <2>1 DEF ConverterInv, ConverterTypeOK
  <2>9. QED
    BY <1>2, <2>1, <2>4, <2>5, <2>6, <2>7, <2>8 DEF ConverterInv, ConverterTypeOK
<1>3. CASE Panic
  BY <1>3 DEF Panic, ConverterInv, ConverterTypeOK
<1>4. QED
  BY <1>1, <1>2, <1>3 DEF StartToolBlock

\* A fragment of tool arguments goes to an index (convert.go:763-794).
LEMMA ToolDeltaTyping ==
    ASSUME ConverterAssumption, ConverterInv, NEW x \in ToolIndexes \cup {NoIndex},
           NEW id \in Tools \cup {NoTool}, HandleToolDelta(x, id)
    PROVE  ConverterInv'
<1>1. ToolDeltaIndex(x) \in Nat
  BY DEF ToolDeltaIndex, ConverterAssumption, ConverterInv, ConverterTypeOK
<1>2. <<ToolDelta(ToolDeltaIndex(x), id)>> \in Seq(EventType)
  BY <1>1, EventTyping, OneEvent
<1>3. QED
  BY <1>2 DEF HandleToolDelta, ConverterInv, ConverterTypeOK

\* handleBlockStop leaves the converter well formed (convert.go:990-1023).
LEMMA BlockStopTyping ==
    ASSUME ConverterAssumption, ConverterInv, NEW i \in Nat \cup {NoIndex}, HandleBlockStop(i)
    PROVE  ConverterInv'
<1>1. CASE Ignore
  BY <1>1 DEF Ignore, converterVars, ConverterInv, ConverterTypeOK
<1>2. CASE Panic
  BY <1>2 DEF Panic, ConverterInv, ConverterTypeOK
<1>3. CASE /\ i # NoIndex /\ i \notin stopped
           /\ pending' = StopIf(i \in openTools, i)
                             \o StopIf(content["text"] = i, i)
                             \o StopIf(content["thinking"] = i, i)
           /\ openTools' = openTools \ {i}
           /\ content' = [k \in ContentKinds |-> IF content[k] = i THEN NoBlock ELSE content[k]]
           /\ stopped' = stopped \cup {i}
           /\ UNCHANGED <<started, nextIndex, blockIndex, currentTool, byIndex, byID,
                          toolMaps, finishReason, stopHandled, crashed>>
  <2>1. i \in Nat
    BY <1>3
  <2>2. StopIf(i \in openTools, i) \in Seq(EventType)
    <3>1. (i \in openTools) \in BOOLEAN
      OBVIOUS
    <3>2. QED
      BY <2>1, <3>1, StopIfTyping, Zenon
  <2>3. StopIf(content["text"] = i, i) \in Seq(EventType)
    BY <2>1, StopIfTyping
  <2>4. StopIf(content["thinking"] = i, i) \in Seq(EventType)
    BY <2>1, StopIfTyping
  <2>5. pending' \in Seq(EventType)
    BY <1>3, <2>2, <2>3, <2>4, ConcatTyping
  <2>6. IsFiniteSet(openTools')
    BY <1>3, FS_RemoveElement DEF ConverterInv
  <2>7. content' \in [ContentKinds -> Nat \cup {NoBlock}]
    BY <1>3 DEF ConverterInv, ConverterTypeOK
  <2>8. QED
    BY <1>3, <2>1, <2>5, <2>6, <2>7 DEF ConverterInv, ConverterTypeOK
<1>4. QED
  BY <1>1, <1>2, <1>3 DEF HandleBlockStop

\* A redacted block leaves the converter well formed (convert.go:959-979).
LEMMA RedactedTyping ==
    ASSUME ConverterInv, HandleRedacted
    PROVE  ConverterInv'
<1>1. CASE Panic
  BY <1>1 DEF Panic, ConverterInv, ConverterTypeOK
<1>2. CASE ~Panic
  <2>1. nextIndex \in Nat /\ nextIndex + 1 \in Nat
    BY DEF ConverterInv, ConverterTypeOK
  <2>2. <<BlockStart(nextIndex, "redacted_thinking"), BlockStop(nextIndex)>> \in Seq(EventType)
    BY <2>1, EventTyping, TwoEvents DEF BlockKinds
  <2>3. StopAllTextOrThinking \in Seq(EventType)
    BY StopAllTyping DEF ConverterInv
  <2>4. pending' \in Seq(EventType)
    BY <1>2, <2>2, <2>3, ConcatTyping DEF HandleRedacted
  <2>5. QED
    BY <1>2, <2>1, <2>4 DEF HandleRedacted, ConverterInv, ConverterTypeOK
<1>3. QED
  BY <1>1, <1>2

\* Usage and metadata change nothing but the batch (convert.go:909-958).
LEMMA PassedOnTyping ==
    ASSUME ConverterInv, HandleUsage \/ HandleMetadata
    PROVE  ConverterInv'
<1>1. <<Message("ping")>> \in Seq(EventType) /\ <<MessageDelta("none")>> \in Seq(EventType)
  BY EventTyping, OneEvent
<1>2. QED
  BY <1>1 DEF HandleUsage, HandleMetadata, ConverterInv, ConverterTypeOK

\* Neither does a finish reason change more than the record (convert.go:589-594).
LEMMA RecordTyping ==
    ASSUME ConverterInv, NEW r, RecordFinishReason(r)
    PROVE  ConverterInv'
  BY RecordedTyping DEF RecordFinishReason, ConverterInv, ConverterTypeOK

\* The blocks handleStop closes last, in ascending order.
LEMMA ToolStopsTyping ==
    ASSUME ConverterInv, NEW tools \in Ascending(openTools \ stopped)
    PROVE  [p \in 1..Cardinality(openTools \ stopped) |-> BlockStop(tools[p])] \in Seq(EventType)
<1> DEFINE S == openTools \ stopped
           n == Cardinality(S)
           s == [p \in 1..n |-> BlockStop(tools[p])]
<1>1. n \in Nat
  <2>1. S \in SUBSET openTools
    OBVIOUS
  <2>2. IsFiniteSet(S)
    BY <2>1, FS_Subset DEF ConverterInv
  <2>3. QED
    BY <2>2, FS_CardinalityType
<1>2. tools \in [1..n -> S]
  BY DEF Ascending
<1>3. \A p \in 1..n : BlockStop(tools[p]) \in EventType
  <2>1. \A p \in 1..n : tools[p] \in Nat
    BY <1>2 DEF ConverterInv, ConverterTypeOK
  <2>2. QED
    BY <2>1, EventTyping
<1>4. s \in [1..n -> EventType]
  BY <1>3
<1>5. s \in Seq(EventType)
  <2> HIDE DEF n, s
  <2>1. QED
    BY <1>1, <1>4, SeqDef
<1>6. QED
  BY <1>5

\* handleStop returns events and leaves the converter well formed (convert.go:1025-1067).
LEMMA StopTyping ==
    ASSUME ConverterInv, NEW prefix \in Seq(EventType), HandleStop(prefix)
    PROVE  ConverterInv'
<1> DEFINE thinking == StopIf(content["thinking"] # NoBlock /\ content["thinking"] \notin stopped,
                              content["thinking"])
           text == StopIf(content["text"] # NoBlock /\ content["text"] \notin stopped,
                          content["text"])
           final == <<MessageDelta(StopReason), Message("message_stop")>>
<1>1. \A k \in ContentKinds :
          /\ (content[k] # NoBlock /\ content[k] \notin stopped) \in BOOLEAN
          /\ content[k] # NoBlock /\ content[k] \notin stopped => content[k] \in Nat
  BY DEF ConverterInv, ConverterTypeOK
<1>2. thinking \in Seq(EventType) /\ text \in Seq(EventType)
  BY <1>1, StopIfTyping DEF ContentKinds
<1>3. final \in Seq(EventType)
  BY EventTyping, StopReasonTyping, TwoEvents DEF ConverterInv
<1>4. PICK tools \in Ascending(openTools \ stopped) :
          pending' = prefix \o thinking \o text
              \o [p \in 1..Cardinality(openTools \ stopped) |-> BlockStop(tools[p])]
              \o final
  BY DEF HandleStop
<1>5. [p \in 1..Cardinality(openTools \ stopped) |-> BlockStop(tools[p])] \in Seq(EventType)
  BY ToolStopsTyping
<1> DEFINE stops == [p \in 1..Cardinality(openTools \ stopped) |-> BlockStop(tools[p])]
<1>6. pending' = prefix \o thinking \o text \o stops \o final
  BY <1>4
<1>7. stops \in Seq(EventType)
  BY <1>5
<1>8. pending' \in Seq(EventType)
  <2> HIDE DEF thinking, text, stops, final
  <2>1. prefix \o thinking \in Seq(EventType)
    BY <1>2, ConcatTyping
  <2>2. prefix \o thinking \o text \in Seq(EventType)
    BY <1>2, <2>1, ConcatTyping
  <2>3. prefix \o thinking \o text \o stops \in Seq(EventType)
    BY <1>7, <2>2, ConcatTyping
  <2>4. QED
    BY <1>3, <1>6, <2>3, ConcatTyping
<1>9. content' \in [ContentKinds -> Nat \cup {NoBlock}]
  BY DEF HandleStop, ConverterInv, ConverterTypeOK
<1>10. QED
  BY <1>8, <1>9, FS_EmptySet DEF HandleStop, ConverterInv, ConverterTypeOK, NoBlock

\* Done leaves the converter well formed, whether it ends the message or not.
LEMMA DoneTyping ==
    ASSUME ConverterInv, HandleDone
    PROVE  ConverterInv'
<1>1. <<>> \in Seq(EventType)
  OBVIOUS
<1>2. CASE HandleStop(<<>>)
  BY <1>1, <1>2, StopTyping
<1>3. CASE Ignore
  BY <1>3 DEF Ignore, converterVars, ConverterInv, ConverterTypeOK
<1>4. QED
  BY <1>2, <1>3 DEF HandleDone

\* And so does an error (convert.go:1096-1108).
LEMMA ErrorTyping ==
    ASSUME ConverterInv, HandleError
    PROVE  ConverterInv'
<1>1. <<Message("error")>> \in Seq(EventType)
  BY EventTyping, OneEvent
<1>2. CASE HandleStop(<<Message("error")>>)
  BY <1>1, <1>2, StopTyping
<1>3. CASE ~HandleStop(<<Message("error")>>)
  BY <1>1, <1>3 DEF HandleError, ConverterInv, ConverterTypeOK
<1>4. QED
  BY <1>2, <1>3

-----------------------------------------------------------------------------
(* What a client makes of the events that are on their way to it.  A view is *)
(* what a client was told so far, and Reads(q, v, w) says that a client at v *)
(* makes sense of every event of q and is at w when it has read them all.    *)

View == [phase : {"idle", "streaming", "closing", "ended"}, blocks : Seq(BlockType),
         open : SUBSET Nat, reason : {"none"} \cup StopReasons]

\* What the client of this stream was told (StreamClient).
Told == [phase |-> phase, blocks |-> blocks, open |-> open, reason |-> reason]

Accepts(e, v) ==
    CASE e.type = "message_start" -> v.phase = "idle"
      [] e.type = "block_start" ->
            /\ v.phase = "streaming"
            /\ e.index = Len(v.blocks)
            /\ \A i \in v.open : v.blocks[i + 1].kind = "tool_use"
      [] e.type = "block_delta" ->
            /\ v.phase = "streaming"
            /\ e.index \in v.open
            /\ v.blocks[e.index + 1] = [kind |-> e.info, tool |-> e.tool]
      [] e.type = "block_stop" -> v.phase = "streaming" /\ e.index \in v.open
      [] IsFinal(e) -> v.phase = "streaming" /\ v.open = {}
      [] e.type = "message_stop" -> v.phase = "closing"
      [] e.type = "error" -> v.phase \in {"idle", "streaming"}
      [] e.type = "ping" -> TRUE
      [] OTHER -> v.phase = "streaming"

PhaseAfter(e, v) ==
    CASE e.type = "message_start" -> "streaming"
      [] IsFinal(e) -> "closing"
      [] e.type = "message_stop" -> "ended"
      [] OTHER -> v.phase

After(e, v) ==
    [phase |-> PhaseAfter(e, v),
     blocks |-> IF e.type = "block_start"
                THEN Append(v.blocks, [kind |-> e.info, tool |-> e.tool])
                ELSE v.blocks,
     open |-> IF e.type = "block_start" THEN v.open \cup {e.index}
              ELSE IF e.type = "block_stop" THEN v.open \ {e.index}
              ELSE v.open,
     reason |-> IF IsFinal(e) THEN e.info ELSE v.reason]

Reads(q, v, w) ==
    \E f \in [0..Len(q) -> View] :
        /\ f[0] = v
        /\ f[Len(q)] = w
        /\ \A p \in 1..Len(q) : Accepts(q[p], f[p - 1]) /\ f[p] = After(q[p], f[p - 1])

\* An event that is accepted leads from view to view.
LEMMA AfterTyping ==
    ASSUME NEW e \in EventType, NEW v \in View, Accepts(e, v)
    PROVE  After(e, v) \in View
<1>1. PhaseAfter(e, v) \in {"idle", "streaming", "closing", "ended"}
  BY DEF PhaseAfter, View
<1>2. (IF e.type = "block_start"
       THEN Append(v.blocks, [kind |-> e.info, tool |-> e.tool]) ELSE v.blocks) \in Seq(BlockType)
  <2>1. v.blocks \in Seq(BlockType)
    BY DEF View
  <2>2. e.type = "block_start" => [kind |-> e.info, tool |-> e.tool] \in BlockType
    BY DEF EventType, BlockType
  <2> QED
    BY <2>1, <2>2, AppendProperties
<1>3. (IF e.type = "block_start" THEN v.open \cup {e.index}
       ELSE IF e.type = "block_stop" THEN v.open \ {e.index} ELSE v.open) \in SUBSET Nat
  <2>1. e.type = "block_start" => e.index \in Nat
    BY DEF EventType
  <2> QED
    BY <2>1 DEF View
<1>4. (IF IsFinal(e) THEN e.info ELSE v.reason) \in {"none"} \cup StopReasons
  BY DEF EventType, View, IsFinal
<1> QED
  BY <1>1, <1>2, <1>3, <1>4 DEF After, View

\* The client of this stream takes an event as its view does.
LEMMA ReceiveIsAfter ==
    ASSUME NEW e, Told \in View, Receive(e)
    PROVE  /\ Accepts(e, Told) => Told' = After(e, Told)
           /\ ~Accepts(e, Told) => phase' = "broken" /\ UNCHANGED <<blocks, open, reason>>
<1>1. phase # "broken"
  BY DEF Told, View
<1>2. Accepts(e, Told) <=> Acceptable(e)
  BY <1>1 DEF Accepts, Acceptable, Told
<1>3. PhaseAfter(e, Told) = NextPhase(e)
  BY DEF PhaseAfter, NextPhase, Told
<1> QED
  BY <1>2, <1>3 DEF Receive, After, Told

\* Nothing leaves a client where it is.
LEMMA ReadsNothing ==
    ASSUME NEW v \in View
    PROVE  /\ Reads(<<>>, v, v)
           /\ \A w : Reads(<<>>, v, w) => w = v
<1>1. Reads(<<>>, v, v)
  <2> DEFINE f == [p \in 0..0 |-> v]
  <2>1. f \in [0..0 -> View] /\ f[0] = v /\ Len(<<>>) = 0 /\ 1..0 = {}
    OBVIOUS
  <2> HIDE DEF f
  <2> QED
    BY <2>1 DEF Reads
<1>2. ASSUME NEW w, Reads(<<>>, v, w) PROVE w = v
  BY <1>2 DEF Reads
<1> QED
  BY <1>1, <1>2

\* One event that is accepted.
LEMMA ReadsOne ==
    ASSUME NEW e \in EventType, NEW v \in View, Accepts(e, v)
    PROVE  Reads(<<e>>, v, After(e, v)) /\ After(e, v) \in View
<1>1. After(e, v) \in View
  BY AfterTyping
<1> DEFINE f == [p \in 0..1 |-> IF p = 0 THEN v ELSE After(e, v)]
<1>2. f \in [0..1 -> View] /\ f[0] = v /\ f[1] = After(e, v)
  BY <1>1
<1>3. Len(<<e>>) = 1 /\ <<e>>[1] = e
  OBVIOUS
<1>4. \A p \in 1..1 : Accepts(<<e>>[p], f[p - 1]) /\ f[p] = After(<<e>>[p], f[p - 1])
  <2>1. \A p \in 1..1 : p = 1
    OBVIOUS
  <2> HIDE DEF f
  <2> QED
    BY <2>1, <1>2, <1>3
<1> QED
  <2> HIDE DEF f
  <2> QED
    BY <1>1, <1>2, <1>3, <1>4 DEF Reads

\* A batch that is read after another.
LEMMA ReadsConcat ==
    ASSUME NEW q \in Seq(EventType), NEW b \in Seq(EventType), NEW u, NEW v, NEW w,
           Reads(q, u, v), Reads(b, v, w)
    PROVE  Reads(q \o b, u, w)
<1> DEFINE m == Len(q)
           n == Len(b)
<1>1. m \in Nat /\ n \in Nat /\ Len(q \o b) = m + n
  OBVIOUS
<1>2. PICK f \in [0..m -> View] :
          f[0] = u /\ f[m] = v /\ \A p \in 1..m : Accepts(q[p], f[p - 1]) /\ f[p] = After(q[p], f[p - 1])
  BY DEF Reads
<1>3. PICK g \in [0..n -> View] :
          g[0] = v /\ g[n] = w /\ \A p \in 1..n : Accepts(b[p], g[p - 1]) /\ g[p] = After(b[p], g[p - 1])
  BY DEF Reads
<1> DEFINE h == [p \in 0..(m + n) |-> IF p <= m THEN f[p] ELSE g[p - m]]
<1>4. h \in [0..(m + n) -> View]
  BY <1>1, <1>2, <1>3
<1>5. h[0] = u
  BY <1>1, <1>2
<1>6. h[m + n] = w
  <2>1. CASE n = 0
    BY <1>1, <1>2, <1>3, <2>1
  <2>2. CASE n > 0
    <3>1. (m + n) - m = n /\ ~(m + n <= m) /\ m + n \in 0..(m + n)
      BY <1>1, <2>2
    <3> HIDE DEF m, n
    <3> QED
      BY <1>3, <3>1
  <2> QED
    BY <1>1, <2>1, <2>2
<1>7. ASSUME NEW p \in 1..(m + n)
      PROVE  Accepts((q \o b)[p], h[p - 1]) /\ h[p] = After((q \o b)[p], h[p - 1])
  <2>1. CASE p <= m
    <3>1. p \in 1..m /\ (q \o b)[p] = q[p] /\ h[p] = f[p] /\ h[p - 1] = f[p - 1]
      BY <1>1, <2>1
    <3> HIDE DEF h
    <3> QED
      BY <1>2, <3>1
  <2>2. CASE p > m
    <3>1. p - m \in 1..n /\ (q \o b)[p] = b[p - m] /\ h[p] = g[p - m]
      BY <1>1, <2>2
    <3>2. h[p - 1] = g[(p - m) - 1]
      <4>1. CASE p - 1 = m
        BY <1>1, <1>2, <1>3, <4>1
      <4>2. CASE p - 1 > m
        BY <1>1, <4>2
      <4>3. p - 1 = m \/ p - 1 > m
        <5> HIDE DEF h, m, n
        <5> QED
          BY <1>1, <2>2
      <4> QED
        BY <4>1, <4>2, <4>3
    <3> HIDE DEF h
    <3> QED
      BY <1>3, <3>1, <3>2
  <2> QED
    BY <1>1, <2>1, <2>2
<1> QED
  <2> HIDE DEF h, m, n
  <2>1. Len(q \o b) = m + n
    BY <1>1
  <2> QED
    BY <2>1, <1>4, <1>5, <1>6, <1>7 DEF Reads

\* The first event, and what is left to read then.
LEMMA ReadsHead ==
    ASSUME NEW q \in Seq(EventType), q # <<>>, NEW v, NEW w, Reads(q, v, w)
    PROVE  Accepts(Head(q), v) /\ Reads(Tail(q), After(Head(q), v), w)
<1> DEFINE n == Len(q)
<1>1. n \in Nat \ {0} /\ Head(q) = q[1] /\ Len(Tail(q)) = n - 1
      /\ \A p \in 1..(n - 1) : Tail(q)[p] = q[p + 1]
  BY HeadTailProperties
<1>2. PICK f \in [0..n -> View] :
          f[0] = v /\ f[n] = w /\ \A p \in 1..n : Accepts(q[p], f[p - 1]) /\ f[p] = After(q[p], f[p - 1])
  BY DEF Reads
<1>3. Accepts(Head(q), v) /\ f[1] = After(Head(q), v)
  BY <1>1, <1>2
<1> DEFINE g == [p \in 0..(n - 1) |-> f[p + 1]]
<1>4. g \in [0..(n - 1) -> View] /\ g[0] = After(Head(q), v) /\ g[n - 1] = w
  BY <1>1, <1>2, <1>3
<1>5. ASSUME NEW p \in 1..(n - 1)
      PROVE  Accepts(Tail(q)[p], g[p - 1]) /\ g[p] = After(Tail(q)[p], g[p - 1])
  <2>1. p + 1 \in 1..n /\ g[p] = f[p + 1] /\ g[p - 1] = f[(p + 1) - 1] /\ Tail(q)[p] = q[p + 1]
    BY <1>1
  <2> HIDE DEF g
  <2> QED
    BY <1>2, <2>1
<1> QED
  <2> HIDE DEF g, n
  <2>1. Len(Tail(q)) = n - 1
    BY <1>1
  <2> QED
    BY <2>1, <1>3, <1>4, <1>5 DEF Reads

\* An event is put behind what is on its way already.
LEMMA ReadsAppend ==
    ASSUME NEW q \in Seq(EventType), NEW e \in EventType, NEW v, NEW w \in View,
           Reads(q, v, w), Accepts(e, w)
    PROVE  Reads(Append(q, e), v, After(e, w))
<1>1. Append(q, e) = q \o <<e>> /\ <<e>> \in Seq(EventType)
  BY AppendIsConcat
<1> QED
  BY <1>1, ReadsOne, ReadsConcat

-----------------------------------------------------------------------------
(* The batches that handlers are made of. *)

Opened(v, k, id) ==
    [phase |-> v.phase, blocks |-> Append(v.blocks, [kind |-> k, tool |-> id]),
     open |-> v.open \cup {Len(v.blocks)}, reason |-> v.reason]

Closed(v, S) == [phase |-> v.phase, blocks |-> v.blocks, open |-> v.open \ S, reason |-> v.reason]

Ended(v, r) == [phase |-> "ended", blocks |-> v.blocks, open |-> v.open, reason |-> r]

\* Blocks stopped one after the other are stopped all.
LEMMA ClosedTyping ==
    ASSUME NEW v \in View
    PROVE  /\ \A S : Closed(v, S) \in View /\ Closed(v, S).open = v.open \ S
                     /\ Closed(v, S).phase = v.phase /\ Closed(v, S).blocks = v.blocks
           /\ Closed(v, {}) = v
           /\ \A S, T : Closed(Closed(v, S), T) = Closed(v, S \cup T)
<1>1. ASSUME NEW S PROVE Closed(v, S) \in View /\ Closed(v, S).open = v.open \ S
                         /\ Closed(v, S).phase = v.phase /\ Closed(v, S).blocks = v.blocks
  BY DEF Closed, View
<1>2. Closed(v, {}) = v
  BY DEF Closed, View
<1>3. ASSUME NEW S, NEW T PROVE Closed(Closed(v, S), T) = Closed(v, S \cup T)
  <2>1. (v.open \ S) \ T = v.open \ (S \cup T)
    OBVIOUS
  <2> QED
    BY <2>1 DEF Closed, View
<1> QED
  BY <1>1, <1>2, <1>3

\* A block is started while every open one is a tool call.
LEMMA ReadsStart ==
    ASSUME NEW v \in View, v.phase = "streaming", NEW k \in BlockKinds, NEW id \in Tools,
           \A i \in v.open : v.blocks[i + 1].kind = "tool_use",
           NEW i, i = Len(v.blocks)
    PROVE  /\ Reads(<<Event("block_start", i, k, id)>>, v, Opened(v, k, id))
           /\ Opened(v, k, id) \in View
<1> DEFINE e == Event("block_start", i, k, id)
<1>1. i \in Nat
  BY DEF View
<1>2. e \in EventType
  BY <1>1 DEF EventType, Event
<1>3. /\ e.type = "block_start" /\ e.index = i /\ e.info = k /\ e.tool = id
      /\ ~IsFinal(e)
  BY DEF Event, IsFinal
<1> HIDE DEF e
<1>4. Accepts(e, v)
  BY <1>3 DEF Accepts
<1>5. After(e, v) = Opened(v, k, id)
  BY <1>3 DEF After, PhaseAfter, Opened, View
<1> QED
  BY <1>2, <1>4, <1>5, ReadsOne DEF e

\* A block is fed while it is open, by a delta that is its own.
LEMMA ReadsDelta ==
    ASSUME NEW v \in View, v.phase = "streaming", NEW i \in v.open,
           NEW k \in ContentKinds \cup {"tool_use"}, NEW id \in Tools,
           v.blocks[i + 1] = [kind |-> k, tool |-> id]
    PROVE  Reads(<<Event("block_delta", i, k, id)>>, v, v)
<1> DEFINE e == Event("block_delta", i, k, id)
<1>1. e \in EventType
  BY DEF EventType, Event, View
<1>2. /\ e.type = "block_delta" /\ e.index = i /\ e.info = k /\ e.tool = id
      /\ ~IsFinal(e)
  BY DEF Event, IsFinal
<1> HIDE DEF e
<1>3. Accepts(e, v)
  BY <1>2 DEF Accepts
<1>4. After(e, v) = v
  BY <1>2 DEF After, PhaseAfter, View
<1> QED
  BY <1>1, <1>3, <1>4, ReadsOne DEF e

\* A block is stopped while it is open.
LEMMA StopAccepted ==
    ASSUME NEW v \in View, v.phase = "streaming", NEW i \in v.open
    PROVE  /\ BlockStop(i) \in EventType
           /\ Accepts(BlockStop(i), v)
           /\ After(BlockStop(i), v) = Closed(v, {i})
<1> DEFINE e == BlockStop(i)
<1>1. e \in EventType
  BY EventTyping DEF View
<1>2. e.type = "block_stop" /\ e.index = i /\ ~IsFinal(e)
  BY DEF BlockStop, Event, IsFinal
<1> HIDE DEF e
<1>3. Accepts(e, v)
  BY <1>2 DEF Accepts
<1>4. After(e, v) = Closed(v, {i})
  BY <1>2 DEF After, PhaseAfter, Closed, View
<1> QED
  BY <1>1, <1>3, <1>4 DEF e

\* The blocks a handler stops on a condition.
StoppedIf(b, i) == IF b THEN {i} ELSE {}

LEMMA ReadsStopIf ==
    ASSUME NEW v \in View, v.phase = "streaming", NEW b \in BOOLEAN, NEW i, b => i \in v.open
    PROVE  /\ StopIf(b, i) \in Seq(EventType)
           /\ Reads(StopIf(b, i), v, Closed(v, StoppedIf(b, i)))
<1>1. CASE b
  BY <1>1, StopAccepted, ReadsOne, OneEvent DEF StopIf, StoppedIf
<1>2. CASE ~b
  BY <1>2, ReadsNothing, ClosedTyping DEF StopIf, StoppedIf
<1> QED
  BY <1>1, <1>2

\* What is stopped at the end of the message, in ascending order.
LEMMA ReadsStops ==
    ASSUME NEW v \in View, v.phase = "streaming", NEW S \in SUBSET v.open, IsFiniteSet(S),
           NEW tools \in Ascending(S)
    PROVE  LET stops == [p \in 1..Cardinality(S) |-> BlockStop(tools[p])]
           IN  stops \in Seq(EventType) /\ Reads(stops, v, Closed(v, S))
<1> DEFINE n == Cardinality(S)
           stops == [p \in 1..n |-> BlockStop(tools[p])]
<1>1. n \in Nat
  BY FS_CardinalityType
<1>2. /\ tools \in [1..n -> S]
      /\ \A p, q \in 1..n : p < q => tools[p] < tools[q]
      /\ \A i \in S : \E p \in 1..n : tools[p] = i
  BY DEF Ascending
<1>3. S \subseteq Nat
  BY DEF View
<1> HIDE DEF n
<1>4. stops \in Seq(EventType) /\ Len(stops) = n
  <2>1. \A p \in 1..n : BlockStop(tools[p]) \in EventType
    BY <1>2, <1>3, EventTyping
  <2> QED
    BY <1>1, <2>1
<1> DEFINE before(p) == {tools[r] : r \in 1..p}
           f == [p \in 0..n |-> Closed(v, before(p))]
<1>5. f \in [0..n -> View]
  BY ClosedTyping
<1>6. f[0] = v
  <2>1. before(0) = {}
    OBVIOUS
  <2>2. 0 \in 0..n
    BY <1>1
  <2> QED
    BY <2>1, <2>2, ClosedTyping
<1>7. f[n] = Closed(v, S)
  <2>1. before(n) = S
    BY <1>2
  <2>2. n \in 0..n
    BY <1>1
  <2> QED
    BY <2>1, <2>2
<1>8. ASSUME NEW p \in 1..n
      PROVE  Accepts(stops[p], f[p - 1]) /\ f[p] = After(stops[p], f[p - 1])
  <2> DEFINE u == Closed(v, before(p - 1))
  <2>1. f[p - 1] = u /\ f[p] = Closed(v, before(p)) /\ stops[p] = BlockStop(tools[p])
    BY <1>1
  <2>2. tools[p] \in v.open
    BY <1>2
  <2>3. tools[p] \notin before(p - 1)
    <3>1. ASSUME NEW r \in 1..(p - 1) PROVE tools[r] # tools[p]
      <4>1. r \in 1..n /\ r < p
        BY <1>1
      <4>2. tools[r] < tools[p] /\ tools[r] \in Nat /\ tools[p] \in Nat
        BY <1>2, <1>3, <4>1
      <4> QED
        BY <4>2
    <3> QED
      BY <3>1
  <2>4. before(p) = before(p - 1) \cup {tools[p]}
    <3>1. 1..p = (1..(p - 1)) \cup {p}
      BY <1>1
    <3> QED
      BY <3>1
  <2> HIDE DEF before
  <2>5. u \in View /\ u.phase = "streaming" /\ tools[p] \in u.open
    BY <2>2, <2>3, ClosedTyping
  <2>6. Closed(u, {tools[p]}) = Closed(v, before(p))
    BY <2>4, ClosedTyping
  <2> HIDE DEF u
  <2> QED
    BY <2>1, <2>5, <2>6, StopAccepted
<1> HIDE DEF f, before
<1>9. Reads(stops, v, Closed(v, S))
  <2> HIDE DEF stops
  <2> QED
    BY <1>4, <1>5, <1>6, <1>7, <1>8 DEF Reads
<1> QED
  BY <1>4, <1>9 DEF n

\* The end of a message whose blocks are all stopped.
LEMMA ReadsEnd ==
    ASSUME NEW v \in View, v.phase = "streaming", v.open = {}, NEW r \in StopReasons
    PROVE  /\ <<MessageDelta(r), Message("message_stop")>> \in Seq(EventType)
           /\ Reads(<<MessageDelta(r), Message("message_stop")>>, v, Ended(v, r))
           /\ Ended(v, r) \in View
<1> DEFINE d == MessageDelta(r)
           s == Message("message_stop")
           u == [phase |-> "closing", blocks |-> v.blocks, open |-> v.open, reason |-> r]
<1>1. d \in EventType /\ s \in EventType
  BY EventTyping
<1>2. d.type = "message_delta" /\ d.info = r /\ s.type = "message_stop" /\ IsFinal(d) /\ ~IsFinal(s)
  BY DEF MessageDelta, Message, Event, IsFinal, StopReasons
<1> HIDE DEF d, s
<1>3. Accepts(d, v) /\ After(d, v) = u
  BY <1>2 DEF Accepts, After, PhaseAfter, View
<1>4. u \in View /\ Accepts(s, u) /\ After(s, u) = Ended(v, r)
  BY <1>2 DEF Accepts, After, PhaseAfter, View, Ended
<1>5. Reads(<<d>>, v, u) /\ Reads(<<s>>, u, Ended(v, r)) /\ Ended(v, r) \in View
  BY <1>1, <1>3, <1>4, ReadsOne
<1>6. <<d>> \in Seq(EventType) /\ <<s>> \in Seq(EventType)
  BY <1>1, OneEvent
<1>7. <<d, s>> = <<d>> \o <<s>>
  BY <1>1, TwoConcat
<1> QED
  BY <1>1, <1>5, <1>6, <1>7, ReadsConcat, TwoEvents DEF d, s

\* What a client takes without learning anything: pings, metadata and errors.
LEMMA ReadsPassed ==
    ASSUME NEW v \in View
    PROVE  /\ Reads(<<Message("ping")>>, v, v)
           /\ v.phase = "streaming" => Reads(<<MessageDelta("none")>>, v, v)
           /\ v.phase \in {"idle", "streaming"} => Reads(<<Message("error")>>, v, v)
<1>1. ASSUME NEW e \in {Message("ping"), MessageDelta("none"), Message("error")}
      PROVE  /\ e \in EventType
             /\ e.type \in {"ping", "message_delta", "error"} /\ ~IsFinal(e)
             /\ After(e, v) = v
  <2>1. e \in EventType
    BY EventTyping
  <2>2. e.type \in {"ping", "message_delta", "error"} /\ ~IsFinal(e)
    BY DEF Message, MessageDelta, Event, IsFinal
  <2> QED
    BY <2>1, <2>2 DEF After, PhaseAfter, View
<1>2. Accepts(Message("ping"), v)
  BY DEF Accepts, Message, Event, IsFinal
<1>3. v.phase = "streaming" => Accepts(MessageDelta("none"), v)
  BY DEF Accepts, MessageDelta, Event, IsFinal
<1>4. v.phase \in {"idle", "streaming"} => Accepts(Message("error"), v)
  BY DEF Accepts, Message, Event, IsFinal
<1> QED
  BY <1>1, <1>2, <1>3, <1>4, ReadsOne

-----------------------------------------------------------------------------
(* The converter's bookkeeping and the view of a client that has read all it *)
(* was sent agree while the message runs: the next index is the number of    *)
(* blocks, what the client holds open is the open text, thinking and tool    *)
(* blocks, and no block that is open or still to come is marked as stopped.  *)

Mirrors(w) ==
    /\ w.phase = "streaming"
    /\ nextIndex = Len(w.blocks)
    /\ \A k \in ContentKinds : content[k] # NoBlock =>
           content[k] \in w.open /\ w.blocks[content[k] + 1] = [kind |-> k, tool |-> NoID]
    /\ \A i \in openTools : i \in w.open /\ w.blocks[i + 1].kind = "tool_use"
    /\ \A i \in w.open :
           i < nextIndex /\ i \notin stopped /\ (i \in openTools \/ \E k \in ContentKinds : content[k] = i)
    /\ \A i \in stopped : i < nextIndex

\* A view that extends another one: what was told before is not told anew.
Extends(v, w) ==
    /\ Len(v.blocks) <= Len(w.blocks)
    /\ \A i \in 0..(Len(v.blocks) - 1) : w.blocks[i + 1] = v.blocks[i + 1]

\* Starting a block and stopping some tell nothing anew.
LEMMA ExtendsTyping ==
    ASSUME NEW v \in View, NEW S, NEW k, NEW id
    PROVE  /\ Extends(v, Closed(v, S))
           /\ Extends(v, Opened(Closed(v, S), k, id))
           /\ Opened(Closed(v, S), k, id).blocks[Len(v.blocks) + 1] = [kind |-> k, tool |-> id]
<1> DEFINE w == Opened(Closed(v, S), k, id)
           b == [kind |-> k, tool |-> id]
<1>1. v.blocks \in Seq(BlockType) /\ Len(v.blocks) \in Nat
  BY DEF View
<1>2. Closed(v, S).blocks = v.blocks /\ w.blocks = Append(v.blocks, b)
  BY DEF Closed, Opened
<1>3. /\ Len(Append(v.blocks, b)) = Len(v.blocks) + 1
      /\ \A i \in 0..(Len(v.blocks) - 1) : Append(v.blocks, b)[i + 1] = v.blocks[i + 1]
      /\ Append(v.blocks, b)[Len(v.blocks) + 1] = b
  BY <1>1
<1>4. Extends(v, Closed(v, S))
  BY <1>1, <1>2 DEF Extends
<1> HIDE DEF w, b
<1>5. Extends(v, w)
  BY <1>1, <1>2, <1>3 DEF Extends
<1>6. w.blocks[Len(v.blocks) + 1] = b
  BY <1>2, <1>3
<1> QED
  BY <1>4, <1>5, <1>6 DEF w, b

\* The block an open text or thinking block is, in a client's view.
LEMMA OpenContent ==
    ASSUME ConverterTypeOK, NEW v \in View, Mirrors(v)
    PROVE  /\ \A k \in ContentKinds : content[k] \in Nat \cup {NoBlock}
           /\ content["text"] # NoBlock => content["text"] \in v.open
           /\ content["thinking"] # NoBlock => content["thinking"] \in v.open
           /\ content["text"] = content["thinking"] => content["text"] = NoBlock
           /\ \A k \in ContentKinds : content[k] # NoBlock => content[k] \notin openTools
           /\ nextIndex \notin stopped
<1>1. "text" \in ContentKinds /\ "thinking" \in ContentKinds
  BY DEF ContentKinds
<1>2. nextIndex \notin stopped
  BY DEF Mirrors, ConverterTypeOK
<1>3. \A k \in ContentKinds : content[k] # NoBlock =>
          v.blocks[content[k] + 1].kind = k /\ content[k] \notin openTools
  BY DEF Mirrors, ContentKinds
<1> QED
  BY <1>1, <1>2, <1>3 DEF Mirrors, ConverterTypeOK

\* stopAllTextOrThinking leaves only tool calls open (convert.go:681-698).
LEMMA StopAllReads ==
    ASSUME ConverterTypeOK, NEW v \in View, Mirrors(v)
    PROVE  \E S : /\ Reads(StopAllTextOrThinking, v, Closed(v, S))
                  /\ Closed(v, S).open = openTools
                  /\ \A i \in Closed(v, S).open : v.blocks[i + 1].kind = "tool_use"
<1> DEFINE text == content["text"]
           thinking == content["thinking"]
           S == StoppedIf(thinking # NoBlock, thinking)
           T == StoppedIf(text # NoBlock, text)
           u == Closed(v, S)
<1>1. u \in View /\ u.phase = "streaming" /\ u.open = v.open \ S
  BY ClosedTyping DEF Mirrors
<1>2. text # NoBlock => text \in u.open
  BY <1>1, OpenContent DEF StoppedIf
<1>3. /\ Reads(StopIf(thinking # NoBlock, thinking), v, u)
      /\ StopIf(thinking # NoBlock, thinking) \in Seq(EventType)
  BY OpenContent, ReadsStopIf DEF Mirrors
<1>4. /\ Reads(StopIf(text # NoBlock, text), u, Closed(u, T))
      /\ StopIf(text # NoBlock, text) \in Seq(EventType)
  <2> HIDE DEF u
  <2> QED
    BY <1>1, <1>2, ReadsStopIf
<1>5. Reads(StopAllTextOrThinking, v, Closed(v, S \cup T))
  <2>1. Closed(u, T) = Closed(v, S \cup T)
    BY ClosedTyping
  <2> HIDE DEF u
  <2> QED
    BY <2>1, <1>3, <1>4, ReadsConcat DEF StopAllTextOrThinking
<1>6. v.open \ (S \cup T) = openTools
  <2>1. \A i \in openTools : i \in v.open /\ i # text /\ i # thinking
    BY OpenContent DEF Mirrors, ContentKinds, ConverterTypeOK, NoBlock
  <2>2. \A i \in v.open : i \in Nat /\ (i \in openTools \/ i = text \/ i = thinking)
    BY DEF Mirrors, ContentKinds, View
  <2>3. \A i \in v.open : i = text \/ i = thinking => i \in S \cup T
    BY <2>2 DEF StoppedIf, NoBlock
  <2>4. \A i \in S \cup T : i = text \/ i = thinking
    BY DEF StoppedIf
  <2> QED
    BY <2>1, <2>2, <2>3, <2>4
<1>7. Closed(v, S \cup T).open = openTools
  BY <1>6, ClosedTyping
<1>8. \A i \in openTools : v.blocks[i + 1].kind = "tool_use"
  BY DEF Mirrors
<1> QED
  BY <1>5, <1>7, <1>8

\* The first event of a message (convert.go:623-654).
LEMMA StartReads ==
    ASSUME NEW v \in View, v.phase = "idle", v.blocks = <<>>, v.open = {}, HandleStart
    PROVE  \E w \in View : Reads(pending', v, w) /\ Mirrors(w)'
<1> DEFINE e == Message("message_start")
<1>1. PICK w : w = [phase |-> "streaming", blocks |-> v.blocks, open |-> v.open, reason |-> v.reason]
  OBVIOUS
<1>2. e \in EventType
  BY EventTyping
<1>3. Accepts(e, v) /\ After(e, v) = w
  BY <1>1 DEF Accepts, After, PhaseAfter, Message, Event, IsFinal
<1>4. Reads(<<e>>, v, w) /\ w \in View
  BY <1>2, <1>3, ReadsOne
<1>5. Mirrors(w)'
  BY <1>1 DEF Mirrors, HandleStart
<1> QED
  BY <1>4, <1>5 DEF HandleStart

\* Text and thinking: a block of the other kind is stopped before this one starts,
\* and a delta is of the block that is open (convert.go:797-882).
LEMMA ContentReads ==
    ASSUME ConverterInv, NEW v \in View, Mirrors(v), NEW k \in ContentKinds, NEW d \in BOOLEAN,
           HandleContent(k, d)
    PROVE  \E w \in View : Reads(pending', v, w) /\ Mirrors(w)' /\ Extends(v, w)
<1> DEFINE idx == IF content[k] # NoBlock THEN content[k] ELSE nextIndex
           delta == IF d THEN <<BlockDelta(idx, k)>> ELSE <<>>
<1>1. ConverterTypeOK /\ k \in BlockKinds /\ NoID \in Tools
  BY DEF ConverterInv, BlockKinds, Tools
<1>2. CASE content[k] # NoBlock
  <2>1. /\ pending' = delta
        /\ UNCHANGED <<content, nextIndex, openTools, stopped>>
    BY <1>2 DEF HandleContent
  <2>2. Reads(delta, v, v)
    <3>1. CASE d
      <4>1. content[k] \in v.open /\ v.blocks[content[k] + 1] = [kind |-> k, tool |-> NoID]
        BY <1>2 DEF Mirrors
      <4>2. Reads(<<Event("block_delta", content[k], k, NoID)>>, v, v)
        BY <1>1, <4>1, ReadsDelta DEF Mirrors
      <4> QED
        BY <1>2, <3>1, <4>2 DEF BlockDelta
    <3> QED
      BY <3>1, ReadsNothing
  <2>3. Mirrors(v)'
    BY <2>1 DEF Mirrors
  <2>4. Extends(v, v)
    BY DEF Extends, View
  <2> QED
    BY <2>1, <2>2, <2>3, <2>4
<1>3. CASE content[k] = NoBlock
  <2> DEFINE other == content[Other(k)]
             stop == StopIf(other # NoBlock, other)
             start == <<Event("block_start", nextIndex, k, NoID)>>
  <2>1. /\ pending' = stop \o start \o delta
        /\ content' = [c \in ContentKinds |-> IF c = k THEN nextIndex ELSE NoBlock]
        /\ nextIndex' = nextIndex + 1
        /\ UNCHANGED <<openTools, stopped>>
    BY <1>3 DEF HandleContent, BlockStart, NoBlock
  <2>2. Other(k) \in ContentKinds /\ \A c \in ContentKinds : c = k \/ c = Other(k)
    BY DEF Other, ContentKinds
  <2>3. other # NoBlock => other \in v.open
    BY <2>2 DEF Mirrors
  <2>4. PICK S : S = StoppedIf(other # NoBlock, other)
    OBVIOUS
  <2>5. Reads(stop, v, Closed(v, S)) /\ stop \in Seq(EventType)
    BY <2>3, <2>4, ReadsStopIf DEF Mirrors
  <2>6. PICK u : u = Closed(v, S)
    OBVIOUS
  <2>7. u \in View /\ u.phase = "streaming" /\ u.blocks = v.blocks /\ u.open = v.open \ S
    BY <2>6, ClosedTyping DEF Mirrors
  <2>8. \A i \in u.open : i \in openTools
    <3>1. ASSUME NEW i \in u.open, i \notin openTools PROVE FALSE
      <4>1. PICK c \in ContentKinds : content[c] = i
        BY <2>7, <3>1 DEF Mirrors
      <4>2. i \in Nat
        BY <2>7 DEF View
      <4>3. c = Other(k)
        BY <1>3, <2>2, <4>1, <4>2 DEF NoBlock
      <4> QED
        BY <2>4, <2>7, <4>1, <4>2, <4>3 DEF StoppedIf, NoBlock
    <3> QED
      BY <3>1
  <2>9. \A i \in u.open : u.blocks[i + 1].kind = "tool_use"
    BY <2>7, <2>8 DEF Mirrors
  <2>10. PICK w : w = Opened(u, k, NoID)
    OBVIOUS
  <2>11. nextIndex = Len(u.blocks)
    BY <2>7 DEF Mirrors
  <2>12. Reads(start, u, w) /\ w \in View
    BY <1>1, <2>7, <2>9, <2>10, <2>11, ReadsStart
  <2>13. start \in Seq(EventType)
    <3>1. BlockStart(nextIndex, k) \in EventType
      BY <1>1, EventTyping DEF ConverterTypeOK
    <3> QED
      BY <3>1, OneEvent DEF BlockStart
  <2>14. /\ w.phase = "streaming"
         /\ w.open = u.open \cup {nextIndex}
         /\ Len(w.blocks) = nextIndex + 1
         /\ w.blocks[nextIndex + 1] = [kind |-> k, tool |-> NoID]
         /\ Extends(v, w)
    <3>1. Len(v.blocks) = nextIndex /\ v.blocks \in Seq(BlockType)
      BY DEF Mirrors, View
    <3>2. w.blocks[nextIndex + 1] = [kind |-> k, tool |-> NoID] /\ Extends(v, w)
      BY <2>6, <2>10, <3>1, ExtendsTyping
    <3>3. w.phase = u.phase /\ w.open = u.open \cup {nextIndex}
          /\ w.blocks = Append(u.blocks, [kind |-> k, tool |-> NoID])
      BY <2>10, <2>11 DEF Opened
    <3> QED
      BY <2>7, <3>1, <3>2, <3>3
  <2>15. Reads(delta, w, w) /\ delta \in Seq(EventType)
    <3>1. CASE d
      <4>1. Reads(<<Event("block_delta", nextIndex, k, NoID)>>, w, w)
        BY <1>1, <2>12, <2>14, ReadsDelta
      <4>2. BlockDelta(nextIndex, k) \in EventType
        BY <1>1, EventTyping DEF ConverterTypeOK
      <4> QED
        BY <1>3, <3>1, <4>1, <4>2, OneEvent DEF BlockDelta
    <3> QED
      BY <2>12, <3>1, ReadsNothing
  <2>16. Reads(pending', v, w)
    <3> HIDE DEF stop, start, delta
    <3>1. Reads(stop \o start, v, w) /\ stop \o start \in Seq(EventType)
      BY <2>5, <2>6, <2>12, <2>13, ReadsConcat, ConcatTyping
    <3> QED
      BY <2>1, <2>15, <3>1, ReadsConcat
  <2>17. Mirrors(w)'
    <3>1. nextIndex \in Nat /\ nextIndex \notin stopped
      BY <1>1, OpenContent DEF ConverterTypeOK
    <3>2. nextIndex' = Len(w.blocks)
      BY <2>1, <2>14
    <3>3. \A c \in ContentKinds : content'[c] # NoBlock =>
              content'[c] \in w.open /\ w.blocks[content'[c] + 1] = [kind |-> c, tool |-> NoID]
      BY <2>1, <2>14
    <3>4. ASSUME NEW i \in openTools
          PROVE  i \in w.open /\ w.blocks[i + 1].kind = "tool_use"
      <4>1. i \in v.open /\ i < nextIndex /\ v.blocks[i + 1].kind = "tool_use" /\ i \in Nat
        BY <1>1 DEF Mirrors, ConverterTypeOK
      <4>2. i \notin S
        BY <1>1, <2>2, <2>4, OpenContent DEF StoppedIf
      <4>3. w.blocks[i + 1] = v.blocks[i + 1]
        BY <2>14, <3>1, <4>1 DEF Extends, Mirrors
      <4> QED
        BY <2>7, <2>14, <4>1, <4>2, <4>3
    <3>5. ASSUME NEW i \in w.open
          PROVE  i < nextIndex + 1 /\ i \notin stopped
                 /\ (i \in openTools \/ \E c \in ContentKinds : content'[c] = i)
      <4>1. CASE i \in u.open
        <5>1. i \in v.open /\ i \in openTools /\ i \in Nat
          BY <1>1, <2>7, <2>8, <4>1 DEF ConverterTypeOK
        <5> QED
          BY <3>1, <5>1 DEF Mirrors
      <4>2. CASE i = nextIndex
        BY <2>1, <3>1, <4>2
      <4> QED
        BY <2>14, <4>1, <4>2
    <3>6. \A i \in stopped : i < nextIndex + 1
      BY <1>1, <3>1 DEF Mirrors, ConverterTypeOK
    <3> QED
      BY <2>1, <2>14, <3>2, <3>3, <3>4, <3>5, <3>6 DEF Mirrors
  <2> QED
    BY <2>12, <2>14, <2>16, <2>17
<1> QED
  BY <1>2, <1>3

\* A block that is neither text nor thinking: what is open of these is stopped and
\* the block starts, a tool call to stay open (convert.go:739-761) or a redacted
\* block to be stopped at once (convert.go:959-979).
LEMMA OpeningReads ==
    ASSUME ConverterInv, NEW v \in View, Mirrors(v), NEW k \in BlockKinds, NEW id \in Tools
    PROVE  \E w \in View :
               /\ Reads(StopAllTextOrThinking \o <<Event("block_start", nextIndex, k, id)>>, v, w)
               /\ Extends(v, w)
               /\ w.phase = "streaming"
               /\ Len(w.blocks) = nextIndex + 1
               /\ w.blocks[nextIndex + 1] = [kind |-> k, tool |-> id]
               /\ w.open = openTools \cup {nextIndex}
<1> DEFINE start == <<Event("block_start", nextIndex, k, id)>>
<1>1. ConverterTypeOK /\ v.phase = "streaming" /\ nextIndex = Len(v.blocks)
      /\ v.blocks \in Seq(BlockType)
  BY DEF ConverterInv, Mirrors, View
<1>2. PICK S : /\ Reads(StopAllTextOrThinking, v, Closed(v, S))
               /\ Closed(v, S).open = openTools
               /\ \A i \in Closed(v, S).open : v.blocks[i + 1].kind = "tool_use"
  BY <1>1, StopAllReads
<1>3. PICK u : u = Closed(v, S)
  OBVIOUS
<1>4. u \in View /\ u.phase = "streaming" /\ u.blocks = v.blocks
  BY <1>1, <1>3, ClosedTyping
<1>5. PICK w : w = Opened(u, k, id)
  OBVIOUS
<1>6. Reads(start, u, w) /\ w \in View
  BY <1>1, <1>2, <1>3, <1>4, <1>5, ReadsStart
<1>7. start \in Seq(EventType)
  <2>1. Event("block_start", nextIndex, k, id) \in EventType
    BY <1>1 DEF Event, EventType, ConverterTypeOK
  <2> QED
    BY <2>1, OneEvent
<1>8. Reads(StopAllTextOrThinking \o start, v, w)
  BY <1>1, <1>2, <1>3, <1>6, <1>7, StopAllTyping, ReadsConcat
<1>9. Extends(v, w) /\ w.blocks[nextIndex + 1] = [kind |-> k, tool |-> id]
  BY <1>1, <1>3, <1>5, ExtendsTyping
<1>10. /\ w.phase = "streaming" /\ w.open = openTools \cup {nextIndex}
       /\ w.blocks = Append(v.blocks, [kind |-> k, tool |-> id])
  BY <1>1, <1>2, <1>3, <1>4, <1>5 DEF Opened
<1>11. Len(w.blocks) = nextIndex + 1
  BY <1>1, <1>10
<1> QED
  BY <1>6, <1>8, <1>9, <1>10, <1>11

\* What stays of the view when a block was opened: the tool calls in it.
LEMMA ToolsStay ==
    ASSUME ConverterTypeOK, NEW v \in View, NEW w \in View, Mirrors(v), Extends(v, w),
           NEW i \in openTools
    PROVE  /\ i \in Nat /\ i < nextIndex /\ i \notin stopped
           /\ w.blocks[i + 1] = v.blocks[i + 1] /\ w.blocks[i + 1].kind = "tool_use"
<1>1. i \in Nat /\ i \in v.open /\ v.blocks[i + 1].kind = "tool_use"
  BY DEF Mirrors, ConverterTypeOK
<1>2. i < nextIndex /\ i \notin stopped /\ nextIndex = Len(v.blocks) /\ nextIndex \in Nat
  BY <1>1 DEF Mirrors, ConverterTypeOK
<1>3. w.blocks[i + 1] = v.blocks[i + 1]
  BY <1>1, <1>2 DEF Extends
<1> QED
  BY <1>1, <1>2, <1>3

\* The start of a tool call, or of one that has a block already (convert.go:722-761).
LEMMA ToolReads ==
    ASSUME ConverterInv, NEW v \in View, Mirrors(v), NEW id \in Tools, NEW x,
           toolMaps, StartToolBlock(id, x)
    PROVE  \E w \in View :
               /\ Reads(pending', v, w) /\ Mirrors(w)' /\ Extends(v, w)
               /\ KnownTool(id, x) = NoBlock =>
                      w.blocks[nextIndex + 1] = [kind |-> "tool_use", tool |-> id]
<1> DEFINE known == KnownTool(id, x)
<1>1. ConverterTypeOK /\ nextIndex \in Nat /\ v.phase = "streaming"
  BY DEF ConverterInv, ConverterTypeOK, Mirrors
<1>2. CASE known # NoBlock
  <2>1. /\ pending' = StopAllTextOrThinking
        /\ content' = [k \in ContentKinds |-> NoBlock]
        /\ UNCHANGED <<nextIndex, openTools, stopped>>
    BY <1>2 DEF StartToolBlock
  <2>2. PICK S : /\ Reads(StopAllTextOrThinking, v, Closed(v, S))
                 /\ Closed(v, S).open = openTools
    BY <1>1, StopAllReads
  <2>3. PICK w : w = Closed(v, S)
    OBVIOUS
  <2>4. w \in View /\ w.phase = "streaming" /\ w.blocks = v.blocks /\ w.open = openTools
    BY <1>1, <2>2, <2>3, ClosedTyping
  <2>5. Mirrors(w)'
    <3>1. \A i \in openTools : i < nextIndex /\ i \notin stopped
      BY DEF Mirrors
    <3> QED
      BY <2>1, <2>4, <3>1 DEF Mirrors
  <2>6. Extends(v, w)
    BY <2>4 DEF Extends, View
  <2> QED
    BY <1>2, <2>1, <2>2, <2>3, <2>4, <2>5, <2>6
<1>3. CASE known = NoBlock
  <2>1. /\ pending' = StopAllTextOrThinking \o <<Event("block_start", nextIndex, "tool_use", id)>>
        /\ content' = [k \in ContentKinds |-> NoBlock]
        /\ nextIndex' = nextIndex + 1
        /\ openTools' = openTools \cup {nextIndex}
        /\ UNCHANGED stopped
    BY <1>3 DEF StartToolBlock, ToolStart
  <2>2. PICK w \in View :
            /\ Reads(pending', v, w)
            /\ Extends(v, w)
            /\ w.phase = "streaming"
            /\ Len(w.blocks) = nextIndex + 1
            /\ w.blocks[nextIndex + 1] = [kind |-> "tool_use", tool |-> id]
            /\ w.open = openTools \cup {nextIndex}
    <3>1. "tool_use" \in BlockKinds
      BY DEF BlockKinds
    <3> QED
      BY <2>1, <3>1, OpeningReads
  <2>3. Mirrors(w)'
    <3>1. \A i \in openTools : i \in Nat /\ i < nextIndex /\ i \notin stopped
                               /\ w.blocks[i + 1].kind = "tool_use"
      BY <1>1, <2>2, ToolsStay
    <3>2. nextIndex \notin stopped
      BY <1>1, OpenContent
    <3>3. \A i \in openTools' : /\ i \in w.open /\ i < nextIndex' /\ i \notin stopped'
                                /\ w.blocks[i + 1].kind = "tool_use"
      BY <1>1, <2>1, <2>2, <3>1, <3>2
    <3>4. \A i \in stopped' : i < nextIndex'
      BY <1>1, <2>1 DEF Mirrors, ConverterTypeOK
    <3>5. \A k \in ContentKinds : content'[k] = NoBlock
      BY <2>1
    <3> QED
      BY <2>1, <2>2, <3>3, <3>4, <3>5 DEF Mirrors
  <2> QED
    BY <2>2, <2>3
<1> QED
  BY <1>2, <1>3

\* A redacted block (convert.go:959-979).
LEMMA RedactedReads ==
    ASSUME ConverterInv, NEW v \in View, Mirrors(v), started, HandleRedacted
    PROVE  \E w \in View : /\ Reads(pending', v, w) /\ Mirrors(w)' /\ Extends(v, w)
                           /\ w.open = openTools
<1>1. ConverterTypeOK /\ nextIndex \in Nat /\ v.phase = "streaming"
  BY DEF ConverterInv, ConverterTypeOK, Mirrors
<1> DEFINE start == Event("block_start", nextIndex, "redacted_thinking", NoID)
           stop == BlockStop(nextIndex)
<1>2. /\ pending' = StopAllTextOrThinking \o <<start, stop>>
      /\ content' = [k \in ContentKinds |-> NoBlock]
      /\ nextIndex' = nextIndex + 1
      /\ stopped' = stopped \cup {nextIndex}
      /\ UNCHANGED openTools
  BY DEF HandleRedacted, BlockStart
<1>3. PICK u \in View :
          /\ Reads(StopAllTextOrThinking \o <<start>>, v, u)
          /\ Extends(v, u)
          /\ u.phase = "streaming"
          /\ Len(u.blocks) = nextIndex + 1
          /\ u.blocks[nextIndex + 1] = [kind |-> "redacted_thinking", tool |-> NoID]
          /\ u.open = openTools \cup {nextIndex}
  <2>1. "redacted_thinking" \in BlockKinds /\ NoID \in Tools
    BY DEF BlockKinds, Tools
  <2> QED
    BY <2>1, OpeningReads
<1>4. start \in EventType /\ stop \in EventType
  BY <1>1, EventTyping DEF BlockStart, BlockKinds
<1>5. PICK w : w = Closed(u, {nextIndex})
  OBVIOUS
<1>6. /\ Reads(<<stop>>, u, w) /\ w \in View
      /\ w.phase = "streaming" /\ w.blocks = u.blocks /\ w.open = u.open \ {nextIndex}
  BY <1>3, <1>4, <1>5, StopAccepted, ReadsOne, ClosedTyping
<1>7. Reads(pending', v, w)
  <2> HIDE DEF start, stop
  <2>1. StopAllTextOrThinking \in Seq(EventType) /\ <<start>> \in Seq(EventType)
        /\ <<stop>> \in Seq(EventType)
    BY <1>1, <1>4, StopAllTyping, OneEvent
  <2>2. StopAllTextOrThinking \o <<start, stop>> = (StopAllTextOrThinking \o <<start>>) \o <<stop>>
    <3>1. <<start, stop>> = <<start>> \o <<stop>>
      BY <1>4, TwoConcat
    <3> QED
      BY <2>1, <3>1, ConcatAssociative
  <2>3. StopAllTextOrThinking \o <<start>> \in Seq(EventType)
    BY <2>1, ConcatTyping
  <2> QED
    BY <1>2, <1>3, <1>6, <2>1, <2>2, <2>3, ReadsConcat
<1>8. \A i \in openTools : i \in Nat /\ i < nextIndex /\ i \notin stopped
                           /\ u.blocks[i + 1].kind = "tool_use"
  BY <1>1, <1>3, ToolsStay
<1>9. w.open = openTools
  <2>1. nextIndex \notin openTools
    BY <1>1, <1>8
  <2> QED
    BY <1>3, <1>6, <2>1
<1>10. Mirrors(w)'
  <2>1. \A i \in stopped' : i < nextIndex'
    BY <1>1, <1>2 DEF Mirrors, ConverterTypeOK
  <2>2. \A i \in openTools' : i < nextIndex' /\ i \notin stopped'
    BY <1>1, <1>2, <1>8
  <2>3. \A k \in ContentKinds : content'[k] = NoBlock
    BY <1>2
  <2>4. \A i \in openTools : w.blocks[i + 1].kind = "tool_use"
    BY <1>6, <1>8
  <2> QED
    BY <1>2, <1>3, <1>6, <1>9, <2>1, <2>2, <2>3, <2>4 DEF Mirrors
<1>11. Extends(v, w)
  BY <1>3, <1>6 DEF Extends
<1> QED
  BY <1>6, <1>7, <1>9, <1>10, <1>11

\* A fragment that goes to the open block of its tool call (convert.go:763-794).
LEMMA ToolDeltaReads ==
    ASSUME NEW v \in View, Mirrors(v), NEW x, NEW id \in Tools, HandleToolDelta(x, id),
           ToolDeltaIndex(x) \in v.open,
           v.blocks[ToolDeltaIndex(x) + 1] = [kind |-> "tool_use", tool |-> id]
    PROVE  Reads(pending', v, v) /\ Mirrors(v)'
<1>1. Reads(<<Event("block_delta", ToolDeltaIndex(x), "tool_use", id)>>, v, v)
  BY ReadsDelta DEF Mirrors
<1>2. Mirrors(v)'
  BY DEF HandleToolDelta, Mirrors
<1> QED
  BY <1>1, <1>2 DEF HandleToolDelta, ToolDelta

\* Usage, metadata and a finish reason (convert.go:589-594, 909-958).
LEMMA PassedOnReads ==
    ASSUME NEW v \in View, Mirrors(v), HandleUsage \/ HandleMetadata
    PROVE  Reads(pending', v, v) /\ Mirrors(v)'
<1>1. Mirrors(v)'
  BY DEF HandleUsage, HandleMetadata, Mirrors
<1> QED
  BY <1>1, ReadsPassed DEF HandleUsage, HandleMetadata, Mirrors

\* The stop of a block that was started: the client is told unless the block is
\* closed already, and the index is spent (convert.go:990-1023).
LEMMA BlockStopReads ==
    ASSUME ConverterInv, NEW v \in View, Mirrors(v), started, pending = <<>>,
           NEW i \in Nat \cup {NoIndex}, i # NoIndex => i < nextIndex, HandleBlockStop(i)
    PROVE  \E w \in View :
               /\ Reads(pending', v, w) /\ Mirrors(w)'
               /\ w.blocks = v.blocks
               /\ w.open = IF i = NoIndex \/ i \in stopped THEN v.open ELSE v.open \ {i}
<1>1. ConverterTypeOK /\ v.phase = "streaming"
  BY DEF ConverterInv, Mirrors
<1>2. CASE i = NoIndex \/ i \in stopped
  <2>1. UNCHANGED converterVars
    BY <1>2 DEF HandleBlockStop, Ignore
  <2>2. Mirrors(v)' /\ pending' = <<>>
    BY <2>1 DEF converterVars, Mirrors
  <2> QED
    BY <1>2, <2>2, ReadsNothing
<1>3. CASE i # NoIndex /\ i \notin stopped
  <2> DEFINE text == content["text"]
             thinking == content["thinking"]
             A == StoppedIf(i \in openTools, i)
             B == StoppedIf(text = i, i)
             C == StoppedIf(thinking = i, i)
  <2>1. /\ pending' = StopIf(i \in openTools, i) \o StopIf(text = i, i) \o StopIf(thinking = i, i)
        /\ openTools' = openTools \ {i}
        /\ content' = [k \in ContentKinds |-> IF content[k] = i THEN NoBlock ELSE content[k]]
        /\ stopped' = stopped \cup {i}
        /\ UNCHANGED nextIndex
    BY <1>3 DEF HandleBlockStop
  <2>2. i \in Nat /\ i < nextIndex
    BY <1>3
  <2>3. /\ i \in openTools => i \in v.open /\ text # i /\ thinking # i
        /\ text = i => i \in v.open /\ i \notin openTools /\ thinking # i
        /\ thinking = i => i \in v.open /\ i \notin openTools /\ text # i
    BY <1>1, <2>2, OpenContent DEF Mirrors, ContentKinds, NoBlock
  <2>4. PICK u : u = Closed(v, A)
    OBVIOUS
  <2>5. PICK t : t = Closed(u, B)
    OBVIOUS
  <2>6. PICK w : w = Closed(t, C)
    OBVIOUS
  <2>7. u \in View /\ u.phase = "streaming" /\ u.blocks = v.blocks /\ u.open = v.open \ A
    BY <1>1, <2>4, ClosedTyping
  <2>8. t \in View /\ t.phase = "streaming" /\ t.blocks = v.blocks /\ t.open = u.open \ B
    BY <2>5, <2>7, ClosedTyping
  <2>9. w \in View /\ w.phase = "streaming" /\ w.blocks = v.blocks /\ w.open = t.open \ C
    BY <2>6, <2>8, ClosedTyping
  <2>10. Reads(StopIf(i \in openTools, i), v, u) /\ StopIf(i \in openTools, i) \in Seq(EventType)
    <3>1. (i \in openTools) \in BOOLEAN
      OBVIOUS
    <3> QED
      BY <1>1, <2>3, <2>4, <3>1, ReadsStopIf, Zenon
  <2>11. Reads(StopIf(text = i, i), u, t) /\ StopIf(text = i, i) \in Seq(EventType)
    <3>1. text = i => i \in u.open
      BY <2>3, <2>7 DEF StoppedIf
    <3> QED
      BY <2>5, <2>7, <3>1, ReadsStopIf
  <2>12. Reads(StopIf(thinking = i, i), t, w) /\ StopIf(thinking = i, i) \in Seq(EventType)
    <3>1. thinking = i => i \in t.open
      BY <2>3, <2>7, <2>8 DEF StoppedIf
    <3> QED
      BY <2>6, <2>8, <3>1, ReadsStopIf
  <2>13. Reads(pending', v, w)
    <3>1. /\ Reads(StopIf(i \in openTools, i) \o StopIf(text = i, i), v, t)
          /\ StopIf(i \in openTools, i) \o StopIf(text = i, i) \in Seq(EventType)
      BY <2>10, <2>11, ReadsConcat, ConcatTyping
    <3> QED
      BY <2>1, <2>12, <3>1, ReadsConcat
  <2>14. w.open = v.open \ {i}
    <3>1. w.open = v.open \ (A \cup B \cup C)
      BY <2>7, <2>8, <2>9
    <3>2. A \cup B \cup C \subseteq {i}
      BY DEF StoppedIf
    <3>3. i \in v.open => i \in A \cup B \cup C
      <4>1. i \in v.open => i \in openTools \/ text = i \/ thinking = i
        BY DEF Mirrors, ContentKinds
      <4> QED
        BY <4>1 DEF StoppedIf
    <3> QED
      BY <3>1, <3>2, <3>3
  <2>15. Mirrors(w)'
    <3>1. \A k \in ContentKinds : content'[k] # NoBlock =>
              content'[k] = content[k] /\ content[k] # i /\ content[k] # NoBlock
      BY <2>1
    <3>2. \A k \in ContentKinds : content'[k] # NoBlock =>
              content'[k] \in w.open /\ w.blocks[content'[k] + 1] = [kind |-> k, tool |-> NoID]
      BY <2>9, <2>14, <3>1 DEF Mirrors
    <3>3. \A j \in openTools' : j \in w.open /\ w.blocks[j + 1].kind = "tool_use"
      BY <2>1, <2>9, <2>14 DEF Mirrors
    <3>4. ASSUME NEW j \in w.open
          PROVE  j < nextIndex' /\ j \notin stopped'
                 /\ (j \in openTools' \/ \E k \in ContentKinds : content'[k] = j)
      <4>1. j \in v.open /\ j # i
        BY <2>14
      <4>2. j < nextIndex' /\ j \notin stopped'
        BY <2>1, <4>1 DEF Mirrors
      <4>3. CASE j \in openTools
        BY <2>1, <4>1, <4>2, <4>3
      <4>4. CASE \E k \in ContentKinds : content[k] = j
        BY <2>1, <4>1, <4>2, <4>4
      <4> QED
        BY <4>1, <4>3, <4>4 DEF Mirrors
    <3>5. \A j \in stopped' : j < nextIndex'
      BY <2>1, <2>2 DEF Mirrors
    <3> QED
      BY <2>1, <2>9, <3>2, <3>3, <3>4, <3>5 DEF Mirrors
  <2> QED
    BY <1>3, <2>9, <2>13, <2>14, <2>15
<1> QED
  BY <1>2, <1>3

\* The end of the message: every block is stopped that is still open, in whatever
\* order they were started, then comes the stop reason (convert.go:1025-1067).
LEMMA EndReads ==
    ASSUME ConverterInv, NEW v \in View, Mirrors(v), NEW prefix \in {<<>>, <<Message("error")>>},
           HandleStop(prefix)
    PROVE  \E w \in View : Reads(pending', v, w) /\ w.phase = "ended"
<1> DEFINE text == content["text"]
           thinking == content["thinking"]
           A == StoppedIf(thinking # NoBlock /\ thinking \notin stopped, thinking)
           B == StoppedIf(text # NoBlock /\ text \notin stopped, text)
           S == openTools \ stopped
           stopA == StopIf(thinking # NoBlock /\ thinking \notin stopped, thinking)
           stopB == StopIf(text # NoBlock /\ text \notin stopped, text)
           final == <<MessageDelta(StopReason), Message("message_stop")>>
<1>1. ConverterTypeOK /\ v.phase = "streaming" /\ IsFiniteSet(openTools)
  BY DEF ConverterInv, Mirrors
<1>2. PICK tools \in Ascending(S) :
          pending' = prefix \o stopA \o stopB
              \o [p \in 1..Cardinality(S) |-> BlockStop(tools[p])] \o final
  BY DEF HandleStop
<1> DEFINE stops == [p \in 1..Cardinality(S) |-> BlockStop(tools[p])]
<1>3. Reads(prefix, v, v) /\ prefix \in Seq(EventType)
  <2>1. Reads(<<>>, v, v) /\ <<>> \in Seq(EventType)
    BY ReadsNothing
  <2>2. Reads(<<Message("error")>>, v, v) /\ <<Message("error")>> \in Seq(EventType)
    BY <1>1, ReadsPassed, EventTyping, OneEvent
  <2>3. prefix = <<>> \/ prefix = <<Message("error")>>
    OBVIOUS
  <2> QED
    BY <2>1, <2>2, <2>3
<1>4. PICK u : u = Closed(v, A)
  OBVIOUS
<1>5. PICK t : t = Closed(u, B)
  OBVIOUS
<1>6. PICK w : w = Closed(t, S)
  OBVIOUS
<1>7. u \in View /\ u.phase = "streaming" /\ u.open = v.open \ A
  BY <1>1, <1>4, ClosedTyping
<1>8. t \in View /\ t.phase = "streaming" /\ t.open = u.open \ B
  BY <1>5, <1>7, ClosedTyping
<1>9. w \in View /\ w.phase = "streaming" /\ w.open = t.open \ S
  BY <1>6, <1>8, ClosedTyping
<1>10. Reads(stopA, v, u) /\ stopA \in Seq(EventType)
  BY <1>1, <1>4, OpenContent, ReadsStopIf
<1>11. Reads(stopB, u, t) /\ stopB \in Seq(EventType)
  <2>1. text # NoBlock /\ text \notin stopped => text \in u.open
    BY <1>1, <1>7, OpenContent DEF StoppedIf
  <2> QED
    BY <1>5, <1>7, <2>1, ReadsStopIf
<1>12. S \subseteq t.open
  <2>1. ASSUME NEW i \in S PROVE i \in t.open
    <3>1. i \in v.open /\ i # text /\ i # thinking
      BY <1>1, OpenContent DEF Mirrors, ContentKinds, ConverterTypeOK, NoBlock
    <3> QED
      BY <1>7, <1>8, <3>1 DEF StoppedIf
  <2> QED
    BY <2>1
<1>13. Reads(stops, t, w) /\ stops \in Seq(EventType)
  <2>1. IsFiniteSet(S)
    BY <1>1, FS_Subset
  <2> HIDE DEF S
  <2> QED
    BY <1>2, <1>6, <1>8, <1>12, <2>1, ReadsStops
<1>14. w.open = {}
  <2>1. \A i \in v.open : i \in Nat /\ i \notin stopped /\ (i \in openTools \/ i = text \/ i = thinking)
    BY DEF Mirrors, ContentKinds, View
  <2>2. \A i \in v.open : i \in A \cup B \cup S
    BY <2>1 DEF StoppedIf, NoBlock
  <2> HIDE DEF A, B, S
  <2> QED
    BY <1>7, <1>8, <1>9, <2>2
<1>15. Reads(final, w, Ended(w, StopReason)) /\ Ended(w, StopReason) \in View /\ final \in Seq(EventType)
  BY <1>1, <1>9, <1>14, StopReasonTyping, ReadsEnd
<1>16. Reads(pending', v, Ended(w, StopReason))
  <2> HIDE DEF stopA, stopB, stops, final
  <2>1. Reads(prefix \o stopA, v, u) /\ prefix \o stopA \in Seq(EventType)
    BY <1>3, <1>10, ReadsConcat, ConcatTyping
  <2>2. Reads(prefix \o stopA \o stopB, v, t) /\ prefix \o stopA \o stopB \in Seq(EventType)
    BY <1>11, <2>1, ReadsConcat, ConcatTyping
  <2>3. /\ Reads(prefix \o stopA \o stopB \o stops, v, w)
        /\ prefix \o stopA \o stopB \o stops \in Seq(EventType)
    BY <1>13, <2>2, ReadsConcat, ConcatTyping
  <2>4. Reads(prefix \o stopA \o stopB \o stops \o final, v, Ended(w, StopReason))
    BY <1>15, <2>3, ReadsConcat
  <2>5. pending' = prefix \o stopA \o stopB \o stops \o final
    BY <1>2 DEF stopA, stopB, stops, final
  <2> QED
    BY <2>4, <2>5
<1> QED
  BY <1>15, <1>16 DEF Ended
==============================================================================
