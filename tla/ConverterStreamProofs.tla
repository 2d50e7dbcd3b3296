------------------------- MODULE ConverterStreamProofs -------------------------
(***************************************************************************)
(* Proofs about the converter between any provider and a strict client, for *)
(* every set of tool ids and indexes and every bound on the blocks.        *)
(***************************************************************************)
EXTENDS ConverterStream, StreamConverterProofs

-----------------------------------------------------------------------------
(* Type correctness of the whole stream. *)

TypeInv == TypeOK /\ IsFiniteSet(openTools)

\* The first state is well formed.
LEMMA InitTyping == Init => TypeInv
<1> SUFFICES ASSUME Init PROVE TypeInv
  OBVIOUS
<1> USE DEF Init
<1>1. ConverterInv
  BY ConverterInitTyping
<1>2. ClientTypeOK(BlockType, StopReasons)
  BY DEF ClientInit, ClientTypeOK
<1>3. SourceTypeOK
  BY DEF SourceTypeOK, Unset
<1>4. QED
  BY <1>1, <1>2, <1>3 DEF TypeInv, TypeOK, ConverterInv

\* A provider's step that leaves the client alone is typed when the converter's
\* part of it is and the provider's variables are.
LEMMA OfferTyping ==
    ASSUME TypeInv, UNCHANGED clientVars, ConverterInv', SourceTypeOK'
    PROVE  TypeInv'
  BY DEF TypeInv, TypeOK, ConverterInv, clientVars, ClientTypeOK

\* A provider's event, converted, leaves everything well formed.
LEMMA ConvertTyping ==
    ASSUME ConverterAssumption, StreamAssumption, TypeInv, Convert
    PROVE  TypeInv'
<1> USE DEF TypeInv, TypeOK
<1>1. ConverterInv /\ SourceTypeOK
  BY DEF ConverterInv
<1>2. UNCHANGED clientVars
  BY DEF Convert, Ready, ProviderStart, ProviderUsage, ProviderMetadata, ProviderStop,
         ProviderError, ProviderDone, FrameContent, FrameTool, FrameRedacted, FrameDropped,
         FrameDelta, FrameStop, ImplicitContent, ImplicitTool, ImplicitAnonymousTool,
         ImplicitFragment
<1>3. ConverterInv' /\ SourceTypeOK'
  <2>1. CASE ProviderStart
    BY <1>1, <2>1, StartTyping DEF ProviderStart, Ready, SourceTypeOK
  <2>2. CASE ProviderUsage \/ ProviderMetadata
    BY <1>1, <2>2, PassedOnTyping DEF ProviderUsage, ProviderMetadata, sourceVars, SourceTypeOK
  <2>3. ASSUME NEW r \in ProviderReasons, ProviderStop(r)
        PROVE  ConverterInv' /\ SourceTypeOK'
    BY <1>1, <2>3, RecordTyping DEF ProviderStop, SourceTypeOK
  <2>4. CASE ProviderError
    BY <1>1, <2>4, ErrorTyping DEF ProviderError, SourceTypeOK
  <2>5. CASE ProviderDone
    BY <1>1, <2>5, DoneTyping DEF ProviderDone, SourceTypeOK
  <2>6. ASSUME NEW k \in ContentKinds, FrameContent(k)
        PROVE  ConverterInv' /\ SourceTypeOK'
    BY <1>1, <2>6, ContentTyping DEF FrameContent, SourceTypeOK, BlockKinds
  <2>7. ASSUME NEW id \in ToolIDs, FrameTool(id)
        PROVE  ConverterInv' /\ SourceTypeOK'
    BY <1>1, <2>7, ToolTyping DEF FrameTool, SourceTypeOK, BlockKinds, Tools
  <2>8. CASE FrameRedacted
    BY <1>1, <2>8, RedactedTyping DEF FrameRedacted, SourceTypeOK, BlockKinds
  <2>9. ASSUME NEW d \in Dropped, FrameDropped(d)
        PROVE  ConverterInv' /\ SourceTypeOK'
    BY <1>1, <2>9 DEF FrameDropped, Ignore, converterVars, ConverterInv, ConverterTypeOK,
                      SourceTypeOK, StreamAssumption
  <2>10. CASE FrameDelta
    <3>1. ConverterInv'
      <4>1. CASE frame \in ContentKinds /\ HandleContent(frame, TRUE)
        BY <1>1, <4>1, ContentTyping
      <4>2. CASE frame = "tool_use" /\ HandleToolDelta(NoIndex, lastTool)
        BY <1>1, <4>2, ToolDeltaTyping DEF SourceTypeOK, Tools
      <4>3. CASE frame = "fed" /\ HandleToolDelta(NoIndex, NoTool)
        BY <1>1, <4>3, ToolDeltaTyping
      <4>4. QED
        BY <2>10, <4>1, <4>2, <4>3 DEF FrameDelta
    <3>2. SourceTypeOK'
      BY <1>1, <2>10 DEF FrameDelta, SourceTypeOK
    <3>3. QED
      BY <3>1, <3>2
  <2>11. CASE FrameStop
    <3>1. ConverterInv'
      BY <1>1, <2>11, BlockStopTyping DEF FrameStop, SourceTypeOK
    <3>2. SourceTypeOK'
      BY <1>1, <2>11 DEF FrameStop, SourceTypeOK
    <3>3. QED
      BY <3>1, <3>2
  <2>12. ASSUME NEW k \in ContentKinds, NEW d \in BOOLEAN, ImplicitContent(k, d)
         PROVE  ConverterInv' /\ SourceTypeOK'
    BY <1>1, <2>12, ContentTyping DEF ImplicitContent, sourceVars, SourceTypeOK
  <2>13. ASSUME NEW id \in ToolIDs, NEW x \in ToolIndexes \cup {NoIndex}, ImplicitTool(id, x)
         PROVE  ConverterInv' /\ SourceTypeOK'
    BY <1>1, <2>13, ToolTyping DEF ImplicitTool, SourceTypeOK, Tools
  <2>14. CASE ImplicitAnonymousTool
    BY <1>1, <2>14, ToolTyping DEF ImplicitAnonymousTool, SourceTypeOK, Tools
  <2>15. ASSUME NEW id \in ToolIDs \cup {NoID}, ImplicitFragment(id)
         PROVE  ConverterInv' /\ SourceTypeOK'
    <3>1. ConverterInv'
      BY <1>1, <2>15, ToolDeltaTyping DEF ImplicitFragment, Tools
    <3>2. SourceTypeOK'
      BY <1>1, <2>15 DEF ImplicitFragment, sourceVars, SourceTypeOK
    <3>3. QED
      BY <3>1, <3>2
  <2>16. QED
    BY <2>1, <2>2, <2>3, <2>4, <2>5, <2>6, <2>7, <2>8, <2>9, <2>10, <2>11, <2>12, <2>13,
       <2>14, <2>15 DEF Convert
<1>4. QED
  BY <1>2, <1>3, OfferTyping

\* A client that is handed an event stays well formed.
LEMMA EmitTyping ==
    ASSUME TypeInv, Emit
    PROVE  TypeInv'
<1> DEFINE e == Head(pending)
<1> USE DEF TypeInv, TypeOK
<1>1. e \in EventType /\ Tail(pending) \in Seq(EventType)
  BY HeadTailProperties DEF Emit, ConverterTypeOK
<1>2. ConverterTypeOK'
  BY <1>1 DEF Emit, ConverterTypeOK
<1>3. SourceTypeOK'
  BY DEF Emit, sourceVars, SourceTypeOK
<1>4. ClientTypeOK(BlockType, StopReasons)'
  BY <1>1, ReceiveTyping DEF Emit
<1>5. IsFiniteSet(openTools)'
  BY DEF Emit
<1>6. QED
  BY <1>2, <1>3, <1>4, <1>5

\* A step that changes nothing keeps the types.
LEMMA StutterTyping ==
    ASSUME TypeInv, UNCHANGED vars
    PROVE  TypeInv'
  BY DEF TypeInv, TypeOK, vars, converterVars, clientVars, sourceVars, ConverterTypeOK,
         ClientTypeOK, SourceTypeOK

\* In every behaviour of the stream, however many blocks and tool calls it has,
\* the converter's bookkeeping, the events and the client's view are well formed:
\* block indexes are natural numbers and stop reasons ones the client knows.
THEOREM TypeInvariant == Spec => []TypeInv
<1>1. TypeInv /\ [Next]_vars => TypeInv'
  BY ConverterAssumption, StreamAssumption, ConvertTyping, EmitTyping, StutterTyping DEF Next
<1>2. QED
  BY <1>1, InitTyping, PTL DEF Spec

\* The values of the converter, the client and the provider are of their types in
\* every state (convert.go:508-527).
THEOREM TypeCorrect == Spec => []TypeOK
<1>1. TypeInv => TypeOK
  BY DEF TypeInv
<1>2. QED
  BY <1>1, TypeInvariant, PTL

-----------------------------------------------------------------------------
(* No call of Convert panics. *)

LEMMA ToolStartLives ==
    ASSUME NEW id, NEW x, StartToolBlock(id, x)
    PROVE  /\ UNCHANGED <<started, toolMaps, stopHandled>>
           /\ toolMaps => UNCHANGED crashed
  BY Zenon DEF StartToolBlock, Panic

\* A converter that was started stops a block without a panic.
LEMMA BlockStopLives ==
    ASSUME NEW i, HandleBlockStop(i)
    PROVE  /\ UNCHANGED <<started, toolMaps, stopHandled>>
           /\ started => UNCHANGED crashed
  BY Zenon DEF HandleBlockStop, Panic, Ignore, converterVars

\* The end of the message drops the tool maps.
LEMMA EndLives ==
    ASSUME LiveInv, ProviderError \/ ProviderDone
    PROVE  LiveInv'
<1>1. /\ ~crashed /\ crashed' = crashed /\ source' # "live"
      /\ source' = "babbling" => source \in Sending /\ ProviderError
  BY DEF ProviderError, ProviderDone, HandleError, HandleDone, HandleStop, Ignore, converterVars,
         Ready
<1>2. source' = "babbling" => ~toolMaps'
  <2>1. SUFFICES ASSUME source' = "babbling" PROVE ~toolMaps'
    OBVIOUS
  <2>2. CASE started /\ ~stopHandled
    BY <1>1, <2>1, <2>2 DEF ProviderError, HandleError, HandleStop
  <2>3. CASE ~started \/ stopHandled
    <3>1. source = "babbling"
      BY <1>1, <2>1, <2>3 DEF LiveInv, Sending
    <3>2. QED
      BY <1>1, <2>1, <2>3, <3>1 DEF LiveInv, ProviderError, HandleError
  <2>4. QED
    BY <2>2, <2>3
<1>3. QED
  BY <1>1, <1>2 DEF LiveInv, NoPanic

\* Content leaves the tool maps as they are, and with the maps in place it does
\* not make Convert panic.
LEMMA ContentLives ==
    ASSUME LiveInv, Ready(Sending), source' = source,
           UNCHANGED <<started, toolMaps, stopHandled>>,
           started /\ toolMaps => UNCHANGED crashed
    PROVE  LiveInv'
  BY DEF LiveInv, NoPanic, Babble, Ready, Sending

\* Every step keeps LiveInv.
LEMMA LiveInvStep ==
    ASSUME LiveInv, [Next]_vars
    PROVE  LiveInv'
<1> DEFINE Lives == /\ UNCHANGED <<started, toolMaps, stopHandled>>
                    /\ started /\ toolMaps => UNCHANGED crashed
<1>1. CASE Convert
  <2> USE <1>1
  <2>1. CASE ProviderStart
    BY <2>1 DEF ProviderStart, HandleStart, LiveInv, NoPanic, Ready
  <2>2. CASE ProviderUsage \/ ProviderMetadata
    BY <2>2, ContentLives DEF ProviderUsage, ProviderMetadata, HandleUsage, HandleMetadata, sourceVars
  <2>3. ASSUME NEW r \in ProviderReasons, ProviderStop(r)
        PROVE  LiveInv'
    BY <2>3 DEF ProviderStop, RecordFinishReason, LiveInv, NoPanic, Babble
  <2>4. CASE ProviderError \/ ProviderDone
    BY <2>4, EndLives
  <2>5. ASSUME NEW k \in ContentKinds, FrameContent(k)
        PROVE  LiveInv'
    BY <2>5, ContentLives DEF FrameContent, HandleContent
  <2>6. ASSUME NEW id \in ToolIDs, FrameTool(id)
        PROVE  LiveInv'
    <3>1. Lives
      BY <2>6, ToolStartLives DEF FrameTool
    <3>2. QED
      BY <2>6, <3>1, ContentLives DEF FrameTool
  <2>7. CASE FrameRedacted
    BY <2>7, ContentLives DEF FrameRedacted, HandleRedacted, Panic
  <2>8. ASSUME NEW d \in Dropped, FrameDropped(d)
        PROVE  LiveInv'
    BY <2>8, ContentLives DEF FrameDropped, Ignore, converterVars
  <2>9. CASE FrameDelta
    BY <2>9, ContentLives DEF FrameDelta, HandleContent, HandleToolDelta
  <2>10. CASE FrameStop
    <3>1. Lives
      BY <2>10, BlockStopLives DEF FrameStop
    <3>2. QED
      BY <2>10, <3>1, ContentLives DEF FrameStop
  <2>11. ASSUME NEW k \in ContentKinds, NEW d \in BOOLEAN, ImplicitContent(k, d)
         PROVE  LiveInv'
    BY <2>11, ContentLives DEF ImplicitContent, HandleContent, sourceVars
  <2>12. ASSUME NEW id \in ToolIDs, NEW x \in ToolIndexes \cup {NoIndex}, ImplicitTool(id, x)
         PROVE  LiveInv'
    <3>1. Lives
      BY <2>12, ToolStartLives DEF ImplicitTool
    <3>2. QED
      BY <2>12, <3>1, ContentLives DEF ImplicitTool
  <2>13. CASE ImplicitAnonymousTool
    <3>1. Lives
      BY <2>13, ToolStartLives DEF ImplicitAnonymousTool
    <3>2. Ready(Sending)
      BY <2>13 DEF ImplicitAnonymousTool, Ready, Sending
    <3>3. QED
      BY <2>13, <3>1, <3>2, ContentLives DEF ImplicitAnonymousTool
  <2>14. ASSUME NEW id \in ToolIDs \cup {NoID}, ImplicitFragment(id)
         PROVE  LiveInv'
    BY <2>14, ContentLives DEF ImplicitFragment, HandleToolDelta, sourceVars
  <2>15. QED
    BY <2>1, <2>2, <2>3, <2>4, <2>5, <2>6, <2>7, <2>8, <2>9, <2>10, <2>11, <2>12, <2>13,
       <2>14 DEF Convert
<1>2. CASE Emit
  BY <1>2 DEF Emit, sourceVars, LiveInv, NoPanic, Babble
<1>3. CASE UNCHANGED vars
  BY <1>3 DEF vars, converterVars, sourceVars, LiveInv, NoPanic, Babble
<1>4. QED
  BY <1>1, <1>2, <1>3 DEF Next

\* The tool maps exist for as long as the provider is live, and never once it reads
\* on after an error (convert.go:611-654, 1025-1067).
LEMMA Lively == Spec => []LiveInv
<1>1. Init => LiveInv
  BY DEF Init, ConverterInit, LiveInv, NoPanic
<1>2. LiveInv /\ [Next]_vars => LiveInv'
  BY LiveInvStep
<1>3. QED
  BY <1>1, <1>2, PTL DEF Spec

\* No provider makes the converter write to a map that handleStart has not made
\* or that handleStop has dropped, whatever it sends between its start and its
\* end; only one that goes on sending after an error can (convert.go:611-667,
\* 722-761, 990-1023, 1025-1067).
THEOREM NeverPanics == Spec => []NoPanic
<1>1. LiveInv => NoPanic
  BY DEF LiveInv
<1>2. QED
  BY <1>1, Lively, PTL

-----------------------------------------------------------------------------
(* The events of a batch as a set. *)

LEMMA ElementsOfTail ==
    ASSUME NEW s \in Seq(EventType), s # <<>>
    PROVE  Elements(s) = {Head(s)} \cup Elements(Tail(s))
<1>1. /\ Len(s) \in Nat \ {0}
      /\ Len(Tail(s)) = Len(s) - 1
      /\ \A i \in 1..Len(Tail(s)) : Tail(s)[i] = s[i + 1]
      /\ Tail(s) \in Seq(EventType)
  BY HeadTailProperties, EmptySeq
<1>2. DOMAIN s = 1..Len(s) /\ DOMAIN Tail(s) = 1..(Len(s) - 1)
  BY <1>1, LenProperties
<1>3. Head(s) = s[1]
  OBVIOUS
<1>4. ASSUME NEW p \in 1..Len(s)
      PROVE  s[p] \in {Head(s)} \cup Elements(Tail(s))
  <2>1. CASE p = 1
    BY <1>3, <2>1
  <2>2. CASE p # 1
    <3>1. p - 1 \in 1..(Len(s) - 1) /\ (p - 1) + 1 = p
      BY <1>1, <2>2
    <3>2. Tail(s)[p - 1] = s[p]
      BY <1>1, <3>1
    <3>3. QED
      BY <1>2, <3>1, <3>2 DEF Elements
  <2>3. QED
    BY <2>1, <2>2
<1>5. ASSUME NEW p \in 1..(Len(s) - 1)
      PROVE  Tail(s)[p] \in Elements(s)
  <2>1. p + 1 \in 1..Len(s) /\ Tail(s)[p] = s[p + 1]
    BY <1>1
  <2>2. QED
    BY <1>2, <2>1 DEF Elements
<1>6. Head(s) \in Elements(s)
  BY <1>1, <1>2, <1>3 DEF Elements
<1>7. QED
  BY <1>2, <1>4, <1>5, <1>6 DEF Elements

\* The events of two batches are those of either.
LEMMA ElementsOfConcat ==
    ASSUME NEW s \in Seq(EventType), NEW t \in Seq(EventType)
    PROVE  Elements(s \o t) \subseteq Elements(s) \cup Elements(t)
<1>1. /\ Len(s) \in Nat /\ DOMAIN s = 1..Len(s)
      /\ Len(t) \in Nat /\ DOMAIN t = 1..Len(t)
  BY LenProperties
<1>2. /\ s \o t \in Seq(EventType)
      /\ Len(s \o t) = Len(s) + Len(t)
      /\ \A i \in 1..(Len(s) + Len(t)) : (s \o t)[i] =
             IF i <= Len(s) THEN s[i] ELSE t[i - Len(s)]
  BY ConcatProperties
<1>3. DOMAIN (s \o t) = 1..(Len(s) + Len(t))
  BY <1>2, LenProperties
<1>4. ASSUME NEW i \in 1..(Len(s) + Len(t))
      PROVE  (s \o t)[i] \in Elements(s) \cup Elements(t)
  <2>1. CASE i <= Len(s)
    BY <1>1, <1>2, <2>1 DEF Elements
  <2>2. CASE ~(i <= Len(s))
    <3>1. i - Len(s) \in 1..Len(t)
      BY <1>1, <2>2
    <3>2. QED
      BY <1>1, <1>2, <2>2, <3>1 DEF Elements
  <2>3. QED
    BY <2>1, <2>2
<1>5. QED
  BY <1>3, <1>4 DEF Elements

\* The events of a batch of none, one or two.
LEMMA ElementsOfFew ==
    /\ Elements(<<>>) = {}
    /\ \A e : Elements(<<e>>) = {e}
    /\ \A e, f : Elements(<<e, f>>) = {e, f}
<1>1. Elements(<<>>) = {}
  BY DEF Elements
<1>2. \A e : Elements(<<e>>) = {e}
  BY DEF Elements
<1>3. \A e, f : Elements(<<e, f>>) = {e, f}
  BY DEF Elements
<1>4. QED
  BY <1>1, <1>2, <1>3

-----------------------------------------------------------------------------
(* The stop reason. *)

\* A batch that neither starts a tool call nor announces a stop reason.
Quiet(s) == \A e \in Elements(s) : ~IsFinal(e) /\ ~IsToolStart(e)

\* Two quiet batches make a quiet one.
LEMMA QuietConcat ==
    ASSUME NEW s \in Seq(EventType), NEW t \in Seq(EventType), Quiet(s), Quiet(t)
    PROVE  Quiet(s \o t)
  BY ElementsOfConcat DEF Quiet

\* Few events are quiet when each of them is.
LEMMA QuietFew ==
    /\ Quiet(<<>>)
    /\ \A e : ~IsFinal(e) /\ ~IsToolStart(e) => Quiet(<<e>>)
    /\ \A e, f : ~IsFinal(e) /\ ~IsToolStart(e) /\ ~IsFinal(f) /\ ~IsToolStart(f)
                    => Quiet(<<e, f>>)
<1>1. Quiet(<<>>)
  BY ElementsOfFew DEF Quiet
<1>2. ASSUME NEW e, ~IsFinal(e), ~IsToolStart(e)
      PROVE  Quiet(<<e>>)
  <2>1. Elements(<<e>>) = {e}
    BY ElementsOfFew
  <2>2. QED
    BY <1>2, <2>1, Zenon DEF Quiet
<1>3. ASSUME NEW e, NEW f, ~IsFinal(e), ~IsToolStart(e), ~IsFinal(f), ~IsToolStart(f)
      PROVE  Quiet(<<e, f>>)
  <2>1. Elements(<<e, f>>) = {e, f}
    BY ElementsOfFew
  <2>2. QED
    BY <1>3, <2>1, Zenon DEF Quiet
<1>4. QED
  BY <1>1, <1>2, <1>3, Zenon

\* Stops are quiet.
LEMMA QuietStopIf == \A b \in BOOLEAN : \A i : Quiet(StopIf(b, i))
  BY QuietFew DEF StopIf, BlockStop, Event, IsFinal, IsToolStart

\* So are those of the content blocks.
LEMMA QuietStopAll ==
    ASSUME ConverterTypeOK
    PROVE  Quiet(StopAllTextOrThinking)
<1>1. /\ StopIf(content["thinking"] # NoBlock, content["thinking"]) \in Seq(EventType)
      /\ StopIf(content["text"] # NoBlock, content["text"]) \in Seq(EventType)
  BY StopIfTyping DEF ConverterTypeOK, ContentKinds
<1>2. QED
  BY <1>1, QuietStopIf, QuietConcat DEF StopAllTextOrThinking

\* The part of the converter's state that decides the stop reason.
Settled == UNCHANGED <<started, currentTool, openTools, byIndex, byID, finishReason, stopHandled>>

\* Content neither ends a message nor starts a tool call (convert.go:797-882).
LEMMA ContentQuiet ==
    ASSUME ConverterInv, NEW k \in ContentKinds, NEW d \in BOOLEAN, HandleContent(k, d)
    PROVE  Quiet(pending') /\ Settled
<1> DEFINE idx == IF content[k] # NoBlock THEN content[k] ELSE nextIndex
           delta == IF d THEN <<BlockDelta(idx, k)>> ELSE <<>>
           stop == StopIf(content[Other(k)] # NoBlock, content[Other(k)])
           start == <<BlockStart(nextIndex, k)>>
<1>1. Quiet(delta) /\ Quiet(stop) /\ Quiet(start)
  BY QuietFew, QuietStopIf
     DEF BlockDelta, BlockStart, Event, IsFinal, IsToolStart, ContentKinds
<1>2. delta \in Seq(EventType) /\ stop \in Seq(EventType) /\ start \in Seq(EventType)
  <2>1. idx \in Nat /\ nextIndex \in Nat
    BY DEF ConverterInv, ConverterTypeOK
  <2>2. BlockDelta(idx, k) \in EventType /\ BlockStart(nextIndex, k) \in EventType
    BY <2>1, EventTyping DEF BlockKinds
  <2>3. content[Other(k)] # NoBlock => content[Other(k)] \in Nat
    BY DEF ConverterInv, ConverterTypeOK, Other, ContentKinds
  <2>4. delta \in Seq(EventType)
    BY <2>2
  <2>5. start \in Seq(EventType)
    BY <2>2, OneEvent
  <2>6. stop \in Seq(EventType)
    BY <2>3, StopIfTyping
  <2>7. QED
    BY <2>4, <2>5, <2>6
<1>3. pending' = delta \/ pending' = stop \o start \o delta
  BY DEF HandleContent
<1>4. Quiet(stop \o start \o delta)
  <2> HIDE DEF stop, start, delta
  <2>1. stop \o start \in Seq(EventType)
    BY <1>2, ConcatTyping
  <2>2. QED
    BY <1>1, <1>2, <2>1, QuietConcat
<1>5. Quiet(pending')
  BY <1>1, <1>3, <1>4
<1>6. QED
  BY <1>5 DEF HandleContent, Settled

\* Neither does the stop of a block (convert.go:990-1023).
LEMMA BlockStopQuiet ==
    ASSUME ConverterInv, pending = <<>>, NEW i \in Nat \cup {NoIndex}, HandleBlockStop(i)
    PROVE  /\ Quiet(pending')
           /\ openTools' \subseteq openTools
           /\ UNCHANGED <<started, currentTool, byIndex, byID, finishReason, stopHandled>>
<1>1. CASE Ignore
  BY <1>1, QuietFew DEF Ignore, converterVars
<1>2. CASE Panic
  BY <1>2, QuietFew DEF Panic
<1>3. CASE i # NoIndex /\ ~Ignore /\ ~Panic
  <2> DEFINE tool == StopIf(i \in openTools, i)
             text == StopIf(content["text"] = i, i)
             thinking == StopIf(content["thinking"] = i, i)
  <2>1. tool \in Seq(EventType) /\ text \in Seq(EventType) /\ thinking \in Seq(EventType)
    <3>1. (i \in openTools) \in BOOLEAN /\ i \in Nat
      BY <1>3
    <3>2. QED
      BY <3>1, StopIfTyping, Zenon
  <2>2. Quiet(tool) /\ Quiet(text) /\ Quiet(thinking)
    <3>1. (i \in openTools) \in BOOLEAN
      OBVIOUS
    <3>2. QED
      BY <3>1, QuietStopIf, Zenon
  <2>3. pending' = tool \o text \o thinking
    BY <1>3 DEF HandleBlockStop
  <2>4. Quiet(tool \o text \o thinking)
    <3> HIDE DEF tool, text, thinking
    <3>1. tool \o text \in Seq(EventType)
      BY <2>1, ConcatTyping
    <3>2. QED
      BY <2>1, <2>2, <3>1, QuietConcat
  <2>5. QED
    BY <1>3, <2>3, <2>4 DEF HandleBlockStop
<1>4. QED
  BY <1>1, <1>2, <1>3 DEF HandleBlockStop

\* Neither does a redacted block (convert.go:959-979).
LEMMA RedactedQuiet ==
    ASSUME ConverterInv, HandleRedacted
    PROVE  Quiet(pending') /\ Settled
<1>1. CASE Panic
  BY <1>1, QuietFew DEF Panic, Settled
<1>2. CASE ~Panic
  <2> DEFINE block == <<BlockStart(nextIndex, "redacted_thinking"), BlockStop(nextIndex)>>
  <2>1. nextIndex \in Nat
    BY DEF ConverterInv, ConverterTypeOK
  <2>2. block \in Seq(EventType)
    BY <2>1, EventTyping, TwoEvents DEF BlockKinds
  <2>3. Quiet(block)
    BY QuietFew DEF BlockStart, BlockStop, Event, IsFinal, IsToolStart
  <2>4. StopAllTextOrThinking \in Seq(EventType) /\ Quiet(StopAllTextOrThinking)
    BY StopAllTyping, QuietStopAll DEF ConverterInv
  <2>5. pending' = StopAllTextOrThinking \o block
    BY <1>2 DEF HandleRedacted
  <2>6. QED
    BY <1>2, <2>2, <2>3, <2>4, <2>5, QuietConcat DEF HandleRedacted, Settled
<1>3. QED
  BY <1>1, <1>2

\* Neither do fragments of tool arguments (convert.go:889-902).
LEMMA DeltaQuiet ==
    ASSUME NEW x, NEW id, HandleToolDelta(x, id)
    PROVE  Quiet(pending') /\ Settled
  BY QuietFew DEF HandleToolDelta, ToolDelta, Event, IsFinal, IsToolStart, Settled

\* Neither do usage and metadata (convert.go:909-958).
LEMMA PassedOnQuiet ==
    ASSUME HandleUsage \/ HandleMetadata
    PROVE  Quiet(pending') /\ Settled
  BY QuietFew DEF HandleUsage, HandleMetadata, Message, MessageDelta, Event, IsFinal,
                  IsToolStart, Settled

\* What handleStop sends: nothing that starts, and one final delta.
LEMMA StopElements ==
    ASSUME ConverterInv, NEW prefix \in Seq(EventType), Quiet(prefix), HandleStop(prefix)
    PROVE  \A e \in Elements(pending') :
               ~IsToolStart(e) /\ (IsFinal(e) => e.info = StopReason)
<1> DEFINE thinking == StopIf(content["thinking"] # NoBlock /\ content["thinking"] \notin stopped,
                              content["thinking"])
           text == StopIf(content["text"] # NoBlock /\ content["text"] \notin stopped,
                          content["text"])
           final == <<MessageDelta(StopReason), Message("message_stop")>>
<1>1. PICK tools \in Ascending(openTools \ stopped) :
          pending' = prefix \o thinking \o text
              \o [p \in 1..Cardinality(openTools \ stopped) |-> BlockStop(tools[p])]
              \o final
  BY DEF HandleStop
<1> DEFINE stops == [p \in 1..Cardinality(openTools \ stopped) |-> BlockStop(tools[p])]
<1>2. stops \in Seq(EventType)
  BY ToolStopsTyping
<1>3. thinking \in Seq(EventType) /\ text \in Seq(EventType)
  <2>1. \A k \in ContentKinds :
          /\ (content[k] # NoBlock /\ content[k] \notin stopped) \in BOOLEAN
          /\ content[k] # NoBlock /\ content[k] \notin stopped => content[k] \in Nat
    BY DEF ConverterInv, ConverterTypeOK
  <2>2. QED
    BY <2>1, StopIfTyping DEF ContentKinds
<1>4. final \in Seq(EventType)
  BY EventTyping, StopReasonTyping, TwoEvents DEF ConverterInv
<1>5. Quiet(thinking) /\ Quiet(text)
  BY QuietStopIf
<1>6. Quiet(stops)
  BY DEF Quiet, Elements, BlockStop, Event, IsFinal, IsToolStart
<1>7. \A e \in Elements(final) : ~IsToolStart(e) /\ (IsFinal(e) => e.info = StopReason)
  <2>1. Elements(final) = {MessageDelta(StopReason), Message("message_stop")}
    BY ElementsOfFew
  <2>2. QED
    BY <2>1 DEF MessageDelta, Message, Event, IsFinal, IsToolStart
<1>8. pending' = prefix \o thinking \o text \o stops \o final
  BY <1>1
<1> HIDE DEF thinking, text, stops, final
<1>9. prefix \o thinking \in Seq(EventType) /\ Quiet(prefix \o thinking)
  BY <1>3, <1>5, ConcatTyping, QuietConcat
<1>10. prefix \o thinking \o text \in Seq(EventType) /\ Quiet(prefix \o thinking \o text)
  BY <1>3, <1>5, <1>9, ConcatTyping, QuietConcat
<1>11. /\ prefix \o thinking \o text \o stops \in Seq(EventType)
       /\ Quiet(prefix \o thinking \o text \o stops)
  BY <1>2, <1>6, <1>10, ConcatTyping, QuietConcat
<1>12. QED
  BY <1>4, <1>7, <1>8, <1>11, ElementsOfConcat DEF Quiet

\* While the provider is live, and nothing is on its way, the reason handleStop
\* picks is the one the client's blocks and the provider's reports call for.
LEMMA StopReasonIsSound ==
    ASSUME ReasonInv, source = "live", phase # "broken"
    PROVE  StopReason = ReasonFor(ToolSeen, "end_turn")
<1>1. finishReason = ReasonFor(ToolSeen, "none")
  BY DEF ReasonInv, RecordInv
<1>2. openTools # {} \/ currentTool # NoBlock => finishReason = "tool_use"
  BY DEF ReasonInv, RecordInv, KnowsTool
<1>3. QED
  BY <1>1, <1>2 DEF StopReason, ReasonFor

\* A step of a sending provider that is quiet keeps the invariant.
LEMMA QuietStep ==
    ASSUME ReasonInv, pending = <<>>, source \in Sending, Quiet(pending'),
           UNCHANGED <<phase, blocks, reason, said, source, finishReason>>,
           KnowsTool' => KnowsTool, UNCHANGED <<started, stopHandled>>
    PROVE  ReasonInv'
<1> DEFINE seen == \E p \in DOMAIN blocks : blocks[p].kind = "tool_use"
<1>1. ToolSeen = seen /\ ToolSeen' = seen
  BY ElementsOfFew DEF ToolSeen, Quiet
<1>2. ~FinalPending' /\ Over' = Over
  BY DEF Quiet, FinalPending, Over, Babble
<1>3. SilentInv' /\ OverInv'
  BY <1>2 DEF ReasonInv, SilentInv, OverInv, Sending
<1>4. \A o : ReasonFor(ToolSeen, o)' = ReasonFor(ToolSeen, o)
  BY <1>1 DEF ReasonFor
<1>5. RecordInv'
  BY <1>1, <1>4 DEF ReasonInv, RecordInv
<1>6. FinalInv'
  BY <1>2, <1>4 DEF ReasonInv, FinalInv, Quiet
<1>7. QED
  BY <1>3, <1>5, <1>6 DEF ReasonInv

\* handleStart finds and leaves a blank record (convert.go:623-654).
LEMMA StartReason ==
    ASSUME TypeInv, ReasonInv, ProviderStart
    PROVE  ReasonInv'
<1>1. /\ blocks = <<>> /\ said = {} /\ reason = "none"
      /\ UNCHANGED <<blocks, said, reason, phase>> /\ source' = "live"
  BY DEF ReasonInv, SilentInv, ProviderStart, Ready, clientVars
<1>2. Quiet(pending')
  BY QuietFew DEF ProviderStart, HandleStart, Message, Event, IsFinal, IsToolStart
<1>3. ~ToolSeen'
  BY <1>1, <1>2 DEF ToolSeen, Quiet
<1>4. ~KnowsTool'
  BY DEF KnowsTool, ProviderStart, HandleStart
<1>5. finishReason' = "none"
  BY DEF ProviderStart, HandleStart
<1>6. RecordInv'
  BY <1>1, <1>3, <1>4, <1>5 DEF RecordInv, ReasonFor
<1>7. FinalInv'
  BY <1>1, <1>2 DEF FinalInv, FinalPending, Quiet
<1>8. SilentInv' /\ OverInv'
  BY <1>1 DEF SilentInv, OverInv, Over, Babble
<1>9. QED
  BY <1>6, <1>7, <1>8 DEF ReasonInv

\* A tool call that is new puts tool_use on record, one that is known was on it.
LEMMA ToolReason ==
    ASSUME ConverterAssumption, TypeInv, ReasonInv, NEW id \in Tools,
           NEW x \in ToolIndexes \cup {NoIndex},
           Ready(Sending), StartToolBlock(id, x), UNCHANGED <<source, said>>,
           source = "babbling" => ~toolMaps /\ (id # NoID \/ x # NoIndex)
    PROVE  ReasonInv'
<1> DEFINE known == KnownTool(id, x)
<1>1. /\ source \in Sending /\ source' = source /\ pending = <<>>
      /\ UNCHANGED <<blocks, said, reason, phase>>
      /\ source = "live" => reason = "none"
  BY DEF Ready, clientVars, ReasonInv, FinalInv, Over, Babble
<1>2. ConverterInv
  BY DEF TypeInv, TypeOK, ConverterInv
<1>3. StopAllTextOrThinking \in Seq(EventType) /\ Quiet(StopAllTextOrThinking)
  BY <1>2, StopAllTyping, QuietStopAll DEF ConverterInv
<1>4. CASE known # NoBlock /\ pending' = StopAllTextOrThinking /\ currentTool' = known
           /\ UNCHANGED <<started, openTools, byIndex, byID, finishReason, stopHandled>>
  <2>1. KnowsTool
    BY <1>4 DEF KnowsTool, KnownTool, Tools
  <2>2. QED
    BY <1>1, <1>3, <1>4, <2>1, QuietStep
<1>5. CASE pending' = StopAllTextOrThinking \o <<ToolStart(nextIndex, id)>>
           /\ finishReason' = Recorded("tool_calls")
           /\ UNCHANGED <<started, stopHandled>>
           /\ (toolMaps \/ (id = NoID /\ x = NoIndex))
  <2> DEFINE start == <<ToolStart(nextIndex, id)>>
  <2>0. source = "live"
    BY <1>1, <1>5 DEF Sending
  <2>1. finishReason' = "tool_use"
    <3>1. finishReason \in {"none"} \cup StopReasons
      BY <1>2 DEF ConverterInv, ConverterTypeOK
    <3>2. MapFinishReason("tool_calls") = "tool_use"
      BY DEF MapFinishReason
    <3>3. FinishReasonPriority("tool_use") = 2
      BY DEF FinishReasonPriority
    <3>4. FinishReasonPriority(finishReason) \in 0..2
          /\ (FinishReasonPriority(finishReason) = 2 => finishReason = "tool_use")
      BY <3>1 DEF FinishReasonPriority, StopReasons
    <3>5. QED
      BY <1>5, <3>2, <3>3, <3>4 DEF Recorded
  <2>2. nextIndex \in Nat
    BY <1>2 DEF ConverterInv, ConverterTypeOK
  <2>3. start \in Seq(EventType) /\ Len(start) = 1 /\ start[1] = ToolStart(nextIndex, id)
    BY <2>2, EventTyping, OneEvent
  <2>4. Elements(start) = {ToolStart(nextIndex, id)}
    BY ElementsOfFew
  <2>5. \A e \in Elements(pending') : ~IsFinal(e)
    <3>1. Elements(pending') \subseteq Elements(StopAllTextOrThinking) \cup Elements(start)
      BY <1>3, <1>5, <2>3, ElementsOfConcat
    <3>2. ~IsFinal(ToolStart(nextIndex, id))
      BY DEF IsFinal, ToolStart, Event
    <3>3. QED
      BY <1>3, <2>4, <3>1, <3>2 DEF Quiet
  <2>6. ToolStart(nextIndex, id) \in Elements(pending')
    <3> DEFINE n == Len(StopAllTextOrThinking)
    <3>1. n \in Nat
      BY <1>3, LenProperties
    <3>2. /\ pending' \in Seq(EventType) /\ Len(pending') = n + 1
          /\ \A i \in 1..(n + 1) : pending'[i] =
                 IF i <= n THEN StopAllTextOrThinking[i] ELSE start[i - n]
      <4> HIDE DEF start
      <4>1. QED
        BY <1>3, <1>5, <2>3, ConcatProperties DEF start
    <3>3. n + 1 \in DOMAIN pending' /\ pending'[n + 1] = ToolStart(nextIndex, id)
      <4>1. DOMAIN pending' = 1..(n + 1)
        BY <3>2, LenProperties
      <4>2. n + 1 \in 1..(n + 1) /\ ~(n + 1 <= n) /\ (n + 1) - n = 1
        BY <3>1
      <4>3. QED
        BY <2>3, <3>2, <4>1, <4>2
    <3>4. QED
      BY <3>3 DEF Elements
  <2>7. ToolSeen'
    BY <2>6 DEF ToolSeen, IsToolStart, ToolStart, Event
  <2>8. RecordInv'
    BY <2>1, <2>7 DEF RecordInv, ReasonFor
  <2>9. FinalInv'
    BY <1>1, <2>0, <2>5 DEF FinalInv, FinalPending
  <2>10. SilentInv' /\ OverInv'
    BY <1>1, <2>0 DEF SilentInv, OverInv, Over, Babble
  <2>11. QED
    BY <2>8, <2>9, <2>10 DEF ReasonInv
<1>6. CASE Panic
  <2>1. Quiet(pending')
    BY <1>6, QuietFew DEF Panic
  <2>2. KnowsTool' => KnowsTool
    BY <1>6 DEF Panic, KnowsTool
  <2>3. QED
    BY <1>1, <1>6, <2>1, <2>2, QuietStep DEF Panic
<1>7. QED
  BY <1>4, <1>5, <1>6 DEF StartToolBlock

\* A finish reason that is reported is recorded if it outranks the record.
LEMMA StopReported ==
    ASSUME TypeInv, ReasonInv, NEW r \in ProviderReasons, ProviderStop(r)
    PROVE  ReasonInv'
<1>1. /\ pending = <<>> /\ pending' = <<>> /\ source' = source /\ finishReason' = Recorded(r)
      /\ UNCHANGED <<blocks, reason, phase, started, stopHandled, openTools, currentTool,
                     byIndex, byID>>
  BY DEF ProviderStop, Ready, clientVars, RecordFinishReason
<1>2. ~FinalPending'
  BY <1>1, ElementsOfFew DEF FinalPending
<1>3. ToolSeen' = ToolSeen
  BY <1>1 DEF ToolSeen
<1>4. KnowsTool' = KnowsTool
  BY <1>1 DEF KnowsTool
<1>5. finishReason \in {"none"} \cup StopReasons
  BY DEF TypeInv, TypeOK, ConverterTypeOK
<1>6. /\ FinishReasonPriority("tool_use") = 2
      /\ FinishReasonPriority("max_tokens") = 1
      /\ FinishReasonPriority("end_turn") = 0
      /\ FinishReasonPriority("none") = 0
  BY DEF FinishReasonPriority
<1>7. /\ MapFinishReason("tool_calls") = "tool_use"
      /\ MapFinishReason("length") = "max_tokens"
      /\ MapFinishReason("stop") = "end_turn"
      /\ MapFinishReason("refusal") = "end_turn"
  BY DEF MapFinishReason
<1>8. CASE source = "live"
  <2>1. said' = said \cup {r}
    BY <1>8 DEF ProviderStop
  <2>2. (KnowsTool => finishReason = "tool_use")
        /\ (phase # "broken" => finishReason = ReasonFor(ToolSeen, "none"))
    BY <1>8 DEF ReasonInv, RecordInv
  <2>3. finishReason = "tool_use" => finishReason' = "tool_use"
    BY <1>1, <1>6, <1>7 DEF Recorded, ProviderReasons
  <2>4. finishReason' = CASE r = "tool_calls" -> "tool_use"
                          [] r = "length" /\ finishReason # "tool_use" -> "max_tokens"
                          [] OTHER -> finishReason
    <3>1. CASE r = "tool_calls"
      BY <1>1, <1>5, <1>6, <1>7, <3>1 DEF Recorded, StopReasons
    <3>2. CASE r = "length"
      BY <1>1, <1>5, <1>6, <1>7, <3>2 DEF Recorded, StopReasons
    <3>3. CASE r \in {"stop", "refusal"}
      BY <1>1, <1>5, <1>6, <1>7, <3>3 DEF Recorded, StopReasons
    <3>4. QED
      BY <3>1, <3>2, <3>3 DEF ProviderReasons
  <2>5. phase' # "broken" => finishReason' = ReasonFor(ToolSeen, "none")'
    BY <1>1, <1>3, <2>1, <2>2, <2>4 DEF ReasonFor
  <2>6. RecordInv'
    BY <1>4, <2>2, <2>3, <2>5 DEF RecordInv
  <2>7. reason' = "none" /\ FinalInv'
    BY <1>1, <1>2, <1>8 DEF ReasonInv, FinalInv, FinalPending, Over, Babble
  <2>8. SilentInv' /\ OverInv'
    BY <1>1, <1>8 DEF SilentInv, OverInv, Over, Babble
  <2>9. QED
    BY <2>6, <2>7, <2>8 DEF ReasonInv
<1>9. CASE source # "live"
  <2>1. said' = said
    BY <1>9 DEF ProviderStop
  <2>2. RecordInv'
    BY <1>1, <1>9 DEF RecordInv
  <2>3. FinalInv'
    BY <1>1, <1>2, <1>3, <2>1 DEF ReasonInv, FinalInv, FinalPending, Over, Babble, ReasonFor
  <2>4. SilentInv' /\ OverInv'
    BY <1>1, <2>1 DEF ReasonInv, SilentInv, OverInv, Over, Babble
  <2>5. QED
    BY <2>2, <2>3, <2>4 DEF ReasonInv
<1>10. QED
  BY <1>8, <1>9

\* The end of the provider's stream, by Done or by an error: when the converter
\* still has to end the message, what it ends it with is sound.
LEMMA EndReason ==
    ASSUME TypeInv, ReasonInv, ProviderError \/ ProviderDone
    PROVE  ReasonInv'
<1> DEFINE prefix == IF source' \in {"failed", "babbling"} THEN <<Message("error")>> ELSE <<>>
<1>1. /\ source \in {"silent", "live", "failed", "babbling"}
      /\ source' \in {"failed", "babbling", "done", "babbled"}
      /\ pending = <<>>
      /\ UNCHANGED <<blocks, said, reason, phase>>
  BY DEF ProviderError, ProviderDone, Ready, Sending, clientVars
<1>2. prefix \in Seq(EventType) /\ Quiet(prefix)
  <2>1. Message("error") \in EventType
    BY EventTyping
  <2>2. ~IsFinal(Message("error")) /\ ~IsToolStart(Message("error"))
    BY DEF Message, Event, IsFinal, IsToolStart
  <2>3. <<Message("error")>> \in Seq(EventType) /\ Quiet(<<Message("error")>>)
    BY <2>1, <2>2, OneEvent, QuietFew
  <2>4. <<>> \in Seq(EventType) /\ Quiet(<<>>)
    BY QuietFew
  <2>5. QED
    BY <2>3, <2>4
<1>3. SilentInv' /\ RecordInv'
  BY <1>1 DEF SilentInv, RecordInv
<1>4. CASE started /\ ~stopHandled /\ HandleStop(prefix)
  <2>1. source = "live"
    BY <1>1, <1>4 DEF ReasonInv, SilentInv, OverInv, Over, Babble
  <2>2. reason = "none"
    BY <2>1 DEF ReasonInv, FinalInv, Over, Babble
  <2>3. \A e \in Elements(pending') : ~IsToolStart(e) /\ (IsFinal(e) => e.info = StopReason)
    BY <1>2, <1>4, StopElements DEF TypeInv, TypeOK, ConverterInv
  <2>4. ToolSeen' = ToolSeen
    <3>1. ~\E e \in Elements(pending) : IsToolStart(e)
      BY <1>1, ElementsOfFew
    <3>2. QED
      BY <1>1, <2>3, <3>1 DEF ToolSeen
  <2>5. phase # "broken" => StopReason = ReasonFor(ToolSeen, "end_turn")'
    BY <1>1, <2>1, <2>4, StopReasonIsSound DEF ReasonFor
  <2>6. Over' /\ OverInv'
    BY <1>1, <1>4 DEF Over, Babble, OverInv, HandleStop
  <2>7. FinalInv'
    BY <1>1, <2>2, <2>3, <2>5, <2>6 DEF FinalInv
  <2>8. QED
    BY <1>3, <2>6, <2>7 DEF ReasonInv
<1>5. CASE (~started \/ stopHandled) /\ Quiet(pending') /\ UNCHANGED <<started, stopHandled>>
  <2>1. ToolSeen' = ToolSeen
    <3>1. ~\E e \in Elements(pending) : IsToolStart(e)
      BY <1>1, ElementsOfFew
    <3>2. QED
      BY <1>1, <1>5, <3>1 DEF ToolSeen, Quiet
  <2>2. Over' /\ OverInv'
    BY <1>1, <1>5 DEF Over, Babble, OverInv
  <2>3. ReasonFor(ToolSeen, "end_turn")' = ReasonFor(ToolSeen, "end_turn")
    BY <1>1, <2>1 DEF ReasonFor
  <2>4. FinalInv'
    BY <1>1, <1>5, <2>2, <2>3 DEF ReasonInv, FinalInv, FinalPending, Quiet
  <2>5. QED
    BY <1>3, <2>2, <2>4 DEF ReasonInv
<1>6. QED
  <2>1. CASE ProviderError
    <3>1. prefix = <<Message("error")>>
      BY <2>1 DEF ProviderError
    <3>2. CASE started /\ ~stopHandled
      BY <1>4, <2>1, <3>1, <3>2 DEF ProviderError, HandleError
    <3>3. CASE ~started \/ stopHandled
      <4>1. pending' = prefix /\ UNCHANGED <<started, stopHandled>>
        BY <2>1, <3>1, <3>3 DEF ProviderError, HandleError
      <4>2. QED
        BY <1>2, <1>5, <3>3, <4>1
    <3>4. QED
      BY <3>2, <3>3
  <2>2. CASE ProviderDone
    <3>1. prefix = <<>>
      BY <2>2 DEF ProviderDone
    <3>2. CASE started /\ ~stopHandled
      BY <1>4, <2>2, <3>1, <3>2 DEF ProviderDone, HandleDone
    <3>3. CASE ~started \/ stopHandled
      <4>1. pending' = prefix /\ UNCHANGED <<started, stopHandled>>
        BY <1>1, <2>2, <3>1, <3>3 DEF ProviderDone, HandleDone, Ignore, converterVars
      <4>2. QED
        BY <1>2, <1>5, <3>3, <4>1
    <3>4. QED
      BY <3>2, <3>3
  <2>3. QED
    BY <2>1, <2>2

\* An event on its way to the client takes what it says along.
LEMMA EmitReason ==
    ASSUME TypeInv, ReasonInv, Emit
    PROVE  ReasonInv'
<1> DEFINE e == Head(pending)
<1>1. /\ pending # <<>> /\ pending' = Tail(pending) /\ Receive(e)
      /\ UNCHANGED <<started, currentTool, openTools, byIndex, byID, finishReason,
                     stopHandled, source, said>>
  BY DEF Emit, sourceVars
<1>2. pending \in Seq(EventType) /\ blocks \in Seq(BlockType)
  BY DEF TypeInv, TypeOK, ConverterTypeOK, ClientTypeOK
<1>3. e \in EventType /\ Elements(pending) = {e} \cup Elements(pending')
  BY <1>1, <1>2, ElementsOfTail, HeadTailProperties
<1>4. KnowsTool' = KnowsTool /\ Over' = Over
  BY <1>1 DEF KnowsTool, Over, Babble
<1>5. source # "silent"
  BY <1>1 DEF ReasonInv, SilentInv
<1>6. SilentInv' /\ OverInv'
  BY <1>1, <1>4, <1>5 DEF ReasonInv, SilentInv, OverInv
<1> HIDE DEF e
<1>7. CASE ~Acceptable(e)
  <2>1. phase' = "broken" /\ UNCHANGED <<blocks, open, reason>>
    BY <1>1, <1>7 DEF Receive
  <2>2. RecordInv'
    BY <1>1, <1>4, <2>1 DEF ReasonInv, RecordInv
  <2>3. FinalInv'
    <3>1. FinalPending' => FinalPending
      BY <1>3 DEF FinalPending
    <3>2. FinalPending' \/ reason' # "none" => Over' /\ \A f \in Elements(pending') : ~IsToolStart(f)
      BY <1>3, <1>4, <2>1, <3>1 DEF ReasonInv, FinalInv
    <3>3. reason' # "none" => reason' = ReasonFor(ToolSeen, "end_turn")'
      <4>1. reason # "none" => ToolSeen' = ToolSeen
        BY <1>3, <2>1 DEF ReasonInv, FinalInv, ToolSeen
      <4>2. QED
        BY <1>1, <2>1, <4>1 DEF ReasonInv, FinalInv, ReasonFor
    <3>4. QED
      BY <2>1, <3>2, <3>3 DEF FinalInv
  <2>4. QED
    BY <1>6, <2>2, <2>3 DEF ReasonInv
<1>8. CASE Acceptable(e)
  <2>1. phase # "broken"
    <3>1. e.type \in {"message_start", "block_start", "block_delta", "block_stop",
                      "message_delta", "message_stop", "ping", "error"}
      BY <1>3 DEF EventType
    <3>2. QED
      BY <1>8, <3>1 DEF Acceptable, IsFinal
  <2>2. ToolSeen' = ToolSeen
    <3>1. CASE e.type = "block_start"
      <4> DEFINE b == [kind |-> e.info, tool |-> e.tool]
      <4>1. blocks' = Append(blocks, b)
        BY <1>1, <1>8, <3>1 DEF Receive
      <4>2. b \in BlockType
        BY <1>3, <3>1 DEF EventType, BlockType
      <4>3. /\ Len(blocks) \in Nat /\ DOMAIN blocks = 1..Len(blocks)
            /\ DOMAIN blocks' = 1..(Len(blocks) + 1)
            /\ blocks'[Len(blocks) + 1] = b
            /\ \A p \in 1..Len(blocks) : blocks'[p] = blocks[p]
        <5> HIDE DEF b
        <5>1. Len(blocks) \in Nat /\ DOMAIN blocks = 1..Len(blocks)
          BY <1>2, LenProperties
        <5>2. QED
          BY <1>2, <4>1, <4>2, <5>1, AppendProperties
      <4>4. (\E p \in DOMAIN blocks' : blocks'[p].kind = "tool_use")
                <=> (\E p \in DOMAIN blocks : blocks[p].kind = "tool_use") \/ IsToolStart(e)
        <5>1. b.kind = e.info
          OBVIOUS
        <5> HIDE DEF b
        <5>2. 1..(Len(blocks) + 1) = 1..Len(blocks) \cup {Len(blocks) + 1}
          BY <4>3
        <5>3. QED
          BY <3>1, <4>3, <5>1, <5>2 DEF IsToolStart
      <4>5. QED
        BY <1>3, <4>4 DEF ToolSeen
    <3>2. CASE e.type # "block_start"
      <4>1. blocks' = blocks
        BY <1>1, <1>8, <3>2 DEF Receive
      <4>2. QED
        BY <1>3, <3>2, <4>1 DEF ToolSeen, IsToolStart
    <3>3. QED
      BY <3>1, <3>2
  <2>3. RecordInv'
    BY <1>1, <1>4, <2>1, <2>2 DEF ReasonInv, RecordInv, ReasonFor
  <2>4. \A o : ReasonFor(ToolSeen, o)' = ReasonFor(ToolSeen, o)
    BY <1>1, <2>2 DEF ReasonFor
  <2>5. CASE IsFinal(e)
    <3>1. FinalPending
      BY <1>3, <2>5 DEF FinalPending
    <3>2. Over' /\ \A f \in Elements(pending') : ~IsToolStart(f)
      BY <1>3, <1>4, <3>1 DEF ReasonInv, FinalInv
    <3>3. \A f \in Elements(pending') : IsFinal(f) => f.info = ReasonFor(ToolSeen, "end_turn")'
      BY <1>3, <2>1, <2>4 DEF ReasonInv, FinalInv
    <3>4. reason' = ReasonFor(ToolSeen, "end_turn")'
      <4>1. reason' = e.info
        BY <1>1, <1>8, <2>5 DEF Receive
      <4>2. e.info = ReasonFor(ToolSeen, "end_turn")
        BY <1>3, <2>1, <2>5 DEF ReasonInv, FinalInv
      <4>3. QED
        BY <2>4, <4>1, <4>2
    <3>5. QED
      BY <1>6, <2>3, <3>2, <3>3, <3>4 DEF ReasonInv, FinalInv
  <2>6. CASE ~IsFinal(e)
    <3>1. reason' = reason
      BY <1>1, <1>8, <2>6 DEF Receive
    <3>2. FinalPending' => FinalPending
      BY <1>3 DEF FinalPending
    <3>3. FinalInv'
      BY <1>3, <1>4, <2>1, <2>4, <3>1, <3>2 DEF ReasonInv, FinalInv
    <3>4. QED
      BY <1>6, <2>3, <3>3 DEF ReasonInv
  <2>7. QED
    BY <2>5, <2>6
<1>9. QED
  BY <1>7, <1>8

\* A delta of any kind, a block's start or its stop.
LEMMA ContentReason ==
    ASSUME TypeInv, ReasonInv, Ready(Sending), Quiet(pending'),
           UNCHANGED <<source, said, started, stopHandled, currentTool, byIndex, byID,
                       finishReason>>,
           openTools' \subseteq openTools
    PROVE  ReasonInv'
<1>1. KnowsTool' => KnowsTool
  BY DEF KnowsTool
<1>2. /\ pending = <<>> /\ source \in Sending
      /\ UNCHANGED <<phase, blocks, reason, said, source, finishReason>>
  BY DEF Ready, clientVars
<1>3. QED
  BY <1>1, <1>2, QuietStep

\* A provider's event, converted, keeps record, batch and client consistent.
LEMMA ConvertReason ==
    ASSUME ConverterAssumption, StreamAssumption, TypeInv, LiveInv, ReasonInv, Convert
    PROVE  ReasonInv'
<1>1. ConverterInv /\ SourceTypeOK
  BY DEF TypeInv, TypeOK, ConverterInv
<1>2. CASE ProviderStart
  BY <1>2, StartReason
<1>3. CASE ProviderUsage \/ ProviderMetadata
  BY <1>3, PassedOnQuiet, ContentReason DEF ProviderUsage, ProviderMetadata, sourceVars, Settled
<1>4. ASSUME NEW r \in ProviderReasons, ProviderStop(r)
      PROVE  ReasonInv'
  BY <1>4, StopReported
<1>5. CASE ProviderError \/ ProviderDone
  BY <1>5, EndReason
<1>6. ASSUME NEW k \in ContentKinds, FrameContent(k)
      PROVE  ReasonInv'
  BY <1>1, <1>6, ContentQuiet, ContentReason DEF FrameContent, Settled
<1>7. ASSUME NEW id \in ToolIDs, FrameTool(id)
      PROVE  ReasonInv'
  BY <1>7, ToolReason, ConverterAssumption DEF FrameTool, Tools, LiveInv
<1>8. CASE FrameRedacted
  BY <1>1, <1>8, RedactedQuiet, ContentReason DEF FrameRedacted, Settled
<1>9. ASSUME NEW d \in Dropped, FrameDropped(d)
      PROVE  ReasonInv'
  <2>1. Quiet(pending')
    BY <1>9, QuietFew DEF FrameDropped, Ready, Ignore, converterVars
  <2>2. QED
    BY <1>9, <2>1, ContentReason DEF FrameDropped, Ignore, converterVars
<1>10. CASE FrameDelta
  <2>1. Quiet(pending') /\ Settled
    BY <1>1, <1>10, ContentQuiet, DeltaQuiet DEF FrameDelta
  <2>2. QED
    BY <1>10, <2>1, ContentReason DEF FrameDelta, Settled
<1>11. CASE FrameStop
  <2>1. \E i \in Nat \cup {NoIndex} : HandleBlockStop(i)
    BY <1>1, <1>11 DEF FrameStop, SourceTypeOK
  <2>2. pending = <<>>
    BY <1>11 DEF FrameStop, Ready
  <2>3. QED
    BY <1>1, <1>11, <2>1, <2>2, BlockStopQuiet, ContentReason DEF FrameStop
<1>12. ASSUME NEW k \in ContentKinds, NEW d \in BOOLEAN, ImplicitContent(k, d)
       PROVE  ReasonInv'
  BY <1>1, <1>12, ContentQuiet, ContentReason DEF ImplicitContent, sourceVars, Settled
<1>13. ASSUME NEW id \in ToolIDs, NEW x \in ToolIndexes \cup {NoIndex}, ImplicitTool(id, x)
       PROVE  ReasonInv'
  BY <1>13, ToolReason, ConverterAssumption DEF ImplicitTool, Tools, LiveInv
<1>14. CASE ImplicitAnonymousTool
  <2>1. Ready(Sending) /\ source = "live"
    BY <1>14 DEF ImplicitAnonymousTool, Ready, Sending
  <2>2. QED
    BY <1>14, <2>1, ToolReason DEF ImplicitAnonymousTool, Tools
<1>15. ASSUME NEW id \in ToolIDs \cup {NoID}, ImplicitFragment(id)
       PROVE  ReasonInv'
  <2>1. Quiet(pending') /\ Settled
    BY <1>15, DeltaQuiet DEF ImplicitFragment
  <2>2. QED
    BY <1>15, <2>1, ContentReason DEF ImplicitFragment, sourceVars, Settled
<1>16. QED
  BY <1>2, <1>3, <1>4, <1>5, <1>6, <1>7, <1>8, <1>9, <1>10, <1>11, <1>12, <1>13, <1>14,
     <1>15 DEF Convert

\* A step that changes nothing keeps them consistent.
LEMMA StutterReason ==
    ASSUME ReasonInv, UNCHANGED vars
    PROVE  ReasonInv'
<1>1. UNCHANGED <<converterVars, clientVars, sourceVars>>
  BY DEF vars
<1>2. /\ ToolSeen' = ToolSeen /\ KnowsTool' = KnowsTool /\ Over' = Over
      /\ FinalPending' = FinalPending
  BY <1>1 DEF converterVars, clientVars, sourceVars, ToolSeen, KnowsTool, Over, Babble,
         FinalPending
<1>3. \A o : ReasonFor(ToolSeen, o)' = ReasonFor(ToolSeen, o)
  BY <1>1, <1>2 DEF sourceVars, ReasonFor
<1>4. SilentInv' /\ OverInv'
  BY <1>1, <1>2 DEF ReasonInv, SilentInv, OverInv, converterVars, clientVars, sourceVars
<1>5. RecordInv'
  BY <1>1, <1>2, <1>3 DEF ReasonInv, RecordInv, converterVars, clientVars, sourceVars
<1>6. FinalInv'
  BY <1>1, <1>2, <1>3 DEF ReasonInv, FinalInv, converterVars, clientVars, sourceVars
<1>7. QED
  BY <1>4, <1>5, <1>6 DEF ReasonInv

\* The stop reason a client is told is never anything but the one an agent loop
\* needs: tool_use exactly when the reply holds a tool call or the provider said
\* so, in whatever order and how often the provider reports its reasons, and also
\* when the stream breaks off (convert.go:583-609, 1025-1067).
THEOREM StopReasonIsAlwaysSound == Spec => []StopReasonSound
<1>1. Init => ReasonInv
  <2> SUFFICES ASSUME Init PROVE ReasonInv
    OBVIOUS
  <2>1. /\ source = "silent" /\ ~started /\ blocks = <<>> /\ pending = <<>>
        /\ said = {} /\ reason = "none"
    BY DEF Init, ConverterInit, ClientInit
  <2>2. ~FinalPending
    BY <2>1, ElementsOfFew DEF FinalPending
  <2>3. QED
    BY <2>1, <2>2 DEF ReasonInv, SilentInv, OverInv, Over, Babble, RecordInv, FinalInv, FinalPending
<1>2. TypeInv /\ LiveInv /\ ReasonInv /\ [Next]_vars => ReasonInv'
  BY ConverterAssumption, StreamAssumption, ConvertReason, EmitReason, StutterReason DEF Next
<1>3. TypeInv /\ ReasonInv => StopReasonSound
  <2> SUFFICES ASSUME TypeInv, ReasonInv, reason # "none"
               PROVE  reason = ReasonFor(\E p \in DOMAIN blocks : blocks[p].kind = "tool_use",
                                         "end_turn")
    BY DEF StopReasonSound, ReasonFor
  <2>1. ~\E e \in Elements(pending) : IsToolStart(e)
    BY DEF ReasonInv, FinalInv
  <2>2. ToolSeen = (\E p \in DOMAIN blocks : blocks[p].kind = "tool_use")
    BY <2>1 DEF ToolSeen
  <2>3. QED
    BY <2>2 DEF ReasonInv, FinalInv
<1>4. QED
  BY <1>1, <1>2, <1>3, TypeInvariant, Lively, PTL DEF Spec


-----------------------------------------------------------------------------
(* No event breaks a strict client.  ClientNeverBroken is not inductive: an  *)
(* event is taken long after the handler that made it.  The invariant is    *)
(* about the view of the client once it has read what is pending: while the  *)
(* provider is live, the converter's bookkeeping mirrors that view, and what *)
(* the provider may still refer to are open blocks of it.                    *)

\* A tool call has an open block.
Holds(i, id, w) == i \in openTools /\ w.blocks[i + 1] = [kind |-> "tool_use", tool |-> id]

\* What the provider may name, by id, by index or by nothing at all.
SlotInv(w) ==
    /\ \A id \in ToolIDs :
           byID[id] # NoBlock => slot[id] # Unset /\ (style # "framed" => Holds(byID[id], id, w))
    /\ \A id \in ToolIDs : slot[id] \in ToolIndexes => Implicit /\ Holds(byIndex[slot[id]], id, w)
    /\ \A x \in ToolIndexes : byIndex[x] # NoBlock => \E id \in ToolIDs : slot[id] = x
    /\ lastTool # NoTool /\ style # "framed" => Holds(currentTool, lastTool, w)

\* A framed provider runs one block at a time, and numbers the blocks as the
\* converter does.
FrameInv(w) ==
    /\ Framed \/ frame = "none"
    /\ frame \notin {"mute", "fed"}
    /\ frame = "tool_use" => Holds(currentTool, lastTool, w)
    /\ style = "framed" =>
           /\ nextIndex = frameIndex + (IF frame = "none" THEN 0 ELSE 1)
           /\ \A i \in w.open : frame # "none" /\ i = frameIndex
           /\ frame \in ContentKinds => content[frame] = frameIndex
           /\ frame = "redacted_thinking" => frameIndex \in stopped
           /\ frame = "tool_use" => currentTool = frameIndex

Live(w) == Mirrors(w) /\ SlotInv(w) /\ FrameInv(w)

Unheard(w) ==
    /\ ~started /\ w.phase = "idle" /\ w.blocks = <<>> /\ w.open = {}
    /\ frame = "none" /\ frameIndex = 0 /\ lastTool = NoTool
    /\ \A id \in ToolIDs : slot[id] = Unset

Finished(w) ==
    /\ started => stopHandled
    /\ w.phase = IF started THEN "ended" ELSE "idle"
    /\ Babble => started

Future(w) ==
    /\ source = "silent" => Unheard(w)
    /\ source = "live" => Live(w)
    /\ Over => Finished(w)

ClientInv ==
    \/ Babble /\ phase \in {"ended", "broken"}
    \/ \E w \in View : Reads(pending, Told, w) /\ Future(w)

\* The client has heard nothing and there is nothing to hear.
LEMMA ClientInit0 == Init => ClientInv
<1> SUFFICES ASSUME Init PROVE ClientInv
  OBVIOUS
<1>1. Told \in View /\ Told.phase = "idle" /\ Told.blocks = <<>> /\ Told.open = {}
  BY DEF Init, ClientInit, Told, View
<1>2. Reads(pending, Told, Told)
  BY <1>1, ReadsNothing DEF Init, ConverterInit
<1>3. Future(Told)
  BY <1>1 DEF Init, ConverterInit, Future, Unheard, Over, Babble
<1> QED
  BY <1>1, <1>2, <1>3 DEF ClientInv

\* A tool call that has an open block has it in every view that follows.
LEMMA HoldsStays ==
    ASSUME ConverterTypeOK, NEW v \in View, NEW w \in View, Mirrors(v), Extends(v, w),
           openTools \subseteq openTools', NEW i, NEW id, Holds(i, id, v)
    PROVE  Holds(i, id, w)'
<1>1. i \in openTools /\ v.blocks[i + 1] = [kind |-> "tool_use", tool |-> id]
  BY DEF Holds
<1>2. w.blocks[i + 1] = v.blocks[i + 1]
  BY <1>1, ToolsStay
<1> QED
  BY <1>1, <1>2 DEF Holds

\* What the provider may name stays where it is when nothing new is named.
LEMMA SlotsStay ==
    ASSUME ConverterTypeOK, NEW v \in View, NEW w \in View, Mirrors(v), SlotInv(v), Extends(v, w),
           style = "framed" \/ openTools \subseteq openTools',
           UNCHANGED <<byID, byIndex, currentTool, slot, lastTool, style>>
    PROVE  SlotInv(w)'
<1>1. CASE style = "framed"
  BY <1>1 DEF SlotInv, Implicit
<1>2. CASE style # "framed"
  <2>1. \A i, id : Holds(i, id, v) => Holds(i, id, w)'
    BY <1>2, HoldsStays
  <2>2. \A id \in ToolIDs :
           byID[id] # NoBlock => slot[id] # Unset /\ (style # "framed" => Holds(byID[id], id, w)')
    BY <2>1 DEF SlotInv
  <2>3. \A id \in ToolIDs : slot[id] \in ToolIndexes => Implicit /\ Holds(byIndex[slot[id]], id, w)'
    BY <2>1 DEF SlotInv
  <2>4. lastTool # NoTool => Holds(currentTool, lastTool, w)'
    BY <1>2, <2>1 DEF SlotInv
  <2> QED
    BY <1>2, <2>2, <2>3, <2>4 DEF SlotInv, Implicit, Holds
<1> QED
  BY <1>1, <1>2

\* A framed block of text or thinking starts.
LEMMA FrameContentHeard ==
    ASSUME TypeInv, NEW v \in View, Live(v), NEW k \in ContentKinds, FrameContent(k)
    PROVE  \E w \in View : Reads(pending', v, w) /\ Live(w)'
<1>1. /\ ConverterInv /\ ConverterTypeOK /\ frameIndex \in Nat
      /\ Mirrors(v) /\ SlotInv(v) /\ FrameInv(v)
  BY DEF TypeInv, TypeOK, ConverterInv, SourceTypeOK, Live
<1>2. /\ HandleContent(k, FALSE) /\ Framed /\ frame = "none" /\ frame' = k
      /\ UNCHANGED <<style, frameIndex, slot, lastTool>>
  BY DEF FrameContent
<1>3. PICK w \in View : Reads(pending', v, w) /\ Mirrors(w)' /\ Extends(v, w)
  BY <1>1, <1>2, ContentReads
<1>4. UNCHANGED <<byID, byIndex, currentTool, openTools, stopped>>
  BY <1>2 DEF HandleContent
<1>5. SlotInv(w)'
  BY <1>1, <1>2, <1>3, <1>4, SlotsStay
<1>6. k # "none" /\ k # "tool_use" /\ k # "redacted_thinking" /\ k \notin {"mute", "fed"}
  BY DEF ContentKinds
<1>7. ASSUME style = "framed"
      PROVE  /\ nextIndex' = frameIndex' + 1
             /\ content'[k] = frameIndex'
             /\ \A i \in w.open : i = frameIndex'
  <2>1. v.open = {} /\ nextIndex = frameIndex
    BY <1>1, <1>2, <1>7 DEF FrameInv
  <2>2. openTools = {} /\ \A c \in ContentKinds : content[c] = NoBlock
    BY <1>1, <2>1 DEF Mirrors
  <2>3. /\ nextIndex' = frameIndex' + 1
        /\ content' = [c \in ContentKinds |-> IF c = k THEN nextIndex ELSE NoBlock]
    BY <1>2, <2>1, <2>2 DEF HandleContent
  <2>4. \A i \in w.open : i \in Nat
    BY DEF View
  <2>5. \A i \in w.open : \E c \in ContentKinds : content'[c] = i
    BY <1>3, <1>4, <2>2 DEF Mirrors
  <2>6. \A i \in w.open : i = nextIndex
    BY <2>3, <2>4, <2>5 DEF NoBlock
  <2> QED
    BY <1>2, <2>1, <2>3, <2>6
<1>8. FrameInv(w)'
  BY <1>2, <1>6, <1>7 DEF FrameInv, Framed
<1> QED
  BY <1>3, <1>5, <1>8 DEF Live

\* A framed tool call starts: its id is new, so it is given a block of its own.
LEMMA FrameToolHeard ==
    ASSUME ConverterAssumption, NoToolAssumption, TypeInv, LiveInv, source = "live",
           NEW v \in View, Live(v), NEW id \in ToolIDs, FrameTool(id)
    PROVE  \E w \in View : Reads(pending', v, w) /\ Live(w)'
<1>1. /\ ConverterInv /\ ConverterTypeOK /\ frameIndex \in Nat /\ toolMaps /\ nextIndex \in Nat
      /\ slot \in [ToolIDs -> {Unset, NoIndex} \cup ToolIndexes]
      /\ Mirrors(v) /\ SlotInv(v) /\ FrameInv(v)
  BY DEF TypeInv, TypeOK, ConverterInv, ConverterTypeOK, SourceTypeOK, Live, LiveInv
<1>2. /\ StartToolBlock(id, NoIndex) /\ Framed /\ frame = "none" /\ slot[id] = Unset
      /\ frame' = "tool_use" /\ slot' = [slot EXCEPT ![id] = NoIndex] /\ lastTool' = id
      /\ UNCHANGED <<style, frameIndex>>
  BY DEF FrameTool
<1>3. byID[id] = NoBlock /\ KnownTool(id, NoIndex) = NoBlock /\ id # NoID
  BY <1>1, <1>2 DEF SlotInv, KnownTool, ConverterAssumption
<1>4. /\ currentTool' = nextIndex
      /\ nextIndex' = nextIndex + 1
      /\ openTools' = openTools \cup {nextIndex}
      /\ byIndex' = [y \in ToolIndexes |-> IF y = NoIndex THEN nextIndex ELSE byIndex[y]]
      /\ byID' = [y \in ToolIDs |-> IF y = id THEN nextIndex ELSE byID[y]]
      /\ content' = [k \in ContentKinds |-> NoBlock]
  BY <1>1, <1>2, <1>3 DEF StartToolBlock
<1>5. PICK w \in View : /\ Reads(pending', v, w) /\ Mirrors(w)' /\ Extends(v, w)
                        /\ w.blocks[nextIndex + 1] = [kind |-> "tool_use", tool |-> id]
  BY <1>1, <1>2, <1>3, ToolReads DEF Tools
<1>6. Holds(currentTool, id, w)'
  BY <1>4, <1>5 DEF Holds
<1>7. \A j, other : Holds(j, other, v) => Holds(j, other, w)'
  BY <1>1, <1>4, <1>5, HoldsStays
<1>8. SlotInv(w)'
  <2>1. ASSUME NEW other \in ToolIDs, byID'[other] # NoBlock
        PROVE  (slot[other] # Unset /\ (style # "framed" => Holds(byID[other], other, w)))'
    <3>1. CASE other = id
      <4>1. slot'[other] = NoIndex /\ byID'[other] = currentTool'
        BY <1>1, <1>2, <1>4, <3>1
      <4> QED
        BY <1>6, <3>1, <4>1 DEF Unset, ConverterAssumption, Holds
    <3>2. CASE other # id
      <4>1. slot'[other] = slot[other] /\ byID'[other] = byID[other]
        BY <1>1, <1>2, <1>4, <3>2
      <4>2. slot[other] # Unset /\ (style # "framed" => Holds(byID[other], other, v))
        BY <1>1, <2>1, <4>1 DEF SlotInv
      <4> QED
        BY <1>2, <1>7, <4>1, <4>2 DEF Holds
    <3> QED
      BY <3>1, <3>2
  <2>2. ASSUME NEW other \in ToolIDs PROVE slot'[other] \notin ToolIndexes
    BY <1>1, <1>2 DEF SlotInv, Framed, Implicit, ConverterAssumption
  <2>3. byIndex' = byIndex /\ \A x \in ToolIndexes : byIndex[x] = NoBlock
    <3>1. byIndex \in [ToolIndexes -> Nat \cup {NoBlock}] /\ NoIndex \notin ToolIndexes
      BY <1>1 DEF ConverterTypeOK, ConverterAssumption
    <3>2. \A x \in ToolIndexes : byIndex[x] = NoBlock
      BY <1>1, <1>2 DEF SlotInv, Framed, Implicit
    <3> QED
      BY <1>4, <3>1, <3>2
  <2> QED
    BY <1>2, <1>4, <1>6, <2>1, <2>2, <2>3 DEF SlotInv, Holds
<1>9. ASSUME style = "framed"
      PROVE  /\ nextIndex' = frameIndex' + 1
             /\ currentTool' = frameIndex'
             /\ \A i \in w.open : i = frameIndex'
  <2>1. v.open = {} /\ nextIndex = frameIndex
    BY <1>1, <1>2, <1>9 DEF FrameInv
  <2>2. openTools' = {nextIndex}
    BY <1>1, <1>4, <2>1 DEF Mirrors
  <2>3. \A i \in w.open : i \in Nat
    BY DEF View
  <2>4. \A i \in w.open : i = nextIndex
    BY <1>4, <1>5, <2>2, <2>3 DEF Mirrors, NoBlock
  <2> QED
    BY <1>2, <1>4, <2>1, <2>4
<1>10. FrameInv(w)'
  BY <1>2, <1>6, <1>9 DEF FrameInv, Framed, ContentKinds, Holds
<1> QED
  BY <1>5, <1>8, <1>10 DEF Live

\* A framed redacted block: it is stopped before its own stop comes.
LEMMA FrameRedactedHeard ==
    ASSUME TypeInv, LiveInv, source = "live", NEW v \in View, Live(v), FrameRedacted
    PROVE  \E w \in View : Reads(pending', v, w) /\ Live(w)'
<1>1. /\ ConverterInv /\ ConverterTypeOK /\ frameIndex \in Nat /\ started /\ nextIndex \in Nat
      /\ Mirrors(v) /\ SlotInv(v) /\ FrameInv(v)
  BY DEF TypeInv, TypeOK, ConverterInv, ConverterTypeOK, SourceTypeOK, Live, LiveInv
<1>2. /\ HandleRedacted /\ Framed /\ frame = "none" /\ frame' = "redacted_thinking"
      /\ UNCHANGED <<style, frameIndex, slot, lastTool>>
  BY DEF FrameRedacted
<1>3. PICK w \in View : /\ Reads(pending', v, w) /\ Mirrors(w)' /\ Extends(v, w)
                        /\ w.open = openTools
  BY <1>1, <1>2, RedactedReads
<1>4. /\ nextIndex' = nextIndex + 1 /\ stopped' = stopped \cup {nextIndex}
      /\ UNCHANGED <<byID, byIndex, currentTool, openTools>>
  BY <1>1, <1>2 DEF HandleRedacted
<1>5. SlotInv(w)'
  BY <1>1, <1>2, <1>3, <1>4, SlotsStay
<1>6. ASSUME style = "framed"
      PROVE  nextIndex' = frameIndex' + 1 /\ w.open = {} /\ frameIndex' \in stopped'
  <2>1. v.open = {} /\ nextIndex = frameIndex
    BY <1>1, <1>2, <1>6 DEF FrameInv
  <2>2. openTools = {}
    BY <1>1, <2>1 DEF Mirrors
  <2> QED
    BY <1>2, <1>3, <1>4, <2>1, <2>2
<1>7. FrameInv(w)'
  BY <1>2, <1>6 DEF FrameInv, Framed, ContentKinds
<1> QED
  BY <1>3, <1>5, <1>7 DEF Live

\* A delta of the block that runs.
LEMMA FrameDeltaHeard ==
    ASSUME ConverterAssumption, TypeInv, NEW v \in View, Live(v), FrameDelta
    PROVE  \E w \in View : Reads(pending', v, w) /\ Live(w)'
<1>1. /\ ConverterInv /\ ConverterTypeOK /\ frameIndex \in Nat
      /\ Mirrors(v) /\ SlotInv(v) /\ FrameInv(v)
  BY DEF TypeInv, TypeOK, ConverterInv, SourceTypeOK, Live
<1>2. Framed /\ UNCHANGED <<style, frame, frameIndex, slot, lastTool>>
  BY DEF FrameDelta
<1>3. CASE frame \in ContentKinds /\ HandleContent(frame, TRUE)
  <2>1. PICK w \in View : Reads(pending', v, w) /\ Mirrors(w)' /\ Extends(v, w)
    BY <1>1, <1>3, ContentReads
  <2>2. UNCHANGED <<byID, byIndex, currentTool, openTools, stopped>>
    BY <1>3 DEF HandleContent
  <2>3. SlotInv(w)'
    BY <1>1, <1>2, <2>1, <2>2, SlotsStay
  <2>4. frame \notin {"none", "tool_use", "redacted_thinking", "mute", "fed"}
    BY <1>3 DEF ContentKinds
  <2>5. ASSUME style = "framed"
        PROVE  UNCHANGED <<content, nextIndex>> /\ \A i \in w.open : i = frameIndex
    <3>1. content[frame] = frameIndex /\ \A i \in v.open : i = frameIndex
      BY <1>1, <1>3, <2>5 DEF FrameInv
    <3>2. UNCHANGED <<content, nextIndex>>
      BY <1>1, <1>3, <3>1 DEF HandleContent, NoBlock
    <3>3. \A i \in w.open : i \in openTools \/ \E c \in ContentKinds : content[c] = i
      BY <2>1, <2>2, <3>2 DEF Mirrors
    <3>4. \A i \in w.open : i # NoBlock
      BY DEF View, NoBlock
    <3>5. \A i \in w.open : i \in v.open
      BY <1>1, <3>3, <3>4 DEF Mirrors
    <3> QED
      BY <3>1, <3>2, <3>5
  <2>6. FrameInv(w)'
    BY <1>1, <1>2, <1>3, <2>4, <2>5 DEF FrameInv, Framed
  <2> QED
    BY <2>1, <2>3, <2>6 DEF Live
<1>4. CASE frame = "tool_use" /\ HandleToolDelta(NoIndex, lastTool)
  <2>1. currentTool \in openTools /\ v.blocks[currentTool + 1] = [kind |-> "tool_use", tool |-> lastTool]
    BY <1>1, <1>4 DEF FrameInv, Holds
  <2>2. currentTool \in v.open /\ currentTool # NoBlock
    BY <1>1, <2>1 DEF Mirrors, ConverterTypeOK, NoBlock
  <2>3. lastTool \in Tools
    <3>1. v.blocks[currentTool + 1] \in BlockType
      BY <1>1, <2>1, <2>2 DEF Mirrors, View, ConverterTypeOK
    <3> QED
      BY <2>1, <3>1 DEF BlockType
  <2>4. ToolDeltaIndex(NoIndex) = currentTool
    BY <2>2 DEF ToolDeltaIndex
  <2>5. Reads(pending', v, v) /\ Mirrors(v)'
    BY <1>1, <1>4, <2>1, <2>2, <2>3, <2>4, ToolDeltaReads
  <2>6. UNCHANGED <<byID, byIndex, currentTool, openTools, stopped, content, nextIndex>>
    BY <1>4 DEF HandleToolDelta
  <2>7. SlotInv(v)' /\ FrameInv(v)'
    BY <1>1, <1>2, <2>6 DEF SlotInv, FrameInv, Framed, Implicit, Holds
  <2> QED
    BY <2>5, <2>7 DEF Live
<1>5. frame # "fed"
  BY <1>1 DEF FrameInv
<1> QED
  BY <1>3, <1>4, <1>5 DEF FrameDelta

\* The stop of the block that runs, with the upstream's index or without one.
LEMMA FrameStopHeard ==
    ASSUME ConverterAssumption, TypeInv, LiveInv, source = "live", NEW v \in View, Live(v), FrameStop
    PROVE  \E w \in View : Reads(pending', v, w) /\ Live(w)'
<1>1. /\ ConverterInv /\ ConverterTypeOK /\ frameIndex \in Nat /\ started /\ nextIndex \in Nat
      /\ Mirrors(v) /\ SlotInv(v) /\ FrameInv(v) /\ pending = <<>>
  BY DEF TypeInv, TypeOK, ConverterInv, ConverterTypeOK, SourceTypeOK, Live, LiveInv, FrameStop, Ready
<1> DEFINE i == IF style = "framed" THEN frameIndex ELSE NoIndex
<1>2. /\ HandleBlockStop(i) /\ Framed /\ frame # "none" /\ frame' = "none"
      /\ frameIndex' = frameIndex + 1
      /\ UNCHANGED <<style, slot, lastTool>>
  BY DEF FrameStop
<1>3. i # NoIndex => i < nextIndex
  BY <1>1, <1>2 DEF FrameInv
<1>4. i \in Nat \cup {NoIndex} /\ (style # "framed" => i = NoIndex)
      /\ (style = "framed" => i = frameIndex)
  BY <1>1
<1> HIDE DEF i
<1>5. PICK w \in View :
          /\ Reads(pending', v, w) /\ Mirrors(w)'
          /\ w.blocks = v.blocks
          /\ w.open = IF i = NoIndex \/ i \in stopped THEN v.open ELSE v.open \ {i}
  BY <1>1, <1>2, <1>3, <1>4, BlockStopReads
<1>6. UNCHANGED <<byID, byIndex, currentTool, nextIndex>>
  BY <1>1, <1>2 DEF HandleBlockStop, Ignore, converterVars
<1>7. style # "framed" => UNCHANGED openTools
  BY <1>2, <1>4 DEF HandleBlockStop, Ignore, converterVars
<1>8. Extends(v, w)
  BY <1>5 DEF Extends, View
<1>9. SlotInv(w)'
  BY <1>1, <1>2, <1>5, <1>6, <1>7, <1>8, SlotsStay
<1>10. ASSUME style = "framed"
       PROVE  nextIndex' = frameIndex' /\ w.open = {}
  <2>1. nextIndex = frameIndex + 1 /\ \A j \in v.open : j = i
    BY <1>1, <1>2, <1>4, <1>10 DEF FrameInv
  <2>2. i # NoIndex
    BY <1>1, <1>4, <1>10 DEF ConverterAssumption
  <2>3. i \in stopped => v.open = {}
    BY <1>1, <2>1 DEF Mirrors
  <2> QED
    BY <1>2, <1>5, <1>6, <2>1, <2>2, <2>3
<1>11. FrameInv(w)'
  BY <1>2, <1>10 DEF FrameInv, Framed, ContentKinds
<1> QED
  BY <1>5, <1>9, <1>11 DEF Live

\* A provider of the implicit style runs no frame.
LEMMA NoFrame ==
    ASSUME Implicit, NEW v, NEW w, FrameInv(v), UNCHANGED <<style, frame>>
    PROVE  FrameInv(w)'
<1>1. style' = "implicit" /\ frame' = "none"
  BY DEF FrameInv, Framed, Implicit
<1> QED
  BY <1>1 DEF FrameInv, ContentKinds

\* Text or thinking of the implicit style.
LEMMA ImplicitContentHeard ==
    ASSUME TypeInv, NEW v \in View, Live(v), NEW k \in ContentKinds, NEW d \in BOOLEAN,
           ImplicitContent(k, d)
    PROVE  \E w \in View : Reads(pending', v, w) /\ Live(w)'
<1>1. ConverterInv /\ ConverterTypeOK /\ Mirrors(v) /\ SlotInv(v) /\ FrameInv(v)
  BY DEF TypeInv, TypeOK, ConverterInv, Live
<1>2. /\ HandleContent(k, d) /\ Implicit /\ UNCHANGED <<style, slot, lastTool, frame, frameIndex>>
  BY DEF ImplicitContent, sourceVars
<1>3. PICK w \in View : Reads(pending', v, w) /\ Mirrors(w)' /\ Extends(v, w)
  BY <1>1, <1>2, ContentReads
<1>4. UNCHANGED <<byID, byIndex, currentTool, openTools>>
  BY <1>2 DEF HandleContent
<1>5. SlotInv(w)'
  BY <1>1, <1>2, <1>3, <1>4, SlotsStay
<1>6. FrameInv(w)'
  BY <1>1, <1>2, NoFrame
<1> QED
  BY <1>3, <1>5, <1>6 DEF Live

\* A tool call the provider has announced before, named by its index or its id,
\* is taken up in the block it has.
LEMMA KnownToolHolds ==
    ASSUME ConverterAssumption, TypeInv, NEW v \in View, Live(v),
           NEW id \in ToolIDs, NEW x \in ToolIndexes \cup {NoIndex}, ImplicitTool(id, x),
           KnownTool(id, x) # NoBlock
    PROVE  Holds(KnownTool(id, x), id, v) /\ slot[id] = x
<1>1. /\ slot[id] \in {Unset, x} /\ style = "implicit" /\ SlotInv(v)
      /\ x # NoIndex => \A other \in ToolIDs \ {id} : slot[other] # x
  BY DEF ImplicitTool, Implicit, Live
<1>2. CASE x # NoIndex /\ byIndex[x] # NoBlock
  <2>1. slot[id] = x /\ x \in ToolIndexes
    BY <1>1, <1>2 DEF SlotInv
  <2> QED
    BY <1>1, <1>2, <2>1 DEF SlotInv, KnownTool
<1>3. CASE ~(x # NoIndex /\ byIndex[x] # NoBlock)
  <2>1. KnownTool(id, x) = byID[id] /\ byID[id] # NoBlock
    BY <1>3 DEF KnownTool, ConverterAssumption
  <2> QED
    BY <1>1, <2>1 DEF SlotInv
<1> QED
  BY <1>2, <1>3

\* A tool call of the implicit style with an id.
LEMMA ImplicitToolHeard ==
    ASSUME ConverterAssumption, NoToolAssumption, TypeInv, LiveInv, source = "live",
           NEW v \in View, Live(v),
           NEW id \in ToolIDs, NEW x \in ToolIndexes \cup {NoIndex}, ImplicitTool(id, x)
    PROVE  \E w \in View : Reads(pending', v, w) /\ Live(w)'
<1>1. /\ ConverterInv /\ ConverterTypeOK /\ toolMaps /\ nextIndex \in Nat
      /\ slot \in [ToolIDs -> {Unset, NoIndex} \cup ToolIndexes]
      /\ Mirrors(v) /\ SlotInv(v) /\ FrameInv(v)
  BY DEF TypeInv, TypeOK, ConverterInv, ConverterTypeOK, SourceTypeOK, Live, LiveInv
<1>2. /\ StartToolBlock(id, x) /\ Implicit /\ slot[id] \in {Unset, x}
      /\ x # NoIndex => \A other \in ToolIDs \ {id} : slot[other] # x
      /\ slot' = [slot EXCEPT ![id] = x] /\ lastTool' = id
      /\ UNCHANGED <<style, frame, frameIndex>>
  BY DEF ImplicitTool
<1>3. PICK w \in View : /\ Reads(pending', v, w) /\ Mirrors(w)' /\ Extends(v, w)
                        /\ KnownTool(id, x) = NoBlock =>
                               w.blocks[nextIndex + 1] = [kind |-> "tool_use", tool |-> id]
  BY <1>1, <1>2, ToolReads DEF Tools
<1>4. openTools \subseteq openTools'
  BY <1>1, <1>2 DEF StartToolBlock
<1>5. \A j, other : Holds(j, other, v) => Holds(j, other, w)'
  BY <1>1, <1>3, <1>4, HoldsStays
<1>6. /\ \A other \in ToolIDs \ {id} : slot'[other] = slot[other]
      /\ slot'[id] = x
  BY <1>1, <1>2
<1>7. ASSUME KnownTool(id, x) # NoBlock
      PROVE  SlotInv(w)'
  <2>1. Holds(KnownTool(id, x), id, v) /\ slot' = slot
    BY <1>1, <1>2, <1>7, KnownToolHolds
  <2>2. currentTool' = KnownTool(id, x) /\ UNCHANGED <<byID, byIndex>>
    BY <1>2, <1>7 DEF StartToolBlock
  <2>3. Holds(currentTool, lastTool, w)'
    BY <1>2, <1>5, <2>1, <2>2 DEF Holds
  <2>4. (\A other \in ToolIDs : byID[other] # NoBlock =>
             slot[other] # Unset /\ (style # "framed" => Holds(byID[other], other, w)))'
    BY <1>1, <1>2, <1>5, <2>1, <2>2 DEF SlotInv, Holds
  <2>5. (\A other \in ToolIDs : slot[other] \in ToolIndexes =>
             Implicit /\ Holds(byIndex[slot[other]], other, w))'
    BY <1>1, <1>2, <1>5, <2>1, <2>2 DEF SlotInv, Holds, Implicit
  <2>6. (\A y \in ToolIndexes : byIndex[y] # NoBlock => \E other \in ToolIDs : slot[other] = y)'
    BY <1>1, <2>1, <2>2 DEF SlotInv
  <2>7. (lastTool # NoTool /\ style # "framed" => Holds(currentTool, lastTool, w))'
    BY <2>3 DEF Holds
  <2> QED
    BY <2>4, <2>5, <2>6, <2>7 DEF SlotInv
<1>8. ASSUME KnownTool(id, x) = NoBlock
      PROVE  SlotInv(w)'
  <2>1. /\ currentTool' = nextIndex
        /\ openTools' = openTools \cup {nextIndex}
        /\ byIndex' = [y \in ToolIndexes |-> IF y = x THEN nextIndex ELSE byIndex[y]]
        /\ byID' = [y \in ToolIDs |-> IF y = id THEN nextIndex ELSE byID[y]]
    BY <1>1, <1>2, <1>8 DEF StartToolBlock
  <2>2. Holds(currentTool, id, w)'
    BY <1>3, <1>8, <2>1 DEF Holds
  <2>3. ASSUME NEW other \in ToolIDs, byID'[other] # NoBlock
        PROVE  (slot[other] # Unset /\ Holds(byID[other], other, w))'
    <3>1. CASE other = id
      <4>1. slot'[other] = x /\ byID'[other] = currentTool'
        BY <1>6, <2>1, <3>1
      <4> QED
        BY <2>2, <3>1, <4>1 DEF Unset, ConverterAssumption, Holds
    <3>2. CASE other # id
      <4>1. slot'[other] = slot[other] /\ byID'[other] = byID[other]
        BY <1>6, <2>1, <3>2
      <4>2. slot[other] # Unset /\ Holds(byID[other], other, v)
        BY <1>1, <1>2, <2>3, <4>1 DEF SlotInv, Implicit
      <4> QED
        BY <1>5, <4>1, <4>2 DEF Holds
    <3> QED
      BY <3>1, <3>2
  <2>4. ASSUME NEW other \in ToolIDs, slot'[other] \in ToolIndexes
        PROVE  Holds(byIndex[slot[other]], other, w)'
    <3>1. CASE other = id
      <4>1. byIndex'[slot'[other]] = currentTool'
        BY <1>6, <2>1, <2>4, <3>1
      <4> QED
        BY <2>2, <3>1, <4>1 DEF Holds
    <3>2. CASE other # id
      <4>1. slot'[other] = slot[other] /\ slot[other] # x
        BY <1>2, <1>6, <2>4, <3>2 DEF ConverterAssumption
      <4>2. byIndex'[slot'[other]] = byIndex[slot[other]]
        BY <2>1, <2>4, <4>1
      <4>3. Holds(byIndex[slot[other]], other, v)
        BY <1>1, <2>4, <4>1 DEF SlotInv
      <4> QED
        BY <1>5, <4>2, <4>3 DEF Holds
    <3> QED
      BY <3>1, <3>2
  <2>5. ASSUME NEW y \in ToolIndexes, byIndex'[y] # NoBlock
        PROVE  \E other \in ToolIDs : slot'[other] = y
    <3>1. CASE y = x
      BY <1>6, <3>1
    <3>2. CASE y # x
      <4>1. PICK other \in ToolIDs : slot[other] = y
        BY <1>1, <2>1, <2>5, <3>2 DEF SlotInv
      <4>2. other # id
        BY <1>2, <3>2, <4>1 DEF Unset, ConverterAssumption
      <4> QED
        BY <1>6, <4>1, <4>2
    <3> QED
      BY <3>1, <3>2
  <2>6. Implicit'
    BY <1>2 DEF Implicit
  <2>7. (\A other \in ToolIDs : byID[other] # NoBlock =>
             slot[other] # Unset /\ (style # "framed" => Holds(byID[other], other, w)))'
    BY <2>3 DEF Holds
  <2>8. (\A other \in ToolIDs : slot[other] \in ToolIndexes =>
             Implicit /\ Holds(byIndex[slot[other]], other, w))'
    BY <2>4, <2>6 DEF Holds, Implicit
  <2>9. (\A y \in ToolIndexes : byIndex[y] # NoBlock => \E other \in ToolIDs : slot[other] = y)'
    BY <2>5
  <2>10. (lastTool # NoTool /\ style # "framed" => Holds(currentTool, lastTool, w))'
    BY <1>2, <2>2 DEF Holds
  <2> QED
    BY <2>7, <2>8, <2>9, <2>10 DEF SlotInv
<1>9. FrameInv(w)'
  BY <1>1, <1>2, NoFrame
<1> QED
  BY <1>3, <1>7, <1>8, <1>9 DEF Live

\* A tool call without id and index is a new one.
LEMMA AnonymousToolHeard ==
    ASSUME ConverterAssumption, TypeInv, LiveInv, NEW v \in View, Live(v), ImplicitAnonymousTool
    PROVE  \E w \in View : Reads(pending', v, w) /\ Live(w)'
<1>1. source = "live"
  BY DEF ImplicitAnonymousTool, Ready
<1>2. /\ ConverterInv /\ ConverterTypeOK /\ toolMaps /\ nextIndex \in Nat
      /\ Mirrors(v) /\ SlotInv(v) /\ FrameInv(v)
  BY <1>1 DEF TypeInv, TypeOK, ConverterInv, ConverterTypeOK, Live, LiveInv
<1>3. /\ StartToolBlock(NoID, NoIndex) /\ Implicit /\ lastTool' = NoID
      /\ UNCHANGED <<style, frame, frameIndex, slot>>
  BY DEF ImplicitAnonymousTool
<1>4. KnownTool(NoID, NoIndex) = NoBlock
  BY DEF KnownTool
<1>5. PICK w \in View : /\ Reads(pending', v, w) /\ Mirrors(w)' /\ Extends(v, w)
                        /\ w.blocks[nextIndex + 1] = [kind |-> "tool_use", tool |-> NoID]
  BY <1>2, <1>3, <1>4, ToolReads DEF Tools
<1>6. /\ currentTool' = nextIndex /\ openTools' = openTools \cup {nextIndex}
      /\ byIndex' = [y \in ToolIndexes |-> IF y = NoIndex THEN nextIndex ELSE byIndex[y]]
      /\ byID' = [y \in ToolIDs |-> IF y = NoID THEN nextIndex ELSE byID[y]]
  BY <1>2, <1>3, <1>4 DEF StartToolBlock
<1>7. byIndex' = byIndex /\ byID' = byID
  BY <1>2, <1>6 DEF ConverterTypeOK, ConverterAssumption
<1>8. \A j, other : Holds(j, other, v) => Holds(j, other, w)'
  BY <1>2, <1>5, <1>6, HoldsStays
<1>9. Holds(currentTool, lastTool, w)'
  BY <1>3, <1>5, <1>6 DEF Holds
<1>10. SlotInv(w)'
  BY <1>2, <1>3, <1>7, <1>8, <1>9 DEF SlotInv, Holds, Implicit
<1>11. FrameInv(w)'
  BY <1>2, <1>3, NoFrame
<1> QED
  BY <1>5, <1>10, <1>11 DEF Live

\* A fragment of arguments reaches the block of its tool call.
LEMMA FragmentHeard ==
    ASSUME ConverterAssumption, NoToolAssumption, TypeInv, NEW v \in View, Live(v),
           NEW id \in ToolIDs \cup {NoID}, ImplicitFragment(id)
    PROVE  \E w \in View : Reads(pending', v, w) /\ Live(w)'
<1>1. /\ ConverterTypeOK /\ openTools \subseteq Nat
      /\ Mirrors(v) /\ SlotInv(v) /\ FrameInv(v)
  BY DEF TypeInv, TypeOK, ConverterTypeOK, Live
<1>2. Implicit /\ UNCHANGED <<style, slot, lastTool, frame, frameIndex>>
  BY DEF ImplicitFragment, sourceVars
<1>3. PICK x : HandleToolDelta(x, id) /\ Holds(ToolDeltaIndex(x), id, v)
  <2>1. CASE id \in ToolIDs /\ slot[id] \in ToolIndexes /\ HandleToolDelta(slot[id], id)
    <3>1. Holds(byIndex[slot[id]], id, v)
      BY <1>1, <2>1 DEF SlotInv
    <3>2. byIndex[slot[id]] # NoBlock /\ slot[id] # NoIndex
      BY <1>1, <2>1, <3>1 DEF Holds, NoBlock, ConverterAssumption
    <3> QED
      BY <2>1, <3>1, <3>2 DEF ToolDeltaIndex
  <2>2. CASE id = lastTool /\ HandleToolDelta(NoIndex, id)
    <3>1. Holds(currentTool, id, v)
      BY <1>1, <1>2, <2>2 DEF SlotInv, Implicit, NoToolAssumption
    <3>2. currentTool # NoBlock
      BY <1>1, <3>1 DEF Holds, NoBlock
    <3> QED
      BY <2>2, <3>1, <3>2 DEF ToolDeltaIndex
  <2> QED
    BY <2>1, <2>2 DEF ImplicitFragment
<1>4. Reads(pending', v, v) /\ Mirrors(v)'
  <2>1. ToolDeltaIndex(x) \in v.open /\ v.blocks[ToolDeltaIndex(x) + 1] = [kind |-> "tool_use", tool |-> id]
    BY <1>1, <1>3 DEF Holds, Mirrors
  <2> QED
    BY <1>1, <1>3, <2>1, ToolDeltaReads DEF Tools
<1>5. UNCHANGED <<byID, byIndex, currentTool, openTools>>
  BY <1>3 DEF HandleToolDelta
<1>6. SlotInv(v)'
  BY <1>1, <1>2, <1>5 DEF SlotInv, Implicit, Holds
<1>7. FrameInv(v)'
  BY <1>1, <1>2, NoFrame
<1> QED
  BY <1>4, <1>6, <1>7 DEF Live

\* What a client is up to depends on neither the batch nor what it was told.
LEMMA FutureStays ==
    ASSUME NEW w, UNCHANGED <<started, nextIndex, content, currentTool, openTools, byIndex, byID,
                              stopHandled, stopped, sourceVars>>
    PROVE  Live(w)' = Live(w) /\ Future(w)' = Future(w)
<1>1. UNCHANGED <<style, source, frame, frameIndex, slot, lastTool>>
  BY DEF sourceVars
<1>2. Mirrors(w)' = Mirrors(w)
  BY DEF Mirrors
<1>3. \A i, id : Holds(i, id, w)' = Holds(i, id, w)
  BY DEF Holds
<1>4. SlotInv(w)' = SlotInv(w)
  BY <1>1, <1>3 DEF SlotInv, Implicit, Holds
<1>5. FrameInv(w)' = FrameInv(w)
  BY <1>1, <1>3 DEF FrameInv, Framed, Holds
<1>6. Live(w)' = Live(w)
  BY <1>2, <1>4, <1>5 DEF Live
<1>7. Unheard(w)' = Unheard(w) /\ Finished(w)' = Finished(w)
  BY <1>1 DEF Unheard, Finished, Babble
<1> QED
  BY <1>1, <1>6, <1>7 DEF Future, Over, Babble

\* The message starts.
LEMMA StartHeard ==
    ASSUME ConverterAssumption, NEW v \in View, Unheard(v), ProviderStart
    PROVE  \E w \in View : Reads(pending', v, w) /\ Live(w)'
<1>1. HandleStart /\ UNCHANGED <<style, frame, frameIndex, slot, lastTool>>
  BY DEF ProviderStart
<1>2. PICK w \in View : Reads(pending', v, w) /\ Mirrors(w)'
  BY <1>1, StartReads DEF Unheard
<1>3. /\ nextIndex' = 0 /\ byID' = [x \in ToolIDs |-> NoBlock]
      /\ byIndex' = [x \in ToolIndexes |-> NoBlock]
  BY <1>1 DEF HandleStart
<1>4. w.open = {}
  BY <1>2, <1>3 DEF Mirrors, View
<1>5. SlotInv(w)'
  BY <1>1, <1>3 DEF SlotInv, Unheard, Unset, ConverterAssumption
<1>6. FrameInv(w)'
  BY <1>1, <1>3, <1>4 DEF FrameInv, Unheard, ContentKinds
<1> QED
  BY <1>2, <1>5, <1>6 DEF Live

\* A provider that is live offers content, a usage or a metadata event.
LEMMA ContentHeard ==
    ASSUME ConverterAssumption, NoToolAssumption, Dropped = {}, TypeInv, LiveInv, source = "live",
           NEW v \in View, Live(v), Convert, source' = "live",
           ~\E r \in ProviderReasons : ProviderStop(r)
    PROVE  \E w \in View : Reads(pending', v, w) /\ Live(w)'
<1>1. CASE ProviderUsage \/ ProviderMetadata
  <2>1. HandleUsage \/ HandleMetadata
    BY <1>1 DEF ProviderUsage, ProviderMetadata
  <2>2. Reads(pending', v, v)
    BY <2>1, PassedOnReads DEF Live
  <2>3. Live(v)'
    BY <1>1, FutureStays DEF ProviderUsage, ProviderMetadata, HandleUsage, HandleMetadata
  <2> QED
    BY <2>2, <2>3
<1>2. ASSUME NEW k \in ContentKinds, FrameContent(k)
      PROVE  \E w \in View : Reads(pending', v, w) /\ Live(w)'
  BY <1>2, FrameContentHeard
<1>3. ASSUME NEW id \in ToolIDs, FrameTool(id)
      PROVE  \E w \in View : Reads(pending', v, w) /\ Live(w)'
  BY <1>3, FrameToolHeard
<1>4. CASE FrameRedacted
  BY <1>4, FrameRedactedHeard
<1>5. CASE FrameDelta
  BY <1>5, FrameDeltaHeard
<1>6. CASE FrameStop
  BY <1>6, FrameStopHeard
<1>7. ASSUME NEW k \in ContentKinds, NEW d \in BOOLEAN, ImplicitContent(k, d)
      PROVE  \E w \in View : Reads(pending', v, w) /\ Live(w)'
  BY <1>7, ImplicitContentHeard
<1>8. ASSUME NEW id \in ToolIDs, NEW x \in ToolIndexes \cup {NoIndex}, ImplicitTool(id, x)
      PROVE  \E w \in View : Reads(pending', v, w) /\ Live(w)'
  BY <1>8, ImplicitToolHeard
<1>9. CASE ImplicitAnonymousTool
  BY <1>9, AnonymousToolHeard
<1>10. ASSUME NEW id \in ToolIDs \cup {NoID}, ImplicitFragment(id)
       PROVE  \E w \in View : Reads(pending', v, w) /\ Live(w)'
  BY <1>10, FragmentHeard
<1>11. ~ProviderStart /\ ~ProviderError /\ ~ProviderDone
  BY DEF ProviderStart, ProviderError, ProviderDone, Ready
<1> QED
  BY <1>1, <1>2, <1>3, <1>4, <1>5, <1>6, <1>7, <1>8, <1>9, <1>10, <1>11 DEF Convert

\* The provider fails or is done: whatever was open is stopped and the message
\* ended, but only if it was started and has not been ended before.
LEMMA EndHeard ==
    ASSUME ConverterAssumption, TypeInv, LiveInv, NEW v \in View, Future(v), ~Babble,
           ProviderError \/ ProviderDone
    PROVE  /\ Over'
           /\ \E w \in View : Reads(pending', v, w) /\ Finished(w)'
<1>1. /\ ConverterInv /\ UNCHANGED started
      /\ source \in {"silent", "live", "failed"}
      /\ source = "failed" => ProviderDone
      /\ pending = <<>>
  BY DEF TypeInv, TypeOK, ConverterInv, Babble, ProviderError, ProviderDone, Ready, Sending,
         HandleError, HandleDone, HandleStop, Ignore, converterVars
<1>2. /\ source' \in {"failed", "done", "babbling"}
      /\ source' = "babbling" => source = "live"
  BY <1>1 DEF ProviderError, ProviderDone, Ready, Sending, Babble
<1>3. Over' /\ (Babble' => source = "live")
  BY <1>2 DEF Over, Babble
<1>4. HandleError \/ HandleDone
  BY DEF ProviderError, ProviderDone
<1>5. CASE source = "live"
  <2>1. started /\ ~stopHandled /\ Mirrors(v)
    BY <1>5 DEF LiveInv, Future, Live
  <2>2. PICK prefix \in {<<>>, <<Message("error")>>} : HandleStop(prefix)
    BY <1>4, <2>1 DEF HandleError, HandleDone
  <2>3. PICK w \in View : Reads(pending', v, w) /\ w.phase = "ended"
    BY <1>1, <2>1, <2>2, EndReads
  <2>4. Finished(w)'
    BY <1>1, <2>1, <2>2, <2>3 DEF Finished, HandleStop
  <2> QED
    BY <1>3, <2>3, <2>4
<1>6. CASE source = "silent"
  <2>1. ~started /\ v.phase = "idle"
    BY <1>6 DEF Future, Unheard
  <2>2. pending' = <<>> \/ pending' = <<Message("error")>>
    BY <1>1, <1>4, <2>1 DEF HandleError, HandleDone, Ignore, converterVars
  <2>3. Reads(pending', v, v)
    BY <2>1, <2>2, ReadsNothing, ReadsPassed
  <2>4. Finished(v)'
    BY <1>1, <1>3, <1>6, <2>1 DEF Finished
  <2> QED
    BY <1>3, <2>3, <2>4
<1>7. CASE source = "failed"
  <2>1. Finished(v)
    BY <1>7 DEF Future, Over
  <2>2. HandleDone
    BY <1>1, <1>7 DEF ProviderDone
  <2>3. pending' = <<>> /\ UNCHANGED stopHandled
    BY <1>1, <2>1, <2>2 DEF Finished, HandleDone, Ignore, converterVars
  <2>4. Finished(v)'
    BY <1>1, <1>3, <1>7, <2>1, <2>3 DEF Finished
  <2> QED
    BY <1>3, <2>3, <2>4, ReadsNothing
<1> QED
  BY <1>1, <1>5, <1>6, <1>7

\* A client that has read all it was sent knows what is to come, unless its
\* provider reads on after an error.
LEMMA AtRest ==
    ASSUME ClientInv, pending = <<>>
    PROVE  \/ Babble /\ phase \in {"ended", "broken"}
           \/ ~Babble /\ Told \in View /\ Future(Told)
<1>1. ASSUME NEW w \in View, Reads(pending, Told, w), Future(w)
      PROVE  \/ Babble /\ phase \in {"ended", "broken"}
             \/ ~Babble /\ Told \in View /\ Future(Told)
  <2>1. \E f \in [0..0 -> View] : f[0] = Told /\ f[0] = w
    BY <1>1 DEF Reads
  <2>2. w = Told
    BY <2>1
  <2>3. Babble => phase = "ended"
    BY <1>1, <2>2 DEF Future, Finished, Over, Told
  <2> QED
    BY <1>1, <2>2, <2>3
<1> QED
  BY <1>1 DEF ClientInv

\* The converter's events keep the client's future.
LEMMA ConvertHeard ==
    ASSUME ConverterAssumption, NoToolAssumption, Dropped = {}, TypeInv, LiveInv, ClientInv, Convert
    PROVE  ClientInv'
<1>1. pending = <<>> /\ UNCHANGED clientVars
  BY DEF Convert, ProviderStart, ProviderUsage, ProviderMetadata, ProviderStop, ProviderError,
         ProviderDone, FrameContent, FrameTool, FrameRedacted, FrameDropped, FrameDelta, FrameStop,
         ImplicitContent, ImplicitTool, ImplicitAnonymousTool, ImplicitFragment, Ready
<1>2. Told' = Told /\ phase' = phase
  BY <1>1 DEF clientVars, Told
<1>3. CASE Babble
  <2>1. phase \in {"ended", "broken"}
    BY <1>1, <1>3, AtRest
  <2>2. Babble'
    BY <1>3 DEF Babble, Convert, ProviderStart, ProviderUsage, ProviderMetadata, ProviderStop,
           ProviderError, ProviderDone, FrameContent, FrameTool, FrameRedacted, FrameDropped,
           FrameDelta, FrameStop, ImplicitContent, ImplicitTool, ImplicitAnonymousTool,
           ImplicitFragment, Ready, Sending, sourceVars
  <2> QED
    BY <1>2, <2>1, <2>2 DEF ClientInv
<1>4. CASE ~Babble
  <2>1. PICK v \in View : v = Told /\ Future(v)
    BY <1>1, <1>4, AtRest
  <2>2. \A w \in View : Reads(pending', v, w) /\ Future(w)' => ClientInv'
    BY <1>2, <2>1 DEF ClientInv
  <2>3. CASE ProviderStart
    <3>1. Unheard(v) /\ source' = "live"
      BY <2>1, <2>3 DEF ProviderStart, Ready, Future
    <3>2. PICK w \in View : Reads(pending', v, w) /\ Live(w)'
      BY <2>3, <3>1, StartHeard
    <3>3. Future(w)'
      BY <3>1, <3>2 DEF Future, Over, Babble
    <3> QED
      BY <2>2, <3>2, <3>3
  <2>4. ASSUME NEW r \in ProviderReasons, ProviderStop(r) PROVE ClientInv'
    <3>1. pending' = <<>> /\ Reads(pending', v, v)
      BY <1>1, <2>4, ReadsNothing DEF ProviderStop, RecordFinishReason
    <3>2. UNCHANGED <<started, nextIndex, content, currentTool, openTools, byIndex, byID,
                      stopHandled, stopped, style, source, frame, frameIndex, slot, lastTool>>
      BY <2>4 DEF ProviderStop, RecordFinishReason
    <3>3. Future(v)'
      BY <2>1, <3>2 DEF Future, Over, Babble, Unheard, Finished, Live, Mirrors, SlotInv, FrameInv,
             Holds, Framed, Implicit
    <3> QED
      BY <2>2, <3>1, <3>3
  <2>5. CASE ProviderError \/ ProviderDone
    <3>1. Over' /\ source' # "silent" /\ source' # "live"
      BY <1>4, <2>1, <2>5, EndHeard DEF Over, Babble
    <3>2. PICK w \in View : Reads(pending', v, w) /\ Finished(w)'
      BY <1>4, <2>1, <2>5, EndHeard
    <3>3. Future(w)'
      BY <3>1, <3>2 DEF Future
    <3> QED
      BY <2>2, <3>2, <3>3
  <2>6. CASE ~ProviderStart /\ ~ProviderError /\ ~ProviderDone
             /\ ~\E r \in ProviderReasons : ProviderStop(r)
    <3>1. source \in Sending /\ UNCHANGED source
      BY <2>6 DEF Convert, ProviderUsage, ProviderMetadata, FrameContent, FrameTool, FrameRedacted,
             FrameDropped, FrameDelta, FrameStop, ImplicitContent, ImplicitTool,
             ImplicitAnonymousTool, ImplicitFragment, Ready, Sending, sourceVars
    <3>2. source = "live" /\ source' = "live" /\ Live(v)
      BY <1>4, <2>1, <3>1 DEF Sending, Babble, Future
    <3>3. PICK w \in View : Reads(pending', v, w) /\ Live(w)'
      BY <2>6, <3>2, ContentHeard
    <3>4. Future(w)'
      BY <3>2, <3>3 DEF Future, Over, Babble
    <3> QED
      BY <2>2, <3>3, <3>4
  <2> QED
    BY <2>3, <2>4, <2>5, <2>6
<1> QED
  BY <1>3, <1>4

\* The client takes the next event, which it makes sense of.
LEMMA EmitHeard ==
    ASSUME TypeInv, ClientInv, Emit
    PROVE  /\ ClientInv'
           /\ \/ Babble /\ phase \in {"ended", "broken"}
              \/ Told \in View /\ Accepts(Head(pending), Told)
<1>1. /\ pending \in Seq(EventType) /\ pending # <<>>
      /\ pending' = Tail(pending) /\ Receive(Head(pending))
      /\ UNCHANGED <<started, nextIndex, content, currentTool, openTools, byIndex, byID,
                     stopHandled, stopped, sourceVars>>
  BY DEF TypeInv, TypeOK, ConverterTypeOK, Emit
<1>2. CASE Babble /\ phase \in {"ended", "broken"}
  <2>1. phase' \in {"ended", "broken"}
    BY <1>1, <1>2 DEF Receive, Acceptable, NextPhase, IsFinal
  <2>2. Babble'
    BY <1>1, <1>2 DEF sourceVars, Babble
  <2> QED
    BY <1>2, <2>1, <2>2 DEF ClientInv
<1>3. ASSUME NEW w \in View, Reads(pending, Told, w), Future(w)
      PROVE  ClientInv' /\ Told \in View /\ Accepts(Head(pending), Told)
  <2>1. Told \in View
    <3>1. \E f \in [0..Len(pending) -> View] : f[0] = Told
      BY <1>3 DEF Reads
    <3>2. 0 \in 0..Len(pending)
      BY <1>1
    <3> QED
      BY <3>1, <3>2
  <2>2. PICK v \in View : v = Told
    BY <2>1
  <2>3. Accepts(Head(pending), v) /\ Reads(Tail(pending), After(Head(pending), v), w)
    BY <1>1, <1>3, <2>2, ReadsHead
  <2>4. Told' = After(Head(pending), v)
    BY <1>1, <2>1, <2>2, <2>3, ReceiveIsAfter
  <2>5. Reads(pending, Told, w)'
    BY <1>1, <2>3, <2>4
  <2>6. Future(w)'
    BY <1>1, <1>3, FutureStays
  <2> QED
    BY <2>1, <2>2, <2>3, <2>5, <2>6 DEF ClientInv
<1> QED
  BY <1>2, <1>3 DEF ClientInv

\* A step that changes nothing.
LEMMA StutterHeard ==
    ASSUME ClientInv, UNCHANGED vars
    PROVE  ClientInv'
<1>1. UNCHANGED <<converterVars, clientVars, sourceVars>>
  BY DEF vars
<1>2. /\ UNCHANGED <<started, nextIndex, content, currentTool, openTools, byIndex, byID,
                     stopHandled, stopped, sourceVars>>
      /\ pending' = pending /\ Told' = Told /\ phase' = phase /\ Babble' = Babble
  BY <1>1 DEF converterVars, clientVars, sourceVars, Told, Babble
<1>3. ASSUME NEW w \in View, Reads(pending, Told, w), Future(w)
      PROVE  ClientInv'
  <2>1. Reads(pending, Told, w)' /\ Future(w)'
    BY <1>2, <1>3, FutureStays
  <2> QED
    BY <2>1 DEF ClientInv
<1>4. CASE Babble /\ phase \in {"ended", "broken"}
  BY <1>2, <1>4 DEF ClientInv
<1> QED
  BY <1>3, <1>4 DEF ClientInv

\* When no block is dropped on the way, the client's future is sound.
LEMMA ClientHeard ==
    ASSUME Dropped = {}
    PROVE  Spec => []ClientInv
<1>1. TypeInv /\ LiveInv /\ ClientInv /\ [Next]_vars => ClientInv'
  BY ConverterAssumption, NoToolAssumption, ConvertHeard, EmitHeard, StutterHeard DEF Next
<1> QED
  BY <1>1, ClientInit0, TypeInvariant, Lively, PTL DEF Spec

\* No strict client is ever sent an event it cannot make sense of, unless the
\* adapter reads on after an error (convert.go:642-1108): for any number of tool
\* calls, indexes and blocks and whatever the style of the provider, as long as
\* the adapter forwards every block it stops.
THEOREM ClientIsNeverBroken ==
    ASSUME Dropped = {}
    PROVE  Spec => []ClientNeverBroken
<1>1. TypeInv /\ ClientInv => ClientNeverBroken
  <2>1. ASSUME NEW w \in View, Reads(pending, Told, w), pending \in Seq(EventType)
        PROVE  phase # "broken"
    <3>1. \E f \in [0..Len(pending) -> View] : f[0] = Told
      BY <2>1 DEF Reads
    <3>2. 0 \in 0..Len(pending)
      BY <2>1
    <3>3. Told \in View
      BY <3>1, <3>2
    <3> QED
      BY <3>3 DEF View, Told
  <2>2. TypeInv => pending \in Seq(EventType)
    BY DEF TypeInv, TypeOK, ConverterTypeOK
  <2> QED
    BY <2>1, <2>2 DEF ClientInv, ClientNeverBroken
<1> QED
  BY <1>1, ClientHeard, TypeInvariant, PTL

-----------------------------------------------------------------------------
(* What the client is told implements the documented block protocol.        *)

OpenInv == \A i \in open : i < Len(blocks)

\* A client holds only blocks open that it was told about.
LEMMA OpenIsKnown ==
    ASSUME Told \in View, OpenInv, NEW e \in EventType, Accepts(e, Told), Told' = After(e, Told)
    PROVE  OpenInv'
<1>1. /\ blocks \in Seq(BlockType) /\ open \in SUBSET Nat
      /\ blocks' = IF e.type = "block_start"
                   THEN Append(blocks, [kind |-> e.info, tool |-> e.tool])
                   ELSE blocks
      /\ open' = IF e.type = "block_start" THEN open \cup {e.index}
                 ELSE IF e.type = "block_stop" THEN open \ {e.index}
                 ELSE open
      /\ e.type = "block_start" => e.index = Len(blocks)
  BY DEF Told, View, After, Accepts, IsFinal
<1>2. CASE e.type = "block_start"
  <2>1. Len(blocks) \in Nat /\ Len(blocks') = Len(blocks) + 1
    BY <1>1, <1>2
  <2>2. \A i \in open' : i \in Nat /\ i <= Len(blocks)
    BY <1>1, <1>2, <2>1 DEF OpenInv
  <2> QED
    BY <2>1, <2>2 DEF OpenInv
<1>3. CASE e.type # "block_start"
  BY <1>1, <1>3 DEF OpenInv
<1> QED
  BY <1>2, <1>3

\* An event that is accepted is a step of the protocol, or tells it nothing.
LEMMA AcceptedFollows ==
    ASSUME Told \in View, OpenInv, NEW e \in EventType, Accepts(e, Told), Told' = After(e, Told)
    PROVE  [Protocol!Next]_(Protocol!vars)
<1>1. /\ phase \in {"idle", "streaming", "closing", "ended"}
      /\ blocks \in Seq(BlockType) /\ open \in SUBSET Nat
      /\ phase' = PhaseAfter(e, Told)
      /\ blocks' = IF e.type = "block_start"
                   THEN Append(blocks, [kind |-> e.info, tool |-> e.tool])
                   ELSE blocks
      /\ open' = IF e.type = "block_start" THEN open \cup {e.index}
                 ELSE IF e.type = "block_stop" THEN open \ {e.index}
                 ELSE open
      /\ reason' = IF IsFinal(e) THEN e.info ELSE reason
  BY DEF Told, View, After
<1>2. phase # "broken" /\ phase' # "broken"
  BY <1>1 DEF PhaseAfter, Told
<1>3. CASE e.type = "message_start"
  <2>1. phase = "idle" /\ phase' = "streaming" /\ UNCHANGED <<blocks, open, reason>>
    BY <1>1, <1>3 DEF Accepts, PhaseAfter, IsFinal, Told
  <2> QED
    BY <2>1 DEF Protocol!Next, Protocol!MessageStart
<1>4. CASE e.type = "block_start"
  <2> DEFINE b == [kind |-> e.info, tool |-> e.tool]
  <2>1. b \in BlockType
    BY <1>4 DEF EventType, BlockType
  <2>2. /\ phase = "streaming" /\ e.index = Len(blocks)
        /\ \A i \in open : blocks[i + 1].kind = "tool_use"
    BY <1>4 DEF Accepts, IsFinal, Told
  <2>3. phase' = phase /\ reason' = reason
    BY <1>1, <1>4 DEF PhaseAfter, IsFinal, Told
  <2>4. \A i \in open : blocks[i + 1] \in BlockType
    BY <1>1 DEF OpenInv
  <2>5. Protocol!BlockStart(b)
    BY <1>1, <1>2, <1>4, <2>2, <2>3, <2>4 DEF Protocol!BlockStart
  <2> QED
    BY <2>1, <2>5 DEF Protocol!Next
<1>5. CASE e.type = "block_stop"
  <2>1. phase = "streaming" /\ e.index \in open /\ open' = open \ {e.index}
        /\ UNCHANGED <<phase, blocks, reason>>
    BY <1>1, <1>5 DEF Accepts, PhaseAfter, IsFinal, Told
  <2> QED
    BY <2>1 DEF Protocol!Next, Protocol!BlockStop
<1>6. CASE IsFinal(e)
  <2>1. e.info \in StopReasons /\ e.type = "message_delta"
    BY <1>6 DEF EventType, IsFinal
  <2>2. phase = "streaming" /\ open = {} /\ phase' = "closing" /\ reason' = e.info
        /\ UNCHANGED <<blocks, open>>
    BY <1>1, <1>6, <2>1 DEF Accepts, PhaseAfter, Told
  <2> QED
    BY <2>1, <2>2 DEF Protocol!Next, Protocol!FinalDelta
<1>7. CASE e.type = "message_stop"
  <2>1. phase = "closing" /\ phase' = "ended" /\ UNCHANGED <<blocks, open, reason>>
    BY <1>1, <1>7 DEF Accepts, PhaseAfter, IsFinal, Told
  <2> QED
    BY <2>1 DEF Protocol!Next, Protocol!MessageStop
<1>8. CASE e.type \notin {"message_start", "block_start", "block_stop", "message_stop"} /\ ~IsFinal(e)
  <2>1. UNCHANGED <<phase, blocks, open, reason>>
    BY <1>1, <1>8 DEF PhaseAfter, Told
  <2> QED
    BY <2>1 DEF Protocol!vars
<1> QED
  BY <1>3, <1>4, <1>5, <1>6, <1>7, <1>8

\* Taking an event from the batch.
LEMMA EmitFollows ==
    ASSUME TypeInv, ClientInv, OpenInv, Emit
    PROVE  OpenInv' /\ [Protocol!Next]_(Protocol!vars)
<1>1. /\ pending \in Seq(EventType) /\ pending # <<>> /\ Receive(Head(pending))
  BY DEF TypeInv, TypeOK, ConverterTypeOK, Emit
<1>2. Head(pending) \in EventType
  BY <1>1, HeadTailProperties
<1>3. CASE Told \in View /\ Accepts(Head(pending), Told)
  <2>1. Told' = After(Head(pending), Told)
    BY <1>1, <1>3, ReceiveIsAfter
  <2> QED
    BY <1>2, <1>3, <2>1, OpenIsKnown, AcceptedFollows
<1>4. CASE phase \in {"ended", "broken"}
  <2>1. phase' \in {"ended", "broken"} /\ UNCHANGED <<blocks, open, reason>>
    BY <1>1, <1>4 DEF Receive, Acceptable, NextPhase, IsFinal
  <2> QED
    BY <1>4, <2>1 DEF OpenInv, Protocol!vars
<1> QED
  BY <1>3, <1>4, EmitHeard

\* What a client is told, step by step, is a behaviour of the block protocol the
\* documentation promises (README.md:89): whatever the provider offers, as long
\* as its adapter forwards every block it stops.
THEOREM StreamFollowsProtocol ==
    ASSUME Dropped = {}
    PROVE  Spec => FollowsProtocol
<1>1. Init => OpenInv /\ Protocol!Init
  BY DEF Init, ClientInit, OpenInv, Protocol!Init
<1>2. TypeInv /\ ClientInv /\ OpenInv /\ [Next]_vars => OpenInv' /\ [Protocol!Next]_(Protocol!vars)
  <2>1. ASSUME UNCHANGED clientVars, OpenInv
        PROVE  OpenInv' /\ [Protocol!Next]_(Protocol!vars)
    BY <2>1 DEF clientVars, OpenInv, Protocol!vars
  <2>2. Convert \/ UNCHANGED vars => UNCHANGED clientVars
    BY DEF Convert, ProviderStart, ProviderUsage, ProviderMetadata, ProviderStop, ProviderError,
           ProviderDone, FrameContent, FrameTool, FrameRedacted, FrameDropped, FrameDelta, FrameStop,
           ImplicitContent, ImplicitTool, ImplicitAnonymousTool, ImplicitFragment, Ready, vars
  <2> QED
    BY <2>1, <2>2, EmitFollows DEF Next
<1> QED
  BY <1>1, <1>2, TypeInvariant, ClientHeard, PTL DEF Spec, FollowsProtocol, Protocol!Spec

-----------------------------------------------------------------------------
(* Once the end was converted and sent, no block is left open.              *)

EndInv ==
    /\ stopHandled => started
    /\ phase \in {"closing", "ended", "broken"} => open = {}

\* Only a message that was started is brought to its end.
LEMMA ConvertEnds ==
    ASSUME EndInv, Convert \/ UNCHANGED vars
    PROVE  EndInv'
<1>1. UNCHANGED <<phase, open>>
  BY DEF Convert, ProviderStart, ProviderUsage, ProviderMetadata, ProviderStop, ProviderError,
         ProviderDone, FrameContent, FrameTool, FrameRedacted, FrameDropped, FrameDelta, FrameStop,
         ImplicitContent, ImplicitTool, ImplicitAnonymousTool, ImplicitFragment, Ready, vars,
         clientVars
<1>2. CASE ProviderStart
  BY <1>1, <1>2 DEF EndInv, ProviderStart, HandleStart
<1>3. CASE ProviderError \/ ProviderDone
  BY <1>1, <1>3 DEF EndInv, ProviderError, ProviderDone, HandleError, HandleDone, HandleStop, Ignore,
         converterVars
<1>4. CASE ~ProviderStart /\ ~ProviderError /\ ~ProviderDone
  <2>1. UNCHANGED <<started, stopHandled>>
    BY <1>4 DEF Convert, ProviderUsage, ProviderMetadata, ProviderStop, FrameContent, FrameTool,
           FrameRedacted, FrameDropped, FrameDelta, FrameStop, ImplicitContent, ImplicitTool,
           ImplicitAnonymousTool, ImplicitFragment, HandleUsage, HandleMetadata, RecordFinishReason,
           HandleContent, StartToolBlock, Panic, HandleRedacted, HandleToolDelta, HandleBlockStop,
           Ignore, converterVars, vars
  <2> QED
    BY <1>1, <2>1 DEF EndInv
<1> QED
  BY <1>1, <1>2, <1>3, <1>4 DEF EndInv

\* A client is told of the end when no block is open, and cannot be told of
\* another block afterwards.
LEMMA EmitEnds ==
    ASSUME TypeInv, ClientInv, EndInv, Emit
    PROVE  EndInv'
<1>1. /\ pending \in Seq(EventType) /\ pending # <<>> /\ Receive(Head(pending))
      /\ UNCHANGED <<started, stopHandled>>
  BY DEF TypeInv, TypeOK, ConverterTypeOK, Emit
<1>2. CASE Told \in View /\ Accepts(Head(pending), Told)
  <2> DEFINE e == Head(pending)
  <2>1. Told' = After(e, Told)
    BY <1>1, <1>2, ReceiveIsAfter
  <2>2. /\ phase' = PhaseAfter(e, Told)
        /\ open' = IF e.type = "block_start" THEN open \cup {e.index}
                   ELSE IF e.type = "block_stop" THEN open \ {e.index}
                   ELSE open
    BY <2>1 DEF Told, After
  <2>3. phase # "broken" /\ phase' # "broken"
    BY <1>2, <2>2 DEF Told, View, PhaseAfter
  <2> HIDE DEF e
  <2>4. phase' \in {"closing", "ended"} => open' = {}
    BY <1>2, <2>2 DEF EndInv, Accepts, PhaseAfter, IsFinal, Told, e
  <2> QED
    BY <1>1, <2>3, <2>4 DEF EndInv
<1>3. CASE phase \in {"ended", "broken"}
  <2>1. open' = open
    BY <1>1, <1>3 DEF Receive, Acceptable, NextPhase, IsFinal
  <2> QED
    BY <1>1, <1>3, <2>1 DEF EndInv
<1> QED
  BY <1>2, <1>3, EmitHeard

\* A client that was sent the whole reply was sent a stop for every block of it,
\* also when the stream failed or broke off, for an adapter that forwards every
\* block it stops: the one exception is the block that an adapter drops.
THEOREM EveryBlockIsStopped ==
    ASSUME Dropped = {}
    PROVE  Spec => []EveryBlockStopped
<1>1. Init => EndInv
  BY DEF Init, ConverterInit, ClientInit, EndInv
<1>2. TypeInv /\ ClientInv /\ EndInv /\ [Next]_vars => EndInv'
  BY ConvertEnds, EmitEnds DEF Next
<1>3. LiveInv /\ ClientInv /\ EndInv /\ TypeInv => EveryBlockStopped
  <2> SUFFICES ASSUME LiveInv, ClientInv, EndInv, TypeInv, stopHandled, pending = <<>>
               PROVE  open = {}
    BY DEF EveryBlockStopped
  <2>1. CASE Babble
    BY <2>1, AtRest DEF EndInv
  <2>2. CASE ~Babble
    <3>1. PICK v \in View : v = Told /\ Future(v)
      BY <2>2, AtRest
    <3>2. source \notin {"live", "silent"}
      BY <3>1 DEF LiveInv, EndInv, Future, Unheard
    <3>3. Over
      BY <3>2 DEF TypeInv, TypeOK, SourceTypeOK, Over, Babble
    <3>4. phase = "ended"
      BY <3>1, <3>3 DEF Future, Finished, EndInv, Told
    <3> QED
      BY <3>4 DEF EndInv
  <2> QED
    BY <2>1, <2>2
<1> QED
  BY <1>1, <1>2, <1>3, TypeInvariant, Lively, ClientHeard, PTL DEF Spec
================================================================================
