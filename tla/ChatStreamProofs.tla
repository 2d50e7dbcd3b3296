--------------------------- MODULE ChatStreamProofs ---------------------------
(***************************************************************************)
(* Proofs about ChatStream, for any capacity of the two channels, any      *)
(* number of events, pings and tool calls, and a context that may be       *)
(* cancelled at any point.  The invariant follows an event from the        *)
(* provider's goroutine to the caller: ChannelInv is about what waits in   *)
(* the provider's channel, PumpInv about the goroutine that converts it,   *)
(* QueueInv about what waits in its batch and in the caller's channel.     *)
(***************************************************************************)
EXTENDS ChatStream, StreamConverterProofs

-----------------------------------------------------------------------------
(* Type correctness. *)

EventKinds == {"start", "text", "tool", "stop", "error", "done"}

\* The values of the pipeline; a channel never holds more than its capacity.
TypeInv ==
    /\ ConverterInv
    /\ ClientTypeOK(BlockType, StopReasons)
    /\ chat \in {"peeking", "failed", "streaming"}
    /\ pump \in {"none", "writing", "selecting", "waiting", "recovering", "gone"}
    /\ last \in BOOLEAN
    /\ out \in Seq(EventType) /\ Len(out) <= OutCap
    /\ producer \in {"reading", "ending", "draining", "closed"}
    /\ providerCh \in Seq(EventKinds) /\ Len(providerCh) <= ProviderCap
    /\ stage \in {"silent", "live", "failed"}
    /\ stopSent \in BOOLEAN /\ upstreamOpen \in BOOLEAN /\ cancelled \in BOOLEAN
    /\ early \in BOOLEAN /\ chatter \in BOOLEAN
    /\ sent \in Nat /\ pings \in Nat /\ lateWrites \in Nat

\* What Convert may do with an event of a kind.
LEMMA ConvertKinds ==
    ASSUME NEW e \in EventKinds, Convert(e)
    PROVE  \/ e = "start" /\ HandleStart
           \/ e = "text" /\ HandleContent("text", TRUE)
           \/ e = "tool" /\ \E id \in ToolIDs : StartToolBlock(id, NoIndex)
           \/ e = "stop" /\ RecordFinishReason("stop")
           \/ e = "error" /\ HandleError
           \/ e = "done" /\ HandleDone
  BY DEF EventKinds, Convert

\* The converter is well formed after every event.
LEMMA ConvertTyping ==
    ASSUME ConverterAssumption, ConverterInv, NEW e \in EventKinds, Convert(e)
    PROVE  ConverterInv'
<1>1. CASE HandleStart
  BY <1>1, StartTyping
<1>2. CASE HandleContent("text", TRUE)
  BY <1>2, ContentTyping DEF ContentKinds
<1>3. CASE \E id \in ToolIDs : StartToolBlock(id, NoIndex)
  BY <1>3, ToolTyping DEF Tools
<1>4. CASE RecordFinishReason("stop")
  BY <1>4, RecordTyping
<1>5. CASE HandleError
  BY <1>5, ErrorTyping
<1>6. CASE HandleDone
  BY <1>6, DoneTyping
<1> QED
  BY <1>1, <1>2, <1>3, <1>4, <1>5, <1>6, ConvertKinds

\* The first state is well formed.
LEMMA InitTyping ==
    ASSUME ChatAssumption, Init
    PROVE  TypeInv
<1>1. ConverterInv
  BY ConverterInitTyping DEF Init
<1>2. ClientTypeOK(BlockType, StopReasons)
  BY DEF Init, ClientInit, ClientTypeOK
<1>3. \A S, n : n \in Nat => <<>> \in Seq(S) /\ Len(<<>>) <= n
  OBVIOUS
<1> QED
  BY <1>1, <1>2, <1>3 DEF TypeInv, Init, ChatAssumption

\* A send keeps the channel within its capacity.
LEMMA SendTyping ==
    ASSUME ChatAssumption, TypeInv, NEW e \in EventKinds, NEW next \in {"reading", "draining", "ending"},
           Send(e, next), stage' \in {"silent", "live", "failed"}, stopSent' \in BOOLEAN,
           chatter' \in BOOLEAN
    PROVE  TypeInv'
<1>1. providerCh' \in Seq(EventKinds) /\ Len(providerCh') <= ProviderCap
  BY DEF TypeInv, Send, ChatAssumption
<1>2. ConverterInv' /\ ClientTypeOK(BlockType, StopReasons)'
  BY DEF TypeInv, Send, ConverterInv, ConverterTypeOK, ClientTypeOK, converterVars, clientVars
<1> QED
  BY <1>1, <1>2 DEF TypeInv, Send, chatVars

ProviderStep ==
    \/ SendFrames \/ SendError \/ SendStop \/ SendDone
    \/ ProviderReturns \/ ProviderCloses

\* The steps of the provider's goroutine, of the upstream and of the canceller.
LEMMA ProviderTyping ==
    ASSUME ChatAssumption, TypeInv, ProviderStep \/ UpstreamCloses \/ Cancel \/ UNCHANGED vars
    PROVE  TypeInv'
<1>1. CASE SendFrames
  BY <1>1, SendTyping DEF SendFrames, EventKinds, TypeInv
<1>2. CASE SendError
  <2>1. PICK next \in {"draining", "ending", "reading"} : Send("error", next)
    BY <1>2 DEF SendError
  <2> QED
    BY <1>2, <2>1, SendTyping DEF SendError, EventKinds, TypeInv
<1>3. CASE SendStop
  BY <1>3, SendTyping DEF SendStop, EventKinds, TypeInv
<1>4. CASE SendDone
  BY <1>4, SendTyping DEF SendDone, EventKinds, TypeInv
<1>5. CASE ProviderReturns \/ ProviderCloses \/ UpstreamCloses \/ Cancel \/ UNCHANGED vars
  <2>1. /\ UNCHANGED <<converterVars, clientVars, chat, pump, last, out, providerCh, stage, stopSent,
                       sent, chatter, pings, lateWrites>>
        /\ producer' \in {producer, "draining", "closed"}
        /\ upstreamOpen' \in {upstreamOpen, FALSE}
        /\ cancelled' \in {cancelled, TRUE}
        /\ early' \in {early, ~stopHandled}
    BY <1>5 DEF ProviderReturns, ProviderCloses, UpstreamCloses, Cancel, vars, chatVars,
           providerVars
  <2>2. ConverterInv' /\ ClientTypeOK(BlockType, StopReasons)'
    BY <2>1 DEF TypeInv, ConverterInv, ConverterTypeOK, ClientTypeOK, converterVars, clientVars
  <2>3. early' \in BOOLEAN /\ cancelled' \in BOOLEAN /\ upstreamOpen' \in BOOLEAN
    BY <2>1 DEF TypeInv, ConverterInv, ConverterTypeOK
  <2> QED
    BY <2>1, <2>2, <2>3 DEF TypeInv
<1> QED
  BY <1>1, <1>2, <1>3, <1>4, <1>5 DEF ProviderStep

\* A channel that an event was taken from is within its capacity.
LEMMA TakeTyping ==
    ASSUME TypeInv,
           providerCh' = providerCh \/ (providerCh # <<>> /\ providerCh' = Tail(providerCh))
    PROVE  providerCh' \in Seq(EventKinds) /\ Len(providerCh') <= ProviderCap
<1>1. providerCh \in Seq(EventKinds) /\ Len(providerCh) <= ProviderCap
  BY DEF TypeInv
<1>2. CASE providerCh # <<>> /\ providerCh' = Tail(providerCh)
  <2>1. /\ Tail(providerCh) \in Seq(EventKinds) /\ Len(Tail(providerCh)) = Len(providerCh) - 1
        /\ Len(providerCh) \in Nat
    BY <1>1, <1>2, HeadTailProperties
  <2>2. Len(providerCh) - 1 <= ProviderCap
    BY <1>1, <2>1, ChatAssumption DEF ChatAssumption
  <2> QED
    BY <1>2, <2>1, <2>2
<1> QED
  BY <1>1, <1>2

\* The goroutine converted an event it took from the provider's channel, if
\* there was one.
LEMMA ConvertedTyping ==
    ASSUME ConverterAssumption, TypeInv, ConverterInv', AfterConvert,
           providerCh' = providerCh \/ (providerCh # <<>> /\ providerCh' = Tail(providerCh)),
           chat' \in {"peeking", "failed", "streaming"}, last' \in BOOLEAN, out' = out,
           UNCHANGED TheRest
    PROVE  TypeInv'
<1>1. pump' \in {"none", "writing", "selecting", "waiting", "recovering", "gone"}
  BY DEF AfterConvert
<1>2. providerCh' \in Seq(EventKinds) /\ Len(providerCh') <= ProviderCap
  BY TakeTyping
<1>3. ClientTypeOK(BlockType, StopReasons)'
  BY DEF TypeInv, ClientTypeOK, TheRest, clientVars
<1> QED
  BY <1>1, <1>2, <1>3 DEF TypeInv, TheRest

\* The pump's steps that convert.
LEMMA PumpConvertTyping ==
    ASSUME ConverterAssumption, TypeInv, PeekEvent \/ Receiving \/ ReceivingClosed
    PROVE  TypeInv'
<1>1. providerCh # <<>> => Head(providerCh) \in EventKinds
  BY HeadTailProperties DEF TypeInv
<1>2. ConverterInv
  BY DEF TypeInv
<1>3. CASE PeekEvent
  <2>1. CASE Head(providerCh) \in {"error", "done"}
    <3>1. /\ UNCHANGED <<pump, converterVars, out, TheRest>> /\ chat' = "failed"
          /\ last' = FALSE /\ providerCh' = Tail(providerCh) /\ providerCh # <<>>
      BY <1>3, <2>1 DEF PeekEvent
    <3>2. ConverterInv' /\ ClientTypeOK(BlockType, StopReasons)'
      BY <1>2, <3>1 DEF TypeInv, ConverterInv, ConverterTypeOK, ClientTypeOK, converterVars, TheRest,
             clientVars
    <3>3. providerCh' \in Seq(EventKinds) /\ Len(providerCh') <= ProviderCap
      BY <3>1, TakeTyping
    <3> QED
      BY <3>1, <3>2, <3>3 DEF TypeInv, TheRest
  <2>2. CASE Head(providerCh) \notin {"error", "done"}
    <3>1. /\ Convert(Head(providerCh)) /\ AfterConvert /\ chat' = "streaming" /\ out' = out
          /\ last' = FALSE /\ providerCh' = Tail(providerCh) /\ providerCh # <<>>
          /\ UNCHANGED TheRest
      BY <1>3, <2>2 DEF PeekEvent
    <3>2. ConverterInv'
      BY <1>1, <1>2, <3>1, ConvertTyping
    <3> QED
      BY <3>1, <3>2, ConvertedTyping
  <2> QED
    BY <2>1, <2>2
<1>4. CASE Receiving
  <2>1. ConverterInv' /\ last' \in BOOLEAN /\ AfterConvert
    <3>1. CASE cancelled
      BY <1>2, <1>4, <3>1, ErrorTyping DEF Receiving, Received
    <3>2. CASE ~cancelled
      BY <1>1, <1>2, <1>4, <3>2, ConvertTyping DEF Receiving, Received, TypeInv
    <3> QED
      BY <3>1, <3>2
  <2> QED
    BY <1>4, <2>1, ConvertedTyping DEF Receiving, TypeInv
<1>5. CASE ReceivingClosed
  <2>1. ConverterInv'
    BY <1>2, <1>5, ErrorTyping, DoneTyping DEF ReceivingClosed
  <2> QED
    BY <1>5, <2>1, ConvertedTyping DEF ReceivingClosed, TypeInv
<1> QED
  BY <1>3, <1>4, <1>5

\* The pump's steps that write, and the caller's.
LEMMA PumpWriteTyping ==
    ASSUME ChatAssumption, TypeInv, pump = "selecting" => pending # <<>>,
           PeekFails \/ WriteCheck \/ Write \/ WriteAborted \/ Recover \/ Tick \/ Consume
    PROVE  TypeInv'
<1>1. CASE PeekFails \/ WriteCheck \/ WriteAborted
  <2>1. /\ UNCHANGED <<last, out, providerCh, converterVars, TheRest>>
        /\ chat' \in {chat, "failed"}
        /\ pump' \in {pump, "gone", "selecting"}
    BY <1>1 DEF PeekFails, WriteCheck, WriteAborted
  <2>2. ConverterInv' /\ ClientTypeOK(BlockType, StopReasons)'
    BY <2>1 DEF TypeInv, ConverterInv, ConverterTypeOK, ClientTypeOK, converterVars, TheRest,
           clientVars
  <2> QED
    BY <2>1, <2>2 DEF TypeInv, TheRest
<1>2. CASE Write
  <2>1. Head(pending) \in EventType /\ Tail(pending) \in Seq(EventType)
    BY <1>2, HeadTailProperties DEF TypeInv, ConverterInv, ConverterTypeOK, Write
  <2>2. out' \in Seq(EventType) /\ Len(out') <= OutCap
    BY <1>2, <2>1 DEF TypeInv, Write, ChatAssumption
  <2>3. ConverterInv' /\ ClientTypeOK(BlockType, StopReasons)'
    BY <1>2, <2>1 DEF Write, TypeInv, ConverterInv, ConverterTypeOK, ClientTypeOK, clientVars
  <2> QED
    BY <1>2, <2>2, <2>3 DEF Write, TypeInv
<1>3. CASE Recover
  <2>1. Message("error") \in EventType
    BY EventTyping
  <2>2. out' \in Seq(EventType) /\ Len(out') <= OutCap
    BY <1>3, <2>1 DEF TypeInv, Recover, ChatAssumption
  <2>3. ConverterInv' /\ ClientTypeOK(BlockType, StopReasons)'
    BY <1>3 DEF Recover, TypeInv, ConverterInv, ConverterTypeOK, ClientTypeOK, converterVars,
           clientVars
  <2> QED
    BY <1>3, <2>2, <2>3 DEF Recover, TypeInv
<1>4. CASE Tick
  <2>1. <<Message("ping")>> \in Seq(EventType)
    BY EventTyping, OneEvent
  <2>2. ConverterInv' /\ ClientTypeOK(BlockType, StopReasons)'
    BY <1>4, <2>1 DEF Tick, TypeInv, ConverterInv, ConverterTypeOK, ClientTypeOK, clientVars
  <2> QED
    BY <1>4, <2>2 DEF Tick, TypeInv
<1>5. CASE Consume
  <2>1. Head(out) \in EventType /\ out' \in Seq(EventType) /\ Len(out') <= OutCap
    BY <1>5, HeadTailProperties DEF Consume, TypeInv
  <2>2. ClientTypeOK(BlockType, StopReasons)'
    BY <1>5, <2>1, ReceiveTyping DEF Consume, TypeInv
  <2>3. ConverterInv'
    BY <1>5 DEF Consume, TypeInv, ConverterInv, ConverterTypeOK, converterVars
  <2> QED
    BY <1>5, <2>1, <2>2, <2>3 DEF Consume, TypeInv, providerVars
<1> QED
  BY <1>1, <1>2, <1>3, <1>4, <1>5

-----------------------------------------------------------------------------
(* What the goroutine that converts holds at each of its points.            *)

PumpInv ==
    /\ (chat = "streaming") <=> (pump # "none")
    /\ pump = "none" => /\ ~last /\ out = <<>> /\ pending = <<>>
                        /\ ~started /\ ~crashed /\ lateWrites = 0
    /\ pump \in {"writing", "selecting"} => pending # <<>>
    /\ pump \in {"waiting", "recovering"} => pending = <<>>
    /\ pump = "waiting" => ~last
    /\ pump = "recovering" => crashed
    /\ crashed => pump \in {"recovering", "gone"}
    /\ pump = "gone" /\ ~cancelled /\ ~crashed => pending = <<>> /\ last
    /\ stopHandled => started
    /\ started /\ ~stopHandled => toolMaps
    /\ last /\ ~cancelled => ~started \/ stopHandled
    /\ lateWrites # 0 => lateWrites = 1 /\ cancelled /\ pump \notin {"selecting", "recovering"}
    /\ early => cancelled

Flags == (stopHandled => started) /\ (started /\ ~stopHandled => toolMaps)

\* What Convert does to a message's beginning and end.
LEMMA ConvertFlags ==
    ASSUME NEW e \in EventKinds, Convert(e), ~crashed, Flags
    PROVE  /\ Flags'
           /\ crashed' => pending' = <<>>
           /\ e \notin {"start", "error", "done"} => UNCHANGED <<started, stopHandled>>
           /\ e # "tool" \/ toolMaps => ~crashed'
           /\ e = "start" => started' /\ ~stopHandled'
           /\ e \in {"error", "done"} => UNCHANGED started
<1>1. CASE e = "start" /\ HandleStart
  BY <1>1 DEF HandleStart, Flags
<1>2. CASE e = "text" /\ HandleContent("text", TRUE)
  BY <1>2 DEF HandleContent, Flags
<1>3. CASE e = "tool" /\ \E id \in ToolIDs : StartToolBlock(id, NoIndex)
  BY <1>3 DEF StartToolBlock, Panic, Flags
<1>4. CASE e = "stop" /\ RecordFinishReason("stop")
  BY <1>4 DEF RecordFinishReason, Flags
<1>5. CASE e = "error" /\ HandleError
  BY <1>5 DEF HandleError, HandleStop, Flags
<1>6. CASE e = "done" /\ HandleDone
  BY <1>6 DEF HandleDone, HandleStop, Ignore, converterVars, Flags
<1> QED
  BY <1>1, <1>2, <1>3, <1>4, <1>5, <1>6, ConvertKinds

\* What an error and a Done do to them.
LEMMA EndFlags ==
    ASSUME Flags
    PROVE  /\ HandleError => UNCHANGED <<started, crashed>> /\ Flags' /\ (~started' \/ stopHandled')
           /\ HandleDone => UNCHANGED <<started, crashed>> /\ Flags' /\ (~started' \/ stopHandled')
  BY DEF HandleError, HandleDone, HandleStop, Ignore, converterVars, Flags

\* The steps that leave the goroutine alone.
LEMMA PumpRests ==
    ASSUME TypeInv, PumpInv, ProviderStep \/ UpstreamCloses \/ Cancel \/ UNCHANGED vars
    PROVE  PumpInv'
<1>1. /\ UNCHANGED <<chat, pump, last, out, pending, started, crashed, lateWrites, stopHandled,
                     toolMaps>>
      /\ cancelled => cancelled'
      /\ early' => cancelled'
  <2>1. early => cancelled
    BY DEF PumpInv
  <2>2. ASSUME NEW e, NEW next, Send(e, next)
        PROVE  UNCHANGED <<chat, pump, last, out, pending, started, crashed, lateWrites,
                           stopHandled, toolMaps, cancelled, early>>
    BY <2>2 DEF Send, chatVars, converterVars
  <2>3. CASE SendFrames \/ SendError \/ SendStop \/ SendDone
    <3>1. \E e, next : Send(e, next)
      BY <2>3 DEF SendFrames, SendError, SendStop, SendDone
    <3> QED
      BY <2>1, <2>2, <3>1
  <2>4. CASE ProviderReturns \/ ProviderCloses \/ UpstreamCloses \/ UNCHANGED vars
    BY <2>1, <2>4 DEF ProviderReturns, ProviderCloses, UpstreamCloses, vars, chatVars, converterVars
  <2>5. CASE Cancel
    BY <2>5 DEF Cancel, chatVars, converterVars
  <2> QED
    BY <2>3, <2>4, <2>5 DEF ProviderStep
<1> QED
  BY <1>1 DEF PumpInv

\* The steps that convert.
LEMMA PumpConverts ==
    ASSUME TypeInv, PumpInv, PeekEvent \/ Receiving \/ ReceivingClosed
    PROVE  PumpInv'
<1>1. providerCh # <<>> => Head(providerCh) \in EventKinds
  BY HeadTailProperties DEF TypeInv
<1>2. UNCHANGED <<out, cancelled, lateWrites, early>>
  BY DEF PeekEvent, Receiving, ReceivingClosed, TheRest
<1>3. CASE PeekEvent
  <2>1. Flags /\ pump = "none" /\ ~started /\ ~stopHandled /\ ~crashed /\ last' = FALSE /\ lateWrites = 0
    BY <1>3 DEF PeekEvent, PumpInv, TypeInv, Flags
  <2>2. CASE Head(providerCh) \in {"error", "done"}
    BY <1>2, <1>3, <2>1, <2>2 DEF PeekEvent, PumpInv, converterVars
  <2>3. CASE Head(providerCh) \notin {"error", "done"}
    <3>1. Convert(Head(providerCh)) /\ AfterConvert /\ chat' = "streaming" /\ providerCh # <<>>
      BY <1>3, <2>3 DEF PeekEvent
    <3>2. Flags' /\ (crashed' => pending' = <<>>)
      BY <1>1, <2>1, <3>1, ConvertFlags
    <3> QED
      BY <1>2, <2>1, <3>1, <3>2 DEF PumpInv, AfterConvert, TypeInv, Flags
  <2> QED
    BY <2>2, <2>3
<1>4. CASE Receiving \/ ReceivingClosed
  <2>1. /\ pump = "waiting" /\ last = FALSE /\ ~crashed /\ UNCHANGED chat /\ chat = "streaming"
        /\ AfterConvert /\ Flags
    BY <1>4 DEF Receiving, Received, ReceivingClosed, PumpInv, TypeInv, Flags
  <2>2. CASE cancelled
    <3>1. HandleError /\ last' = TRUE
      BY <1>4, <2>2 DEF Receiving, Received, ReceivingClosed
    <3>2. ~crashed' /\ Flags'
      BY <2>1, <3>1, EndFlags
    <3> QED
      BY <1>2, <2>1, <2>2, <3>1, <3>2 DEF PumpInv, AfterConvert, TypeInv, Flags
  <2>3. CASE ~cancelled /\ Receiving
    <3>1. Convert(Head(providerCh)) /\ last' = FALSE /\ providerCh # <<>>
      BY <2>1, <2>3 DEF Receiving, Received
    <3>2. Flags' /\ (crashed' => pending' = <<>>)
      BY <1>1, <2>1, <3>1, ConvertFlags
    <3> QED
      BY <1>2, <2>1, <2>3, <3>1, <3>2 DEF PumpInv, AfterConvert, TypeInv, Flags
  <2>4. CASE ~cancelled /\ ReceivingClosed
    <3>1. HandleDone /\ last' = TRUE
      BY <2>4 DEF ReceivingClosed
    <3>2. ~crashed' /\ Flags' /\ (~started' \/ stopHandled')
      BY <2>1, <3>1, EndFlags
    <3> QED
      BY <1>2, <2>1, <2>4, <3>1, <3>2 DEF PumpInv, AfterConvert, TypeInv, Flags
  <2> QED
    BY <1>4, <2>2, <2>3, <2>4 DEF TypeInv
<1> QED
  BY <1>3, <1>4

\* The steps that write, and those of the ticker and of the caller.
LEMMA PumpWrites ==
    ASSUME TypeInv, PumpInv,
           PeekFails \/ WriteCheck \/ Write \/ WriteAborted \/ Recover \/ Tick \/ Consume
    PROVE  PumpInv'
<1>1. CASE PeekFails
  BY <1>1 DEF PeekFails, PumpInv, TheRest, converterVars
<1>2. CASE WriteCheck
  BY <1>2 DEF WriteCheck, PumpInv, TheRest, converterVars, TypeInv
<1>3. CASE WriteAborted
  BY <1>3 DEF WriteAborted, PumpInv, TheRest, converterVars, TypeInv
<1>4. CASE Write
  <2>1. pending \in Seq(EventType) /\ pending # <<>>
    BY <1>4 DEF Write, PumpInv, TypeInv, ConverterInv, ConverterTypeOK
  <2>2. /\ Len(pending) > 1 => Tail(pending) # <<>>
        /\ ~(Len(pending) > 1) => Tail(pending) = <<>>
    <3>1. Tail(pending) \in Seq(EventType) /\ Len(Tail(pending)) = Len(pending) - 1 /\ Len(pending) \in Nat
      BY <2>1, HeadTailProperties
    <3>2. Len(pending) > 0
      BY <2>1, EmptySeq
    <3> QED
      BY <3>1, <3>2, EmptySeq
  <2> QED
    BY <1>4, <2>1, <2>2 DEF Write, PumpInv, TypeInv
<1>5. CASE Recover
  BY <1>5 DEF Recover, PumpInv, converterVars, TypeInv
<1>6. CASE Tick
  <2>1. <<Message("ping")>> # <<>>
    OBVIOUS
  <2> QED
    BY <1>6, <2>1 DEF Tick, PumpInv, TypeInv
<1>7. CASE Consume
  <2>1. out # <<>> /\ UNCHANGED <<chat, pump, last, pending, started, crashed, stopHandled, toolMaps,
                                  cancelled, lateWrites, early>>
    BY <1>7 DEF Consume, converterVars
  <2> QED
    BY <2>1 DEF PumpInv
<1> QED
  BY <1>1, <1>2, <1>3, <1>4, <1>5, <1>6, <1>7

\* The goroutine's points in every behaviour, whenever the context is cancelled.
LEMMA PumpInvariant == Spec => [](TypeInv /\ PumpInv)
<1>1. Init => TypeInv /\ PumpInv
  BY ChatAssumption, InitTyping DEF Init, ConverterInit, PumpInv
<1>2. TypeInv /\ PumpInv /\ [Next]_vars => TypeInv' /\ PumpInv'
  <2> SUFFICES ASSUME TypeInv, PumpInv, [Next]_vars
               PROVE  TypeInv' /\ PumpInv'
    OBVIOUS
  <2>1. pump = "selecting" => pending # <<>>
    BY DEF PumpInv
  <2>2. CASE ProviderStep \/ UpstreamCloses \/ Cancel \/ UNCHANGED vars
    BY <2>2, ChatAssumption, ProviderTyping, PumpRests
  <2>3. CASE PeekEvent \/ Receiving \/ ReceivingClosed
    BY <2>3, ConverterAssumption, PumpConvertTyping, PumpConverts
  <2>4. CASE PeekFails \/ WriteCheck \/ Write \/ WriteAborted \/ Recover \/ Tick \/ Consume
    BY <2>1, <2>4, ChatAssumption, PumpWriteTyping, PumpWrites
  <2> QED
    BY <2>2, <2>3, <2>4 DEF Next, Pump, ProviderStep
<1> QED
  BY <1>1, <1>2, PTL DEF Spec

-----------------------------------------------------------------------------
(* What waits in the provider's channel: a message that was opened, content  *)
(* behind its beginning and nothing behind its end, unless the adapter goes  *)
(* on after an error, or the goroutine has stopped to convert.               *)

\* Events are still converted as what they are.
Heeded == ~cancelled \/ pump = "none"

\* What leaves a message that may go on.
Opening == {"start", "text", "tool", "stop"}

\* Only a message that has not begun can begin.
BeginInv ==
    /\ \A q \in 1..Len(providerCh) : providerCh[q] = "start" =>
           ~started /\ \A p \in 1..(q - 1) : providerCh[p] = "stop"
    /\ stage = "silent" =>
           ~started /\ \A q \in 1..Len(providerCh) : providerCh[q] \in {"stop", "done"}
    /\ stage = "live" /\ Heeded =>
           started \/ \E q \in 1..Len(providerCh) : providerCh[q] = "start"

\* An adapter that still sends has not said Done, and an error only if it failed.
SendingInv ==
    producer \in {"reading", "ending"} =>
        /\ \A q \in 1..Len(providerCh) :
               providerCh[q] # "done" /\ (providerCh[q] = "error" => stage = "failed")
        /\ stopHandled /\ Heeded => stage = "failed"

\* Content, and an error, wait behind the beginning of an open message.
ContentInv ==
    ~chatter /\ Heeded =>
        \A q \in 1..Len(providerCh) : providerCh[q] \in {"text", "tool", "error"} =>
            /\ ~stopHandled
            /\ \A p \in 1..(q - 1) : providerCh[p] \in Opening
            /\ \/ providerCh[q] = "error"
               \/ started
               \/ \E p \in 1..(q - 1) : providerCh[p] = "start"

\* Only content behind an error can make Convert panic.
ChatterInv == (chatter => stage = "failed") /\ (crashed => chatter)

ChannelInv == BeginInv /\ SendingInv /\ ContentInv /\ ChatterInv

\* An event put behind those that wait.
LEMMA SentParts ==
    ASSUME TypeInv, NEW e, providerCh' = Append(providerCh, e)
    PROVE  /\ Len(providerCh) \in Nat /\ Len(providerCh') = Len(providerCh) + 1
           /\ providerCh'[Len(providerCh) + 1] = e
           /\ \A q \in 1..Len(providerCh) : providerCh'[q] = providerCh[q]
           /\ \A q \in 1..Len(providerCh) : providerCh[q] \in EventKinds
<1>1. providerCh \in Seq(EventKinds)
  BY DEF TypeInv
<1>2. Len(providerCh) \in Nat /\ \A q \in 1..Len(providerCh) : providerCh[q] \in EventKinds
  BY <1>1, LenProperties, ElementOfSeq
<1>3. providerCh \in Seq(EventKinds \cup {e})
  BY <1>1
<1> QED
  BY <1>2, <1>3, AppendProperties

\* Those that wait once the first was taken.
LEMMA TakenParts ==
    ASSUME TypeInv, providerCh # <<>>, providerCh' = Tail(providerCh)
    PROVE  /\ Len(providerCh) \in Nat \ {0} /\ Len(providerCh') = Len(providerCh) - 1
           /\ Head(providerCh) = providerCh[1] /\ providerCh[1] \in EventKinds
           /\ \A q \in 1..(Len(providerCh) - 1) : providerCh'[q] = providerCh[q + 1]
<1>1. providerCh \in Seq(EventKinds)
  BY DEF TypeInv
<1> QED
  BY <1>1, HeadTailProperties, LenProperties, EmptySeq

\* What a send leaves alone.
LEMMA SendLeaves ==
    ASSUME NEW e, NEW next, Send(e, next)
    PROVE  /\ UNCHANGED <<started, stopHandled, crashed, cancelled, pump>> /\ Heeded' = Heeded
           /\ providerCh' = Append(providerCh, e) /\ producer' = next
           /\ producer \in {"reading", "ending"}
  BY DEF Send, converterVars, chatVars, Heeded

\* The provider begins.
LEMMA StartSent ==
    ASSUME TypeInv, ChannelInv, stage = "silent", stage' = "live", NEW next,
           Send("start", next), UNCHANGED chatter
    PROVE  ChannelInv'
<1> DEFINE n == Len(providerCh)
<1>1. /\ n \in Nat /\ Len(providerCh') = n + 1 /\ providerCh'[n + 1] = "start"
      /\ \A q \in 1..n : providerCh'[q] = providerCh[q]
  BY SendLeaves, SentParts
<1>2. /\ UNCHANGED <<started, stopHandled, crashed>> /\ Heeded' = Heeded
      /\ producer \in {"reading", "ending"}
  BY SendLeaves
<1>3. ~started /\ \A q \in 1..n : providerCh[q] = "stop"
  BY <1>2 DEF ChannelInv, BeginInv, SendingInv
<1>4. n + 1 \in 1..Len(providerCh') /\ \A q \in 1..Len(providerCh') : q = n + 1 \/ q \in 1..n
  BY <1>1
<1>5. \A q \in 1..n : providerCh'[q] = "stop"
  BY <1>1, <1>3
<1> HIDE DEF n
<1>6. BeginInv'
  <2>1. (\A q \in 1..Len(providerCh) : providerCh[q] = "start" =>
            ~started /\ \A p \in 1..(q - 1) : providerCh[p] = "stop")'
    <3>1. ASSUME NEW q \in 1..n PROVE providerCh'[q] # "start"
      BY <1>5
    <3>2. \A p \in 1..((n + 1) - 1) : providerCh'[p] = "stop"
      BY <1>1, <1>5
    <3> QED
      BY <1>2, <1>3, <1>4, <3>1, <3>2
  <2>2. (\E q \in 1..Len(providerCh) : providerCh[q] = "start")'
    BY <1>1, <1>4
  <2> QED
    BY <2>1, <2>2 DEF BeginInv
<1>7. SendingInv'
  <2>1. \A q \in 1..Len(providerCh') : providerCh'[q] \in {"start", "stop"}
    BY <1>1, <1>4, <1>5
  <2>2. ~(stopHandled' /\ Heeded')
    BY <1>2 DEF ChannelInv, SendingInv
  <2> QED
    BY <2>1, <2>2 DEF SendingInv
<1>8. ContentInv'
  <2>1. \A q \in 1..Len(providerCh') : providerCh'[q] \in {"start", "stop"}
    BY <1>1, <1>4, <1>5
  <2> QED
    BY <2>1 DEF ContentInv
<1>9. ChatterInv'
  BY <1>2 DEF ChannelInv, ChatterInv
<1> QED
  BY <1>6, <1>7, <1>8, <1>9 DEF ChannelInv

\* The provider goes on: content, an error, a finish reason or Done.
LEMMA OthersSent ==
    ASSUME TypeInv, ChannelInv, NEW e \in EventKinds \ {"start"}, NEW next, Send(e, next),
           e \in {"text", "tool"} => stage \in {"live", "failed"} /\ stage' = stage
                                     /\ chatter' = (stage = "failed"),
           e = "error" => stage \in {"silent", "live"} /\ stage' = "failed" /\ UNCHANGED chatter,
           e \in {"stop", "done"} => UNCHANGED <<stage, chatter>>,
           e = "done" => next = "draining"
    PROVE  ChannelInv'
<1> DEFINE n == Len(providerCh)
<1>1. /\ n \in Nat /\ Len(providerCh') = n + 1 /\ providerCh'[n + 1] = e
      /\ \A q \in 1..n : providerCh'[q] = providerCh[q]
      /\ \A q \in 1..n : providerCh[q] \in EventKinds
  BY SendLeaves, SentParts
<1>2. /\ UNCHANGED <<started, stopHandled, crashed>> /\ Heeded' = Heeded
      /\ producer \in {"reading", "ending"} /\ producer' = next
  BY SendLeaves
<1>3. n + 1 \in 1..Len(providerCh') /\ \A q \in 1..Len(providerCh') : q = n + 1 \/ q \in 1..n
  BY <1>1
<1>4. \A q \in 1..n : \A p \in 1..(q - 1) : p \in 1..n /\ providerCh'[p] = providerCh[p]
  BY <1>1
<1>5. \A q \in 1..n : providerCh[q] # "done" /\ (providerCh[q] = "error" => stage = "failed")
  BY <1>2 DEF ChannelInv, SendingInv
<1>6. e \in {"start", "text", "tool", "stop", "error", "done"}
  BY DEF EventKinds
<1> HIDE DEF n
<1>7. BeginInv'
  <2>1. (\A q \in 1..Len(providerCh) : providerCh[q] = "start" =>
            ~started /\ \A p \in 1..(q - 1) : providerCh[p] = "stop")'
    <3>1. ASSUME NEW q \in 1..n, providerCh'[q] = "start"
          PROVE  ~started' /\ \A p \in 1..(q - 1) : providerCh'[p] = "stop"
      <4>1. ~started /\ \A p \in 1..(q - 1) : providerCh[p] = "stop"
        BY <1>1, <3>1 DEF ChannelInv, BeginInv, n
      <4> QED
        BY <1>2, <1>4, <4>1
    <3> QED
      BY <1>1, <1>3, <3>1
  <2>2. stage' = "silent" => ~started' /\ \A q \in 1..Len(providerCh') : providerCh'[q] \in {"stop", "done"}
    <3>1. stage' = "silent" => stage = "silent" /\ e \in {"stop", "done"}
      BY <1>6
    <3>2. stage = "silent" => ~started /\ \A q \in 1..n : providerCh[q] \in {"stop", "done"}
      BY DEF ChannelInv, BeginInv, n
    <3> QED
      BY <1>1, <1>2, <1>3, <3>1, <3>2
  <2>3. stage' = "live" /\ Heeded' => started' \/ \E q \in 1..Len(providerCh') : providerCh'[q] = "start"
    <3>1. stage' = "live" => stage = "live"
      BY <1>6
    <3>2. stage = "live" /\ Heeded => started \/ \E q \in 1..n : providerCh[q] = "start"
      BY DEF ChannelInv, BeginInv, n
    <3>3. \A q \in 1..n : q \in 1..Len(providerCh')
      BY <1>1
    <3> QED
      BY <1>1, <1>2, <3>1, <3>2, <3>3
  <2> QED
    BY <2>1, <2>2, <2>3 DEF BeginInv
<1>8. SendingInv'
  <2>1. stage = "failed" => stage' = "failed"
    BY <1>6
  <2>2. e = "error" => stage' = "failed"
    OBVIOUS
  <2>3. stopHandled' /\ Heeded' => stage' = "failed"
    BY <1>2, <2>1 DEF ChannelInv, SendingInv
  <2>4. next \in {"reading", "ending"} =>
            \A q \in 1..Len(providerCh') :
               providerCh'[q] # "done" /\ (providerCh'[q] = "error" => stage' = "failed")
    BY <1>1, <1>3, <1>5, <2>1, <2>2
  <2> QED
    BY <1>2, <2>3, <2>4 DEF SendingInv
<1>9. ContentInv'
  <2> SUFFICES ASSUME ~chatter', Heeded', NEW q \in 1..Len(providerCh'),
                      providerCh'[q] \in {"text", "tool", "error"}
               PROVE  /\ ~stopHandled'
                      /\ \A p \in 1..(q - 1) : providerCh'[p] \in Opening
                      /\ \/ providerCh'[q] = "error"
                         \/ started'
                         \/ \E p \in 1..(q - 1) : providerCh'[p] = "start"
    BY DEF ContentInv
  <2>1. ~chatter /\ Heeded
    BY <1>2, <1>6 DEF ChannelInv, ChatterInv
  <2>2. CASE q \in 1..n
    <3>1. /\ ~stopHandled
          /\ \A p \in 1..(q - 1) : providerCh[p] \in Opening
          /\ \/ providerCh[q] = "error"
             \/ started
             \/ \E p \in 1..(q - 1) : providerCh[p] = "start"
      BY <1>1, <2>1, <2>2 DEF ChannelInv, ContentInv, n
    <3> QED
      BY <1>1, <1>2, <1>4, <2>2, <3>1
  <2>3. CASE q = n + 1
    <3>1. e \in {"text", "tool", "error"} /\ (q - 1) = n
      BY <1>1, <2>3
    <3>2. stage \in {"silent", "live"} /\ (stage = "silent" => e = "error")
      BY <3>1
    <3>3. ~stopHandled'
      BY <1>2, <2>1, <3>2 DEF ChannelInv, SendingInv
    <3>4. \A p \in 1..n : providerCh'[p] \in Opening
      BY <1>1, <1>5, <3>2 DEF EventKinds, Opening
    <3>5. e = "error" \/ started' \/ \E p \in 1..n : providerCh'[p] = "start"
      BY <1>1, <1>2, <2>1, <3>2 DEF ChannelInv, BeginInv, n
    <3> QED
      BY <1>1, <2>3, <3>1, <3>3, <3>4, <3>5
  <2> QED
    BY <1>3, <2>2, <2>3
<1>10. ChatterInv'
  <2>1. /\ (chatter => stage = "failed") /\ (crashed => chatter)
        /\ chatter \in BOOLEAN /\ crashed' = crashed
    BY <1>2 DEF ChannelInv, ChatterInv, TypeInv
  <2>2. CASE e \in {"text", "tool"}
    BY <2>1, <2>2 DEF ChatterInv
  <2>3. CASE e \notin {"text", "tool"}
    BY <1>6, <2>1, <2>3 DEF ChatterInv
  <2> QED
    BY <2>2, <2>3
<1> QED
  BY <1>7, <1>8, <1>9, <1>10 DEF ChannelInv

\* The steps of the provider's goroutine that send.
LEMMA ChannelSends ==
    ASSUME TypeInv, ChannelInv, SendFrames \/ SendError \/ SendStop \/ SendDone
    PROVE  ChannelInv'
<1>1. CASE SendFrames
  <2>1. CASE stage = "silent" /\ Send("start", "reading") /\ stage' = "live" /\ UNCHANGED chatter
    BY <2>1, StartSent
  <2>2. ASSUME NEW e \in {"text", "tool"}, stage \in {"live", "failed"}, Send(e, "reading"),
               chatter' = (stage = "failed"), UNCHANGED stage
        PROVE  ChannelInv'
    BY <2>2, OthersSent DEF EventKinds
  <2> QED
    BY <1>1, <2>1, <2>2 DEF SendFrames
<1>2. CASE SendError
  <2>1. PICK next : Send("error", next)
    BY <1>2 DEF SendError
  <2> QED
    BY <1>2, <2>1, OthersSent DEF SendError, EventKinds
<1>3. CASE SendStop
  <2>1. PICK next : Send("stop", next)
    BY <1>3 DEF SendStop
  <2> QED
    BY <1>3, <2>1, OthersSent DEF SendStop, EventKinds
<1>4. CASE SendDone
  BY <1>4, OthersSent DEF SendDone, EventKinds
<1> QED
  BY <1>1, <1>2, <1>3, <1>4

\* The steps that send nothing and take nothing.
LEMMA ChannelRests ==
    ASSUME TypeInv, ChannelInv, UNCHANGED <<providerCh, stage, chatter, started, crashed>>,
           Heeded' => Heeded, producer' \in {producer, "draining", "closed"},
           UNCHANGED stopHandled \/ (providerCh = <<>> /\ producer = "closed")
    PROVE  ChannelInv'
<1>1. providerCh = <<>> => \A q \in 1..Len(providerCh) : FALSE
  OBVIOUS
<1>2. BeginInv'
  BY DEF ChannelInv, BeginInv
<1>3. SendingInv'
  BY DEF ChannelInv, SendingInv
<1>4. ContentInv'
  BY <1>1 DEF ChannelInv, ContentInv
<1>5. ChatterInv'
  BY DEF ChannelInv, ChatterInv
<1> QED
  BY <1>2, <1>3, <1>4, <1>5 DEF ChannelInv

\* An event that is taken from the channel and converted as what it is.
LEMMA ChannelTaken ==
    ASSUME TypeInv, ChannelInv, providerCh # <<>>, providerCh' = Tail(providerCh),
           UNCHANGED <<stage, producer, chatter>>, Heeded,
           Head(providerCh) = "start" => started' /\ ~stopHandled',
           Head(providerCh) \in {"text", "tool", "stop"} => UNCHANGED <<started, stopHandled>>,
           Head(providerCh) \in {"error", "done"} => UNCHANGED started,
           crashed' => chatter
    PROVE  ChannelInv'
<1> DEFINE n == Len(providerCh)
           h == Head(providerCh)
<1>1. /\ n \in Nat \ {0} /\ Len(providerCh') = n - 1
      /\ h = providerCh[1] /\ h \in EventKinds
      /\ \A q \in 1..(n - 1) : providerCh'[q] = providerCh[q + 1]
  BY TakenParts
<1>2. /\ \A q \in 1..(n - 1) : q + 1 \in 1..n /\ 1 \in 1..((q + 1) - 1)
      /\ \A q \in 1..(n - 1) : \A p \in 1..(q - 1) :
             p \in 1..(n - 1) /\ p + 1 \in 1..((q + 1) - 1) /\ providerCh'[p] = providerCh[p + 1]
      /\ 1 \in 1..n
  BY <1>1
<1>3. h \in {"start", "text", "tool", "stop", "error", "done"}
  BY <1>1 DEF EventKinds
<1> HIDE DEF n
<1>4. ASSUME NEW q \in 1..n, providerCh[q] = "start"
      PROVE  ~started /\ \A p \in 1..(q - 1) : providerCh[p] = "stop"
  BY <1>4 DEF ChannelInv, BeginInv, n
<1>5. ASSUME NEW q \in 1..(n - 1), providerCh'[q] = "start"
      PROVE  h = "stop" /\ ~started /\ \A p \in 1..(q - 1) : providerCh'[p] = "stop"
  <2>1. providerCh[q + 1] = "start" /\ q + 1 \in 1..n
    BY <1>1, <1>2, <1>5
  <2>2. ~started /\ \A p \in 1..((q + 1) - 1) : providerCh[p] = "stop"
    BY <1>4, <2>1
  <2> QED
    BY <1>1, <1>2, <2>2
<1>6. BeginInv'
  <2>1. (\A q \in 1..Len(providerCh) : providerCh[q] = "start" =>
            ~started /\ \A p \in 1..(q - 1) : providerCh[p] = "stop")'
    BY <1>1, <1>5
  <2>2. stage' = "silent" => ~started' /\ \A q \in 1..Len(providerCh') : providerCh'[q] \in {"stop", "done"}
    <3>1. stage = "silent" => ~started /\ \A q \in 1..n : providerCh[q] \in {"stop", "done"}
      BY DEF ChannelInv, BeginInv, n
    <3>2. stage = "silent" => h \in {"stop", "done"}
      BY <1>1, <1>2, <3>1
    <3> QED
      BY <1>1, <1>2, <3>1, <3>2
  <2>3. stage' = "live" /\ Heeded' => started' \/ \E q \in 1..Len(providerCh') : providerCh'[q] = "start"
    <3> SUFFICES ASSUME stage = "live", ~started'
                 PROVE  \E q \in 1..(n - 1) : providerCh'[q] = "start"
      BY <1>1
    <3>1. ~started
      BY <1>3
    <3>2. PICK q \in 1..n : providerCh[q] = "start"
      BY <3>1 DEF ChannelInv, BeginInv, n
    <3>3. q # 1
      BY <1>1, <3>2
    <3>4. q - 1 \in 1..(n - 1) /\ (q - 1) + 1 = q
      BY <1>1, <3>3
    <3> QED
      BY <1>1, <3>2, <3>4
  <2> QED
    BY <2>1, <2>2, <2>3 DEF BeginInv
<1>7. SendingInv'
  <2> SUFFICES ASSUME producer \in {"reading", "ending"} PROVE SendingInv'
    BY DEF SendingInv
  <2>1. \A q \in 1..n : providerCh[q] # "done" /\ (providerCh[q] = "error" => stage = "failed")
    BY DEF ChannelInv, SendingInv, n
  <2>2. stopHandled' => stage = "failed"
    <3>1. stopHandled => stage = "failed"
      BY DEF ChannelInv, SendingInv
    <3>2. h # "done" /\ (h = "error" => stage = "failed")
      BY <1>1, <1>2, <2>1
    <3> QED
      BY <1>3, <3>1, <3>2
  <2>3. \A q \in 1..Len(providerCh') : providerCh'[q] # "done" /\ (providerCh'[q] = "error" => stage = "failed")
    BY <1>1, <1>2, <2>1
  <2> QED
    BY <2>2, <2>3 DEF SendingInv
<1>8. ContentInv'
  <2> SUFFICES ASSUME ~chatter, NEW q \in 1..(n - 1), providerCh'[q] \in {"text", "tool", "error"}
               PROVE  /\ ~stopHandled'
                      /\ \A p \in 1..(q - 1) : providerCh'[p] \in Opening
                      /\ \/ providerCh'[q] = "error"
                         \/ started'
                         \/ \E p \in 1..(q - 1) : providerCh'[p] = "start"
    BY <1>1 DEF ContentInv
  <2>1. /\ ~stopHandled
        /\ \A p \in 1..((q + 1) - 1) : providerCh[p] \in Opening
        /\ \/ providerCh[q + 1] = "error"
           \/ started
           \/ \E p \in 1..((q + 1) - 1) : providerCh[p] = "start"
    BY <1>1, <1>2 DEF ChannelInv, ContentInv, n
  <2>2. h \in Opening
    BY <1>1, <1>2, <2>1
  <2>3. ~stopHandled' /\ (started => started')
    BY <2>1, <2>2 DEF Opening
  <2>4. \A p \in 1..(q - 1) : providerCh'[p] \in Opening
    BY <1>2, <2>1
  <2>5. ASSUME ~started', providerCh'[q] # "error"
        PROVE  \E p \in 1..(q - 1) : providerCh'[p] = "start"
    <3>1. PICK p \in 1..((q + 1) - 1) : providerCh[p] = "start"
      BY <1>1, <2>1, <2>3, <2>5
    <3>2. h # "start"
      BY <2>5
    <3>3. p # 1
      BY <1>1, <3>1, <3>2
    <3>4. p - 1 \in 1..(q - 1) /\ (p - 1) + 1 = p
      BY <1>1, <3>3
    <3> QED
      BY <1>2, <3>1, <3>4
  <2> QED
    BY <2>3, <2>4, <2>5
<1>9. ChatterInv'
  BY DEF ChannelInv, ChatterInv
<1> QED
  BY <1>6, <1>7, <1>8, <1>9 DEF ChannelInv

\* An event that is taken when the context is done already: an error takes its place.
LEMMA ChannelUnheeded ==
    ASSUME TypeInv, ChannelInv, providerCh # <<>>, providerCh' = Tail(providerCh),
           UNCHANGED <<stage, producer, chatter, started, crashed>>, ~Heeded'
    PROVE  ChannelInv'
<1> DEFINE n == Len(providerCh)
<1>1. /\ n \in Nat \ {0} /\ Len(providerCh') = n - 1
      /\ \A q \in 1..(n - 1) : providerCh'[q] = providerCh[q + 1]
  BY TakenParts
<1>2. /\ \A q \in 1..(n - 1) : q + 1 \in 1..n
      /\ \A q \in 1..(n - 1) : \A p \in 1..(q - 1) :
             p \in 1..(n - 1) /\ p + 1 \in 1..((q + 1) - 1) /\ providerCh'[p] = providerCh[p + 1]
  BY <1>1
<1> HIDE DEF n
<1>3. BeginInv'
  <2>1. ASSUME NEW q \in 1..(n - 1), providerCh'[q] = "start"
        PROVE  ~started /\ \A p \in 1..(q - 1) : providerCh'[p] = "stop"
    <3>1. ~started /\ \A p \in 1..((q + 1) - 1) : providerCh[p] = "stop"
      BY <1>1, <1>2, <2>1 DEF ChannelInv, BeginInv, n
    <3> QED
      BY <1>2, <3>1
  <2>2. stage = "silent" => ~started /\ \A q \in 1..(n - 1) : providerCh'[q] \in {"stop", "done"}
    BY <1>1, <1>2 DEF ChannelInv, BeginInv, n
  <2> QED
    BY <1>1, <2>1, <2>2 DEF BeginInv
<1>4. SendingInv'
  BY <1>1, <1>2 DEF ChannelInv, SendingInv, n
<1>5. ContentInv' /\ ChatterInv'
  BY DEF ChannelInv, ContentInv, ChatterInv
<1> QED
  BY <1>3, <1>4, <1>5 DEF ChannelInv

\* What an event at the head of the channel says about the message.
LEMMA HeadKnown ==
    ASSUME TypeInv, PumpInv, ChannelInv, providerCh # <<>>, Heeded
    PROVE  /\ Head(providerCh) \in EventKinds
           /\ Head(providerCh) = "start" => ~started /\ ~stopHandled
           /\ ~chatter /\ Head(providerCh) \in {"text", "tool"} => started /\ ~stopHandled /\ toolMaps
           /\ ~chatter /\ Head(providerCh) = "error" => ~stopHandled
<1>1. providerCh \in Seq(EventKinds)
  BY DEF TypeInv
<1>2. Head(providerCh) = providerCh[1] /\ Head(providerCh) \in EventKinds /\ 1 \in 1..Len(providerCh)
  BY <1>1, HeadTailProperties, EmptySeq, LenProperties
<1>3. \A p \in 1..(1 - 1) : FALSE
  OBVIOUS
<1> QED
  BY <1>2, <1>3 DEF ChannelInv, BeginInv, ContentInv, PumpInv

\* The goroutine takes an event and converts it, which only panics on content
\* behind an error.
LEMMA ChannelConverted ==
    ASSUME TypeInv, PumpInv, ChannelInv, ~crashed, Heeded, providerCh # <<>>,
           providerCh' = Tail(providerCh), UNCHANGED <<stage, producer, chatter>>,
           Convert(Head(providerCh))
    PROVE  ChannelInv' /\ Flags' /\ (crashed' => pending' = <<>>)
<1>1. Flags
  BY DEF PumpInv, Flags
<1>2. Head(providerCh) \in EventKinds
  BY HeadKnown
<1>3. crashed' => chatter
  BY <1>1, HeadKnown, ConvertFlags
<1> QED
  BY <1>1, <1>2, <1>3, ConvertFlags, ChannelTaken

\* The steps that convert.
LEMMA ChannelConverts ==
    ASSUME TypeInv, PumpInv, ChannelInv, PeekEvent \/ Receiving \/ ReceivingClosed
    PROVE  ChannelInv'
<1>1. UNCHANGED <<producer, stage, chatter, cancelled>>
  BY DEF PeekEvent, Receiving, ReceivingClosed, TheRest
<1>2. CASE PeekEvent
  <2>1. /\ pump = "none" /\ ~crashed /\ providerCh # <<>> /\ providerCh' = Tail(providerCh)
        /\ Heeded
    BY <1>2 DEF PeekEvent, PumpInv, TypeInv, Heeded
  <2>2. CASE Head(providerCh) \in {"error", "done"}
    <3>1. UNCHANGED <<started, stopHandled, crashed>>
      BY <1>2, <2>2 DEF PeekEvent, converterVars
    <3> QED
      BY <1>1, <2>1, <2>2, <3>1, ChannelTaken
  <2>3. CASE Head(providerCh) \notin {"error", "done"}
    BY <1>1, <1>2, <2>1, <2>3, ChannelConverted DEF PeekEvent
  <2> QED
    BY <2>2, <2>3
<1>3. CASE Receiving
  <2>1. pump = "waiting" /\ ~crashed /\ providerCh # <<>> /\ providerCh' = Tail(providerCh)
    BY <1>3 DEF Receiving, PumpInv
  <2>2. CASE cancelled
    <3>1. UNCHANGED <<started, crashed>>
      BY <1>3, <2>2 DEF Receiving, Received, HandleError, HandleStop
    <3>2. ~Heeded'
      BY <1>1, <1>3, <2>2 DEF Heeded, Receiving, Received, AfterConvert
    <3> QED
      BY <1>1, <2>1, <3>1, <3>2, ChannelUnheeded
  <2>3. CASE ~cancelled
    BY <1>1, <1>3, <2>1, <2>3, ChannelConverted DEF Receiving, Received, Heeded
  <2> QED
    BY <2>2, <2>3
<1>4. CASE ReceivingClosed
  <2>1. pump = "waiting" /\ providerCh = <<>> /\ UNCHANGED providerCh /\ producer = "closed"
    BY <1>4 DEF ReceivingClosed
  <2>2. UNCHANGED <<started, crashed>>
    BY <1>4 DEF ReceivingClosed, HandleError, HandleDone, HandleStop, Ignore, converterVars
  <2>3. Heeded' => Heeded
    BY <1>1, <1>4 DEF Heeded, ReceivingClosed, AfterConvert
  <2> QED
    BY <1>1, <2>1, <2>2, <2>3, ChannelRests
<1> QED
  BY <1>2, <1>3, <1>4

\* The steps that leave the channel alone.
LEMMA ChannelWrites ==
    ASSUME TypeInv, ChannelInv,
           \/ ProviderReturns \/ ProviderCloses \/ UpstreamCloses \/ Cancel \/ UNCHANGED vars
           \/ PeekFails \/ WriteCheck \/ Write \/ WriteAborted \/ Recover \/ Tick \/ Consume
    PROVE  ChannelInv'
<1>1. CASE ProviderReturns \/ ProviderCloses \/ UpstreamCloses \/ Cancel \/ UNCHANGED vars
  <2>1. /\ UNCHANGED <<providerCh, stage, chatter, started, crashed, stopHandled, pump>>
        /\ producer' \in {producer, "draining", "closed"}
        /\ cancelled => cancelled'
    BY <1>1 DEF ProviderReturns, ProviderCloses, UpstreamCloses, Cancel, vars, chatVars,
           providerVars, converterVars
  <2> QED
    BY <2>1, ChannelRests DEF Heeded
<1>2. CASE PeekFails \/ WriteCheck \/ Write \/ WriteAborted \/ Recover \/ Tick \/ Consume
  <2>1. /\ UNCHANGED <<providerCh, stage, chatter, started, crashed, stopHandled, producer, cancelled>>
        /\ pump' = "none" => pump = "none"
    BY <1>2 DEF PeekFails, WriteCheck, Write, WriteAborted, Recover, Tick, Consume, TheRest,
           converterVars, providerVars
  <2> QED
    BY <2>1, ChannelRests DEF Heeded
<1> QED
  BY <1>1, <1>2

\* Initially nothing waits.
LEMMA ChannelInit ==
    ASSUME Init
    PROVE  ChannelInv
<1>1. \A q \in 1..Len(providerCh) : FALSE
  BY DEF Init
<1> QED
  BY <1>1 DEF Init, ConverterInit, ChannelInv, BeginInv, SendingInv, ContentInv, ChatterInv

\* What waits in the provider's channel, in every behaviour.
LEMMA ChannelInvariant == Spec => []ChannelInv
<1>1. TypeInv /\ PumpInv /\ ChannelInv /\ [Next]_vars => ChannelInv'
  BY ChannelSends, ChannelConverts, ChannelWrites DEF Next, Pump
<1> QED
  BY <1>1, ChannelInit, PumpInvariant, PTL DEF Spec

-----------------------------------------------------------------------------
(* A reply that is cancelled before its end is converted is not completed:   *)
(* where a message_stop may be.                                              *)

\* A batch or a channel without message_stop.
Unended(q) == \A p \in DOMAIN q : q[p].type # "message_stop"

\* None, one or two events.
LEMMA UnendedFew ==
    /\ Unended(<<>>)
    /\ \A e : e.type # "message_stop" => Unended(<<e>>)
  BY DEF Unended

\* One batch behind another.
LEMMA UnendedConcat ==
    ASSUME NEW q \in Seq(EventType), NEW b \in Seq(EventType), Unended(q), Unended(b)
    PROVE  Unended(q \o b)
<1>1. /\ Len(q) \in Nat /\ Len(b) \in Nat /\ DOMAIN q = 1..Len(q) /\ DOMAIN b = 1..Len(b)
      /\ DOMAIN (q \o b) = 1..(Len(q) + Len(b))
  BY LenProperties, ConcatProperties
<1>2. ASSUME NEW p \in 1..(Len(q) + Len(b))
      PROVE  (q \o b)[p].type # "message_stop"
  <2>1. CASE p <= Len(q)
    BY <1>1, <2>1, ConcatProperties DEF Unended
  <2>2. CASE p > Len(q)
    <3>1. p - Len(q) \in 1..Len(b) /\ (q \o b)[p] = b[p - Len(q)]
      BY <1>1, <2>2, ConcatProperties
    <3> QED
      BY <1>1, <3>1 DEF Unended
  <2> QED
    BY <1>1, <2>1, <2>2
<1> QED
  BY <1>1, <1>2 DEF Unended

\* What follows the first event of a batch.
LEMMA UnendedTail ==
    ASSUME NEW q \in Seq(EventType), q # <<>>, Unended(q)
    PROVE  Unended(Tail(q)) /\ Head(q).type # "message_stop"
<1>1. /\ Len(q) \in Nat \ {0} /\ DOMAIN q = 1..Len(q)
      /\ DOMAIN Tail(q) = 1..(Len(q) - 1)
      /\ Head(q) = q[1] /\ \A p \in 1..(Len(q) - 1) : Tail(q)[p] = q[p + 1]
  BY HeadTailProperties, LenProperties, EmptySeq
<1>2. \A p \in 1..(Len(q) - 1) : p + 1 \in 1..Len(q)
  BY <1>1
<1> QED
  BY <1>1, <1>2 DEF Unended

\* An event put behind a channel.
LEMMA UnendedAppend ==
    ASSUME NEW q \in Seq(EventType), NEW e \in EventType, Unended(q), e.type # "message_stop"
    PROVE  Unended(Append(q, e))
<1>1. Append(q, e) = q \o <<e>> /\ <<e>> \in Seq(EventType)
  BY AppendIsConcat
<1> QED
  BY <1>1, UnendedFew, UnendedConcat

\* The stops of text and thinking.
LEMMA UnendedStops ==
    ASSUME ConverterTypeOK
    PROVE  /\ \A b \in BOOLEAN : \A i : Unended(StopIf(b, i))
           /\ Unended(StopAllTextOrThinking)
<1>1. \A b \in BOOLEAN : \A i : Unended(StopIf(b, i))
  BY UnendedFew DEF StopIf, BlockStop, Event
<1>2. /\ StopIf(content["thinking"] # NoBlock, content["thinking"]) \in Seq(EventType)
      /\ StopIf(content["text"] # NoBlock, content["text"]) \in Seq(EventType)
  BY StopIfTyping DEF ConverterTypeOK, ContentKinds
<1>3. Unended(StopAllTextOrThinking)
  BY <1>1, <1>2, UnendedConcat DEF StopAllTextOrThinking
<1> QED
  BY <1>1, <1>3

\* Only the end of the message makes Convert return a message_stop.
LEMMA ConvertUnended ==
    ASSUME ConverterInv, NEW e \in EventKinds, Convert(e), Unended(pending), ~stopHandled'
    PROVE  Unended(pending')
<1>1. ConverterTypeOK /\ nextIndex \in Nat
  BY DEF ConverterInv, ConverterTypeOK
<1>2. CASE e = "start" /\ HandleStart
  BY <1>2, UnendedFew DEF HandleStart, Message, Event
<1>3. CASE e = "text" /\ HandleContent("text", TRUE)
  <2> DEFINE idx == IF content["text"] # NoBlock THEN content["text"] ELSE nextIndex
             delta == <<BlockDelta(idx, "text")>>
             stop == StopIf(content["thinking"] # NoBlock, content["thinking"])
             start == <<BlockStart(nextIndex, "text")>>
  <2>1. idx \in Nat /\ "text" \in ContentKinds /\ "text" \in BlockKinds
        /\ (content["thinking"] # NoBlock => content["thinking"] \in Nat)
    BY <1>1 DEF ConverterTypeOK, ContentKinds, BlockKinds
  <2>2. delta \in Seq(EventType) /\ start \in Seq(EventType)
    BY <1>1, <2>1, EventTyping, OneEvent
  <2>3. stop \in Seq(EventType)
    BY <2>1, StopIfTyping
  <2>4. Unended(delta) /\ Unended(start) /\ Unended(stop)
    BY <1>1, UnendedFew, UnendedStops DEF BlockDelta, BlockStart, Event
  <2>5. pending' = delta \/ pending' = stop \o start \o delta
    BY <1>3 DEF HandleContent, Other
  <2> HIDE DEF idx, delta, stop, start
  <2>6. stop \o start \in Seq(EventType) /\ Unended(stop \o start)
    BY <2>2, <2>3, <2>4, ConcatTyping, UnendedConcat
  <2> QED
    BY <2>2, <2>4, <2>5, <2>6, UnendedConcat
<1>4. CASE e = "tool" /\ \E id \in ToolIDs : StartToolBlock(id, NoIndex)
  <2>1. PICK id \in ToolIDs : StartToolBlock(id, NoIndex)
    BY <1>4
  <2>2. ToolStart(nextIndex, id) \in EventType /\ Unended(<<ToolStart(nextIndex, id)>>)
    BY <1>1, EventTyping, UnendedFew DEF Tools, ToolStart, Event
  <2>3. StopAllTextOrThinking \in Seq(EventType) /\ Unended(StopAllTextOrThinking)
    BY <1>1, StopAllTyping, UnendedStops
  <2>4. Unended(StopAllTextOrThinking \o <<ToolStart(nextIndex, id)>>)
    BY <2>2, <2>3, OneEvent, UnendedConcat
  <2>5. pending' \in {<<>>, StopAllTextOrThinking,
                      StopAllTextOrThinking \o <<ToolStart(nextIndex, id)>>}
    BY <2>1 DEF StartToolBlock, Panic
  <2> QED
    BY <2>3, <2>4, <2>5, UnendedFew
<1>5. CASE e = "stop" /\ RecordFinishReason("stop")
  BY <1>5 DEF RecordFinishReason
<1>6. CASE e \in {"error", "done"} /\ (HandleError \/ HandleDone)
  <2>1. pending' = pending \/ pending' = <<Message("error")>>
    BY <1>6 DEF HandleError, HandleDone, HandleStop, Ignore, converterVars
  <2> QED
    BY <2>1, UnendedFew DEF Message, Event
<1> QED
  BY <1>2, <1>3, <1>4, <1>5, <1>6, ConvertKinds

\* Before the end of the message is converted, and after a cancellation that came
\* before it, no message_stop is on its way.
EndInv ==
    /\ ~stopHandled => phase # "ended" /\ Unended(out) /\ Unended(pending)
    /\ early => phase # "ended" /\ Unended(out) /\ (pump = "selecting" => Unended(pending))

\* The steps that convert.
LEMMA EndConverts ==
    ASSUME TypeInv, PumpInv, ChannelInv, EndInv, PeekEvent \/ Receiving \/ ReceivingClosed
    PROVE  EndInv'
<1>1. UNCHANGED <<out, early, phase>>
  BY DEF PeekEvent, Receiving, ReceivingClosed, TheRest, clientVars
<1>2. pump \in {"none", "waiting"} /\ pending = <<>> /\ ~crashed /\ ConverterInv
  BY DEF PeekEvent, Receiving, ReceivingClosed, PumpInv, TypeInv
<1>3. pump' # "selecting"
  BY <1>2 DEF PeekEvent, Receiving, ReceivingClosed, Received, AfterConvert
<1>4. ASSUME providerCh # <<>>, Heeded, Convert(Head(providerCh)), ~stopHandled'
      PROVE  ~stopHandled /\ Unended(pending')
  <2>1. Head(providerCh) \in EventKinds /\ (Head(providerCh) = "start" => ~stopHandled)
    BY <1>4, HeadKnown
  <2>2. Unended(pending')
    BY <1>2, <1>4, <2>1, UnendedFew, ConvertUnended
  <2>3. Head(providerCh) \notin {"start", "error", "done"} => UNCHANGED stopHandled
    BY <1>2, <1>4, <2>1, ConvertFlags DEF PumpInv, Flags
  <2>4. Head(providerCh) \in {"error", "done"} => ~stopHandled
    BY <1>4 DEF Convert, HandleError, HandleDone, HandleStop, Ignore, converterVars
  <2> QED
    BY <1>4, <2>1, <2>2, <2>3, <2>4
<1>5. ASSUME HandleError \/ HandleDone, ~stopHandled'
      PROVE  ~stopHandled /\ Unended(pending')
  <2>1. ~stopHandled /\ (pending' = <<>> \/ pending' = <<Message("error")>>)
    BY <1>2, <1>5 DEF HandleError, HandleDone, HandleStop, Ignore, converterVars
  <2> QED
    BY <2>1, UnendedFew DEF Message, Event
<1>6. CASE PeekEvent
  <2>1. Heeded /\ providerCh # <<>>
    BY <1>6 DEF PeekEvent, PumpInv, TypeInv, Heeded
  <2>2. ~stopHandled' => ~stopHandled /\ Unended(pending')
    <3>1. CASE UNCHANGED converterVars
      BY <1>2, <3>1, UnendedFew DEF converterVars
    <3> QED
      BY <1>4, <1>6, <2>1, <3>1 DEF PeekEvent
  <2> QED
    BY <1>1, <1>3, <2>2 DEF EndInv
<1>7. CASE Receiving \/ ReceivingClosed
  <2>1. ~stopHandled' => ~stopHandled /\ Unended(pending')
    <3>1. CASE cancelled \/ ReceivingClosed
      BY <1>5, <1>7, <3>1 DEF Receiving, Received, ReceivingClosed
    <3>2. CASE ~cancelled /\ Receiving
      BY <1>4, <3>2 DEF Receiving, Received, Heeded
    <3> QED
      BY <1>7, <3>1, <3>2
  <2> QED
    BY <1>1, <1>3, <2>1 DEF EndInv
<1> QED
  BY <1>6, <1>7

\* The steps that write, and those of the ticker and of the caller.
LEMMA EndWrites ==
    ASSUME TypeInv, PumpInv, EndInv,
           PeekFails \/ WriteCheck \/ Write \/ WriteAborted \/ Recover \/ Tick \/ Consume
    PROVE  EndInv'
<1>1. out \in Seq(EventType) /\ pending \in Seq(EventType)
  BY DEF TypeInv, ConverterInv, ConverterTypeOK
<1>2. CASE PeekFails \/ WriteCheck \/ WriteAborted
  <2>1. /\ UNCHANGED <<out, pending, early, stopHandled, phase>>
        /\ pump' = "selecting" => pump = "selecting" \/ ~cancelled
    BY <1>2 DEF PeekFails, WriteCheck, WriteAborted, TheRest, converterVars, clientVars
  <2>2. cancelled \/ ~early
    BY DEF PumpInv
  <2> QED
    BY <2>1, <2>2 DEF EndInv
<1>3. CASE Write
  <2>1. /\ pending # <<>> /\ out' = Append(out, Head(pending)) /\ pending' = Tail(pending)
        /\ pump = "selecting" /\ pump' # "selecting"
        /\ UNCHANGED <<early, stopHandled, phase>>
    BY <1>3 DEF Write, PumpInv, clientVars
  <2>2. Head(pending) \in EventType
    BY <1>1, <2>1, HeadTailProperties
  <2>3. Unended(out) /\ Unended(pending) => Unended(out') /\ Unended(pending')
    BY <1>1, <2>1, <2>2, UnendedTail, UnendedAppend
  <2> QED
    BY <2>1, <2>3 DEF EndInv
<1>4. CASE Recover
  <2>1. Message("error") \in EventType /\ Message("error").type # "message_stop"
    BY EventTyping DEF Message, Event
  <2>2. Unended(out) => Unended(out')
    BY <1>1, <1>4, <2>1, UnendedAppend DEF Recover
  <2> QED
    BY <1>4, <2>2 DEF Recover, EndInv, converterVars, clientVars
<1>5. CASE Tick
  <2>1. Unended(pending') /\ UNCHANGED <<out, early, stopHandled, phase>>
    BY <1>5, UnendedFew DEF Tick, Message, Event, clientVars
  <2> QED
    BY <1>5, <2>1 DEF Tick, EndInv
<1>6. CASE Consume
  <2>1. /\ out # <<>> /\ out' = Tail(out) /\ Receive(Head(out))
        /\ UNCHANGED <<pump, pending, early, stopHandled>>
    BY <1>6 DEF Consume, converterVars
  <2>2. Unended(out) => Unended(out') /\ Head(out).type # "message_stop"
    BY <1>1, <2>1, UnendedTail
  <2>3. phase # "ended" /\ Head(out).type # "message_stop" => phase' # "ended"
    BY <2>1 DEF Receive, NextPhase
  <2> QED
    BY <2>1, <2>2, <2>3 DEF EndInv
<1> QED
  BY <1>2, <1>3, <1>4, <1>5, <1>6

\* The steps that leave the goroutine alone, a cancellation among them.
LEMMA EndRests ==
    ASSUME TypeInv, EndInv, ProviderStep \/ UpstreamCloses \/ Cancel \/ UNCHANGED vars
    PROVE  EndInv'
<1>1. UNCHANGED <<out, pending, stopHandled, phase, pump>> /\ early' \in {early, ~stopHandled}
  <2>1. ASSUME NEW e, NEW next, Send(e, next)
        PROVE  UNCHANGED <<out, pending, stopHandled, phase, pump, early>>
    BY <2>1 DEF Send, chatVars, converterVars, clientVars
  <2>2. CASE SendFrames \/ SendError \/ SendStop \/ SendDone
    <3>1. \E e, next : Send(e, next)
      BY <2>2 DEF SendFrames, SendError, SendStop, SendDone
    <3> QED
      BY <2>1, <3>1
  <2>3. CASE ProviderReturns \/ ProviderCloses \/ UpstreamCloses \/ Cancel \/ UNCHANGED vars
    BY <2>3 DEF ProviderReturns, ProviderCloses, UpstreamCloses, Cancel, vars, chatVars,
           converterVars, clientVars
  <2> QED
    BY <2>2, <2>3 DEF ProviderStep
<1>2. early' => early \/ ~stopHandled
  BY <1>1 DEF TypeInv, ConverterInv, ConverterTypeOK
<1> QED
  BY <1>1, <1>2 DEF EndInv

\* Where a message_stop may be, in every behaviour.
LEMMA EndInvariant == Spec => []EndInv
<1>1. Init => EndInv
  BY UnendedFew DEF Init, ConverterInit, ClientInit, EndInv
<1>2. TypeInv /\ PumpInv /\ ChannelInv /\ EndInv /\ [Next]_vars => EndInv'
  BY EndConverts, EndWrites, EndRests DEF Next, Pump, ProviderStep
<1> QED
  BY <1>1, <1>2, PumpInvariant, ChannelInvariant, PTL DEF Spec

\* A reply that is cancelled before its end was converted is never completed, and
\* at most the one event whose write had begun follows the cancellation
\* (bamboo/bamboo.go:104-181): for any capacity of the channels, any number of
\* events and pings, and a caller and an upstream that may do as they like.
THEOREM CancelledIsNotCompleted == Spec => []CancelledNotCompleted
<1>1. PumpInv /\ EndInv => CancelledNotCompleted
  BY DEF PumpInv, EndInv, CancelledNotCompleted, Unended
<1> QED
  BY <1>1, PumpInvariant, EndInvariant, PTL

-----------------------------------------------------------------------------
(* What the caller will make of the events that wait in its channel and of   *)
(* those the goroutine has yet to write.                                     *)

\* What the caller was told once it has read everything: the message has not begun,
\* is open with the blocks the converter knows of, or has ended.
Stands(w) ==
    /\ ~started => w.phase = "idle" /\ w.blocks = <<>> /\ w.open = {}
    /\ started /\ ~stopHandled => Mirrors(w)
    /\ started /\ stopHandled => w.phase = "ended"

\* Unless the adapter goes on after an error, the caller makes sense of its channel
\* and, as long as they may be written, of the events of the batch.
QueueInv ==
    ~chatter =>
        \E u \in View :
            /\ Reads(out, Told, u)
            /\ ~cancelled \/ pump = "selecting" =>
                   \E w \in View : Reads(pending, u, w) /\ (~cancelled => Stands(w))

\* A client that reads anything was told what a view tells.
LEMMA ReadsToldIsView ==
    ASSUME NEW q, NEW w, Len(q) \in Nat, Reads(q, Told, w)
    PROVE  Told \in View
<1>1. PICK f \in [0..Len(q) -> View] : f[0] = Told
  BY DEF Reads
<1>2. 0 \in 0..Len(q)
  OBVIOUS
<1> QED
  BY <1>1, <1>2

\* The beginning and the end of a message are where they were.
LEMMA StandsStays ==
    ASSUME NEW w \in View, Stands(w),
           UNCHANGED <<started, stopHandled, nextIndex, content, openTools, stopped>>
    PROVE  Stands(w)'
  BY DEF Stands, Mirrors

\* What the end of a message, or an error, tells a caller that has read everything.
LEMMA EndStands ==
    ASSUME ConverterInv, Flags, NEW v \in View, Stands(v), pending = <<>>,
           HandleDone \/ (HandleError /\ ~stopHandled)
    PROVE  \E w \in View : Reads(pending', v, w) /\ Stands(w)'
<1>1. CASE started /\ ~stopHandled
  <2>1. PICK prefix \in {<<>>, <<Message("error")>>} : HandleStop(prefix)
    BY <1>1 DEF HandleError, HandleDone
  <2>2. PICK w \in View : Reads(pending', v, w) /\ w.phase = "ended"
    BY <1>1, <2>1, EndReads DEF Stands
  <2>3. Stands(w)'
    BY <1>1, <2>1, <2>2 DEF Stands, HandleStop
  <2> QED
    BY <2>2, <2>3
<1>2. CASE ~started \/ stopHandled
  <2>1. UNCHANGED <<started, stopHandled, nextIndex, content, openTools, stopped>>
    BY <1>2 DEF HandleError, HandleDone, Ignore, converterVars
  <2>2. pending' = <<>> \/ (pending' = <<Message("error")>> /\ v.phase = "idle")
    BY <1>2 DEF HandleError, HandleDone, Ignore, converterVars, Stands, Flags
  <2>3. Reads(pending', v, v)
    BY <2>2, ReadsNothing, ReadsPassed
  <2> QED
    BY <2>1, <2>3, StandsStays
<1> QED
  BY <1>1, <1>2

\* What an event that comes in its place tells such a caller.
LEMMA ConvertStands ==
    ASSUME ConverterInv, Flags, NEW v \in View, Stands(v), pending = <<>>,
           NEW e \in EventKinds, Convert(e),
           e = "start" => ~started,
           e \in {"text", "tool"} => started /\ ~stopHandled /\ toolMaps,
           e = "error" => ~stopHandled
    PROVE  \E w \in View : Reads(pending', v, w) /\ Stands(w)'
<1>1. CASE e = "start" /\ HandleStart
  <2>1. PICK w \in View : Reads(pending', v, w) /\ Mirrors(w)'
    BY <1>1, StartReads DEF Stands
  <2>2. Stands(w)'
    BY <1>1, <2>1 DEF Stands, HandleStart
  <2> QED
    BY <2>1, <2>2
<1>2. ASSUME NEW w \in View, Reads(pending', v, w), Mirrors(w)',
             started, ~stopHandled, UNCHANGED <<started, stopHandled>>
      PROVE  \E x \in View : Reads(pending', v, x) /\ Stands(x)'
  <2>1. Stands(w)'
    BY <1>2 DEF Stands
  <2> QED
    BY <1>2, <2>1
<1>3. CASE e = "text" /\ HandleContent("text", TRUE)
  <2>1. \E w \in View : Reads(pending', v, w) /\ Mirrors(w)'
    BY <1>3, ContentReads DEF Stands, ContentKinds
  <2> QED
    BY <1>2, <1>3, <2>1 DEF HandleContent
<1>4. CASE e = "tool" /\ \E id \in ToolIDs : StartToolBlock(id, NoIndex)
  <2>1. PICK id \in ToolIDs : StartToolBlock(id, NoIndex)
    BY <1>4
  <2>2. \E w \in View : Reads(pending', v, w) /\ Mirrors(w)'
    BY <1>4, <2>1, ToolReads DEF Stands, Tools
  <2>3. UNCHANGED <<started, stopHandled>>
    BY <2>1 DEF StartToolBlock, Panic
  <2> QED
    BY <1>2, <1>4, <2>2, <2>3
<1>5. CASE e = "stop" /\ RecordFinishReason("stop")
  <2>1. /\ UNCHANGED <<started, stopHandled, nextIndex, content, openTools, stopped>>
        /\ pending' = <<>>
    BY <1>5 DEF RecordFinishReason
  <2> QED
    BY <2>1, ReadsNothing, StandsStays
<1>6. CASE HandleDone \/ (e = "error" /\ HandleError)
  BY <1>6, EndStands
<1> QED
  BY <1>1, <1>3, <1>4, <1>5, <1>6, ConvertKinds

\* The events that wait, when neither they nor what the caller was told change.
LEMMA QueueStays ==
    ASSUME QueueInv, ~chatter' => ~chatter,
           UNCHANGED <<out, pending, clientVars, started, stopHandled, nextIndex, content, openTools,
                       stopped>>,
           ~cancelled' => ~cancelled,
           pump' = "selecting" => ~cancelled \/ pump = "selecting"
    PROVE  QueueInv'
<1> SUFFICES ASSUME ~chatter PROVE QueueInv'
  BY DEF QueueInv
<1>1. Told' = Told
  BY DEF Told, clientVars
<1>2. PICK u \in View :
          /\ Reads(out, Told, u)
          /\ ~cancelled \/ pump = "selecting" =>
                 \E w \in View : Reads(pending, u, w) /\ (~cancelled => Stands(w))
  BY DEF QueueInv
<1>3. Reads(out, Told, u)'
  BY <1>1, <1>2
<1>4. ASSUME ~cancelled' \/ pump' = "selecting"
      PROVE  \E w \in View : Reads(pending', u, w) /\ (~cancelled' => Stands(w)')
  <2>1. PICK w \in View : Reads(pending, u, w) /\ (~cancelled => Stands(w))
    BY <1>2, <1>4
  <2>2. ~cancelled' => Stands(w)'
    BY <2>1, StandsStays
  <2> QED
    BY <2>1, <2>2
<1> QED
  BY <1>3, <1>4 DEF QueueInv

\* The steps of the provider's goroutine, of the upstream and of the canceller.
LEMMA QueueRests ==
    ASSUME TypeInv, ChannelInv, QueueInv, ProviderStep \/ UpstreamCloses \/ Cancel \/ UNCHANGED vars
    PROVE  QueueInv'
<1>1. /\ UNCHANGED <<out, pending, clientVars, started, stopHandled, nextIndex, content, openTools,
                     stopped, pump>>
      /\ cancelled => cancelled'
      /\ ~chatter' => ~chatter
  <2>1. ASSUME NEW e, NEW next, Send(e, next)
        PROVE  UNCHANGED <<out, pending, clientVars, started, stopHandled, nextIndex, content,
                           openTools, stopped, pump, cancelled>>
    BY <2>1 DEF Send, chatVars, converterVars
  <2>2. CASE SendFrames \/ SendError \/ SendStop \/ SendDone
    <3>1. \E e, next : Send(e, next)
      BY <2>2 DEF SendFrames, SendError, SendStop, SendDone
    <3>2. UNCHANGED chatter \/ chatter' = (stage = "failed")
      BY <2>2 DEF SendFrames, SendError, SendStop, SendDone
    <3>3. chatter => stage = "failed"
      BY DEF ChannelInv, ChatterInv
    <3>4. ~chatter' => ~chatter
      <4>1. CASE UNCHANGED chatter
        BY <4>1
      <4>2. CASE chatter' = (stage = "failed")
        BY <3>3, <4>2
      <4> QED
        BY <3>2, <4>1, <4>2
    <3> QED
      BY <2>1, <3>1, <3>4
  <2>3. CASE ProviderReturns \/ ProviderCloses \/ UpstreamCloses \/ Cancel \/ UNCHANGED vars
    BY <2>3 DEF ProviderReturns, ProviderCloses, UpstreamCloses, Cancel, vars, chatVars,
           providerVars, converterVars
  <2> QED
    BY <2>2, <2>3 DEF ProviderStep
<1> QED
  BY <1>1, QueueStays

\* The steps that convert.
LEMMA QueueConverts ==
    ASSUME TypeInv, PumpInv, ChannelInv, QueueInv, PeekEvent \/ Receiving \/ ReceivingClosed
    PROVE  QueueInv'
<1> SUFFICES ASSUME ~chatter PROVE QueueInv'
  BY DEF QueueInv, PeekEvent, Receiving, ReceivingClosed, TheRest
<1>1. UNCHANGED <<out, cancelled, chatter>> /\ Told' = Told
  BY DEF PeekEvent, Receiving, ReceivingClosed, TheRest, clientVars, Told
<1>2. pump \in {"none", "waiting"} /\ pending = <<>> /\ ~crashed /\ ConverterInv /\ Flags
  BY DEF PeekEvent, Receiving, ReceivingClosed, PumpInv, TypeInv, Flags
<1>3. pump' # "selecting"
  BY <1>2 DEF PeekEvent, Receiving, ReceivingClosed, Received, AfterConvert
<1>4. PICK u \in View :
          /\ Reads(out, Told, u)
          /\ ~cancelled => \E w \in View : Reads(pending, u, w) /\ Stands(w)
  BY DEF QueueInv
<1>5. ASSUME ~cancelled
      PROVE  \E w \in View : Reads(pending', u, w) /\ Stands(w)'
  <2>1. Stands(u)
    BY <1>2, <1>4, <1>5, ReadsNothing
  <2>2. CASE PeekEvent /\ UNCHANGED converterVars
    BY <1>2, <2>1, <2>2, ReadsNothing, StandsStays DEF converterVars
  <2>3. ASSUME providerCh # <<>>, Convert(Head(providerCh))
        PROVE  \E w \in View : Reads(pending', u, w) /\ Stands(w)'
    BY <1>2, <1>5, <2>1, <2>3, HeadKnown, ConvertStands DEF Heeded
  <2>4. CASE HandleDone
    BY <1>2, <2>1, <2>4, EndStands
  <2> QED
    BY <1>5, <2>2, <2>3, <2>4 DEF PeekEvent, Receiving, Received, ReceivingClosed
<1>6. Reads(out, Told, u)'
  BY <1>1, <1>4
<1> QED
  BY <1>1, <1>3, <1>5, <1>6 DEF QueueInv

\* The steps that write, and those of the ticker and of the caller.
LEMMA QueueWrites ==
    ASSUME TypeInv, PumpInv, ChannelInv, QueueInv,
           PeekFails \/ WriteCheck \/ Write \/ WriteAborted \/ Recover \/ Tick \/ Consume
    PROVE  QueueInv'
<1> SUFFICES ASSUME ~chatter PROVE QueueInv'
  BY DEF QueueInv, PeekFails, WriteCheck, Write, WriteAborted, Recover, Tick, Consume, TheRest,
         providerVars
<1>1. out \in Seq(EventType) /\ pending \in Seq(EventType)
  BY DEF TypeInv, ConverterInv, ConverterTypeOK
<1>2. PICK u \in View :
          /\ Reads(out, Told, u)
          /\ ~cancelled \/ pump = "selecting" =>
                 \E w \in View : Reads(pending, u, w) /\ (~cancelled => Stands(w))
  BY DEF QueueInv
<1>3. CASE PeekFails \/ WriteCheck \/ WriteAborted
  <2>1. /\ UNCHANGED <<out, pending, clientVars, started, stopHandled, nextIndex, content, openTools,
                       stopped, chatter, cancelled>>
        /\ pump' = "selecting" => pump = "selecting" \/ ~cancelled
    BY <1>3 DEF PeekFails, WriteCheck, WriteAborted, TheRest, converterVars
  <2> QED
    BY <2>1, QueueStays
<1>4. CASE Write
  <2>1. /\ pump = "selecting" /\ pump' # "selecting" /\ pending # <<>>
        /\ out' = Append(out, Head(pending)) /\ pending' = Tail(pending)
        /\ UNCHANGED <<started, stopHandled, nextIndex, content, openTools, stopped, cancelled>>
        /\ Told' = Told
    BY <1>4 DEF Write, PumpInv, clientVars, Told
  <2>2. PICK w \in View : Reads(pending, u, w) /\ (~cancelled => Stands(w))
    BY <1>2, <2>1
  <2>3. Head(pending) \in EventType
    BY <1>1, <2>1, HeadTailProperties
  <2>4. Accepts(Head(pending), u) /\ Reads(Tail(pending), After(Head(pending), u), w)
    BY <1>1, <2>1, <2>2, ReadsHead
  <2>5. After(Head(pending), u) \in View
    BY <2>3, <2>4, AfterTyping
  <2>6. PICK x \in View : x = After(Head(pending), u)
    BY <2>5
  <2>7. Reads(Append(out, Head(pending)), Told, x)
    BY <1>1, <1>2, <2>3, <2>4, <2>6, ReadsAppend
  <2>8. Reads(out, Told, x)'
    BY <2>1, <2>7
  <2>9. Reads(pending', x, w) /\ (~cancelled' => Stands(w)')
    BY <2>1, <2>2, <2>4, <2>6, StandsStays
  <2> QED
    BY <2>8, <2>9 DEF QueueInv
<1>5. CASE Recover
  BY <1>5 DEF Recover, PumpInv, ChannelInv, ChatterInv
<1>6. CASE Tick
  <2>1. /\ pending = <<>> /\ pending' = <<Message("ping")>> /\ pump' = "writing"
        /\ UNCHANGED <<out, started, stopHandled, nextIndex, content, openTools, stopped, cancelled>>
        /\ Told' = Told
    BY <1>6 DEF Tick, PumpInv, clientVars, Told
  <2>2. Reads(out, Told, u)'
    BY <1>2, <2>1
  <2>3. ~cancelled => Reads(pending', u, u) /\ Stands(u)'
    BY <1>2, <2>1, ReadsNothing, ReadsPassed, StandsStays
  <2> QED
    BY <2>1, <2>2, <2>3 DEF QueueInv
<1>7. CASE Consume
  <2>1. /\ out # <<>> /\ out' = Tail(out) /\ Receive(Head(out))
        /\ UNCHANGED <<pump, pending, started, stopHandled, nextIndex, content, openTools, stopped,
                       cancelled>>
    BY <1>7 DEF Consume, converterVars
  <2>2. PICK v \in View : v = Told
    BY <1>1, <1>2, LenProperties, ReadsToldIsView
  <2>3. Accepts(Head(out), v) /\ Reads(Tail(out), After(Head(out), v), u)
    BY <1>1, <1>2, <2>1, <2>2, ReadsHead
  <2>4. Told' = After(Head(out), v)
    BY <2>1, <2>2, <2>3, ReceiveIsAfter
  <2>5. Reads(out, Told, u)'
    BY <2>1, <2>3, <2>4
  <2>6. ASSUME ~cancelled \/ pump = "selecting"
        PROVE  \E w \in View : Reads(pending', u, w) /\ (~cancelled' => Stands(w)')
    BY <1>2, <2>1, <2>6, StandsStays
  <2> QED
    BY <2>1, <2>5, <2>6 DEF QueueInv
<1> QED
  BY <1>3, <1>4, <1>5, <1>6, <1>7

\* What waits for the caller makes sense to it, in every behaviour.
LEMMA QueueInvariant == Spec => []QueueInv
<1>1. Init => QueueInv
  <2> SUFFICES ASSUME Init PROVE QueueInv
    OBVIOUS
  <2>1. out = <<>> /\ pending = <<>> /\ ~started
    BY DEF Init, ConverterInit
  <2>2. phase = "idle" /\ blocks = <<>> /\ open = {} /\ reason = "none"
    BY DEF Init, ClientInit
  <2>3. <<>> \in Seq(BlockType)
    OBVIOUS
  <2>4. Told \in View
    BY <2>2, <2>3 DEF Told, View
  <2>5. Stands(Told)
    BY <2>1, <2>2 DEF Told, Stands
  <2> QED
    BY <2>1, <2>4, <2>5, ReadsNothing DEF QueueInv
<1>2. TypeInv /\ PumpInv /\ ChannelInv /\ QueueInv /\ [Next]_vars => QueueInv'
  BY QueueConverts, QueueWrites, QueueRests DEF Next, Pump, ProviderStep
<1> QED
  BY <1>1, <1>2, PumpInvariant, ChannelInvariant, PTL DEF Spec

\* No strict caller of Chat is ever sent an event it cannot make sense of, unless
\* the adapter goes on after an error: neither a full channel nor a ping, a
\* cancellation or a recovered panic tears the order of the events
\* (bamboo/bamboo.go:64-185).
THEOREM CallerIsNeverBroken == Spec => []ClientNeverBroken
<1>1. TypeInv /\ QueueInv => ClientNeverBroken
  <2> SUFFICES ASSUME TypeInv, QueueInv, ~chatter PROVE phase # "broken"
    BY DEF ClientNeverBroken
  <2>1. PICK u \in View : Reads(out, Told, u)
    BY DEF QueueInv
  <2>2. Told \in View
    BY <2>1, LenProperties, ReadsToldIsView DEF TypeInv
  <2> QED
    BY <2>2 DEF Told, View
<1> QED
  BY <1>1, PumpInvariant, QueueInvariant, PTL

\* A stream that was started and not cancelled is whole when its channel is closed
\* and read to the end, whatever the capacities of the channels and however slow
\* the caller: no event is dropped, and neither an error, a missing Done nor a
\* missing Stop keeps the end from the caller (bamboo/bamboo.go:104-185).
THEOREM StreamIsWhole == Spec => []StartedIsWhole
<1>1. PumpInv /\ ChannelInv /\ QueueInv => StartedIsWhole
  <2> SUFFICES ASSUME PumpInv, ChannelInv, QueueInv, pump = "gone", out = <<>>, ~cancelled, ~chatter,
                      started
               PROVE  phase = "ended"
    BY DEF StartedIsWhole, OutClosed
  <2>1. ~crashed
    BY DEF ChannelInv, ChatterInv
  <2>2. pending = <<>> /\ stopHandled
    BY <2>1 DEF PumpInv
  <2>3. PICK u \in View, w \in View : Reads(out, Told, u) /\ Reads(pending, u, w) /\ Stands(w)
    BY DEF QueueInv
  <2>4. w = u
    BY <2>2, <2>3, ReadsNothing
  <2>5. Told \in View /\ \E f \in [0..0 -> View] : f[0] = Told /\ f[0] = u
    <3>1. Len(out) = 0
      BY EmptySeq
    <3>2. PICK f \in [0..0 -> View] : f[0] = Told /\ f[0] = u
      BY <2>3, <3>1 DEF Reads
    <3> QED
      BY <3>2
  <2>6. w.phase = "ended" /\ u.phase = phase
    BY <2>2, <2>3, <2>5 DEF Stands, Told
  <2> QED
    BY <2>4, <2>6
<1> QED
  BY <1>1, PumpInvariant, ChannelInvariant, QueueInvariant, PTL
===============================================================================
