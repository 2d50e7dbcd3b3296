------------------------ MODULE ResponsesServerProofs ------------------------
(***************************************************************************)
(* What is proved of ResponsesServer, for any number of streams and frames, *)
(* queues of any capacity and both kinds of upstream.  Three parts: the     *)
(* types with the bounds of the queues, and the order of the answers of a   *)
(* stream; the session store, where a response the client saw completed is  *)
(* found when the same stream continues it; the conversations, what a model *)
(* is shown when a turn continues another one and what is stored of a turn. *)
(***************************************************************************)
EXTENDS ResponsesServer, SequenceTheorems, TLAPS

FrameType == [stream : Streams, kind : Kinds, prev : ResponseIDs, after : {0} \cup Frames]

FramesOK ==
    /\ upstream \in Upstreams
    /\ sent \in Seq(FrameType)
    /\ Len(sent) <= MaxFrames /\ inbound \in 0..Len(sent)
    /\ peer \in {"open", "gone"}
    /\ reader \in {"reading", "dispatching", "exiting", "returned"}
    /\ reader = "dispatching" => inbound < Len(sent)

QueuesOK ==
    /\ queue \in [Streams -> Seq(Frames)]
    /\ \A s \in Streams : Len(queue[s]) <= QueueCap

Busy(s) == worker[s] \notin {"none", "idle", "exited"}

WorkersOK ==
    /\ worker \in [Streams -> {"none", "idle", "parsing", "warming", "calling", "turn",
                               "saving", "exited"}]
    /\ job \in [Streams -> {0} \cup Frames]
    /\ stage \in [Streams -> {"none", "started", "completed", "failed"}]
    /\ \A s \in Streams : Busy(s) => job[s] # 0

HistoriesOK ==
    /\ history \in [Streams -> Seq(Messages)]
    /\ heard \in [Frames -> Seq(Messages)]
    /\ reply \in [Frames -> SUBSET BlockKinds]
    /\ DOMAIN store \subseteq ResponseIDs
    /\ \A id \in DOMAIN store : store[id] \in Seq(Messages)

AnswersOK ==
    /\ answers \in [Streams -> Seq(AnswerType)]
    /\ mute \in SUBSET Frames

ContextsOK == ctxDone \in BOOLEAN /\ connDone \in BOOLEAN

\* A frame that is queued or worked at is one the reader took.
TakenOK ==
    \A s \in Streams :
        /\ job[s] <= inbound
        /\ \A i \in 1..Len(queue[s]) : queue[s][i] <= inbound

TypeInv ==
    FramesOK /\ QueuesOK /\ WorkersOK /\ TakenOK /\ HistoriesOK /\ AnswersOK /\ ContextsOK

-----------------------------------------------------------------------------
(* Types. *)

LEMMA InitType == ASSUME Init PROVE TypeInv
<1>1. FramesOK
  BY ServerAssumption DEF Init, FramesOK
<1>2. QueuesOK
  BY ServerAssumption DEF Init, QueuesOK
<1>3. WorkersOK
  BY DEF Init, WorkersOK, Busy
<1>4. HistoriesOK
  <2>1. DOMAIN store = {}
    BY DEF Init
  <2>2. history \in [Streams -> Seq(Messages)] /\ heard \in [Frames -> Seq(Messages)]
    BY DEF Init
  <2>3. reply \in [Frames -> SUBSET BlockKinds]
    BY DEF Init
  <2> QED
    BY <2>1, <2>2, <2>3 DEF HistoriesOK
<1>5. AnswersOK
  <2>1. answers \in [Streams -> Seq(AnswerType)]
    BY DEF Init
  <2> QED
    BY <2>1 DEF Init, AnswersOK
<1>6. ContextsOK
  BY DEF Init, ContextsOK
<1>7. TakenOK
  <2>1. ASSUME NEW s \in Streams
        PROVE  job[s] <= inbound /\ \A i \in 1..Len(queue[s]) : queue[s][i] <= inbound
    <3>1. job[s] = 0 /\ inbound = 0
      BY DEF Init
    <3>2. queue[s] = <<>>
      BY DEF Init
    <3>3. \A i \in 1..Len(queue[s]) : FALSE
      BY <3>2
    <3> QED
      BY <3>1, <3>3
  <2> QED
    BY <2>1 DEF TakenOK
<1> QED
  BY <1>1, <1>2, <1>3, <1>4, <1>5, <1>6, <1>7 DEF TypeInv

\* The frame a worker is busy with, and the one the reader is at.
LEMMA CurrentJob ==
    ASSUME WorkersOK, FramesOK, NEW s \in Streams, Busy(s)
    PROVE  job[s] \in Frames
BY DEF WorkersOK

LEMMA JobOfAFrame ==
    ASSUME WorkersOK, FramesOK, TakenOK, NEW s \in Streams, Busy(s)
    PROVE  job[s] \in 1..Len(sent) /\ Job(s) \in FrameType
<1>1. job[s] \in 1..Len(sent)
  BY CurrentJob DEF FramesOK, TakenOK, Frames
<1> QED
  BY <1>1 DEF Job, FramesOK

LEMMA NextFrame ==
    ASSUME FramesOK, inbound < Len(sent)
    PROVE  inbound + 1 \in Frames /\ inbound + 1 \in DOMAIN sent /\ Frame \in FrameType
BY ServerAssumption DEF FramesOK, Frames, Frame

LEMMA FramesType == ASSUME TypeInv, [Next]_vars PROVE FramesOK'
<1> USE DEF TypeInv
<1>1. ASSUME NEW s \in Streams, NEW kind \in Kinds, NEW parent \in Parents, SendFrame(s, kind, parent)
      PROVE  FramesOK'
  <2>1. parent.prev \in ResponseIDs /\ parent.after \in {0} \cup Frames
    <3>1. NoResponse \in ResponseIDs /\ Unknown \in ResponseIDs
      BY DEF NoResponse, Unknown, ResponseIDs
    <3>2. ASSUME NEW c \in Completed
          PROVE  answers[c[1]][c[2]].id \in ResponseIDs /\ answers[c[1]][c[2]].frame \in Frames
      <4>1. c[1] \in Streams /\ c[2] \in DOMAIN answers[c[1]]
        BY DEF Completed
      <4>2. answers[c[1]][c[2]] \in AnswerType
        BY <4>1 DEF AnswersOK
      <4> QED
        BY <4>2 DEF AnswerType
    <3> QED
      BY <3>1, <3>2 DEF Parents
  <2> DEFINE frame == [stream |-> s, kind |-> kind, prev |-> parent.prev, after |-> parent.after]
  <2>2. frame \in FrameType
    BY <2>1 DEF FrameType
  <2>3. sent' = Append(sent, frame) /\ Len(sent) < MaxFrames
    BY <1>1 DEF SendFrame
  <2> HIDE DEF frame
  <2>4. sent' \in Seq(FrameType) /\ Len(sent') = Len(sent) + 1 /\ Len(sent') <= MaxFrames
    BY <2>2, <2>3, ServerAssumption DEF FramesOK
  <2> QED
    BY <1>1, <2>4 DEF SendFrame, FramesOK, readerVars
<1>2. CASE Reader
  BY <1>2, NextFrame DEF Reader, ReadUnsupported, ReadFrame, Dispatch, DispatchAborted, ReadFails,
     Return, FramesOK, clientVars
<1>3. CASE Disconnect
  BY <1>3 DEF Disconnect, FramesOK, readerVars
<1>4. CASE UNCHANGED <<upstream, clientVars, readerVars>>
  BY <1>4 DEF FramesOK, clientVars, readerVars
<1>5. CASE Cancel
  BY <1>4, <1>5 DEF Cancel
<1>6. ASSUME NEW s \in Streams, Work(s) \/ Turn(s) PROVE FramesOK'
  BY <1>4, <1>6 DEF Work, Turn, Take, RefuseMalformed, RefuseUnknown, Refuse, Prepare, Warmup, AnswerWarmup,
     SaveTurn, WorkerExits, CallFails, CallStarts, TurnStarted, TurnCompleted, TurnFailed, Forward,
     WriteFails, TurnCloses
<1>7. CASE UNCHANGED vars
  BY <1>4, <1>7 DEF vars
<1> QED
  BY <1>1, <1>2, <1>3, <1>5, <1>6, <1>7 DEF Next

\* A queue grows by the frame that is dispatched and gets shorter at its head.
LEMMA QueuesType == ASSUME TypeInv, [Next]_vars PROVE QueuesOK'
<1> USE DEF TypeInv
<1>1. CASE Dispatch
  <2>1. Frame.stream \in Streams /\ inbound + 1 \in Frames
    BY <1>1, NextFrame DEF Dispatch, FramesOK, FrameType
  <2>2. queue' = [queue EXCEPT ![Frame.stream] = Append(@, inbound + 1)]
    BY <1>1 DEF Dispatch
  <2>3. Len(queue[Frame.stream]) < QueueCap
    BY <1>1 DEF Dispatch
  <2> QED
    BY <2>1, <2>2, <2>3, ServerAssumption DEF QueuesOK
<1>2. ASSUME NEW s \in Streams, Take(s) PROVE QueuesOK'
  BY <1>2, ServerAssumption DEF Take, QueuesOK
<1>3. CASE UNCHANGED queue
  BY <1>3 DEF QueuesOK
<1>4. [Next]_vars => UNCHANGED queue \/ Dispatch \/ \E s \in Streams : Take(s)
  BY DEF Next, vars, SendFrame, Disconnect, Cancel, Reader, ReadUnsupported, ReadFrame, DispatchAborted,
     ReadFails, Return, Work, Turn, RefuseMalformed, RefuseUnknown, Refuse, Prepare, Warmup, AnswerWarmup,
     SaveTurn, WorkerExits, CallFails, CallStarts, TurnStarted, TurnCompleted, TurnFailed, Forward,
     WriteFails, TurnCloses
<1> QED
  BY <1>1, <1>2, <1>3, <1>4

\* What a step does to a worker.
LEMMA WorkersType == ASSUME TypeInv, [Next]_vars PROVE WorkersOK'
<1> USE DEF TypeInv, WorkersOK, Busy
<1>1. CASE ReadFrame
  BY <1>1, NextFrame DEF ReadFrame, FrameType
<1>2. ASSUME NEW s \in Streams, Take(s) PROVE WorkersOK'
  <2>1. Head(queue[s]) \in Frames
    BY <1>2 DEF Take, QueuesOK
  <2>2. Head(queue[s]) # 0
    BY <2>1 DEF Frames
  <2> QED
    BY <1>2, <2>1, <2>2 DEF Take, Becomes
<1>3. ASSUME NEW s \in Streams, Finishes(s) PROVE WorkersOK'
  BY <1>3 DEF Finishes, Becomes
<1>4. ASSUME NEW s \in Streams, Prepare(s) \/ Warmup(s) \/ CallStarts(s) \/ TurnCloses(s) PROVE WorkersOK'
  BY <1>4 DEF Prepare, Warmup, Proceeds, CallStarts, TurnCloses, Becomes
<1>5. ASSUME NEW s \in Streams, WorkerExits(s) PROVE WorkersOK'
  BY <1>5 DEF WorkerExits, Becomes
<1>6. ASSUME NEW s \in Streams, TurnStarted(s) \/ TurnCompleted(s) \/ TurnFailed(s) PROVE WorkersOK'
  BY <1>6 DEF TurnStarted, TurnCompleted, TurnFailed, Forward
<1>7. CASE UNCHANGED <<worker, job, stage>>
  BY <1>7
<1>8. ASSUME NEW s \in Streams, Work(s) \/ Turn(s) PROVE WorkersOK'
  BY <1>2, <1>3, <1>4, <1>5, <1>6, <1>8 DEF Work, Turn, RefuseMalformed, RefuseUnknown, Refuse,
     AnswerWarmup, SaveTurn, CallFails, WriteFails
<1>9. Next => \/ UNCHANGED <<worker, job, stage>> \/ ReadFrame
              \/ \E s \in Streams : Work(s) \/ Turn(s)
  BY DEF Next, SendFrame, Disconnect, Cancel, Reader, ReadUnsupported, Dispatch, DispatchAborted,
     ReadFails, Return, workerVars
<1> QED
  BY <1>1, <1>7, <1>8, <1>9 DEF vars, workerVars

\* What is queued was taken, and what is worked at was queued.
LEMMA TakenType == ASSUME TypeInv, [Next]_vars PROVE TakenOK'
<1> USE DEF TypeInv
<1>1. inbound' \in Nat /\ inbound <= inbound'
  <2>1. Next => inbound' \in {inbound, inbound + 1}
    BY DEF Next, SendFrame, Disconnect, Cancel, Reader, ReadUnsupported, ReadFrame, Dispatch, DispatchAborted,
       ReadFails, Return, Work, Turn, Take, RefuseMalformed, RefuseUnknown, Refuse, Prepare, Warmup,
       AnswerWarmup, SaveTurn, WorkerExits, CallFails, CallStarts, TurnStarted, TurnCompleted, TurnFailed,
       Forward, WriteFails, TurnCloses, readerVars
  <2> QED
    BY <2>1 DEF vars, readerVars, FramesOK
<1>2. ASSUME NEW s \in Streams
      PROVE  /\ job[s] \in Nat
             /\ Len(queue[s]) \in Nat
             /\ \A i \in 1..Len(queue[s]) : queue[s][i] \in Nat
  <2>1. job[s] \in {0} \cup Frames /\ queue[s] \in Seq(Frames)
    BY DEF QueuesOK, WorkersOK
  <2>2. \A i \in 1..Len(queue[s]) : queue[s][i] \in Frames
    BY <2>1
  <2> QED
    BY <2>1, <2>2, ServerAssumption DEF Frames
<1>7. CASE UNCHANGED <<job, queue>>
  <2> SUFFICES ASSUME NEW s \in Streams
               PROVE  /\ job[s] <= inbound'
                      /\ \A i \in 1..Len(queue[s]) : queue[s][i] <= inbound'
    BY <1>7 DEF TakenOK
  <2> QED
    BY <1>1, <1>2 DEF TakenOK, FramesOK
<1>3. CASE Dispatch
  <2>1. Frame.stream \in Streams /\ inbound + 1 \in Frames
    BY <1>3, NextFrame DEF Dispatch, FramesOK, FrameType
  <2>2. queue' = [queue EXCEPT ![Frame.stream] = Append(@, inbound + 1)] /\ inbound' = inbound + 1
    BY <1>3 DEF Dispatch
  <2>3. UNCHANGED job
    BY <1>3 DEF Dispatch, workerVars
  <2>4. ASSUME NEW s \in Streams
        PROVE  /\ job'[s] <= inbound'
               /\ \A i \in 1..Len(queue'[s]) : queue'[s][i] <= inbound'
    <3>1. inbound \in Nat /\ job[s] <= inbound /\ \A i \in 1..Len(queue[s]) : queue[s][i] <= inbound
      BY DEF TakenOK, FramesOK
    <3>2. queue[s] \in Seq(Frames) /\ queue \in [Streams -> Seq(Frames)]
      BY DEF QueuesOK
    <3>3. CASE s = Frame.stream
      <4>1. queue'[s] = Append(queue[s], inbound + 1)
        BY <2>2, <3>2, <3>3
      <4> QED
        BY <1>2, <2>2, <2>3, <3>1, <3>2, <4>1
    <3>4. CASE s # Frame.stream
      BY <1>2, <2>1, <2>2, <2>3, <3>1, <3>2, <3>4
    <3> QED
      BY <3>3, <3>4
  <2> QED
    BY <2>4 DEF TakenOK
<1>4. ASSUME NEW s \in Streams, Take(s) PROVE TakenOK'
  BY <1>4 DEF Take, TakenOK, QueuesOK, WorkersOK, FramesOK, Frames, readerVars
<1>5. ASSUME NEW s \in Streams, Finishes(s), UNCHANGED <<queue, inbound>> PROVE TakenOK'
  BY <1>5 DEF Finishes, TakenOK, FramesOK, WorkersOK
<1>6. Next => \/ UNCHANGED <<job, queue>> \/ Dispatch
              \/ \E s \in Streams : Take(s) \/ (Finishes(s) /\ UNCHANGED <<queue, inbound>>)
  BY DEF Next, SendFrame, Disconnect, Cancel, Reader, ReadUnsupported, ReadFrame, DispatchAborted,
     ReadFails, Return, Work, Turn, RefuseMalformed, RefuseUnknown, Refuse, Prepare, Warmup,
     AnswerWarmup, SaveTurn, WorkerExits, CallFails, CallStarts, TurnStarted, TurnCompleted, TurnFailed,
     Forward, WriteFails, TurnCloses, readerVars, workerVars
<1> QED
  BY <1>3, <1>4, <1>5, <1>6, <1>7 DEF vars, workerVars

\* The messages a worker puts together are those of frames the client sent.
LEMMA MessageTypes ==
    ASSUME NEW n \in Frames, NEW blocks \in SUBSET BlockKinds
    PROVE  /\ Input(n) \in Messages
           /\ Said(Reply(n, blocks)) \in Seq(Messages)
           /\ Said(CutReply(n, blocks)) \in Seq(Messages)
<1>1. Input(n) \in Messages /\ Reply(n, blocks) \in Messages /\ CutReply(n, blocks) \in Messages
  BY DEF Input, Reply, CutReply, Messages
<1> QED
  BY <1>1 DEF Said

LEMMA ToldType ==
    ASSUME HistoriesOK, NEW n \in Frames
    PROVE  Told(n) \in Seq(Messages) /\ Said(CutReply(n, Observed(n))) \in Seq(Messages)
<1>1. Observed(n) \in SUBSET BlockKinds
  BY DEF Observed, HistoriesOK
<1> QED
  BY <1>1, MessageTypes DEF Told

LEMMA ReplyType ==
    ASSUME TypeInv, Next
    PROVE  /\ reply' \in [Frames -> SUBSET BlockKinds]
           /\ \A n \in Frames : (\A s \in Streams : job[s] # n) => reply'[n] = reply[n]
           /\ \A s \in Streams : SaveTurn(s) => reply' = reply
<1> USE DEF TypeInv, HistoriesOK
<1>1. ASSUME NEW s \in Streams, TurnStarted(s) \/ TurnCompleted(s) \/ TurnFailed(s)
      PROVE  \E opened \in SUBSET BlockKinds : reply' = [reply EXCEPT ![job[s]] = @ \cup opened]
  BY <1>1, ServerAssumption DEF TurnStarted, TurnCompleted, TurnFailed, Forward, BlockKinds
<1>2. ASSUME NEW s \in Streams, NEW opened \in SUBSET BlockKinds,
             reply' = [reply EXCEPT ![job[s]] = @ \cup opened]
      PROVE  /\ reply' \in [Frames -> SUBSET BlockKinds]
             /\ \A n \in Frames : job[s] # n => reply'[n] = reply[n]
  BY <1>2
<1>3. \/ UNCHANGED reply
      \/ \E s \in Streams : TurnStarted(s) \/ TurnCompleted(s) \/ TurnFailed(s)
  BY DEF Next, SendFrame, Disconnect, Cancel, Reader, ReadUnsupported, ReadFrame, Dispatch, DispatchAborted,
     ReadFails, Return, Work, Turn, Take, RefuseMalformed, RefuseUnknown, Refuse, Prepare, Warmup,
     AnswerWarmup, SaveTurn, WorkerExits, CallFails, CallStarts, WriteFails, TurnCloses
<1>4. \A s \in Streams : SaveTurn(s) => reply' = reply
  BY DEF SaveTurn
<1> QED
  BY <1>1, <1>2, <1>3, <1>4

LEMMA HistoriesType == ASSUME TypeInv, [Next]_vars PROVE HistoriesOK'
<1> USE DEF TypeInv
<1>0. reply' \in [Frames -> SUBSET BlockKinds]
  BY ReplyType DEF HistoriesOK, vars
<1>1. ASSUME NEW s \in Streams, Busy(s) PROVE Combined(s) \in Seq(Messages)
  <2>1. <<Input(job[s])>> \in Seq(Messages)
    <3>1. {} \in SUBSET BlockKinds
      OBVIOUS
    <3>2. job[s] \in Frames
      BY <1>1, CurrentJob
    <3> QED
      BY <3>1, <3>2, MessageTypes
  <2>2. Job(s).prev \in DOMAIN store => store[Job(s).prev] \in Seq(Messages)
    BY DEF HistoriesOK
  <2>3. CASE Job(s).prev \in DOMAIN store
    BY <2>1, <2>2, <2>3 DEF Combined
  <2>4. CASE Job(s).prev \notin DOMAIN store
    BY <2>1, <2>4 DEF Combined
  <2> QED
    BY <2>3, <2>4
<1>2. ASSUME NEW id \in ResponseIDs, NEW messages \in Seq(Messages), Save(id, messages)
      PROVE  /\ DOMAIN store' \subseteq ResponseIDs
             /\ \A k \in DOMAIN store' : store'[k] \in Seq(Messages)
  BY <1>2 DEF HistoriesOK, Save
<1>3. ASSUME NEW s \in Streams, Prepare(s) PROVE HistoriesOK'
  BY <1>0, <1>1, <1>3 DEF Prepare, Proceeds, Busy, HistoriesOK
<1>4. ASSUME NEW s \in Streams, Warmup(s) PROVE HistoriesOK'
  <2>1. Combined(s) \in Seq(Messages) /\ job[s] \in Frames
    <3>1. Busy(s)
      BY <1>4 DEF Warmup, Proceeds, Busy
    <3> QED
      BY <1>1, <3>1, CurrentJob
  <2>2. WarmupID(Combined(s)) \in ResponseIDs
    <3>1. Len(Combined(s)) + 1 \in Nat
      BY <2>1
    <3> QED
      BY <3>1 DEF WarmupID, ResponseIDs
  <2>3. history' \in [Streams -> Seq(Messages)] /\ heard' \in [Frames -> Seq(Messages)]
    BY <1>4, <2>1 DEF Warmup, HistoriesOK
  <2>4. Save(WarmupID(Combined(s)), Combined(s))
    BY <1>4 DEF Warmup
  <2> QED
    BY <1>0, <1>2, <2>1, <2>2, <2>3, <2>4 DEF HistoriesOK
<1>5. ASSUME NEW s \in Streams, CallStarts(s) PROVE HistoriesOK'
  <2>1. job[s] \in Frames /\ Job(s) \in FrameType
    <3>1. Busy(s)
      BY <1>5 DEF CallStarts, Busy
    <3> QED
      BY <3>1, CurrentJob, JobOfAFrame
  <2>2. Shown(s) \in Seq(Messages)
    <3>1. history[s] \in Seq(Messages)
      BY DEF HistoriesOK
    <3>2. ASSUME Job(s).after # 0
          PROVE  /\ heard[Job(s).after] \in Seq(Messages)
                 /\ Said(Reply(Job(s).after, reply[Job(s).after])) \in Seq(Messages)
      <4>1. Job(s).after \in Frames /\ reply[Job(s).after] \in SUBSET BlockKinds
        BY <2>1, <3>2 DEF HistoriesOK, FrameType
      <4> QED
        BY <4>1, MessageTypes DEF HistoriesOK
    <3>3. ASSUME Job(s).after # 0
          PROVE  heard[Job(s).after] \o Said(Reply(Job(s).after, reply[Job(s).after])) \o history[s] \in Seq(Messages)
      BY <3>1, <3>2, <3>3
    <3> QED
      BY <3>1, <3>3 DEF Shown
  <2> QED
    BY <1>0, <1>5, <2>1, <2>2 DEF CallStarts, HistoriesOK
<1>6. ASSUME NEW s \in Streams, SaveTurn(s) PROVE HistoriesOK'
  <2>1. job[s] \in Frames
    BY <1>6, CurrentJob DEF SaveTurn, Busy
  <2>2. TurnID(job[s]) \in ResponseIDs
    BY <2>1, ServerAssumption DEF TurnID, ResponseIDs, Frames
  <2>3. history[s] \o Collected(s) \in Seq(Messages)
    <3>1. Collected(s) \in Seq(Messages)
      BY <2>1, ToldType DEF Collected
    <3> QED
      BY <3>1 DEF HistoriesOK
  <2>4. history' \in [Streams -> Seq(Messages)] /\ heard' \in [Frames -> Seq(Messages)]
    BY <1>6 DEF SaveTurn, Finishes, HistoriesOK
  <2>5. Save(TurnID(job[s]), history[s] \o Collected(s)) \/ UNCHANGED store
    BY <1>6 DEF SaveTurn
  <2> QED
    BY <1>0, <1>2, <2>2, <2>3, <2>4, <2>5 DEF HistoriesOK
<1>7. ASSUME NEW s \in Streams, Finishes(s), UNCHANGED <<store, heard>> PROVE HistoriesOK'
  BY <1>0, <1>7 DEF Finishes, HistoriesOK
<1>8. CASE UNCHANGED <<history, store, heard>>
  BY <1>0, <1>8 DEF HistoriesOK
<1>9. ASSUME NEW s \in Streams, Work(s) \/ Turn(s) PROVE HistoriesOK'
  BY <1>3, <1>4, <1>5, <1>6, <1>7, <1>8, <1>9 DEF Work, Turn, Take, RefuseMalformed, RefuseUnknown,
     Refuse, AnswerWarmup, WorkerExits, CallFails, TurnStarted, TurnCompleted, TurnFailed, Forward,
     WriteFails, TurnCloses
<1>10. Next => UNCHANGED <<history, store, heard>> \/ \E s \in Streams : Work(s) \/ Turn(s)
  BY DEF Next, SendFrame, Disconnect, Cancel, Reader, ReadUnsupported, ReadFrame, Dispatch,
     DispatchAborted, ReadFails, Return, workerVars
<1> QED
  BY <1>8, <1>9, <1>10 DEF vars, workerVars

\* What a stream was sent stays, what is written comes after it.
LEMMA WrittenAnswers ==
    ASSUME AnswersOK, NEW s \in Streams, NEW new \in Seq(AnswerType), Written(s, new)
    PROVE  /\ answers' \in [Streams -> Seq(AnswerType)]
           /\ \A r \in Streams : r # s => answers'[r] = answers[r]
           /\ answers'[s] = answers[s] \/ answers'[s] = answers[s] \o new
<1>1. answers[s] \o new \in Seq(AnswerType)
  BY DEF AnswersOK
<1>2. CASE UNCHANGED answers
  BY <1>2 DEF AnswersOK
<1>3. CASE answers' = [answers EXCEPT ![s] = @ \o new]
  BY <1>1, <1>3 DEF AnswersOK
<1> QED
  BY <1>2, <1>3 DEF Written

LEMMA AnswerTypes ==
    ASSUME NEW n \in Frames, NEW what \in {"started"} \cup Terminal
    PROVE  /\ Answer(n, what, NoResponse) \in AnswerType
           /\ Answer(n, what, TurnID(n)) \in AnswerType
           /\ \A messages \in Seq(Messages) : Answer(n, what, WarmupID(messages)) \in AnswerType
<1>1. n \in Nat
  BY ServerAssumption DEF Frames
<1>2. NoResponse \in ResponseIDs /\ TurnID(n) \in ResponseIDs
  BY <1>1 DEF NoResponse, TurnID, ResponseIDs
<1>3. \A messages \in Seq(Messages) : WarmupID(messages) \in ResponseIDs
  BY DEF WarmupID, ResponseIDs
<1> QED
  BY <1>2, <1>3 DEF Answer, AnswerType

\* The writes of the connection: what each writes, and to which stream.
Refuses(s) ==
    worker[s] \in {"parsing", "calling"} /\ \E what \in {"error", "not_found"} : Refuse(s, what)
Forwards(s) == TurnStarted(s) \/ TurnCompleted(s) \/ TurnFailed(s)

LEMMA AnsweringSteps ==
    ASSUME Next
    PROVE  \/ UNCHANGED answers
           \/ ReadUnsupported
           \/ \E s \in Streams : Refuses(s) \/ AnswerWarmup(s) \/ Forwards(s)
<1>1. ASSUME NEW s \in Streams, RefuseMalformed(s) \/ RefuseUnknown(s) \/ CallFails(s)
      PROVE  Refuses(s)
  BY <1>1 DEF RefuseMalformed, RefuseUnknown, CallFails, Refuses
<1>2. ASSUME NEW s \in Streams, Work(s) \/ Turn(s)
      PROVE  UNCHANGED answers \/ Refuses(s) \/ AnswerWarmup(s) \/ Forwards(s)
  BY <1>1, <1>2 DEF Work, Turn, Take, Prepare, Warmup, SaveTurn, WorkerExits, CallStarts, WriteFails,
     TurnCloses, Forwards
<1> QED
  BY <1>2 DEF Next, SendFrame, Disconnect, Cancel, Reader, ReadFrame, Dispatch, DispatchAborted, ReadFails,
     Return

\* What a step writes is one or two answers to one frame: the one the reader is
\* at, or the one a worker is busy with.
WritesFor(s, n, new) ==
    /\ n = job[s] \/ (n = inbound + 1 /\ inbound < Len(sent) /\ Frame.stream = s)
    /\ Written(s, new)
    /\ new \in Seq(AnswerType)
    /\ \A i \in 1..Len(new) : new[i].frame = n

LEMMA WhatIsWritten ==
    ASSUME TypeInv, Next
    PROVE  \/ UNCHANGED answers
           \/ \E s \in Streams, n \in Frames, new \in Seq(AnswerType) : WritesFor(s, n, new)
<1> USE DEF TypeInv
<1>1. CASE ReadUnsupported
  <2>1. Frame.stream \in Streams /\ inbound + 1 \in Frames
    BY <1>1, NextFrame DEF ReadUnsupported, FrameType
  <2> DEFINE new == <<Answer(inbound + 1, "error", NoResponse)>>
  <2>2. new \in Seq(AnswerType) /\ \A i \in 1..Len(new) : new[i].frame = inbound + 1
    <3>1. Answer(inbound + 1, "error", NoResponse) \in AnswerType
      BY <2>1, AnswerTypes DEF Terminal
    <3> QED
      BY <3>1 DEF Answer
  <2>3. WritesFor(Frame.stream, inbound + 1, new)
    BY <1>1, <2>2 DEF ReadUnsupported, WritesFor
  <2> QED
    BY <2>1, <2>2, <2>3
<1>2. ASSUME NEW s \in Streams, Refuses(s)
      PROVE  \E n \in Frames, new \in Seq(AnswerType) : WritesFor(s, n, new)
  <2>1. job[s] \in Frames
    BY <1>2, CurrentJob DEF Refuses, Busy
  <2>2. PICK what \in {"error", "not_found"} : Refuse(s, what)
    BY <1>2 DEF Refuses
  <2> DEFINE new == <<Answer(job[s], what, NoResponse)>>
  <2>3. new \in Seq(AnswerType) /\ \A i \in 1..Len(new) : new[i].frame = job[s]
    <3>1. Answer(job[s], what, NoResponse) \in AnswerType
      BY <2>1, <2>2, AnswerTypes DEF Terminal
    <3> QED
      BY <3>1 DEF Answer
  <2>4. WritesFor(s, job[s], new)
    BY <2>2, <2>3 DEF Refuse, WritesFor
  <2> QED
    BY <2>1, <2>3, <2>4
<1>3. ASSUME NEW s \in Streams, AnswerWarmup(s)
      PROVE  \E n \in Frames, new \in Seq(AnswerType) : WritesFor(s, n, new)
  <2>1. job[s] \in Frames /\ history[s] \in Seq(Messages)
    <3>1. Busy(s)
      BY <1>3 DEF AnswerWarmup, Busy
    <3> QED
      BY <3>1, CurrentJob DEF HistoriesOK
  <2> DEFINE new == <<Answer(job[s], "started", WarmupID(history[s])),
                      Answer(job[s], "completed", WarmupID(history[s]))>>
  <2>2. new \in Seq(AnswerType) /\ \A i \in 1..Len(new) : new[i].frame = job[s]
    <3>1. /\ Answer(job[s], "started", WarmupID(history[s])) \in AnswerType
          /\ Answer(job[s], "completed", WarmupID(history[s])) \in AnswerType
      BY <2>1, AnswerTypes DEF Terminal
    <3> QED
      BY <3>1 DEF Answer
  <2>3. WritesFor(s, job[s], new)
    BY <1>3, <2>2 DEF AnswerWarmup, WritesFor
  <2> QED
    BY <2>1, <2>2, <2>3
<1>4. ASSUME NEW s \in Streams, Forwards(s)
      PROVE  \E n \in Frames, new \in Seq(AnswerType) : WritesFor(s, n, new)
  <2>1. job[s] \in Frames
    <3>1. Busy(s)
      BY <1>4 DEF Forwards, TurnStarted, TurnCompleted, TurnFailed, Forward, Busy
    <3> QED
      BY <3>1, CurrentJob
  <2>2. PICK what \in {"started", "completed", "failed"} : Written(s, <<Answer(job[s], what, TurnID(job[s]))>>)
    BY <1>4 DEF Forwards, TurnStarted, TurnCompleted, TurnFailed, Forward
  <2> DEFINE new == <<Answer(job[s], what, TurnID(job[s]))>>
  <2>3. new \in Seq(AnswerType) /\ \A i \in 1..Len(new) : new[i].frame = job[s]
    <3>1. Answer(job[s], what, TurnID(job[s])) \in AnswerType
      BY <2>1, <2>2, AnswerTypes DEF Terminal
    <3> QED
      BY <3>1 DEF Answer
  <2>4. WritesFor(s, job[s], new)
    BY <2>2, <2>3 DEF WritesFor
  <2> QED
    BY <2>1, <2>3, <2>4
<1> QED
  BY <1>1, <1>2, <1>3, <1>4, AnsweringSteps

LEMMA AnswersType == ASSUME TypeInv, [Next]_vars PROVE AnswersOK'
<1> USE DEF TypeInv
<1>1. mute' \in SUBSET Frames
  <2>1. ASSUME NEW s \in Streams, TurnCloses(s) PROVE mute' \in SUBSET Frames
    <3>1. Busy(s)
      BY <2>1 DEF TurnCloses, Busy
    <3> QED
      BY <2>1, <3>1, CurrentJob DEF TurnCloses, AnswersOK
  <2>2. Next => UNCHANGED mute \/ \E s \in Streams : TurnCloses(s)
    BY DEF Next, SendFrame, Disconnect, Cancel, Reader, ReadUnsupported, ReadFrame, Dispatch, DispatchAborted,
       ReadFails, Return, Work, Turn, Take, RefuseMalformed, RefuseUnknown, Refuse, Prepare, Warmup,
       AnswerWarmup, SaveTurn, WorkerExits, CallFails, CallStarts, TurnStarted, TurnCompleted, TurnFailed,
       Forward, WriteFails
  <2> QED
    BY <2>1, <2>2 DEF vars, AnswersOK
<1>2. CASE UNCHANGED answers
  BY <1>1, <1>2 DEF AnswersOK
<1>3. ASSUME NEW s \in Streams, NEW n \in Frames, NEW new \in Seq(AnswerType), WritesFor(s, n, new)
      PROVE  AnswersOK'
  BY <1>1, <1>3, WrittenAnswers DEF WritesFor, AnswersOK
<1> QED
  BY <1>2, <1>3, WhatIsWritten DEF vars

LEMMA ContextsType == ASSUME TypeInv, [Next]_vars PROVE ContextsOK'
BY DEF TypeInv, ContextsOK, vars, Next, SendFrame, Disconnect, Cancel, Reader, ReadUnsupported, ReadFrame,
   Dispatch, DispatchAborted, ReadFails, Return, Work, Turn, Take, RefuseMalformed, RefuseUnknown, Refuse,
   Prepare, Warmup, AnswerWarmup, SaveTurn, WorkerExits, CallFails, CallStarts, TurnStarted, TurnCompleted,
   TurnFailed, Forward, WriteFails, TurnCloses

LEMMA TypeStep == ASSUME TypeInv, [Next]_vars PROVE TypeInv'
BY FramesType, QueuesType, WorkersType, TakenType, HistoriesType, AnswersType, ContextsType DEF TypeInv

LEMMA TypeAlways == Spec => []TypeInv
<1>1. Init => TypeInv
  BY InitType
<1>2. TypeInv /\ [Next]_vars => TypeInv'
  BY TypeStep
<1> QED
  BY <1>1, <1>2, PTL DEF Spec

\* The values of the server's variables: a queue never holds more than it can,
\* and a worker that is busy has a frame (websocket.go:117-182, 210-319).
THEOREM TypeCorrect == Spec => []TypeOK
<1>1. TypeInv => TypeOK
  BY DEF TypeInv, FramesOK, QueuesOK, WorkersOK, HistoriesOK, AnswersOK, ContextsOK, TypeOK, FrameType, Busy
<1> QED
  BY <1>1, TypeAlways, PTL

-----------------------------------------------------------------------------
(* The order of the answers.  The frames of a stream are in one line: those   *)
(* answered, the one its worker is busy with, those in its queue, the one the *)
(* reader is at.  A frame the reader answers itself stands outside of it.     *)

Answerable(n) == sent[n].kind # "unsupported"

Follows(a, b) ==
    Answerable(a.frame) /\ Answerable(b.frame)
        => a.frame < b.frame \/ (a.frame = b.frame /\ Rank(a.what) < Rank(b.what))

QueueOrder(s) ==
    /\ \A i \in 1..Len(queue[s]) : Answerable(queue[s][i]) /\ job[s] < queue[s][i]
    /\ \A i, j \in 1..Len(queue[s]) : i < j => queue[s][i] < queue[s][j]

WorkerOrder(s) ==
    /\ job[s] # 0 => Busy(s) /\ Answerable(job[s])
    /\ stage[s] # "none" => worker[s] \in {"turn", "saving"}

\* Where an answer stands to the frame that is worked at: behind an earlier
\* frame, or the beginning of the reply that goes on.
Behind(a, s) ==
    \/ a.frame < job[s]
    \/ /\ a.frame = job[s]
       /\ stage[s] # "none"
       /\ stage[s] = "started" => Rank(a.what) = 1

AnswerOrder(s) ==
    \A p \in 1..Len(answers[s]) :
        /\ answers[s][p].frame <= inbound
        /\ Answerable(answers[s][p].frame) =>
              /\ \A i \in 1..Len(queue[s]) : answers[s][p].frame < queue[s][i]
              /\ job[s] # 0 => Behind(answers[s][p], s)

StreamInOrder(s) ==
    \A p, q \in 1..Len(answers[s]) : p < q => Follows(answers[s][p], answers[s][q])

StreamOrder(s) == QueueOrder(s) /\ WorkerOrder(s) /\ AnswerOrder(s) /\ StreamInOrder(s)

ReaderOrder == reader = "dispatching" => Answerable(inbound + 1)

OrderInv == ReaderOrder /\ \A s \in Streams : StreamOrder(s)

LEMMA OrderInit == ASSUME Init PROVE OrderInv
<1>1. ReaderOrder
  BY DEF Init, ReaderOrder
<1>2. ASSUME NEW s \in Streams PROVE StreamOrder(s)
  <2>1. job[s] = 0 /\ stage[s] = "none"
    BY DEF Init
  <2>2. queue[s] = <<>> /\ answers[s] = <<>>
    BY DEF Init
  <2>3. \A i \in 1..Len(queue[s]) : FALSE
    BY <2>2
  <2>4. \A i \in 1..Len(answers[s]) : FALSE
    BY <2>2
  <2> QED
    BY <2>1, <2>3, <2>4 DEF StreamOrder, QueueOrder, WorkerOrder, AnswerOrder, StreamInOrder
<1> QED
  BY <1>1, <1>2 DEF OrderInv

\* The frames that count are numbers the client's sequence reaches.
LEMMA Numbers ==
    ASSUME TypeInv, NEW s \in Streams
    PROVE  /\ Len(sent) \in Nat /\ inbound \in 0..Len(sent)
           /\ job[s] \in 0..inbound
           /\ Len(queue[s]) \in Nat
           /\ \A i \in 1..Len(queue[s]) : queue[s][i] \in 1..inbound
           /\ Len(answers[s]) \in Nat
           /\ \A p \in 1..Len(answers[s]) : answers[s][p] \in AnswerType /\ answers[s][p].frame \in Nat
<1>1. Len(sent) \in Nat /\ inbound \in 0..Len(sent)
  BY DEF TypeInv, FramesOK
<1>2. job[s] \in {0} \cup Frames /\ queue[s] \in Seq(Frames)
  BY DEF TypeInv, WorkersOK, QueuesOK
<1>3. job[s] \in 0..inbound
  BY <1>1, <1>2, ServerAssumption DEF TypeInv, TakenOK, Frames
<1>4. Len(queue[s]) \in Nat /\ \A i \in 1..Len(queue[s]) : queue[s][i] \in Frames
  BY <1>2
<1>5. \A i \in 1..Len(queue[s]) : queue[s][i] \in 1..inbound
  BY <1>1, <1>4, ServerAssumption DEF TypeInv, TakenOK, Frames
<1>6. Len(answers[s]) \in Nat /\ \A p \in 1..Len(answers[s]) : answers[s][p] \in AnswerType
  BY DEF TypeInv, AnswersOK
<1>7. \A p \in 1..Len(answers[s]) : answers[s][p].frame \in Nat
  BY <1>6, ServerAssumption DEF AnswerType, Frames
<1> QED
  BY <1>1, <1>3, <1>4, <1>5, <1>6, <1>7

\* What was sent stays sent, and what was taken stays taken.
LEMMA SentKept ==
    ASSUME TypeInv, Next
    PROVE  /\ \A n \in 1..Len(sent) : /\ n \in 1..Len(sent') /\ sent'[n] = sent[n]
                                     /\ Answerable(n)' = Answerable(n)
           /\ inbound' \in Nat /\ inbound <= inbound'
<1>1. CASE UNCHANGED sent
  <2>1. \A n \in 1..Len(sent) : /\ n \in 1..Len(sent') /\ sent'[n] = sent[n]
                                /\ Answerable(n)' = Answerable(n)
    BY <1>1 DEF Answerable
  <2>2. inbound' \in {inbound, inbound + 1}
    BY DEF Next, SendFrame, Disconnect, Cancel, Reader, ReadUnsupported, ReadFrame, Dispatch, DispatchAborted,
       ReadFails, Return, Work, Turn, Take, RefuseMalformed, RefuseUnknown, Refuse, Prepare, Warmup,
       AnswerWarmup, SaveTurn, WorkerExits, CallFails, CallStarts, TurnStarted, TurnCompleted, TurnFailed,
       Forward, WriteFails, TurnCloses, readerVars
  <2> QED
    BY <2>1, <2>2 DEF TypeInv, FramesOK
<1>2. ASSUME NEW s \in Streams, NEW kind \in Kinds, NEW parent \in Parents, SendFrame(s, kind, parent)
      PROVE  /\ \A n \in 1..Len(sent) : /\ n \in 1..Len(sent') /\ sent'[n] = sent[n]
                                       /\ Answerable(n)' = Answerable(n)
             /\ inbound' \in Nat /\ inbound <= inbound'
  <2> DEFINE frame == [stream |-> s, kind |-> kind, prev |-> parent.prev, after |-> parent.after]
  <2>1. sent' = Append(sent, frame)
    BY <1>2 DEF SendFrame
  <2> HIDE DEF frame
  <2>2. \A n \in 1..Len(sent) : n \in 1..Len(sent') /\ sent'[n] = sent[n]
    BY <2>1 DEF TypeInv, FramesOK
  <2> QED
    BY <1>2, <2>2 DEF SendFrame, readerVars, Answerable, TypeInv, FramesOK
<1>3. Next => UNCHANGED sent \/ \E s \in Streams, kind \in Kinds, parent \in Parents : SendFrame(s, kind, parent)
  BY DEF Next, Disconnect, Cancel, Reader, ReadUnsupported, ReadFrame, Dispatch, DispatchAborted,
     ReadFails, Return, Work, Turn, Take, RefuseMalformed, RefuseUnknown, Refuse, Prepare, Warmup,
     AnswerWarmup, SaveTurn, WorkerExits, CallFails, CallStarts, TurnStarted, TurnCompleted, TurnFailed,
     Forward, WriteFails, TurnCloses, clientVars
<1> QED
  BY <1>1, <1>2, <1>3

LEMMA SentStays ==
    ASSUME TypeInv, Next
    PROVE  /\ \A n \in 1..Len(sent) : Answerable(n)' = Answerable(n)
           /\ inbound' \in Nat /\ inbound <= inbound'
BY SentKept

\* A stream a step does not work on keeps its order.
LEMMA Elsewhere ==
    ASSUME TypeInv, OrderInv, Next, NEW s \in Streams,
           queue'[s] = queue[s], job'[s] = job[s], stage'[s] = stage[s], answers'[s] = answers[s],
           worker'[s] = worker[s] \/ (job[s] = 0 /\ stage[s] = "none")
    PROVE  StreamOrder(s)'
<1>1. StreamOrder(s)
  BY DEF OrderInv
<1>2. QueueOrder(s)'
  <2>1. \A i \in 1..Len(queue[s]) : Answerable(queue[s][i])' = Answerable(queue[s][i])
    <3>1. ASSUME NEW i \in 1..Len(queue[s]) PROVE queue[s][i] \in 1..Len(sent)
      BY Numbers
    <3>2. \A n \in 1..Len(sent) : Answerable(n)' = Answerable(n)
      BY SentStays
    <3> QED
      BY <3>1, <3>2 DEF Answerable
  <2>2. QueueOrder(s)
    BY <1>1 DEF StreamOrder
  <2> QED
    BY <2>1, <2>2 DEF QueueOrder
<1>3. WorkerOrder(s)'
  BY <1>1, Numbers, SentStays DEF StreamOrder, WorkerOrder, Busy
<1>4. AnswerOrder(s)'
  <2>1. ASSUME NEW p \in 1..Len(answers[s])
        PROVE  /\ answers[s][p].frame <= inbound'
               /\ Answerable(answers[s][p].frame)' = Answerable(answers[s][p].frame)
    BY <1>1, Numbers, SentStays DEF StreamOrder, AnswerOrder, AnswerType, Frames
  <2> QED
    BY <1>1, <2>1 DEF StreamOrder, AnswerOrder, Behind
<1>5. StreamInOrder(s)'
  <2>1. ASSUME NEW p \in 1..Len(answers[s])
        PROVE  Answerable(answers[s][p].frame)' = Answerable(answers[s][p].frame)
    BY <1>1, Numbers, SentStays DEF StreamOrder, AnswerOrder, AnswerType, Frames
  <2>2. ASSUME NEW p \in 1..Len(answers[s]), NEW q \in 1..Len(answers[s]), p < q
        PROVE  Follows(answers[s][p], answers[s][q])'
    <3>1. Follows(answers[s][p], answers[s][q])
      BY <1>1, <2>2 DEF StreamOrder, StreamInOrder
    <3> QED
      BY <2>1, <3>1 DEF Follows
  <2> QED
    BY <2>2 DEF StreamInOrder, Follows
<1> QED
  BY <1>2, <1>3, <1>4, <1>5 DEF StreamOrder

\* Where what a stream was sent stands after a write.
LEMMA WrittenPositions ==
    ASSUME AnswersOK, NEW s \in Streams, NEW new \in Seq(AnswerType), Written(s, new)
    PROVE  \A p \in 1..Len(answers'[s]) :
               \/ p \in 1..Len(answers[s]) /\ answers'[s][p] = answers[s][p]
               \/ /\ p > Len(answers[s]) /\ p - Len(answers[s]) \in 1..Len(new)
                  /\ answers'[s][p] = new[p - Len(answers[s])]
<1>1. answers[s] \in Seq(AnswerType)
  BY DEF AnswersOK
<1>2. CASE answers'[s] = answers[s]
  BY <1>1, <1>2
<1>3. CASE answers'[s] = answers[s] \o new
  BY <1>1, <1>3
<1> QED
  BY <1>2, <1>3, WrittenAnswers

\* Answers to a frame that come after everything the stream was sent keep the
\* order, when they are in order themselves.
LEMMA WritesInOrder ==
    ASSUME TypeInv, NEW s \in Streams, NEW n \in Frames, NEW new \in Seq(AnswerType),
           WritesFor(s, n, new), UNCHANGED sent, StreamInOrder(s),
           \A i, j \in 1..Len(new) : i < j => Rank(new[i].what) < Rank(new[j].what),
           Answerable(n) =>
               \A p \in 1..Len(answers[s]) :
                   Answerable(answers[s][p].frame) =>
                       \/ answers[s][p].frame < n
                       \/ /\ answers[s][p].frame = n
                          /\ \A i \in 1..Len(new) : Rank(answers[s][p].what) < Rank(new[i].what)
    PROVE  StreamInOrder(s)'
<1>1. /\ answers[s] \in Seq(AnswerType) /\ Len(answers[s]) \in Nat
      /\ answers'[s] \in Seq(AnswerType) /\ Len(answers'[s]) \in Nat
  BY WrittenAnswers DEF WritesFor, TypeInv, AnswersOK
<1>2. \A p \in 1..Len(answers'[s]) :
          \/ p \in 1..Len(answers[s]) /\ answers'[s][p] = answers[s][p]
          \/ /\ p > Len(answers[s]) /\ p - Len(answers[s]) \in 1..Len(new)
             /\ answers'[s][p] = new[p - Len(answers[s])]
  BY WrittenPositions DEF WritesFor, TypeInv
<1>3. ASSUME NEW p \in 1..Len(answers'[s]), NEW q \in 1..Len(answers'[s]), p < q
      PROVE  Follows(answers'[s][p], answers'[s][q])
  <2> DEFINE old == Len(answers[s])
  <2>1. CASE q <= old
    <3>1. p \in 1..old /\ q \in 1..old
      BY <1>1, <1>3, <2>1
    <3>2. answers'[s][p] = answers[s][p] /\ answers'[s][q] = answers[s][q]
      BY <1>1, <3>1, <1>2
    <3> QED
      BY <1>3, <3>1, <3>2 DEF StreamInOrder
  <2>2. CASE q > old
    <3>1. q - old \in 1..Len(new) /\ answers'[s][q] = new[q - old]
      BY <1>1, <2>2, <1>2
    <3>2. answers'[s][q].frame = n
      BY <3>1 DEF WritesFor
    <3>3. CASE p <= old
      <4>1. p \in 1..old /\ answers'[s][p] = answers[s][p]
        BY <1>1, <3>3, <1>2
      <4> QED
        BY <3>1, <3>2, <4>1 DEF Follows
    <3>4. CASE p > old
      <4>1. p - old \in 1..Len(new) /\ answers'[s][p] = new[p - old]
        <5>1. ~(p \in 1..old)
          BY <1>1, <3>4
        <5> QED
          BY <1>2, <5>1
      <4>2. answers'[s][p].frame = n
        BY <4>1 DEF WritesFor
      <4>3. p - old < q - old
        BY <1>1, <1>3
      <4> QED
        BY <3>1, <3>2, <4>1, <4>2, <4>3 DEF Follows
    <3> QED
      BY <1>1, <3>3, <3>4
  <2> QED
    BY <1>1, <2>1, <2>2
<1>4. \A a, b : Follows(a, b)' = Follows(a, b)
  BY DEF Follows, Answerable
<1> QED
  BY <1>3, <1>4 DEF StreamInOrder

\* A job comes to its end: its answers, if any, stand before what is queued.
LEMMA JobEnds ==
    ASSUME TypeInv, OrderInv, NEW s \in Streams, Busy(s), Finishes(s), UNCHANGED <<sent, inbound, queue>>,
           StreamInOrder(s)',
           \A p \in 1..Len(answers'[s]) :
               \/ p \in 1..Len(answers[s]) /\ answers'[s][p] = answers[s][p]
               \/ answers'[s][p].frame = job[s]
    PROVE  StreamOrder(s)'
<1>1. StreamOrder(s) /\ job[s] \in Frames
  BY CurrentJob DEF OrderInv, TypeInv
<1>2. job'[s] = 0 /\ stage'[s] = "none"
  BY DEF Finishes, TypeInv, WorkersOK
<1>3. \A n : Answerable(n)' = Answerable(n)
  BY DEF Answerable
<1>4. QueueOrder(s)'
  BY <1>1, <1>2, <1>3, Numbers DEF StreamOrder, QueueOrder
<1>5. WorkerOrder(s)'
  BY <1>2 DEF WorkerOrder
<1>6. AnswerOrder(s)'
  <2>1. ASSUME NEW p \in 1..Len(answers'[s])
        PROVE  /\ answers'[s][p].frame <= inbound
               /\ Answerable(answers'[s][p].frame) =>
                     \A i \in 1..Len(queue[s]) : answers'[s][p].frame < queue[s][i]
    <3>1. CASE p \in 1..Len(answers[s]) /\ answers'[s][p] = answers[s][p]
      BY <1>1, <3>1 DEF StreamOrder, AnswerOrder
    <3>2. CASE answers'[s][p].frame = job[s]
      BY <1>1, <3>2, Numbers DEF StreamOrder, QueueOrder
    <3> QED
      BY <2>1, <3>1, <3>2
  <2> QED
    BY <1>2, <1>3, <2>1 DEF AnswerOrder
<1> QED
  BY <1>4, <1>5, <1>6 DEF StreamOrder

\* Before a turn has its first event, nothing answers the frame of the job.
LEMMA NotYetAnswered ==
    ASSUME TypeInv, OrderInv, NEW s \in Streams, Busy(s), stage[s] = "none"
    PROVE  \A p \in 1..Len(answers[s]) :
               Answerable(answers[s][p].frame) => answers[s][p].frame < job[s]
<1>1. AnswerOrder(s) /\ job[s] # 0
  BY DEF OrderInv, StreamOrder, TypeInv, WorkersOK
<1> QED
  BY <1>1 DEF AnswerOrder, Behind

LEMMA RefusesInOrder ==
    ASSUME TypeInv, OrderInv, NEW s \in Streams, Refuses(s)
    PROVE  StreamOrder(s)'
<1>1. PICK what \in {"error", "not_found"} : Refuse(s, what)
  BY DEF Refuses
<1> DEFINE new == <<Answer(job[s], what, NoResponse)>>
<1>2. Busy(s) /\ stage[s] = "none" /\ job[s] \in Frames
  <2>1. Busy(s)
    BY DEF Refuses, Busy
  <2> QED
    BY <2>1, CurrentJob DEF Refuses, OrderInv, StreamOrder, WorkerOrder, TypeInv
<1>3. new \in Seq(AnswerType) /\ Len(new) = 1 /\ new[1].frame = job[s]
  <2>1. Answer(job[s], what, NoResponse) \in AnswerType
    BY <1>1, <1>2, AnswerTypes DEF Terminal
  <2> QED
    BY <2>1 DEF Answer
<1>4. WritesFor(s, job[s], new)
  BY <1>1, <1>3 DEF Refuse, WritesFor
<1>5. UNCHANGED <<sent, inbound, queue>> /\ Finishes(s)
  BY <1>1 DEF Refuse, clientVars, readerVars
<1> HIDE DEF new
<1>6. StreamInOrder(s)'
  <2>1. \A i, j \in 1..Len(new) : i < j => FALSE
    BY <1>3
  <2> QED
    BY <1>2, <1>3, <1>4, <1>5, <2>1, NotYetAnswered, WritesInOrder DEF OrderInv, StreamOrder
<1>7. \A p \in 1..Len(answers'[s]) :
          \/ p \in 1..Len(answers[s]) /\ answers'[s][p] = answers[s][p]
          \/ answers'[s][p].frame = job[s]
  BY <1>3, <1>4, WrittenPositions DEF WritesFor, TypeInv
<1> QED
  BY <1>2, <1>5, <1>6, <1>7, JobEnds

LEMMA WarmupInOrder ==
    ASSUME TypeInv, OrderInv, NEW s \in Streams, AnswerWarmup(s)
    PROVE  StreamOrder(s)'
<1> DEFINE new == <<Answer(job[s], "started", WarmupID(history[s])),
                    Answer(job[s], "completed", WarmupID(history[s]))>>
<1>1. Busy(s) /\ stage[s] = "none" /\ job[s] \in Frames
  <2>1. Busy(s)
    BY DEF AnswerWarmup, Busy
  <2> QED
    BY <2>1, CurrentJob DEF AnswerWarmup, OrderInv, StreamOrder, WorkerOrder, TypeInv
<1>2. /\ new \in Seq(AnswerType) /\ Len(new) = 2
      /\ \A i \in 1..Len(new) : new[i].frame = job[s]
      /\ Rank(new[1].what) = 1 /\ Rank(new[2].what) = 2
  <2>1. history[s] \in Seq(Messages)
    BY DEF TypeInv, HistoriesOK
  <2>2. /\ Answer(job[s], "started", WarmupID(history[s])) \in AnswerType
        /\ Answer(job[s], "completed", WarmupID(history[s])) \in AnswerType
    BY <1>1, <2>1, AnswerTypes DEF Terminal
  <2> QED
    BY <2>2 DEF Answer, Rank
<1>3. WritesFor(s, job[s], new)
  BY <1>2 DEF AnswerWarmup, WritesFor
<1>4. UNCHANGED <<sent, inbound, queue>> /\ Finishes(s)
  BY DEF AnswerWarmup, clientVars, readerVars
<1> HIDE DEF new
<1>5. StreamInOrder(s)'
  <2>1. \A i, j \in 1..Len(new) : i < j => Rank(new[i].what) < Rank(new[j].what)
    BY <1>2
  <2> QED
    BY <1>1, <1>2, <1>3, <1>4, <2>1, NotYetAnswered, WritesInOrder DEF OrderInv, StreamOrder
<1>6. \A p \in 1..Len(answers'[s]) :
          \/ p \in 1..Len(answers[s]) /\ answers'[s][p] = answers[s][p]
          \/ answers'[s][p].frame = job[s]
  BY <1>2, <1>3, WrittenPositions DEF WritesFor, TypeInv
<1> QED
  BY <1>1, <1>4, <1>5, <1>6, JobEnds

\* A turn that is over writes nothing more.
LEMMA TurnOver ==
    ASSUME TypeInv, OrderInv, NEW s \in Streams, SaveTurn(s) \/ WriteFails(s)
    PROVE  StreamOrder(s)'
<1>1. Busy(s) /\ Finishes(s) /\ UNCHANGED <<sent, inbound, queue, answers>>
  BY DEF SaveTurn, WriteFails, Busy, clientVars, readerVars
<1>2. StreamInOrder(s)'
  BY <1>1 DEF OrderInv, StreamOrder, StreamInOrder, Follows, Answerable
<1> QED
  BY <1>1, <1>2, JobEnds

\* An event of a turn comes after what its frame was answered with so far.
LEMMA ForwardsInOrder ==
    ASSUME TypeInv, OrderInv, NEW s \in Streams, Forwards(s)
    PROVE  StreamOrder(s)'
<1>1. /\ worker[s] = "turn" /\ Busy(s) /\ job[s] \in Frames
      /\ UNCHANGED <<sent, inbound, queue, job, worker>>
  <2>1. worker[s] = "turn" /\ UNCHANGED <<sent, inbound, queue, job, worker>>
    BY DEF Forwards, TurnStarted, TurnCompleted, TurnFailed, Forward, clientVars, readerVars
  <2> QED
    BY <2>1, CurrentJob DEF Busy, TypeInv
<1>2. PICK what \in {"started", "completed", "failed"} :
          /\ stage[s] = (IF what = "started" THEN "none" ELSE "started")
          /\ stage' = [stage EXCEPT ![s] = what]
          /\ Written(s, <<Answer(job[s], what, TurnID(job[s]))>>)
  BY DEF Forwards, TurnStarted, TurnCompleted, TurnFailed, Forward
<1> DEFINE new == <<Answer(job[s], what, TurnID(job[s]))>>
<1>3. new \in Seq(AnswerType) /\ Len(new) = 1 /\ new[1].frame = job[s] /\ new[1].what = what
  <2>1. Answer(job[s], what, TurnID(job[s])) \in AnswerType
    BY <1>1, AnswerTypes DEF Terminal
  <2> QED
    BY <2>1 DEF Answer
<1>4. WritesFor(s, job[s], new)
  BY <1>2, <1>3 DEF WritesFor
<1>5. stage'[s] = what
  BY <1>2 DEF TypeInv, WorkersOK
<1> HIDE DEF new
<1>6. StreamOrder(s) /\ job[s] # 0
  BY <1>1 DEF OrderInv, TypeInv, WorkersOK
<1>7. \A p \in 1..Len(answers[s]) :
          Answerable(answers[s][p].frame) =>
              \/ answers[s][p].frame < job[s]
              \/ /\ answers[s][p].frame = job[s]
                 /\ what # "started" /\ Rank(answers[s][p].what) = 1
  BY <1>2, <1>6 DEF StreamOrder, AnswerOrder, Behind
<1>8. StreamInOrder(s)'
  <2>1. \A i, j \in 1..Len(new) : i < j => FALSE
    BY <1>3
  <2>2. \A i \in 1..Len(new) : what # "started" => Rank(new[i].what) = 2
    BY <1>2, <1>3 DEF Rank
  <2>3. \A p \in 1..Len(answers[s]) :
            Answerable(answers[s][p].frame) =>
                \/ answers[s][p].frame < job[s]
                \/ /\ answers[s][p].frame = job[s]
                   /\ \A i \in 1..Len(new) : Rank(answers[s][p].what) < Rank(new[i].what)
    BY <1>7, <2>2
  <2> QED
    BY <1>1, <1>3, <1>4, <1>6, <2>1, <2>3, WritesInOrder DEF StreamOrder
<1>9. \A p \in 1..Len(answers'[s]) :
          \/ p \in 1..Len(answers[s]) /\ answers'[s][p] = answers[s][p]
          \/ answers'[s][p].frame = job[s] /\ answers'[s][p].what = what
  BY <1>3, <1>4, WrittenPositions DEF WritesFor, TypeInv
<1>10. \A n : Answerable(n)' = Answerable(n)
  BY <1>1 DEF Answerable
<1>11. QueueOrder(s)' /\ WorkerOrder(s)'
  BY <1>1, <1>5, <1>6, <1>10 DEF StreamOrder, QueueOrder, WorkerOrder, Busy
<1>12. AnswerOrder(s)'
  <2>1. ASSUME NEW p \in 1..Len(answers'[s]), p \in 1..Len(answers[s]), answers'[s][p] = answers[s][p]
        PROVE  /\ answers'[s][p].frame <= inbound
               /\ Answerable(answers'[s][p].frame) =>
                     /\ \A i \in 1..Len(queue[s]) : answers'[s][p].frame < queue[s][i]
                     /\ Behind(answers[s][p], s)'
    <3>1. /\ answers[s][p].frame <= inbound
          /\ Answerable(answers[s][p].frame) =>
                \A i \in 1..Len(queue[s]) : answers[s][p].frame < queue[s][i]
      BY <1>6, <2>1 DEF StreamOrder, AnswerOrder
    <3>2. Answerable(answers[s][p].frame) => Behind(answers[s][p], s)'
      BY <1>1, <1>2, <1>5, <1>7, <2>1 DEF Behind
    <3> QED
      BY <2>1, <3>1, <3>2
  <2>2. ASSUME NEW p \in 1..Len(answers'[s]), answers'[s][p].frame = job[s], answers'[s][p].what = what
        PROVE  /\ answers'[s][p].frame <= inbound
               /\ Answerable(answers'[s][p].frame) =>
                     /\ \A i \in 1..Len(queue[s]) : answers'[s][p].frame < queue[s][i]
                     /\ Behind(answers[s][p], s)'
    <3>1. Behind(answers[s][p], s)'
      BY <1>1, <1>2, <1>5, <2>2 DEF Behind, Rank
    <3> QED
      BY <1>6, <2>2, <3>1, Numbers DEF StreamOrder, QueueOrder
  <2> QED
    BY <1>1, <1>9, <1>10, <2>1, <2>2 DEF AnswerOrder
<1> QED
  BY <1>8, <1>11, <1>12 DEF StreamOrder

\* The head of the queue becomes the job.
LEMMA TakeInOrder ==
    ASSUME TypeInv, OrderInv, NEW s \in Streams, Take(s)
    PROVE  StreamOrder(s)'
<1>1. /\ queue[s] \in Seq(Frames) /\ queue[s] # <<>>
      /\ job'[s] = Head(queue[s]) /\ queue'[s] = Tail(queue[s])
      /\ worker[s] = "idle" /\ worker'[s] = "parsing"
      /\ UNCHANGED <<sent, inbound, stage, answers>>
  BY DEF Take, Becomes, TypeInv, QueuesOK, WorkersOK, clientVars, readerVars
<1>2. StreamOrder(s) /\ stage[s] = "none"
  BY <1>1 DEF OrderInv, StreamOrder, WorkerOrder, TypeInv, WorkersOK
<1>3. \A n : Answerable(n)' = Answerable(n)
  BY <1>1 DEF Answerable
<1>4. /\ Len(queue[s]) \in Nat \ {0} /\ Len(queue'[s]) = Len(queue[s]) - 1
      /\ job'[s] = queue[s][1]
      /\ \A i \in 1..Len(queue'[s]) : i + 1 \in 1..Len(queue[s]) /\ queue'[s][i] = queue[s][i + 1]
  BY <1>1
<1>5. QueueOrder(s)'
  <2>1. QueueOrder(s) /\ 1 \in 1..Len(queue[s])
    BY <1>2, <1>4 DEF StreamOrder
  <2>2. ASSUME NEW i \in 1..Len(queue'[s])
        PROVE  Answerable(queue[s][i])' /\ job'[s] < queue'[s][i]
    <3>1. i + 1 \in 1..Len(queue[s]) /\ queue'[s][i] = queue[s][i + 1] /\ 1 < i + 1
      BY <1>4
    <3>2. Answerable(queue[s][i + 1]) /\ queue[s][1] < queue[s][i + 1]
      BY <2>1, <3>1 DEF QueueOrder
    <3>3. Answerable(queue[s][i])'
      BY <1>1, <3>1, <3>2 DEF Answerable
    <3> QED
      BY <1>4, <3>1, <3>2, <3>3
  <2>3. ASSUME NEW i \in 1..Len(queue'[s]), NEW j \in 1..Len(queue'[s]), i < j
        PROVE  queue'[s][i] < queue'[s][j]
    <3>1. i + 1 < j + 1
      BY <2>3
    <3> QED
      BY <1>4, <2>1, <3>1 DEF QueueOrder
  <2> QED
    BY <2>2, <2>3 DEF QueueOrder
<1>6. WorkerOrder(s)'
  BY <1>1, <1>2, <1>3, <1>4 DEF StreamOrder, QueueOrder, WorkerOrder, Busy
<1>7. AnswerOrder(s)'
  BY <1>1, <1>2, <1>3, <1>4 DEF StreamOrder, AnswerOrder, Behind
<1>8. StreamInOrder(s)'
  BY <1>1, <1>2, <1>3 DEF StreamOrder, StreamInOrder, Follows
<1> QED
  BY <1>5, <1>6, <1>7, <1>8 DEF StreamOrder

\* A worker goes on with its job, or leaves.
WorkerMoves(s) ==
    Prepare(s) \/ Warmup(s) \/ CallStarts(s) \/ TurnCloses(s) \/ WorkerExits(s)

LEMMA MovesInOrder ==
    ASSUME TypeInv, OrderInv, NEW s \in Streams, WorkerMoves(s)
    PROVE  StreamOrder(s)'
<1>1. UNCHANGED <<sent, inbound, queue, job, stage, answers>>
  BY DEF WorkerMoves, Prepare, Warmup, CallStarts, TurnCloses, WorkerExits, clientVars, readerVars
<1>2. StreamOrder(s)
  BY DEF OrderInv
<1>3. \A n : Answerable(n)' = Answerable(n)
  BY <1>1 DEF Answerable
<1>4. WorkerOrder(s)'
  BY <1>1, <1>2, <1>3 DEF StreamOrder, WorkerOrder, WorkerMoves, Prepare, Proceeds, Warmup, CallStarts, TurnCloses,
     WorkerExits, Becomes, Busy, TypeInv, WorkersOK
<1>5. QueueOrder(s)' /\ AnswerOrder(s)' /\ StreamInOrder(s)'
  BY <1>1, <1>2, <1>3 DEF StreamOrder, QueueOrder, AnswerOrder, Behind, StreamInOrder, Follows
<1> QED
  BY <1>4, <1>5 DEF StreamOrder

\* The frame the reader hands over is the last one of its stream.
LEMMA DispatchInOrder ==
    ASSUME TypeInv, OrderInv, NEW s \in Streams, Dispatch, Next
    PROVE  StreamOrder(s)'
<1>1. /\ Frame.stream \in Streams /\ inbound' = inbound + 1
      /\ queue' = [queue EXCEPT ![Frame.stream] = Append(@, inbound + 1)]
      /\ UNCHANGED <<sent, worker, job, stage, answers>>
  BY NextFrame DEF Dispatch, TypeInv, FramesOK, FrameType, clientVars, workerVars
<1>2. CASE s # Frame.stream
  <2>1. queue'[s] = queue[s]
    BY <1>1, <1>2 DEF TypeInv, QueuesOK
  <2> QED
    BY <1>1, <2>1, Elsewhere
<1>3. CASE s = Frame.stream
  <2>1. StreamOrder(s) /\ Answerable(inbound + 1)
    BY DEF OrderInv, ReaderOrder, Dispatch
  <2>2. queue[s] \in Seq(Frames) /\ queue'[s] = Append(queue[s], inbound + 1)
    BY <1>1, <1>3 DEF TypeInv, QueuesOK
  <2>3. \A n : Answerable(n)' = Answerable(n)
    BY <1>1 DEF Answerable
  <2>4. /\ Len(queue'[s]) = Len(queue[s]) + 1
        /\ \A i \in 1..Len(queue[s]) : queue'[s][i] = queue[s][i]
        /\ queue'[s][Len(queue[s]) + 1] = inbound + 1
    BY <2>2
  <2>5. \A i \in 1..Len(queue'[s]) : i \in 1..Len(queue[s]) \/ i = Len(queue[s]) + 1
    BY <2>4, Numbers
  <2>6. QueueOrder(s)'
    <3>1. ASSUME NEW i \in 1..Len(queue'[s])
          PROVE  Answerable(queue'[s][i]) /\ job[s] < queue'[s][i]
      BY <2>1, <2>4, <2>5, Numbers DEF StreamOrder, QueueOrder
    <3>2. ASSUME NEW i \in 1..Len(queue'[s]), NEW j \in 1..Len(queue'[s]), i < j
          PROVE  queue'[s][i] < queue'[s][j]
      <4>1. i \in 1..Len(queue[s])
        BY <2>4, <3>2, Numbers
      <4>2. CASE j \in 1..Len(queue[s])
        BY <2>1, <2>4, <3>2, <4>1, <4>2 DEF StreamOrder, QueueOrder
      <4>3. CASE j = Len(queue[s]) + 1
        BY <2>4, <4>1, <4>3, Numbers
      <4> QED
        BY <2>5, <4>2, <4>3
    <3> QED
      BY <1>1, <2>3, <3>1, <3>2 DEF QueueOrder
  <2>7. WorkerOrder(s)'
    BY <1>1, <2>1, <2>3 DEF StreamOrder, WorkerOrder, Busy
  <2>8. AnswerOrder(s)'
    <3>1. ASSUME NEW p \in 1..Len(answers[s])
          PROVE  /\ answers[s][p].frame <= inbound + 1
                 /\ Answerable(answers[s][p].frame) =>
                       \A i \in 1..Len(queue'[s]) : answers[s][p].frame < queue'[s][i]
      <4>1. answers[s][p].frame <= inbound /\ answers[s][p].frame \in Nat /\ inbound \in Nat
        BY <2>1, Numbers DEF StreamOrder, AnswerOrder
      <4>2. ASSUME Answerable(answers[s][p].frame), NEW i \in 1..Len(queue'[s])
            PROVE  answers[s][p].frame < queue'[s][i]
        <5>1. CASE i \in 1..Len(queue[s])
          BY <2>1, <2>4, <4>2, <5>1 DEF StreamOrder, AnswerOrder
        <5>2. CASE i = Len(queue[s]) + 1
          BY <2>4, <4>1, <5>2
        <5> QED
          BY <2>5, <5>1, <5>2
      <4> QED
        BY <4>1, <4>2
    <3> QED
      BY <1>1, <2>1, <2>3, <3>1 DEF StreamOrder, AnswerOrder, Behind
  <2>9. StreamInOrder(s)'
    BY <1>1, <2>1, <2>3 DEF StreamOrder, StreamInOrder, Follows
  <2> QED
    BY <2>6, <2>7, <2>8, <2>9 DEF StreamOrder
<1> QED
  BY <1>2, <1>3

\* What the reader answers itself is not in the line.
LEMMA UnsupportedInOrder ==
    ASSUME TypeInv, OrderInv, NEW s \in Streams, ReadUnsupported, Next
    PROVE  StreamOrder(s)'
<1> DEFINE new == <<Answer(inbound + 1, "error", NoResponse)>>
<1>1. /\ Frame.stream \in Streams /\ inbound + 1 \in Frames /\ inbound' = inbound + 1
      /\ ~Answerable(inbound + 1)
      /\ UNCHANGED <<sent, queue, worker, job, stage>>
  BY NextFrame DEF ReadUnsupported, FrameType, clientVars, workerVars, TypeInv, Answerable, Frame
<1>2. new \in Seq(AnswerType) /\ Len(new) = 1 /\ new[1].frame = inbound + 1
  <2>1. Answer(inbound + 1, "error", NoResponse) \in AnswerType
    BY <1>1, AnswerTypes DEF Terminal
  <2> QED
    BY <2>1 DEF Answer
<1>3. WritesFor(Frame.stream, inbound + 1, new)
  BY <1>2 DEF ReadUnsupported, WritesFor
<1> HIDE DEF new
<1>4. CASE s # Frame.stream
  <2>1. answers'[s] = answers[s]
    BY <1>1, <1>2, <1>3, <1>4, WrittenAnswers DEF WritesFor, TypeInv
  <2> QED
    BY <1>1, <2>1, Elsewhere
<1>5. CASE s = Frame.stream
  <2>1. StreamOrder(s)
    BY DEF OrderInv
  <2>2. \A n : Answerable(n)' = Answerable(n)
    BY <1>1 DEF Answerable
  <2>3. StreamInOrder(s)'
    <3>1. \A i, j \in 1..Len(new) : i < j => FALSE
      BY <1>2
    <3> QED
      BY <1>1, <1>2, <1>3, <1>5, <2>1, <3>1, WritesInOrder DEF StreamOrder
  <2>4. QueueOrder(s)' /\ WorkerOrder(s)'
    BY <1>1, <2>1, <2>2 DEF StreamOrder, QueueOrder, WorkerOrder, Busy
  <2>5. \A p \in 1..Len(answers'[s]) :
            \/ p \in 1..Len(answers[s]) /\ answers'[s][p] = answers[s][p]
            \/ answers'[s][p].frame = inbound + 1
    BY <1>2, <1>3, <1>5, WrittenPositions DEF WritesFor, TypeInv
  <2>6. AnswerOrder(s)'
    <3>1. ASSUME NEW p \in 1..Len(answers'[s])
          PROVE  /\ answers'[s][p].frame <= inbound + 1
                 /\ Answerable(answers'[s][p].frame) =>
                       /\ \A i \in 1..Len(queue[s]) : answers'[s][p].frame < queue[s][i]
                       /\ job[s] # 0 => Behind(answers[s][p], s)'
      <4>1. CASE p \in 1..Len(answers[s]) /\ answers'[s][p] = answers[s][p]
        BY <1>1, <2>1, <4>1, Numbers DEF StreamOrder, AnswerOrder, Behind
      <4>2. CASE answers'[s][p].frame = inbound + 1
        BY <1>1, <4>2, Numbers
      <4> QED
        BY <2>5, <4>1, <4>2
    <3> QED
      BY <1>1, <2>2, <3>1 DEF AnswerOrder
  <2> QED
    BY <2>3, <2>4, <2>6 DEF StreamOrder
<1> QED
  BY <1>4, <1>5

LEMMA ReaderOrderStep == ASSUME TypeInv, OrderInv, Next PROVE ReaderOrder'
<1>1. CASE ReadFrame
  BY <1>1 DEF ReadFrame, ReaderOrder, Answerable, Frame, clientVars
<1>2. CASE UNCHANGED readerVars
  <2>1. reader = "dispatching" => inbound + 1 \in 1..Len(sent)
    BY DEF TypeInv, FramesOK
  <2> QED
    BY <1>2, <2>1, SentStays DEF readerVars, OrderInv, ReaderOrder
<1>3. CASE ReadUnsupported \/ Dispatch \/ DispatchAborted \/ ReadFails \/ Return
  BY <1>3 DEF ReadUnsupported, Dispatch, DispatchAborted, ReadFails, Return, ReaderOrder
<1>4. Next => UNCHANGED readerVars \/ Reader
  BY DEF Next, SendFrame, Disconnect, Cancel, Work, Turn, Take, RefuseMalformed, RefuseUnknown, Refuse, Prepare,
     Warmup, AnswerWarmup, SaveTurn, WorkerExits, CallFails, CallStarts, TurnStarted, TurnCompleted,
     TurnFailed, Forward, WriteFails, TurnCloses
<1> QED
  BY <1>1, <1>2, <1>3, <1>4 DEF Reader

\* A worker works on its own stream.
LEMMA OnlyItsStream ==
    ASSUME TypeInv, NEW r \in Streams, Work(r) \/ Turn(r), NEW s \in Streams, s # r
    PROVE  /\ queue'[s] = queue[s] /\ job'[s] = job[s] /\ stage'[s] = stage[s]
           /\ worker'[s] = worker[s] /\ answers'[s] = answers[s]
<1> USE DEF TypeInv, QueuesOK, WorkersOK, AnswersOK
<1>1. queue'[s] = queue[s]
  BY DEF Work, Turn, Take, RefuseMalformed, RefuseUnknown, Refuse, Prepare, Warmup, AnswerWarmup, SaveTurn,
     WorkerExits, CallFails, CallStarts, TurnStarted, TurnCompleted, TurnFailed, Forward, WriteFails, TurnCloses
<1>2. job'[s] = job[s] /\ stage'[s] = stage[s] /\ worker'[s] = worker[s]
  BY DEF Work, Turn, Take, RefuseMalformed, RefuseUnknown, Refuse, Prepare, Warmup, AnswerWarmup, SaveTurn,
     WorkerExits, CallFails, CallStarts, TurnStarted, TurnCompleted, TurnFailed, Forward, WriteFails, TurnCloses,
     Finishes, Becomes
<1>3. answers'[s] = answers[s]
  BY DEF Work, Turn, Take, RefuseMalformed, RefuseUnknown, Refuse, Prepare, Warmup, AnswerWarmup, SaveTurn,
     WorkerExits, CallFails, CallStarts, TurnStarted, TurnCompleted, TurnFailed, Forward, WriteFails, TurnCloses,
     Written
<1> QED
  BY <1>1, <1>2, <1>3

LEMMA OrderStep == ASSUME TypeInv, OrderInv, [Next]_vars PROVE OrderInv'
<1>1. CASE UNCHANGED vars
  BY <1>1 DEF vars, clientVars, readerVars, workerVars, OrderInv, ReaderOrder, StreamOrder, QueueOrder, WorkerOrder,
     AnswerOrder, Behind, StreamInOrder, Follows, Answerable, Busy
<1>2. CASE Next
  <2>1. ASSUME NEW s \in Streams PROVE StreamOrder(s)'
    <3>1. ASSUME UNCHANGED <<queue, job, stage, answers, worker>> PROVE StreamOrder(s)'
      BY <1>2, <3>1, Elsewhere
    <3>2. ASSUME NEW n \in Streams, NEW kind \in Kinds, NEW parent \in Parents, SendFrame(n, kind, parent)
          PROVE  StreamOrder(s)'
      BY <3>1, <3>2 DEF SendFrame, workerVars
    <3>3. CASE Disconnect \/ Cancel \/ DispatchAborted \/ ReadFails \/ Return
      BY <3>1, <3>3 DEF Disconnect, Cancel, DispatchAborted, ReadFails, Return, workerVars
    <3>4. CASE ReadFrame
      <4>1. UNCHANGED <<queue, job, stage, answers>>
        BY <3>4 DEF ReadFrame
      <4>2. worker[s] = "none" => job[s] = 0 /\ stage[s] = "none"
        BY DEF OrderInv, StreamOrder, WorkerOrder, Busy, TypeInv, WorkersOK
      <4>3. worker'[s] = worker[s] \/ worker[s] = "none"
        BY <3>4 DEF ReadFrame, TypeInv, WorkersOK
      <4> QED
        BY <1>2, <4>1, <4>2, <4>3, Elsewhere
    <3>5. ASSUME NEW r \in Streams, Work(r) \/ Turn(r) PROVE StreamOrder(s)'
      <4>1. CASE s # r
        BY <1>2, <3>5, <4>1, OnlyItsStream, Elsewhere
      <4>2. CASE s = r
        <5>1. \/ Take(s) \/ Refuses(s) \/ AnswerWarmup(s) \/ Forwards(s) \/ SaveTurn(s) \/ WriteFails(s)
              \/ WorkerMoves(s)
          BY <3>5, <4>2 DEF Work, Turn, RefuseMalformed, RefuseUnknown, CallFails, Refuses, Forwards, WorkerMoves
        <5> QED
          BY <5>1, TakeInOrder, RefusesInOrder, WarmupInOrder, ForwardsInOrder, TurnOver, MovesInOrder
      <4> QED
        BY <4>1, <4>2
    <3> QED
      BY <1>2, <3>2, <3>3, <3>4, <3>5, DispatchInOrder, UnsupportedInOrder DEF Next, Reader
  <2> QED
    BY <1>2, <2>1, ReaderOrderStep DEF OrderInv
<1> QED
  BY <1>1, <1>2

LEMMA OrderAlways == Spec => []OrderInv
<1>1. Init => OrderInv
  BY OrderInit
<1>2. TypeInv /\ OrderInv /\ [Next]_vars => OrderInv'
  BY OrderStep
<1> QED
  BY <1>1, <1>2, TypeAlways, PTL DEF Spec

\* The frames the workers answer are answered per stream one after the other, in
\* the order the client sent them and every one at most once, whatever streams,
\* workers and the reader interleave (websocket.go:98, 119: FIFO per channel).
THEOREM AnswersInOrder == Spec => []InOrder
<1>1. TypeInv /\ OrderInv => InOrder
  <2> SUFFICES ASSUME TypeInv, OrderInv, NEW s \in Streams, NEW p \in DOMAIN answers[s], NEW q \in DOMAIN answers[s]
               PROVE  p < q /\ Answerable(answers[s][p].frame) /\ Answerable(answers[s][q].frame)
                         => \/ answers[s][p].frame < answers[s][q].frame
                            \/ /\ answers[s][p].frame = answers[s][q].frame
                               /\ Rank(answers[s][p].what) < Rank(answers[s][q].what)
    BY DEF InOrder, Answerable
  <2>1. p \in 1..Len(answers[s]) /\ q \in 1..Len(answers[s])
    BY DEF TypeInv, AnswersOK
  <2> QED
    BY <2>1 DEF OrderInv, StreamOrder, StreamInOrder, Follows
<1> QED
  BY <1>1, TypeAlways, OrderAlways, PTL

-----------------------------------------------------------------------------
(* The session store. *)

\* A frame is queued, worked at and answered on the stream it was sent on.
Owned ==
    \A s \in Streams :
        /\ job[s] # 0 => sent[job[s]].stream = s
        /\ \A i \in 1..Len(queue[s]) : sent[queue[s][i]].stream = s
        /\ \A p \in 1..Len(answers[s]) : sent[answers[s][p].frame].stream = s

LEMMA OwnedInit == ASSUME Init PROVE Owned
<1>1. ASSUME NEW s \in Streams
      PROVE  job[s] = 0 /\ queue[s] = <<>> /\ answers[s] = <<>>
  BY DEF Init
<1>2. ASSUME NEW s \in Streams
      PROVE  (\A i \in 1..Len(queue[s]) : FALSE) /\ (\A p \in 1..Len(answers[s]) : FALSE)
  BY <1>1
<1> QED
  BY <1>1, <1>2 DEF Owned

\* What happens to the job, the queue and the answers of a stream.
LEMMA StreamStep ==
    ASSUME TypeInv, Next, NEW s \in Streams
    PROVE  /\ job'[s] \in {0, job[s]} \/ (job'[s] = Head(queue[s]) /\ queue[s] # <<>>)
           /\ \/ queue'[s] = queue[s]
              \/ queue'[s] = Tail(queue[s]) /\ queue[s] # <<>>
              \/ queue'[s] = Append(queue[s], inbound + 1) /\ inbound < Len(sent) /\ Frame.stream = s
<1> USE DEF TypeInv, QueuesOK, WorkersOK
<1>1. CASE Dispatch
  <2>1. Frame.stream \in Streams /\ inbound < Len(sent) /\ UNCHANGED job
    BY <1>1, NextFrame DEF Dispatch, FramesOK, FrameType, workerVars
  <2> QED
    BY <1>1, <2>1 DEF Dispatch
<1>2. ASSUME NEW r \in Streams, Take(r)
      PROVE  /\ job'[s] = job[s] \/ (job'[s] = Head(queue[s]) /\ queue[s] # <<>>)
             /\ queue'[s] = queue[s] \/ (queue'[s] = Tail(queue[s]) /\ queue[s] # <<>>)
  BY <1>2 DEF Take
<1>3. ASSUME NEW r \in Streams, Finishes(r), UNCHANGED queue
      PROVE  job'[s] \in {0, job[s]} /\ queue'[s] = queue[s]
  BY <1>3 DEF Finishes
<1>4. \/ UNCHANGED <<job, queue>> \/ Dispatch
      \/ \E r \in Streams : Take(r) \/ (Finishes(r) /\ UNCHANGED queue)
  BY DEF Next, SendFrame, Disconnect, Cancel, Reader, ReadUnsupported, ReadFrame, DispatchAborted,
     ReadFails, Return, Work, Turn, RefuseMalformed, RefuseUnknown, Refuse, Prepare, Warmup,
     AnswerWarmup, SaveTurn, WorkerExits, CallFails, CallStarts, TurnStarted, TurnCompleted, TurnFailed,
     Forward, WriteFails, TurnCloses, workerVars
<1> QED
  BY <1>1, <1>2, <1>3, <1>4

LEMMA OwnedStep == ASSUME TypeInv, OrderInv, Owned, Next PROVE Owned'
<1> SUFFICES ASSUME NEW s \in Streams
             PROVE  /\ job'[s] # 0 => sent'[job'[s]].stream = s
                    /\ \A i \in 1..Len(queue'[s]) : sent'[queue'[s][i]].stream = s
                    /\ \A p \in 1..Len(answers'[s]) : sent'[answers'[s][p].frame].stream = s
  BY DEF Owned
<1>1. /\ job[s] # 0 => sent'[job[s]] = sent[job[s]] /\ sent[job[s]].stream = s
      /\ \A i \in 1..Len(queue[s]) : sent'[queue[s][i]] = sent[queue[s][i]] /\ sent[queue[s][i]].stream = s
  <2>1. /\ job[s] # 0 => job[s] \in 1..Len(sent)
        /\ \A i \in 1..Len(queue[s]) : queue[s][i] \in 1..Len(sent)
    BY Numbers
  <2> QED
    BY <2>1, SentKept DEF Owned
<1>2. queue[s] \in Seq(Frames) /\ job[s] \in Nat
  BY Numbers DEF TypeInv, QueuesOK
<1>3. job'[s] # 0 => sent'[job'[s]].stream = s
  <2>1. CASE job'[s] = Head(queue[s]) /\ queue[s] # <<>>
    <3>1. 1 \in 1..Len(queue[s]) /\ job'[s] = queue[s][1]
      BY <1>2, <2>1
    <3> QED
      BY <1>1, <3>1
  <2> QED
    BY <1>1, <2>1, StreamStep
<1>4. ASSUME NEW i \in 1..Len(queue'[s]) PROVE sent'[queue'[s][i]].stream = s
  <2>1. CASE queue'[s] = queue[s]
    BY <1>1, <2>1, <1>4
  <2>2. CASE queue'[s] = Tail(queue[s]) /\ queue[s] # <<>>
    <3>1. i + 1 \in 1..Len(queue[s]) /\ queue'[s][i] = queue[s][i + 1]
      BY <1>2, <1>4, <2>2
    <3> QED
      BY <1>1, <3>1
  <2>3. CASE queue'[s] = Append(queue[s], inbound + 1) /\ inbound < Len(sent) /\ Frame.stream = s
    <3>1. inbound + 1 \in 1..Len(sent) /\ sent'[inbound + 1].stream = s
      BY <2>3, Numbers, SentKept DEF Frame
    <3>2. (i \in 1..Len(queue[s]) /\ queue'[s][i] = queue[s][i]) \/ queue'[s][i] = inbound + 1
      BY <1>2, <1>4, <2>3
    <3> QED
      BY <1>1, <3>1, <3>2
  <2> QED
    BY <2>1, <2>2, <2>3, StreamStep
<1>5. ASSUME NEW p \in 1..Len(answers'[s]) PROVE sent'[answers'[s][p].frame].stream = s
  <2>1. ASSUME NEW k \in 1..Len(answers[s]) PROVE sent'[answers[s][k].frame].stream = s
    <3>1. answers[s][k].frame \in 1..Len(sent)
      BY Numbers DEF OrderInv, StreamOrder, AnswerOrder, AnswerType, Frames
    <3> QED
      BY <3>1, SentKept DEF Owned
  <2>2. CASE answers'[s] = answers[s]
    BY <2>1, <2>2
  <2>3. CASE answers'[s] # answers[s]
    <3>1. PICK n \in Frames, new \in Seq(AnswerType) : WritesFor(s, n, new)
      BY <2>3, WhatIsWritten, WrittenAnswers DEF WritesFor, TypeInv
    <3>2. n \in 1..Len(sent) /\ sent'[n].stream = s
      <4>1. CASE n = job[s]
        BY <1>1, <4>1, Numbers, ServerAssumption DEF Frames
      <4>2. CASE n = inbound + 1 /\ inbound < Len(sent) /\ Frame.stream = s
        BY <4>2, Numbers, SentKept DEF Frame
      <4> QED
        BY <3>1, <4>1, <4>2 DEF WritesFor
    <3>3. (\E k \in 1..Len(answers[s]) : answers'[s][p] = answers[s][k]) \/ answers'[s][p].frame = n
      BY <1>5, <3>1, WrittenPositions DEF WritesFor, TypeInv
    <3> QED
      BY <2>1, <3>2, <3>3
  <2> QED
    BY <2>2, <2>3
<1> QED
  BY <1>3, <1>4, <1>5

-----------------------------------------------------------------------------
(* What is stored.  Nothing leaves the store, and a client that is there was  *)
(* told of no completed response that is neither stored nor being saved.      *)

LEMMA StoreGrows == ASSUME TypeInv, Next PROVE DOMAIN store \subseteq DOMAIN store'
<1>1. ASSUME NEW id, NEW messages, Save(id, messages) PROVE DOMAIN store' = DOMAIN store \cup {id}
  BY <1>1 DEF Save
<1>2. \/ UNCHANGED store
      \/ \E s \in Streams : \/ Save(WarmupID(Combined(s)), Combined(s))
                            \/ Save(TurnID(job[s]), history[s] \o Collected(s))
  BY DEF Next, SendFrame, Disconnect, Cancel, Reader, ReadUnsupported, ReadFrame, Dispatch, DispatchAborted,
     ReadFails, Return, Work, Turn, Take, RefuseMalformed, RefuseUnknown, Refuse, Prepare, Warmup,
     AnswerWarmup, SaveTurn, WorkerExits, CallFails, CallStarts, TurnStarted, TurnCompleted, TurnFailed,
     Forward, WriteFails, TurnCloses
<1> QED
  BY <1>1, <1>2

\* The context of a warm-up is stored before the client hears of it.
WarmStored == \A s \in Streams : worker[s] = "warming" => WarmupID(history[s]) \in DOMAIN store

LEMMA WarmStoredStep == ASSUME TypeInv, WarmStored, Next PROVE WarmStored'
<1> SUFFICES ASSUME NEW s \in Streams, worker'[s] = "warming"
             PROVE  WarmupID(history'[s]) \in DOMAIN store'
  BY DEF WarmStored, WarmupID
<1> USE DEF TypeInv, WorkersOK, HistoriesOK
<1>1. CASE Warmup(s)
  <2>1. history'[s] = Combined(s)
    BY <1>1 DEF Warmup
  <2> QED
    BY <1>1, <2>1 DEF Warmup, Save
<1>2. CASE worker[s] = "warming" /\ history'[s] = history[s]
  BY <1>2, StoreGrows DEF WarmStored
<1>3. ASSUME NEW r \in Streams, Work(r) \/ Turn(r), r # s
      PROVE  worker[s] = "warming" /\ history'[s] = history[s]
  <2>1. worker'[s] = worker[s]
    BY <1>3, OnlyItsStream
  <2>2. history'[s] = history[s]
    BY <1>3 DEF Work, Turn, Take, RefuseMalformed, RefuseUnknown, Refuse, Prepare, Warmup, AnswerWarmup, SaveTurn,
       WorkerExits, CallFails, CallStarts, TurnStarted, TurnCompleted, TurnFailed, Forward, WriteFails,
       TurnCloses, Finishes
  <2> QED
    BY <2>1, <2>2
<1>4. ASSUME Work(s) \/ Turn(s), ~Warmup(s) PROVE FALSE
  BY <1>4 DEF Work, Turn, Take, RefuseMalformed, RefuseUnknown, Refuse, Prepare, Proceeds, AnswerWarmup, SaveTurn,
     WorkerExits, CallFails, CallStarts, TurnStarted, TurnCompleted, TurnFailed, Forward, WriteFails,
     TurnCloses, Finishes, Becomes
<1>5. CASE ~\E r \in Streams : Work(r) \/ Turn(r)
  BY <1>2, <1>5 DEF Next, SendFrame, Disconnect, Cancel, Reader, ReadUnsupported, ReadFrame, Dispatch,
     DispatchAborted, ReadFails, Return, workerVars
<1> QED
  BY <1>1, <1>2, <1>3, <1>4, <1>5

\* A completed response is stored, or it is the one its worker is about to save.
CompletedStored ==
    peer = "open" =>
        \A s \in Streams : \A p \in 1..Len(answers[s]) :
            answers[s][p].what = "completed" =>
                \/ answers[s][p].id \in DOMAIN store
                \/ answers[s][p].id = TurnID(job[s]) /\ stage[s] = "completed"

\* A completed turn that is not saved yet stays where it is until it is.
LEMMA SavedInTheEnd ==
    ASSUME TypeInv, OrderInv, Next, peer = "open", NEW s \in Streams, stage[s] = "completed"
    PROVE  \/ job'[s] = job[s] /\ stage'[s] = "completed"
           \/ TurnID(job[s]) \in DOMAIN store'
<1> USE DEF TypeInv, WorkersOK
<1>1. worker[s] \in {"turn", "saving"}
  BY DEF OrderInv, StreamOrder, WorkerOrder
<1>2. CASE SaveTurn(s)
  BY <1>2 DEF SaveTurn, Save
<1>3. CASE TurnCloses(s)
  BY <1>3 DEF TurnCloses
<1>4. ASSUME Work(s) \/ Turn(s), ~SaveTurn(s), ~TurnCloses(s) PROVE FALSE
  BY <1>1, <1>4 DEF Work, Turn, Take, RefuseMalformed, RefuseUnknown, Prepare, Warmup, Proceeds, AnswerWarmup,
     WorkerExits, CallFails, CallStarts, TurnStarted, TurnCompleted, TurnFailed, Forward, WriteFails
<1>5. ASSUME NEW r \in Streams, Work(r) \/ Turn(r), r # s PROVE job'[s] = job[s] /\ stage'[s] = "completed"
  BY <1>5, OnlyItsStream
<1>6. CASE ~\E r \in Streams : Work(r) \/ Turn(r)
  BY <1>6 DEF Next, SendFrame, Disconnect, Cancel, Reader, ReadUnsupported, ReadFrame, Dispatch,
     DispatchAborted, ReadFails, Return, workerVars
<1> QED
  BY <1>2, <1>3, <1>4, <1>5, <1>6

LEMMA NewOfWritten ==
    ASSUME AnswersOK, NEW s \in Streams, NEW new \in Seq(AnswerType), Written(s, new),
           NEW p \in 1..Len(answers'[s]), p \notin 1..Len(answers[s])
    PROVE  peer = "open" /\ \E i \in 1..Len(new) : answers'[s][p] = new[i]
<1>1. answers' # answers
  OBVIOUS
<1> QED
  BY <1>1, WrittenPositions DEF Written

\* What is new in what a stream was sent.
LEMMA NewAnswers ==
    ASSUME TypeInv, Next, NEW s \in Streams, NEW p \in 1..Len(answers'[s]), p \notin 1..Len(answers[s])
    PROVE  /\ peer = "open" /\ peer' = "open"
           /\ answers'[s][p].what = "completed" =>
                 \/ worker[s] = "warming" /\ answers'[s][p].id = WarmupID(history[s]) /\ UNCHANGED store
                 \/ answers'[s][p].id = TurnID(job[s]) /\ job'[s] = job[s] /\ stage'[s] = "completed"
           /\ answers'[s][p].what = "not_found" => RefuseUnknown(s) /\ answers'[s][p].frame = job[s]
           /\ answers'[s][p].what = "failed" =>
                 Busy(s) /\ answers'[s][p].frame = job[s] /\ stage'[s] = "failed"
<1> USE DEF TypeInv
<1>1. CASE ReadUnsupported /\ Frame.stream = s
  <2> DEFINE new == <<Answer(inbound + 1, "error", NoResponse)>>
  <2>1. Answer(inbound + 1, "error", NoResponse) \in AnswerType
    BY <1>1, NextFrame, AnswerTypes DEF ReadUnsupported, Terminal
  <2>2. new \in Seq(AnswerType) /\ \A i \in 1..Len(new) : new[i].what = "error"
    BY <2>1 DEF Answer
  <2>3. Written(s, new) /\ peer' = peer
    BY <1>1 DEF ReadUnsupported, clientVars
  <2> QED
    BY <2>2, <2>3, NewOfWritten
<1>2. ASSUME NEW what \in {"error", "not_found"}, Refuse(s, what), Busy(s)
      PROVE  peer = "open" /\ peer' = "open" /\ answers'[s][p].what = what /\ answers'[s][p].frame = job[s]
  <2> DEFINE new == <<Answer(job[s], what, NoResponse)>>
  <2>1. Answer(job[s], what, NoResponse) \in AnswerType
    BY <1>2, CurrentJob, AnswerTypes DEF Terminal
  <2>2. new \in Seq(AnswerType) /\ \A i \in 1..Len(new) : new[i].what = what /\ new[i].frame = job[s]
    BY <2>1 DEF Answer
  <2>3. Written(s, new) /\ peer' = peer
    BY <1>2 DEF Refuse, clientVars
  <2> HIDE DEF new
  <2>4. peer = "open" /\ \E i \in 1..Len(new) : answers'[s][p] = new[i]
    BY <2>2, <2>3, NewOfWritten
  <2> QED
    BY <2>2, <2>3, <2>4
<1>3. CASE RefuseMalformed(s) \/ CallFails(s) \/ RefuseUnknown(s)
  BY <1>2, <1>3 DEF RefuseMalformed, CallFails, RefuseUnknown, Busy
<1>4. CASE AnswerWarmup(s)
  <2> DEFINE new == <<Answer(job[s], "started", WarmupID(history[s])),
                      Answer(job[s], "completed", WarmupID(history[s]))>>
  <2>1. /\ Answer(job[s], "started", WarmupID(history[s])) \in AnswerType
        /\ Answer(job[s], "completed", WarmupID(history[s])) \in AnswerType
    <3>1. Busy(s)
      BY <1>4 DEF AnswerWarmup, Busy
    <3> QED
      BY <3>1, CurrentJob, AnswerTypes DEF HistoriesOK, Terminal
  <2>2. /\ new \in Seq(AnswerType)
        /\ \A i \in 1..Len(new) : new[i].id = WarmupID(history[s]) /\ new[i].what \in {"started", "completed"}
    BY <2>1 DEF Answer
  <2>3. Written(s, new) /\ peer' = peer /\ worker[s] = "warming" /\ UNCHANGED store
    BY <1>4 DEF AnswerWarmup, clientVars
  <2> HIDE DEF new
  <2>4. peer = "open" /\ \E i \in 1..Len(new) : answers'[s][p] = new[i]
    BY <2>2, <2>3, NewOfWritten
  <2> QED
    BY <2>2, <2>3, <2>4
<1>5. CASE Forwards(s)
  <2>1. PICK what \in {"started", "completed", "failed"} :
            Written(s, <<Answer(job[s], what, TurnID(job[s]))>>) /\ stage' = [stage EXCEPT ![s] = what]
    BY <1>5 DEF Forwards, TurnStarted, TurnCompleted, TurnFailed, Forward
  <2>2. peer' = peer /\ job'[s] = job[s] /\ stage'[s] = what /\ Busy(s)
    BY <1>5, <2>1 DEF Forwards, TurnStarted, TurnCompleted, TurnFailed, Forward, clientVars, Busy, WorkersOK
  <2> DEFINE new == <<Answer(job[s], what, TurnID(job[s]))>>
  <2>3. Answer(job[s], what, TurnID(job[s])) \in AnswerType
    BY <2>2, CurrentJob, AnswerTypes DEF Terminal
  <2>4. new \in Seq(AnswerType) /\ \A i \in 1..Len(new) : new[i] = Answer(job[s], what, TurnID(job[s]))
    BY <2>3 DEF Answer
  <2>5. Written(s, new)
    BY <2>1
  <2> HIDE DEF new
  <2>6. peer = "open" /\ \E i \in 1..Len(new) : answers'[s][p] = new[i]
    BY <2>4, <2>5, NewOfWritten
  <2>7. answers'[s][p] = Answer(job[s], what, TurnID(job[s]))
    BY <2>4, <2>6
  <2> QED
    BY <2>2, <2>6, <2>7 DEF Answer
<1>6. answers'[s] # answers[s]
  OBVIOUS
<1>7. ASSUME Work(s) \/ Turn(s)
      PROVE  RefuseMalformed(s) \/ CallFails(s) \/ RefuseUnknown(s) \/ AnswerWarmup(s) \/ Forwards(s)
  BY <1>6, <1>7 DEF Work, Turn, Take, Prepare, Warmup, SaveTurn, WorkerExits, CallStarts, WriteFails, TurnCloses,
     Forwards
<1>8. ASSUME ~\E r \in Streams : Work(r) \/ Turn(r)
      PROVE  ReadUnsupported /\ Frame.stream = s
  <2>1. ReadUnsupported
    BY <1>6, <1>8 DEF Next, SendFrame, Disconnect, Cancel, Reader, ReadFrame, Dispatch, DispatchAborted,
       ReadFails, Return
  <2> QED
    BY <1>6, <2>1 DEF ReadUnsupported, Written, AnswersOK
<1> QED
  BY <1>1, <1>3, <1>4, <1>5, <1>6, <1>7, <1>8, OnlyItsStream

LEMMA AnswersStay ==
    ASSUME TypeInv, Next, NEW s \in Streams, NEW p \in 1..Len(answers[s])
    PROVE  p \in 1..Len(answers'[s]) /\ answers'[s][p] = answers[s][p]
<1>1. CASE answers'[s] = answers[s]
  BY <1>1
<1>2. ASSUME NEW new \in Seq(AnswerType), answers'[s] = answers[s] \o new
      PROVE  p \in 1..Len(answers'[s]) /\ answers'[s][p] = answers[s][p]
  <2>1. answers[s] \in Seq(AnswerType)
    BY DEF TypeInv, AnswersOK
  <2> QED
    BY <1>2, <2>1
<1>3. answers'[s] = answers[s] \/ \E new \in Seq(AnswerType) : answers'[s] = answers[s] \o new
  BY WhatIsWritten, WrittenAnswers DEF WritesFor, TypeInv
<1> QED
  BY <1>1, <1>2, <1>3

LEMMA CompletedStoredStep ==
    ASSUME TypeInv, OrderInv, WarmStored, CompletedStored, Next
    PROVE  CompletedStored'
<1> SUFFICES ASSUME peer' = "open", NEW s \in Streams, NEW p \in 1..Len(answers'[s]),
                    answers'[s][p].what = "completed"
             PROVE  \/ answers'[s][p].id \in DOMAIN store'
                    \/ answers'[s][p].id = TurnID(job'[s]) /\ stage'[s] = "completed"
  BY DEF CompletedStored, TurnID
<1>1. CASE p \in 1..Len(answers[s])
  <2>1. answers'[s][p] = answers[s][p]
    BY <1>1, AnswersStay
  <2>2. peer = "open"
    BY DEF Next, SendFrame, Disconnect, Cancel, Reader, ReadUnsupported, ReadFrame, Dispatch, DispatchAborted,
       ReadFails, Return, Work, Turn, Take, RefuseMalformed, RefuseUnknown, Refuse, Prepare, Warmup,
       AnswerWarmup, SaveTurn, WorkerExits, CallFails, CallStarts, TurnStarted, TurnCompleted, TurnFailed,
       Forward, WriteFails, TurnCloses, clientVars
  <2>3. CASE answers[s][p].id \in DOMAIN store
    BY <2>1, <2>3, StoreGrows
  <2>4. CASE answers[s][p].id = TurnID(job[s]) /\ stage[s] = "completed"
    BY <2>1, <2>2, <2>4, SavedInTheEnd
  <2> QED
    BY <1>1, <2>1, <2>2, <2>3, <2>4 DEF CompletedStored
<1>2. CASE p \notin 1..Len(answers[s])
  BY <1>2, NewAnswers DEF WarmStored
<1> QED
  BY <1>1, <1>2

\* A frame that continues a response was sent by a client that saw it completed.
Continues ==
    \A n \in 1..Len(sent) :
        sent[n].after # 0 =>
            \E s \in Streams : \E p \in 1..Len(answers[s]) :
                /\ answers[s][p].frame = sent[n].after
                /\ answers[s][p].what = "completed"
                /\ answers[s][p].id = sent[n].prev

LEMMA ContinuesStep == ASSUME TypeInv, Continues, Next PROVE Continues'
<1> DEFINE Seen(m, id) ==
        \E s \in Streams : \E p \in 1..Len(answers[s]) :
            /\ answers[s][p].frame = m
            /\ answers[s][p].what = "completed"
            /\ answers[s][p].id = id
<1> DEFINE StillSeen(m, id) ==
        \E s \in Streams : \E p \in 1..Len(answers'[s]) :
            /\ answers'[s][p].frame = m
            /\ answers'[s][p].what = "completed"
            /\ answers'[s][p].id = id
<1>1. ASSUME NEW m, NEW id, Seen(m, id) PROVE StillSeen(m, id)
  BY <1>1, AnswersStay
<1> SUFFICES ASSUME NEW n \in 1..Len(sent'), sent'[n].after # 0
             PROVE  StillSeen(sent'[n].after, sent'[n].prev)
  BY DEF Continues
<1> HIDE DEF StillSeen
<1>2. CASE n \in 1..Len(sent)
  <2>1. Seen(sent[n].after, sent[n].prev) /\ sent'[n] = sent[n] /\ sent[n].after # 0
    BY <1>2, SentKept DEF Continues
  <2> QED
    BY <1>1, <2>1
<1>3. CASE n \notin 1..Len(sent)
  <2>1. sent' # sent
    BY <1>3
  <2>2. PICK s \in Streams, kind \in Kinds, parent \in Parents : SendFrame(s, kind, parent)
    BY <2>1 DEF Next, Disconnect, Cancel, Reader, ReadUnsupported, ReadFrame, Dispatch, DispatchAborted, ReadFails,
       Return, Work, Turn, Take, RefuseMalformed, RefuseUnknown, Refuse, Prepare, Warmup, AnswerWarmup,
       SaveTurn, WorkerExits, CallFails, CallStarts, TurnStarted, TurnCompleted, TurnFailed, Forward,
       WriteFails, TurnCloses, clientVars
  <2> DEFINE frame == [stream |-> s, kind |-> kind, prev |-> parent.prev, after |-> parent.after]
  <2>3. sent' = Append(sent, frame)
    BY <2>2 DEF SendFrame
  <2>4. frame.prev = parent.prev /\ frame.after = parent.after
    OBVIOUS
  <2> HIDE DEF frame
  <2>5. sent'[n] = frame
    BY <1>3, <2>3 DEF TypeInv, FramesOK
  <2>6. PICK c \in Completed : /\ parent.prev = answers[c[1]][c[2]].id
                               /\ parent.after = answers[c[1]][c[2]].frame
    BY <2>4, <2>5 DEF Parents
  <2>7. /\ c[1] \in Streams /\ c[2] \in 1..Len(answers[c[1]])
        /\ answers[c[1]][c[2]].what = "completed"
    BY DEF Completed, TypeInv, AnswersOK
  <2>8. Seen(parent.after, parent.prev)
    BY <2>6, <2>7
  <2> QED
    BY <1>1, <2>4, <2>5, <2>8
<1> QED
  BY <1>2, <1>3

\* Who is told that a response is unknown does not continue one of its stream.
OwnFound ==
    \A s \in Streams : \A p \in 1..Len(answers[s]) :
        LET n == answers[s][p].frame IN
        answers[s][p].what = "not_found"
            => sent[n].after = 0 \/ sent[sent[n].after].stream # sent[n].stream

\* The frame a sent frame continues was sent before.
LEMMA EarlierFrame ==
    ASSUME TypeInv, OrderInv, Owned, Continues, NEW n \in 1..Len(sent), sent[n].after # 0
    PROVE  /\ sent[n].after \in 1..Len(sent)
           /\ \E p \in 1..Len(answers[sent[sent[n].after].stream]) :
                  /\ answers[sent[sent[n].after].stream][p].what = "completed"
                  /\ answers[sent[sent[n].after].stream][p].id = sent[n].prev
<1> PICK s \in Streams : \E p \in 1..Len(answers[s]) :
          /\ answers[s][p].frame = sent[n].after
          /\ answers[s][p].what = "completed"
          /\ answers[s][p].id = sent[n].prev
  BY DEF Continues
<1>1. PICK p \in 1..Len(answers[s]) :
          /\ answers[s][p].frame = sent[n].after
          /\ answers[s][p].what = "completed"
          /\ answers[s][p].id = sent[n].prev
  OBVIOUS
<1>2. answers[s][p].frame \in 1..Len(sent)
  BY Numbers DEF OrderInv, StreamOrder, AnswerOrder, AnswerType, Frames
<1>3. sent[answers[s][p].frame].stream = s
  BY DEF Owned
<1> QED
  BY <1>1, <1>2, <1>3

LEMMA OwnFoundStep ==
    ASSUME TypeInv, OrderInv, Owned, CompletedStored, Continues, OwnFound, Next
    PROVE  OwnFound'
<1> SUFFICES ASSUME NEW s \in Streams, NEW p \in 1..Len(answers'[s]), NEW n, n = answers'[s][p].frame,
                    answers'[s][p].what = "not_found",
                    sent'[n].after # 0, sent'[sent'[n].after].stream = sent'[n].stream
             PROVE  FALSE
  BY DEF OwnFound
<1>1. ASSUME n \in 1..Len(sent)
      PROVE  /\ sent[n].after # 0 /\ sent[n].after \in 1..Len(sent)
             /\ sent[sent[n].after].stream = sent[n].stream
  <2>1. sent'[n] = sent[n]
    BY <1>1, SentKept
  <2>2. sent[n].after \in 1..Len(sent)
    BY <1>1, <2>1, EarlierFrame
  <2> QED
    BY <2>1, <2>2, SentKept
<1>2. CASE p \in 1..Len(answers[s])
  <2>1. answers'[s][p] = answers[s][p]
    BY <1>2, AnswersStay
  <2>2. n \in 1..Len(sent)
    BY <1>2, <2>1, Numbers DEF OrderInv, StreamOrder, AnswerOrder, AnswerType, Frames
  <2> QED
    BY <1>1, <1>2, <2>1, <2>2 DEF OwnFound
<1>3. CASE p \notin 1..Len(answers[s])
  <2>1. peer = "open" /\ RefuseUnknown(s) /\ n = job[s]
    BY <1>3, NewAnswers
  <2>2. job[s] \in 1..Len(sent) /\ worker[s] = "parsing"
    BY <2>1, JobOfAFrame DEF RefuseUnknown, Busy, TypeInv
  <2>3. job[s] # 0 /\ sent[n].stream = s
    BY <2>1, <2>2 DEF Owned
  <2>4. PICK q \in 1..Len(answers[s]) : answers[s][q].what = "completed" /\ answers[s][q].id = sent[n].prev
    <3>1. sent[n].after # 0 /\ sent[sent[n].after].stream = s /\ n \in 1..Len(sent)
      BY <1>1, <2>1, <2>2, <2>3
    <3>2. \E q \in 1..Len(answers[sent[sent[n].after].stream]) :
              /\ answers[sent[sent[n].after].stream][q].what = "completed"
              /\ answers[sent[sent[n].after].stream][q].id = sent[n].prev
      BY <3>1, EarlierFrame
    <3> QED
      BY <3>1, <3>2
  <2>5. answers[s][q].id \in DOMAIN store \/ stage[s] = "completed"
    BY <2>1, <2>4 DEF CompletedStored
  <2>6. stage[s] = "none"
    BY <2>2 DEF OrderInv, StreamOrder, WorkerOrder, TypeInv, WorkersOK
  <2> QED
    BY <2>1, <2>4, <2>5, <2>6 DEF RefuseUnknown, Job
<1> QED
  BY <1>2, <1>3

FoundInv == Owned /\ WarmStored /\ CompletedStored /\ Continues /\ OwnFound

LEMMA FoundInit == ASSUME Init PROVE FoundInv
<1>1. ASSUME NEW s \in Streams PROVE answers[s] = <<>> /\ worker[s] = "none"
  BY DEF Init
<1>2. ASSUME NEW s \in Streams PROVE \A p \in 1..Len(answers[s]) : FALSE
  BY <1>1
<1>3. sent = <<>>
  BY DEF Init
<1>4. \A n \in 1..Len(sent) : FALSE
  BY <1>3
<1> QED
  BY <1>1, <1>2, <1>4, OwnedInit DEF FoundInv, WarmStored, CompletedStored, Continues, OwnFound

LEMMA FoundStep == ASSUME TypeInv, OrderInv, FoundInv, [Next]_vars PROVE FoundInv'
<1>1. CASE Next
  BY <1>1, OwnedStep, WarmStoredStep, CompletedStoredStep, ContinuesStep, OwnFoundStep DEF FoundInv
<1>2. CASE UNCHANGED vars
  BY <1>2 DEF vars, clientVars, readerVars, workerVars, FoundInv, Owned, WarmStored, CompletedStored, Continues,
     OwnFound
<1> QED
  BY <1>1, <1>2

LEMMA FoundAlways == Spec => []FoundInv
<1>1. Init => FoundInv
  BY FoundInit
<1>2. TypeInv /\ OrderInv /\ FoundInv /\ [Next]_vars => FoundInv'
  BY FoundStep
<1> QED
  BY <1>1, <1>2, TypeAlways, OrderAlways, PTL DEF Spec

\* A client that continues, on the same stream, a response it saw completed is
\* never told that the response is unknown: the answer may be on its way before
\* the snapshot is stored, the stream's next frame is not looked at before.
THEOREM OwnResponseIsFound == Spec => []OwnResponseFound
<1>1. TypeInv /\ FoundInv => OwnResponseFound
  <2> SUFFICES ASSUME TypeInv, FoundInv, NEW n \in DOMAIN sent, sent[n].after # 0,
                      sent[sent[n].after].stream = sent[n].stream, NotFound(n)
               PROVE  FALSE
    BY DEF OwnResponseFound
  <2> PICK s \in Streams : \E p \in DOMAIN answers[s] :
          answers[s][p].frame = n /\ answers[s][p].what = "not_found"
    BY DEF NotFound
  <2>1. PICK p \in DOMAIN answers[s] : answers[s][p].frame = n /\ answers[s][p].what = "not_found"
    OBVIOUS
  <2>2. p \in 1..Len(answers[s])
    BY DEF TypeInv, AnswersOK
  <2> QED
    BY <2>1, <2>2 DEF FoundInv, OwnFound
<1> QED
  BY <1>1, TypeAlways, FoundAlways, PTL

-----------------------------------------------------------------------------
(* The conversations. *)

\* What was observed of a reply stays when no worker has its frame.
LEMMA ToldStays ==
    ASSUME TypeInv, Next, NEW m \in Frames,
           (\A s \in Streams : job[s] # m) \/ (\E s \in Streams : SaveTurn(s))
    PROVE  reply'[m] = reply[m] /\ Told(m)' = Told(m) /\ Observed(m)' = Observed(m)
<1>1. reply'[m] = reply[m]
  BY ReplyType
<1> QED
  BY <1>1 DEF Told, Said, Reply, Observed

\* No worker has the frame or will have it.
Past(m) ==
    /\ m \in 1..inbound
    /\ \A s \in Streams : job[s] # m /\ \A i \in 1..Len(queue[s]) : queue[s][i] # m

\* The frame of a stored turn is done with.
StoredPast == \A m \in Frames : TurnID(m) \in DOMAIN store => Past(m)

LEMMA PastStays == ASSUME TypeInv, Next, NEW m \in Frames, Past(m) PROVE Past(m)'
<1>1. m \in 1..inbound'
  BY SentKept, ServerAssumption DEF Past, TypeInv, FramesOK
<1> SUFFICES ASSUME NEW s \in Streams
             PROVE  job'[s] # m /\ \A i \in 1..Len(queue'[s]) : queue'[s][i] # m
  BY <1>1 DEF Past
<1>2. /\ m # 0 /\ m # inbound + 1 /\ job[s] # m /\ queue[s] \in Seq(Frames)
      /\ \A i \in 1..Len(queue[s]) : queue[s][i] # m
  BY DEF Past, TypeInv, FramesOK, QueuesOK
<1>3. job'[s] # m
  <2>1. queue[s] # <<>> => 1 \in 1..Len(queue[s]) /\ Head(queue[s]) = queue[s][1]
    BY <1>2
  <2> QED
    BY <1>2, <2>1, StreamStep
<1>4. ASSUME NEW i \in 1..Len(queue'[s]) PROVE queue'[s][i] # m
  <2>1. CASE queue'[s] = queue[s]
    BY <1>2, <1>4, <2>1
  <2>2. CASE queue'[s] = Tail(queue[s]) /\ queue[s] # <<>>
    <3>1. i + 1 \in 1..Len(queue[s]) /\ queue'[s][i] = queue[s][i + 1]
      BY <1>2, <1>4, <2>2
    <3> QED
      BY <1>2, <3>1
  <2>3. CASE queue'[s] = Append(queue[s], inbound + 1)
    <3>1. (i \in 1..Len(queue[s]) /\ queue'[s][i] = queue[s][i]) \/ queue'[s][i] = inbound + 1
      BY <1>2, <1>4, <2>3
    <3> QED
      BY <1>2, <3>1
  <2> QED
    BY <2>1, <2>2, <2>3, StreamStep
<1> QED
  BY <1>3, <1>4

\* What a step stores: the context of a warm-up, or a turn that is over.
LEMMA StoringSteps ==
    ASSUME Next
    PROVE  \/ UNCHANGED store
           \/ \E s \in Streams : Warmup(s)
           \/ \E s \in Streams : /\ SaveTurn(s) /\ stage[s] \notin {"none", "failed"}
                                 /\ Save(TurnID(job[s]), history[s] \o Collected(s))
BY DEF Next, SendFrame, Disconnect, Cancel, Reader, ReadUnsupported, ReadFrame, Dispatch, DispatchAborted,
   ReadFails, Return, Work, Turn, Take, RefuseMalformed, RefuseUnknown, Refuse, Prepare, SaveTurn,
   AnswerWarmup, WorkerExits, CallFails, CallStarts, TurnStarted, TurnCompleted, TurnFailed,
   Forward, WriteFails, TurnCloses

\* A turn that is stored after a step was stored before, the same, or it is the
\* one a worker saves.
LEMMA StoredTurnStep ==
    ASSUME Next, NEW m \in Frames, TurnID(m) \in DOMAIN store'
    PROVE  \/ TurnID(m) \in DOMAIN store /\ store'[TurnID(m)] = store[TurnID(m)]
           \/ \E s \in Streams : /\ SaveTurn(s) /\ stage[s] \notin {"none", "failed"}
                                 /\ job[s] = m /\ store'[TurnID(m)] = history[s] \o Collected(s)
<1>1. \A messages : TurnID(m) # WarmupID(messages)
  BY DEF TurnID, WarmupID
<1>2. \A n : TurnID(n) = TurnID(m) => n = m
  BY DEF TurnID
<1>3. ASSUME NEW s \in Streams, Warmup(s)
      PROVE  TurnID(m) \in DOMAIN store /\ store'[TurnID(m)] = store[TurnID(m)]
  BY <1>1, <1>3 DEF Warmup, Save
<1>4. ASSUME NEW s \in Streams, SaveTurn(s), stage[s] \notin {"none", "failed"},
             Save(TurnID(job[s]), history[s] \o Collected(s))
      PROVE  \/ TurnID(m) \in DOMAIN store /\ store'[TurnID(m)] = store[TurnID(m)]
             \/ job[s] = m /\ store'[TurnID(m)] = history[s] \o Collected(s)
  BY <1>2, <1>4 DEF Save
<1> QED
  BY <1>3, <1>4, StoringSteps

LEMMA StoredPastStep == ASSUME TypeInv, OrderInv, Owned, StoredPast, Next PROVE StoredPast'
<1> SUFFICES ASSUME NEW m \in Frames, TurnID(m) \in DOMAIN store'
             PROVE  Past(m)'
  BY DEF StoredPast, TurnID
<1>1. ASSUME NEW s \in Streams, SaveTurn(s), job[s] = m PROVE Past(m)'
  <2>1. UNCHANGED <<inbound, queue>> /\ job' = [job EXCEPT ![s] = 0]
    BY <1>1 DEF SaveTurn, Finishes, readerVars
  <2>2. m \in 1..inbound /\ m # 0
    BY <1>1, Numbers, ServerAssumption DEF Frames
  <2>3. ASSUME NEW r \in Streams PROVE job'[r] # m /\ \A i \in 1..Len(queue[r]) : queue[r][i] # m
    <3>1. CASE r = s
      <4>1. job'[r] = 0
        BY <2>1, <3>1 DEF TypeInv, WorkersOK
      <4>2. \A i \in 1..Len(queue[s]) : m < queue[s][i]
        BY <1>1 DEF OrderInv, StreamOrder, QueueOrder
      <4> QED
        BY <2>2, <3>1, <4>1, <4>2
    <3>2. CASE r # s
      <4>1. job'[r] = job[r]
        BY <2>1, <3>2 DEF TypeInv, WorkersOK
      <4>2. sent[m].stream = s
        BY <1>1, <2>2 DEF Owned
      <4> QED
        BY <2>2, <3>2, <4>1, <4>2 DEF Owned
    <3> QED
      BY <3>1, <3>2
  <2> QED
    BY <2>1, <2>2, <2>3 DEF Past
<1>2. CASE TurnID(m) \in DOMAIN store
  BY <1>2, PastStays DEF StoredPast
<1> QED
  BY <1>1, <1>2, StoredTurnStep

-----------------------------------------------------------------------------
(* What is stored of a turn. *)

LEMMA JobAnswers ==
    ASSUME TypeInv, OrderInv, Owned, NEW r \in Streams, Busy(r), stage[r] \in {"none", "started"},
           NEW s \in Streams, NEW p \in 1..Len(answers[s]), answers[s][p].frame = job[r]
    PROVE  answers[s][p].what = "started"
<1>1. job[r] # 0 /\ sent[job[r]].stream = r
  BY DEF Owned, TypeInv, WorkersOK
<1>2. s = r
  BY <1>1 DEF Owned
<1>3. StreamOrder(r) /\ Answerable(job[r])
  BY <1>1 DEF OrderInv, StreamOrder, WorkerOrder
<1>4. Behind(answers[r][p], r)
  BY <1>1, <1>2, <1>3 DEF StreamOrder, AnswerOrder
<1>5. Rank(answers[r][p].what) = 1
  BY <1>2, <1>4, Numbers DEF Behind
<1> QED
  BY <1>2, <1>5 DEF Rank

\* A turn that was cut short is over because its context is.
CutByContext == \A s \in Streams : worker[s] = "saving" /\ stage[s] = "started" => connDone

\* The events of a completed turn.
CompletedTurns ==
    \A r \in Streams : stage[r] = "completed" =>
        \A s \in Streams : \A p \in 1..Len(answers[s]) :
            answers[s][p].frame = job[r] => answers[s][p].what # "failed"

\* What is stored, in the words of StoredIsAnswered.
StoredOK ==
    \A n \in Frames :
        TurnID(n) \in DOMAIN store =>
            /\ \A s \in Streams : \A p \in 1..Len(answers[s]) :
                   answers[s][p].frame = n => answers[s][p].what # "failed"
            /\ \/ connDone \/ Observed(n) = {}
               \/ \E p \in DOMAIN store[TurnID(n)] : store[TurnID(n)][p] = Reply(n, Observed(n))

LEMMA CutByContextStep == ASSUME TypeInv, CutByContext, Next PROVE CutByContext'
<1> SUFFICES ASSUME NEW s \in Streams, worker'[s] = "saving", stage'[s] = "started"
             PROVE  connDone'
  BY DEF CutByContext
<1> USE DEF TypeInv, WorkersOK
<1>1. connDone => connDone'
  BY DEF Next, SendFrame, Disconnect, Cancel, Reader, ReadUnsupported, ReadFrame, Dispatch, DispatchAborted,
     ReadFails, Return, Work, Turn, Take, RefuseMalformed, RefuseUnknown, Refuse, Prepare, Warmup,
     AnswerWarmup, SaveTurn, WorkerExits, CallFails, CallStarts, TurnStarted, TurnCompleted, TurnFailed,
     Forward, WriteFails, TurnCloses
<1>2. CASE worker[s] = "saving" /\ stage[s] = "started"
  BY <1>1, <1>2 DEF CutByContext
<1>3. CASE TurnCloses(s)
  BY <1>3 DEF TurnCloses
<1>4. ASSUME Work(s) \/ Turn(s), ~TurnCloses(s) PROVE FALSE
  BY <1>4 DEF Work, Turn, Take, RefuseMalformed, RefuseUnknown, Refuse, Prepare, Warmup, Proceeds, AnswerWarmup,
     SaveTurn, WorkerExits, CallFails, CallStarts, TurnStarted, TurnCompleted, TurnFailed, Forward, WriteFails,
     Finishes, Becomes
<1>5. CASE ~\E r \in Streams : Work(r) \/ Turn(r)
  BY <1>2, <1>5 DEF Next, SendFrame, Disconnect, Cancel, Reader, ReadUnsupported, ReadFrame, Dispatch,
     DispatchAborted, ReadFails, Return, workerVars
<1> QED
  BY <1>2, <1>3, <1>4, <1>5, OnlyItsStream

\* A turn comes to its completion from its beginning.
LEMMA CompletedBefore ==
    ASSUME TypeInv, OrderInv, Next, NEW s \in Streams, stage'[s] = "completed"
    PROVE  /\ job'[s] = job[s]
           /\ stage[s] = "completed" \/ (stage[s] = "started" /\ worker[s] = "turn")
<1> USE DEF TypeInv, WorkersOK
<1>1. ASSUME Work(s) \/ Turn(s)
      PROVE  /\ job'[s] = job[s] \/ worker[s] = "idle"
             /\ stage[s] = "completed" \/ (stage[s] = "started" /\ worker[s] = "turn")
  BY <1>1 DEF Work, Turn, Take, RefuseMalformed, RefuseUnknown, Refuse, Prepare, Warmup, Proceeds, AnswerWarmup,
     SaveTurn, WorkerExits, CallFails, CallStarts, TurnStarted, TurnCompleted, TurnFailed, Forward, WriteFails,
     TurnCloses, Finishes
<1>2. CASE ~\E r \in Streams : Work(r) \/ Turn(r)
  BY <1>2 DEF Next, SendFrame, Disconnect, Cancel, Reader, ReadUnsupported, ReadFrame, Dispatch,
     DispatchAborted, ReadFails, Return, workerVars
<1>3. worker[s] = "idle" => stage[s] = "none"
  BY DEF OrderInv, StreamOrder, WorkerOrder
<1>4. ASSUME NEW r \in Streams, Work(r) \/ Turn(r), r # s
      PROVE  job'[s] = job[s] /\ stage[s] = "completed"
  BY <1>4, OnlyItsStream
<1> QED
  BY <1>1, <1>2, <1>3, <1>4

LEMMA CompletedTurnsStep ==
    ASSUME TypeInv, OrderInv, Owned, CompletedTurns, Next
    PROVE  CompletedTurns'
<1> SUFFICES ASSUME NEW r \in Streams, stage'[r] = "completed",
                    NEW s \in Streams, NEW p \in 1..Len(answers'[s]),
                    answers'[s][p].frame = job'[r], answers'[s][p].what = "failed"
             PROVE  FALSE
  BY DEF CompletedTurns
<1>1. /\ job'[r] = job[r]
      /\ stage[r] = "completed" \/ (stage[r] = "started" /\ worker[r] = "turn")
  BY CompletedBefore
<1>2. CASE p \in 1..Len(answers[s])
  <2>1. answers'[s][p] = answers[s][p]
    BY <1>2, AnswersStay
  <2> QED
    BY <1>1, <1>2, <2>1, JobAnswers DEF CompletedTurns, Busy
<1>3. CASE p \notin 1..Len(answers[s])
  <2>1. Busy(s) /\ job[s] = job[r] /\ stage'[s] = "failed"
    BY <1>1, <1>3, NewAnswers
  <2>2. job[s] # 0 /\ job[r] # 0
    BY <2>1 DEF TypeInv, WorkersOK
  <2>3. s = r
    BY <2>1, <2>2 DEF Owned
  <2> QED
    BY <2>1, <2>3
<1> QED
  BY <1>2, <1>3

LEMMA StoredOKStep ==
    ASSUME TypeInv, OrderInv, Owned, StoredPast, CutByContext, CompletedTurns, StoredOK, Next
    PROVE  StoredOK'
<1> SUFFICES ASSUME NEW n \in Frames, TurnID(n) \in DOMAIN store'
             PROVE  /\ \A s \in Streams : \A p \in 1..Len(answers'[s]) :
                           answers'[s][p].frame = n => answers'[s][p].what # "failed"
                    /\ \/ connDone' \/ Observed(n)' = {}
                       \/ \E p \in DOMAIN store'[TurnID(n)] : store'[TurnID(n)][p] = Reply(n, Observed(n)')
  BY DEF StoredOK, TurnID, Reply, Observed
<1>1. connDone => connDone'
  BY DEF Next, SendFrame, Disconnect, Cancel, Reader, ReadUnsupported, ReadFrame, Dispatch, DispatchAborted,
     ReadFails, Return, Work, Turn, Take, RefuseMalformed, RefuseUnknown, Refuse, Prepare, Warmup,
     AnswerWarmup, SaveTurn, WorkerExits, CallFails, CallStarts, TurnStarted, TurnCompleted, TurnFailed,
     Forward, WriteFails, TurnCloses
<1>2. CASE TurnID(n) \in DOMAIN store /\ store'[TurnID(n)] = store[TurnID(n)]
  <2>1. ASSUME NEW s \in Streams, NEW p \in 1..Len(answers'[s]), answers'[s][p].frame = n
        PROVE  answers'[s][p].what # "failed"
    <3>1. CASE p \in 1..Len(answers[s])
      BY <1>2, <2>1, <3>1, AnswersStay DEF StoredOK
    <3>2. CASE p \notin 1..Len(answers[s])
      BY <1>2, <2>1, <3>2, NewAnswers DEF StoredPast, Past
    <3> QED
      BY <3>1, <3>2
  <2>2. \A s \in Streams : job[s] # n
    BY <1>2 DEF StoredPast, Past
  <2>3. Observed(n)' = Observed(n)
    BY <2>2, ToldStays
  <2>4. \/ connDone \/ Observed(n) = {}
        \/ \E p \in DOMAIN store[TurnID(n)] : store[TurnID(n)][p] = Reply(n, Observed(n))
    BY <1>2 DEF StoredOK
  <2> QED
    BY <1>1, <1>2, <2>1, <2>3, <2>4
<1>3. ASSUME NEW r \in Streams, SaveTurn(r), stage[r] \notin {"none", "failed"}, job[r] = n,
             store'[TurnID(n)] = history[r] \o Collected(r)
      PROVE  /\ \A s \in Streams : \A p \in 1..Len(answers'[s]) :
                    answers'[s][p].frame = n => answers'[s][p].what # "failed"
             /\ \/ connDone' \/ Observed(n)' = {}
                \/ \E p \in DOMAIN store'[TurnID(n)] : store'[TurnID(n)][p] = Reply(n, Observed(n)')
  <2>1. worker[r] = "saving" /\ Busy(r) /\ answers' = answers
    BY <1>3 DEF SaveTurn, Busy
  <2>2. CASE stage[r] = "started"
    <3>1. connDone
      BY <2>1, <2>2 DEF CutByContext
    <3>2. ASSUME NEW s \in Streams, NEW p \in 1..Len(answers[s]), answers[s][p].frame = n
          PROVE  answers[s][p].what # "failed"
      BY <1>3, <2>1, <2>2, <3>2, JobAnswers
    <3> QED
      BY <1>1, <2>1, <3>1, <3>2
  <2>3. CASE stage[r] = "completed"
    <3>1. \A s \in Streams : \A p \in 1..Len(answers[s]) :
              answers[s][p].frame = n => answers[s][p].what # "failed"
      BY <1>3, <2>3 DEF CompletedTurns
    <3>2. store'[TurnID(n)] = history[r] \o Told(n) /\ Observed(n)' = Observed(n)
      BY <1>3, <2>3, ToldStays DEF Collected
    <3>3. CASE Observed(n) = {}
      BY <2>1, <3>1, <3>2, <3>3
    <3>4. CASE Observed(n) # {}
      <4>1. Told(n) = <<Reply(n, Observed(n))>>
        BY <3>4 DEF Told, Said, Reply
      <4>2. history[r] \in Seq(Messages) /\ Told(n) \in Seq(Messages)
        BY ToldType DEF TypeInv, HistoriesOK
      <4>3. /\ Len(history[r]) + 1 \in DOMAIN store'[TurnID(n)]
            /\ store'[TurnID(n)][Len(history[r]) + 1] = Reply(n, Observed(n))
        BY <3>2, <4>1, <4>2
      <4> QED
        BY <2>1, <3>1, <3>2, <4>3
    <3> QED
      BY <3>3, <3>4
  <2> QED
    BY <1>3, <2>2, <2>3 DEF TypeInv, WorkersOK
<1> QED
  BY <1>2, <1>3, StoredTurnStep

StoredInv == StoredPast /\ CutByContext /\ CompletedTurns /\ StoredOK

LEMMA StoredInit == ASSUME Init PROVE StoredInv
<1>1. DOMAIN store = {}
  BY DEF Init
<1>2. \A s \in Streams : worker[s] = "none" /\ stage[s] = "none"
  BY DEF Init
<1> QED
  BY <1>1, <1>2 DEF StoredInv, StoredPast, CutByContext, CompletedTurns, StoredOK

LEMMA StoredStep == ASSUME TypeInv, OrderInv, Owned, StoredInv, [Next]_vars PROVE StoredInv'
<1>1. CASE Next
  BY <1>1, StoredPastStep, CutByContextStep, CompletedTurnsStep, StoredOKStep DEF StoredInv
<1>2. CASE UNCHANGED vars
  BY <1>2 DEF vars, readerVars, workerVars, StoredInv, StoredPast, Past, CutByContext, CompletedTurns, StoredOK,
     TurnID, Reply, Observed
<1> QED
  BY <1>1, <1>2

LEMMA StoredAlways == Spec => []StoredInv
<1>1. Init => StoredInv
  BY StoredInit
<1>2. TypeInv /\ OrderInv /\ FoundInv /\ StoredInv /\ [Next]_vars => StoredInv'
  BY StoredStep DEF FoundInv
<1> QED
  BY <1>1, <1>2, TypeAlways, OrderAlways, FoundAlways, PTL DEF Spec

\* Only what a model was really answered with is stored: a failed turn never,
\* a reply that was cut short only when its context ended, else what was observed
\* of the whole one (websocket.go:314-323).
THEOREM StoredIsReallyAnswered == Spec => []StoredIsAnswered
<1>1. TypeInv /\ StoredInv => StoredIsAnswered
  <2> SUFFICES ASSUME TypeInv, StoredInv, NEW n \in DOMAIN sent, TurnID(n) \in DOMAIN store
               PROVE  /\ \A s \in Streams : \A p \in DOMAIN answers[s] :
                             answers[s][p].frame = n => answers[s][p].what # "failed"
                      /\ \/ connDone \/ Observed(n) = {}
                         \/ \E p \in DOMAIN store[TurnID(n)] : store[TurnID(n)][p] = Reply(n, Observed(n))
    BY DEF StoredIsAnswered
  <2>1. n \in Frames
    BY ServerAssumption DEF TypeInv, FramesOK, Frames
  <2>2. \A s \in Streams : DOMAIN answers[s] = 1..Len(answers[s])
    BY DEF TypeInv, AnswersOK
  <2> QED
    BY <2>1, <2>2 DEF StoredInv, StoredOK
<1> QED
  BY <1>1, TypeAlways, StoredAlways, PTL

-----------------------------------------------------------------------------
(* What a stateless model is shown. *)

\* A turn that continues another one: the history is the other's, with its reply.
Continuation(n, messages) ==
    LET m == sent[n].after IN
    m # 0 /\ sent[n].prev = TurnID(m)
        => TurnID(m) \in DOMAIN store /\ messages = heard[m] \o Told(m) \o <<Input(n)>>

\* The same after a step.
ToldThen(m) == Said(Reply(m, reply'[m] \ {"redacted"}))

ContinuationThen(n, messages) ==
    LET m == sent'[n].after IN
    m # 0 /\ sent'[n].prev = TurnID(m)
        => TurnID(m) \in DOMAIN store' /\ messages = heard'[m] \o ToldThen(m) \o <<Input(n)>>

HeardTaken == \A n \in Frames : heard[n] # <<>> => n <= inbound

TurnHistory == \A s \in Streams : worker[s] \in {"turn", "saving"} => heard[job[s]] = history[s]

CallHistory == \A s \in Streams : worker[s] = "calling" => Continuation(job[s], history[s])

HeardOK == \A n \in 1..Len(sent) : heard[n] # <<>> => Continuation(n, heard[n])

\* A turn the client saw completed is stored with what its model was shown.
StoredTurns ==
    \A m \in Frames :
        TurnID(m) \in DOMAIN store =>
            \/ store[TurnID(m)] = heard[m] \o Told(m)
            \/ \A s \in Streams : \A p \in 1..Len(answers[s]) :
                   answers[s][p].frame = m => answers[s][p].what # "completed"

LEMMA HeardStep ==
    ASSUME TypeInv, Next, NEW n \in Frames
    PROVE  \/ heard'[n] = heard[n]
           \/ \E s \in Streams : /\ job[s] = n /\ Busy(s)
                                 /\ \/ Warmup(s) /\ heard'[n] = Combined(s)
                                    \/ CallStarts(s) /\ heard'[n] = Shown(s)
<1> USE DEF TypeInv, HistoriesOK
<1>1. ASSUME NEW s \in Streams, Warmup(s)
      PROVE  heard'[n] = heard[n] \/ (job[s] = n /\ Busy(s) /\ heard'[n] = Combined(s))
  BY <1>1 DEF Warmup, Proceeds, Busy
<1>2. ASSUME NEW s \in Streams, CallStarts(s)
      PROVE  heard'[n] = heard[n] \/ (job[s] = n /\ Busy(s) /\ heard'[n] = Shown(s))
  BY <1>2 DEF CallStarts, Busy
<1>3. UNCHANGED heard \/ \E s \in Streams : Warmup(s) \/ CallStarts(s)
  BY DEF Next, SendFrame, Disconnect, Cancel, Reader, ReadUnsupported, ReadFrame, Dispatch, DispatchAborted,
     ReadFails, Return, Work, Turn, Take, RefuseMalformed, RefuseUnknown, Refuse, Prepare,
     AnswerWarmup, SaveTurn, WorkerExits, CallFails, TurnStarted, TurnCompleted, TurnFailed,
     Forward, WriteFails, TurnCloses
<1> QED
  BY <1>1, <1>2, <1>3

LEMMA HeardTakenStep == ASSUME TypeInv, HeardTaken, Next PROVE HeardTaken'
<1> SUFFICES ASSUME NEW n \in Frames, heard'[n] # <<>>
             PROVE  n <= inbound'
  BY DEF HeardTaken
<1>1. inbound \in Nat /\ inbound' \in Nat /\ inbound <= inbound' /\ n \in Nat
  BY SentKept, ServerAssumption DEF TypeInv, FramesOK, Frames
<1>2. CASE heard'[n] = heard[n]
  BY <1>1, <1>2 DEF HeardTaken
<1>3. ASSUME NEW s \in Streams, job[s] = n PROVE n <= inbound'
  BY <1>1, <1>3, Numbers
<1> QED
  BY <1>2, <1>3, HeardStep

\* What a model was shown in the turn of a busy worker is not touched by others.
LEMMA HeardOfOthers ==
    ASSUME TypeInv, Owned, Next, NEW s \in Streams, Busy(s), ~Warmup(s), ~CallStarts(s)
    PROVE  heard'[job[s]] = heard[job[s]]
<1>1. job[s] \in Frames /\ job[s] # 0
  BY CurrentJob DEF TypeInv, WorkersOK
<1>2. ASSUME NEW r \in Streams, job[r] = job[s], r # s PROVE FALSE
  BY <1>1, <1>2 DEF Owned
<1> QED
  BY <1>1, <1>2, HeardStep

LEMMA TurnHistoryStep ==
    ASSUME TypeInv, Owned, upstream = "stateless", TurnHistory, Next
    PROVE  TurnHistory'
<1> SUFFICES ASSUME NEW s \in Streams, worker'[s] \in {"turn", "saving"}
             PROVE  heard'[job'[s]] = history'[s]
  BY DEF TurnHistory
<1> USE DEF TypeInv, WorkersOK, HistoriesOK
<1>1. CASE CallStarts(s)
  <2>1. Busy(s) /\ UNCHANGED <<job, history>> /\ heard' = [heard EXCEPT ![job[s]] = Shown(s)]
    BY <1>1 DEF CallStarts, Busy
  <2>2. job[s] \in Frames /\ Shown(s) = history[s]
    BY <2>1, CurrentJob DEF Shown
  <2> QED
    BY <2>1, <2>2
<1>2. CASE worker[s] \in {"turn", "saving"} /\ job'[s] = job[s] /\ history'[s] = history[s]
  <2>1. Busy(s) /\ ~Warmup(s) /\ ~CallStarts(s)
    BY <1>2 DEF Busy, Warmup, Proceeds, CallStarts
  <2> QED
    BY <1>2, <2>1, HeardOfOthers DEF TurnHistory
<1>3. ASSUME Work(s) \/ Turn(s), ~CallStarts(s)
      PROVE  worker[s] \in {"turn", "saving"} /\ job'[s] = job[s] /\ history'[s] = history[s]
  BY <1>3 DEF Work, Turn, Take, RefuseMalformed, RefuseUnknown, Refuse, Prepare, Warmup, Proceeds, AnswerWarmup,
     SaveTurn, WorkerExits, CallFails, TurnStarted, TurnCompleted, TurnFailed, Forward, WriteFails,
     TurnCloses, Finishes, Becomes
<1>4. ASSUME NEW r \in Streams, Work(r) \/ Turn(r), r # s
      PROVE  worker[s] \in {"turn", "saving"} /\ job'[s] = job[s] /\ history'[s] = history[s]
  <2>1. history'[s] = history[s]
    BY <1>4 DEF Work, Turn, Take, RefuseMalformed, RefuseUnknown, Refuse, Prepare, Warmup, AnswerWarmup, SaveTurn,
       WorkerExits, CallFails, CallStarts, TurnStarted, TurnCompleted, TurnFailed, Forward, WriteFails,
       TurnCloses, Finishes
  <2> QED
    BY <1>4, <2>1, OnlyItsStream
<1>5. CASE ~\E r \in Streams : Work(r) \/ Turn(r)
  BY <1>2, <1>5 DEF Next, SendFrame, Disconnect, Cancel, Reader, ReadUnsupported, ReadFrame, Dispatch,
     DispatchAborted, ReadFails, Return, workerVars
<1> QED
  BY <1>1, <1>2, <1>3, <1>4, <1>5

LEMMA NewFrames ==
    ASSUME TypeInv, Next, NEW s \in Streams, NEW p \in 1..Len(answers'[s]), p \notin 1..Len(answers[s])
    PROVE  answers'[s][p].frame = job[s] \/ answers'[s][p].frame = inbound + 1
<1>1. answers'[s] # answers[s]
  OBVIOUS
<1>2. PICK n \in Frames, new \in Seq(AnswerType) : WritesFor(s, n, new)
  BY <1>1, WhatIsWritten, WrittenAnswers DEF WritesFor, TypeInv
<1>3. answers'[s][p].frame = n
  BY <1>2, WrittenPositions DEF WritesFor, TypeInv
<1> QED
  BY <1>2, <1>3 DEF WritesFor

LEMMA StoredTurnsStep ==
    ASSUME TypeInv, OrderInv, Owned, StoredPast, upstream = "stateless", TurnHistory, StoredTurns, Next
    PROVE  StoredTurns'
<1> SUFFICES ASSUME NEW m \in Frames, TurnID(m) \in DOMAIN store'
             PROVE  \/ store'[TurnID(m)] = heard'[m] \o Told(m)'
                    \/ \A s \in Streams : \A p \in 1..Len(answers'[s]) :
                           answers'[s][p].frame = m => answers'[s][p].what # "completed"
  BY DEF StoredTurns, TurnID
<1>1. CASE TurnID(m) \in DOMAIN store /\ store'[TurnID(m)] = store[TurnID(m)]
  <2>1. \A s \in Streams : job[s] # m
    BY <1>1 DEF StoredPast, Past
  <2>2. heard'[m] = heard[m] /\ Told(m)' = Told(m)
    BY <2>1, HeardStep, ToldStays
  <2>3. ASSUME NEW s \in Streams, NEW p \in 1..Len(answers'[s]), answers'[s][p].frame = m
        PROVE  p \in 1..Len(answers[s]) /\ answers'[s][p] = answers[s][p]
    <3>1. CASE p \notin 1..Len(answers[s])
      <4>1. answers'[s][p].frame = job[s] \/ answers'[s][p].frame = inbound + 1
        BY <3>1, NewFrames
      <4>2. m # inbound + 1
        BY <1>1 DEF StoredPast, Past, TypeInv, FramesOK
      <4> QED
        BY <2>1, <2>3, <4>1, <4>2
    <3> QED
      BY <3>1, AnswersStay
  <2> QED
    BY <1>1, <2>2, <2>3 DEF StoredTurns
<1>2. ASSUME NEW r \in Streams, SaveTurn(r), stage[r] \notin {"none", "failed"}, job[r] = m,
             store'[TurnID(m)] = history[r] \o Collected(r)
      PROVE  \/ store'[TurnID(m)] = heard'[m] \o Told(m)'
             \/ \A s \in Streams : \A p \in 1..Len(answers'[s]) :
                    answers'[s][p].frame = m => answers'[s][p].what # "completed"
  <2>1. worker[r] = "saving" /\ Busy(r) /\ answers' = answers /\ heard' = heard
    BY <1>2 DEF SaveTurn, Busy
  <2>2. CASE stage[r] = "completed"
    <3>1. Told(m)' = Told(m)
      BY <1>2, ToldStays
    <3> QED
      BY <1>2, <2>1, <2>2, <3>1 DEF Collected, TurnHistory
  <2>3. CASE stage[r] = "started"
    <3>1. ASSUME NEW s \in Streams, NEW p \in 1..Len(answers[s]), answers[s][p].frame = m
          PROVE  answers[s][p].what # "completed"
      BY <1>2, <2>1, <2>3, <3>1, JobAnswers
    <3> QED
      BY <2>1, <3>1
  <2> QED
    BY <1>2, <2>2, <2>3 DEF TypeInv, WorkersOK
<1> QED
  BY <1>1, <1>2, StoredTurnStep

\* What is continued is stored, and is not worked at any more.
LEMMA ContinuationStays ==
    ASSUME TypeInv, StoredPast, Next, NEW n \in 1..Len(sent), NEW messages, Continuation(n, messages)
    PROVE  ContinuationThen(n, messages)
<1> DEFINE m == sent[n].after
<1>1. sent'[n] = sent[n]
  BY SentKept
<1>2. m \in {0} \cup Frames
  <2>1. sent[n] \in FrameType
    BY DEF TypeInv, FramesOK
  <2> QED
    BY <2>1 DEF FrameType
<1>3. ASSUME m # 0, sent[n].prev = TurnID(m)
      PROVE  TurnID(m) \in DOMAIN store' /\ messages = heard'[m] \o ToldThen(m) \o <<Input(n)>>
  <2>1. TurnID(m) \in DOMAIN store /\ messages = heard[m] \o Told(m) \o <<Input(n)>>
    BY <1>3 DEF Continuation
  <2>2. m \in Frames
    BY <1>2, <1>3
  <2>3. \A s \in Streams : job[s] # m
    BY <2>1, <2>2 DEF StoredPast, Past
  <2>4. heard'[m] = heard[m] /\ ToldThen(m) = Told(m)
    BY <2>2, <2>3, HeardStep, ToldStays DEF ToldThen, Told, Observed
  <2> QED
    BY <2>1, <2>4, StoreGrows
<1> QED
  BY <1>1, <1>3 DEF ContinuationThen

\* The messages a stateless upstream is sent are those of a continuation.
LEMMA CombinedContinues ==
    ASSUME TypeInv, OrderInv, Owned, Continues, upstream = "stateless", StoredTurns,
           NEW s \in Streams, Proceeds(s)
    PROVE  Continuation(job[s], Combined(s))
<1> DEFINE n == job[s]
           m == sent[n].after
<1>1. n \in 1..Len(sent) /\ n \in Frames /\ m \in {0} \cup Frames
  <2>1. Busy(s)
    BY DEF Proceeds, Busy
  <2> QED
    BY <2>1, CurrentJob, JobOfAFrame DEF TypeInv, FrameType, Job
<1>2. ASSUME m # 0, sent[n].prev = TurnID(m)
      PROVE  TurnID(m) \in DOMAIN store /\ Combined(s) = heard[m] \o Told(m) \o <<Input(n)>>
  <2>1. TurnID(m) \in DOMAIN store
    BY <1>2 DEF Proceeds, Job, NoResponse, TurnID
  <2>2. m \in Frames
    BY <1>1, <1>2
  <2>3. \E r \in Streams : \E p \in 1..Len(answers[r]) :
            answers[r][p].frame = m /\ answers[r][p].what = "completed"
    BY <1>1, <1>2 DEF Continues
  <2>4. store[TurnID(m)] = heard[m] \o Told(m)
    BY <2>1, <2>2, <2>3 DEF StoredTurns
  <2> QED
    BY <1>2, <2>1, <2>4 DEF Combined, Job
<1> QED
  BY <1>2 DEF Continuation

LEMMA CallHistoryStep ==
    ASSUME TypeInv, OrderInv, Owned, Continues, StoredPast, upstream = "stateless", StoredTurns,
           CallHistory, Next
    PROVE  CallHistory'
<1> SUFFICES ASSUME NEW s \in Streams, worker'[s] = "calling"
             PROVE  ContinuationThen(job'[s], history'[s])
  BY DEF CallHistory, Continuation, ContinuationThen, TurnID, Told, ToldThen, Observed, Reply, Input
<1> USE DEF TypeInv, WorkersOK, HistoriesOK
<1>1. CASE Prepare(s)
  <2>1. Proceeds(s) /\ job'[s] = job[s] /\ history'[s] = Combined(s)
    BY <1>1 DEF Prepare
  <2>2. job[s] \in 1..Len(sent)
    <3>1. Busy(s)
      BY <2>1 DEF Proceeds, Busy
    <3> QED
      BY <3>1, JobOfAFrame
  <2>3. Continuation(job[s], Combined(s))
    BY <2>1, CombinedContinues
  <2>4. ContinuationThen(job[s], Combined(s))
    BY <2>2, <2>3, ContinuationStays
  <2> QED
    BY <2>1, <2>4
<1>2. CASE worker[s] = "calling" /\ job'[s] = job[s] /\ history'[s] = history[s]
  <2>1. job[s] \in 1..Len(sent)
    <3>1. Busy(s)
      BY <1>2 DEF Busy
    <3> QED
      BY <3>1, JobOfAFrame
  <2>2. ContinuationThen(job[s], history[s])
    BY <1>2, <2>1, ContinuationStays DEF CallHistory
  <2> QED
    BY <1>2, <2>2
<1>3. ASSUME Work(s) \/ Turn(s), ~Prepare(s) PROVE FALSE
  BY <1>3 DEF Work, Turn, Take, RefuseMalformed, RefuseUnknown, Refuse, Warmup, Proceeds, AnswerWarmup,
     SaveTurn, WorkerExits, CallFails, CallStarts, TurnStarted, TurnCompleted, TurnFailed, Forward, WriteFails,
     TurnCloses, Finishes, Becomes
<1>4. ASSUME NEW r \in Streams, Work(r) \/ Turn(r), r # s
      PROVE  worker[s] = "calling" /\ job'[s] = job[s] /\ history'[s] = history[s]
  <2>1. history'[s] = history[s]
    BY <1>4 DEF Work, Turn, Take, RefuseMalformed, RefuseUnknown, Refuse, Prepare, Warmup, AnswerWarmup, SaveTurn,
       WorkerExits, CallFails, CallStarts, TurnStarted, TurnCompleted, TurnFailed, Forward, WriteFails,
       TurnCloses, Finishes
  <2> QED
    BY <1>4, <2>1, OnlyItsStream
<1>5. CASE ~\E r \in Streams : Work(r) \/ Turn(r)
  BY <1>2, <1>5 DEF Next, SendFrame, Disconnect, Cancel, Reader, ReadUnsupported, ReadFrame, Dispatch,
     DispatchAborted, ReadFails, Return, workerVars
<1> QED
  BY <1>1, <1>2, <1>3, <1>4, <1>5

LEMMA HeardOKStep ==
    ASSUME TypeInv, OrderInv, Owned, Continues, StoredPast, upstream = "stateless", StoredTurns,
           CallHistory, HeardTaken, HeardOK, Next
    PROVE  HeardOK'
<1> SUFFICES ASSUME NEW n \in 1..Len(sent'), heard'[n] # <<>>
             PROVE  ContinuationThen(n, heard'[n])
  BY DEF HeardOK, Continuation, ContinuationThen, TurnID, Told, ToldThen, Observed, Reply, Input
<1>1. n \in Frames
  <2>1. FramesOK'
    BY FramesType
  <2> QED
    BY <2>1, ServerAssumption DEF FramesOK, Frames
<1>2. CASE heard'[n] = heard[n]
  <2>1. n \in 1..Len(sent)
    BY <1>1, <1>2, ServerAssumption DEF HeardTaken, TypeInv, FramesOK, Frames
  <2>2. Continuation(n, heard[n])
    BY <1>2, <2>1 DEF HeardOK
  <2>3. ContinuationThen(n, heard[n])
    BY <2>1, <2>2, ContinuationStays
  <2> QED
    BY <1>2, <2>3
<1>3. ASSUME NEW s \in Streams, job[s] = n, Busy(s), Warmup(s), heard'[n] = Combined(s)
      PROVE  ContinuationThen(n, heard'[n])
  <2>1. n \in 1..Len(sent)
    BY <1>3, JobOfAFrame DEF TypeInv
  <2>2. Continuation(n, Combined(s))
    BY <1>3, CombinedContinues DEF Warmup
  <2>3. ContinuationThen(n, Combined(s))
    BY <2>1, <2>2, ContinuationStays
  <2> QED
    BY <1>3, <2>3
<1>4. ASSUME NEW s \in Streams, job[s] = n, Busy(s), CallStarts(s), heard'[n] = Shown(s)
      PROVE  ContinuationThen(n, heard'[n])
  <2>1. n \in 1..Len(sent)
    BY <1>4, JobOfAFrame DEF TypeInv
  <2>2. Shown(s) = history[s] /\ Continuation(n, history[s])
    BY <1>4 DEF Shown, CallStarts, CallHistory
  <2>3. ContinuationThen(n, history[s])
    BY <2>1, <2>2, ContinuationStays
  <2> QED
    BY <1>4, <2>2, <2>3
<1> QED
  BY <1>1, <1>2, <1>3, <1>4, HeardStep

ContextInv ==
    /\ HeardTaken
    /\ upstream = "stateless" => TurnHistory /\ CallHistory /\ HeardOK /\ StoredTurns

LEMMA ContextInit == ASSUME Init PROVE ContextInv
<1>1. HeardTaken
  BY DEF Init, HeardTaken
<1>2. DOMAIN store = {} /\ \A s \in Streams : worker[s] = "none"
  BY DEF Init
<1>3. sent = <<>>
  BY DEF Init
<1>4. \A n \in 1..Len(sent) : FALSE
  BY <1>3
<1> QED
  BY <1>1, <1>2, <1>4 DEF ContextInv, TurnHistory, CallHistory, HeardOK, StoredTurns

LEMMA ContextStep ==
    ASSUME TypeInv, OrderInv, FoundInv, StoredInv, ContextInv, [Next]_vars
    PROVE  ContextInv'
<1>1. upstream' = upstream
  BY DEF vars, Next, SendFrame, Disconnect, Cancel, Reader, ReadUnsupported, ReadFrame, Dispatch, DispatchAborted,
     ReadFails, Return, Work, Turn, Take, RefuseMalformed, RefuseUnknown, Refuse, Prepare, Warmup,
     AnswerWarmup, SaveTurn, WorkerExits, CallFails, CallStarts, TurnStarted, TurnCompleted, TurnFailed,
     Forward, WriteFails, TurnCloses
<1>2. CASE Next
  BY <1>1, <1>2, HeardTakenStep, TurnHistoryStep, CallHistoryStep, HeardOKStep, StoredTurnsStep
     DEF ContextInv, FoundInv, StoredInv
<1>3. CASE UNCHANGED vars
  BY <1>3 DEF vars, clientVars, readerVars, workerVars, ContextInv, HeardTaken, TurnHistory, CallHistory, HeardOK,
     StoredTurns, Continuation, TurnID, Told, Observed, Reply, Input
<1> QED
  BY <1>2, <1>3

LEMMA ContextAlways == Spec => []ContextInv
<1>1. Init => ContextInv
  BY ContextInit
<1>2. TypeInv /\ OrderInv /\ FoundInv /\ StoredInv /\ ContextInv /\ [Next]_vars => ContextInv'
  BY ContextStep
<1> QED
  BY <1>1, <1>2, TypeAlways, OrderAlways, FoundAlways, StoredAlways, PTL DEF Spec

\* A turn that continues another turn shows a stateless model what that turn
\* showed it, the reply without its redacted thinking (no message when nothing
\* else is in it) and the new message, in this order and nothing else, however
\* the turns of other streams interleave (websocket.go:228-248, 315-323, 340-421).
THEOREM TurnsContinue == Spec => []ContinuesTurn
<1>1. TypeInv /\ ContextInv => ContinuesTurn
  <2> SUFFICES ASSUME TypeInv, ContextInv, NEW n \in DOMAIN sent, upstream = "stateless", heard[n] # <<>>,
                      sent[n].after # 0, sent[n].prev = TurnID(sent[n].after)
               PROVE  heard[n] = heard[sent[n].after] \o Told(sent[n].after) \o <<Input(n)>>
    BY DEF ContinuesTurn
  <2>1. n \in 1..Len(sent)
    BY DEF TypeInv, FramesOK
  <2> QED
    BY <2>1 DEF ContextInv, HeardOK, Continuation
<1> QED
  BY <1>1, TypeAlways, ContextAlways, PTL
=============================================================================
