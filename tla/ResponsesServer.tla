---------------------------- MODULE ResponsesServer ----------------------------
(***************************************************************************)
(* relay.ServeResponsesWebSocketConn (bamboo/relay/websocket.go): one      *)
(* client connection that multiplexes named streams.  A reader takes the   *)
(* client's frames, one worker per stream answers those of its stream, all *)
(* share a store of conversation snapshots and a connection context.       *)
(*                                                                         *)
(* reader: "reading", "dispatching" (a frame to a queue), "exiting" (the   *)
(*         deferred calls: cancel, close the queues, wait), "returned"     *)
(* worker: "none", "idle", "parsing", "warming" (answers a warm-up),       *)
(*         "calling" (client.Chat), "turn" (forwards events), "saving",    *)
(*         "exited"                                                        *)
(*                                                                         *)
(* A reply is two events, "started" (response.created and the first        *)
(* output) and "completed" or "failed" (the rest).  The blocks they open   *)
(* are "redacted" thinking or "text", which stands for text, thinking and  *)
(* tool use.  What ChatStream shows of client.Chat is used here: a started *)
(* reply ends unless the context is done, and then it may end at any point *)
(* without an error event.                                                 *)
(***************************************************************************)
EXTENDS Naturals, Sequences

CONSTANTS Streams,    (* the stream ids the client uses                      *)
          QueueCap,   (* capacity of a stream's queue (32 in the code)       *)
          MaxFrames,  (* bound: frames the client sends                      *)
          Kinds,      (* the kinds of frames the client sends                *)
          Replies,    (* the sets of blocks that an event of a reply opens   *)
          Upstreams   (* "stateless", "native": the providers behind it      *)

ASSUME ServerAssumption ==
    /\ QueueCap \in Nat \ {0}
    /\ MaxFrames \in Nat
    /\ Kinds \subseteq {"turn", "warmup", "malformed", "unsupported"}
    /\ Replies \subseteq SUBSET {"text", "redacted"}
    /\ Upstreams \subseteq {"stateless", "native"}

VARIABLES upstream,   (* a stateless provider, or openai-responses itself    *)
          sent,       (* the frames the client sent, frame n at position n   *)
          inbound,    (* how many of them the reader took                    *)
          peer,       (* "open" or "gone": the client's end                  *)
          reader, queue, worker, job, stage,
          history,    (* req.Messages of the job, earlier turns included     *)
          store,      (* response id -> messages                             *)
          ctxDone,    (* the caller's context is done                        *)
          connDone,   (* the connection's context is done                    *)
          answers,    (* per stream: what was written for it                 *)
          heard,      (* what the model was shown in the turn of a frame     *)
          reply,      (* the blocks of the reply to a frame, as far as it went *)
          mute        (* frames whose upstream reply had no event at all     *)

clientVars == <<sent, peer>>
readerVars == <<inbound, reader>>
workerVars == <<worker, job, stage, history>>
vars == <<upstream, clientVars, readerVars, queue, workerVars, store, ctxDone, connDone,
          answers, heard, reply, mute>>

Frames == 1..MaxFrames

\* Response ids: a turn's comes from the clock or the upstream and is fresh.
NoResponse == <<"none", 0>>
Unknown == <<"unknown", 0>>
TurnID(n) == <<"turn", n>>
WarmupID(messages) == <<"warmup", Len(messages) + 1>>
ResponseIDs == {"none", "unknown", "turn", "warmup"} \X Nat

BlockKinds == {"text", "redacted"}

\* A message: whose frame it belongs to and, of an assistant, its blocks.
Input(n) == <<"input", n, {}>>
Reply(n, blocks) == <<"reply", n, blocks>>
CutReply(n, blocks) == <<"cut", n, blocks>>
Messages == {"input", "reply", "cut"} \X Frames \X SUBSET BlockKinds

\* No message is made of no blocks.
Said(message) == IF message[3] = {} THEN <<>> ELSE <<message>>

Answer(n, what, id) == [frame |-> n, what |-> what, id |-> id]

Init ==
    /\ upstream \in Upstreams
    /\ sent = <<>>
    /\ inbound = 0
    /\ peer = "open"
    /\ reader = "reading"
    /\ queue = [s \in Streams |-> <<>>]
    /\ worker = [s \in Streams |-> "none"]
    /\ job = [s \in Streams |-> 0]
    /\ stage = [s \in Streams |-> "none"]
    /\ history = [s \in Streams |-> <<>>]
    /\ store = [id \in {} |-> <<>>]
    /\ ctxDone = FALSE
    /\ connDone = FALSE
    /\ answers = [s \in Streams |-> <<>>]
    /\ heard = [n \in Frames |-> <<>>]
    /\ reply = [n \in Frames |-> {}]
    /\ mute = {}

-----------------------------------------------------------------------------
(* The client, and the caller's context. *)

Completed == {c \in Streams \X (1..MaxFrames * 2) :
                 c[2] \in DOMAIN answers[c[1]] /\ answers[c[1]][c[2]].what = "completed"}

\* A frame continues a response the client saw completed, on whatever stream,
\* one nobody knows, or none.  "after" is the frame of the continued response.
Parents ==
    {[prev |-> NoResponse, after |-> 0], [prev |-> Unknown, after |-> 0]}
        \cup {[prev |-> answers[c[1]][c[2]].id, after |-> answers[c[1]][c[2]].frame] :
                 c \in Completed}

SendFrame(s, kind, parent) ==
    /\ peer = "open"
    /\ Len(sent) < MaxFrames
    /\ kind \in {"malformed", "unsupported"} => parent.prev = NoResponse
    /\ sent' = Append(sent, [stream |-> s, kind |-> kind, prev |-> parent.prev,
                             after |-> parent.after])
    /\ UNCHANGED <<upstream, peer, readerVars, queue, workerVars, store, ctxDone,
                   connDone, answers, heard, reply, mute>>

Disconnect ==
    /\ peer = "open"
    /\ peer' = "gone"
    /\ UNCHANGED <<upstream, sent, readerVars, queue, workerVars, store, ctxDone,
                   connDone, answers, heard, reply, mute>>

Cancel ==
    /\ ~ctxDone
    /\ ctxDone' = TRUE
    /\ connDone' = TRUE
    /\ UNCHANGED <<upstream, clientVars, readerVars, queue, workerVars, store, answers,
                   heard, reply, mute>>

\* A write reaches a client that is there; one that is gone loses it, or its
\* connection refuses the write.  Assumed: the client reads, so that no write
\* waits for it (WriteText has no deadline and holds the lock of all streams).
Written(s, new) ==
    answers' = IF peer = "open" THEN [answers EXCEPT ![s] = @ \o new] ELSE answers

-----------------------------------------------------------------------------
(* The reader. *)

Frame == sent[inbound + 1]

\* A frame of another type than response.create is answered on the spot.
ReadUnsupported ==
    /\ reader = "reading" /\ inbound < Len(sent)
    /\ Frame.kind = "unsupported"
    /\ inbound' = inbound + 1
    /\ Written(Frame.stream, <<Answer(inbound + 1, "error", NoResponse)>>)
    /\ UNCHANGED <<upstream, clientVars, reader, queue, workerVars, store, ctxDone,
                   connDone, heard, reply, mute>>

\* dispatchTask: the queue and the worker of a stream are made at its first frame.
ReadFrame ==
    /\ reader = "reading" /\ inbound < Len(sent)
    /\ Frame.kind # "unsupported"
    /\ reader' = "dispatching"
    /\ worker' = [worker EXCEPT ![Frame.stream] = IF @ = "none" THEN "idle" ELSE @]
    /\ UNCHANGED <<upstream, clientVars, inbound, queue, job, stage, history, store,
                   ctxDone, connDone, answers, heard, reply, mute>>

\* Mutant: a frame that finds the queue full is dropped (select with default).
DispatchOrDrop ==
    /\ reader = "dispatching"
    /\ queue' = IF Len(queue[Frame.stream]) < QueueCap
                THEN [queue EXCEPT ![Frame.stream] = Append(@, inbound + 1)]
                ELSE queue
    /\ inbound' = inbound + 1
    /\ reader' = "reading"
    /\ UNCHANGED <<upstream, clientVars, workerVars, store, ctxDone, connDone, answers,
                   heard, reply, mute>>

\* Mutant: the queue grows as it needs to.
DispatchUnbounded ==
    /\ reader = "dispatching"
    /\ queue' = [queue EXCEPT ![Frame.stream] = Append(@, inbound + 1)]
    /\ inbound' = inbound + 1
    /\ reader' = "reading"
    /\ UNCHANGED <<upstream, clientVars, workerVars, store, ctxDone, connDone, answers,
                   heard, reply, mute>>

Dispatch ==
    /\ reader = "dispatching"
    /\ Len(queue[Frame.stream]) < QueueCap
    /\ queue' = [queue EXCEPT ![Frame.stream] = Append(@, inbound + 1)]
    /\ inbound' = inbound + 1
    /\ reader' = "reading"
    /\ UNCHANGED <<upstream, clientVars, workerVars, store, ctxDone, connDone, answers,
                   heard, reply, mute>>

\* The select may take this branch also when there is room.
DispatchAborted ==
    /\ reader = "dispatching"
    /\ connDone
    /\ inbound' = inbound + 1
    /\ reader' = "reading"
    /\ UNCHANGED <<upstream, clientVars, queue, workerVars, store, ctxDone, connDone,
                   answers, heard, reply, mute>>

\* Mutant: the deferred function closes the queues without cancelling.
ReadFailsOnly ==
    /\ reader = "reading"
    /\ peer = "gone"
    /\ reader' = "exiting"
    /\ UNCHANGED <<upstream, clientVars, inbound, queue, workerVars, store, ctxDone,
                   connDone, answers, heard, reply, mute>>

\* EOF, a close frame or a connection error.  A reset loses frames on their way.
ReadFails ==
    /\ reader = "reading"
    /\ peer = "gone"
    /\ reader' = "exiting"
    /\ connDone' = TRUE
    /\ UNCHANGED <<upstream, clientVars, inbound, queue, workerVars, store, ctxDone,
                   answers, heard, reply, mute>>

Return ==
    /\ reader = "exiting"
    /\ \A s \in Streams : worker[s] \in {"none", "exited"}
    /\ reader' = "returned"
    /\ UNCHANGED <<upstream, clientVars, inbound, queue, workerVars, store, ctxDone,
                   connDone, answers, heard, reply, mute>>

Reader == ReadUnsupported \/ ReadFrame \/ Dispatch \/ DispatchAborted \/ ReadFails \/ Return

-----------------------------------------------------------------------------
(* A worker: handleResponsesWSFrame for one frame after the other. *)

Job(s) == sent[job[s]]

Becomes(s, pc) == worker' = [worker EXCEPT ![s] = pc]

\* handleResponsesWSFrame returns, its variables are gone.
Finishes(s) ==
    /\ Becomes(s, "idle")
    /\ job' = [job EXCEPT ![s] = 0]
    /\ stage' = [stage EXCEPT ![s] = "none"]
    /\ history' = [history EXCEPT ![s] = <<>>]

\* Mutant: the frame that came last is taken first.
TakeLast(s) ==
    /\ worker[s] = "idle" /\ queue[s] # <<>>
    /\ Becomes(s, "parsing")
    /\ job' = [job EXCEPT ![s] = queue[s][Len(queue[s])]]
    /\ queue' = [queue EXCEPT ![s] = SubSeq(@, 1, Len(@) - 1)]
    /\ UNCHANGED <<upstream, clientVars, readerVars, stage, history, store, ctxDone,
                   connDone, answers, heard, reply, mute>>

Take(s) ==
    /\ worker[s] = "idle" /\ queue[s] # <<>>
    /\ Becomes(s, "parsing")
    /\ job' = [job EXCEPT ![s] = Head(queue[s])]
    /\ queue' = [queue EXCEPT ![s] = Tail(@)]
    /\ UNCHANGED <<upstream, clientVars, readerVars, stage, history, store, ctxDone,
                   connDone, answers, heard, reply, mute>>

\* An error event and nothing else answers the frame.
Refuse(s, what) ==
    /\ Finishes(s)
    /\ Written(s, <<Answer(job[s], what, NoResponse)>>)
    /\ UNCHANGED <<upstream, clientVars, readerVars, queue, store,
                   ctxDone, connDone, heard, reply, mute>>

RefuseMalformed(s) ==
    /\ worker[s] = "parsing"
    /\ Job(s).kind = "malformed"
    /\ Refuse(s, "error")

\* A response that is not in the store is an error in front of a stateless
\* upstream.
RefuseUnknown(s) ==
    /\ worker[s] = "parsing"
    /\ Job(s).kind # "malformed"
    /\ Job(s).prev \notin {NoResponse} \cup DOMAIN store
    /\ upstream = "stateless"
    /\ Refuse(s, "not_found")

\* The messages of a request: the stored history, when there is one, comes first.
Combined(s) ==
    (IF Job(s).prev \in DOMAIN store THEN store[Job(s).prev] ELSE <<>>) \o <<Input(job[s])>>

\* ResponsesSessionStore.Save: whatever was stored under the id is replaced.
Save(id, messages) ==
    store' = [k \in DOMAIN store \cup {id} |-> IF k = id THEN messages ELSE store[k]]

Proceeds(s) ==
    /\ worker[s] = "parsing"
    /\ Job(s).kind # "malformed"
    /\ upstream = "native" \/ Job(s).prev \in {NoResponse} \cup DOMAIN store

Prepare(s) ==
    /\ Proceeds(s)
    /\ Job(s).kind = "turn"
    /\ Becomes(s, "calling")
    /\ history' = [history EXCEPT ![s] = Combined(s)]
    /\ UNCHANGED <<upstream, clientVars, readerVars, queue, job, stage, store, ctxDone,
                   connDone, answers, heard, reply, mute>>

\* generate: false.  Nothing is generated, the context is stored.
Warmup(s) ==
    /\ Proceeds(s)
    /\ Job(s).kind = "warmup"
    /\ Becomes(s, "warming")
    /\ history' = [history EXCEPT ![s] = Combined(s)]
    /\ Save(WarmupID(Combined(s)), Combined(s))
    /\ heard' = [heard EXCEPT ![job[s]] = Combined(s)]
    /\ UNCHANGED <<upstream, clientVars, readerVars, queue, job, stage, ctxDone, connDone,
                   answers, reply, mute>>

AnswerWarmup(s) ==
    /\ worker[s] = "warming"
    /\ Finishes(s)
    /\ Written(s, <<Answer(job[s], "started", WarmupID(history[s])),
                    Answer(job[s], "completed", WarmupID(history[s]))>>)
    /\ UNCHANGED <<upstream, clientVars, readerVars, queue, store,
                   ctxDone, connDone, heard, reply, mute>>

\* client.Chat returned an error, which it also does once the context is done.
CallFails(s) ==
    /\ worker[s] = "calling"
    /\ Refuse(s, "error")

\* What a model that is sent the messages of a request gets to see: the native
\* upstream resolves the previous_response_id it is also sent by itself, with all
\* it replied, and refuses one it did not make.
Shown(s) ==
    IF upstream = "native" /\ Job(s).after # 0
    THEN heard[Job(s).after] \o Said(Reply(Job(s).after, reply[Job(s).after])) \o history[s]
    ELSE history[s]

CallStarts(s) ==
    /\ worker[s] = "calling"
    /\ upstream = "native" => Job(s).prev \in {NoResponse, TurnID(Job(s).after)}
    /\ Becomes(s, "turn")
    /\ heard' = [heard EXCEPT ![job[s]] = Shown(s)]
    /\ UNCHANGED <<upstream, clientVars, readerVars, queue, job, stage, history, store,
                   ctxDone, connDone, answers, reply, mute>>

\* One event of the reply, with the blocks it opens, forwarded to the client.
Forward(s, from, what) ==
    /\ worker[s] = "turn"
    /\ stage[s] \in from
    /\ stage' = [stage EXCEPT ![s] = what]
    /\ \E opened \in Replies : reply' = [reply EXCEPT ![job[s]] = @ \cup opened]
    /\ Written(s, <<Answer(job[s], what, TurnID(job[s]))>>)
    /\ UNCHANGED <<upstream, clientVars, readerVars, queue, worker, job, history, store,
                   ctxDone, connDone, heard, mute>>

TurnStarted(s) == Forward(s, {"none"}, "started")
TurnCompleted(s) == Forward(s, {"started"}, "completed")
TurnFailed(s) == Forward(s, {"started"}, "failed")

\* A refused write ends the handler, the turn is not stored.
WriteFails(s) ==
    /\ worker[s] = "turn"
    /\ peer = "gone"
    /\ Finishes(s)
    /\ UNCHANGED <<upstream, clientVars, readerVars, queue, store,
                   ctxDone, connDone, answers, heard, reply, mute>>

\* The channel of client.Chat is closed: after the end of the reply, without
\* any event (an upstream with an empty body), or because the context is done.
TurnCloses(s) ==
    /\ worker[s] = "turn"
    /\ stage[s] \in {"none", "completed", "failed"} \/ connDone
    /\ Becomes(s, "saving")
    /\ mute' = IF stage[s] = "none" THEN mute \cup {job[s]} ELSE mute
    /\ UNCHANGED <<upstream, clientVars, readerVars, queue, job, stage, history, store,
                   ctxDone, connDone, answers, heard, reply>>

\* What assistantTurnCollector observes of a reply: it has no case for a block
\* of redacted thinking.
Observed(n) == reply[n] \ {"redacted"}

\* Mutant: a message is made of no blocks, too.
CollectedAlways(s) ==
    <<IF stage[s] = "completed" THEN Reply(job[s], Observed(job[s]))
      ELSE CutReply(job[s], Observed(job[s]))>>

\* The message it builds of that; none of a reply in which it observed no block.
Told(n) == Said(Reply(n, Observed(n)))

Collected(s) ==
    IF stage[s] = "completed" THEN Told(job[s])
    ELSE Said(CutReply(job[s], Observed(job[s])))

\* Mutant: a turn is stored whether or not it failed.
SaveAnyTurn(s) ==
    /\ worker[s] = "saving"
    /\ Finishes(s)
    /\ IF stage[s] # "none"
       THEN Save(TurnID(job[s]), history[s] \o Collected(s))
       ELSE UNCHANGED store
    /\ UNCHANGED <<upstream, clientVars, readerVars, queue, ctxDone,
                   connDone, answers, heard, reply, mute>>

\* Mutant: a turn is stored only while the context lasts.
SaveWhileConnected(s) ==
    /\ worker[s] = "saving"
    /\ Finishes(s)
    /\ IF stage[s] \notin {"none", "failed"} /\ ~connDone
       THEN Save(TurnID(job[s]), history[s] \o Collected(s))
       ELSE UNCHANGED store
    /\ UNCHANGED <<upstream, clientVars, readerVars, queue, ctxDone, connDone, answers,
                   heard, reply, mute>>

\* The snapshot is stored when the channel was closed, unless there was an error.
SaveTurn(s) ==
    /\ worker[s] = "saving"
    /\ Finishes(s)
    /\ IF stage[s] \notin {"none", "failed"}
       THEN Save(TurnID(job[s]), history[s] \o Collected(s))
       ELSE UNCHANGED store
    /\ UNCHANGED <<upstream, clientVars, readerVars, queue, ctxDone,
                   connDone, answers, heard, reply, mute>>

\* Mutant: workers end with the caller's context only, the queues stay open.
WorkerExitsOnCancel(s) ==
    /\ worker[s] = "idle" /\ queue[s] = <<>>
    /\ reader = "exiting" /\ ctxDone
    /\ Becomes(s, "exited")
    /\ UNCHANGED <<upstream, clientVars, readerVars, queue, job, stage, history, store,
                   ctxDone, connDone, answers, heard, reply, mute>>

\* The closed queue is drained first.
WorkerExits(s) ==
    /\ worker[s] = "idle" /\ queue[s] = <<>>
    /\ reader = "exiting"
    /\ Becomes(s, "exited")
    /\ UNCHANGED <<upstream, clientVars, readerVars, queue, job, stage, history, store,
                   ctxDone, connDone, answers, heard, reply, mute>>

\* What a worker does by itself, and what it needs the upstream for.
Work(s) ==
    \/ Take(s)
    \/ RefuseMalformed(s)
    \/ RefuseUnknown(s)
    \/ Prepare(s)
    \/ Warmup(s)
    \/ AnswerWarmup(s)
    \/ SaveTurn(s)
    \/ WorkerExits(s)

Turn(s) ==
    \/ CallFails(s)
    \/ CallStarts(s)
    \/ TurnStarted(s)
    \/ TurnCompleted(s)
    \/ TurnFailed(s)
    \/ WriteFails(s)
    \/ TurnCloses(s)

Next ==
    \/ \E s \in Streams, kind \in Kinds, parent \in Parents : SendFrame(s, kind, parent)
    \/ Disconnect
    \/ Cancel
    \/ Reader
    \/ \E s \in Streams : Work(s) \/ Turn(s)

Spec == Init /\ [][Next]_vars

\* The goroutines run, and a turn whose context is done comes to its end (the
\* CancelEnds of ChatStream).  That the client reads what is written to it is
\* assumed in Written, and nothing else of the client or the caller.
FairSpec ==
    /\ Spec
    /\ WF_vars(Reader)
    /\ \A s \in Streams :
          /\ WF_vars(Work(s))
          /\ WF_vars(connDone /\ (CallFails(s) \/ TurnCloses(s)))

\* An upstream that brings every reply to its end.
UpstreamEnds == \A s \in Streams : WF_vars(Turn(s))

-----------------------------------------------------------------------------
(* Properties. *)

Terminal == {"completed", "failed", "error", "not_found"}

AnswerType == [frame : Frames,
               what : {"started"} \cup Terminal,
               id : ResponseIDs]

\* The values of the variables, a queue that never holds more than it can, and
\* no turn that runs on without its frame.
TypeOK ==
    /\ upstream \in Upstreams
    /\ sent \in Seq([stream : Streams, kind : Kinds, prev : ResponseIDs, after : {0} \cup Frames])
    /\ Len(sent) <= MaxFrames /\ inbound \in 0..Len(sent)
    /\ peer \in {"open", "gone"}
    /\ reader \in {"reading", "dispatching", "exiting", "returned"}
    /\ queue \in [Streams -> Seq(Frames)]
    /\ \A s \in Streams : Len(queue[s]) <= QueueCap
    /\ worker \in [Streams -> {"none", "idle", "parsing", "warming", "calling", "turn",
                               "saving", "exited"}]
    /\ job \in [Streams -> {0} \cup Frames]
    /\ \A s \in Streams : worker[s] \notin {"none", "idle", "exited"} => job[s] # 0
    /\ stage \in [Streams -> {"none", "started", "completed", "failed"}]
    /\ history \in [Streams -> Seq(Messages)]
    /\ DOMAIN store \subseteq ResponseIDs /\ \A id \in DOMAIN store : store[id] \in Seq(Messages)
    /\ ctxDone \in BOOLEAN /\ connDone \in BOOLEAN
    /\ answers \in [Streams -> Seq(AnswerType)]
    /\ heard \in [Frames -> Seq(Messages)]
    /\ reply \in [Frames -> SUBSET BlockKinds]
    /\ mute \in SUBSET Frames

\* Per stream the frames the workers answer are answered one after the other,
\* in the order the client sent them, and every one at most once
\* (websocket.go:98, 119: FIFO within a channel).
Rank(what) == IF what = "started" THEN 1 ELSE 2

InOrder ==
    \A s \in Streams : \A p, q \in DOMAIN answers[s] :
        LET a == answers[s][p]
            b == answers[s][q]
        IN  p < q /\ sent[a.frame].kind # "unsupported" /\ sent[b.frame].kind # "unsupported"
                => a.frame < b.frame \/ (a.frame = b.frame /\ Rank(a.what) < Rank(b.what))

\* A turn that continues another turn shows a stateless model what that turn
\* showed it, the reply without its redacted thinking (no message when nothing
\* else is in it) and the new message, in this order and nothing else, however
\* the turns of other streams interleave (websocket.go:228-248, 315-323, 340-421).
\* It is less than the "complete conversation history" of websocket.go:24.
ContinuesTurn ==
    \A n \in DOMAIN sent :
        LET m == sent[n].after IN
        upstream = "stateless" /\ heard[n] # <<>> /\ m # 0 /\ sent[n].prev = TurnID(m)
            => heard[n] = heard[m] \o Told(m) \o <<Input(n)>>

\* A client that continues, on the same stream, a response it saw completed is
\* never told that the response is unknown.
NotFound(n) ==
    \E s \in Streams : \E p \in DOMAIN answers[s] :
        answers[s][p].frame = n /\ answers[s][p].what = "not_found"

OwnResponseFound ==
    \A n \in DOMAIN sent :
        sent[n].after # 0 /\ sent[sent[n].after].stream = sent[n].stream => ~NotFound(n)

\* The same for a continuation on any stream: "supports forking across
\* stream_id" (websocket.go:25).
ForkFound == \A n \in DOMAIN sent : sent[n].after # 0 => ~NotFound(n)

\* A snapshot is not replaced: "forking across stream_id (snapshots are
\* immutable)" (websocket.go:25).
SnapshotsImmutable ==
    [][\A id \in DOMAIN store : id \in DOMAIN store' /\ store'[id] = store[id]]_vars

\* Only what a model was really answered with is stored: a failed turn never,
\* a reply that was cut short only when its context ended, else what was
\* observed of the whole one.
StoredIsAnswered ==
    \A n \in DOMAIN sent :
        TurnID(n) \in DOMAIN store =>
            /\ \A s \in Streams : \A p \in DOMAIN answers[s] :
                   answers[s][p].frame = n => answers[s][p].what # "failed"
            /\ \/ connDone \/ Observed(n) = {}
               \/ \E p \in DOMAIN store[TurnID(n)] : store[TurnID(n)][p] = Reply(n, Observed(n))

\* Every frame is answered with an end (completed, failed, error) unless the
\* connection or its context is over or the upstream's reply is empty: a queue
\* that is full delays frames and loses none.
Answered(n) ==
    \E s \in Streams : \E p \in DOMAIN answers[s] :
        answers[s][p].frame = n /\ answers[s][p].what \in Terminal

EveryFrameAnswered ==
    UpstreamEnds =>
        \A n \in Frames :
            n \in DOMAIN sent ~> (Answered(n) \/ peer = "gone" \/ ctxDone \/ n \in mute)

\* Once the reader saw the end of the connection the call returns, whatever the
\* upstreams of the turns in flight do, and no worker is left behind.
ExitReturns ==
    (reader = "exiting") ~> (reader = "returned" /\ \A s \in Streams : worker[s] \in {"none", "exited"})

\* A client that left makes the call return when upstreams end their replies.
DisconnectReturns == UpstreamEnds => ((peer = "gone") ~> (reader = "returned"))
===============================================================================
