---------------------------- MODULE WebSocketCall ----------------------------
(***************************************************************************)
(* One call of the Responses adapter over a WebSocket                       *)
(* (provider/openai/responses/websocket.go): the goroutine of               *)
(* chatViaWebSocket ("main"), its guard, which closes the connection when   *)
(* the context is cancelled, the caller that reads its channel, as          *)
(* completeViaWebSocket does, and the upstream.  What the frames of a reply *)
(* mean is ResponsesAdapter's.                                              *)
(*                                                                          *)
(* main and guard have a place `at'.  A goroutine that writes waits for the *)
(* lock ("locking"), writes ("writing") the frame `opcode' and then goes on *)
(* to `then'.                                                               *)
(***************************************************************************)
EXTENDS WsConn

CONSTANTS NoID, NoIndex,
          ChannelCap,    (* bound: the capacity of the event channel (64)      *)
          MaxFrames      (* bound: the frames the peer sends                   *)

Adapter == INSTANCE ResponsesAdapter

VARIABLES cancelled,  (* the context is done                                   *)
          deadline,   (* the connection's deadline, that of the context        *)
          main, guard,
          a,          (* what the adapter keeps between frames                 *)
          sending,    (* the types of the events main sends before it goes on  *)
          channel,    (* and of those in the event channel                     *)
          result,     (* what the caller returns: "none", "error", "ok"        *)
          spoken,     (* history: the whole messages of the peer to be read    *)
          speaking,   (* the part it has sent of the next one                  *)
          sent,       (* the number of its frames                              *)
          misheard    (* history: ReadMessage returned another message         *)

peerVars == <<spoken, speaking, sent>>
vars == <<connVars, cancelled, deadline, main, guard, a, sending, channel, result, misheard, peerVars>>
TheRest == <<cancelled, result, peerVars>>

Place(at, opcode, then) == [at |-> at, opcode |-> opcode, then |-> then]
At(place) == Place(place, "none", "none")
Writing(opcode, then) == Place("locking", opcode, then)
Closing(then) == Place("closing", "close", then)

Init ==
    /\ ConnInit
    /\ cancelled = FALSE
    /\ deadline \in BOOLEAN
    /\ main = At("dialing")
    /\ guard = At("none")
    /\ a = Adapter!NewResponses
    /\ sending = <<>>
    /\ channel = <<>>
    /\ result = "none"
    /\ spoken = <<>>
    /\ speaking = <<>>
    /\ sent = 0
    /\ misheard = FALSE

-----------------------------------------------------------------------------
(* main. *)

Free(place) == main.at = place /\ sending = <<>>

\* Sends the events, then goes to a place.
Sends(events, place) ==
    /\ sending' = [i \in DOMAIN events |-> events[i].type]
    /\ main' = place

\* The goroutine that dials is the one that sends the error.  No connection is made
\* for a context that is done.
Dial ==
    /\ Free("dialing")
    /\ \/ ~cancelled /\ Connects /\ Sends(<<>>, At("handshaking"))
       \/ UNCHANGED connVars /\ Sends(<<Adapter!ErrorEvent>>, At("over"))
    /\ UNCHANGED <<TheRest, deadline, guard, a, channel, misheard>>

\* A handshake that is answered clears the deadline of the connection.
Handshake ==
    /\ Free("handshaking")
    /\ \/ /\ answer = "accepted"
          /\ UNCHANGED connVars
          /\ Sends(<<>>, Writing("text", "reading"))
          /\ guard' = At("waiting")
       \/ /\ HandshakeRefused
          /\ UNCHANGED connVars
          /\ Sends(<<>>, At("refused"))
          /\ UNCHANGED guard
       \/ /\ HandshakeFails(deadline /\ cancelled)
          /\ Abandons
          /\ Sends(<<Adapter!ErrorEvent>>, At("over"))
          /\ UNCHANGED guard
    /\ deadline' = FALSE
    /\ UNCHANGED <<TheRest, a, channel, misheard>>

\* The HandshakeError carries the body.
Refusal ==
    /\ Free("refused") /\ BodyEnds
    /\ Abandons
    /\ Sends(<<Adapter!ErrorEvent>>, At("over"))
    /\ UNCHANGED <<TheRest, deadline, guard, a, channel, misheard>>

\* A write that fails: of the request it is told, of a pong it is ignored.
Failed(place) ==
    IF place.opcode = "text" THEN Sends(<<Adapter!ErrorEvent>>, Closing("over"))
    ELSE Sends(<<>>, IF place.opcode = "close" THEN Closing(place.then) ELSE At(place.then))

Written(place) ==
    Sends(<<>>, IF place.opcode = "close" THEN Closing(place.then) ELSE At(place.then))

MainWrites ==
    /\ \/ Free("locking") /\ Locks("main")
            /\ main' = [main EXCEPT !.at = "writing"] /\ UNCHANGED sending
       \/ Free("locking") /\ FindsClosed /\ UNCHANGED connVars /\ Failed(main)
       \/ Free("writing") /\ WritesAndUnlocks(main.opcode) /\ Written(main)
       \/ Free("writing") /\ WriteFails /\ Failed(main)
    /\ UNCHANGED <<TheRest, deadline, guard, a, channel, misheard>>

\* conn.Close by main, for a close frame of the peer or when it returns.
MainCloses ==
    /\ \/ Free("closing") /\ MarksClosed("main") /\ main' = [main EXCEPT !.at = "last frame"]
       \/ Free("closing") /\ FindsClosed /\ UNCHANGED connVars /\ main' = [main EXCEPT !.at = "last"]
       \/ Free("last frame") /\ (WritesAndUnlocks("close") \/ WriteFails)
            /\ main' = [main EXCEPT !.at = "last"]
       \/ Free("last") /\ ClosesSocket /\ main' = At(main.then)
    /\ UNCHANGED <<TheRest, deadline, guard, a, sending, channel, misheard>>

\* ReadMessage, by the frame: a close frame is answered, then the connection is
\* closed and the read ends with EOF.
MainReads ==
    /\ Free("reading") /\ Arrives
    /\ LET f == Head(inbound)
           r == Adapter!WebSocketFrame(a, f.message)
           Next(then) == CASE then = "read" -> At("reading")
                           [] then = "end" -> At("ending")
                           [] OTHER -> Closing("over")
       IN  \/ /\ Refused(f)
              /\ Takes(<<>>)
              /\ Sends(<<>>, At("broken"))
              /\ UNCHANGED <<a, misheard, spoken>>
           \/ /\ f.opcode \in {"ping", "pong", "close"}
              /\ Takes(fragments)
              /\ Sends(<<>>, CASE f.opcode = "ping" -> Writing("pong", "reading")
                               [] f.opcode = "close" -> Writing("close", "ending")
                               [] OTHER -> At("reading"))
              /\ UNCHANGED <<a, misheard, spoken>>
           \/ /\ IsData(f) /\ ~Refused(f) /\ ~f.fin
              /\ Takes(Assembled(f))
              /\ UNCHANGED <<main, sending, a, misheard, spoken>>
           \/ /\ Completes(f)
              /\ Takes(<<>>)
              /\ spoken' = Tail(spoken)
              /\ misheard' = (misheard \/ Assembled(f) # Head(spoken))
              /\ IF f.message.type = "foreign" THEN UNCHANGED <<main, sending, a>>
                 ELSE a' = r.a /\ Sends(r.out, Next(r.then))
    /\ UNCHANGED <<cancelled, deadline, result, sent, speaking, guard, channel>>

MainReadFails ==
    /\ Free("reading")
    /\ \E eof \in BOOLEAN :
          ReadFails(eof) /\ Sends(<<>>, At(IF eof THEN "ending" ELSE "broken"))
    /\ UNCHANGED <<TheRest, deadline, guard, a, channel, misheard>>

\* After the loop: a reply that was cut off is ended like a whole one.
MainEnds ==
    /\ Free("ending") \/ Free("broken")
    /\ Sends(Adapter!ResponsesEnd(a, main.at = "broken", "stop"), Closing("over"))
    /\ UNCHANGED <<connVars, TheRest, deadline, guard, a, channel, misheard>>

\* Each send is a choice between the channel and the context.
MainSends ==
    /\ sending # <<>>
    /\ \/ /\ Len(channel) < ChannelCap
          /\ channel' = Append(channel, Head(sending))
          /\ sending' = Tail(sending)
          /\ UNCHANGED main
       \/ /\ cancelled
          /\ sending' = <<>>
          /\ main' = IF main.at = "over" THEN main ELSE Closing("over")
          /\ UNCHANGED channel
    /\ UNCHANGED <<connVars, TheRest, deadline, guard, a, misheard>>

-----------------------------------------------------------------------------
(* The guard.  It may be told to go when main returns, or close first.          *)

Over == main.at = "over" /\ sending = <<>>
Returning == Over \/ (main.then = "over" /\ sending = <<>>)

\* Mutant: the guard goes and leaves the connection open.
GuardLeaves == At("gone")

GuardCloses == Closing("gone")

Guard ==
    /\ \/ guard.at = "waiting" /\ cancelled /\ UNCHANGED connVars /\ guard' = GuardCloses
       \/ guard.at = "waiting" /\ Returning /\ UNCHANGED connVars /\ guard' = At("gone")
       \/ guard.at = "closing" /\ MarksClosed("guard") /\ guard' = [guard EXCEPT !.at = "last frame"]
       \/ guard.at = "closing" /\ FindsClosed /\ UNCHANGED connVars /\ guard' = [guard EXCEPT !.at = "last"]
       \/ guard.at = "last frame" /\ (WritesAndUnlocks("close") \/ WriteFails)
            /\ guard' = [guard EXCEPT !.at = "last"]
       \/ guard.at = "last" /\ ClosesSocket /\ guard' = At("gone")
    /\ UNCHANGED <<TheRest, deadline, main, a, sending, channel, misheard>>

-----------------------------------------------------------------------------
(* The caller returns at an error, or when the channel is closed. *)

Consume ==
    /\ result = "none"
    /\ \/ /\ channel # <<>>
          /\ channel' = Tail(channel)
          /\ result' = IF Head(channel) = "error" THEN "error" ELSE "none"
       \/ /\ channel = <<>> /\ Over
          /\ result' = "ok"
          /\ UNCHANGED channel
    /\ UNCHANGED <<connVars, cancelled, deadline, main, guard, a, sending, misheard, peerVars>>

Cancel ==
    /\ ~cancelled
    /\ cancelled' = TRUE
    /\ UNCHANGED <<connVars, deadline, main, guard, a, sending, channel, result, misheard, peerVars>>

-----------------------------------------------------------------------------
(* The upstream: it may stop reading or answering for good, and leave any time. *)

Message(t) ==
    IF t = "completed" THEN [type |-> t, usage |-> FALSE, calls |-> FALSE] ELSE [type |-> t]

Frame(opcode, fin, message) == [opcode |-> opcode, fin |-> fin, message |-> message]

\* A message is one frame or two, with control frames between them.
NextFrames ==
    (IF speaking = <<>>
     THEN {Frame("text", fin, Message(t)) :
              fin \in BOOLEAN, t \in {"created", "completed", "error", "foreign"}}
     ELSE {Frame("cont", TRUE, speaking[1].message)})
        \cup {Frame(opcode, TRUE, [type |-> "none"]) : opcode \in {"ping", "close", "unsupported"}}

PeerAnswers ==
    /\ \/ answer = "none" /\ answer' \in {"accepted", "mismatched", "refusing"}
       \/ answer = "refusing" /\ answer' = "refused"
    /\ UNCHANGED <<peerGone, socket, inbound, spoken, speaking, sent>>

PeerReads ==
    /\ socket # <<>>
    /\ socket' = Tail(socket)
    /\ UNCHANGED <<answer, peerGone, inbound, spoken, speaking, sent>>

PeerSends ==
    /\ answer = "accepted" /\ sent < MaxFrames /\ Len(inbound) < SocketCap
    /\ sent' = sent + 1
    /\ \E f \in NextFrames :
          /\ inbound' = Append(inbound, f)
          /\ speaking' = IF IsData(f) THEN (IF f.fin THEN <<>> ELSE <<f>>) ELSE speaking
          /\ spoken' = IF IsData(f) /\ f.fin THEN Append(spoken, Append(speaking, f)) ELSE spoken
    /\ UNCHANGED <<answer, peerGone, socket>>

PeerLeaves ==
    /\ peerGone' = TRUE
    /\ UNCHANGED <<answer, socket, inbound, spoken, speaking, sent>>

Peer ==
    /\ net = "open" /\ ~peerGone
    /\ PeerAnswers \/ PeerReads \/ PeerSends \/ PeerLeaves
    /\ UNCHANGED <<net, closed, lock, written, fragments, cancelled, deadline, main, guard, a,
                   sending, channel, result, misheard>>

-----------------------------------------------------------------------------

Main ==
    \/ Dial
    \/ Handshake
    \/ Refusal
    \/ MainWrites
    \/ MainCloses
    \/ MainReads
    \/ MainReadFails
    \/ MainEnds
    \/ MainSends

Next ==
    \/ Main
    \/ Guard
    \/ Consume
    \/ Cancel
    \/ Peer

Spec == Init /\ [][Next]_vars

\* The scheduler runs every goroutine that can go on, and the caller reads its
\* channel (`for ev := range ch'); nothing is assumed of the upstream.
FairSpec == Spec /\ WF_vars(Main) /\ WF_vars(Guard) /\ WF_vars(Consume)
-----------------------------------------------------------------------------
(* Properties. *)

\* After a close frame nothing but a second close frame is written, whoever of
\* reader, writer and guard closed the connection (ws.go:311-320, 377-385).
NothingAfterClose == written # "late"

\* ReadMessage returns the messages of the peer whole, once and in order, and never
\* refuses a part of one, whatever control frames come between their fragments
\* (ws.go:257-299).
MessagesWhole ==
    /\ ~misheard
    /\ Free("reading") /\ Arrives /\ IsData(Head(inbound)) => ~Refused(Head(inbound))

Ended == Over /\ result # "none"

\* The upstream does not answer the handshake of a call without a deadline, or
\* refuses it and does not end the body, deadline or not; or it does not read,
\* and whoever writes holds the lock that Close waits for.
Stuck ==
    \/ main.at = "handshaking" /\ answer = "none" /\ ~deadline
    \/ main.at = "refused" /\ answer = "refusing"
    \/ lock # Nobody /\ ~Room /\ net = "open"

\* A call whose context is cancelled comes to an end, closes its channel and
\* lets the caller go, unless it is stuck for ever (websocket.go:138-150).
CancelEnds == (cancelled ~> Ended) \/ <>[]Stuck

\* The context "controls timeout and cancellation of the connection, the TLS
\* handshake and the upgrade request as a whole" (ws.go:73): a call that is
\* cancelled does not stay in Dial.
Dialing == main.at \in {"dialing", "handshaking", "refused"}
DialCancelled == cancelled ~> ~Dialing

\* A call whose upstream leaves, at whatever point, comes to an end too.
LeavingEnds == peerGone ~> Ended
==============================================================================
