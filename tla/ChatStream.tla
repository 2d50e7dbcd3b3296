------------------------------ MODULE ChatStream ------------------------------
(***************************************************************************)
(* client.Chat (bamboo/bamboo.go:64-185): the goroutine of the provider    *)
(* adapter, its bounded channel, the peek at the first event, the goroutine *)
(* that converts and forwards, the bounded channel of the caller, the idle *)
(* ping, a context that may be cancelled at any time, and a caller that    *)
(* reads with StreamClient's strictness.                                   *)
(*                                                                         *)
(* pump:     "none"      Chat still peeks, or failed synchronously         *)
(*           "writing"   writeAll is about to check ctx.Err()              *)
(*           "selecting" writeEvent waits for room or for ctx.Done()       *)
(*           "waiting"   the main select: ticker or provider channel       *)
(*           "recovering" Convert panicked                                 *)
(*           "gone"      the goroutine returned and closed the channel     *)
(* producer: "reading"   the adapter reads the upstream and sends events   *)
(*           "ending"    only a made-up stop and Done are left to send     *)
(*           "draining"  the adapter returned, its deferred calls read the *)
(*                       rest of the response body                         *)
(*           "closed"    the provider channel is closed                    *)
(***************************************************************************)
EXTENDS StreamConverter, StreamClient

CONSTANTS ProviderCap, (* capacity of the provider channel (64 in the code)    *)
          OutCap,      (* capacity of the caller's channel (64 in the code)    *)
          MaxEvents,   (* bound: events the provider sends                     *)
          MaxPings,    (* bound: pings the ticker asks for                     *)
          Chatty       (* whether the adapter reads on after an error frame    *)

ASSUME ChatAssumption ==
    /\ ProviderCap \in Nat \ {0}
    /\ OutCap \in Nat \ {0}
    /\ MaxEvents \in Nat
    /\ MaxPings \in Nat
    /\ Chatty \in BOOLEAN

VARIABLES chat,          (* "peeking", "failed" or "streaming"                *)
          pump, last,    (* last: the goroutine returns after this batch      *)
          out,           (* the caller's channel                              *)
          producer, providerCh,
          stage,         (* "silent", "live" or "failed": what was sent       *)
          stopSent,      (* the adapter sent a finish reason                  *)
          sent, pings,   (* events sent and pings asked for                   *)
          upstreamOpen,  (* the upstream has not closed the response body     *)
          cancelled,     (* the context is done                               *)
          lateWrites,    (* history: events written after the cancellation    *)
          early,         (* history: cancelled before the end was converted   *)
          chatter        (* history: content was sent after an error          *)

chatVars == <<chat, pump, last, out>>
providerVars == <<producer, providerCh, stage, stopSent, sent, chatter>>
vars == <<converterVars, clientVars, chatVars, providerVars, pings, upstreamOpen,
          cancelled, lateWrites, early>>

Init ==
    /\ ConverterInit
    /\ ClientInit
    /\ chat = "peeking" /\ pump = "none" /\ last = FALSE /\ out = <<>>
    /\ producer = "reading" /\ providerCh = <<>> /\ stage = "silent"
    /\ stopSent = FALSE /\ sent = 0 /\ pings = 0
    /\ upstreamOpen = TRUE
    /\ cancelled = FALSE
    /\ lateWrites = 0 /\ early = FALSE /\ chatter = FALSE

OutClosed == pump = "gone"

-----------------------------------------------------------------------------
(* The provider's goroutine. *)

Send(e, next) ==
    /\ producer \in {"reading", "ending"}
    /\ Len(providerCh) < ProviderCap
    /\ providerCh' = Append(providerCh, e)
    /\ sent' = sent + 1
    /\ producer' = next
    /\ UNCHANGED <<converterVars, clientVars, chatVars, pings, upstreamOpen,
                   cancelled, lateWrites, early>>

\* Content of the frame that was read.
SendFrames ==
    /\ producer = "reading"
    /\ upstreamOpen /\ sent < MaxEvents
    /\ \/ /\ stage = "silent"
          /\ Send("start", "reading")
          /\ stage' = "live"
          /\ UNCHANGED <<stopSent, chatter>>
       \/ /\ stage = "live" \/ (Chatty /\ stage = "failed")
          /\ Send("text", "reading") \/ Send("tool", "reading")
          /\ chatter' = (stage = "failed")
          /\ UNCHANGED <<stage, stopSent>>

\* An error frame, or before the first frame a refused request or a body that
\* breaks off.  The adapter returns, ends the stream or reads on.
SendError ==
    /\ producer = "reading"
    /\ stage = "silent" \/ (stage = "live" /\ upstreamOpen)
    /\ \E next \in {"draining", "ending"} \cup (IF Chatty THEN {"reading"} ELSE {}) :
          Send("error", next)
    /\ stage' = "failed"
    /\ UNCHANGED <<stopSent, chatter>>

\* A finish reason from the upstream, or the one that is made up at its end.
SendStop ==
    /\ ~stopSent
    /\ stopSent' = TRUE
    /\ \/ producer = "reading" /\ upstreamOpen /\ sent < MaxEvents /\ Send("stop", "reading")
       \/ producer = "reading" /\ ~upstreamOpen /\ Send("stop", "ending")
       \/ producer = "ending" /\ Send("stop", "ending")
    /\ UNCHANGED <<stage, chatter>>

\* The terminal frame or the end of the body; the deferred calls run next.
SendDone ==
    /\ Send("done", "draining")
    /\ UNCHANGED <<stage, stopSent, chatter>>

\* Mutant: the context is looked at between two sends only.
ReturnsBetweenSends ==
    /\ producer \in {"reading", "ending"}
    /\ cancelled /\ Len(providerCh) < ProviderCap
    /\ producer' = "draining"
    /\ UNCHANGED <<converterVars, clientVars, chatVars, providerCh, stage, stopSent, sent, chatter,
                   pings, upstreamOpen, cancelled, lateWrites, early>>

\* Every send is a select with ctx.Done(), after which the goroutine returns.
ProviderReturns ==
    /\ producer \in {"reading", "ending"}
    /\ cancelled
    /\ producer' = "draining"
    /\ UNCHANGED <<converterVars, clientVars, chatVars, providerCh, stage, stopSent, sent, chatter,
                   pings, upstreamOpen, cancelled, lateWrites, early>>

\* io.Copy(io.Discard, resp.Body) ends with the body or with the request.
ProviderCloses ==
    /\ producer = "draining"
    /\ ~upstreamOpen \/ cancelled
    /\ producer' = "closed"
    /\ UNCHANGED <<converterVars, clientVars, chatVars, providerCh, stage, stopSent, sent, chatter,
                   pings, upstreamOpen, cancelled, lateWrites, early>>

UpstreamCloses ==
    /\ upstreamOpen
    /\ upstreamOpen' = FALSE
    /\ UNCHANGED <<converterVars, clientVars, chatVars, providerVars, pings,
                   cancelled, lateWrites, early>>

Cancel ==
    /\ ~cancelled
    /\ cancelled' = TRUE
    /\ early' = ~stopHandled
    /\ UNCHANGED <<converterVars, clientVars, chatVars, providerVars, pings,
                   upstreamOpen, lateWrites>>

-----------------------------------------------------------------------------
(* The goroutine that converts and forwards. *)

Convert(e) ==
    CASE e = "start" -> HandleStart
      [] e = "text" -> HandleContent("text", TRUE)
      [] e = "tool" -> \E id \in ToolIDs : StartToolBlock(id, NoIndex)
      [] e = "stop" -> RecordFinishReason("stop")
      [] e = "error" -> HandleError
      [] e = "done" -> HandleDone

\* What the goroutine does once Convert returned, or panicked.
AfterConvert ==
    pump' = IF crashed' THEN "recovering"
            ELSE IF pending' # <<>> THEN "writing"
            ELSE IF last' THEN "gone"
            ELSE "waiting"

TheRest == <<clientVars, stopSent, sent, pings, producer, stage, chatter, upstreamOpen,
            cancelled, lateWrites, early>>

\* Chat looks at the first event: errors and empty streams are returned as an
\* error, anything else starts the goroutine.
PeekEvent ==
    /\ chat = "peeking"
    /\ providerCh # <<>>
    /\ providerCh' = Tail(providerCh)
    /\ last' = FALSE
    /\ \/ /\ Head(providerCh) \in {"error", "done"}
          /\ chat' = "failed"
          /\ UNCHANGED <<pump, converterVars>>
       \/ /\ Head(providerCh) \notin {"error", "done"}
          /\ chat' = "streaming"
          /\ Convert(Head(providerCh))
          /\ AfterConvert
    /\ UNCHANGED <<out, TheRest>>

PeekFails ==
    /\ chat = "peeking"
    /\ cancelled \/ (producer = "closed" /\ providerCh = <<>>)
    /\ chat' = "failed"
    /\ UNCHANGED <<pump, last, out, providerCh, converterVars, TheRest>>

\* Mutant: the context is not looked at before a write.
WriteUnchecked ==
    /\ pump = "writing"
    /\ pump' = "selecting"
    /\ UNCHANGED <<chat, last, out, providerCh, converterVars, TheRest>>

\* writeEvent refuses to write when the context is done already ...
WriteCheck ==
    /\ pump = "writing"
    /\ pump' = IF cancelled THEN "gone" ELSE "selecting"
    /\ UNCHANGED <<chat, last, out, providerCh, converterVars, TheRest>>

\* Mutant: an event that finds the channel full is dropped (select with default).
WriteOrDrop ==
    /\ pump = "selecting"
    /\ out' = IF Len(out) < OutCap THEN Append(out, Head(pending)) ELSE out
    /\ pending' = Tail(pending)
    /\ pump' = IF Len(pending) > 1 THEN "writing" ELSE IF last THEN "gone" ELSE "waiting"
    /\ lateWrites' = IF cancelled THEN lateWrites + 1 ELSE lateWrites
    /\ UNCHANGED <<chat, last, providerCh, started, nextIndex, blockIndex, content,
                   currentTool, openTools, byIndex, byID, toolMaps, finishReason,
                   stopHandled, stopped, crashed, clientVars, stopSent, sent, pings,
                   producer, stage, chatter, upstreamOpen, cancelled, early>>

\* ... and then waits for room in the channel or for the cancellation.
Write ==
    /\ pump = "selecting"
    /\ Len(out) < OutCap
    /\ out' = Append(out, Head(pending))
    /\ pending' = Tail(pending)
    /\ pump' = IF Len(pending) > 1 THEN "writing" ELSE IF last THEN "gone" ELSE "waiting"
    /\ lateWrites' = IF cancelled THEN lateWrites + 1 ELSE lateWrites
    /\ UNCHANGED <<chat, last, providerCh, started, nextIndex, blockIndex, content,
                   currentTool, openTools, byIndex, byID, toolMaps, finishReason,
                   stopHandled, stopped, crashed, clientVars, stopSent, sent, pings, producer,
                   stage, chatter, upstreamOpen, cancelled, early>>

\* Mutant: a write waits for room only.
WriteNeverAborted ==
    /\ pump = "selecting" /\ cancelled
    /\ Len(out) < OutCap
    /\ pump' = "gone"
    /\ UNCHANGED <<chat, last, out, providerCh, converterVars, TheRest>>

WriteAborted ==
    /\ pump = "selecting"
    /\ cancelled
    /\ pump' = "gone"
    /\ UNCHANGED <<chat, last, out, providerCh, converterVars, TheRest>>

Tick ==
    /\ pump = "waiting"
    /\ pings < MaxPings
    /\ pings' = pings + 1
    /\ pending' = <<Message("ping")>>
    /\ pump' = "writing"
    /\ UNCHANGED <<chat, last, out, providerCh, started, nextIndex, blockIndex, content,
                   currentTool, openTools, byIndex, byID, toolMaps, finishReason,
                   stopHandled, stopped, crashed, clientVars, stopSent, sent, producer, stage,
                   chatter, upstreamOpen, cancelled, lateWrites, early>>

\* After a receive the goroutine looks at the context first: a cancelled stream
\* gets an error for its last event.
Received(e) ==
    /\ IF cancelled THEN HandleError /\ last' = TRUE
       ELSE Convert(e) /\ last' = last
    /\ AfterConvert

Receiving ==
    /\ pump = "waiting"
    /\ providerCh # <<>>
    /\ providerCh' = Tail(providerCh)
    /\ Received(Head(providerCh))
    /\ UNCHANGED <<chat, out, TheRest>>

\* Mutant: a closed provider channel does not leave the loop.
ClosedChannelLoops ==
    /\ pump = "waiting"
    /\ providerCh = <<>> /\ producer = "closed"
    /\ Received("done")
    /\ UNCHANGED <<chat, out, providerCh, TheRest>>

\* A closed provider channel ends the message like Done does.
ReceivingClosed ==
    /\ pump = "waiting"
    /\ providerCh = <<>> /\ producer = "closed"
    /\ IF cancelled THEN HandleError ELSE HandleDone
    /\ last' = TRUE
    /\ AfterConvert
    /\ UNCHANGED <<chat, out, providerCh, TheRest>>

\* recover() tries to leave an error behind without blocking.
Recover ==
    /\ pump = "recovering"
    /\ out' = IF Len(out) < OutCap THEN Append(out, Message("error")) ELSE out
    /\ pump' = "gone"
    /\ lateWrites' = IF cancelled THEN lateWrites + 1 ELSE lateWrites
    /\ UNCHANGED <<chat, last, providerCh, converterVars, clientVars, stopSent, sent, pings,
                   producer, stage, chatter, upstreamOpen, cancelled, early>>

Consume ==
    /\ out # <<>>
    /\ out' = Tail(out)
    /\ Receive(Head(out))
    /\ UNCHANGED <<chat, pump, last, converterVars, providerVars, pings, upstreamOpen,
                   cancelled, lateWrites, early>>

Pump ==
    \/ PeekEvent
    \/ PeekFails
    \/ WriteCheck
    \/ Write
    \/ WriteAborted
    \/ Receiving
    \/ ReceivingClosed
    \/ Recover

Next ==
    \/ SendFrames
    \/ SendError
    \/ SendStop
    \/ SendDone
    \/ ProviderReturns
    \/ ProviderCloses
    \/ UpstreamCloses
    \/ Cancel
    \/ Pump
    \/ Tick
    \/ Consume

Spec == Init /\ [][Next]_vars

\* The goroutines run, and an adapter whose upstream ended or whose context is
\* done comes to its end.  Nothing is assumed of the upstream, of the ticker or
\* of the canceller.
Fairness ==
    /\ WF_vars(Pump)
    /\ WF_vars(SendDone /\ (producer = "ending" \/ ~upstreamOpen))
    /\ WF_vars(ProviderReturns)
    /\ WF_vars(ProviderCloses)

\* A caller that keeps reading, as the doc of Chat asks it to.
FairSpec == Spec /\ Fairness /\ WF_vars(Consume)

\* A caller that may stop reading.
LazySpec == Spec /\ Fairness

-----------------------------------------------------------------------------
(* Properties. *)

\* Only an adapter that goes on after an error can confuse a strict client.
ClientNeverBroken == phase = "broken" => chatter

\* A stream that was started and not cancelled is whole when its channel is
\* closed and read to the end: back pressure drops no event, and neither an
\* error, a missing Done nor a missing Stop keeps the end from the caller.
StartedIsWhole ==
    OutClosed /\ out = <<>> /\ ~cancelled /\ ~chatter /\ started => phase = "ended"

\* A reply that was cancelled before its end was converted is never completed
\* (chat_cancel_pending_test.go:119), and at most the one event whose write
\* had already begun follows the cancellation.
CancelledNotCompleted ==
    /\ early => phase # "ended" /\ \A p \in DOMAIN out : out[p].type # "message_stop"
    /\ lateWrites <= 1

\* Cancelling ends the stream, whether or not the caller still reads and
\* whatever the upstream does.
CancelEnds == cancelled ~> (chat = "failed" \/ OutClosed)

\* When the upstream closes the body, the loop over the channel of a caller that
\* keeps reading ends.
UpstreamEndEndsStream ==
    WF_vars(Consume) => (~upstreamOpen ~> (chat = "failed" \/ (OutClosed /\ out = <<>>)))

\* After a synchronous error nobody reads the provider channel, and its
\* goroutine still comes to an end when the context does, or the upstream does
\* (unless the adapter goes on after an error: it may then fill the channel).
NoLeakAfterError ==
    (chat = "failed" /\ (cancelled \/ (~upstreamOpen /\ ~chatter))) ~> (producer = "closed")

\* The channel is closed after the end of the stream (bamboo.go:26, "the channel
\* is closed automatically after the stream ends").
ClosedAfterDone ==
    (stopHandled /\ pending = <<>>) ~> OutClosed
==============================================================================
