------------------------- MODULE WebSocketCallProofs -------------------------
(***************************************************************************)
(* What is proved of WebSocketCall, for every capacity of the socket and of *)
(* the event channel and any number of frames: main and guard exclude each  *)
(* other while they write, and nothing follows a close frame.               *)
(***************************************************************************)
EXTENDS WebSocketCall, SequenceTheorems, TLAPS

Places == {"none", "dialing", "handshaking", "refused", "locking", "writing", "closing", "last frame", "last",
           "reading", "ending", "broken", "over", "waiting", "gone"}
Opcodes == {"none", "text", "pong", "close"}
Targets == {"none", "reading", "ending", "over", "gone"}
Goroutine == [at : Places, opcode : Opcodes, then : Targets]

TypeInv ==
    /\ main \in Goroutine
    /\ guard \in Goroutine
    /\ closed \in BOOLEAN

MainHolds == main.at \in {"writing", "last frame"}
GuardHolds == guard.at = "last frame"

\* Who writes holds the lock, and has no events to send; there is no guard while
\* main dials.
LockInv ==
    /\ Dialing => guard.at = "none"
    /\ lock \in {Nobody, "main", "guard"}
    /\ lock = "main" <=> MainHolds
    /\ lock = "guard" <=> GuardHolds
    /\ MainHolds => sending = <<>>

\* A close frame that was written without marking the connection closed is
\* main's answer to a close frame, and main goes on to close.
CloseInv ==
    /\ written \in {"frames", "close"}
    /\ written = "close" => closed \/ main.opcode = "close"
    /\ main.opcode = "close" =>
           main.at \in {"locking", "writing", "closing", "last frame", "last"}
    /\ main.at = "writing" => ~closed
    /\ main.at \in {"last frame", "last"} => closed
    /\ GuardHolds => closed

IInv == TypeInv /\ LockInv /\ CloseInv

-----------------------------------------------------------------------------
\* Where a goroutine is after the moves it makes.
LEMMA PlacesType ==
    /\ \A p \in Places : At(p) \in Goroutine /\ At(p).at = p /\ At(p).opcode = "none"
    /\ \A o \in Opcodes, t \in Targets :
          Writing(o, t) \in Goroutine /\ Writing(o, t).at = "locking" /\ Writing(o, t).opcode = o
    /\ \A t \in Targets :
          Closing(t) \in Goroutine /\ Closing(t).at = "closing" /\ Closing(t).opcode = "close"
BY DEF At, Writing, Closing, Place, Goroutine, Places, Opcodes, Targets

LEMMA GoesOn ==
    ASSUME NEW g \in Goroutine, NEW p \in Places
    PROVE  /\ [g EXCEPT !.at = p] \in Goroutine
           /\ [g EXCEPT !.at = p].at = p
           /\ [g EXCEPT !.at = p].opcode = g.opcode
BY DEF Goroutine

\* main is at none of the places where it dials, holds the lock or has closed.
Elsewhere == ~Dialing /\ main.at \notin {"writing", "last frame", "last"}

LEMMA FailedMoves ==
    ASSUME main \in Goroutine, Failed(main)
    PROVE  /\ main' \in Goroutine /\ Elsewhere'
           /\ (main'.opcode = "close" <=> main'.at = "closing")
           /\ main.opcode = "close" => main'.opcode = "close"
<1>1. main.opcode \in Opcodes /\ main.then \in Targets /\ Targets \subseteq Places
  BY DEF Goroutine, Targets, Places
<1>2. main' \in {Closing("over"), Closing(main.then), At(main.then)}
  BY DEF Failed, Sends
<1>3. main.opcode = "close" => main' = Closing(main.then)
  BY DEF Failed, Sends
<1>4. "over" \in Targets
  BY DEF Targets
<1>5. CASE \E t \in Targets : main' = Closing(t)
  BY <1>5, PlacesType DEF Elsewhere, Dialing
<1>6. CASE main' = At(main.then) /\ main.opcode # "close"
  <2>1. main' \in Goroutine /\ main'.at \in Targets /\ main'.opcode = "none"
    BY <1>1, <1>6, PlacesType
  <2> QED
    BY <1>6, <2>1 DEF Elsewhere, Targets, Dialing
<1> QED
  BY <1>1, <1>2, <1>3, <1>4, <1>5, <1>6

LEMMA WrittenMoves ==
    ASSUME main \in Goroutine, Written(main)
    PROVE  /\ main' \in Goroutine /\ Elsewhere'
           /\ (main'.opcode = "close" <=> main'.at = "closing")
           /\ main.opcode = "close" => main'.opcode = "close"
<1>1. main.opcode \in Opcodes /\ main.then \in Targets /\ Targets \subseteq Places
  BY DEF Goroutine, Targets, Places
<1>2. main' = IF main.opcode = "close" THEN Closing(main.then) ELSE At(main.then)
  BY DEF Written, Sends
<1>3. CASE main.opcode = "close"
  BY <1>1, <1>2, <1>3, PlacesType DEF Elsewhere, Dialing
<1>4. CASE main.opcode # "close"
  <2>1. main' \in Goroutine /\ main'.at \in Targets /\ main'.opcode = "none"
    BY <1>1, <1>2, <1>4, PlacesType
  <2> QED
    BY <1>4, <2>1 DEF Elsewhere, Targets, Dialing
<1> QED
  BY <1>3, <1>4

LEMMA InitIInv == Init => IInv
<1> SUFFICES ASSUME Init PROVE IInv
  OBVIOUS
<1>1. main = At("dialing") /\ guard = At("none") /\ sending = <<>>
  BY DEF Init
<1>2. lock = Nobody /\ written = "frames" /\ closed = FALSE
  BY DEF Init, ConnInit
<1>3. /\ main.at = "dialing" /\ main.opcode = "none" /\ guard.at = "none"
      /\ main \in Goroutine /\ guard \in Goroutine
  BY <1>1, PlacesType DEF Places
<1>4. TypeInv
  BY <1>2, <1>3 DEF TypeInv
<1>5. LockInv
  BY <1>2, <1>3 DEF LockInv, MainHolds, GuardHolds, Nobody, Dialing
<1>6. CloseInv
  BY <1>2, <1>3 DEF CloseInv, GuardHolds
<1> QED
  BY <1>4, <1>5, <1>6 DEF IInv

\* A step that leaves the guard and the connection's flags alone, and takes main
\* from and to a place without the lock, keeps the invariant.
LEMMA QuietStep ==
    ASSUME IInv, ~MainHolds, main' \in Goroutine,
           Elsewhere' \/ (Dialing /\ main'.at \in {"handshaking", "refused"}),
           main'.opcode = "close" => main'.at \in {"locking", "closing"},
           main.opcode = "close" /\ written = "close" => closed \/ main'.opcode = "close",
           UNCHANGED <<guard, closed, lock, written>>
    PROVE  IInv'
<1>1. TypeInv'
  BY DEF IInv, TypeInv
<1>2. LockInv'
  BY DEF IInv, LockInv, MainHolds, GuardHolds, Elsewhere, Dialing
<1>3. CloseInv'
  BY DEF IInv, CloseInv, GuardHolds, Elsewhere, Dialing
<1> QED
  BY <1>1, <1>2, <1>3 DEF IInv

LEMMA DialKeeps == IInv /\ Dial => IInv'
<1> SUFFICES ASSUME IInv, Dial PROVE IInv'
  OBVIOUS
<1>1. main.at = "dialing"
  BY DEF Dial, Free
<1>2. main' \in {At("handshaking"), At("over")}
  BY DEF Dial, Sends
<1>3. UNCHANGED <<guard, closed, lock, written>>
  BY DEF Dial, Connects, connVars
<1>4. ~MainHolds /\ main.opcode # "close"
  BY <1>1 DEF IInv, CloseInv, MainHolds
<1>5. /\ main' \in Goroutine /\ main'.opcode = "none"
      /\ main'.at \in {"handshaking", "over"}
  BY <1>2, PlacesType DEF Places
<1>6. Elsewhere' \/ (Dialing /\ main'.at = "handshaking")
  BY <1>1, <1>5 DEF Elsewhere, Dialing
<1> QED
  BY <1>1, <1>3, <1>4, <1>5, <1>6, QuietStep

LEMMA MainWritesKeeps == IInv /\ MainWrites => IInv'
<1> SUFFICES ASSUME IInv, MainWrites PROVE IInv'
  OBVIOUS
<1>1. main \in Goroutine /\ UNCHANGED guard
  BY DEF IInv, TypeInv, MainWrites
<1>2. CASE Free("locking") /\ Locks("main") /\ main' = [main EXCEPT !.at = "writing"] /\ UNCHANGED sending
  <2>1. main' \in Goroutine /\ main'.at = "writing" /\ main'.opcode = main.opcode
    BY <1>1, <1>2, GoesOn DEF Places
  <2>2. lock = Nobody /\ lock' = "main" /\ closed = FALSE /\ sending' = <<>>
    BY <1>2 DEF Locks, Free, IInv, TypeInv
  <2>3. UNCHANGED <<closed, written>>
    BY <1>2 DEF Locks
  <2>4. TypeInv'
    BY <1>1, <2>1, <2>3 DEF IInv, TypeInv
  <2>5. LockInv'
    BY <1>1, <2>1, <2>2 DEF IInv, LockInv, MainHolds, GuardHolds, Nobody, Dialing
  <2>6. CloseInv'
    BY <1>1, <2>1, <2>2, <2>3 DEF IInv, CloseInv, GuardHolds
  <2> QED
    BY <2>4, <2>5, <2>6 DEF IInv
<1>3. CASE Free("locking") /\ FindsClosed /\ UNCHANGED connVars /\ Failed(main)
  <2>1. ~MainHolds /\ closed /\ UNCHANGED <<guard, closed, lock, written>>
    BY <1>1, <1>3 DEF Free, MainHolds, FindsClosed, connVars
  <2> QED
    BY <1>1, <1>3, <2>1, FailedMoves, QuietStep
<1>4. CASE Free("writing") /\ WritesAndUnlocks(main.opcode) /\ Written(main)
  <2>1. /\ main' \in Goroutine /\ Elsewhere'
        /\ main'.opcode = "close" <=> main'.at = "closing"
        /\ main.opcode = "close" => main'.opcode = "close"
    BY <1>1, <1>4, WrittenMoves
  <2>2. lock = "main" /\ lock' = Nobody /\ ~closed /\ UNCHANGED closed
    BY <1>4 DEF IInv, LockInv, CloseInv, MainHolds, Free, WritesAndUnlocks, Dialing
  <2>3. written' = "frames" \/ (written' = "close" /\ main.opcode = "close")
    BY <1>4, <2>2 DEF IInv, CloseInv, WritesAndUnlocks
  <2>4. TypeInv'
    BY <1>1, <2>1, <2>2 DEF IInv, TypeInv
  <2>5. LockInv'
    BY <1>1, <2>1, <2>2 DEF IInv, LockInv, MainHolds, GuardHolds, Nobody, Elsewhere, Dialing
  <2>6. CloseInv'
    BY <1>1, <2>1, <2>2, <2>3 DEF IInv, LockInv, CloseInv, GuardHolds, Elsewhere, Dialing
  <2> QED
    BY <2>4, <2>5, <2>6 DEF IInv
<1>5. CASE Free("writing") /\ WriteFails /\ Failed(main)
  <2>1. /\ main' \in Goroutine /\ Elsewhere'
        /\ main'.opcode = "close" <=> main'.at = "closing"
        /\ main.opcode = "close" => main'.opcode = "close"
    BY <1>1, <1>5, FailedMoves
  <2>2. lock = "main" /\ lock' = Nobody /\ UNCHANGED <<closed, written>>
    BY <1>5 DEF IInv, LockInv, MainHolds, Free, WriteFails, Dialing
  <2>3. TypeInv'
    BY <1>1, <2>1, <2>2 DEF IInv, TypeInv
  <2>4. LockInv'
    BY <1>1, <2>1, <2>2 DEF IInv, LockInv, MainHolds, GuardHolds, Nobody, Elsewhere, Dialing
  <2>5. CloseInv'
    BY <1>1, <2>1, <2>2 DEF IInv, LockInv, CloseInv, GuardHolds, Elsewhere, Dialing
  <2> QED
    BY <2>3, <2>4, <2>5 DEF IInv
<1> QED
  BY <1>2, <1>3, <1>4, <1>5 DEF MainWrites

LEMMA HandshakeKeeps == IInv /\ Handshake => IInv'
<1> SUFFICES ASSUME IInv, Handshake PROVE IInv'
  OBVIOUS
<1>1. ~MainHolds /\ main.opcode # "close" /\ UNCHANGED <<closed, lock, written>>
  BY DEF Handshake, Free, Abandons, connVars, IInv, CloseInv, MainHolds
<1>2. /\ \/ main' = Writing("text", "reading") /\ guard' = At("waiting")
         \/ main' \in {At("refused"), At("over")} /\ guard' = guard
      /\ main.at = "handshaking"
  BY DEF Handshake, Free, Sends
<1>3. /\ main' \in Goroutine /\ main'.at \in {"locking", "refused", "over"} /\ main'.opcode # "close"
      /\ guard' \in Goroutine
      /\ main'.at = "refused" => guard' = guard
  <2>1. CASE main' = Writing("text", "reading") /\ guard' = At("waiting")
    BY <2>1, PlacesType DEF Places, Opcodes, Targets
  <2>2. CASE main' \in {At("refused"), At("over")} /\ guard' = guard
    BY <2>2, PlacesType DEF Places, IInv, TypeInv
  <2> QED
    BY <1>2, <2>1, <2>2
<1>4. ~GuardHolds /\ ~GuardHolds'
  <2>1. guard.at = "none"
    BY <1>2 DEF IInv, LockInv, Dialing
  <2>2. guard'.at \in {"none", "waiting"}
    BY <1>2, <2>1, PlacesType DEF Places
  <2> QED
    BY <2>1, <2>2 DEF GuardHolds
<1>5. TypeInv'
  BY <1>1, <1>3 DEF IInv, TypeInv
<1>6. LockInv'
  BY <1>1, <1>2, <1>3, <1>4 DEF IInv, LockInv, MainHolds, Dialing
<1>7. CloseInv'
  BY <1>1, <1>3, <1>4 DEF IInv, CloseInv
<1> QED
  BY <1>5, <1>6, <1>7 DEF IInv

LEMMA RefusalKeeps == IInv /\ Refusal => IInv'
<1> SUFFICES ASSUME IInv, Refusal PROVE IInv'
  OBVIOUS
<1>1. main.at = "refused" /\ main' = At("over")
  BY DEF Refusal, Free, Sends
<1>2. main' \in Goroutine /\ main'.at = "over" /\ main'.opcode = "none"
  BY <1>1, PlacesType DEF Places
<1>3. ~MainHolds /\ main.opcode # "close" /\ UNCHANGED <<guard, closed, lock, written>>
  BY <1>1 DEF Refusal, Abandons, IInv, CloseInv, MainHolds
<1> QED
  BY <1>2, <1>3, QuietStep DEF Elsewhere, Dialing

LEMMA MainClosesKeeps == IInv /\ MainCloses => IInv'
<1> SUFFICES ASSUME IInv, MainCloses PROVE IInv'
  OBVIOUS
<1>1. main \in Goroutine /\ UNCHANGED <<guard, sending>> /\ sending = <<>>
  BY DEF IInv, TypeInv, MainCloses, Free
<1>2. CASE Free("closing") /\ MarksClosed("main") /\ main' = [main EXCEPT !.at = "last frame"]
  <2>1. main' \in Goroutine /\ main'.at = "last frame" /\ main'.opcode = main.opcode
    BY <1>1, <1>2, GoesOn DEF Places
  <2>2. lock = Nobody /\ lock' = "main" /\ closed' = TRUE /\ UNCHANGED written
    BY <1>2 DEF MarksClosed
  <2>3. TypeInv'
    BY <1>1, <2>1, <2>2 DEF IInv, TypeInv
  <2>4. LockInv'
    BY <1>1, <2>1, <2>2 DEF IInv, LockInv, MainHolds, GuardHolds, Nobody, Dialing
  <2>5. CloseInv'
    BY <1>1, <2>1, <2>2 DEF IInv, CloseInv
  <2> QED
    BY <2>3, <2>4, <2>5 DEF IInv
<1>3. CASE Free("closing") /\ FindsClosed /\ UNCHANGED connVars /\ main' = [main EXCEPT !.at = "last"]
  <2>1. main' \in Goroutine /\ main'.at = "last" /\ main'.opcode = main.opcode
    BY <1>1, <1>3, GoesOn DEF Places
  <2>2. main.at = "closing" /\ closed /\ UNCHANGED <<lock, closed, written>>
    BY <1>3 DEF Free, FindsClosed, connVars
  <2>3. TypeInv'
    BY <1>1, <2>1, <2>2 DEF IInv, TypeInv
  <2>4. LockInv'
    BY <1>1, <2>1, <2>2 DEF IInv, LockInv, MainHolds, GuardHolds, Dialing
  <2>5. CloseInv'
    BY <1>1, <2>1, <2>2 DEF IInv, CloseInv, GuardHolds
  <2> QED
    BY <2>3, <2>4, <2>5 DEF IInv
<1>4. CASE /\ Free("last frame") /\ (WritesAndUnlocks("close") \/ WriteFails)
           /\ main' = [main EXCEPT !.at = "last"]
  <2>1. main' \in Goroutine /\ main'.at = "last" /\ main'.opcode = main.opcode
    BY <1>1, <1>4, GoesOn DEF Places
  <2>2. /\ main.at = "last frame" /\ lock = "main" /\ closed
        /\ lock' = Nobody /\ UNCHANGED closed
    BY <1>4 DEF IInv, LockInv, CloseInv, MainHolds, Free, WritesAndUnlocks, WriteFails, Dialing
  <2>3. written' \in {written, "close"}
    BY <1>4 DEF IInv, CloseInv, WritesAndUnlocks, WriteFails
  <2>4. TypeInv'
    BY <1>1, <2>1, <2>2 DEF IInv, TypeInv
  <2>5. LockInv'
    BY <1>1, <2>1, <2>2 DEF IInv, LockInv, MainHolds, GuardHolds, Nobody, Dialing
  <2>6. CloseInv'
    BY <1>1, <2>1, <2>2, <2>3 DEF IInv, CloseInv, GuardHolds
  <2> QED
    BY <2>4, <2>5, <2>6 DEF IInv
<1>5. CASE Free("last") /\ ClosesSocket /\ main' = At(main.then)
  <2>1. main.then \in Targets /\ Targets \subseteq Places
    BY <1>1 DEF Goroutine, Targets, Places
  <2>2. main' \in Goroutine /\ main'.at \in Targets /\ main'.opcode = "none"
    BY <1>5, <2>1, PlacesType
  <2>3. Elsewhere'
    BY <2>2 DEF Elsewhere, Targets, Dialing
  <2>4. ~MainHolds /\ closed /\ UNCHANGED <<guard, closed, lock, written>>
    BY <1>1, <1>5 DEF Free, MainHolds, ClosesSocket, IInv, CloseInv
  <2> QED
    BY <2>2, <2>3, <2>4, QuietStep
<1> QED
  BY <1>2, <1>3, <1>4, <1>5 DEF MainCloses

LEMMA MainReadsKeeps == IInv /\ MainReads => IInv'
<1> SUFFICES ASSUME IInv, MainReads PROVE IInv'
  OBVIOUS
<1>1. /\ main \in Goroutine /\ main.at = "reading"
      /\ UNCHANGED <<guard, closed, lock, written>>
  BY DEF IInv, TypeInv, MainReads, Free, Takes
<1>2. main.opcode # "close" /\ ~MainHolds
  BY <1>1 DEF IInv, CloseInv, MainHolds
<1>3. \/ main' \in {main, At("broken"), At("reading"), At("ending")}
      \/ main' \in {Closing("over"), Writing("pong", "reading"), Writing("close", "ending")}
  BY DEF MainReads, Sends
<1>4. CASE main' = main
  <2>1. main' \in Goroutine /\ Elsewhere' /\ main'.opcode # "close"
    BY <1>1, <1>2, <1>4 DEF Elsewhere, Dialing
  <2> QED
    BY <1>1, <1>2, <2>1, QuietStep
<1>5. CASE main' \in {At("broken"), At("reading"), At("ending")}
  <2>1. main' \in Goroutine /\ main'.at \in {"broken", "reading", "ending"} /\ main'.opcode = "none"
    BY <1>5, PlacesType DEF Places
  <2>2. Elsewhere'
    BY <2>1 DEF Elsewhere, Dialing
  <2> QED
    BY <1>1, <1>2, <2>1, <2>2, QuietStep
<1>6. CASE main' \in {Closing("over"), Writing("pong", "reading"), Writing("close", "ending")}
  <2>1. main' \in Goroutine /\ main'.at \in {"closing", "locking"}
    BY <1>6, PlacesType DEF Opcodes, Targets
  <2>2. Elsewhere'
    BY <2>1 DEF Elsewhere, Dialing
  <2> QED
    BY <1>1, <1>2, <2>1, <2>2, QuietStep
<1> QED
  BY <1>3, <1>4, <1>5, <1>6

LEMMA MainStopsReadingKeeps == IInv /\ (MainReadFails \/ MainEnds) => IInv'
<1> SUFFICES ASSUME IInv, MainReadFails \/ MainEnds PROVE IInv'
  OBVIOUS
<1>1. /\ main.at \in {"reading", "ending", "broken"}
      /\ UNCHANGED <<guard, closed, lock, written>>
  BY DEF MainReadFails, MainEnds, Free, ReadFails, connVars
<1>2. main.opcode # "close" /\ ~MainHolds
  BY <1>1 DEF IInv, CloseInv, MainHolds
<1>3. main' \in {At("ending"), At("broken"), Closing("over")}
  BY DEF MainReadFails, MainEnds, Sends
<1>4. /\ main' \in Goroutine /\ main'.at \in {"ending", "broken", "closing"}
      /\ main'.opcode = "close" => main'.at = "closing"
  <2>1. CASE main' = Closing("over")
    BY <2>1, PlacesType DEF Targets
  <2>2. CASE main' \in {At("ending"), At("broken")}
    BY <2>2, PlacesType DEF Places
  <2> QED
    BY <1>3, <2>1, <2>2
<1>5. Elsewhere'
  BY <1>4 DEF Elsewhere, Dialing
<1> QED
  BY <1>1, <1>2, <1>4, <1>5, QuietStep

LEMMA MainSendsKeeps == IInv /\ MainSends => IInv'
<1> SUFFICES ASSUME IInv, MainSends PROVE IInv'
  OBVIOUS
<1>1. ~MainHolds /\ UNCHANGED <<guard, closed, lock, written>>
  BY DEF IInv, LockInv, MainSends, connVars, Dialing
<1>2. CASE main' = main
  <2>1. TypeInv' /\ CloseInv'
    BY <1>1, <1>2 DEF IInv, TypeInv, CloseInv, GuardHolds
  <2>2. LockInv'
    BY <1>1, <1>2 DEF IInv, LockInv, MainHolds, GuardHolds, Dialing
  <2> QED
    BY <2>1, <2>2 DEF IInv
<1>3. CASE main' = Closing("over")
  <2>1. main' \in Goroutine /\ main'.at = "closing" /\ main'.opcode = "close"
    BY <1>3, PlacesType DEF Targets
  <2>2. Elsewhere'
    BY <2>1 DEF Elsewhere, Dialing
  <2> QED
    BY <1>1, <2>1, <2>2, QuietStep
<1> QED
  BY <1>2, <1>3 DEF MainSends

LEMMA GuardKeeps == IInv /\ Guard => IInv'
<1> SUFFICES ASSUME IInv, Guard PROVE IInv'
  OBVIOUS
<1>1. guard \in Goroutine /\ UNCHANGED <<main, sending>>
  BY DEF IInv, TypeInv, Guard
<1>2. CASE \/ /\ guard.at \in {"waiting", "last"}
              /\ UNCHANGED <<closed, lock, written>>
              /\ guard' \in {GuardCloses, At("gone")}
           \/ /\ guard.at = "closing" /\ FindsClosed /\ UNCHANGED connVars
              /\ guard' = [guard EXCEPT !.at = "last"]
  <2>1. guard' \in Goroutine /\ guard'.at \in {"closing", "gone", "last"}
    <3>1. CASE guard' = GuardCloses
      BY <3>1, PlacesType DEF GuardCloses, Targets
    <3>2. CASE guard' = [guard EXCEPT !.at = "last"]
      BY <1>1, <3>2, GoesOn DEF Places
    <3>3. CASE guard' = At("gone")
      BY <3>3, PlacesType DEF Places
    <3> QED
      BY <1>2, <3>1, <3>2, <3>3
  <2>2. guard.at \in {"waiting", "last", "closing"} /\ UNCHANGED <<closed, lock, written>>
    BY <1>2 DEF connVars
  <2>3. TypeInv'
    BY <1>1, <2>1, <2>2 DEF IInv, TypeInv
  <2>4. LockInv'
    BY <1>1, <2>1, <2>2 DEF IInv, LockInv, MainHolds, GuardHolds, Dialing
  <2>5. CloseInv'
    BY <1>1, <2>1, <2>2 DEF IInv, CloseInv, GuardHolds
  <2> QED
    BY <2>3, <2>4, <2>5 DEF IInv
<1>3. CASE guard.at = "closing" /\ MarksClosed("guard") /\ guard' = [guard EXCEPT !.at = "last frame"]
  <2>1. guard' \in Goroutine /\ guard'.at = "last frame"
    BY <1>1, <1>3, GoesOn DEF Places
  <2>2. lock = Nobody /\ lock' = "guard" /\ closed' = TRUE /\ UNCHANGED written
    BY <1>3 DEF MarksClosed
  <2>3. TypeInv'
    BY <1>1, <2>1, <2>2 DEF IInv, TypeInv
  <2>4. LockInv'
    BY <1>1, <1>3, <2>1, <2>2 DEF IInv, LockInv, MainHolds, GuardHolds, Nobody, Dialing
  <2>5. CloseInv'
    BY <1>1, <2>1, <2>2 DEF IInv, LockInv, MainHolds, CloseInv, Nobody, Dialing
  <2> QED
    BY <2>3, <2>4, <2>5 DEF IInv
<1>4. CASE /\ guard.at = "last frame" /\ (WritesAndUnlocks("close") \/ WriteFails)
           /\ guard' = [guard EXCEPT !.at = "last"]
  <2>1. guard' \in Goroutine /\ guard'.at = "last"
    BY <1>1, <1>4, GoesOn DEF Places
  <2>2. lock = "guard" /\ lock' = Nobody /\ closed /\ UNCHANGED closed
    BY <1>4 DEF IInv, LockInv, CloseInv, GuardHolds, WritesAndUnlocks, WriteFails, Dialing
  <2>3. written' \in {written, "close"}
    BY <1>4 DEF IInv, CloseInv, WritesAndUnlocks, WriteFails
  <2>4. TypeInv'
    BY <1>1, <2>1, <2>2 DEF IInv, TypeInv
  <2>5. LockInv'
    BY <1>1, <1>4, <2>1, <2>2 DEF IInv, LockInv, MainHolds, GuardHolds, Nobody, Dialing
  <2>6. CloseInv'
    BY <1>1, <2>1, <2>2, <2>3 DEF IInv, CloseInv, GuardHolds
  <2> QED
    BY <2>4, <2>5, <2>6 DEF IInv
<1> QED
  BY <1>2, <1>3, <1>4 DEF Guard, ClosesSocket, connVars

LEMMA OthersKeep == IInv /\ (Consume \/ Cancel \/ Peer \/ UNCHANGED vars) => IInv'
<1> SUFFICES ASSUME IInv, Consume \/ Cancel \/ Peer \/ UNCHANGED vars PROVE IInv'
  OBVIOUS
<1>1. UNCHANGED <<main, guard, sending, closed, lock, written>>
  BY DEF Consume, Cancel, Peer, vars, connVars
<1> QED
  BY <1>1 DEF IInv, TypeInv, LockInv, CloseInv, MainHolds, GuardHolds, Dialing

LEMMA NextKeeps == IInv /\ [Next]_vars => IInv'
BY DialKeeps, HandshakeKeeps, RefusalKeeps, MainWritesKeeps, MainClosesKeeps,
   MainReadsKeeps, MainStopsReadingKeeps, MainSendsKeeps, GuardKeeps, OthersKeep DEF Next, Main

LEMMA Invariance == Spec => []IInv
BY InitIInv, NextKeeps, PTL DEF Spec

-----------------------------------------------------------------------------
\* After a close frame nothing but a second close frame is written, whoever closed
\* the connection (ws.go: writeFrame, Close; websocket.go: the deferred Close and
\* the guard).
THEOREM NothingAfterCloseHolds == Spec => []NothingAfterClose
<1>1. IInv => NothingAfterClose
  BY DEF IInv, CloseInv, NothingAfterClose
<1> QED
  BY <1>1, Invariance, PTL

\* Two goroutines never write at the same time, so that frames are not mixed up on
\* the wire (ws.go: writeMu around writeFrameLocked).
THEOREM WritersExclude == Spec => [](~(MainHolds /\ GuardHolds))
<1>1. IInv => ~(MainHolds /\ GuardHolds)
  BY DEF IInv, LockInv, Dialing
<1> QED
  BY <1>1, Invariance, PTL

-----------------------------------------------------------------------------
(* The messages of the peer.  A part that was sent is assembled, waits in    *)
(* the socket, or is a part of a message that is not whole yet: together     *)
(* they spell the messages that are to be read.                              *)

Messages == {Message(t) : t \in {"created", "completed", "error", "foreign"}} \cup {[type |-> "none"]}
Frames == [opcode : {"text", "cont", "ping", "close", "unsupported"}, fin : BOOLEAN,
           message : Messages]

FramesInv ==
    /\ inbound \in Seq(Frames)
    /\ fragments \in Seq(Frames)
    /\ speaking \in Seq(Frames)
    /\ spoken \in Seq(Seq(Frames))

\* What a frame makes of the parts `f' that were assembled and of the messages `r'
\* that are to come: only the first part of a message is a text frame, and the
\* last part completes the next message.
Spelled(e, f, r, nextF, nextR) ==
    \/ ~IsData(e) /\ nextF = f /\ nextR = r
    \/ /\ IsData(e) /\ (e.opcode = "text" <=> f = <<>>)
       /\ \/ ~e.fin /\ nextF = Append(f, e) /\ nextR = r
          \/ e.fin /\ r # <<>> /\ Append(f, e) = Head(r) /\ nextF = <<>> /\ nextR = Tail(r)

\* The frames q, behind the parts f0, spell the messages r0 and the parts f1.
Spells(q, f0, r0, f1) ==
    \E f \in [0..Len(q) -> Seq(Frames)], r \in [0..Len(q) -> Seq(Seq(Frames))] :
        /\ f[0] = f0 /\ r[0] = r0
        /\ f[Len(q)] = f1 /\ r[Len(q)] = <<>>
        /\ \A p \in 1..Len(q) : Spelled(q[p], f[p - 1], r[p - 1], f[p], r[p])

\* main has not stopped reading for good.
MayRead ==
    \/ main.at \in {"dialing", "handshaking", "reading"}
    \/ main.at \in {"locking", "writing"} /\ main.then = "reading"

\* Who closes the connection does not read again.
ThenInv ==
    /\ main.opcode = "close" => main.then # "reading"
    /\ main.at \in {"closing", "last frame", "last"} => main.opcode = "close"

HeardInv ==
    /\ FramesInv
    /\ ThenInv
    /\ MayRead => Spells(inbound, fragments, spoken, speaking)
    /\ ~misheard

\* The first of the frames that wait does its part, and the others theirs.
LEMMA SpellsHead ==
    ASSUME NEW q \in Seq(Frames), q # <<>>, NEW f0, NEW r0, NEW f1, Spells(q, f0, r0, f1)
    PROVE  \E f \in Seq(Frames), r \in Seq(Seq(Frames)) :
               Spelled(Head(q), f0, r0, f, r) /\ Spells(Tail(q), f, r, f1)
<1> DEFINE n == Len(q)
<1>1. /\ n \in Nat \ {0} /\ Head(q) = q[1] /\ Len(Tail(q)) = n - 1
      /\ \A p \in 1..(n - 1) : Tail(q)[p] = q[p + 1]
  BY HeadTailProperties, LenProperties, EmptySeq
<1>2. PICK f \in [0..n -> Seq(Frames)], r \in [0..n -> Seq(Seq(Frames))] :
          /\ f[0] = f0 /\ r[0] = r0
          /\ f[n] = f1 /\ r[n] = <<>>
          /\ \A p \in 1..n : Spelled(q[p], f[p - 1], r[p - 1], f[p], r[p])
  BY DEF Spells
<1> HIDE DEF n
<1>3. /\ 1 \in 1..n /\ 1 \in 0..n /\ \A p \in 0..(n - 1) : p + 1 \in 0..n
      /\ \A p \in 1..(n - 1) : p + 1 \in 1..n /\ p - 1 \in 0..(n - 1) /\ p \in 0..(n - 1)
      /\ 0 \in 0..(n - 1) /\ n - 1 \in 0..(n - 1)
  BY <1>1
<1>4. Spelled(Head(q), f0, r0, f[1], r[1])
  BY <1>1, <1>2, <1>3
<1>5. PICK g : g = [p \in 0..(n - 1) |-> f[p + 1]]
  OBVIOUS
<1>6. PICK s : s = [p \in 0..(n - 1) |-> r[p + 1]]
  OBVIOUS
<1>7. g \in [0..(n - 1) -> Seq(Frames)] /\ s \in [0..(n - 1) -> Seq(Seq(Frames))]
  BY <1>2, <1>3, <1>5, <1>6
<1>8. g[0] = f[1] /\ s[0] = r[1] /\ g[n - 1] = f1 /\ s[n - 1] = <<>>
  BY <1>1, <1>2, <1>3, <1>5, <1>6
<1>9. ASSUME NEW p \in 1..(n - 1)
      PROVE  Spelled(Tail(q)[p], g[p - 1], s[p - 1], g[p], s[p])
  <2>1. /\ g[p - 1] = f[p] /\ g[p] = f[p + 1] /\ s[p - 1] = r[p] /\ s[p] = r[p + 1]
        /\ Tail(q)[p] = q[p + 1]
    BY <1>1, <1>3, <1>5, <1>6
  <2>2. Spelled(q[p + 1], f[(p + 1) - 1], r[(p + 1) - 1], f[p + 1], r[p + 1])
    BY <1>2, <1>3
  <2>3. (p + 1) - 1 = p
    OBVIOUS
  <2>4. Spelled(q[p + 1], f[p], r[p], f[p + 1], r[p + 1])
    BY <2>2, <2>3
  <2> QED
    BY <2>1, <2>4
<1>10. Spells(Tail(q), f[1], r[1], f1)
  BY <1>1, <1>7, <1>8, <1>9 DEF Spells
<1>11. f[1] \in Seq(Frames) /\ r[1] \in Seq(Seq(Frames))
  BY <1>2, <1>3
<1> QED
  BY <1>4, <1>10, <1>11

\* A message put behind those that are to come leaves them where they are.
LEMMA HeadConcat ==
    ASSUME NEW r \in Seq(Seq(Frames)), r # <<>>, NEW m,
           m = <<>> \/ (\E x \in Seq(Frames) : m = <<x>>)
    PROVE  r \o m # <<>> /\ Head(r \o m) = Head(r) /\ Tail(r \o m) = Tail(r) \o m
<1>1. Tail(r) \in Seq(Seq(Frames))
  BY HeadTailProperties
<1>2. CASE m = <<>>
  BY <1>1, <1>2, ConcatEmptySeq
<1>3. ASSUME NEW x \in Seq(Frames), m = <<x>>
      PROVE  r \o m # <<>> /\ Head(r \o m) = Head(r) /\ Tail(r \o m) = Tail(r) \o m
  <2>1. r \o m = Append(r, x) /\ Tail(r) \o m = Append(Tail(r), x)
    BY <1>1, <1>3, AppendIsConcat
  <2> QED
    BY <2>1, HeadTailAppend, AppendProperties
<1> QED
  BY <1>2, <1>3

\* The places of a sequence that grows by one.
LEMMA PlacesAppend ==
    ASSUME NEW n \in Nat
    PROVE  /\ \A p \in 0..n : p \in 0..(n + 1) /\ p # n + 1
           /\ \A p \in 1..n : p \in 0..n /\ p - 1 \in 0..n
           /\ \A p \in 0..(n + 1) : p = n + 1 \/ p \in 0..n
           /\ \A p \in 1..(n + 1) : p = n + 1 \/ p \in 1..n
           /\ 0 \in 0..n /\ n \in 0..n /\ n + 1 \in 0..(n + 1) /\ (n + 1) - 1 = n
<1>1. \A p \in 0..n : p \in 0..(n + 1) /\ p # n + 1
  OBVIOUS
<1>2. \A p \in 1..n : p \in 0..n /\ p - 1 \in 0..n
  OBVIOUS
<1>3. \A p \in 0..(n + 1) : p = n + 1 \/ p \in 0..n
  OBVIOUS
<1>4. \A p \in 1..(n + 1) : p = n + 1 \/ p \in 1..n
  OBVIOUS
<1>5. 0 \in 0..n /\ n \in 0..n /\ n + 1 \in 0..(n + 1) /\ (n + 1) - 1 = n
  OBVIOUS
<1> QED
  BY <1>1, <1>2, <1>3, <1>4, <1>5

\* A frame put behind them: the messages are those of before and, when the frame
\* is the last part of one, that one.
LEMMA SpellsAppend ==
    ASSUME NEW q \in Seq(Frames), NEW e \in Frames, NEW f0, NEW r0, NEW f1,
           Spells(q, f0, r0, f1), NEW f2 \in Seq(Frames), NEW m \in Seq(Seq(Frames)),
           Spelled(e, f1, m, f2, <<>>), m = <<>> \/ (\E x \in Seq(Frames) : m = <<x>>)
    PROVE  Spells(Append(q, e), f0, r0 \o m, f2)
<1> DEFINE n == Len(q)
           s == Append(q, e)
<1>1. n \in Nat /\ Len(s) = n + 1 /\ s[n + 1] = e /\ \A p \in 1..n : s[p] = q[p]
  BY AppendProperties, LenProperties
<1>2. PICK f \in [0..n -> Seq(Frames)], r \in [0..n -> Seq(Seq(Frames))] :
          /\ f[0] = f0 /\ r[0] = r0
          /\ f[n] = f1 /\ r[n] = <<>>
          /\ \A p \in 1..n : Spelled(q[p], f[p - 1], r[p - 1], f[p], r[p])
  BY DEF Spells
<1> HIDE DEF n, s
<1>3. PICK g : g = [p \in 0..(n + 1) |-> IF p = n + 1 THEN f2 ELSE f[p]]
  OBVIOUS
<1>4. PICK t : t = [p \in 0..(n + 1) |-> IF p = n + 1 THEN <<>> ELSE r[p] \o m]
  OBVIOUS
<1>5. /\ \A p \in 0..n : p \in 0..(n + 1) /\ p # n + 1
      /\ \A p \in 1..n : p \in 0..n /\ p - 1 \in 0..n
      /\ \A p \in 0..(n + 1) : p = n + 1 \/ p \in 0..n
      /\ \A p \in 1..(n + 1) : p = n + 1 \/ p \in 1..n
      /\ 0 \in 0..n /\ n \in 0..n /\ n + 1 \in 0..(n + 1) /\ (n + 1) - 1 = n
  BY <1>1, PlacesAppend
<1>6. \A p \in 0..n : r[p] \o m \in Seq(Seq(Frames))
  BY <1>2, ConcatProperties
<1>7. g \in [0..(n + 1) -> Seq(Frames)] /\ t \in [0..(n + 1) -> Seq(Seq(Frames))]
  <2>1. <<>> \in Seq(Seq(Frames))
    OBVIOUS
  <2>2. \A p \in 0..(n + 1) : g[p] \in Seq(Frames) /\ t[p] \in Seq(Seq(Frames))
    BY <1>2, <1>3, <1>4, <1>5, <1>6, <2>1
  <2> QED
    BY <1>3, <1>4, <2>2
<1>8. g[0] = f0 /\ t[0] = r0 \o m /\ g[n + 1] = f2 /\ t[n + 1] = <<>>
  BY <1>2, <1>3, <1>4, <1>5
<1>9. ASSUME NEW p \in 1..n
      PROVE  Spelled(s[p], g[p - 1], t[p - 1], g[p], t[p])
  <2>1. /\ g[p - 1] = f[p - 1] /\ g[p] = f[p] /\ s[p] = q[p]
        /\ t[p - 1] = r[p - 1] \o m /\ t[p] = r[p] \o m
    BY <1>1, <1>3, <1>4, <1>5
  <2>2. Spelled(q[p], f[p - 1], r[p - 1], f[p], r[p]) /\ r[p - 1] \in Seq(Seq(Frames))
    BY <1>2, <1>5
  <2>3. r[p - 1] # <<>> =>
            /\ r[p - 1] \o m # <<>>
            /\ Head(r[p - 1] \o m) = Head(r[p - 1])
            /\ Tail(r[p - 1] \o m) = Tail(r[p - 1]) \o m
    BY <2>2, HeadConcat
  <2> QED
    BY <2>1, <2>2, <2>3 DEF Spelled
<1>10. Spelled(s[n + 1], g[(n + 1) - 1], t[(n + 1) - 1], g[n + 1], t[n + 1])
  <2>1. g[n] = f1 /\ t[n] = m
    <3>1. <<>> \o m = m
      BY ConcatEmptySeq
    <3> QED
      BY <1>2, <1>3, <1>4, <1>5, <3>1
  <2> QED
    BY <1>1, <1>5, <1>8, <2>1
<1>11. \A p \in 1..(n + 1) : Spelled(s[p], g[p - 1], t[p - 1], g[p], t[p])
  BY <1>5, <1>9, <1>10
<1>12. Spells(s, f0, r0 \o m, f2)
  <2>1. PICK l : l = Len(s) /\ l = n + 1
    BY <1>1
  <2>2. /\ g \in [0..l -> Seq(Frames)] /\ t \in [0..l -> Seq(Seq(Frames))]
        /\ g[0] = f0 /\ t[0] = r0 \o m /\ g[l] = f2 /\ t[l] = <<>>
        /\ \A p \in 1..l : Spelled(s[p], g[p - 1], t[p - 1], g[p], t[p])
    BY <1>7, <1>8, <1>11, <2>1
  <2> QED
    BY <2>1, <2>2 DEF Spells
<1> QED
  BY <1>12 DEF s

\* Where main goes on.
LEMMA ThenMoves ==
    /\ \A p \in Places : At(p).then = "none"
    /\ \A o \in Opcodes, t \in Targets : Writing(o, t).then = t
    /\ \A t \in Targets : Closing(t).then = t
    /\ \A g \in Goroutine, p \in Places : [g EXCEPT !.at = p].then = g.then
  BY DEF At, Writing, Closing, Place, Goroutine

\* Steps that leave the messages alone and after which main reads only if it may
\* have read before.
LEMMA QuietHears ==
    ASSUME HeardInv, UNCHANGED <<inbound, fragments, spoken, speaking, misheard>>,
           ThenInv', MayRead' => MayRead
    PROVE  HeardInv'
<1>1. FramesInv'
  BY DEF HeardInv, FramesInv
<1>2. MayRead' => Spells(inbound, fragments, spoken, speaking)'
  BY DEF HeardInv
<1> QED
  BY <1>1, <1>2 DEF HeardInv

\* main after it failed to write, or wrote.
LEMMA WritesHear ==
    ASSUME TypeInv, HeardInv, main.at \in {"locking", "writing"}, Failed(main) \/ Written(main)
    PROVE  ThenInv' /\ (MayRead' => MayRead)
<1>1. /\ main.opcode \in Opcodes /\ main.then \in Targets /\ Targets \subseteq Places
      /\ "over" \in Targets
  BY DEF TypeInv, Goroutine, Targets, Places
<1>2. \/ main' = Closing("over")
      \/ main' = Closing(main.then) /\ main.opcode = "close"
      \/ main' = At(main.then) /\ main.opcode # "close"
  BY DEF Failed, Written, Sends
<1>3. CASE main' = Closing("over") \/ (main' = Closing(main.then) /\ main.opcode = "close")
  <2>1. /\ main'.opcode = "close" /\ main'.at = "closing"
        /\ main'.then = "over" \/ (main'.then = main.then /\ main.opcode = "close")
    BY <1>1, <1>3, PlacesType, ThenMoves
  <2> QED
    BY <2>1 DEF HeardInv, ThenInv, MayRead
<1>4. CASE main' = At(main.then)
  <2>1. main'.opcode = "none" /\ main'.at = main.then /\ main'.then = "none"
    BY <1>1, <1>4, PlacesType, ThenMoves
  <2> QED
    BY <1>1, <2>1 DEF ThenInv, MayRead, Targets
<1> QED
  BY <1>2, <1>3, <1>4

\* The steps of main that do not read.
LEMMA MainHears ==
    ASSUME TypeInv, HeardInv, Dial \/ Handshake \/ Refusal \/ MainWrites \/ MainCloses \/ MainReadFails
                                 \/ MainEnds \/ MainSends
    PROVE  HeardInv'
<1>1. UNCHANGED <<inbound, fragments, spoken, speaking, misheard>>
  BY DEF Dial, Handshake, Refusal, MainWrites, MainCloses, MainReadFails, MainEnds, MainSends, TheRest,
         peerVars, connVars, Connects, Abandons, Locks, WritesAndUnlocks, WriteFails,
         MarksClosed, ClosesSocket, ReadFails
<1>2. main \in Goroutine /\ ThenInv /\ main.opcode \in Opcodes /\ main.then \in Targets
      /\ Targets \subseteq Places
  BY DEF TypeInv, HeardInv, Goroutine, Targets, Places
<1>3. ASSUME NEW p \in Places, main' = [main EXCEPT !.at = p],
             p \in {"writing", "last frame", "last"},
             main.at = IF p = "writing" THEN "locking" ELSE IF p = "last" THEN main.at ELSE "closing",
             p = "last" => main.at \in {"closing", "last frame"}
      PROVE  ThenInv' /\ (MayRead' => MayRead)
  <2>1. main'.at = p /\ main'.opcode = main.opcode /\ main'.then = main.then
    BY <1>2, <1>3, GoesOn, ThenMoves
  <2> QED
    BY <1>2, <1>3, <2>1 DEF ThenInv, MayRead
<1>4. ASSUME NEW p \in {"handshaking", "refused", "over", "ending", "broken"}, main' = At(p),
             p = "handshaking" => main.at = "dialing"
      PROVE  ThenInv' /\ (MayRead' => MayRead)
  <2>1. p \in Places
    BY <1>4 DEF Places
  <2>2. main'.at = p /\ main'.opcode = "none" /\ main'.then = "none"
    BY <1>4, <2>1, PlacesType, ThenMoves
  <2> QED
    BY <1>4, <2>2 DEF ThenInv, MayRead
<1>5. CASE main' = Closing("over")
  <2>1. main'.at = "closing" /\ main'.opcode = "close" /\ main'.then = "over"
    BY <1>5, PlacesType, ThenMoves DEF Targets
  <2> QED
    BY <1>1, <2>1, QuietHears DEF ThenInv, MayRead
<1>6. CASE Dial
  <2>1. main.at = "dialing" /\ main' \in {At("handshaking"), At("over")}
    BY <1>6 DEF Dial, Free, Sends
  <2> QED
    BY <1>1, <1>4, <2>1, QuietHears
<1>7. CASE Handshake
  <2>1. main.at = "handshaking" /\ main' \in {Writing("text", "reading"), At("refused"), At("over")}
    BY <1>7 DEF Handshake, Free, Sends
  <2>2. CASE main' = Writing("text", "reading")
    <3>1. main'.at = "locking" /\ main'.opcode = "text" /\ main'.then = "reading"
      BY <2>2, PlacesType, ThenMoves DEF Opcodes, Targets
    <3> QED
      BY <1>1, <2>1, <3>1, QuietHears DEF ThenInv, MayRead
  <2> QED
    BY <1>1, <1>4, <2>1, <2>2, QuietHears
<1>8. CASE MainWrites
  <2>1. CASE main.at = "locking" /\ main' = [main EXCEPT !.at = "writing"]
    BY <1>1, <1>3, <2>1, QuietHears DEF Places
  <2>2. CASE main.at \in {"locking", "writing"} /\ (Failed(main) \/ Written(main))
    BY <1>1, <2>2, WritesHear, QuietHears
  <2> QED
    BY <1>8, <2>1, <2>2 DEF MainWrites, Free
<1>9. CASE MainCloses
  <2>1. CASE main.at = "closing" /\ main' = [main EXCEPT !.at = "last frame"]
    BY <1>1, <1>3, <2>1, QuietHears DEF Places
  <2>2. CASE main.at \in {"closing", "last frame"} /\ main' = [main EXCEPT !.at = "last"]
    BY <1>1, <1>3, <2>2, QuietHears DEF Places
  <2>3. CASE main.at = "last" /\ main' = At(main.then)
    <3>1. main'.at = main.then /\ main'.opcode = "none" /\ main'.then = "none"
      BY <1>2, <2>3, PlacesType, ThenMoves
    <3>2. main.then # "reading"
      BY <1>2, <2>3 DEF ThenInv
    <3> QED
      BY <1>1, <1>2, <3>1, <3>2, QuietHears DEF ThenInv, MayRead, Targets
  <2> QED
    BY <1>9, <2>1, <2>2, <2>3 DEF MainCloses, Free
<1>10. CASE MainReadFails
  <2>1. main' \in {At("ending"), At("broken")}
    BY <1>10 DEF MainReadFails, Sends
  <2> QED
    BY <1>1, <1>4, <2>1, QuietHears
<1>11. CASE main' = main
  <2>1. ThenInv' /\ (MayRead' => MayRead)
    BY <1>2, <1>11 DEF ThenInv, MayRead
  <2> QED
    BY <1>1, <2>1, QuietHears
<1>12. MainEnds => main' = Closing("over")
  BY DEF MainEnds, Sends
<1>13. MainSends => main' = main \/ main' = Closing("over")
  BY DEF MainSends
<1>14. CASE Refusal
  <2>1. main' = At("over")
    BY <1>14 DEF Refusal, Sends
  <2> QED
    BY <1>1, <1>4, <2>1, QuietHears
<1> QED
  BY <1>5, <1>6, <1>7, <1>8, <1>9, <1>10, <1>11, <1>12, <1>13, <1>14

\* main reads: what it takes for a message is the next one.
LEMMA ReadsHear ==
    ASSUME TypeInv, HeardInv, MainReads
    PROVE  HeardInv'
<1> DEFINE e == Head(inbound)
<1>1. /\ inbound # <<>> /\ inbound' = Tail(inbound) /\ UNCHANGED speaking
      /\ main.at = "reading" /\ MayRead
  BY DEF MainReads, Free, Arrives, Takes, MayRead
<1>2. /\ inbound \in Seq(Frames) /\ fragments \in Seq(Frames) /\ speaking \in Seq(Frames)
      /\ spoken \in Seq(Seq(Frames)) /\ e \in Frames /\ Tail(inbound) \in Seq(Frames)
      /\ ~misheard /\ ThenInv
  BY <1>1, HeadTailProperties DEF HeardInv, FramesInv
<1>3. PICK f \in Seq(Frames), r \in Seq(Seq(Frames)) :
          Spelled(e, fragments, spoken, f, r) /\ Spells(Tail(inbound), f, r, speaking)
  BY <1>1, <1>2, SpellsHead DEF HeardInv
<1>4. ThenInv'
  <2>1. CASE main' = main
    BY <1>2, <2>1 DEF ThenInv
  <2>2. CASE main' \in {At("broken"), At("reading"), At("ending")}
    <3>1. main'.opcode = "none" /\ main'.at \in {"broken", "reading", "ending"}
      BY <2>2, PlacesType DEF Places
    <3> QED
      BY <3>1 DEF ThenInv
  <2>3. CASE main' \in {Closing("over"), Writing("pong", "reading"), Writing("close", "ending")}
    <3>1. /\ main'.at = "closing" => main'.opcode = "close"
          /\ main'.at \in {"locking", "closing"}
          /\ main'.opcode = "close" => main'.then # "reading"
      BY <2>3, PlacesType, ThenMoves DEF Opcodes, Targets
    <3> QED
      BY <3>1 DEF ThenInv
  <2> QED
    BY <2>1, <2>2, <2>3 DEF MainReads, Sends
<1>5. CASE Refused(e) /\ main' = At("broken") /\ fragments' = <<>> /\ UNCHANGED <<misheard, spoken>>
  <2>1. ~MayRead'
    BY <1>5, PlacesType DEF Places, MayRead
  <2>2. FramesInv'
    BY <1>1, <1>2, <1>5 DEF FramesInv
  <2> QED
    BY <1>2, <1>4, <1>5, <2>1, <2>2 DEF HeardInv
<1>6. CASE /\ e.opcode \in {"ping", "pong", "close"} /\ fragments' = fragments
           /\ UNCHANGED <<misheard, spoken>>
  <2>1. f = fragments /\ r = spoken
    BY <1>3, <1>6 DEF Spelled, IsData
  <2>2. FramesInv' /\ Spells(inbound, fragments, spoken, speaking)'
    BY <1>1, <1>2, <1>3, <1>6, <2>1 DEF FramesInv
  <2> QED
    BY <1>2, <1>4, <1>6, <2>2 DEF HeardInv
<1>7. CASE /\ IsData(e) /\ ~e.fin /\ fragments' = Assembled(e)
           /\ UNCHANGED <<misheard, spoken>>
  <2>1. f = Assembled(e) /\ r = spoken
    BY <1>3, <1>7 DEF Spelled, Assembled
  <2>2. FramesInv' /\ Spells(inbound, fragments, spoken, speaking)'
    BY <1>1, <1>2, <1>3, <1>7, <2>1 DEF FramesInv
  <2> QED
    BY <1>2, <1>4, <1>7, <2>2 DEF HeardInv
<1>8. CASE /\ IsData(e) /\ e.fin /\ fragments' = <<>> /\ spoken' = Tail(spoken)
           /\ misheard' = (misheard \/ Assembled(e) # Head(spoken))
  <2>1. f = <<>> /\ r = Tail(spoken) /\ Assembled(e) = Head(spoken)
    BY <1>3, <1>8 DEF Spelled, Assembled
  <2>2. FramesInv' /\ Spells(inbound, fragments, spoken, speaking)'
    BY <1>1, <1>2, <1>3, <1>8, <2>1 DEF FramesInv
  <2>3. ~misheard'
    BY <1>2, <1>8, <2>1
  <2> QED
    BY <1>4, <2>2, <2>3 DEF HeardInv
<1> QED
  BY <1>5, <1>6, <1>7, <1>8 DEF MainReads, Takes, Completes, Sends

\* A frame of the peer is typed, and starts a message or goes on with one.
LEMMA NextFramesType ==
    ASSUME speaking \in Seq(Frames), NEW e \in NextFrames
    PROVE  e \in Frames /\ (IsData(e) => (e.opcode = "text" <=> speaking = <<>>))
<1>1. CASE speaking = <<>> /\ \E fin \in BOOLEAN, t \in {"created", "completed", "error", "foreign"} :
                                  e = Frame("text", fin, Message(t))
  BY <1>1 DEF Frame, Frames, Messages, IsData
<1>2. CASE speaking # <<>> /\ e = Frame("cont", TRUE, speaking[1].message)
  <2>1. speaking[1] \in Frames
    BY <1>2, HeadTailProperties
  <2>2. speaking[1].message \in Messages
    BY <2>1 DEF Frames
  <2> QED
    BY <1>2, <2>2 DEF Frame, Frames, IsData
<1>3. CASE \E opcode \in {"ping", "close", "unsupported"} : e = Frame(opcode, TRUE, [type |-> "none"])
  BY <1>3 DEF Frame, Frames, Messages, IsData
<1>4. CASE speaking = <<>>
  <2>1. \/ \E fin \in BOOLEAN, t \in {"created", "completed", "error", "foreign"} :
              e = Frame("text", fin, Message(t))
        \/ \E opcode \in {"ping", "close", "unsupported"} : e = Frame(opcode, TRUE, [type |-> "none"])
    BY <1>4 DEF NextFrames, Frame, Message
  <2> QED
    BY <1>1, <1>3, <1>4, <2>1
<1>5. CASE speaking # <<>>
  <2>1. \/ e = Frame("cont", TRUE, speaking[1].message)
        \/ \E opcode \in {"ping", "close", "unsupported"} : e = Frame(opcode, TRUE, [type |-> "none"])
    BY <1>5 DEF NextFrames, Frame, Message
  <2> QED
    BY <1>2, <1>3, <1>5, <2>1
<1> QED
  BY <1>4, <1>5

\* The peer sends: its frame goes behind those that wait.
LEMMA PeerHears ==
    ASSUME TypeInv, HeardInv, Peer
    PROVE  HeardInv'
<1>1. UNCHANGED <<main, fragments, misheard>>
  BY DEF Peer
<1>2. /\ inbound \in Seq(Frames) /\ fragments \in Seq(Frames) /\ speaking \in Seq(Frames)
      /\ spoken \in Seq(Seq(Frames)) /\ ~misheard
  BY DEF HeardInv, FramesInv
<1>3. ThenInv' /\ (MayRead' => MayRead)
  BY <1>1 DEF HeardInv, ThenInv, MayRead
<1>4. CASE UNCHANGED <<inbound, spoken, speaking>>
  BY <1>1, <1>3, <1>4, QuietHears
<1>5. ASSUME PeerSends PROVE HeardInv'
  <2>1. PICK e \in NextFrames :
            /\ inbound' = Append(inbound, e)
            /\ speaking' = IF IsData(e) THEN (IF e.fin THEN <<>> ELSE <<e>>) ELSE speaking
            /\ spoken' = IF IsData(e) /\ e.fin THEN Append(spoken, Append(speaking, e)) ELSE spoken
    BY <1>5 DEF PeerSends
  <2>2. e \in Frames /\ (IsData(e) => (e.opcode = "text" <=> speaking = <<>>))
    BY <1>2, <2>1, NextFramesType
  <2>3. IsData(e) /\ ~e.fin => speaking = <<>> /\ Append(speaking, e) = <<e>>
    <3>1. CASE speaking = <<>>
      BY <3>1
    <3>2. CASE speaking # <<>>
      BY <2>1, <3>2 DEF NextFrames, Frame, IsData
    <3> QED
      BY <3>1, <3>2
  <2>4. Append(speaking, e) \in Seq(Frames) /\ Append(inbound, e) \in Seq(Frames) /\ <<e>> \in Seq(Frames)
    BY <1>2, <2>2, AppendProperties
  <2>5. PICK m : m = IF IsData(e) /\ e.fin THEN <<Append(speaking, e)>> ELSE <<>>
    OBVIOUS
  <2>6. m \in Seq(Seq(Frames)) /\ (m = <<>> \/ \E x \in Seq(Frames) : m = <<x>>)
    <3>1. CASE m = <<>>
      BY <3>1
    <3>2. ASSUME NEW x \in Seq(Frames), m = <<x>>
          PROVE  m \in Seq(Seq(Frames)) /\ (m = <<>> \/ \E y \in Seq(Frames) : m = <<y>>)
      BY <3>2
    <3> QED
      BY <2>4, <2>5, <3>1, <3>2
  <2>7. spoken' = spoken \o m /\ spoken' \in Seq(Seq(Frames))
    <3>1. CASE IsData(e) /\ e.fin
      BY <1>2, <2>1, <2>4, <2>5, <3>1, AppendIsConcat, AppendProperties
    <3>2. CASE ~(IsData(e) /\ e.fin)
      BY <1>2, <2>1, <2>5, <3>2, ConcatEmptySeq
    <3> QED
      BY <3>1, <3>2
  <2>8. Spelled(e, speaking, m, speaking', <<>>)
    <3>1. CASE IsData(e) /\ e.fin
      <4>1. m # <<>> /\ Append(speaking, e) = Head(m) /\ Tail(m) = <<>>
        BY <2>5, <3>1
      <4> QED
        BY <2>1, <2>2, <3>1, <4>1 DEF Spelled
    <3>2. CASE ~(IsData(e) /\ e.fin)
      BY <2>1, <2>2, <2>3, <2>5, <3>2 DEF Spelled
    <3> QED
      BY <3>1, <3>2
  <2>9. speaking' \in Seq(Frames)
    BY <1>2, <2>1, <2>4
  <2>10. MayRead' => Spells(Append(inbound, e), fragments, spoken \o m, speaking')
    BY <1>2, <1>3, <2>2, <2>6, <2>8, <2>9, SpellsAppend DEF HeardInv
  <2>11. MayRead' => Spells(inbound, fragments, spoken, speaking)'
    BY <1>1, <2>1, <2>7, <2>10
  <2>12. FramesInv'
    BY <1>1, <1>2, <2>1, <2>4, <2>7, <2>9 DEF FramesInv
  <2> QED
    BY <1>1, <1>2, <1>3, <2>11, <2>12 DEF HeardInv
<1> QED
  BY <1>4, <1>5 DEF Peer, PeerAnswers, PeerReads, PeerLeaves

\* The guard, the caller and the canceller.
LEMMA OthersHear ==
    ASSUME TypeInv, HeardInv, Guard \/ Consume \/ Cancel \/ UNCHANGED vars
    PROVE  HeardInv'
<1>1. UNCHANGED <<main, inbound, fragments, spoken, speaking, misheard>>
  BY DEF Guard, Consume, Cancel, vars, TheRest, peerVars, connVars, MarksClosed, WritesAndUnlocks,
         WriteFails, ClosesSocket
<1>2. ThenInv' /\ (MayRead' => MayRead)
  BY <1>1 DEF HeardInv, ThenInv, MayRead
<1> QED
  BY <1>1, <1>2, QuietHears

\* A peer that has said nothing.
LEMMA InitHears ==
    ASSUME Init
    PROVE  HeardInv
<1>1. main = At("dialing") /\ inbound = <<>> /\ fragments = <<>> /\ spoken = <<>> /\ speaking = <<>>
      /\ misheard = FALSE
  BY DEF Init, ConnInit
<1>2. <<>> \in Seq(Frames) /\ <<>> \in Seq(Seq(Frames)) /\ Len(<<>>) = 0
  OBVIOUS
<1>3. Spells(<<>>, <<>>, <<>>, <<>>)
  <2>1. PICK f : f = [p \in 0..0 |-> <<>>]
    OBVIOUS
  <2>2. f \in [0..0 -> Seq(Frames)] /\ f \in [0..0 -> Seq(Seq(Frames))] /\ f[0] = <<>>
    BY <1>2, <2>1
  <2>3. \A p \in 1..0 : FALSE
    OBVIOUS
  <2> QED
    BY <1>2, <2>2, <2>3 DEF Spells
<1>4. ThenInv
  BY <1>1 DEF ThenInv, At, Place
<1> QED
  BY <1>1, <1>2, <1>3, <1>4 DEF HeardInv, FramesInv

\* ReadMessage returns the messages of the peer whole, once and in order, and never
\* refuses a part of one, however they are cut into frames and whatever control
\* frames, pongs of main's and steps of the guard come between (ws.go:257-299).
THEOREM MessagesWholeHolds == Spec => []MessagesWhole
<1>1. HeardInv => MessagesWhole
  <2> SUFFICES ASSUME HeardInv, main.at = "reading", inbound # <<>>, IsData(Head(inbound))
               PROVE  ~Refused(Head(inbound))
    BY DEF HeardInv, MessagesWhole, Free, Arrives
  <2>1. Spells(inbound, fragments, spoken, speaking) /\ inbound \in Seq(Frames)
    BY DEF HeardInv, FramesInv, MayRead
  <2>2. \E f, r : Spelled(Head(inbound), fragments, spoken, f, r)
    BY <2>1, SpellsHead
  <2> QED
    BY <2>2 DEF Spelled, Refused, IsData
<1>2. IInv /\ HeardInv /\ [Next]_vars => HeardInv'
  BY MainHears, ReadsHear, PeerHears, OthersHear DEF Next, Main, IInv
<1> QED
  BY <1>1, <1>2, InitHears, Invariance, PTL DEF Spec
==============================================================================
