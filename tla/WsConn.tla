-------------------------------- MODULE WsConn --------------------------------
(***************************************************************************)
(* A client connection of pkg/ws (ws.go) between goroutines that share it   *)
(* and a peer: the handshake, the write lock, the socket's buffer, frames   *)
(* in both directions and the two ways a connection is closed.              *)
(*                                                                          *)
(* A frame from the peer has an opcode ("text", "cont", "ping", "pong",     *)
(* "close", or one that the reader refuses), a FIN bit, and as data the     *)
(* message it is a part of, the "whole" of it or a "half".                  *)
(***************************************************************************)
EXTENDS Naturals, Sequences, SequencesExt

CONSTANT SocketCap   \* bound: the frames the socket takes, either way, until they are read

VARIABLES net,       (* netConn: "none", "open", "closed" (by this side)       *)
          answer,    (* the peer's answer to the upgrade request: "accepted",  *)
                     (* "mismatched" (a wrong key), "refusing" (another status *)
                     (* whose body is not all there) or "refused"              *)
          peerGone,  (* the peer has closed the TCP connection                 *)
          closed,    (* Conn.closed                                            *)
          lock,      (* the goroutine that holds writeMu                       *)
          socket,    (* what was written and the peer has not read             *)
          written,   (* history: "frames", a "close", or frames "late" after it *)
          inbound,   (* the frames of the peer that were not read              *)
          fragments  (* the parts of the message that ReadMessage assembles    *)

connVars == <<net, answer, peerGone, closed, lock, socket, written, inbound, fragments>>

Nobody == "nobody"

ConnInit ==
    /\ net = "none"
    /\ answer = "none"
    /\ peerGone = FALSE
    /\ closed = FALSE
    /\ lock = Nobody
    /\ socket = <<>>
    /\ written = "frames"
    /\ inbound = <<>>
    /\ fragments = <<>>

-----------------------------------------------------------------------------
(* Dial. *)

Connects ==
    /\ net' = "open"
    /\ UNCHANGED <<answer, peerGone, closed, lock, socket, written, inbound, fragments>>

\* A handshake that fails closes the connection without a close frame.
Abandons ==
    /\ net' = "closed"
    /\ UNCHANGED <<answer, peerGone, closed, lock, socket, written, inbound, fragments>>

\* The reply to the upgrade request is awaited; only a deadline of the context
\* ends the wait.
HandshakeFails(expired) == answer = "mismatched" \/ peerGone \/ expired

\* Of a refusal the body is read before the connection is closed, when the
\* deadline was already cleared: only the peer ends this wait.
HandshakeRefused == answer \in {"refusing", "refused"}
BodyEnds == answer = "refused" \/ peerGone

-----------------------------------------------------------------------------
(* Writing. *)

\* Mutant: a closed connection is not noticed by a writer.
LocksAnyway(me) ==
    /\ lock = Nobody
    /\ lock' = me
    /\ UNCHANGED <<net, answer, peerGone, closed, socket, written, inbound, fragments>>

\* writeFrame takes the lock, if the connection was not closed meanwhile.
Locks(me) ==
    /\ lock = Nobody /\ ~closed
    /\ lock' = me
    /\ UNCHANGED <<net, answer, peerGone, closed, socket, written, inbound, fragments>>

FindsClosed == lock = Nobody /\ closed

\* writeFrameLocked, with the lock held: blocks while the socket is full.
Room == net = "open" /\ Len(socket) < SocketCap

WritesAndUnlocks(opcode) ==
    /\ Room
    /\ socket' = Append(socket, opcode)
    /\ written' = IF opcode = "close" /\ written = "frames" THEN "close"
                  ELSE IF opcode # "close" /\ written = "close" THEN "late"
                  ELSE written
    /\ lock' = Nobody
    /\ UNCHANGED <<net, answer, peerGone, closed, inbound, fragments>>

WriteFails ==
    /\ net # "open" \/ peerGone
    /\ lock' = Nobody
    /\ UNCHANGED <<net, answer, peerGone, closed, socket, written, inbound, fragments>>

-----------------------------------------------------------------------------
(* Close: the first caller writes a close frame, with the lock held; every      *)
(* caller then closes the TCP connection.                                       *)

MarksClosed(me) ==
    /\ lock = Nobody /\ ~closed
    /\ closed' = TRUE
    /\ lock' = me
    /\ UNCHANGED <<net, answer, peerGone, socket, written, inbound, fragments>>

ClosesSocket ==
    /\ net' = "closed"
    /\ UNCHANGED <<answer, peerGone, closed, lock, socket, written, inbound, fragments>>

-----------------------------------------------------------------------------
(* ReadMessage.  Bytes that the buffered reader holds are read even after the   *)
(* connection was closed.                                                       *)

Arrives == inbound # <<>>
Takes(parts) ==
    /\ inbound' = Tail(inbound)
    /\ fragments' = parts
    /\ UNCHANGED <<net, answer, peerGone, closed, lock, socket, written>>

IsData(f) == f.opcode \in {"text", "cont"}
Refused(f) ==
    CASE f.opcode = "text" -> fragments # <<>>
      [] f.opcode = "cont" -> fragments = <<>>
      [] OTHER -> f.opcode \notin {"ping", "pong", "close"}

\* Mutant: the last fragment is taken for the message.
LastFragment(f) == <<f>>

\* The message so far.
Assembled(f) == Append(fragments, f)

Completes(f) == IsData(f) /\ ~Refused(f) /\ f.fin

\* Mutant: a read that ends without a frame is tried again.
FailsWhenClosed(eof) == net = "closed" /\ ~eof /\ UNCHANGED connVars

\* readFrame fails: the peer left, maybe inside a frame, or this side closed.
ReadFails(eof) ==
    /\ \/ peerGone /\ inbound = <<>>
       \/ net = "closed" /\ ~eof
    /\ UNCHANGED connVars
==============================================================================
