---------------------------- MODULE BlockProtocol ----------------------------
(***************************************************************************)
(* What a consumer of one streamed reply is promised (README.md:89,        *)
(* bamboo/stream.go): message_start, then content blocks that are started, *)
(* fed and stopped, then one message_delta with a stop reason and one      *)
(* message_stop, after which the reply is over.  Pings, errors, metadata   *)
(* deltas and block deltas leave this state alone, they are stutters here. *)
(***************************************************************************)
EXTENDS Naturals, Sequences

CONSTANTS Blocks,   (* what a block may be                                 *)
          Overlap,  (* the blocks that may stay open side by side          *)
          Reasons   (* the stop reasons a reply may end with               *)

VARIABLES phase,    (* "idle", "streaming", "closing" or "ended"           *)
          blocks,   (* blocks[i + 1] is the block with index i             *)
          open,     (* the indexes of the blocks that are not stopped      *)
          reason    (* the stop reason, "none" until it was announced      *)

vars == <<phase, blocks, open, reason>>

Init ==
    /\ phase = "idle"
    /\ blocks = <<>>
    /\ open = {}
    /\ reason = "none"

MessageStart ==
    /\ phase = "idle"
    /\ phase' = "streaming"
    /\ UNCHANGED <<blocks, open, reason>>

\* Indexes are handed out without gaps, and a block starts only when every
\* block still open is one that may overlap with others.
BlockStart(b) ==
    /\ phase = "streaming"
    /\ \A i \in open : blocks[i + 1] \in Overlap
    /\ blocks' = Append(blocks, b)
    /\ open' = open \cup {Len(blocks)}
    /\ UNCHANGED <<phase, reason>>

\* A block is stopped once: afterwards it is no longer open.
BlockStop(i) ==
    /\ phase = "streaming"
    /\ i \in open
    /\ open' = open \ {i}
    /\ UNCHANGED <<phase, blocks, reason>>

\* The stop reason comes when no block is left open.
FinalDelta(r) ==
    /\ phase = "streaming"
    /\ open = {}
    /\ phase' = "closing"
    /\ reason' = r
    /\ UNCHANGED <<blocks, open>>

MessageStop ==
    /\ phase = "closing"
    /\ phase' = "ended"
    /\ UNCHANGED <<blocks, open, reason>>

Next ==
    \/ MessageStart
    \/ \E b \in Blocks : BlockStart(b)
    \/ \E i \in open : BlockStop(i)
    \/ \E r \in Reasons : FinalDelta(r)
    \/ MessageStop

Spec == Init /\ [][Next]_vars
==============================================================================
