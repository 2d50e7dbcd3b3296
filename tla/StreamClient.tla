----------------------------- MODULE StreamClient -----------------------------
(***************************************************************************)
(* A strict consumer of the events of one reply.  It keeps what it was      *)
(* told and turns "broken" at the first event that a reader of the         *)
(* documented sequence (README.md:89) could not make sense of.             *)
(***************************************************************************)
EXTENDS Integers, Sequences

VARIABLES phase, blocks, open, reason

clientVars == <<phase, blocks, open, reason>>

ClientInit ==
    /\ phase = "idle"
    /\ blocks = <<>>
    /\ open = {}
    /\ reason = "none"

ClientTypeOK(Block, StopReason) ==
    /\ phase \in {"idle", "streaming", "closing", "ended", "broken"}
    /\ blocks \in Seq(Block)
    /\ open \in SUBSET Nat
    /\ reason \in {"none"} \cup StopReason

IsFinal(e) == e.type = "message_delta" /\ e.info # "none"

\* Whether the event makes sense to a consumer that was told what this one was.
Acceptable(e) ==
    CASE e.type = "message_start" -> phase = "idle"
      [] e.type = "block_start" ->
            /\ phase = "streaming"
            /\ e.index = Len(blocks)
            /\ \A i \in open : blocks[i + 1].kind = "tool_use"
      [] e.type = "block_delta" ->
            /\ phase = "streaming"
            /\ e.index \in open
            /\ blocks[e.index + 1] = [kind |-> e.info, tool |-> e.tool]
      [] e.type = "block_stop" -> phase = "streaming" /\ e.index \in open
      [] IsFinal(e) -> phase = "streaming" /\ open = {}
      [] e.type = "message_stop" -> phase = "closing"
      [] e.type = "error" -> phase \in {"idle", "streaming"}
      [] e.type = "ping" -> phase # "broken"
      [] OTHER -> phase = "streaming"

NextPhase(e) ==
    CASE e.type = "message_start" -> "streaming"
      [] IsFinal(e) -> "closing"
      [] e.type = "message_stop" -> "ended"
      [] OTHER -> phase

Receive(e) ==
    \/ /\ ~Acceptable(e)
       /\ phase' = "broken"
       /\ UNCHANGED <<blocks, open, reason>>
    \/ /\ Acceptable(e)
       /\ phase' = NextPhase(e)
       /\ blocks' = IF e.type = "block_start"
                    THEN Append(blocks, [kind |-> e.info, tool |-> e.tool])
                    ELSE blocks
       /\ open' = IF e.type = "block_start" THEN open \cup {e.index}
                  ELSE IF e.type = "block_stop" THEN open \ {e.index}
                  ELSE open
       /\ reason' = IF IsFinal(e) THEN e.info ELSE reason
==============================================================================
