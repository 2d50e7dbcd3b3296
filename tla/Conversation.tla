----------------------------- MODULE Conversation -----------------------------
(***************************************************************************)
(* The conversations a client may send: the messages that may come after    *)
(* those in `history'.  A codec hands over whatever the client wrote, so    *)
(* that calls may stay unanswered and results may be lone, early or given   *)
(* twice; and two messages of one role may follow each other.  Ids are      *)
(* first used in the order of AskedIDs, by symmetry.                        *)
(***************************************************************************)
EXTENDS Naturals, Sequences, SequencesExt

CONSTANTS NoID,       (* a tool call without an id                            *)
          AskedIDs    (* the ids of tool calls, in the order they are used    *)

Turn(role, text, thinking, calls, results) ==
    [role |-> role, text |-> text, thinking |-> thinking, calls |-> calls, results |-> results]

Mentioned(history) ==
    UNION {ToSet(history[p].calls) \cup ToSet(history[p].results) : p \in DOMAIN history}

InOrder(ids, used) ==
    \A p \in DOMAIN ids, q \in DOMAIN AskedIDs :
        (\E r \in DOMAIN AskedIDs : q < r /\ AskedIDs[r] = ids[p]) =>
            AskedIDs[q] \in used \cup ToSet(SubSeq(ids, 1, p - 1))

\* Up to two ids, or all of them once.
IDSeqs(history) ==
    {ids \in UNION {[1..n -> ToSet(AskedIDs)] : n \in 0..3} :
        /\ InOrder(ids, Mentioned(history))
        /\ Len(ids) > 2 => IsInjective(ids)}

NextTurns(history) ==
    {Turn("user", text, FALSE, <<>>, ids) : text \in BOOLEAN, ids \in IDSeqs(history)}
        \cup {Turn("assistant", text, FALSE, ids, <<>>) :
                 text \in BOOLEAN, ids \in {s \in IDSeqs(history) : Len(s) < 3}}
        \cup {Turn("assistant", FALSE, TRUE, <<>>, <<>>),
              Turn("assistant", FALSE, FALSE, <<NoID>>, <<>>),
              Turn("user", FALSE, FALSE, <<>>, <<NoID>>),
              Turn("system", TRUE, FALSE, <<>>, <<>>)}
=============================================================================
