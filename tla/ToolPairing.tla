----------------------------- MODULE ToolPairing -----------------------------
(***************************************************************************)
(* messagesToProvider and sanitizeToolMessages (bamboo/convert.go): a       *)
(* client's conversation becomes the messages an adapter is given, with     *)
(* every tool result a message of its own, and without the calls and        *)
(* results that have no partner.                                            *)
(*                                                                          *)
(* A client message has a text, foreign thinking, the ids of its tool_use   *)
(* blocks (`calls') and of its tool_result blocks (`results').  A provider  *)
(* message remembers in `from' the client message it was made of; a tool    *)
(* message has the id of the call it answers.                               *)
(***************************************************************************)
EXTENDS SequencesExt

CONSTANT NoID   \* a call or a result without an id

Roles == {"user", "assistant", "system"}
Texts == {"none", "said", "dash"}

ProviderMessage(role, text, thinking, calls, id, from) ==
    [role |-> role, text |-> text, thinking |-> thinking, calls |-> calls, id |-> id, from |-> from]
ToolMessage(id, from) == ProviderMessage("tool", "said", FALSE, <<>>, id, from)

If(b, messages) == IF b THEN messages ELSE <<>>
WithID(ids) == FlattenSeq([p \in DOMAIN ids |-> If(ids[p] # NoID, <<ids[p]>>)])

ProviderRole(role) == IF role = "assistant" THEN "assistant" ELSE "user"

\* The text is before the results, whatever the order of the blocks.  A message
\* without blocks is passed on, of an assistant with a dash for a content.
Converted(m, from) ==
    LET calls == WithID(m.calls)
        results == WithID(m.results)
        hasContent == m.text \/ m.thinking \/ calls # <<>>
        isEmpty == ~m.text /\ ~m.thinking /\ m.calls = <<>> /\ m.results = <<>>
        text == IF m.text THEN "said"
                ELSE IF isEmpty /\ m.role = "assistant" THEN "dash" ELSE "none"
    IN  If(hasContent \/ isEmpty,
           <<ProviderMessage(ProviderRole(m.role), text, m.thinking, calls, NoID, from)>>)
            \o [p \in DOMAIN results |-> ToolMessage(results[p], from)]

-----------------------------------------------------------------------------
(* Pairing.  A call is declared where its id occurs first, and answered by the *)
(* first tool message with its id that comes after.                            *)

Earlier(i, j, k, l) == i < k \/ (i = k /\ j < l)

Calls(msgs, i) == IF msgs[i].role = "assistant" THEN msgs[i].calls ELSE <<>>

Declares(msgs, i, j) ==
    /\ j \in DOMAIN Calls(msgs, i)
    /\ \A k \in DOMAIN msgs : \A l \in DOMAIN Calls(msgs, k) :
          Earlier(k, l, i, j) => Calls(msgs, k)[l] # Calls(msgs, i)[j]

DeclaredBefore(msgs, i) ==
    \E k \in DOMAIN msgs : k <= i /\ \E l \in DOMAIN Calls(msgs, k) :
        Calls(msgs, k)[l] = msgs[i].id /\ Declares(msgs, k, l)

\* Mutant: every result with a call is kept, also a second one.
AnyAnswer(msgs, i) == msgs[i].role = "tool" /\ DeclaredBefore(msgs, i)

Answer(msgs, i) ==
    /\ msgs[i].role = "tool"
    /\ DeclaredBefore(msgs, i)
    /\ \A k \in DOMAIN msgs :
          msgs[k].role = "tool" /\ msgs[k].id = msgs[i].id /\ DeclaredBefore(msgs, k) => i <= k

KeptCall(msgs, i, j) ==
    /\ Declares(msgs, i, j)
    /\ \E k \in DOMAIN msgs : msgs[k].id = Calls(msgs, i)[j] /\ Answer(msgs, k)

KeptCalls(msgs, i) ==
    FlattenSeq([j \in DOMAIN Calls(msgs, i) |->
                   If(KeptCall(msgs, i, j), <<Calls(msgs, i)[j]>>)])

\* An assistant message of which nothing is left is dropped.
Sanitized(msgs, i) ==
    LET m == [msgs[i] EXCEPT !.calls = KeptCalls(msgs, i)] IN
    CASE m.role = "assistant" -> If(m.calls # <<>> \/ m.text # "none" \/ m.thinking, <<m>>)
      [] m.role = "tool" -> If(Answer(msgs, i), <<m>>)
      [] OTHER -> <<msgs[i]>>

SanitizeToolMessages(msgs) == FlattenSeq([i \in DOMAIN msgs |-> Sanitized(msgs, i)])

MessagesToProvider(history) ==
    SanitizeToolMessages(FlattenSeq([p \in DOMAIN history |-> Converted(history[p], p)]))
=============================================================================
