---------------------------- MODULE GeminiAdapter ----------------------------
(***************************************************************************)
(* The frame loop of the Gemini adapter (provider/gemini).  A frame is a    *)
(* chunk with a usage and one candidate, an error, or one that does not     *)
(* parse.  A candidate has parts (thought, text, signature, call) and a     *)
(* finish reason.  The adapter makes up an id for a call that has none,     *)
(* out of Spare, the ids it can generate.                                   *)
(***************************************************************************)
EXTENDS ProviderEvents, FiniteSets, SequencesExt

CONSTANT Spare   \* a sequence of ids that are not NoID, without repetition

NewGemini(history) == [start |-> FALSE, stop |-> FALSE, text |-> FALSE, thinking |-> FALSE,
                       sawToolCall |-> FALSE, used |-> history]

\* An explicit id is kept, even if it was used; a generated one is new.
NextID(used, explicit) ==
    IF explicit # NoID THEN explicit
    ELSE Spare[CHOOSE p \in DOMAIN Spare :
                  Spare[p] \notin used /\ \A q \in 1..(p - 1) : Spare[q] \in used]

HandlePart(s, part) ==
    LET id == NextID(s.a.used, part.id)
        isThought == part.type = "thought"
        isText == part.type = "text"
        isCall == part.type = "call"
    IN  [a |-> [s.a EXCEPT !.thinking = @ \/ isThought,
                           !.text = @ \/ isText,
                           !.sawToolCall = @ \/ isCall,
                           !.used = IF isCall THEN @ \cup {id} ELSE @],
         out |-> s.out
            \o Only(isThought, Only(~s.a.thinking, <<BlockOf("thinking")>>) \o <<ThinkingOf(part.piece)>>)
            \o Only(part.signature, <<SignatureEvent>>)
            \o Only(isText, Only(~s.a.text, <<BlockOf("text")>>) \o <<TextOf(part.piece)>>)
            \o Only(isCall, <<ToolCall(id, NoIndex), Fragment(id, NoIndex, <<"whole">>)>>)]

GeminiReason(a, finish) ==
    CASE finish = "STOP" /\ a.sawToolCall -> "tool_calls"
      [] finish = "MAX_TOKENS" -> "length"
      [] OTHER -> "stop"

HandleCandidate(a, f) ==
    LET s == FoldLeft(HandlePart, [a |-> a, out |-> <<>>], f.parts)
    IN  [a |-> [s.a EXCEPT !.stop = @ \/ f.finish # "none"],
         out |-> s.out \o Only(f.finish # "none", <<StopEvent(GeminiReason(s.a, f.finish))>>)]

\* An error frame ends the call without Stop and Done.
GeminiFrame(a, f) ==
    LET s == HandleCandidate([a EXCEPT !.start = TRUE], f)
        start == Only(~a.start, <<StartEvent>>)
    IN  CASE f.type = "error" -> [a |-> a, out |-> <<ErrorEvent>>, then |-> "return"]
          [] f.type = "junk" -> [a |-> [a EXCEPT !.start = TRUE], out |-> start, then |-> "read"]
          [] OTHER -> [a |-> s.a, out |-> start \o Only(f.usage, <<UsageEvent>>) \o s.out,
                       then |-> "read"]

GeminiEnd(a, broken, degraded) ==
    Only(broken /\ ~a.start, <<ErrorEvent>>)
        \o Only(~a.stop, <<StopEvent(IF a.sawToolCall THEN "tool_calls" ELSE degraded)>>)
        \o <<DoneEvent>>
=============================================================================
