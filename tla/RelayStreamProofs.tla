-------------------------- MODULE RelayStreamProofs -------------------------
(***************************************************************************)
(* What is proved of RelayStream: how a reply ends in every format,         *)
(* whatever the upstream sends and however many frames.  The inductive      *)
(* invariant IInv has one lemma per action.  Its parts say who may still    *)
(* send what: the adapter (QueueInv), the converter (SourceInv, BatchInv),  *)
(* what is ahead of the serializers (EndingInv) and what they have written  *)
(* (OutputInv).                                                             *)
(***************************************************************************)
EXTENDS RelayEventProofs

-----------------------------------------------------------------------------
(* The inductive invariant. *)

\* Nothing was given to the converter yet; nothing will be any more.
Early == chat \in {"asking", "peeking", "refused"}
Ended == told.source \in {"done", "babbled"}
Sources == {"silent", "live", "failed", "babbling", "done", "babbled"}

\* An adapter sends its start once, before anything but an error.
StartInv ==
    /\ chat = "asking" => queue = <<>> /\ wire = "open"
    /\ wire # "over" /\ ~a.start => queue = <<>> /\ ~started /\ chat \in {"asking", "peeking"}
    /\ \A p \in 1..Len(queue) : queue[p].type = "start" =>
          ~started /\ \A q \in 1..Len(queue) : queue[q].type = "start" => q = p

\* It sends Done once, after everything else.
DoneInv ==
    /\ wire = "ending" => kind = "websocket" /\ a.start
    /\ \A p \in 1..Len(queue) : queue[p].type = "done" => p = Len(queue) /\ wire = "over"
    /\ Ended => queue = <<>> /\ wire = "over"

\* One that does not read on after an error has no more to say.
ErrorInv ==
    kind \notin ReadsOn =>
        /\ \A p \in 1..Len(queue) : queue[p].type = "error" =>
              \/ wire # "open" /\ \A q \in 1..Len(queue) : q > p => queue[q].type \in Farewell
              \/ p = 1 /\ chat \in {"peeking", "refused"}
        /\ told.source = "failed" =>
              wire # "open" /\ \A q \in 1..Len(queue) : queue[q].type \in Farewell

\* What the converter was told, and what it did about it.
SourceInv ==
    /\ Early => ~started /\ ~stopHandled /\ pending = <<>> /\ ~crashed /\ told.source = "silent"
    /\ started => told.source # "silent" /\ (told.source = "failed" => kind \notin ReadsOn)
    /\ stopHandled => started /\ told.source \in {"done", "babbled", "babbling", "failed"}
    /\ Ended /\ started => stopHandled
    /\ crashed => pending = <<>>
    /\ told.source = "babbling" => kind \in ReadsOn
    /\ crashed /\ stopHandled => told.source = "babbling"

\* The end of the message was given to the serializers.
Finished == OpenAIFinished(ser.openai)
\* The events of one call of the converter: an error is the first of them and
\* message_stop the last, behind the reason.
ErrorAhead == \E p \in 1..Len(pending) : pending[p].type = "error"
FinalAhead == \E p \in 1..Len(pending) : IsFinal(pending[p])
BatchInv ==
    /\ \A p \in 1..Len(pending) : pending[p].type = "error" => p = 1
    /\ \A p \in 1..Len(pending) : IsFinal(pending[p]) =>
          \A q \in 1..Len(pending) : q > p => pending[q].type = "message_stop"
    /\ \A p \in 1..Len(pending) : pending[p].type = "message_stop" =>
          Finished \/ \E q \in 1..Len(pending) : q < p /\ IsFinal(pending[q])

\* The end of the message, and whether the reply failed before it.
Failure == tally.errors > 0 \/ ErrorAhead
EndingInv ==
    /\ stopHandled <=> Finished \/ FinalAhead
    /\ stopHandled /\ ~Failure => Ended
    /\ told.source \in {"failed", "babbling", "babbled"} => Failure
    /\ tally.errors > 0 /\ Early => chat = "refused"
    /\ Finished /\ ~Babble => \A p \in 1..Len(pending) : pending[p].type = "message_stop"
    /\ chat = "over" => pending = <<>> /\ (crashed \/ Ended)

\* The outputs by what was told in them.
Completed == ResponsesCompleted(ser.responses)
Concluded == ResponsesConcluded(ser.responses)
GeminiFinished == GeminiFinish(ser.gemini)
GeminiEnded == GeminiEnd(ser.gemini)
GeminiDone == ser.gemini.failed \/ ser.gemini.finished

\* Each output ends once.
ResponsesInv == ResponsesOnce(ser.responses)
GeminiInv == GeminiOnce(ser.gemini) /\ (ser.gemini.finished => chat = "over" \/ GeminiEnded)
OpenAIInv == ~Babble => OpenAIOnce(ser.openai)

\* What they agree on.
AgreeInv ==
    /\ Finished => Concluded /\ GeminiDone /\ (ser.gemini.errors > 0 \/ GeminiEnded)
    /\ Completed \/ GeminiFinished => Finished /\ ~Failure
    /\ tally.errors > 0 /\ chat # "refused" => ser.responses.failed /\ GeminiDone

\* The types, as far as the invariant needs them.
LegiblePending == \E S : scanner.pending \in Seq(S) /\ \A f \in S : Legible(kind, f)
AdapterOK == kind \in API!Kinds /\ "start" \in DOMAIN a /\ a.start \in BOOLEAN
ScannerOK == "pending" \in DOMAIN scanner /\ LegiblePending
QueueOK == Made(queue, Speech \cup {"done"})
ConverterOK ==
    /\ started \in BOOLEAN /\ stopHandled \in BOOLEAN /\ crashed \in BOOLEAN
    /\ IsFiniteSet(openTools) /\ IsSequence(pending)
StatusOK ==
    /\ chat \in {"asking", "peeking", "refused", "streaming", "over"}
    /\ wire \in {"open", "ending", "over"}
ToldOK == "source" \in DOMAIN told /\ told.source \in Sources
TallyOK == {"usage", "errors", "estimated"} \subseteq DOMAIN tally /\ tally.errors \in Nat
SerializersOK ==
    /\ {"responses", "openai", "gemini"} \subseteq DOMAIN ser
    /\ ResponsesKeeps(ser.responses) /\ OpenAIKeeps(ser.openai) /\ GeminiKeeps(ser.gemini)
TypeInv ==
    AdapterOK /\ ScannerOK /\ QueueOK /\ ConverterOK /\ StatusOK /\ ToldOK /\ TallyOK /\ SerializersOK

QueueInv == StartInv /\ DoneInv /\ ErrorInv
EventsInv == SourceInv /\ BatchInv /\ EndingInv
OutputInv == ResponsesInv /\ GeminiInv /\ OpenAIInv /\ AgreeInv
IInv == TypeInv /\ QueueInv /\ EventsInv /\ OutputInv

-----------------------------------------------------------------------------
(* It holds at the beginning. *)

LEMMA NewAdapterStarts ==
    ASSUME NEW k \in API!Kinds, NEW used
    PROVE  "start" \in DOMAIN NewAdapter(k, used) /\ NewAdapter(k, used).start = FALSE
<1>1. \A b : /\ "start" \in DOMAIN Completions!NewCompletions(b)
             /\ Completions!NewCompletions(b).start = FALSE
  BY DEF Completions!NewCompletions
<1>2. "start" \in DOMAIN Gemini!NewGemini(used) /\ Gemini!NewGemini(used).start = FALSE
  BY DEF Gemini!NewGemini
<1>3. /\ "start" \in DOMAIN Anthropic!NewAnthropic /\ Anthropic!NewAnthropic.start = FALSE
      /\ "start" \in DOMAIN Bamboo!NewBamboo /\ Bamboo!NewBamboo.start = FALSE
      /\ "start" \in DOMAIN Responses!NewResponses /\ Responses!NewResponses.start = FALSE
  BY DEF Anthropic!NewAnthropic, Bamboo!NewBamboo, Responses!NewResponses
<1> QED
  BY <1>1, <1>2, <1>3 DEF NewAdapter, CompletionsKinds, API!Kinds

\* Nothing was said.
LEMMA InitInv == Init => IInv
<1> SUFFICES ASSUME Init PROVE IInv
  OBVIOUS
<1>1. /\ ConverterInit /\ kind \in API!Kinds /\ a = NewAdapter(kind, {}) /\ scanner = Body!NewScanner
      /\ wire = "open" /\ queue = <<>> /\ told = NewTold(kind) /\ chat = "asking"
      /\ ser = NewSerializers(kind) /\ tally = [usage |-> 0, errors |-> 0, estimated |-> FALSE]
  BY DEF Init
<1>2. a.start = FALSE /\ AdapterOK
  <2> DEFINE none == {}
  <2> HIDE DEF none
  <2>1. "start" \in DOMAIN NewAdapter(kind, none) /\ NewAdapter(kind, none).start = FALSE
    BY <1>1, NewAdapterStarts
  <2> QED
    BY <1>1, <2>1 DEF none, AdapterOK
<1>3. started = FALSE /\ stopHandled = FALSE /\ crashed = FALSE /\ openTools = {} /\ pending = <<>>
  BY <1>1 DEF ConverterInit
<1>4. ToldOK /\ told.source = "silent"
  BY <1>1 DEF NewTold, ToldOK, Sources
<1>5. /\ {"responses", "openai", "gemini"} \subseteq DOMAIN ser
      /\ ser.responses = ToResponses!NewResponsesSerializer
      /\ ser.openai = ToOpenAI!NewOpenAISerializer
      /\ ser.gemini = ToGemini!NewGeminiSerializer(kind = "gemini")
  BY <1>1 DEF NewSerializers
<1>6. /\ {"failed", "completed", "out"} \subseteq DOMAIN ser.responses /\ ser.responses.out = <<>>
      /\ ser.responses.failed = FALSE /\ ser.responses.completed = FALSE
  BY <1>5 DEF ToResponses!NewResponsesSerializer
<1>7. "out" \in DOMAIN ser.openai /\ ser.openai.out = <<>>
  BY <1>5 DEF ToOpenAI!NewOpenAISerializer
<1>8. /\ GeminiFields \subseteq DOMAIN ser.gemini /\ ser.gemini.out = <<>> /\ ser.gemini.order = <<>>
      /\ ser.gemini.failed = FALSE /\ ser.gemini.finished = FALSE /\ ser.gemini.errors = 0
      /\ ser.gemini.nextCall = 1
  BY <1>5 DEF ToGemini!NewGeminiSerializer, GeminiFields
<1>9. IsSequence(<<>>)
  BY SequenceOfNone
<1>10. SerializersOK
  <2>1. /\ IsSequence(ser.responses.out) /\ IsSequence(ser.openai.out)
        /\ IsSequence(ser.gemini.out) /\ IsSequence(ser.gemini.order)
    BY <1>6, <1>7, <1>8, <1>9, Zenon
  <2>2. ResponsesKeeps(ser.responses)
    BY <1>6, <2>1 DEF ResponsesKeeps
  <2>3. OpenAIKeeps(ser.openai)
    BY <1>7, <2>1 DEF OpenAIKeeps
  <2>4. GeminiKeeps(ser.gemini)
    <3>1. ser.gemini.failed \in BOOLEAN /\ ser.gemini.finished \in BOOLEAN
      BY <1>8
    <3>2. ser.gemini.errors \in Nat /\ ser.gemini.nextCall \in Nat
      BY <1>8
    <3> QED
      BY <1>8, <2>1, <3>1, <3>2 DEF GeminiKeeps
  <2> QED
    BY <1>5, <2>2, <2>3, <2>4 DEF SerializersOK
<1>11. TypeInv
  <2>1. ScannerOK
    <3> DEFINE S == {}
    <3>1. scanner.pending = <<>> /\ "pending" \in DOMAIN scanner
      BY <1>1 DEF Body!NewScanner
    <3>2. scanner.pending \in Seq(S) /\ \A f \in S : Legible(kind, f)
      BY <3>1
    <3> HIDE DEF S
    <3> QED
      BY <3>1, <3>2 DEF ScannerOK, LegiblePending
  <2>2. QueueOK
    BY <1>1, MadeEmpty DEF QueueOK
  <2>3. ConverterOK
    <3>1. IsSequence(pending)
      BY <1>3, <1>9, Zenon
    <3>2. IsFiniteSet(openTools)
      BY <1>3, FS_EmptySet
    <3> QED
      BY <1>3, <3>1, <3>2 DEF ConverterOK
  <2>4. StatusOK
    BY <1>1 DEF StatusOK
  <2>5. TallyOK
    BY <1>1 DEF TallyOK
  <2> QED
    BY <1>2, <1>4, <1>10, <2>1, <2>2, <2>3, <2>4, <2>5 DEF TypeInv
<1>12. Len(queue) = 0 /\ Len(pending) = 0 /\ Len(ser.responses.out) = 0 /\ Len(ser.openai.out) = 0
       /\ Len(ser.gemini.out) = 0
  BY <1>1, <1>3, <1>6, <1>7, <1>8
<1>13. tally.errors = 0
  BY <1>1
<1>14. QueueInv
  BY <1>1, <1>2, <1>3, <1>4, <1>12 DEF QueueInv, StartInv, DoneInv, ErrorInv, Ended
<1>15. ~Finished /\ ~FinalAhead /\ ~ErrorAhead /\ ~Completed /\ ~Concluded /\ ~GeminiFinished /\ ~GeminiEnded
       /\ ~GeminiDone
  BY <1>8, <1>12
     DEF Finished, OpenAIFinished, FinalAhead, ErrorAhead, Completed, ResponsesCompleted, Concluded, ResponsesConcluded,
         GeminiFinished, GeminiFinish, GeminiEnded, GeminiEnd, GeminiDone
<1>16. EventsInv
  BY <1>1, <1>3, <1>4, <1>12, <1>13, <1>15
     DEF EventsInv, SourceInv, BatchInv, EndingInv, Ended, Early, Failure
<1>17. OutputInv
  <2>1. ResponsesInv
    BY <1>6, <1>12, <1>15 DEF ResponsesInv, ResponsesOnce, Completed, Concluded
  <2>2. GeminiInv
    BY <1>8, <1>12, <1>15 DEF GeminiInv, GeminiOnce, GeminiEnded
  <2>3. OpenAIInv
    BY <1>12 DEF OpenAIInv, OpenAIOnce
  <2>4. AgreeInv
    BY <1>13, <1>15 DEF AgreeInv
  <2> QED
    BY <2>1, <2>2, <2>3, <2>4 DEF OutputInv
<1> QED
  BY <1>11, <1>14, <1>16, <1>17 DEF IInv

-----------------------------------------------------------------------------
(* The steps of the adapter. *)

\* What is behind the converter does not see them.
LEMMA Unseen ==
    ASSUME EventsInv, OutputInv, UNCHANGED <<converterVars, kind, ser>>,
           told'.source = told.source, tally'.errors = tally.errors,
           chat' = chat \/ (chat = "asking" /\ chat' = "peeking")
                 \/ (chat = "peeking" /\ chat' = "streaming")
    PROVE  EventsInv' /\ OutputInv'
<1>1. UNCHANGED <<pending, started, stopHandled, crashed, kind, ser>>
  BY DEF converterVars
<1>2. /\ Finished' = Finished /\ FinalAhead' = FinalAhead /\ ErrorAhead' = ErrorAhead
      /\ Failure' = Failure /\ Ended' = Ended /\ Babble' = Babble
  BY <1>1 DEF Finished, FinalAhead, ErrorAhead, Failure, Ended, Babble
<1>3. /\ Completed' = Completed /\ Concluded' = Concluded /\ GeminiFinished' = GeminiFinished
      /\ GeminiEnded' = GeminiEnded /\ GeminiDone' = GeminiDone
  BY <1>1 DEF Completed, Concluded, GeminiFinished, GeminiEnded, GeminiDone
<1>4. SourceInv'
  BY <1>1, <1>2 DEF EventsInv, SourceInv, Early
<1>5. BatchInv'
  BY <1>1, <1>2 DEF EventsInv, BatchInv
<1>6. EndingInv'
  BY <1>1, <1>2 DEF EventsInv, EndingInv, Early
<1>7. ResponsesInv' /\ GeminiInv' /\ OpenAIInv'
  BY <1>1, <1>2, <1>3 DEF OutputInv, ResponsesInv, GeminiInv, OpenAIInv
<1>8. AgreeInv'
  BY <1>1, <1>2, <1>3 DEF OutputInv, AgreeInv, EventsInv, EndingInv, Early
<1> QED
  BY <1>4, <1>5, <1>6, <1>7, <1>8 DEF EventsInv, OutputInv

LEMMA AskInv == IInv /\ Ask => IInv'
<1> SUFFICES ASSUME IInv, Ask PROVE IInv'
  OBVIOUS
<1>1. UNCHANGED <<kind, scanner, wire, a, queue, told, chat, ser, tally, converterVars>>
  BY DEF Ask
<1>2. TypeInv'
  BY <1>1 DEF IInv, TypeInv, AdapterOK, ScannerOK, LegiblePending, QueueOK, ConverterOK, StatusOK, ToldOK,
              TallyOK, SerializersOK, converterVars
<1>3. QueueInv'
  BY <1>1 DEF IInv, QueueInv, StartInv, DoneInv, ErrorInv, Ended, converterVars
<1>4. EventsInv' /\ OutputInv'
  BY <1>1, Unseen DEF IInv
<1> QED
  BY <1>2, <1>3, <1>4 DEF IInv

LEMMA CallInv == IInv /\ Call => IInv'
<1> SUFFICES ASSUME IInv, Call PROVE IInv'
  OBVIOUS
<1>1. /\ UNCHANGED <<kind, scanner, wire, queue, told, ser, tally, converterVars>>
      /\ chat = "asking" /\ chat' = "peeking"
  BY DEF Call
<1>2. AdapterOK' /\ a'.start = FALSE
  <2>1. PICK used : a' = NewAdapter(kind, used)
    BY Zenon DEF Call
  <2> QED
    BY <1>1, <2>1, NewAdapterStarts DEF IInv, TypeInv, AdapterOK
<1>3. TypeInv'
  BY <1>1, <1>2 DEF IInv, TypeInv, ScannerOK, LegiblePending, QueueOK, ConverterOK, StatusOK, ToldOK,
              TallyOK, SerializersOK, converterVars
<1>4. QueueInv'
  <2>1. queue' = <<>> /\ wire' = "open" /\ ~started' /\ told'.source = "silent"
    BY <1>1 DEF IInv, QueueInv, EventsInv, StartInv, SourceInv, Early, converterVars
  <2>2. Len(queue') = 0
    BY <2>1
  <2> QED
    BY <1>1, <2>1, <2>2 DEF QueueInv, StartInv, DoneInv, ErrorInv, Ended
<1>5. EventsInv' /\ OutputInv'
  BY <1>1, Unseen DEF IInv
<1> QED
  BY <1>3, <1>4, <1>5 DEF IInv

\* What the adapter does with a frame.
LEMMA Answered ==
    ASSUME IInv, NEW f, Legible(kind, f), Reads(f), wire = "open", kind' = kind
    PROVE  /\ AdapterOK' /\ QueueOK' /\ wire' \in {"open", "ending", "over"}
           /\ "source" \in DOMAIN told' /\ told'.source = told.source
           /\ a.start => a'.start
           /\ wire' = "ending" => kind = "websocket" /\ a'.start
           /\ ~a'.start => wire' = "over" \/ queue' = <<>>
           /\ \A p \in 1..Len(queue') : queue'[p].type # "done"
           /\ \A p \in 1..Len(queue') : queue'[p].type = "start" => p = 1 /\ ~a.start
           /\ \A p \in 1..Len(queue') : queue'[p].type = "error" =>
                 p = Len(queue') /\ (kind \in ReadsOn \/ wire' # "open")
<1> DEFINE r == AdapterFrame(f)
<1>1. FrameResult(kind, a, r)
  BY AdapterAnswers DEF IInv, TypeInv, AdapterOK
<1>2. /\ a' = r.a /\ queue' = r.out
      /\ wire' = CASE r.then = "read" -> "open" [] r.then = "end" -> "ending" [] OTHER -> "over"
      /\ told' = [told EXCEPT !.frame = DroppedAs(f)]
  BY Zenon DEF Reads
<1> HIDE DEF r
<1>3. Speaks(queue', ~a.start, kind \in ReadsOn \/ r.then # "read")
  BY <1>1, <1>2 DEF FrameResult
<1>4. /\ Made(queue', Speech)
      /\ \A p \in 1..Len(queue') : queue'[p].type = "start" => p = 1 /\ ~a.start
      /\ \A p \in 1..Len(queue') : queue'[p].type = "error" =>
            p = Len(queue') /\ (kind \in ReadsOn \/ r.then # "read")
  BY <1>3 DEF Speaks
<1>5. /\ r.then \in {"read", "end", "return"}
      /\ r.then = "end" => kind = "websocket" /\ a'.start
      /\ "start" \in DOMAIN a' /\ a'.start \in BOOLEAN
      /\ a.start => a'.start
      /\ ~a'.start => r.then = "return" \/ queue' = <<>>
  BY <1>1, <1>2 DEF FrameResult
<1>6. /\ wire' \in {"open", "ending", "over"} /\ (wire' = "ending" => r.then = "end")
      /\ (r.then = "return" => wire' = "over") /\ (r.then # "read" => wire' # "open")
  BY <1>2, <1>5
<1>7. "source" \in DOMAIN told' /\ told'.source = told.source
  BY <1>2 DEF IInv, TypeInv, ToldOK
<1>8. QueueOK'
  <2>1. Speech \subseteq Speech \cup {"done"}
    OBVIOUS
  <2> QED
    BY <1>4, <2>1, MadeMore DEF QueueOK
<1>9. \A p \in 1..Len(queue') : queue'[p].type # "done"
  <2>1. "done" \notin Speech
    BY DEF Speech, Middle
  <2>2. \A p \in 1..Len(queue') : queue'[p].type \in Speech
    BY <1>4, MadeAt
  <2> QED
    BY <2>1, <2>2
<1>10. AdapterOK'
  BY <1>5 DEF IInv, TypeInv, AdapterOK
<1> QED
  BY <1>4, <1>5, <1>6, <1>7, <1>8, <1>9, <1>10

\* Whatever frame is read, the adapter's answer keeps the order of its events.
LEMMA AnswerKeepsQueue ==
    ASSUME IInv, NEW f, Legible(kind, f), Reads(f), wire = "open", Idle,
           UNCHANGED <<kind, chat, converterVars>>
    PROVE  QueueInv'
<1>1. /\ "source" \in DOMAIN told' /\ told'.source = told.source
      /\ a.start => a'.start
      /\ wire' = "ending" => kind = "websocket" /\ a'.start
      /\ ~a'.start => wire' = "over" \/ queue' = <<>>
      /\ \A p \in 1..Len(queue') : queue'[p].type # "done"
      /\ \A p \in 1..Len(queue') : queue'[p].type = "start" => p = 1 /\ ~a.start
      /\ \A p \in 1..Len(queue') : queue'[p].type = "error" =>
            p = Len(queue') /\ (kind \in ReadsOn \/ wire' # "open")
  BY Answered
<1>2. started' = started /\ chat' = chat /\ kind' = kind /\ chat # "asking"
  BY DEF converterVars, Idle
<1>3. StartInv'
  BY <1>1, <1>2 DEF IInv, TypeInv, AdapterOK, QueueInv, StartInv
<1>4. DoneInv'
  <2>1. ~Ended
    BY DEF IInv, QueueInv, DoneInv
  <2> QED
    BY <1>1, <1>2, <2>1 DEF DoneInv, Ended
<1>5. ErrorInv'
  <2>1. kind \notin ReadsOn => told.source # "failed"
    BY DEF IInv, QueueInv, ErrorInv
  <2>2. Len(queue') \in Nat
    BY Answered, MadeAt DEF QueueOK
  <2> QED
    BY <1>1, <1>2, <2>1, <2>2 DEF ErrorInv
<1> QED
  BY <1>3, <1>4, <1>5 DEF QueueInv

LEMMA ReadInv == IInv /\ Read => IInv'
<1> SUFFICES ASSUME IInv, Read PROVE IInv'
  OBVIOUS
<1>1. PICK event \in API!NextEvents(kind, fed, UsedIDs) :
          /\ scanner' = Body!Dispatched(event.lines, event.last)
          /\ IF Body!FramesOf(event.lines) = <<>> THEN UNCHANGED <<a, queue, wire, told>>
             ELSE Reads(Body!FramesOf(event.lines)[1])
  BY Zenon DEF Read
<1> DEFINE frames == Body!FramesOf(event.lines)
<1>2. PICK S : frames \in Seq(S) /\ \A f \in S : Legible(kind, f)
  BY <1>1, EventsLegible DEF IInv, TypeInv, AdapterOK
<1>3. wire = "open" /\ Idle /\ UNCHANGED <<kind, chat, ser, tally, converterVars>>
  BY DEF Read
<1>4. ScannerOK'
  <2>1. "pending" \in DOMAIN scanner' /\ scanner'.pending = IF frames = <<>> THEN <<>> ELSE Tail(frames)
    BY <1>1 DEF Body!Dispatched
  <2> HIDE DEF frames
  <2>2. scanner'.pending \in Seq(S)
    BY <1>2, <2>1
  <2> QED
    BY <1>2, <1>3, <2>1, <2>2 DEF ScannerOK, LegiblePending
<1>5. CASE frames = <<>>
  <2>1. UNCHANGED <<a, queue, wire, told>>
    BY <1>1, <1>5
  <2>2. TypeInv'
    BY <1>3, <1>4, <2>1 DEF IInv, TypeInv, AdapterOK, QueueOK, ConverterOK, StatusOK, ToldOK,
                            TallyOK, SerializersOK, converterVars
  <2>3. QueueInv'
    BY <1>3, <2>1 DEF IInv, QueueInv, StartInv, DoneInv, ErrorInv, Ended, converterVars
  <2>4. EventsInv' /\ OutputInv'
    BY <1>3, <2>1, Unseen DEF IInv
  <2> QED
    BY <2>2, <2>3, <2>4 DEF IInv
<1>6. CASE frames # <<>>
  <2> DEFINE f == frames[1]
  <2>1. Reads(f)
    BY <1>1, <1>6
  <2> HIDE DEF frames
  <2>2. Legible(kind, f)
    BY <1>2, <1>6
  <2> HIDE DEF f
  <2>3. /\ AdapterOK' /\ QueueOK' /\ wire' \in {"open", "ending", "over"}
        /\ "source" \in DOMAIN told' /\ told'.source = told.source
    BY <1>3, <2>1, <2>2, Answered
  <2>4. QueueInv'
    BY <1>3, <2>1, <2>2, AnswerKeepsQueue
  <2>5. TypeInv'
    BY <1>3, <1>4, <2>3 DEF IInv, TypeInv, ConverterOK, StatusOK, ToldOK,
                            TallyOK, SerializersOK, converterVars
  <2>6. EventsInv' /\ OutputInv'
    BY <1>3, <2>3, Unseen DEF IInv
  <2> QED
    BY <2>4, <2>5, <2>6 DEF IInv
<1> QED
  BY <1>5, <1>6

LEMMA ReadPendingInv == IInv /\ ReadPending => IInv'
<1> SUFFICES ASSUME IInv, ReadPending PROVE IInv'
  OBVIOUS
<1> DEFINE f == scanner.pending[1]
<1>1. /\ wire = "open" /\ Idle /\ UNCHANGED <<kind, chat, ser, tally, converterVars>>
      /\ Reads(f) /\ scanner.pending # <<>> /\ scanner' = [scanner EXCEPT !.pending = Tail(@)]
  BY DEF ReadPending, Body!HasPending
<1>2. PICK S : scanner.pending \in Seq(S) /\ \A g \in S : Legible(kind, g)
  BY DEF IInv, TypeInv, ScannerOK, LegiblePending
<1>3. Legible(kind, f)
  BY <1>1, <1>2
<1>4. ScannerOK'
  <2>1. "pending" \in DOMAIN scanner' /\ scanner'.pending = Tail(scanner.pending)
    BY <1>1 DEF IInv, TypeInv, ScannerOK
  <2>2. scanner'.pending \in Seq(S)
    BY <1>1, <1>2, <2>1
  <2> QED
    BY <1>1, <1>2, <2>1, <2>2 DEF ScannerOK, LegiblePending
<1> HIDE DEF f
<1>5. /\ AdapterOK' /\ QueueOK' /\ wire' \in {"open", "ending", "over"}
      /\ "source" \in DOMAIN told' /\ told'.source = told.source
  BY <1>1, <1>3, Answered
<1>6. QueueInv'
  BY <1>1, <1>3, AnswerKeepsQueue
<1>7. TypeInv'
  BY <1>1, <1>4, <1>5 DEF IInv, TypeInv, ConverterOK, StatusOK, ToldOK,
                          TallyOK, SerializersOK, converterVars
<1>8. EventsInv' /\ OutputInv'
  BY <1>1, <1>5, Unseen DEF IInv
<1> QED
  BY <1>6, <1>7, <1>8 DEF IInv

LEMMA EndOfBodyInv == IInv /\ EndOfBody => IInv'
<1> SUFFICES ASSUME IInv, EndOfBody PROVE IInv'
  OBVIOUS
<1>1. PICK broken \in BOOLEAN, degraded \in DegradedReasons : queue' = AdapterEnd(broken, degraded)
  BY DEF EndOfBody
<1>2. /\ wire \in {"open", "ending"} /\ Idle /\ wire' = "over"
      /\ UNCHANGED <<kind, scanner, a, told, chat, ser, tally, converterVars>>
  BY DEF EndOfBody
<1>3. EndResult(kind, a, queue')
  BY <1>1, AdapterEnds DEF IInv, TypeInv, AdapterOK
<1>4. /\ Made(queue', Farewells)
      /\ \A p \in 1..Len(queue') : queue'[p].type = "done" => p = Len(queue')
      /\ \A p \in 1..Len(queue') : queue'[p].type = "start" =>
            ~a.start /\ \A r \in 1..Len(queue') : queue'[r].type = "start" => r = p
      /\ \A p \in 1..Len(queue') : queue'[p].type = "error" => p = 1 /\ ~a.start
      /\ kind = "websocket" /\ a.start => \A p \in 1..Len(queue') : queue'[p].type \in Farewell
  BY <1>3 DEF EndResult
<1>40. Made(queue', Speech \cup {"done"})
  <2>1. Farewells \subseteq Speech \cup {"done"}
    BY DEF Farewells
  <2> QED
    BY <1>4, <2>1, MadeMore
<1>5. TypeInv'
  BY <1>2, <1>4, <1>40 DEF IInv, TypeInv, AdapterOK, ScannerOK, LegiblePending, QueueOK, ConverterOK, StatusOK, ToldOK,
                    TallyOK, SerializersOK, converterVars
<1>6. StartInv'
  BY <1>2, <1>4 DEF IInv, QueueInv, StartInv, Idle, converterVars
<1>7. DoneInv'
  BY <1>2, <1>4 DEF IInv, QueueInv, DoneInv, Ended
<1>8. ErrorInv'
  <2>1. kind \notin ReadsOn /\ told.source = "failed" => kind = "websocket" /\ a.start
    BY <1>2 DEF IInv, QueueInv, DoneInv, ErrorInv
  <2>2. ~a.start => chat = "peeking"
    BY <1>2 DEF IInv, QueueInv, StartInv, Idle
  <2> QED
    BY <1>2, <1>4, <2>1, <2>2 DEF ErrorInv
<1>9. EventsInv' /\ OutputInv'
  BY <1>2, Unseen DEF IInv
<1> QED
  BY <1>5, <1>6, <1>7, <1>8, <1>9 DEF IInv, QueueInv

LEMMA RefuseInv == IInv /\ Refuse => IInv'
<1> SUFFICES ASSUME IInv, Refuse PROVE IInv'
  OBVIOUS
<1> DEFINE e == API!ErrorEvent
<1>1. e.type = "error"
  BY DEF API!ErrorEvent, API!Plain, API!PEvent
<1>2. /\ wire = "open" /\ Idle /\ wire' = "over" /\ queue' = <<e>>
      /\ UNCHANGED <<kind, scanner, a, told, chat, ser, tally, converterVars>>
  BY DEF Refuse
<1> HIDE DEF e
<1>3. QueueOK'
  BY <1>1, <1>2, MadeOne DEF QueueOK, Speech
<1>4. Len(queue') = 1 /\ queue'[1].type = "error"
  BY <1>1, <1>2
<1>5. TypeInv'
  BY <1>2, <1>3 DEF IInv, TypeInv, AdapterOK, ScannerOK, LegiblePending, ConverterOK, StatusOK, ToldOK,
                    TallyOK, SerializersOK, converterVars
<1>6. QueueInv'
  BY <1>2, <1>4 DEF IInv, QueueInv, StartInv, DoneInv, ErrorInv, Ended, Idle, converterVars
<1>7. EventsInv' /\ OutputInv'
  BY <1>2, Unseen DEF IInv
<1> QED
  BY <1>5, <1>6, <1>7 DEF IInv

LEMMA PeekInv == IInv /\ Peek => IInv'
<1> SUFFICES ASSUME IInv, Peek PROVE IInv'
  OBVIOUS
<1>1. /\ chat = "peeking" /\ queue # <<>>
      /\ UNCHANGED <<kind, scanner, wire, a, queue, told, ser, converterVars>>
      /\ \/ /\ Head(queue).type \in {"error", "done"} /\ chat' = "refused"
            /\ tally' = [tally EXCEPT !.errors = @ + 1]
         \/ Head(queue).type \notin {"error", "done"} /\ chat' = "streaming" /\ tally' = [tally EXCEPT !.errors = @]
  BY DEF Peek
<1>2. Head(queue) = queue[1]
  BY <1>1, MadeAt DEF IInv, TypeInv, QueueOK
<1>3. TypeInv'
  BY <1>1 DEF IInv, TypeInv, AdapterOK, ScannerOK, LegiblePending, QueueOK, ConverterOK, StatusOK, ToldOK,
              TallyOK, SerializersOK, converterVars
<1>4. QueueInv'
  BY <1>1, <1>2 DEF IInv, QueueInv, StartInv, DoneInv, ErrorInv, Ended, converterVars
<1>5. CASE chat' = "streaming"
  <2>1. tally'.errors = tally.errors
    BY <1>1, <1>5 DEF IInv, TypeInv, TallyOK
  <2>2. EventsInv' /\ OutputInv'
    BY <1>1, <1>5, <2>1, Unseen DEF IInv
  <2> QED
    BY <1>3, <1>4, <2>2 DEF IInv
<1>6. CASE chat' = "refused"
  <2>1. UNCHANGED <<pending, started, stopHandled, crashed, kind, ser, told>>
    BY <1>1 DEF converterVars
  <2>2. ~started /\ ~stopHandled /\ pending = <<>> /\ ~crashed /\ told.source = "silent"
    BY <1>1 DEF IInv, EventsInv, SourceInv, Early
  <2>3. ~Finished /\ ~FinalAhead
    BY <2>2 DEF IInv, EventsInv, EndingInv
  <2>4. ~Completed /\ ~GeminiFinished
    BY <2>3 DEF IInv, OutputInv, AgreeInv
  <2>5. ~Finished' /\ ~FinalAhead' /\ ~Completed' /\ ~GeminiFinished' /\ ~Babble'
    BY <2>1, <2>2, <2>3, <2>4 DEF Finished, FinalAhead, Completed, GeminiFinished, Babble
  <2>6. Concluded' = Concluded /\ GeminiEnded' = GeminiEnded /\ GeminiDone' = GeminiDone
    BY <2>1 DEF Concluded, GeminiEnded, GeminiDone
  <2>7. Len(pending') = 0
    BY <2>1, <2>2
  <2>8. EventsInv'
    BY <1>6, <2>1, <2>2, <2>5, <2>7 DEF EventsInv, SourceInv, BatchInv, EndingInv, Early, Ended
  <2>9. ResponsesInv'
    BY <2>1, <2>4, <2>5, <2>6 DEF IInv, OutputInv, ResponsesInv
  <2>10. GeminiInv'
    BY <1>1, <2>1, <2>6 DEF IInv, OutputInv, GeminiInv
  <2>11. OpenAIInv'
    BY <2>5 DEF OpenAIInv, OpenAIOnce, Finished, OpenAIFinished
  <2>12. AgreeInv'
    BY <1>6, <2>5 DEF AgreeInv
  <2> QED
    BY <1>3, <1>4, <2>8, <2>9, <2>10, <2>11, <2>12 DEF IInv, OutputInv
<1> QED
  BY <1>1, <1>5, <1>6

LEMMA SequenceTail ==
    ASSUME NEW q, IsSequence(q), q # <<>>
    PROVE  /\ IsSequence(Tail(q)) /\ Len(q) \in Nat /\ 1 \in 1..Len(q) /\ Head(q) = q[1]
           /\ Len(Tail(q)) = Len(q) - 1
           /\ \A p \in 1..Len(Tail(q)) : p + 1 \in 1..Len(q) /\ Tail(q)[p] = q[p + 1]
<1>1. PICK S : q \in Seq(S)
  BY DEF IsSequence
<1>2. Tail(q) \in Seq(S)
  BY <1>1
<1> QED
  BY <1>1, <1>2 DEF IsSequence

\* What is read of the serializers and of the tally after a step.
LEMMA SerializedFields ==
    ASSUME NEW e
    PROVE  /\ {"responses", "openai", "gemini"} \subseteq DOMAIN Serialized(e)
           /\ Serialized(e).responses = ToResponses!ResponsesSerialize(ser.responses, e, now)
           /\ Serialized(e).openai = ToOpenAI!OpenAISerialize(ser.openai, e, now)
           /\ Serialized(e).gemini = ToGemini!GeminiSerialize(ser.gemini, e, now)
  BY DEF Serialized

LEMMA TalliedErrors ==
    ASSUME NEW e, TallyOK
    PROVE  /\ {"usage", "errors", "estimated"} \subseteq DOMAIN Tallied(e)
           /\ Tallied(e).errors = IF e.type = "error" THEN tally.errors + 1 ELSE tally.errors
  BY DEF Tallied, TallyOK

LEMMA FlushedFields ==
    ASSUME NEW s, {"responses", "openai", "gemini"} \subseteq DOMAIN s
    PROVE  /\ {"responses", "openai", "gemini"} \subseteq DOMAIN Flushed(s)
           /\ Flushed(s).responses = s.responses
           /\ Flushed(s).openai = ToOpenAI!OpenAIFlush(s.openai)
           /\ Flushed(s).gemini = ToGemini!GeminiFlush(s.gemini)
  BY DEF Flushed

-----------------------------------------------------------------------------
(* An event goes to the client. *)

\* What Emit does to what the invariant reads.
LEMMA Emitting ==
    ASSUME IInv, Emit
    PROVE  /\ chat = "streaming" /\ ~crashed /\ pending # <<>>
           /\ IsSequence(pending') /\ Len(pending) \in Nat /\ 1 \in 1..Len(pending)
           /\ Len(pending') = Len(pending) - 1
           /\ \A p \in 1..Len(pending') : p + 1 \in 1..Len(pending) /\ pending'[p] = pending[p + 1]
           /\ ser' = Serialized(pending[1]) /\ tally' = Tallied(pending[1])
           /\ UNCHANGED <<started, stopHandled, crashed, openTools, kind, scanner, wire, a, queue, told, chat>>
<1>1. /\ pending # <<>> /\ pending' = Tail(pending)
      /\ ser' = Serialized(Head(pending)) /\ tally' = Tallied(Head(pending))
      /\ UNCHANGED <<started, stopHandled, crashed, openTools, kind, scanner, wire, a, queue, told, chat>>
  BY DEF Emit
<1>2. IsSequence(pending)
  BY DEF IInv, TypeInv, ConverterOK
<1>3. chat = "streaming" /\ ~crashed
  BY <1>1 DEF IInv, TypeInv, StatusOK, EventsInv, SourceInv, EndingInv, Early
<1> QED
  BY <1>1, <1>2, <1>3, SequenceTail

\* The serializers get the first of the pending events: what was ahead is now
\* said.
LEMMA EmitInv == IInv /\ Emit => IInv'
<1> SUFFICES ASSUME IInv, Emit PROVE IInv'
  OBVIOUS
<1> DEFINE e == pending[1]
           r == ToResponses!ResponsesSerialize(ser.responses, e, now)
           o == ToOpenAI!OpenAISerialize(ser.openai, e, now)
           g == ToGemini!GeminiSerialize(ser.gemini, e, now)
<1>1. /\ chat = "streaming" /\ ~crashed /\ pending # <<>>
      /\ IsSequence(pending') /\ Len(pending) \in Nat /\ 1 \in 1..Len(pending)
      /\ Len(pending') = Len(pending) - 1
      /\ \A p \in 1..Len(pending') : p + 1 \in 1..Len(pending) /\ pending'[p] = pending[p + 1]
      /\ ser' = Serialized(e) /\ tally' = Tallied(e)
      /\ UNCHANGED <<started, stopHandled, crashed, openTools, kind, scanner, wire, a, queue, told, chat>>
  BY Emitting
<1>2. /\ {"responses", "openai", "gemini"} \subseteq DOMAIN ser'
      /\ ser'.responses = r /\ ser'.openai = o /\ ser'.gemini = g
  BY <1>1, SerializedFields
<1>3. /\ {"usage", "errors", "estimated"} \subseteq DOMAIN tally'
      /\ tally'.errors = IF e.type = "error" THEN tally.errors + 1 ELSE tally.errors
  BY <1>1, TalliedErrors DEF IInv, TypeInv
<1>4. tally.errors \in Nat
  BY DEF IInv, TypeInv, TallyOK
<1>5. /\ ResponsesKeeps(ser.responses) /\ OpenAIKeeps(ser.openai) /\ GeminiKeeps(ser.gemini)
      /\ ResponsesOnce(ser.responses) /\ GeminiOnce(ser.gemini)
  BY DEF IInv, TypeInv, SerializersOK, OutputInv, ResponsesInv, GeminiInv
<1>6. /\ ResponsesKeeps(r)
      /\ e.type = "message_stop" => r = ser.responses
      /\ e.type = "error" /\ ~Completed =>
            ResponsesOnce(r) /\ r.failed /\ ~ResponsesCompleted(r) /\ ResponsesConcluded(r)
      /\ IsFinal(e) => /\ ResponsesOnce(r) /\ ResponsesConcluded(r)
                       /\ r.failed = ser.responses.failed \/ r = ser.responses
                       /\ ser.responses.failed => r = ser.responses
      /\ e.type # "error" /\ ~IsFinal(e) /\ (ser.responses.failed \/ ~Concluded) =>
            /\ ResponsesOnce(r) /\ r.failed = ser.responses.failed
            /\ ResponsesCompleted(r) <=> Completed
            /\ ResponsesConcluded(r) <=> Concluded
  BY <1>5, ResponsesStep DEF Completed, Concluded
<1>7. /\ OpenAIKeeps(o)
      /\ e.type = "message_stop" => o = ser.openai
      /\ ~IsFinal(e) => (OpenAIFinished(o) <=> Finished)
      /\ IsFinal(e) => OpenAIFinished(o)
      /\ ~Finished => OpenAIOnce(o)
  BY <1>5, OpenAIStep DEF Finished
<1>8. /\ GeminiKeeps(g) /\ GeminiOnce(g)
      /\ IsDone(ser.gemini) => g = ser.gemini
      /\ IsDone(ser.gemini) => IsDone(g)
      /\ GeminiEnded => GeminiEnd(g)
      /\ g.errors >= ser.gemini.errors
      /\ e.type # "message_stop" => (g.finished => ser.gemini.finished \/ GeminiEnd(g))
      /\ ~IsFinal(e) => (GeminiFinish(g) => GeminiFinished)
      /\ e.type = "error" => IsDone(g)
      /\ IsFinal(e) => IsDone(g) /\ (g = ser.gemini \/ g.errors > 0 \/ GeminiEnd(g))
  BY <1>5, GeminiStep DEF GeminiEnded, GeminiFinished
<1> HIDE DEF r, o, g
<1>9. /\ Finished' <=> OpenAIFinished(o)
      /\ Completed' <=> ResponsesCompleted(r)
      /\ Concluded' <=> ResponsesConcluded(r)
      /\ GeminiFinished' <=> GeminiFinish(g)
      /\ GeminiEnded' <=> GeminiEnd(g)
      /\ GeminiDone' <=> IsDone(g)
      /\ GeminiDone <=> IsDone(ser.gemini)
  BY <1>2 DEF Finished, Completed, Concluded, GeminiFinished, GeminiEnded, GeminiDone, IsDone
<1>10. TypeInv'
  <2>1. SerializersOK'
    BY <1>2, <1>6, <1>7, <1>8 DEF SerializersOK
  <2>2. TallyOK'
    BY <1>3, <1>4 DEF TallyOK
  <2>3. ConverterOK'
    BY <1>1 DEF IInv, TypeInv, ConverterOK
  <2> QED
    BY <1>1, <2>1, <2>2, <2>3 DEF IInv, TypeInv, AdapterOK, ScannerOK, LegiblePending, QueueOK, StatusOK, ToldOK
<1>11. QueueInv'
  BY <1>1 DEF IInv, QueueInv, StartInv, DoneInv, ErrorInv, Ended
<1>12. SourceInv'
  BY <1>1 DEF IInv, EventsInv, SourceInv, Early, Ended
<1> HIDE DEF e
<1>13. e = pending[1]
  BY DEF e
<1>14. Finished' <=> Finished \/ IsFinal(e)
  BY <1>7, <1>9
<1>15. BatchInv'
  <2>0. BatchInv
    BY DEF IInv, EventsInv
  <2>1. \A p \in 1..Len(pending') : pending'[p].type = "error" => p = 1
    BY <1>1, <2>0 DEF BatchInv
  <2>2. \A p \in 1..Len(pending') : IsFinal(pending'[p]) =>
            \A q \in 1..Len(pending') : q > p => pending'[q].type = "message_stop"
    <3> SUFFICES ASSUME NEW p \in 1..Len(pending'), IsFinal(pending'[p]),
                        NEW q \in 1..Len(pending'), q > p
                 PROVE  pending'[q].type = "message_stop"
      OBVIOUS
    <3>1. /\ p + 1 \in 1..Len(pending) /\ pending'[p] = pending[p + 1]
          /\ q + 1 \in 1..Len(pending) /\ pending'[q] = pending[q + 1] /\ q + 1 > p + 1
      BY <1>1
    <3>2. IsFinal(pending[p + 1])
      BY <3>1
    <3> QED
      BY <2>0, <3>1, <3>2 DEF BatchInv
  <2>3. ASSUME NEW p \in 1..Len(pending'), pending'[p].type = "message_stop"
        PROVE  Finished' \/ \E q \in 1..Len(pending') : q < p /\ IsFinal(pending'[q])
    <3>1. p + 1 \in 1..Len(pending) /\ pending[p + 1].type = "message_stop"
      BY <1>1, <2>3
    <3>2. CASE Finished
      BY <1>14, <3>2
    <3>3. CASE ~Finished
      <4>1. PICK q \in 1..Len(pending) : q < p + 1 /\ IsFinal(pending[q])
        BY <2>0, <3>1, <3>3 DEF BatchInv
      <4>2. CASE q = 1
        BY <1>13, <1>14, <4>1, <4>2
      <4>3. CASE q # 1
        <5>1. q - 1 \in 1..Len(pending') /\ q - 1 < p /\ pending'[q - 1] = pending[q]
          BY <1>1, <4>1, <4>3
        <5> QED
          BY <4>1, <5>1
      <4> QED
        BY <4>2, <4>3
    <3> QED
      BY <3>2, <3>3
  <2> QED
    BY <2>1, <2>2, <2>3 DEF BatchInv
<1>16. Failure' <=> Failure
  <2>1. \A p \in 1..Len(pending) : pending[p].type = "error" => p = 1
    BY DEF IInv, EventsInv, BatchInv
  <2>2. ~ErrorAhead'
    BY <1>1, <2>1 DEF ErrorAhead
  <2>3. ErrorAhead <=> e.type = "error"
    BY <1>1, <1>13, <2>1 DEF ErrorAhead
  <2> QED
    BY <1>3, <1>4, <2>2, <2>3 DEF Failure
<1>17. FinalAhead <=> IsFinal(e) \/ FinalAhead'
  <2>1. FinalAhead => IsFinal(e) \/ FinalAhead'
    <3> SUFFICES ASSUME FinalAhead, ~IsFinal(e) PROVE FinalAhead'
      OBVIOUS
    <3>1. PICK p \in 1..Len(pending) : IsFinal(pending[p])
      BY DEF FinalAhead
    <3>2. p - 1 \in 1..Len(pending') /\ pending'[p - 1] = pending[p]
      BY <1>1, <1>13, <3>1
    <3> QED
      BY <3>1, <3>2 DEF FinalAhead
  <2>2. IsFinal(e) \/ FinalAhead' => FinalAhead
    BY <1>1, <1>13 DEF FinalAhead
  <2> QED
    BY <2>1, <2>2
<1>18. Babble' = Babble /\ Ended' = Ended
  BY <1>1 DEF Babble, Ended
<1>19. EndingInv'
  <2>0. EndingInv /\ BatchInv
    BY DEF IInv, EventsInv
  <2>1. stopHandled' <=> Finished' \/ FinalAhead'
    BY <1>1, <1>14, <1>17, <2>0 DEF EndingInv
  <2>2. Finished' /\ ~Babble' => \A p \in 1..Len(pending') : pending'[p].type = "message_stop"
    <3>1. IsFinal(e) => \A q \in 1..Len(pending) : q > 1 => pending[q].type = "message_stop"
      BY <1>1, <1>13, <2>0 DEF BatchInv
    <3>2. Finished /\ ~Babble => \A p \in 1..Len(pending) : pending[p].type = "message_stop"
      BY <2>0 DEF EndingInv
    <3> QED
      BY <1>1, <1>14, <1>18, <3>1, <3>2
  <2>3. chat' = "streaming"
    BY <1>1
  <2>4. /\ stopHandled' /\ ~Failure' => Ended'
        /\ told'.source \in {"failed", "babbling", "babbled"} => Failure'
    BY <1>1, <1>16, <1>18, <2>0 DEF EndingInv
  <2> QED
    BY <2>1, <2>2, <2>3, <2>4 DEF EndingInv, Early
<1>20. OutputInv'
  <2>0. /\ EndingInv /\ BatchInv /\ AgreeInv /\ ResponsesInv /\ GeminiInv /\ OpenAIInv
    BY DEF IInv, EventsInv, OutputInv
  <2>1. CASE e.type = "error"
    <3>1. ~IsFinal(e) /\ Failure
      BY <1>1, <1>13, <2>1 DEF IsFinal, Failure, ErrorAhead
    <3>2. ~Completed /\ ~GeminiFinished
      BY <2>0, <3>1 DEF AgreeInv
    <3>3. Finished => Babble
      BY <1>1, <1>13, <2>0, <2>1 DEF EndingInv
    <3>4. ResponsesInv'
      BY <1>2, <1>6, <2>1, <3>2 DEF ResponsesInv
    <3>5. GeminiInv'
      BY <1>1, <1>2, <1>8, <1>9, <2>0, <2>1 DEF GeminiInv
    <3>6. OpenAIInv'
      BY <1>2, <1>7, <1>18, <3>3 DEF OpenAIInv
    <3>7. AgreeInv'
      <4>1. ~Completed' /\ ~GeminiFinished' /\ ser'.responses.failed /\ GeminiDone' /\ Concluded'
        BY <1>2, <1>6, <1>8, <1>9, <2>1, <3>1, <3>2
      <4>2. Finished' => ser'.gemini.errors > 0 \/ GeminiEnded'
        BY <1>2, <1>5, <1>8, <1>9, <1>14, <2>0, <3>1 DEF AgreeInv, GeminiKeeps
      <4> QED
        BY <4>1, <4>2 DEF AgreeInv
    <3> QED
      BY <3>4, <3>5, <3>6, <3>7 DEF OutputInv
  <2>2. CASE IsFinal(e)
    <3>1. e.type = "message_delta"
      BY <2>2 DEF IsFinal
    <3>2. ~ErrorAhead
      BY <1>1, <1>13, <2>0, <3>1 DEF BatchInv, ErrorAhead
    <3>3. tally.errors > 0 => ser.responses.failed /\ GeminiDone
      BY <1>1, <2>0 DEF AgreeInv
    <3>4. ResponsesInv'
      BY <1>2, <1>6, <2>2 DEF ResponsesInv
    <3>5. GeminiInv'
      BY <1>1, <1>2, <1>8, <1>9, <2>0, <3>1 DEF GeminiInv
    <3>6. Finished => Babble
      BY <1>1, <1>13, <2>0, <3>1 DEF EndingInv
    <3>7. OpenAIInv'
      BY <1>2, <1>7, <1>18, <3>6 DEF OpenAIInv
    <3>8. AgreeInv'
      <4>1. Finished' /\ Concluded' /\ GeminiDone'
        BY <1>6, <1>7, <1>8, <1>9, <2>2
      <4>2. ser'.gemini.errors > 0 \/ GeminiEnded'
        <5>1. CASE g = ser.gemini
          <6>1. IsDone(ser.gemini)
            BY <1>8, <2>2, <5>1
          <6>2. ser.gemini.errors > 0 \/ GeminiEnded
            BY <1>1, <2>0, <6>1 DEF GeminiInv, GeminiOnce, IsDone, GeminiEnded
          <6> QED
            BY <1>2, <1>8, <1>9, <5>1, <6>2
        <5>2. CASE g # ser.gemini
          BY <1>2, <1>8, <1>9, <2>2, <5>2
        <5> QED
          BY <5>1, <5>2
      <4>3. Completed' => ~Failure
        <5>1. CASE Completed
          BY <2>0, <5>1 DEF AgreeInv
        <5>2. CASE ~Completed
          <6>1. Completed' => ~ser.responses.failed
            BY <1>6, <1>9, <2>2, <5>2 DEF Completed
          <6> QED
            BY <3>2, <3>3, <6>1 DEF Failure
        <5> QED
          BY <5>1, <5>2
      <4>4. GeminiFinished' => ~Failure
        <5>1. CASE GeminiFinished
          BY <2>0, <5>1 DEF AgreeInv
        <5>2. CASE ~GeminiFinished
          <6>1. GeminiFinished' => ~GeminiDone
            BY <1>8, <1>9, <5>2 DEF GeminiFinished
          <6> QED
            BY <3>2, <3>3, <6>1 DEF Failure
        <5> QED
          BY <5>1, <5>2
      <4>5. tally'.errors > 0 => ser'.responses.failed
        BY <1>2, <1>3, <1>6, <2>2, <3>1, <3>3
      <4> QED
        BY <1>16, <4>1, <4>2, <4>3, <4>4, <4>5 DEF AgreeInv
    <3> QED
      BY <3>4, <3>5, <3>7, <3>8 DEF OutputInv
  <2>3. CASE e.type = "message_stop"
    <3>1. Finished
      BY <1>1, <1>13, <2>0, <2>3 DEF BatchInv
    <3>2. IsDone(ser.gemini)
      BY <1>9, <2>0, <3>1 DEF AgreeInv
    <3>3. r = ser.responses /\ o = ser.openai /\ g = ser.gemini /\ tally'.errors = tally.errors
      BY <1>3, <1>6, <1>7, <1>8, <2>3, <3>2
    <3>4. /\ Finished' = Finished /\ Completed' = Completed /\ Concluded' = Concluded
          /\ GeminiFinished' = GeminiFinished /\ GeminiEnded' = GeminiEnded /\ GeminiDone' = GeminiDone
      BY <1>2, <3>3 DEF Finished, Completed, Concluded, GeminiFinished, GeminiEnded, GeminiDone
    <3>5. ResponsesInv' /\ GeminiInv' /\ OpenAIInv'
      BY <1>1, <1>2, <1>18, <2>0, <3>3, <3>4 DEF ResponsesInv, GeminiInv, OpenAIInv
    <3>6. AgreeInv'
      BY <1>1, <1>2, <1>16, <2>0, <3>3, <3>4 DEF AgreeInv
    <3> QED
      BY <3>5, <3>6 DEF OutputInv
  <2>4. CASE e.type \notin {"error", "message_stop"} /\ ~IsFinal(e)
    <3>1. Finished => Babble
      BY <1>1, <1>13, <2>0, <2>4 DEF EndingInv
    <3>2. ~Completed /\ ~GeminiFinished
      <4>1. Babble => Failure
        BY <2>0 DEF Babble, EndingInv
      <4> QED
        BY <2>0, <3>1, <4>1 DEF AgreeInv
    <3>3. ser.responses.failed \/ ~Concluded
      BY <2>0, <3>2 DEF ResponsesInv, ResponsesOnce, Completed, Concluded
    <3>4. /\ ResponsesOnce(r) /\ r.failed = ser.responses.failed
          /\ ResponsesCompleted(r) <=> Completed
          /\ ResponsesConcluded(r) <=> Concluded
      BY <1>6, <2>4, <3>3
    <3>5. ResponsesInv'
      BY <1>2, <3>4 DEF ResponsesInv
    <3>6. GeminiInv'
      BY <1>1, <1>2, <1>8, <1>9, <2>0, <2>4 DEF GeminiInv
    <3>7. OpenAIInv'
      BY <1>2, <1>7, <1>18, <3>1 DEF OpenAIInv
    <3>8. AgreeInv'
      <4>1. ~Completed' /\ ~GeminiFinished' /\ (Concluded' <=> Concluded) /\ (Finished' <=> Finished)
        BY <1>8, <1>9, <1>14, <2>4, <3>2, <3>4
      <4>2. GeminiDone => GeminiDone'
        BY <1>8, <1>9
      <4>3. ser.gemini.errors > 0 \/ GeminiEnded => ser'.gemini.errors > 0 \/ GeminiEnded'
        BY <1>2, <1>5, <1>8, <1>9 DEF GeminiKeeps
      <4>4. tally'.errors = tally.errors /\ ser'.responses.failed = ser.responses.failed
        BY <1>2, <1>3, <2>4, <3>4
      <4> QED
        BY <1>1, <2>0, <4>1, <4>2, <4>3, <4>4 DEF AgreeInv
    <3> QED
      BY <3>5, <3>6, <3>7, <3>8 DEF OutputInv
  <2> QED
    BY <2>1, <2>2, <2>3, <2>4
<1> QED
  BY <1>10, <1>11, <1>12, <1>15, <1>19, <1>20 DEF IInv, EventsInv

-----------------------------------------------------------------------------
(* The channel of Chat ends: the serializers are flushed. *)

\* What they hold before the terminal marks.
Closable(s, t) ==
    /\ {"responses", "openai", "gemini"} \subseteq DOMAIN s
    /\ {"usage", "errors", "estimated"} \subseteq DOMAIN t
    /\ t.errors \in Nat /\ t.errors >= tally.errors
    /\ ResponsesKeeps(s.responses) /\ OpenAIKeeps(s.openai) /\ GeminiKeeps(s.gemini)
    /\ ResponsesOnce(s.responses) /\ GeminiOnce(s.gemini)
    /\ OpenAIFinished(s.openai) <=> Finished
    /\ ~Babble => OpenAIOnce(s.openai)
    /\ Finished => /\ ResponsesConcluded(s.responses) /\ IsDone(s.gemini)
                   /\ s.gemini.errors > 0 \/ GeminiEnd(s.gemini)
    /\ ResponsesCompleted(s.responses) \/ GeminiFinish(s.gemini) =>
          Finished /\ ~Failure /\ t.errors = tally.errors
    /\ t.errors > 0 => s.responses.failed /\ IsDone(s.gemini)

\* The reply is closed: the serializers are flushed, none ends a second time.
LEMMA CloseInv ==
    ASSUME IInv, chat = "streaming", pending = <<>>, crashed \/ Ended,
           NEW s, NEW t, Closable(s, t), Close(s, t)
    PROVE  IInv'
<1> DEFINE o == ToOpenAI!OpenAIFlush(s.openai)
           g == ToGemini!GeminiFlush(s.gemini)
<1>1. /\ chat' = "over" /\ ser' = Flushed(s) /\ tally' = [t EXCEPT !.estimated = t.usage = 0]
      /\ UNCHANGED <<kind, scanner, wire, a, queue, told>>
      /\ UNCHANGED <<pending, started, stopHandled, crashed, openTools>>
  BY DEF Close, converterVars
<1>2. /\ {"responses", "openai", "gemini"} \subseteq DOMAIN ser'
      /\ ser'.responses = s.responses /\ ser'.openai = o /\ ser'.gemini = g
  BY <1>1, FlushedFields DEF Closable
<1>3. {"usage", "errors", "estimated"} \subseteq DOMAIN tally' /\ tally'.errors = t.errors
  BY <1>1 DEF Closable
<1>4. OpenAIKeeps(s.openai) /\ GeminiKeeps(s.gemini) /\ GeminiOnce(s.gemini)
  BY DEF Closable
<1>5. /\ OpenAIKeeps(o)
      /\ OpenAIFinished(o) <=> OpenAIFinished(s.openai)
      /\ OpenAIOnce(s.openai) => OpenAIOnce(o)
  BY <1>4, OpenAIFlushStep
<1>6. /\ GeminiKeeps(g) /\ GeminiOnce(g)
      /\ IsDone(s.gemini) => IsDone(g)
      /\ GeminiEnd(g) <=> GeminiEnd(s.gemini)
      /\ GeminiFinish(g) <=> GeminiFinish(s.gemini)
      /\ g.errors >= s.gemini.errors
  BY <1>4, GeminiFlushStep
<1> HIDE DEF o, g
<1>7. /\ Finished' <=> Finished
      /\ Completed' <=> ResponsesCompleted(s.responses)
      /\ Concluded' <=> ResponsesConcluded(s.responses)
      /\ GeminiFinished' <=> GeminiFinish(s.gemini)
      /\ GeminiEnded' <=> GeminiEnd(s.gemini)
      /\ GeminiDone' <=> IsDone(g)
  BY <1>2, <1>5, <1>6 DEF Finished, Completed, Concluded, GeminiFinished, GeminiEnded, GeminiDone, IsDone, Closable
<1>8. Len(pending') = 0 /\ Len(pending) = 0 /\ pending' = <<>>
  BY <1>1
<1>9. ~ErrorAhead /\ ~ErrorAhead' /\ ~FinalAhead /\ ~FinalAhead'
  BY <1>8 DEF ErrorAhead, FinalAhead
<1>10. (Failure => Failure') /\ (tally'.errors = tally.errors => (Failure' <=> Failure))
  BY <1>3, <1>9 DEF Failure, Closable, IInv, TypeInv, TallyOK
<1>11. Babble' = Babble /\ Ended' = Ended
  BY <1>1 DEF Babble, Ended
<1>12. TypeInv'
  <2>1. SerializersOK'
    BY <1>2, <1>5, <1>6 DEF SerializersOK, Closable
  <2>2. TallyOK'
    BY <1>3 DEF TallyOK, Closable
  <2> QED
    BY <1>1, <2>1, <2>2 DEF IInv, TypeInv, ConverterOK, AdapterOK, ScannerOK, LegiblePending, QueueOK, StatusOK, ToldOK
<1>13. QueueInv'
  BY <1>1 DEF IInv, QueueInv, StartInv, DoneInv, ErrorInv, Ended
<1>14. EventsInv'
  <2>1. SourceInv'
    BY <1>1, <1>11 DEF IInv, EventsInv, SourceInv, Early
  <2>2. BatchInv'
    BY <1>8 DEF BatchInv
  <2>3. EndingInv'
    BY <1>1, <1>7, <1>8, <1>9, <1>10, <1>11 DEF IInv, EventsInv, EndingInv, Early
  <2> QED
    BY <2>1, <2>2, <2>3 DEF EventsInv
<1>15. OutputInv'
  <2>1. ResponsesInv'
    BY <1>2 DEF ResponsesInv, Closable
  <2>2. GeminiInv'
    BY <1>1, <1>2, <1>6 DEF GeminiInv
  <2>3. OpenAIInv'
    BY <1>2, <1>5, <1>11 DEF OpenAIInv, Closable
  <2>4. AgreeInv'
    <3>1. Finished' => Concluded' /\ GeminiDone'
      BY <1>6, <1>7 DEF Closable
    <3>2. Finished' => ser'.gemini.errors > 0 \/ GeminiEnded'
      BY <1>2, <1>6, <1>7 DEF Closable, GeminiKeeps
    <3>3. Completed' \/ GeminiFinished' => Finished' /\ ~Failure'
      BY <1>3, <1>7, <1>10 DEF Closable
    <3>4. tally'.errors > 0 => ser'.responses.failed /\ GeminiDone'
      BY <1>2, <1>3, <1>6, <1>7 DEF Closable
    <3> QED
      BY <3>1, <3>2, <3>3, <3>4 DEF AgreeInv
  <2> QED
    BY <2>1, <2>2, <2>3, <2>4 DEF OutputInv
<1> QED
  BY <1>12, <1>13, <1>14, <1>15 DEF IInv

LEMMA ClosableAsIs ==
    ASSUME IInv, chat = "streaming"
    PROVE  Closable(ser, tally)
<1>1. /\ {"responses", "openai", "gemini"} \subseteq DOMAIN ser
      /\ {"usage", "errors", "estimated"} \subseteq DOMAIN tally /\ tally.errors \in Nat
      /\ ResponsesKeeps(ser.responses) /\ OpenAIKeeps(ser.openai) /\ GeminiKeeps(ser.gemini)
  BY DEF IInv, TypeInv, SerializersOK, TallyOK
<1>2. ResponsesOnce(ser.responses) /\ GeminiOnce(ser.gemini) /\ (~Babble => OpenAIOnce(ser.openai))
  BY DEF IInv, OutputInv, ResponsesInv, GeminiInv, OpenAIInv
<1>3. OpenAIFinished(ser.openai) <=> Finished
  BY DEF Finished
<1>4. AgreeInv
  BY DEF IInv, OutputInv
<1>5. /\ Finished => /\ ResponsesConcluded(ser.responses) /\ IsDone(ser.gemini)
                     /\ ser.gemini.errors > 0 \/ GeminiEnd(ser.gemini)
      /\ ResponsesCompleted(ser.responses) \/ GeminiFinish(ser.gemini) => Finished /\ ~Failure
      /\ tally.errors > 0 => ser.responses.failed /\ IsDone(ser.gemini)
  BY <1>4 DEF AgreeInv, Completed, Concluded, GeminiFinished, GeminiEnded, GeminiDone, IsDone
<1> QED
  BY <1>1, <1>2, <1>3, <1>5 DEF Closable

\* A crash leaves a reply that is not complete, and it becomes a failed one.
LEMMA ClosableFailed ==
    ASSUME IInv, chat = "streaming", crashed
    PROVE  Closable(Serialized(Message("error")), Tallied(Message("error")))
<1> DEFINE e == Message("error")
           r == ToResponses!ResponsesSerialize(ser.responses, e, now)
           o == ToOpenAI!OpenAISerialize(ser.openai, e, now)
           g == ToGemini!GeminiSerialize(ser.gemini, e, now)
           s == Serialized(e)
           t == Tallied(e)
<1>1. e.type = "error"
  BY DEF Message, Event
<1> HIDE DEF e
<1>2. ~IsFinal(e)
  BY <1>1 DEF IsFinal
<1>3. Finished => Babble /\ Failure
  BY DEF IInv, EventsInv, SourceInv, EndingInv, Babble
<1>4. AgreeInv /\ ~Completed /\ ~GeminiFinished
  BY <1>3 DEF IInv, OutputInv, AgreeInv
<1>5. /\ ResponsesKeeps(ser.responses) /\ OpenAIKeeps(ser.openai) /\ GeminiKeeps(ser.gemini)
      /\ ResponsesOnce(ser.responses) /\ GeminiOnce(ser.gemini)
  BY DEF IInv, TypeInv, SerializersOK, OutputInv, ResponsesInv, GeminiInv
<1>6. /\ {"responses", "openai", "gemini"} \subseteq DOMAIN s
      /\ s.responses = r /\ s.openai = o /\ s.gemini = g
  BY SerializedFields
<1>7. {"usage", "errors", "estimated"} \subseteq DOMAIN t /\ t.errors = tally.errors + 1 /\ tally.errors \in Nat
  BY <1>1, TalliedErrors DEF IInv, TypeInv, TallyOK
<1>8. ResponsesKeeps(r) /\ ResponsesOnce(r) /\ r.failed /\ ~ResponsesCompleted(r) /\ ResponsesConcluded(r)
  BY <1>1, <1>4, <1>5, ResponsesStep DEF Completed
<1>9. /\ OpenAIKeeps(o)
      /\ OpenAIFinished(o) <=> Finished
      /\ ~Finished => OpenAIOnce(o)
  BY <1>2, <1>5, OpenAIStep DEF Finished
<1>10. /\ GeminiKeeps(g) /\ GeminiOnce(g) /\ IsDone(g) /\ ~GeminiFinish(g)
       /\ GeminiEnded => GeminiEnd(g)
       /\ g.errors >= ser.gemini.errors
  BY <1>1, <1>2, <1>4, <1>5, GeminiStep DEF GeminiEnded, GeminiFinished
<1> HIDE DEF r, o, g, s, t
<1>11. Finished => g.errors > 0 \/ GeminiEnd(g)
  BY <1>4, <1>5, <1>10 DEF AgreeInv, GeminiKeeps
<1>12. Closable(s, t)
  BY <1>3, <1>6, <1>7, <1>8, <1>9, <1>10, <1>11 DEF Closable
<1> QED
  BY <1>12 DEF s, t, e

LEMMA FinishInv == IInv /\ Finish => IInv'
<1> SUFFICES ASSUME IInv, Finish PROVE IInv'
  OBVIOUS
<1>1. chat = "streaming" /\ pending = <<>> /\ Ended /\ Close(ser, tally)
  BY DEF Finish, Streaming, Ended
<1>2. Closable(ser, tally)
  BY <1>1, ClosableAsIs
<1> QED
  BY <1>1, <1>2, CloseInv

LEMMA RecoverInv == IInv /\ Recover => IInv'
<1> SUFFICES ASSUME IInv, Recover PROVE IInv'
  OBVIOUS
<1>1. chat = "streaming" /\ crashed
  BY DEF Recover
<1>2. pending = <<>>
  BY <1>1 DEF IInv, EventsInv, SourceInv
<1>3. CASE Close(ser, tally)
  BY <1>1, <1>2, <1>3, ClosableAsIs, CloseInv
<1>4. CASE Close(Serialized(Message("error")), Tallied(Message("error")))
  <2> DEFINE s == Serialized(Message("error"))
             t == Tallied(Message("error"))
  <2>1. Closable(s, t) /\ Close(s, t)
    BY <1>1, <1>4, ClosableFailed
  <2> HIDE DEF s, t
  <2> QED
    BY <1>1, <1>2, <2>1, CloseInv
<1> QED
  BY <1>3, <1>4 DEF Recover

-----------------------------------------------------------------------------
(* The converter is called. *)

\* How far the adapter is after its event e was taken.
SourceAfter(e) ==
    IF e.type = "start" THEN "live"
    ELSE IF e.type = "error"
         THEN IF kind \in ReadsOn /\ told.source # "silent" THEN "babbling" ELSE "failed"
    ELSE IF e.type = "done" THEN IF told.source = "babbling" THEN "babbled" ELSE "done"
    ELSE told.source

LEMMA TellSource ==
    ASSUME NEW e, ToldOK
    PROVE  "source" \in DOMAIN Tell(e) /\ Tell(e).source = SourceAfter(e)
<1>1. "source" \in DOMAIN told
  BY DEF ToldOK
<1>2. CASE e.type = "start"
  BY <1>1, <1>2 DEF Tell, SourceAfter
<1>3. CASE e.type = "stop"
  BY <1>1, <1>3 DEF Tell, SourceAfter
<1>4. CASE e.type = "error"
  BY <1>1, <1>4 DEF Tell, SourceAfter
<1>5. CASE e.type = "done"
  BY <1>1, <1>5 DEF Tell, SourceAfter
<1>6. CASE e.type = "tool"
  BY <1>1, <1>6 DEF Tell, SourceAfter
<1>7. CASE e.type = "block"
  <2>1. CASE e.kind = "tool_use"
    BY <1>1, <1>7, <2>1 DEF Tell, SourceAfter, ContentKinds
  <2>2. CASE e.kind # "tool_use"
    BY <1>1, <1>7, <2>2 DEF Tell, SourceAfter
  <2> QED
    BY <2>1, <2>2
<1>8. CASE e.type = "redacted"
  BY <1>1, <1>8 DEF Tell, SourceAfter
<1>9. CASE e.type = "fragment"
  BY <1>1, <1>9 DEF Tell, SourceAfter
<1>10. CASE e.type = "blockstop"
  BY <1>1, <1>10 DEF Tell, SourceAfter
<1>11. CASE e.type \notin {"start", "stop", "error", "done", "tool", "block", "redacted", "fragment", "blockstop"}
  BY <1>1, <1>11 DEF Tell, SourceAfter
<1> QED
  BY <1>2, <1>3, <1>4, <1>5, <1>6, <1>7, <1>8, <1>9, <1>10, <1>11

LEMMA SourceAfterIn ==
    ASSUME NEW e, ToldOK
    PROVE  SourceAfter(e) \in Sources
  BY DEF SourceAfter, ToldOK, Sources

\* An event leaves the queue.
LEMMA QueueMoves ==
    ASSUME IInv, queue # <<>>, chat = "streaming", queue' = Tail(queue), UNCHANGED <<kind, wire, a, chat>>,
           "source" \in DOMAIN told', told'.source = SourceAfter(queue[1]),
           started' = (started \/ queue[1].type = "start")
    PROVE  QueueInv' /\ QueueOK'
<1>1. /\ Len(queue) \in Nat /\ 1 \in 1..Len(queue) /\ QueueOK'
      /\ Len(queue') = Len(queue) - 1
      /\ \A p \in 1..Len(queue') : p + 1 \in 1..Len(queue) /\ queue'[p] = queue[p + 1]
  <2>1. Made(queue, Speech \cup {"done"})
    BY DEF IInv, TypeInv, QueueOK
  <2>2. /\ Len(queue) \in Nat /\ Len(queue) # 0 /\ Made(Tail(queue), Speech \cup {"done"})
        /\ Len(Tail(queue)) = Len(queue) - 1
        /\ \A p \in 1..(Len(queue) - 1) : Tail(queue)[p] = queue[p + 1]
    BY <2>1, MadeAt
  <2> QED
    BY <2>2 DEF QueueOK
<1>2. StartInv /\ DoneInv /\ ErrorInv
  BY DEF IInv, QueueInv
<1>3. Len(queue) = 1 => queue' = <<>>
  BY <1>1 DEF QueueOK, Made
<1>4. StartInv'
  <2>1. \A p \in 1..Len(queue') : queue'[p].type = "start" =>
             /\ ~started /\ queue[1].type # "start"
             /\ \A q \in 1..Len(queue') : queue'[q].type = "start" => q = p
    <3> SUFFICES ASSUME NEW p \in 1..Len(queue'), queue'[p].type = "start"
                 PROVE  /\ ~started /\ queue[1].type # "start"
                        /\ \A q \in 1..Len(queue') : queue'[q].type = "start" => q = p
      OBVIOUS
    <3>1. p + 1 \in 1..Len(queue) /\ queue[p + 1].type = "start"
      BY <1>1
    <3>2. ~started /\ \A q \in 1..Len(queue) : queue[q].type = "start" => q = p + 1
      BY <1>2, <3>1 DEF StartInv
    <3> QED
      BY <1>1, <3>2
  <2>2. chat' = "streaming" /\ (wire' # "over" => a'.start)
    BY <1>2 DEF StartInv
  <2> QED
    BY <2>1, <2>2 DEF StartInv
<1>5. DoneInv'
  <2>1. wire' = "ending" => kind' = "websocket" /\ a'.start
    BY <1>2 DEF DoneInv
  <2>2. ASSUME NEW p \in 1..Len(queue'), queue'[p].type = "done"
        PROVE  p = Len(queue') /\ wire' = "over"
    <3>1. p + 1 \in 1..Len(queue) /\ queue[p + 1].type = "done"
      BY <1>1, <2>2
    <3>2. p + 1 = Len(queue) /\ wire = "over"
      BY <1>2, <3>1 DEF DoneInv
    <3>3. p \in Nat /\ Len(queue) \in Nat /\ Len(queue') = Len(queue) - 1
      BY <1>1
    <3>4. p = Len(queue')
      BY <3>2, <3>3
    <3> QED
      BY <3>2, <3>4
  <2>3. Ended' => queue' = <<>> /\ wire' = "over"
    <3>1. ~Ended
      BY <1>2 DEF DoneInv
    <3>2. Ended' => queue[1].type = "done"
      BY <3>1 DEF Ended, SourceAfter
    <3> QED
      BY <1>1, <1>2, <1>3, <3>2 DEF DoneInv
  <2> QED
    BY <2>1, <2>2, <2>3 DEF DoneInv
<1>6. ErrorInv'
  <2> SUFFICES ASSUME kind \notin ReadsOn
               PROVE  /\ \A p \in 1..Len(queue') : queue'[p].type = "error" =>
                            wire # "open" /\ \A q \in 1..Len(queue') : q > p => queue'[q].type \in Farewell
                      /\ told'.source = "failed" =>
                            wire # "open" /\ \A q \in 1..Len(queue') : queue'[q].type \in Farewell
    BY DEF ErrorInv
  <2>1. \A p \in 1..Len(queue) : queue[p].type = "error" =>
            wire # "open" /\ \A q \in 1..Len(queue) : q > p => queue[q].type \in Farewell
    BY <1>2 DEF ErrorInv
  <2>2. ASSUME NEW p \in 1..Len(queue'), queue'[p].type = "error"
        PROVE  wire # "open" /\ \A q \in 1..Len(queue') : q > p => queue'[q].type \in Farewell
    <3>1. p + 1 \in 1..Len(queue) /\ queue[p + 1].type = "error"
      BY <1>1, <2>2
    <3>2. \A q \in 1..Len(queue') : q > p => q + 1 > p + 1 /\ q + 1 \in 1..Len(queue) /\ queue'[q] = queue[q + 1]
      BY <1>1
    <3> QED
      BY <2>1, <3>1, <3>2
  <2>3. ASSUME told'.source = "failed"
        PROVE  wire # "open" /\ \A q \in 1..Len(queue') : queue'[q].type \in Farewell
    <3>1. queue[1].type = "error" \/ told.source = "failed"
      BY <2>3 DEF SourceAfter
    <3>2. \A q \in 1..Len(queue') : q + 1 > 1 /\ q + 1 \in 1..Len(queue) /\ queue'[q] = queue[q + 1]
      BY <1>1
    <3>3. CASE queue[1].type = "error"
      BY <1>1, <2>1, <3>2, <3>3
    <3>4. CASE told.source = "failed"
      BY <1>2, <3>2, <3>4 DEF ErrorInv
    <3> QED
      BY <3>1, <3>3, <3>4
  <2> QED
    BY <2>2, <2>3
<1> QED
  BY <1>1, <1>4, <1>5, <1>6 DEF QueueInv

\* A converter that has ended the message is called on for one of two reasons.
LEMMA AfterStop ==
    ASSUME IInv, chat = "streaming", ~Ended, stopHandled
    PROVE  /\ started /\ told.source \in {"babbling", "failed"} /\ Failure
           /\ told.source = "failed" => kind \notin ReadsOn
           /\ told.source = "failed" /\ queue # <<>> => queue[1].type \in Farewell
<1>1. started /\ told.source \in {"babbling", "failed"} /\ (told.source = "failed" => kind \notin ReadsOn)
  BY DEF IInv, EventsInv, SourceInv, Ended
<1>2. Failure
  BY DEF IInv, EventsInv, EndingInv
<1>3. queue # <<>> => 1 \in 1..Len(queue)
  BY MadeAt DEF IInv, TypeInv, QueueOK
<1> QED
  BY <1>1, <1>2, <1>3 DEF IInv, QueueInv, ErrorInv

\* The serializers wait for the events.
LEMMA Unwritten ==
    ASSUME IInv, chat = "streaming", ~Ended, UNCHANGED <<kind, chat, ser, tally>>,
           Finished => (Babble => Babble')
    PROVE  OutputInv'
<1>1. /\ Finished' = Finished /\ Completed' = Completed /\ Concluded' = Concluded
      /\ GeminiFinished' = GeminiFinished /\ GeminiEnded' = GeminiEnded /\ GeminiDone' = GeminiDone
  BY DEF Finished, Completed, Concluded, GeminiFinished, GeminiEnded, GeminiDone
<1>2. ~Completed /\ ~GeminiFinished
  BY DEF IInv, EventsInv, EndingInv, OutputInv, AgreeInv
<1>3. ResponsesInv' /\ GeminiInv'
  BY <1>1 DEF IInv, OutputInv, ResponsesInv, GeminiInv
<1>4. OpenAIInv'
  <2>1. CASE Finished
    BY <2>1 DEF IInv, OutputInv, OpenAIInv
  <2>2. CASE ~Finished
    BY <2>2 DEF OpenAIInv, OpenAIOnce, Finished, OpenAIFinished
  <2> QED
    BY <2>1, <2>2
<1>5. AgreeInv'
  BY <1>1, <1>2 DEF IInv, OutputInv, AgreeInv
<1> QED
  BY <1>3, <1>4, <1>5 DEF OutputInv

LEMMA OrdinaryBatch ==
    ASSUME NEW q, Ordinary(q)
    PROVE  /\ IsSequence(q)
           /\ \A p \in 1..Len(q) : ~IsFinal(q[p]) /\ q[p].type # "error" /\ q[p].type # "message_stop"
  BY DEF Ordinary

LEMMA EndingBatch ==
    ASSUME NEW q, Ending(q)
    PROVE  /\ IsSequence(q) /\ Len(q) \in Nat
           /\ \E p \in 1..Len(q) : IsFinal(q[p])
           /\ \A p \in 1..Len(q) : q[p].type = "error" => p = 1
           /\ \A p \in 1..Len(q) : IsFinal(q[p]) => \A r \in 1..Len(q) : r > p => q[r].type = "message_stop"
           /\ \A p \in 1..Len(q) : q[p].type = "message_stop" => \E r \in 1..Len(q) : r < p /\ IsFinal(q[r])
<1>1. /\ IsSequence(q) /\ Len(q) \in Nat /\ Len(q) >= 2
      /\ IsFinal(q[Len(q) - 1]) /\ q[Len(q)].type = "message_stop"
      /\ \A p \in 1..(Len(q) - 2) :
            ~IsFinal(q[p]) /\ q[p].type # "message_stop" /\ (q[p].type = "error" => p = 1)
  BY DEF Ending
<1>2. \A p \in 1..Len(q) : p \in 1..(Len(q) - 2) \/ p = Len(q) - 1 \/ p = Len(q)
  BY <1>1
<1>3. Len(q) - 1 \in 1..Len(q) /\ Len(q) \in 1..Len(q)
  BY <1>1
<1>4. /\ q[Len(q) - 1].type = "message_delta"
      /\ ~IsFinal(q[Len(q)])
  BY <1>1 DEF IsFinal
<1>5. \A p \in 1..Len(q) : q[p].type = "error" => p = 1
  BY <1>1, <1>2, <1>4
<1>6. \A p \in 1..Len(q) : IsFinal(q[p]) => p = Len(q) - 1
  BY <1>1, <1>2, <1>4
<1>7. \A p \in 1..Len(q) : IsFinal(q[p]) => \A r \in 1..Len(q) : r > p => q[r].type = "message_stop"
  <2>1. \A r \in 1..Len(q) : r > Len(q) - 1 => r = Len(q)
    BY <1>1
  <2> QED
    BY <1>1, <1>6, <2>1
<1>8. \A p \in 1..Len(q) : q[p].type = "message_stop" => p = Len(q)
  BY <1>1, <1>2, <1>4
<1>9. Len(q) - 1 < Len(q)
  BY <1>1
<1> QED
  BY <1>1, <1>3, <1>5, <1>7, <1>8, <1>9

\* One event of the adapter, in the four ways the converter takes it.
LEMMA StartedEvents ==
    ASSUME IInv, Streaming, ~Ended, UNCHANGED <<kind, chat, ser, tally>>, ToldOK', ~started,
           told'.source = "live", started' = TRUE, stopHandled' = FALSE, crashed' = crashed,
           Ordinary(pending')
    PROVE  EventsInv' /\ OutputInv'
<1>1. chat = "streaming" /\ ~crashed
  BY DEF Streaming
<1>2. ~stopHandled
  BY DEF IInv, EventsInv, SourceInv
<1>3. ~Finished
  BY <1>2 DEF IInv, EventsInv, EndingInv
<1>4. \A p \in 1..Len(pending') :
          ~IsFinal(pending'[p]) /\ pending'[p].type # "error" /\ pending'[p].type # "message_stop"
  BY OrdinaryBatch
<1>5. ~Finished' /\ ~FinalAhead'
  BY <1>3, <1>4 DEF Finished, FinalAhead
<1>6. SourceInv' /\ BatchInv' /\ EndingInv'
  <2>1. SourceInv'
    BY <1>1 DEF SourceInv, Early, Ended
  <2>2. BatchInv'
    BY <1>4 DEF BatchInv
  <2>3. EndingInv'
    BY <1>1, <1>5 DEF EndingInv, Early
  <2> QED
    BY <2>1, <2>2, <2>3
<1>7. OutputInv'
  BY <1>1, <1>3, Unwritten
<1> QED
  BY <1>6, <1>7 DEF EventsInv

\* The converter passed an event of the middle on.
LEMMA PassedEvents ==
    ASSUME IInv, Streaming, ~Ended, UNCHANGED <<kind, chat, ser, tally>>, ToldOK',
           told'.source = told.source, Passes,
           stopHandled /\ told.source = "failed" => pending' = <<>> /\ crashed' = crashed
    PROVE  EventsInv' /\ OutputInv'
<1>1. chat = "streaming" /\ ~crashed /\ pending = <<>> /\ Len(pending) = 0
  BY DEF Streaming
<1>2. /\ started' = started /\ stopHandled' = stopHandled
      /\ crashed' = crashed \/ (crashed' = TRUE /\ pending' = <<>>)
      /\ Ordinary(pending')
  BY DEF Passes
<1>3. \A p \in 1..Len(pending') :
          ~IsFinal(pending'[p]) /\ pending'[p].type # "error" /\ pending'[p].type # "message_stop"
  BY <1>2, OrdinaryBatch
<1>4. /\ ~FinalAhead /\ ~FinalAhead' /\ ~ErrorAhead /\ ~ErrorAhead'
      /\ Finished' = Finished /\ Ended' = Ended /\ Babble' = Babble
  BY <1>1, <1>3 DEF Finished, FinalAhead, ErrorAhead, Ended, Babble
<1>5. Failure' = Failure
  BY <1>4 DEF Failure
<1>6. stopHandled => told.source \in {"babbling", "failed"}
  BY <1>1, AfterStop
<1>7. SourceInv'
  BY <1>1, <1>2, <1>4, <1>6 DEF IInv, EventsInv, SourceInv, Early
<1>8. BatchInv'
  BY <1>3 DEF BatchInv
<1>9. EndingInv'
  <2>1. /\ stopHandled' <=> Finished' \/ FinalAhead'
        /\ stopHandled' /\ ~Failure' => Ended'
        /\ told'.source \in {"failed", "babbling", "babbled"} => Failure'
    BY <1>2, <1>4, <1>5 DEF IInv, EventsInv, EndingInv
  <2>2. Finished' /\ ~Babble' => \A p \in 1..Len(pending') : pending'[p].type = "message_stop"
    <3> SUFFICES ASSUME Finished, ~Babble PROVE Len(pending') = 0
      BY <1>4
    <3>1. stopHandled
      BY DEF IInv, EventsInv, EndingInv
    <3>2. told.source = "failed"
      BY <1>6, <3>1 DEF Babble
    <3> QED
      BY <3>1, <3>2
  <2> QED
    BY <1>1, <2>1, <2>2 DEF EndingInv, Early
<1>10. OutputInv'
  BY <1>1, <1>4, Unwritten
<1> QED
  BY <1>7, <1>8, <1>9, <1>10 DEF EventsInv

\* The converter was told of an error.
LEMMA FailedEvents ==
    ASSUME IInv, Streaming, ~Ended, UNCHANGED <<kind, chat, ser, tally>>, ToldOK',
           told'.source = IF kind \in ReadsOn /\ told.source # "silent" THEN "babbling" ELSE "failed",
           stopHandled => told.source = "babbling",
           started' = started, crashed' = crashed,
           started /\ ~stopHandled => stopHandled' = TRUE /\ Ending(pending'),
           ~(started /\ ~stopHandled) => stopHandled' = stopHandled /\ pending' = <<Message("error")>>,
           pending'[1].type = "error"
    PROVE  EventsInv' /\ OutputInv'
<1>1. chat = "streaming" /\ ~crashed /\ pending = <<>> /\ Len(pending) = 0
  BY DEF Streaming
<1>2. stopHandled => kind \in ReadsOn /\ started
  BY DEF IInv, EventsInv, SourceInv
<1>3. started' => told.source # "silent"
  BY DEF IInv, EventsInv, SourceInv
<1>4. Finished => stopHandled
  BY DEF IInv, EventsInv, EndingInv
<1>5. ~FinalAhead /\ (stopHandled <=> Finished) /\ Finished' = Finished
  BY <1>1 DEF IInv, EventsInv, EndingInv, FinalAhead, Finished
<1>6. Finished => Babble'
  BY <1>2, <1>4 DEF Babble
<1>7. SourceInv'
  BY <1>1, <1>2, <1>3 DEF SourceInv, Early, Ended
<1>8. /\ \A p \in 1..Len(pending') : pending'[p].type = "error" => p = 1
      /\ \A p \in 1..Len(pending') : IsFinal(pending'[p]) =>
            \A q \in 1..Len(pending') : q > p => pending'[q].type = "message_stop"
      /\ \A p \in 1..Len(pending') : pending'[p].type = "message_stop" =>
            \E q \in 1..Len(pending') : q < p /\ IsFinal(pending'[q])
      /\ 1 \in 1..Len(pending')
      /\ stopHandled' <=> Finished \/ FinalAhead'
  <2>1. CASE started /\ ~stopHandled
    <3>1. stopHandled' = TRUE /\ Ending(pending')
      BY <2>1
    <3>2. FinalAhead' /\ 1 \in 1..Len(pending')
      BY <3>1, EndingBatch DEF FinalAhead
    <3> QED
      BY <3>1, <3>2, EndingBatch
  <2>2. CASE ~(started /\ ~stopHandled)
    <3>1. stopHandled' = stopHandled /\ pending' = <<Message("error")>>
      BY <2>2
    <3>2. Len(pending') = 1
      BY <3>1
    <3>3. ~IsFinal(pending'[1])
      BY DEF IsFinal
    <3> QED
      BY <1>5, <3>1, <3>2, <3>3 DEF FinalAhead
  <2> QED
    BY <2>1, <2>2
<1>9. BatchInv'
  BY <1>8 DEF BatchInv
<1>10. Failure'
  BY <1>8 DEF Failure, ErrorAhead
<1>11. EndingInv'
  BY <1>1, <1>5, <1>6, <1>8, <1>10 DEF EndingInv, Early
<1>12. OutputInv'
  BY <1>1, <1>6, Unwritten
<1> QED
  BY <1>7, <1>9, <1>11, <1>12 DEF EventsInv

\* The converter was told that the reply is done.
LEMMA DoneEvents ==
    ASSUME IInv, Streaming, ~Ended, UNCHANGED <<kind, chat, ser, tally>>, ToldOK',
           told'.source = IF told.source = "babbling" THEN "babbled" ELSE "done",
           started' = started, crashed' = crashed,
           started /\ ~stopHandled => stopHandled' = TRUE /\ Ending(pending'),
           ~(started /\ ~stopHandled) => stopHandled' = stopHandled /\ pending' = <<>>
    PROVE  EventsInv' /\ OutputInv'
<1>1. chat = "streaming" /\ ~crashed /\ pending = <<>> /\ Len(pending) = 0 /\ Ended'
  BY DEF Streaming, Ended
<1>2. ~FinalAhead /\ ~ErrorAhead /\ (stopHandled <=> Finished) /\ Finished' = Finished
  BY <1>1 DEF IInv, EventsInv, EndingInv, FinalAhead, ErrorAhead, Finished
<1>3. stopHandled => started
  BY DEF IInv, EventsInv, SourceInv
<1>4. SourceInv'
  BY <1>1, <1>3 DEF SourceInv, Early
<1>5. /\ \A p \in 1..Len(pending') : pending'[p].type = "error" => p = 1
      /\ \A p \in 1..Len(pending') : IsFinal(pending'[p]) =>
            \A q \in 1..Len(pending') : q > p => pending'[q].type = "message_stop"
      /\ \A p \in 1..Len(pending') : pending'[p].type = "message_stop" =>
            \E q \in 1..Len(pending') : q < p /\ IsFinal(pending'[q])
      /\ stopHandled' <=> Finished \/ FinalAhead'
      /\ Finished => Len(pending') = 0
  <2>1. CASE started /\ ~stopHandled
    <3>1. stopHandled' = TRUE /\ Ending(pending')
      BY <2>1
    <3>2. FinalAhead'
      BY <3>1, EndingBatch DEF FinalAhead
    <3> QED
      BY <1>2, <2>1, <3>1, <3>2, EndingBatch
  <2>2. CASE ~(started /\ ~stopHandled)
    <3>1. stopHandled' = stopHandled /\ Len(pending') = 0
      BY <2>2
    <3> QED
      BY <1>2, <3>1 DEF FinalAhead
  <2> QED
    BY <2>1, <2>2
<1>6. BatchInv'
  BY <1>5 DEF BatchInv
<1>7. told'.source = "babbled" => Failure'
  BY <1>2 DEF IInv, EventsInv, EndingInv, Failure
<1>8. EndingInv'
  <2>1. told'.source \in {"failed", "babbling", "babbled"} => Failure'
    BY <1>7
  <2>2. Finished' /\ ~Babble' => \A p \in 1..Len(pending') : pending'[p].type = "message_stop"
    BY <1>2, <1>5
  <2>3. stopHandled' <=> Finished' \/ FinalAhead'
    BY <1>2, <1>5
  <2> QED
    BY <1>1, <2>1, <2>2, <2>3 DEF EndingInv, Early
<1>9. Babble => Babble'
  BY DEF Babble, Ended
<1>10. OutputInv'
  BY <1>1, <1>9, Unwritten
<1> QED
  BY <1>4, <1>6, <1>8, <1>10 DEF EventsInv

LEMMA ConverterKeeps ==
    ASSUME IInv, UNCHANGED <<kind, scanner, wire, a, chat, ser, tally>>, QueueOK', ToldOK',
           started' \in BOOLEAN, stopHandled' \in BOOLEAN, crashed' \in BOOLEAN,
           IsFiniteSet(openTools'), IsSequence(pending')
    PROVE  TypeInv'
  BY DEF IInv, TypeInv, AdapterOK, ScannerOK, LegiblePending, ConverterOK, StatusOK, TallyOK, SerializersOK

LEMMA ConvertInv == IInv /\ Convert => IInv'
<1> SUFFICES ASSUME IInv, Convert PROVE IInv'
  OBVIOUS
<1> DEFINE e == queue[1]
<1>1. Streaming /\ queue # <<>> /\ queue' = Tail(queue) /\ Dispatch(Head(queue)) /\ told' = Tell(Head(queue))
      /\ UNCHANGED <<kind, scanner, wire, a, chat, ser, tally>>
  BY DEF Convert
<1>2. /\ Made(queue, Speech \cup {"done"}) /\ ToldOK /\ IsFiniteSet(openTools)
      /\ started \in BOOLEAN /\ stopHandled \in BOOLEAN /\ crashed \in BOOLEAN
  BY DEF IInv, TypeInv, QueueOK, ConverterOK
<1>3. Head(queue) = e /\ 1 \in 1..Len(queue) /\ e.type \in Speech \cup {"done"}
  <2>1. Len(queue) \in Nat /\ Len(queue) # 0 /\ Head(queue) = queue[1]
    BY <1>1, <1>2, MadeAt
  <2>2. 1 \in 1..Len(queue)
    BY <2>1
  <2> QED
    BY <1>2, <2>1, <2>2, MadeAt
<1> HIDE DEF e
<1>4. chat = "streaming" /\ pending = <<>> /\ ~crashed
  BY <1>1 DEF Streaming
<1>5. ~Ended
  BY <1>1 DEF IInv, QueueInv, DoneInv
<1>6. "source" \in DOMAIN told' /\ told'.source = SourceAfter(e) /\ ToldOK'
  BY <1>1, <1>2, <1>3, TellSource, SourceAfterIn DEF ToldOK
<1>7. /\ IsFiniteSet(openTools')
      /\ e.type = "start" => /\ started' = TRUE /\ stopHandled' = FALSE /\ crashed' = crashed
                             /\ Ordinary(pending')
      /\ e.type = "stop" => pending' = <<>> /\ crashed' = crashed
      /\ e.type \notin {"start", "error", "done"} => Passes
      /\ e.type \in {"error", "done"} => started' = started /\ crashed' = crashed
      /\ e.type \in {"error", "done"} /\ started /\ ~stopHandled =>
             stopHandled' = TRUE /\ Ending(pending')
      /\ e.type \in {"error", "done"} /\ ~(started /\ ~stopHandled) =>
             /\ stopHandled' = stopHandled
             /\ pending' = IF e.type = "error" THEN <<Message("error")>> ELSE <<>>
      /\ e.type = "error" => pending'[1].type = "error"
  BY <1>1, <1>2, <1>3, <1>4, Dispatched
<1>8. started' = (started \/ e.type = "start")
  BY <1>2, <1>7 DEF Passes
<1>9. QueueInv' /\ QueueOK'
  BY <1>1, <1>4, <1>6, <1>8, QueueMoves DEF e
<1>10. stopHandled /\ told.source = "failed" => e.type \in Farewell
  BY <1>1, <1>4, <1>5, AfterStop DEF e
<1>11. CASE e.type = "start"
  <2>1. ~started
    BY <1>3, <1>11 DEF e, IInv, QueueInv, StartInv
  <2>2. told'.source = "live"
    BY <1>6, <1>11 DEF SourceAfter
  <2>3. EventsInv' /\ OutputInv'
    BY <1>1, <1>5, <1>6, <1>7, <1>11, <2>1, <2>2, StartedEvents
  <2>4. IsSequence(pending')
    BY <1>7, <1>11 DEF Ordinary
  <2>5. started' \in BOOLEAN /\ stopHandled' \in BOOLEAN /\ crashed' \in BOOLEAN
    BY <1>2, <1>7, <1>11
  <2>6. TypeInv'
    BY <1>1, <1>6, <1>7, <1>9, <2>4, <2>5, ConverterKeeps
  <2> QED
    BY <1>9, <2>3, <2>6 DEF IInv
<1>12. CASE e.type = "error"
  <2>1. told'.source = IF kind \in ReadsOn /\ told.source # "silent" THEN "babbling" ELSE "failed"
    BY <1>6, <1>12 DEF SourceAfter
  <2>2. stopHandled => told.source = "babbling"
    BY <1>4, <1>5, <1>10, <1>12, AfterStop DEF Farewell
  <2>3. /\ started' = started /\ crashed' = crashed
        /\ started /\ ~stopHandled => stopHandled' = TRUE /\ Ending(pending')
        /\ ~(started /\ ~stopHandled) => stopHandled' = stopHandled /\ pending' = <<Message("error")>>
        /\ pending'[1].type = "error"
    BY <1>7, <1>12
  <2>4. EventsInv' /\ OutputInv'
    BY <1>1, <1>5, <1>6, <2>1, <2>2, <2>3, FailedEvents
  <2>5. IsSequence(pending')
    <3>1. CASE started /\ ~stopHandled
      BY <2>3, <3>1 DEF Ending
    <3>2. CASE ~(started /\ ~stopHandled)
      <4> DEFINE m == Message("error")
      <4> HIDE DEF m
      <4>1. pending' = <<m>>
        BY <2>3, <3>2 DEF m
      <4>2. pending' \in Seq({m})
        BY <4>1
      <4> QED
        BY <4>2 DEF IsSequence
    <3> QED
      BY <3>1, <3>2
  <2>6. started' \in BOOLEAN /\ stopHandled' \in BOOLEAN /\ crashed' \in BOOLEAN
    BY <1>2, <2>3
  <2>7. TypeInv'
    BY <1>1, <1>6, <1>7, <1>9, <2>5, <2>6, ConverterKeeps
  <2> QED
    BY <1>9, <2>4, <2>7 DEF IInv
<1>13. CASE e.type = "done"
  <2>1. told'.source = IF told.source = "babbling" THEN "babbled" ELSE "done"
    BY <1>6, <1>13 DEF SourceAfter
  <2>2. /\ started' = started /\ crashed' = crashed
        /\ started /\ ~stopHandled => stopHandled' = TRUE /\ Ending(pending')
        /\ ~(started /\ ~stopHandled) => stopHandled' = stopHandled /\ pending' = <<>>
    BY <1>7, <1>13
  <2>3. EventsInv' /\ OutputInv'
    BY <1>1, <1>5, <1>6, <2>1, <2>2, DoneEvents
  <2>4. IsSequence(pending')
    BY <2>2, OrdinaryEmpty DEF Ending, Ordinary
  <2>5. started' \in BOOLEAN /\ stopHandled' \in BOOLEAN /\ crashed' \in BOOLEAN
    BY <1>2, <2>2
  <2>6. TypeInv'
    BY <1>1, <1>6, <1>7, <1>9, <2>4, <2>5, ConverterKeeps
  <2> QED
    BY <1>9, <2>3, <2>6 DEF IInv
<1>14. CASE e.type \notin {"start", "error", "done"}
  <2>1. told'.source = told.source
    BY <1>6, <1>14 DEF SourceAfter
  <2>2. Passes
    BY <1>7, <1>14
  <2>3. stopHandled /\ told.source = "failed" => pending' = <<>> /\ crashed' = crashed
    BY <1>7, <1>10, <1>14 DEF Farewell
  <2>4. EventsInv' /\ OutputInv'
    BY <1>1, <1>5, <1>6, <2>1, <2>2, <2>3, PassedEvents
  <2>5. IsSequence(pending')
    BY <2>2 DEF Passes, Ordinary
  <2>6. started' \in BOOLEAN /\ stopHandled' \in BOOLEAN /\ crashed' \in BOOLEAN
    BY <1>2, <2>2 DEF Passes
  <2>7. TypeInv'
    BY <1>1, <1>6, <1>7, <1>9, <2>5, <2>6, ConverterKeeps
  <2> QED
    BY <1>9, <2>4, <2>7 DEF IInv
<1> QED
  BY <1>11, <1>12, <1>13, <1>14

LEMMA ChannelClosedInv == IInv /\ ChannelClosed => IInv'
<1> SUFFICES ASSUME IInv, ChannelClosed PROVE IInv'
  OBVIOUS
<1> DEFINE e == API!DoneEvent
<1>1. /\ Streaming /\ queue = <<>> /\ wire = "over" /\ ~Ended /\ HandleDone /\ told' = Tell(e)
      /\ UNCHANGED <<kind, scanner, wire, a, queue, chat, ser, tally>>
  BY DEF ChannelClosed, Ended
<1>2. e.type = "done"
  BY DEF API!DoneEvent, API!Plain, API!PEvent
<1> HIDE DEF e
<1>3. /\ ToldOK /\ IsFiniteSet(openTools)
      /\ started \in BOOLEAN /\ stopHandled \in BOOLEAN /\ crashed \in BOOLEAN
  BY DEF IInv, TypeInv, ConverterOK
<1>4. ToldOK' /\ told'.source = IF told.source = "babbling" THEN "babbled" ELSE "done"
  <2>1. "source" \in DOMAIN told' /\ told'.source = SourceAfter(e) /\ SourceAfter(e) \in Sources
    BY <1>1, <1>3, TellSource, SourceAfterIn
  <2> QED
    BY <1>2, <2>1 DEF SourceAfter, ToldOK
<1>5. /\ IsFiniteSet(openTools') /\ started' = started /\ crashed' = crashed
      /\ started /\ ~stopHandled => stopHandled' = TRUE /\ Ending(pending')
      /\ ~(started /\ ~stopHandled) => stopHandled' = stopHandled /\ pending' = <<>>
  BY <1>1, <1>3, Closed DEF Streaming
<1>6. EventsInv' /\ OutputInv'
  BY <1>1, <1>4, <1>5, DoneEvents
<1>7. IsSequence(pending')
  BY <1>5, OrdinaryEmpty DEF Ending, Ordinary
<1>8. QueueOK'
  BY <1>1 DEF IInv, TypeInv, QueueOK
<1>9. started' \in BOOLEAN /\ stopHandled' \in BOOLEAN /\ crashed' \in BOOLEAN
  BY <1>3, <1>5
<1>10. TypeInv'
  BY <1>1, <1>4, <1>5, <1>7, <1>8, <1>9, ConverterKeeps
<1>11. QueueInv'
  <2>1. told'.source # "failed" /\ Len(queue') = 0 /\ wire' = "over" /\ chat' # "asking"
    BY <1>1, <1>4 DEF Streaming
  <2> QED
    BY <1>1, <1>5, <2>1 DEF IInv, QueueInv, StartInv, DoneInv, ErrorInv
<1> QED
  BY <1>6, <1>10, <1>11 DEF IInv

-----------------------------------------------------------------------------
(* Every step. *)

\* No step of the relay leaves the invariant.
LEMMA NextInv == IInv /\ [Next]_vars => IInv'
<1> SUFFICES ASSUME IInv, [Next]_vars PROVE IInv'
  OBVIOUS
<1>1. CASE UNCHANGED vars
  <2>1. UNCHANGED <<kind, scanner, wire, a, queue, told, chat, ser, tally, converterVars>>
    BY <1>1 DEF vars, relayVars
  <2>2. TypeInv'
    BY <2>1 DEF IInv, TypeInv, AdapterOK, ScannerOK, LegiblePending, QueueOK, ConverterOK, StatusOK, ToldOK,
                TallyOK, SerializersOK, converterVars
  <2>3. QueueInv'
    BY <2>1 DEF IInv, QueueInv, StartInv, DoneInv, ErrorInv, Ended, converterVars
  <2>4. EventsInv' /\ OutputInv'
    BY <2>1, Unseen DEF IInv
  <2> QED
    BY <2>2, <2>3, <2>4 DEF IInv
<1>2. CASE Next
  BY <1>2, AskInv, CallInv, ReadInv, ReadPendingInv, EndOfBodyInv, RefuseInv, PeekInv, ConvertInv,
     ChannelClosedInv, EmitInv, FinishInv, RecoverInv DEF Next
<1> QED
  BY <1>1, <1>2

LEMMA SpecInv == Spec => []IInv
  BY InitInv, NextInv, PTL DEF Spec

-----------------------------------------------------------------------------
(* The times of the collector. *)

\* Nothing was observed later than now, and what is kept of the body was fed.
TimeInv ==
    /\ IsSequence(fed) /\ Len(scanner.pending) <= Len(fed)
    /\ Marked(timing) /\ timing.lastEvent <= Clock

LEMMA InitTime == Init => TimeInv
<1> SUFFICES ASSUME Init PROVE TimeInv
  OBVIOUS
<1>1. fed = <<>> /\ scanner.pending = <<>> /\ timing = Timing!NewTimingCollector /\ wire = "open"
  BY DEF Init, Body!NewScanner
<1>2. IsSequence(fed) /\ Len(scanner.pending) = 0 /\ Len(fed) = 0
  BY <1>1, SequenceOfNone
<1> QED
  BY <1>1, <1>2, NothingMarked DEF TimeInv, Clock

\* The scanner finds the frames that were sent.
LEMMA SameFrames ==
    ASSUME NEW event
    PROVE  API!FramesIn(event) = Body!FramesOf(event.lines)
  BY DEF API!FramesIn, Body!FramesOf, API!FlattenSeq, Body!FlattenSeq, API!IsFrame, Body!IsFrame

\* What the clock is made of.
LEMMA ClockIs ==
    ASSUME IInv, TimeInv
    PROVE  /\ Len(fed) \in Nat /\ Len(scanner.pending) \in Nat /\ timing.lastEvent \in Nat
           /\ Len(scanner.pending) <= Len(fed) /\ Clock \in Nat /\ 2 <= Clock
           /\ Clock = Len(fed) - Len(scanner.pending) + (IF wire = "over" THEN 3 ELSE 2)
<1>1. PICK S : fed \in Seq(S)
  BY DEF TimeInv, IsSequence
<1>2. PICK T : scanner.pending \in Seq(T)
  BY DEF IInv, TypeInv, ScannerOK, LegiblePending
<1>3. timing.lastEvent \in Nat
  BY DEF TimeInv, Marked, TimingType
<1> QED
  BY <1>1, <1>2, <1>3 DEF Clock, TimeInv

LEMMA Sooner ==
    ASSUME NEW x \in Nat, NEW i \in Nat, NEW j \in Nat, NEW t \in Nat, x <= i - j + t,
           NEW n \in Nat, NEW m \in Nat, NEW u \in Nat, i - j <= n - m, t <= u
    PROVE  x <= n - m + u
  OBVIOUS

\* The clock may go on while nothing is observed.
LEMMA Later ==
    ASSUME IInv, TimeInv, timing' = timing, NEW n \in Nat, NEW m \in Nat, m <= n,
           IsSequence(fed'), Len(fed') = n, Len(scanner'.pending) = m,
           wire = "over" => wire' = "over", Len(fed) - Len(scanner.pending) <= n - m
    PROVE  TimeInv'
<1> DEFINE t == IF wire = "over" THEN 3 ELSE 2
           u == IF wire' = "over" THEN 3 ELSE 2
<1>1. t \in Nat /\ u \in Nat /\ t <= u
  OBVIOUS
<1>2. Clock = Len(fed) - Len(scanner.pending) + t /\ Clock' = n - m + u
  BY DEF Clock
<1> HIDE DEF t, u
<1>3. Len(fed) \in Nat /\ Len(scanner.pending) \in Nat /\ timing.lastEvent \in Nat
  BY ClockIs
<1>4. timing.lastEvent <= Len(fed) - Len(scanner.pending) + t
  BY <1>2 DEF TimeInv
<1>5. timing.lastEvent <= n - m + u
  BY <1>1, <1>3, <1>4, Sooner
<1> QED
  BY <1>2, <1>5 DEF TimeInv

LEMMA ReadTime == IInv /\ TimeInv /\ Read => TimeInv'
<1> SUFFICES ASSUME IInv, TimeInv, Read PROVE TimeInv'
  OBVIOUS
<1>1. PICK event \in API!NextEvents(kind, fed, UsedIDs) :
          /\ fed' = fed \o API!FramesIn(event)
          /\ scanner' = Body!Dispatched(event.lines, event.last)
  BY Zenon DEF Read
<1>2. PICK S : Body!FramesOf(event.lines) \in Seq(S)
  BY <1>1, EventsLegible DEF IInv, TypeInv, AdapterOK
<1> DEFINE frames == Body!FramesOf(event.lines)
<1>3. fed' = fed \o frames /\ scanner'.pending = IF frames = <<>> THEN <<>> ELSE Tail(frames)
  BY <1>1, SameFrames DEF Body!Dispatched
<1> HIDE DEF frames
<1>4. wire = "open" /\ scanner.pending = <<>> /\ timing' = timing
  BY DEF Read, Body!AtEvent
<1>5. frames \in Seq(S)
  BY <1>2 DEF frames
<1>6. PICK T : fed \in Seq(T)
  BY DEF TimeInv, IsSequence
<1>7. /\ Len(frames) \in Nat /\ Len(fed) \in Nat /\ Len(fed') = Len(fed) + Len(frames)
      /\ Len(scanner'.pending) = IF frames = <<>> THEN 0 ELSE Len(frames) - 1
      /\ frames # <<>> => Len(frames) > 0
  BY <1>3, <1>5, <1>6
<1>8. fed' \in Seq(S \cup T)
  BY <1>3, <1>5, <1>6
<1> DEFINE m == IF frames = <<>> THEN 0 ELSE Len(frames) - 1
           n == Len(fed) + Len(frames)
<1>9. m \in Nat /\ n \in Nat /\ m <= n /\ Len(fed) - Len(scanner.pending) <= n - m
  BY <1>4, <1>7
<1> HIDE DEF m, n
<1>10. Len(fed') = n /\ Len(scanner'.pending) = m
  BY <1>7 DEF m, n
<1>11. IsSequence(fed')
  BY <1>8 DEF IsSequence
<1> QED
  BY <1>4, <1>9, <1>10, <1>11, Later

LEMMA ReadPendingTime == IInv /\ TimeInv /\ ReadPending => TimeInv'
<1> SUFFICES ASSUME IInv, TimeInv, ReadPending PROVE TimeInv'
  OBVIOUS
<1>1. /\ wire = "open" /\ timing' = timing /\ fed' = fed /\ scanner.pending # <<>>
      /\ scanner' = [scanner EXCEPT !.pending = Tail(@)]
  BY DEF ReadPending, Body!HasPending
<1>2. "pending" \in DOMAIN scanner
  BY DEF IInv, TypeInv, ScannerOK
<1>3. PICK S : scanner.pending \in Seq(S)
  BY DEF IInv, TypeInv, ScannerOK, LegiblePending
<1> DEFINE m == Len(scanner.pending) - 1
           n == Len(fed)
<1>4. scanner'.pending = Tail(scanner.pending) /\ Len(Tail(scanner.pending)) = m /\ m \in Nat
  BY <1>1, <1>2, <1>3
<1>5. n \in Nat /\ m <= n /\ Len(fed) - Len(scanner.pending) <= n - m
  BY <1>4, ClockIs
<1>6. Len(fed') = n /\ IsSequence(fed') /\ Len(scanner'.pending) = m
  BY <1>1, <1>4 DEF TimeInv
<1> HIDE DEF m, n
<1> QED
  BY <1>1, <1>4, <1>5, <1>6, Later

LEMMA ConvertTime == IInv /\ TimeInv /\ Convert => TimeInv'
<1> SUFFICES ASSUME IInv, TimeInv, Convert PROVE TimeInv'
  OBVIOUS
<1>1. timing' = Timing!Observe(timing, Head(queue), Clock) /\ UNCHANGED <<fed, scanner, wire>>
  BY DEF Convert
<1> DEFINE e == Head(queue)
           clock == Clock
<1>2. Marked(timing) /\ timing.lastEvent <= clock /\ clock \in Nat /\ 2 <= clock
  BY ClockIs DEF TimeInv
<1> HIDE DEF e, clock
<1>3. Marked(Timing!Observe(timing, e, clock)) /\ Timing!Observe(timing, e, clock).lastEvent = clock
  BY <1>2, ObservedMarked
<1>4. timing' = Timing!Observe(timing, e, clock) /\ clock' = clock
  BY <1>1 DEF e, clock, Clock
<1>5. Marked(timing') /\ timing'.lastEvent <= clock'
  BY <1>2, <1>3, <1>4
<1> QED
  BY <1>1, <1>5 DEF TimeInv, clock

LEMMA EndTime == IInv /\ TimeInv /\ (EndOfBody \/ Refuse) => TimeInv'
<1> SUFFICES ASSUME IInv, TimeInv, EndOfBody \/ Refuse PROVE TimeInv'
  OBVIOUS
<1>1. UNCHANGED <<fed, scanner, timing>> /\ wire' = "over"
  BY DEF EndOfBody, Refuse
<1> DEFINE m == Len(scanner.pending)
           n == Len(fed)
<1>2. n \in Nat /\ m \in Nat /\ m <= n /\ Len(fed) - Len(scanner.pending) <= n - m
  BY ClockIs
<1>3. Len(fed') = n /\ IsSequence(fed') /\ Len(scanner'.pending) = m
  BY <1>1 DEF TimeInv
<1> HIDE DEF m, n
<1> QED
  BY <1>1, <1>2, <1>3, Later

\* No step of the relay leaves it.
LEMMA NextTime == IInv /\ TimeInv /\ [Next]_vars => TimeInv'
<1> SUFFICES ASSUME IInv, TimeInv, [Next]_vars PROVE TimeInv'
  OBVIOUS
<1>1. CASE UNCHANGED <<fed, scanner, wire, timing>>
  BY <1>1 DEF TimeInv, Clock
<1>2. ASSUME Ask \/ Call \/ Peek \/ ChannelClosed \/ Emit \/ UNCHANGED vars
      PROVE  UNCHANGED <<fed, scanner, wire, timing>>
  BY <1>2 DEF Ask, Call, Peek, ChannelClosed, Emit, vars, relayVars
<1>3. ASSUME Finish \/ Recover
      PROVE  UNCHANGED <<fed, scanner, wire, timing>>
  BY <1>3 DEF Finish, Recover, Close
<1> QED
  BY <1>1, <1>2, <1>3, ReadTime, ReadPendingTime, ConvertTime, EndTime DEF Next

LEMMA SpecTime == Spec => []TimeInv
<1>1. Init => IInv /\ TimeInv
  BY InitInv, InitTime
<1>2. IInv /\ TimeInv /\ [Next]_vars => (IInv /\ TimeInv)'
  BY NextInv, NextTime
<1> QED
  BY <1>1, <1>2, PTL DEF Spec

-----------------------------------------------------------------------------
(* The usage. *)

\* The usage the upstream told is counted, or on its way: in a frame the scanner
\* keeps, among the adapter's events, or in the ping that is not passed on yet.
Tells(frames) == \E p \in 1..Len(frames) : TellsUsage(frames[p])
UsageAhead == Reports(queue) \/ (now.type = "usage" /\ pending # <<>>) \/ Tells(scanner.pending)
UsageInv ==
    /\ tally.usage \in Nat
    /\ now.type = "usage" => pending \in {<<>>, <<Message("ping")>>}
    /\ chat = "over" => (tally.estimated <=> tally.usage = 0)
    /\ Tells(fed) <=> tally.usage > 0 \/ UsageAhead

LEMMA InitUsage == Init => UsageInv
<1> SUFFICES ASSUME Init PROVE UsageInv
  OBVIOUS
<1>1. /\ fed = <<>> /\ scanner.pending = <<>> /\ queue = <<>> /\ now.type = "done" /\ tally.usage = 0
      /\ chat = "asking"
  BY DEF Init, Body!NewScanner, API!DoneEvent, API!Plain, API!PEvent
<1>2. Len(fed) = 0 /\ Len(scanner.pending) = 0
  BY <1>1
<1>3. ~Tells(fed) /\ ~Tells(scanner.pending) /\ ~Reports(queue)
  BY <1>1, <1>2, ReportsNone DEF Tells
<1> QED
  BY <1>1, <1>3 DEF UsageInv, UsageAhead

LEMMA TellsJoin ==
    ASSUME NEW x, NEW y, IsSequence(x), IsSequence(y)
    PROVE  Tells(x \o y) <=> Tells(x) \/ Tells(y)
<1>1. PICK S : x \in Seq(S)
  BY DEF IsSequence
<1>2. PICK R : y \in Seq(R)
  BY DEF IsSequence
<1>3. /\ Len(x) \in Nat /\ Len(y) \in Nat /\ Len(x \o y) = Len(x) + Len(y)
      /\ \A p \in 1..Len(x) : (x \o y)[p] = x[p]
      /\ \A p \in 1..Len(y) : (x \o y)[Len(x) + p] = y[p]
  BY <1>1, <1>2
<1>4. \A p \in 1..(Len(x) + Len(y)) :
          p \in 1..Len(x) \/ (p - Len(x) \in 1..Len(y) /\ p = Len(x) + (p - Len(x)))
  BY <1>3
<1>5. \A p \in 1..Len(x) : p \in 1..Len(x \o y)
  BY <1>3
<1>6. \A p \in 1..Len(y) : Len(x) + p \in 1..Len(x \o y)
  BY <1>3
<1>7. ASSUME Tells(x \o y) PROVE Tells(x) \/ Tells(y)
  <2>1. PICK p \in 1..(Len(x) + Len(y)) : TellsUsage((x \o y)[p])
    BY <1>3, <1>7 DEF Tells
  <2>2. p \in 1..Len(x) => Tells(x)
    BY <1>3, <2>1 DEF Tells
  <2>3. p - Len(x) \in 1..Len(y) /\ p = Len(x) + (p - Len(x)) => Tells(y)
    BY <1>3, <2>1 DEF Tells
  <2> QED
    BY <1>4, <2>1, <2>2, <2>3
<1>8. Tells(x) => Tells(x \o y)
  BY <1>3, <1>5 DEF Tells
<1>9. Tells(y) => Tells(x \o y)
  BY <1>3, <1>6 DEF Tells
<1> QED
  BY <1>7, <1>8, <1>9

\* The places of a sequence are the first one and those of its tail.
LEMMA FirstOrTail ==
    ASSUME NEW n \in Nat, n # 0, NEW p \in 1..n
    PROVE  p = 1 \/ (p - 1 \in 1..(n - 1) /\ p = p - 1 + 1)
  OBVIOUS

\* What a sequence of frames tells, and one of events reports, is in its head or
\* in its tail.
LEMMA TellsTail ==
    ASSUME NEW q, IsSequence(q), q # <<>>
    PROVE  Tells(q) <=> TellsUsage(q[1]) \/ Tells(Tail(q))
<1>1. /\ Len(q) \in Nat /\ 1 \in 1..Len(q) /\ Len(Tail(q)) = Len(q) - 1 /\ Len(q) # 0
      /\ \A p \in 1..Len(Tail(q)) : p + 1 \in 1..Len(q) /\ Tail(q)[p] = q[p + 1]
  BY SequenceTail
<1>2. ASSUME Tells(q) PROVE TellsUsage(q[1]) \/ Tells(Tail(q))
  <2>1. PICK p \in 1..Len(q) : TellsUsage(q[p])
    BY <1>2 DEF Tells
  <2>2. p = 1 \/ (p - 1 \in 1..(Len(q) - 1) /\ p = p - 1 + 1)
    BY <1>1, FirstOrTail
  <2>3. p - 1 \in 1..Len(Tail(q)) /\ p = p - 1 + 1 => TellsUsage(Tail(q)[p - 1])
    BY <1>1, <2>1
  <2> QED
    BY <1>1, <2>1, <2>2, <2>3 DEF Tells
<1> QED
  BY <1>1, <1>2 DEF Tells

LEMMA ReportsTail ==
    ASSUME NEW T, NEW q, Made(q, T), q # <<>>
    PROVE  Reports(q) <=> q[1].type = "usage" \/ Reports(Tail(q))
<1>1. /\ Len(q) \in Nat /\ Len(q) # 0 /\ Len(Tail(q)) = Len(q) - 1
      /\ \A p \in 1..(Len(q) - 1) : Tail(q)[p] = q[p + 1]
  BY MadeAt
<1>2. 1 \in 1..Len(q) /\ \A p \in 1..Len(Tail(q)) : p + 1 \in 1..Len(q)
  BY <1>1
<1>3. ASSUME Reports(q) PROVE q[1].type = "usage" \/ Reports(Tail(q))
  <2>1. PICK p \in 1..Len(q) : q[p].type = "usage"
    BY <1>3 DEF Reports
  <2>2. p = 1 \/ (p - 1 \in 1..(Len(q) - 1) /\ p = p - 1 + 1)
    BY <1>1, FirstOrTail
  <2>3. p - 1 \in 1..Len(Tail(q)) /\ p = p - 1 + 1 => Tail(q)[p - 1].type = "usage"
    BY <1>1, <2>1
  <2> QED
    BY <1>1, <2>1, <2>2, <2>3 DEF Reports
<1> QED
  BY <1>1, <1>2, <1>3 DEF Reports

\* A frame tells its usage to the adapter, and the adapter in its events.
LEMMA AnswerReports ==
    ASSUME IInv, NEW f, Legible(kind, f), Reads(f)
    PROVE  Reports(queue') <=> TellsUsage(f)
<1>1. queue' = AdapterFrame(f).out
  BY Zenon DEF Reads
<1>2. Reports(AdapterFrame(f).out) <=> TellsUsage(f)
  BY AdapterAnswers DEF IInv, TypeInv, AdapterOK
<1> QED
  BY <1>1, <1>2

\* Nothing was pending while the adapter was read.
LEMMA IdleUsage ==
    ASSUME UsageInv, Idle
    PROVE  /\ tally.usage \in Nat /\ pending = <<>> /\ chat # "asking"
           /\ chat = "over" => (tally.estimated <=> tally.usage = 0)
           /\ Tells(fed) <=> tally.usage > 0 \/ Tells(scanner.pending)
  BY ReportsNone DEF UsageInv, UsageAhead, Idle

LEMMA ReadUsage == IInv /\ TimeInv /\ UsageInv /\ Read => UsageInv'
<1> SUFFICES ASSUME IInv, TimeInv, UsageInv, Read PROVE UsageInv'
  OBVIOUS
<1>1. PICK event \in API!NextEvents(kind, fed, UsedIDs) :
          /\ fed' = fed \o API!FramesIn(event)
          /\ scanner' = Body!Dispatched(event.lines, event.last)
          /\ IF Body!FramesOf(event.lines) = <<>> THEN UNCHANGED <<a, queue, wire, told>>
             ELSE Reads(Body!FramesOf(event.lines)[1])
  BY Zenon DEF Read
<1>2. PICK S : Body!FramesOf(event.lines) \in Seq(S) /\ \A f \in S : Legible(kind, f)
  BY <1>1, EventsLegible DEF IInv, TypeInv, AdapterOK
<1> DEFINE frames == Body!FramesOf(event.lines)
<1>3. fed' = fed \o frames /\ scanner'.pending = IF frames = <<>> THEN <<>> ELSE Tail(frames)
  BY <1>1, SameFrames DEF Body!Dispatched
<1>4. Idle /\ UNCHANGED <<now, pending, tally, chat>> /\ scanner.pending = <<>>
  BY DEF Read, Body!AtEvent, converterVars
<1>5. frames # <<>> => Reads(frames[1])
  BY <1>1
<1>6. frames = <<>> => queue' = queue
  BY <1>1
<1> HIDE DEF frames
<1>7. frames \in Seq(S) /\ IsSequence(frames) /\ IsSequence(fed)
  BY <1>2 DEF frames, IsSequence, TimeInv
<1>8. Tells(fed') <=> Tells(fed) \/ Tells(frames)
  BY <1>3, <1>7, TellsJoin
<1>9. Len(<<>>) = 0
  OBVIOUS
<1>10. ~Tells(<<>>)
  BY <1>9 DEF Tells
<1>11. Tells(frames) <=> Reports(queue') \/ Tells(scanner'.pending)
  <2>1. CASE frames = <<>>
    BY <1>3, <1>4, <1>6, <1>10, <2>1, ReportsNone DEF Idle
  <2>2. CASE frames # <<>>
    <3> DEFINE f == frames[1]
    <3>1. Legible(kind, f)
      BY <1>2, <1>7, <2>2 DEF frames
    <3>2. Reads(f)
      BY <1>5, <2>2
    <3> HIDE DEF f
    <3>3. Reports(queue') <=> TellsUsage(f)
      BY <3>1, <3>2, AnswerReports
    <3>4. Tells(frames) <=> TellsUsage(f) \/ Tells(Tail(frames))
      BY <1>7, <2>2, TellsTail DEF f
    <3> QED
      BY <1>3, <2>2, <3>3, <3>4
  <2> QED
    BY <2>1, <2>2
<1>12. Tells(fed) <=> tally.usage > 0
  BY <1>4, <1>10, IdleUsage
<1> QED
  BY <1>4, <1>8, <1>11, <1>12, IdleUsage DEF UsageInv, UsageAhead

LEMMA ReadPendingUsage == IInv /\ TimeInv /\ UsageInv /\ ReadPending => UsageInv'
<1> SUFFICES ASSUME IInv, TimeInv, UsageInv, ReadPending PROVE UsageInv'
  OBVIOUS
<1> DEFINE f == scanner.pending[1]
<1>1. /\ Idle /\ UNCHANGED <<fed, now, pending, tally, chat>> /\ Reads(f)
      /\ scanner.pending # <<>> /\ scanner' = [scanner EXCEPT !.pending = Tail(@)]
  BY DEF ReadPending, Body!HasPending, converterVars
<1>2. PICK S : scanner.pending \in Seq(S) /\ \A g \in S : Legible(kind, g)
  BY DEF IInv, TypeInv, ScannerOK, LegiblePending
<1>3. Legible(kind, f) /\ IsSequence(scanner.pending)
  BY <1>1, <1>2 DEF IsSequence
<1>4. scanner'.pending = Tail(scanner.pending)
  BY <1>1 DEF IInv, TypeInv, ScannerOK
<1>5. Tells(scanner.pending) <=> TellsUsage(f) \/ Tells(Tail(scanner.pending))
  BY <1>1, <1>3, TellsTail
<1> HIDE DEF f
<1>6. Reports(queue') <=> TellsUsage(f)
  BY <1>1, <1>3, AnswerReports
<1> QED
  BY <1>1, <1>4, <1>5, <1>6, IdleUsage DEF UsageInv, UsageAhead

\* The adapters report no usage when the body ends.
LEMMA EndUsage == IInv /\ UsageInv /\ (EndOfBody \/ Refuse) => UsageInv'
<1> SUFFICES ASSUME IInv, UsageInv, EndOfBody \/ Refuse PROVE UsageInv'
  OBVIOUS
<1>1. Idle /\ UNCHANGED <<fed, scanner, now, pending, tally, chat>>
  BY DEF EndOfBody, Refuse, converterVars
<1>2. ~Reports(queue')
  <2>1. ASSUME EndOfBody PROVE ~Reports(queue')
    <3>1. PICK broken \in BOOLEAN, degraded \in DegradedReasons : queue' = AdapterEnd(broken, degraded)
      BY <2>1 DEF EndOfBody
    <3>2. EndResult(kind, a, queue')
      BY <3>1, AdapterEnds DEF IInv, TypeInv, AdapterOK
    <3>3. Made(queue', Farewells) /\ "usage" \notin Farewells
      BY <3>2 DEF EndResult, Farewells
    <3> QED
      BY <3>3, ReportsNot
  <2>2. ASSUME Refuse PROVE ~Reports(queue')
    BY <2>2, ErrorReports DEF Refuse
  <2> QED
    BY <2>1, <2>2
<1> QED
  BY <1>1, <1>2, IdleUsage DEF UsageInv, UsageAhead

LEMMA PeekUsage == IInv /\ UsageInv /\ Peek => UsageInv'
<1> SUFFICES ASSUME IInv, UsageInv, Peek PROVE UsageInv'
  OBVIOUS
<1>1. UNCHANGED <<fed, scanner, queue, now, pending>> /\ chat' # "over"
  BY DEF Peek, converterVars
<1>2. tally'.usage = tally.usage
  BY DEF Peek
<1> QED
  BY <1>1, <1>2 DEF UsageInv, UsageAhead

\* The converter makes a ping of a reported usage, and of nothing else.
LEMMA ConvertUsage == IInv /\ UsageInv /\ Convert => UsageInv'
<1> SUFFICES ASSUME IInv, UsageInv, Convert PROVE UsageInv'
  OBVIOUS
<1> DEFINE e == queue[1]
<1>1. Made(queue, Speech \cup {"done"}) /\ queue # <<>>
  BY DEF IInv, TypeInv, QueueOK, Convert
<1>2. Head(queue) = e
  BY <1>1, MadeAt
<1>3. /\ now' = e /\ queue' = Tail(queue) /\ Dispatch(e) /\ pending = <<>>
      /\ UNCHANGED <<fed, scanner, chat, tally>>
  BY <1>2 DEF Convert, Streaming
<1>4. Reports(queue) <=> e.type = "usage" \/ Reports(Tail(queue))
  BY <1>1, ReportsTail
<1> HIDE DEF e
<1>5. ASSUME e.type = "usage" PROVE pending' = <<Message("ping")>>
  BY <1>3, <1>5 DEF Dispatch, HandleUsage
<1>6. e.type = "usage" => pending' = <<Message("ping")>> /\ pending' # <<>>
  BY <1>5
<1> QED
  BY <1>3, <1>4, <1>6 DEF UsageInv, UsageAhead

LEMMA ChannelClosedUsage == UsageInv /\ ChannelClosed => UsageInv'
<1> SUFFICES ASSUME UsageInv, ChannelClosed PROVE UsageInv'
  OBVIOUS
<1>1. UNCHANGED <<fed, scanner, queue, chat, tally>> /\ now'.type = "done" /\ pending = <<>>
  BY DEF ChannelClosed, Streaming, API!DoneEvent, API!Plain, API!PEvent
<1> QED
  BY <1>1 DEF UsageInv, UsageAhead

\* What is counted when an event is passed on.
LEMMA TalliedUsage ==
    ASSUME TallyOK, tally.usage \in Nat, NEW e
    PROVE  /\ Tallied(e).usage \in Nat
           /\ Tallied(e).usage > 0 <=> tally.usage > 0 \/ (e.type = "ping" /\ now.type = "usage")
           /\ HasUsage(e) => Tallied(e).usage > 0
<1>1. Tallied(e).usage = IF HasUsage(e) THEN tally.usage + 1 ELSE tally.usage
  BY DEF Tallied, TallyOK
<1> QED
  BY <1>1 DEF HasUsage

LEMMA EmitUsage == IInv /\ UsageInv /\ Emit => UsageInv'
<1> SUFFICES ASSUME IInv, UsageInv, Emit PROVE UsageInv'
  OBVIOUS
<1> DEFINE e == Head(pending)
<1>1. /\ pending # <<>> /\ pending' = Tail(pending) /\ tally' = Tallied(e)
      /\ UNCHANGED <<fed, scanner, queue, now>>
  BY DEF Emit
<1>2. chat' = chat /\ chat # "over"
  BY <1>1 DEF Emit, IInv, EventsInv, EndingInv
<1>3. ASSUME now.type = "usage" PROVE e.type = "ping" /\ pending' = <<>>
  <2>1. pending = <<Message("ping")>>
    BY <1>1, <1>3 DEF UsageInv
  <2>2. Message("ping").type = "ping"
    BY DEF Message, Event
  <2> QED
    BY <1>1, <2>1, <2>2
<1> HIDE DEF e
<1>4. TallyOK /\ tally.usage \in Nat
  BY DEF IInv, TypeInv, UsageInv
<1>5. /\ tally'.usage \in Nat
      /\ tally'.usage > 0 <=> tally.usage > 0 \/ (e.type = "ping" /\ now.type = "usage")
  BY <1>1, <1>4, TalliedUsage
<1> QED
  BY <1>1, <1>2, <1>3, <1>5 DEF UsageInv, UsageAhead

\* The estimate is made when the reply is over.
LEMMA CloseUsage ==
    ASSUME UsageInv, pending = <<>>, NEW s, NEW t, {"usage", "errors", "estimated"} \subseteq DOMAIN t,
           t.usage = tally.usage, Close(s, t)
    PROVE  UsageInv'
<1>1. /\ UNCHANGED <<fed, scanner, queue, now, pending>> /\ tally' = [t EXCEPT !.estimated = t.usage = 0]
  BY DEF Close, converterVars
<1>2. tally'.usage = t.usage /\ (tally'.estimated <=> t.usage = 0)
  BY <1>1
<1> QED
  BY <1>1, <1>2 DEF UsageInv, UsageAhead

LEMMA OverUsage == IInv /\ UsageInv /\ (Finish \/ Recover) => UsageInv'
<1> SUFFICES ASSUME IInv, UsageInv, Finish \/ Recover PROVE UsageInv'
  OBVIOUS
<1> DEFINE e == Message("error")
           t == Tallied(e)
<1>1. pending = <<>>
  BY DEF Finish, Streaming, Recover, IInv, EventsInv, SourceInv
<1>2. Close(ser, tally) \/ Close(Serialized(e), t)
  BY DEF Finish, Recover
<1>3. {"usage", "errors", "estimated"} \subseteq DOMAIN tally /\ TallyOK
  BY DEF IInv, TypeInv, TallyOK
<1>4. e.type = "error"
  BY DEF Message, Event
<1> HIDE DEF e
<1>5. ~HasUsage(e)
  BY <1>4 DEF HasUsage, IsFinal
<1>6. t.usage = tally.usage /\ {"usage", "errors", "estimated"} \subseteq DOMAIN t
  BY <1>3, <1>5, TalliedErrors DEF Tallied, TallyOK
<1> HIDE DEF t
<1> QED
  BY <1>1, <1>2, <1>3, <1>6, CloseUsage

LEMMA NextUsage == IInv /\ TimeInv /\ UsageInv /\ [Next]_vars => UsageInv'
<1> SUFFICES ASSUME IInv, TimeInv, UsageInv, [Next]_vars PROVE UsageInv'
  OBVIOUS
<1>1. CASE UNCHANGED <<fed, scanner, queue, now, pending, chat, tally>>
  BY <1>1 DEF UsageInv, UsageAhead
<1>2. CASE Ask \/ UNCHANGED vars
  BY <1>1, <1>2 DEF Ask, vars, relayVars, converterVars
<1>3. CASE Call
  <2>1. UNCHANGED <<fed, scanner, queue, now, pending, tally>> /\ chat' # "over"
    BY <1>3 DEF Call, converterVars
  <2> QED
    BY <2>1 DEF UsageInv, UsageAhead
<1> QED
  BY <1>2, <1>3, ReadUsage, ReadPendingUsage, EndUsage, PeekUsage, ConvertUsage, ChannelClosedUsage,
     EmitUsage, OverUsage DEF Next

LEMMA SpecUsage == Spec => [](IInv /\ UsageInv)
<1>1. Init => IInv /\ TimeInv /\ UsageInv
  BY InitInv, InitTime, InitUsage
<1>2. IInv /\ TimeInv /\ UsageInv /\ [Next]_vars => (IInv /\ TimeInv /\ UsageInv)'
  BY NextInv, NextTime, NextUsage
<1> QED
  BY <1>1, <1>2, PTL DEF Spec

-----------------------------------------------------------------------------
(* What the runs check follows. *)

\* The places of an output.
LEMMA SequenceDomain ==
    ASSUME NEW q, IsSequence(q)
    PROVE  DOMAIN q = 1..Len(q) /\ Len(q) \in Nat
  BY DEF IsSequence

\* The invariant says that every reply ends once.
LEMMA OneEndingFollows == IInv => OneEnding
<1> SUFFICES ASSUME IInv PROVE OneEnding
  OBVIOUS
<1> DEFINE responses == ser.responses.out
           openai == ser.openai.out
           gemini == ser.gemini.out
<1>1. /\ DOMAIN responses = 1..Len(responses)
      /\ DOMAIN openai = 1..Len(openai) /\ Len(openai) \in Nat
      /\ DOMAIN gemini = 1..Len(gemini)
  <2>1. IsSequence(responses) /\ IsSequence(openai) /\ IsSequence(gemini)
    BY DEF IInv, TypeInv, SerializersOK, ResponsesKeeps, OpenAIKeeps, GeminiKeeps
  <2> QED
    BY <2>1, SequenceDomain
<1>2. ResponsesOnce(ser.responses) /\ GeminiOnce(ser.gemini) /\ (~Babble => OpenAIOnce(ser.openai))
  BY DEF IInv, OutputInv, ResponsesInv, GeminiInv, OpenAIInv
<1>3. \A p \in DOMAIN responses : responses[p].ev \in ResponseEnds => p = Len(responses)
  BY <1>1, <1>2 DEF ResponsesOnce
<1>4. \A p \in DOMAIN gemini : gemini[p].type \in {"finish", "error"} => p = Len(gemini)
  BY <1>1, <1>2 DEF GeminiOnce
<1>5. ~Babble => \A p \in DOMAIN openai : openai[p].type = "finish" =>
          \A q \in (p + 1)..Len(openai) : openai[q].type \in {"usage", "[DONE]"}
  BY <1>1, <1>2 DEF OpenAIOnce
<1>6. ASSUME chat = "over", started, ~crashed
      PROVE  /\ \E p \in DOMAIN responses : responses[p].ev \in ResponseEnds
             /\ \E p \in DOMAIN openai : openai[p].type = "finish"
             /\ ser.gemini.errors = 0 =>
                    \E p \in DOMAIN gemini : gemini[p].type \in {"finish", "error"}
  <2>1. pending = <<>> /\ stopHandled
    BY <1>6 DEF IInv, EventsInv, EndingInv, SourceInv
  <2>2. ~FinalAhead
    BY <2>1 DEF FinalAhead
  <2>3. Finished
    BY <2>1, <2>2 DEF IInv, EventsInv, EndingInv
  <2>4. Concluded /\ (ser.gemini.errors > 0 \/ GeminiEnded)
    BY <2>3 DEF IInv, OutputInv, AgreeInv
  <2>5. ser.gemini.errors = 0 => GeminiEnded
    BY <2>4
  <2> QED
    BY <1>1, <2>3, <2>4, <2>5
       DEF Finished, OpenAIFinished, Concluded, ResponsesConcluded, GeminiEnded, GeminiEnd
<1> QED
  BY <1>3, <1>4, <1>5, <1>6 DEF OneEnding

\* The invariant says that a failed reply is not completed.
LEMMA FailedNotCompletedFollows == IInv => FailedNotCompleted
<1> SUFFICES ASSUME IInv, tally.errors > 0
             PROVE  /\ \A p \in DOMAIN ser.responses.out :
                          ser.responses.out[p].ev \notin {"completed", "incomplete"}
                    /\ \A p \in DOMAIN ser.gemini.out : ser.gemini.out[p].type # "finish"
  BY DEF FailedNotCompleted
<1>1. ~Completed /\ ~GeminiFinished
  BY DEF IInv, OutputInv, AgreeInv, Failure
<1>2. IsSequence(ser.responses.out) /\ IsSequence(ser.gemini.out)
  BY DEF IInv, TypeInv, SerializersOK, ResponsesKeeps, GeminiKeeps
<1>3. DOMAIN ser.responses.out = 1..Len(ser.responses.out) /\ DOMAIN ser.gemini.out = 1..Len(ser.gemini.out)
  BY <1>2, SequenceDomain
<1> QED
  BY <1>1, <1>3 DEF Completed, ResponsesCompleted, GeminiFinished, GeminiFinish

\* In every format a reply that is streamed ends once, and nothing but its usage
\* and [DONE] follows, whatever the upstream sends, wherever it stops and however
\* its frames are cut.
THEOREM OneEndingHolds == Spec => []OneEnding
  BY SpecInv, OneEndingFollows, PTL

\* A reply of which an error was reported is not told to be complete.
THEOREM FailedIsNotCompleted == Spec => []FailedNotCompleted
  BY SpecInv, FailedNotCompletedFollows, PTL

\* Whenever Stats is asked, be it in the middle of a reply of any length, no stage
\* that began in its turn has a negative time or overlaps the next one, and none is
\* over after the reply.
THEOREM StagesAreMeasured == Spec => []StagesMeasured
<1>1. TimeInv => StagesMeasured
  BY MarkedMeasured DEF TimeInv
<1> QED
  BY <1>1, SpecTime, PTL

\* OnUsage is called if the upstream reported its usage in any frame of the body,
\* and only then; the estimate takes its place in every other reply that is over,
\* however the frames are cut and wherever they stop.
THEOREM UsageIsReported == Spec => []UsageReported
<1>1. IInv /\ TimeInv /\ UsageInv => UsageReported
  <2> SUFFICES ASSUME IInv, TimeInv, UsageInv, chat = "over", scanner.pending = <<>>, ~crashed
               PROVE  /\ tally.usage > 0 <=> \E p \in DOMAIN fed : TellsUsage(fed[p])
                      /\ tally.estimated <=> tally.usage = 0
    BY DEF UsageReported
  <2>1. pending = <<>> /\ queue = <<>>
    BY DEF IInv, EventsInv, EndingInv, QueueInv, DoneInv
  <2>2. Len(scanner.pending) = 0
    OBVIOUS
  <2>3. ~UsageAhead
    BY <2>1, <2>2, ReportsNone DEF UsageAhead, Tells
  <2>4. DOMAIN fed = 1..Len(fed)
    BY SequenceDomain DEF TimeInv
  <2> QED
    BY <2>3, <2>4 DEF UsageInv, Tells
<1> QED
  BY <1>1, SpecUsage, SpecTime, PTL
=============================================================================
