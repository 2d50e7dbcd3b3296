------------------------------ MODULE SSEScanner ------------------------------
(***************************************************************************)
(* The scanner between a response body and the frame loop of an HTTP        *)
(* adapter (provider/sse_scanner.go).  An event of the body is the sequence *)
(* of its data lines, up to a blank line or the end of the body (`last').   *)
(* A line is a frame, that is JSON by itself, the rest of a frame that was  *)
(* cut off, or the [DONE] mark.                                             *)
(***************************************************************************)
EXTENDS SequencesExt

CutLine == [type |-> "cut"]
DoneLine == [type |-> "[DONE]"]
IsFrame(line) == line.type \notin {"cut", "[DONE]"}

\* pendingFrames, and whether Next has come to its end (done, or err).
NewScanner == [pending |-> <<>>, over |-> FALSE]

\* Mutant: the first frame is all that is saved of an event.
FirstFrame(lines) ==
    LET frames == SelectSeq(lines, IsFrame) IN IF frames = <<>> THEN <<>> ELSE <<frames[1]>>

\* What an event holds: lines that are no frame together are tried one by one,
\* a [DONE] among them is no frame and lost.
FramesOf(lines) ==
    FlattenSeq([p \in DOMAIN lines |-> IF IsFrame(lines[p]) THEN <<lines[p]>> ELSE <<>>])

\* Next reads an event: it hands out the first frame and keeps the others.  After
\* the last event it has ended, and never hands out what it kept.
Dispatched(lines, last) ==
    LET frames == FramesOf(lines)
    IN  [pending |-> IF frames = <<>> THEN <<>> ELSE Tail(frames),
         over |-> last \/ lines = <<DoneLine>>]

\* Next, while there are frames that were kept.
HasPending(scanner) == ~scanner.over /\ scanner.pending # <<>>
AtEvent(scanner) == ~scanner.over /\ scanner.pending = <<>>
===============================================================================
