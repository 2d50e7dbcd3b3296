------------------------------ MODULE ThinkTag ------------------------------
(***************************************************************************)
(* The stripper of inline think tags of the completions adapter             *)
(* (provider/openai/completions/think_tag.go).  A tag is three characters   *)
(* here: the two share their first one only, as <think> and </think> do,    *)
(* and have a proper prefix of two.                                         *)
(*                                                                          *)
(* A stripper s has the fields `thinking' and `buf', the candidate for a    *)
(* tag.  While it processes a chunk it also has `pending', the characters   *)
(* of the current mode, and `out', the events of the chunk.                 *)
(***************************************************************************)
EXTENDS ProviderEvents, FiniteSetsExt, SequencesExt

OpenTag == <<"<", "t", ">">>
CloseTag == <<"<", "/", ">">>
Tags == {OpenTag, CloseTag}

NewStripper == [thinking |-> FALSE, buf |-> <<>>]

Released(thinking, piece) == IF thinking THEN ThinkingOf(piece) ELSE TextOf(piece)

FlushPending(s) ==
    IF s.pending = <<>> THEN s
    ELSE [s EXCEPT !.out = Append(@, Released(s.thinking, s.pending)), !.pending = <<>>]

\* Where a tail of buf begins that may still become a tag.
TagTails(buf) == {i \in DOMAIN buf : \E tag \in Tags : IsPrefix(SubSeq(buf, i, Len(buf)), tag)}

EnterThinking(s) ==
    LET flushed == FlushPending(s)
    IN  [flushed EXCEPT !.buf = <<>>, !.thinking = TRUE, !.out = Append(@, BlockOf("thinking"))]

\* What was collected before a closing tag is not flushed here.
LeaveThinking(s) == [s EXCEPT !.buf = <<>>, !.thinking = FALSE]

\* buf is no prefix of the tag that is waited for: its last tail that may be a
\* tag remains, the rest is content; a lone closing tag is dropped.
GiveUp(s, buf) ==
    LET tails == TagTails(buf)
        from == IF tails = {} THEN Len(buf) + 1 ELSE Max(tails)
        rest == SubSeq(buf, from, Len(buf))
    IN  [s EXCEPT !.pending = @ \o SubSeq(buf, 1, from - 1),
                  !.buf = IF ~s.thinking /\ rest = CloseTag THEN <<>> ELSE rest]

Candidate(s, buf) ==
    LET tag == IF s.thinking THEN CloseTag ELSE OpenTag
    IN  IF buf = tag THEN (IF s.thinking THEN LeaveThinking(s) ELSE EnterThinking(s))
        ELSE IF IsPrefix(buf, tag) THEN [s EXCEPT !.buf = buf]
        ELSE GiveUp(s, buf)

Scan(s, c) ==
    LET flushed == FlushPending(s)
    IN  IF s.buf # <<>> THEN Candidate(s, Append(s.buf, c))
        ELSE IF c = "<" THEN [flushed EXCEPT !.buf = <<c>>]
        ELSE [s EXCEPT !.pending = Append(@, c)]

\* The stripper after a chunk; its events are in `out'.
Process(s, chunk) ==
    FlushPending(FoldLeft(Scan, [thinking |-> s.thinking, buf |-> s.buf,
                                 pending |-> <<>>, out |-> <<>>], chunk))

\* Mutant: a candidate for a tag at the end is forgotten.
ForgetCandidate(s) == <<>>

\* What is left at the end of the stream.
FlushStripper(s) == Only(s.buf # <<>>, <<Released(s.thinking, s.buf)>>)

-----------------------------------------------------------------------------
(* The same of a whole content, for a reply that is not streamed. *)

PlacesOf(tag, content, i) ==
    {p \in i..(Len(content) - Len(tag) + 1) : SubSeq(content, p, p + Len(tag) - 1) = tag}

StripThinkTags(content) ==
    LET n == Len(content)
        From[i \in 1..(n + 1)] ==
            LET opens == PlacesOf(OpenTag, content, i)
                closes == PlacesOf(CloseTag, content, i)
                o == Min(opens)
                c == Min(closes)
                after == From[c + Len(CloseTag)]
            IN  IF closes = {} THEN
                    IF opens = {} THEN [text |-> SubSeq(content, i, n), thinking |-> <<>>]
                    ELSE [text |-> SubSeq(content, i, o - 1),
                          thinking |-> SubSeq(content, o + Len(OpenTag), n)]
                ELSE IF opens = {} \/ c < o THEN
                    [after EXCEPT !.text = SubSeq(content, i, c - 1) \o @]
                ELSE [text |-> SubSeq(content, i, o - 1) \o after.text,
                      thinking |-> SubSeq(content, o + Len(OpenTag), c - 1) \o after.thinking]
    IN  From[1]
=============================================================================
