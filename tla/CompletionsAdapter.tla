------------------------- MODULE CompletionsAdapter -------------------------
(***************************************************************************)
(* The frame loop of the OpenAI chat completions adapter                    *)
(* (provider/openai/completions): what it keeps between two frames, `a',    *)
(* and the events it sends for a frame and at the end of the body.  A frame *)
(* is a chunk, an error envelope or a frame that does not parse.  A chunk   *)
(* has what a choice may have at once; `calls' are its tool call deltas.    *)
(***************************************************************************)
EXTENDS ThinkTag

NewCompletions(strip) ==
    [start |-> FALSE, stop |-> FALSE, text |-> FALSE, thinking |-> FALSE,
     strip |-> strip, stripper |-> NewStripper]

\* The block is announced once per reply.
Announce(flag, kind) == Only(~flag, <<BlockOf(kind)>>)

\* The stripper announces thinking by itself, text is announced here.
SyncBlockState(a, stripped) ==
    LET Sync(s, e) ==
            IF e.type = "block" THEN [s EXCEPT !.thinking = TRUE, !.out = Append(@, e)]
            ELSE IF e.kind = "text"
                 THEN [s EXCEPT !.text = TRUE, !.out = @ \o Announce(s.text, "text") \o <<e>>]
            ELSE [s EXCEPT !.out = Append(@, e)]
    IN  FoldLeft(Sync, [text |-> a.text, thinking |-> a.thinking, out |-> <<>>], stripped)

\* Mutant: a delta that announces a call has no arguments.
AnnounceOrFeed(c) ==
    Only(c.signature, <<SignatureEvent>>)
        \o (IF c.id # NoID THEN <<ToolCall(c.id, c.index)>>
            ELSE Only(c.piece # Nothing, <<Fragment(c.of, c.index, c.piece)>>))

HandleToolCallDelta(c) ==
    Only(c.signature, <<SignatureEvent>>)
        \o Only(c.id # NoID, <<ToolCall(c.id, c.index)>>)
        \o Only(c.piece # Nothing, <<Fragment(c.of, c.index, c.piece)>>)

CompletionsReason(r) == IF r \in {"length", "tool_calls"} THEN r ELSE "stop"

\* A chunk with its one choice, in the order reasoning, signature, content,
\* tool calls, finish reason; the usage comes before the choice.
HandleChunk(a, chunk) ==
    LET signed == chunk.signature
        thinks == chunk.reasoning # Nothing
        thinking == a.thinking \/ thinks \/ signed
        stripped == Process(a.stripper, chunk.content)
        synced == SyncBlockState([a EXCEPT !.thinking = thinking], stripped.out)
        hasContent == chunk.content # Nothing
    IN  [a |-> [a EXCEPT
                    !.start = TRUE,
                    !.stop = @ \/ chunk.finish # "none",
                    !.thinking = IF hasContent /\ a.strip THEN synced.thinking ELSE thinking,
                    !.text = IF hasContent /\ a.strip THEN synced.text ELSE @ \/ hasContent,
                    !.stripper = IF hasContent /\ a.strip
                                 THEN [thinking |-> stripped.thinking, buf |-> stripped.buf]
                                 ELSE @],
         out |-> Only(~a.start, <<StartEvent>>)
                    \o Only(chunk.usage, <<UsageEvent>>)
                    \o Only(thinks, Announce(a.thinking, "thinking") \o <<ThinkingOf(chunk.reasoning)>>)
                    \o Only(signed, Announce(a.thinking \/ thinks, "thinking") \o <<SignatureEvent>>)
                    \o Only(hasContent,
                            IF a.strip THEN synced.out
                            ELSE Announce(a.text, "text") \o <<TextOf(chunk.content)>>)
                    \o FlattenSeq([p \in DOMAIN chunk.calls |-> HandleToolCallDelta(chunk.calls[p])])
                    \o Only(chunk.finish # "none", <<StopEvent(CompletionsReason(chunk.finish))>>),
         then |-> "read"]

\* An error envelope ends the call without Stop and Done.
CompletionsFrame(a, f) ==
    CASE f.type = "error" -> [a |-> a, out |-> <<ErrorEvent>>, then |-> "return"]
      [] f.type = "junk" ->
            [a |-> [a EXCEPT !.start = TRUE], out |-> Only(~a.start, <<StartEvent>>), then |-> "read"]
      [] OTHER -> HandleChunk(a, f)

\* After the loop: the terminal frame or the end of the body, or a read that
\* failed, which is told only when nothing was sent yet.
CompletionsEnd(a, broken, degraded) ==
    Only(broken /\ ~a.start, <<ErrorEvent>>)
        \o Only(a.strip, SyncBlockState(a, FlushStripper(a.stripper)).out)
        \o Only(~a.stop, <<StopEvent(degraded)>>)
        \o <<DoneEvent>>
=============================================================================
