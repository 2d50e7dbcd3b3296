-------------------------- MODULE OpenAISerializer --------------------------
(***************************************************************************)
(* The stream serializer of bamboo/codec/openai/stream.go: client events    *)
(* in, chat completion chunks out.  A serializer s keeps what it wrote in   *)
(* `out'; a chunk has a type, the index of a tool call and what it says.    *)
(***************************************************************************)
EXTENDS ClientEvents

NewOpenAISerializer == [toolIndex |-> 0, currentTool |-> 0, byBlock |-> <<>>, out |-> <<>>]

NoCall == -1
Chunk(t, n, id, data) == [type |-> t, call |-> n, id |-> id, data |-> data]
ChunkOf(t) == Chunk(t, NoCall, NoID, <<>>)
Send(s, chunks) == [s EXCEPT !.out = @ \o chunks]

\* Only a tool call has a start of its own, a stop is not told.
OpenAIBlockStart(s, e) ==
    IF e.info # "tool_use" THEN s
    ELSE Send([s EXCEPT !.byBlock = With(@, e.index, s.toolIndex),
                        !.currentTool = s.toolIndex, !.toolIndex = @ + 1],
              <<Chunk("call", s.toolIndex, e.tool, <<>>)>>)

\* Mutant: the call that started last is fed.
LatestCall(s, i) == s.currentTool

CallIndexOf(s, i) == IF i \in DOMAIN s.byBlock THEN s.byBlock[i] ELSE s.currentTool

OpenAIBlockDelta(s, e, p) ==
    CASE IsSignature(e, p) -> Send(s, <<ChunkOf("signature")>>)
      [] e.info \in {"text", "thinking"} -> Send(s, <<Chunk(e.info, NoCall, NoID, p.piece)>>)
      [] OTHER -> Send(s, <<Chunk("arguments", CallIndexOf(s, e.index), p.id, p.piece)>>)

OpenAIReason(r) ==
    CASE r = "max_tokens" -> "length"
      [] r = "tool_use" -> "tool_calls"
      [] OTHER -> "stop"

\* Mutant: every message_delta is the last one.
EveryDeltaFinishes(s, e) ==
    Send(s, <<Chunk("finish", NoCall, NoID, <<OpenAIReason(e.info)>>), ChunkOf("usage")>>)

\* Reason and usage are chunks of their own; a metadata delta has neither.
OpenAIMessageDelta(s, e) ==
    IF ~IsFinalDelta(e) THEN s
    ELSE Send(s, <<Chunk("finish", NoCall, NoID, <<OpenAIReason(e.info)>>), ChunkOf("usage")>>)

OpenAISerialize(s, e, p) ==
    CASE e.type = "message_start" -> Send(s, <<ChunkOf("role")>>)
      [] e.type = "block_start" -> OpenAIBlockStart(s, e)
      [] e.type = "block_delta" -> OpenAIBlockDelta(s, e, p)
      [] e.type = "message_delta" -> OpenAIMessageDelta(s, e)
      [] e.type = "error" -> Send(s, <<ChunkOf("error")>>)
      [] OTHER -> s

OpenAIFlush(s) == Send(s, <<ChunkOf("[DONE]")>>)
=============================================================================
