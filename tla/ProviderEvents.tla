--------------------------- MODULE ProviderEvents ---------------------------
(***************************************************************************)
(* The events a provider adapter sends on its channel (provider/stream.go). *)
(* `kind' is a block type, a finish reason or what a metadata delta names,  *)
(* `id' the tool call an event is about (of a fragment the adapter does not *)
(* send it, it only tells the properties whose the fragment is), `index'    *)
(* the index given to a tool call, a fragment or a stop, and `piece' the    *)
(* data: a sequence of characters of content, or a part of an argument      *)
(* object, "half" of one or "whole".                                        *)
(***************************************************************************)
EXTENDS Integers, Sequences

CONSTANTS NoID,     (* no id      *)
          NoIndex   (* no index   *)

Nothing == <<>>

PEvent(t, k, id, x, piece) == [type |-> t, kind |-> k, id |-> id, index |-> x, piece |-> piece]
Plain(t) == PEvent(t, "none", NoID, NoIndex, Nothing)

StartEvent == Plain("start")
DoneEvent == Plain("done")
ErrorEvent == Plain("error")
UsageEvent == Plain("usage")
StopEvent(reason) == PEvent("stop", reason, NoID, NoIndex, Nothing)

\* The deltas.
BlockOf(kind) == PEvent("block", kind, NoID, NoIndex, Nothing)
ToolBlock(id) == PEvent("block", "tool_use", id, NoIndex, Nothing)
TextOf(piece) == PEvent("content", "text", NoID, NoIndex, piece)
ThinkingOf(piece) == PEvent("content", "thinking", NoID, NoIndex, piece)
SignatureEvent == Plain("signature")
ToolCall(id, x) == PEvent("tool", "none", id, x, Nothing)
Fragment(id, x, piece) == PEvent("fragment", "none", id, x, piece)
RedactedEvent == Plain("redacted")
BlockStopOf(x) == PEvent("blockstop", "none", NoID, x, Nothing)
MetadataOf(kind) == PEvent("metadata", kind, NoID, NoIndex, Nothing)

\* The events that a condition lets through.
Only(b, events) == IF b THEN events ELSE <<>>
=============================================================================
