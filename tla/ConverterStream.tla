--------------------------- MODULE ConverterStream ---------------------------
(***************************************************************************)
(* The converter between the providers that feed it and a strict client.   *)
(* A provider adapter offers its events in one of three styles:            *)
(*   "framed"    blocks with a start, deltas and a stop that carries the   *)
(*               upstream's block index (provider/anthropic, /bamboo);     *)
(*   "unindexed" the same, from an upstream that leaves the index out;     *)
(*   "implicit"  deltas of any kind in any order, tool calls told apart by *)
(*               id or index, no stops (provider/openai, /gemini).         *)
(* The events Convert returned are forwarded one by one before the next    *)
(* provider event is converted (the writeAll loop of bamboo/bamboo.go).    *)
(***************************************************************************)
EXTENDS StreamConverter, StreamClient

CONSTANTS BlockIndexes,  (* bound: the indexes of the blocks of one reply     *)
          Dropped      (* the blocks a framed upstream sends and its adapter  *)
                       (* does not forward: "mute" ones without deltas (an    *)
                       (* empty redacted_thinking, a tool result), "fed" ones *)
                       (* with argument fragments (a server_tool_use)         *)

ASSUME StreamAssumption ==
    /\ BlockIndexes \subseteq Nat
    /\ Dropped \subseteq {"mute", "fed"}

VARIABLES style,      (* which of the three styles the provider follows     *)
          source,     (* "silent", "live", "failed" or "done"; "babbling"   *)
                      (* when it reads on after an error, then "babbled"    *)
          frame,      (* framed: the kind of the block that is running      *)
          frameIndex, (* framed: the upstream's index of that block         *)
          slot,       (* the index the provider gave to a tool call         *)
          lastTool,   (* the tool call the provider announced last          *)
          said,       (* the finish reasons the provider reported           *)
          astray      (* history: a fragment of a dropped block was offered *)

sourceVars == <<style, source, frame, frameIndex, slot, lastTool, said, astray>>
vars == <<converterVars, clientVars, sourceVars>>

Unset == -2

Init ==
    /\ ConverterInit
    /\ ClientInit
    /\ style \in {"framed", "unindexed", "implicit"}
    /\ source = "silent"
    /\ frame = "none"
    /\ frameIndex = 0
    /\ slot = [id \in ToolIDs |-> Unset]
    /\ lastTool = NoTool
    /\ said = {}
    /\ astray = FALSE

\* The converter is called again when its last events were forwarded.
Ready(s) ==
    /\ source \in s
    /\ pending = <<>>
    /\ ~crashed
    /\ UNCHANGED clientVars

\* An adapter sends content while it is live.  Those of anthropic, bamboo and
\* openai responses hand an error frame on and read what comes after it.
Sending == {"live", "babbling"}

-----------------------------------------------------------------------------
(* Events of every style. *)

ProviderStart ==
    /\ Ready({"silent"})
    /\ source' = "live"
    /\ HandleStart
    /\ UNCHANGED <<style, frame, frameIndex, slot, lastTool, said, astray>>

ProviderUsage ==
    /\ Ready(Sending)
    /\ HandleUsage
    /\ UNCHANGED sourceVars

ProviderMetadata ==
    /\ Ready(Sending)
    /\ HandleMetadata
    /\ UNCHANGED sourceVars

\* Adapters report a finish reason when they see one, again when the stream
\* breaks off without one, and also after an error.
ProviderStop(r) ==
    /\ Ready({"silent", "live", "failed", "babbling"})
    /\ RecordFinishReason(r)
    /\ said' = IF source = "live" THEN said \cup {r} ELSE said
    /\ UNCHANGED <<style, source, frame, frameIndex, slot, lastTool, astray>>

ProviderError ==
    /\ \/ Ready({"silent", "live"}) /\ source' = "failed"
       \/ Ready(Sending) /\ source' = "babbling"
    /\ HandleError
    /\ UNCHANGED <<style, frame, frameIndex, slot, lastTool, said, astray>>

\* Done, or the channel is closed without it, which the caller turns into Done.
ProviderDone ==
    /\ \/ Ready({"silent", "live", "failed"}) /\ source' = "done"
       \/ Ready({"babbling"}) /\ source' = "babbled"
    /\ HandleDone
    /\ UNCHANGED <<style, frame, frameIndex, slot, lastTool, said, astray>>

-----------------------------------------------------------------------------
(* The framed styles: one block at a time, each with a start and a stop. *)

Framed == style \in {"framed", "unindexed"}

FrameContent(k) ==
    /\ Ready(Sending)
    /\ Framed /\ frame = "none" /\ frameIndex \in BlockIndexes
    /\ HandleContent(k, FALSE)
    /\ frame' = k
    /\ UNCHANGED <<style, source, frameIndex, slot, lastTool, said, astray>>

\* tool_use ids are unique in a message.
FrameTool(id) ==
    /\ Ready(Sending)
    /\ Framed /\ frame = "none" /\ frameIndex \in BlockIndexes
    /\ slot[id] = Unset
    /\ StartToolBlock(id, NoIndex)
    /\ frame' = "tool_use"
    /\ slot' = [slot EXCEPT ![id] = NoIndex]
    /\ lastTool' = id
    /\ UNCHANGED <<style, source, frameIndex, said, astray>>

FrameRedacted ==
    /\ Ready(Sending)
    /\ Framed /\ frame = "none" /\ frameIndex \in BlockIndexes
    /\ HandleRedacted
    /\ frame' = "redacted_thinking"
    /\ UNCHANGED <<style, source, frameIndex, slot, lastTool, said, astray>>

\* A block the adapter has no case for, or a redacted_thinking block without
\* data: nothing reaches the converter, but its stop will.
FrameDropped(d) ==
    /\ Ready(Sending)
    /\ Framed /\ frame = "none" /\ frameIndex \in BlockIndexes
    /\ frame' = d
    /\ Ignore
    /\ UNCHANGED <<style, source, frameIndex, slot, lastTool, said, astray>>

\* Fragments of a dropped block are forwarded all the same.
FrameDelta ==
    /\ Ready(Sending)
    /\ Framed
    /\ \/ frame \in ContentKinds /\ HandleContent(frame, TRUE)
       \/ frame = "tool_use" /\ HandleToolDelta(NoIndex, lastTool)
       \/ frame = "fed" /\ HandleToolDelta(NoIndex, NoTool)
    /\ astray' = (astray \/ frame = "fed")
    /\ UNCHANGED <<style, source, frame, frameIndex, slot, lastTool, said>>

FrameStop ==
    /\ Ready(Sending)
    /\ Framed /\ frame # "none"
    /\ HandleBlockStop(IF style = "framed" THEN frameIndex ELSE NoIndex)
    /\ frame' = "none"
    /\ frameIndex' = frameIndex + 1
    /\ UNCHANGED <<style, source, slot, lastTool, said, astray>>

-----------------------------------------------------------------------------
(* The implicit style. *)

Implicit == style = "implicit"
Room == nextIndex \in BlockIndexes

ImplicitContent(k, withDelta) ==
    /\ Ready(Sending)
    /\ Implicit
    /\ content[k] = NoBlock => Room
    /\ HandleContent(k, withDelta)
    /\ UNCHANGED sourceVars

\* A tool call keeps its id and, in an upstream that numbers them, its index.
ImplicitTool(id, x) ==
    /\ Ready(Sending)
    /\ Implicit
    /\ slot[id] \in {Unset, x}
    /\ slot[id] = Unset => Room
    /\ x # NoIndex => \A other \in ToolIDs \ {id} : slot[other] # x
    /\ StartToolBlock(id, x)
    /\ slot' = [slot EXCEPT ![id] = x]
    /\ lastTool' = id
    /\ UNCHANGED <<style, source, frame, frameIndex, said, astray>>

\* A call without id and index is always a new one (provider/gemini, which
\* returns after an error).
ImplicitAnonymousTool ==
    /\ Ready({"live"})
    /\ Implicit /\ Room
    /\ StartToolBlock(NoID, NoIndex)
    /\ lastTool' = NoID
    /\ UNCHANGED <<style, source, frame, frameIndex, slot, said, astray>>

\* Numbered calls may be fed in any order, the others only while they are last.
ImplicitFragment(id) ==
    /\ Ready(Sending)
    /\ Implicit
    /\ \/ /\ id \in ToolIDs
          /\ slot[id] \in ToolIndexes
          /\ HandleToolDelta(slot[id], id)
       \/ /\ id = lastTool
          /\ HandleToolDelta(NoIndex, id)
    /\ UNCHANGED sourceVars

-----------------------------------------------------------------------------

Emit ==
    /\ pending # <<>>
    /\ pending' = Tail(pending)
    /\ Receive(Head(pending))
    /\ UNCHANGED <<started, nextIndex, blockIndex, content, currentTool, openTools,
                   byIndex, byID, toolMaps, finishReason, stopHandled, stopped, crashed>>
    /\ UNCHANGED sourceVars

Convert ==
    \/ ProviderStart
    \/ ProviderUsage
    \/ ProviderMetadata
    \/ \E r \in ProviderReasons : ProviderStop(r)
    \/ ProviderError
    \/ ProviderDone
    \/ \E k \in ContentKinds : FrameContent(k)
    \/ \E id \in ToolIDs : FrameTool(id)
    \/ FrameRedacted
    \/ \E d \in Dropped : FrameDropped(d)
    \/ FrameDelta
    \/ FrameStop
    \/ \E k \in ContentKinds, d \in BOOLEAN : ImplicitContent(k, d)
    \/ \E id \in ToolIDs, x \in ToolIndexes \cup {NoIndex} : ImplicitTool(id, x)
    \/ ImplicitAnonymousTool
    \/ \E id \in ToolIDs \cup {NoID} : ImplicitFragment(id)

Next == Convert \/ Emit

Spec == Init /\ [][Next]_vars

\* writeAll runs to the end of a batch; nothing is assumed of the provider.
FairSpec == Spec /\ WF_vars(Emit)

-----------------------------------------------------------------------------
(* Properties. *)

SourceTypeOK ==
    /\ style \in {"framed", "unindexed", "implicit"}
    /\ source \in {"silent", "live", "failed", "babbling", "done", "babbled"}
    /\ frame \in BlockKinds \cup {"none", "mute", "fed"}
    /\ frameIndex \in Nat
    /\ slot \in [ToolIDs -> {Unset, NoIndex} \cup ToolIndexes]
    /\ lastTool \in ToolIDs \cup {NoID, NoTool}
    /\ said \subseteq ProviderReasons
    /\ astray \in BOOLEAN

\* The values the converter, the client and the provider hold.
TypeOK ==
    /\ ConverterTypeOK
    /\ ClientTypeOK(BlockType, StopReasons)
    /\ SourceTypeOK

Babble == source \in {"babbling", "babbled"}

\* A strict client can make sense of every event it is sent: indexes have no
\* gaps, a block is fed and stopped only while it is open, fragments of tool
\* arguments reach the block of their tool call, every block is stopped before
\* the stop reason, and nothing follows message_stop (convert.go:642-1108),
\* unless the adapter reads on after an error.
ClientNeverBroken == phase = "broken" => Babble

\* Convert writes to a map that is nil, one that handleStop dropped or that
\* handleStart has not made, only for an adapter that reads on after an error.
NoPanic == crashed => Babble

\* The stop reason a client sees is the one an agent loop needs: tool_use when
\* the reply holds a tool call or the provider says so, however the provider's
\* own reasons are ordered or repeated; else max_tokens when it was said.
StopReasonSound ==
    reason # "none" =>
        reason = IF "tool_calls" \in said \/ \E p \in DOMAIN blocks : blocks[p].kind = "tool_use"
                 THEN "tool_use"
                 ELSE IF "length" \in said THEN "max_tokens" ELSE "end_turn"

\* Why the two hold at every step (ConverterStreamProofs): the maps exist while
\* the provider may send content ...
LiveInv ==
    /\ NoPanic
    /\ source = "live" => started /\ toolMaps /\ ~stopHandled
    /\ source = "babbling" => ~toolMaps

\* ... and the reason on record is the one the client's blocks, those on their
\* way to it and the provider's reports call for.
Elements(s) == {s[p] : p \in DOMAIN s}
IsToolStart(e) == e.type = "block_start" /\ e.info = "tool_use"

ToolSeen ==
    \/ \E p \in DOMAIN blocks : blocks[p].kind = "tool_use"
    \/ \E e \in Elements(pending) : IsToolStart(e)

ReasonFor(tool, otherwise) ==
    IF "tool_calls" \in said \/ tool THEN "tool_use"
    ELSE IF "length" \in said THEN "max_tokens" ELSE otherwise

Over == source \in {"failed", "done"} \/ Babble

SilentInv ==
    source = "silent" => ~started /\ blocks = <<>> /\ pending = <<>> /\ said = {}
                             /\ reason = "none"

\* handleStop is not called twice: it ran when the provider is through.
OverInv == Over => ~started \/ stopHandled

KnowsTool ==
    \/ openTools # {}
    \/ currentTool # NoBlock
    \/ \E x \in ToolIndexes : byIndex[x] # NoBlock
    \/ \E id \in ToolIDs : byID[id] # NoBlock

RecordInv ==
    source = "live" =>
        /\ KnowsTool => finishReason = "tool_use"
        /\ phase # "broken" => finishReason = ReasonFor(ToolSeen, "none")

FinalPending == \E e \in Elements(pending) : IsFinal(e)

FinalInv ==
    /\ FinalPending \/ reason # "none" => Over /\ \A e \in Elements(pending) : ~IsToolStart(e)
    /\ phase # "broken" =>
          \A e \in Elements(pending) : IsFinal(e) => e.info = ReasonFor(ToolSeen, "end_turn")
    /\ reason # "none" => reason = ReasonFor(ToolSeen, "end_turn")

ReasonInv == SilentInv /\ OverInv /\ RecordInv /\ FinalInv

\* A client that was sent the whole reply was sent a content_block_stop for
\* every block: "the client receives the full block lifecycle"
\* (provider/options.go:10, README.md:89).
EveryBlockStopped == stopHandled /\ pending = <<>> => open = {}

\* Once the provider's stream is over or has failed, a reply that was started
\* is brought to message_stop.
StartedIsEnded == (Over /\ phase = "streaming") ~> (phase = "ended")

\* A client that looks at nothing after message_stop: for it the events of an
\* adapter that reads on do not matter.
Protocol == INSTANCE BlockProtocol WITH
                Blocks <- BlockType,
                Overlap <- {b \in BlockType : b.kind = "tool_use"},
                Reasons <- StopReasons,
                phase <- IF phase = "broken" THEN "ended" ELSE phase

\* The client's view is a behaviour of the documented block protocol.
FollowsProtocol == Protocol!Spec
==============================================================================
