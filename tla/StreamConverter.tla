--------------------------- MODULE StreamConverter ---------------------------
(***************************************************************************)
(* bamboo.StreamConverter (bamboo/convert.go): the state machine that turns *)
(* provider events into the event stream a client reads.  One action per   *)
(* handler; `pending' holds the events the last call of Convert returned   *)
(* and the caller has not forwarded yet.  An index flag and its index are  *)
(* one variable (NoBlock: the flag is off): the code reads the index only  *)
(* while the flag is on.  openTools is the slice openToolBlockIndexes: new *)
(* indexes only ever grow, so the set determines the ascending slice.      *)
(***************************************************************************)
EXTENDS Integers, Sequences, FiniteSets

CONSTANTS ToolIDs,      (* ids a provider may give to a tool call            *)
          ToolIndexes,  (* indexes a provider may give to a tool call        *)
          NoID,         (* a tool call without an id                         *)
          NoIndex       (* a tool call, fragment or stop without an index    *)

ASSUME ConverterAssumption ==
    /\ NoID \notin ToolIDs
    /\ ToolIndexes \subseteq Nat
    /\ NoIndex = -1

VARIABLES started, nextIndex, blockIndex, content, currentTool, openTools,
          byIndex, byID, toolMaps, finishReason, stopHandled, stopped,
          crashed, pending

converterVars == <<started, nextIndex, blockIndex, content, currentTool,
                   openTools, byIndex, byID, toolMaps, finishReason,
                   stopHandled, stopped, crashed, pending>>

NoBlock == -1
ContentKinds == {"text", "thinking"}
BlockKinds == ContentKinds \cup {"tool_use", "redacted_thinking"}
StopReasons == {"end_turn", "max_tokens", "tool_use"}
ProviderReasons == {"stop", "length", "tool_calls", "refusal"}

-----------------------------------------------------------------------------
(* The events a client receives.  "info" is the kind of a block or the stop  *)
(* reason of a message_delta ("none" in the one that only carries metadata), *)
(* "tool" the id of a tool_use block, or in a delta the id of the tool call  *)
(* whose arguments the fragment is a part of.                                *)

Event(t, i, info, tool) == [type |-> t, index |-> i, info |-> info, tool |-> tool]
BlockStart(i, k) == Event("block_start", i, k, NoID)
ToolStart(i, id) == Event("block_start", i, "tool_use", id)
BlockDelta(i, k) == Event("block_delta", i, k, NoID)
ToolDelta(i, id) == Event("block_delta", i, "tool_use", id)
BlockStop(i) == Event("block_stop", i, "none", NoID)
MessageDelta(r) == Event("message_delta", NoBlock, r, NoID)
Message(t) == Event(t, NoBlock, "none", NoID)

\* A fragment of a tool call that was never announced.
NoTool == "no tool"

ASSUME NoToolAssumption == NoTool \notin ToolIDs \cup {NoID}

Tools == ToolIDs \cup {NoID}
BlockType == [kind : BlockKinds, tool : Tools]

EventType ==
    [type : {"block_start"}, index : Nat, info : BlockKinds, tool : Tools]
        \cup [type : {"block_delta"}, index : Nat, info : ContentKinds \cup {"tool_use"},
              tool : Tools \cup {NoTool}]
        \cup [type : {"block_stop"}, index : Nat, info : {"none"}, tool : {NoID}]
        \cup [type : {"message_delta"}, index : {NoBlock}, info : StopReasons \cup {"none"},
              tool : {NoID}]
        \cup [type : {"message_start", "message_stop", "ping", "error"}, index : {NoBlock},
              info : {"none"}, tool : {NoID}]

StopIf(b, i) == IF b THEN <<BlockStop(i)>> ELSE <<>>

ConverterTypeOK ==
    /\ started \in BOOLEAN
    /\ nextIndex \in Nat
    /\ blockIndex \in Nat
    /\ content \in [ContentKinds -> Nat \cup {NoBlock}]
    /\ currentTool \in Nat \cup {NoBlock}
    /\ openTools \in SUBSET Nat
    /\ byIndex \in [ToolIndexes -> Nat \cup {NoBlock}]
    /\ byID \in [ToolIDs -> Nat \cup {NoBlock}]
    /\ toolMaps \in BOOLEAN
    /\ finishReason \in {"none"} \cup StopReasons
    /\ stopHandled \in BOOLEAN
    /\ stopped \in SUBSET Nat
    /\ crashed \in BOOLEAN
    /\ pending \in Seq(EventType)

ConverterInit ==
    /\ started = FALSE
    /\ nextIndex = 0
    /\ blockIndex = 0
    /\ content = [k \in ContentKinds |-> NoBlock]
    /\ currentTool = NoBlock
    /\ openTools = {}
    /\ byIndex = [x \in ToolIndexes |-> NoBlock]
    /\ byID = [x \in ToolIDs |-> NoBlock]
    /\ toolMaps = FALSE
    /\ finishReason = "none"
    /\ stopHandled = FALSE
    /\ stopped = {}
    /\ crashed = FALSE
    /\ pending = <<>>

-----------------------------------------------------------------------------
(* Finish reasons. *)

MapFinishReason(r) ==
    CASE r = "length" -> "max_tokens"
      [] r = "tool_calls" -> "tool_use"
      [] OTHER -> "end_turn"

\* Mutant: a truncated reply outranks a tool call.
TruncationFirst(r) ==
    CASE r = "max_tokens" -> 2
      [] r = "tool_use" -> 1
      [] OTHER -> 0

FinishReasonPriority(r) ==
    CASE r = "tool_use" -> 2
      [] r = "max_tokens" -> 1
      [] OTHER -> 0

\* Mutant: the provider's own word is kept.
RecordedUnmapped(r) ==
    IF FinishReasonPriority(MapFinishReason(r)) > FinishReasonPriority(finishReason)
    THEN r
    ELSE finishReason

\* The reason on record after `r' came in: a strictly higher priority wins.
Recorded(r) ==
    IF FinishReasonPriority(MapFinishReason(r)) > FinishReasonPriority(finishReason)
    THEN MapFinishReason(r)
    ELSE finishReason

-----------------------------------------------------------------------------
(* Handlers.  A handler that writes to a map that is nil panics, its events  *)
(* are lost and the goroutine that called it unwinds: that is `Panic'.       *)

Panic ==
    /\ crashed' = TRUE
    /\ pending' = <<>>
    /\ UNCHANGED <<started, nextIndex, blockIndex, content, currentTool, openTools,
                   byIndex, byID, toolMaps, finishReason, stopHandled, stopped>>

Ignore ==
    UNCHANGED converterVars

\* Mutant: the tool maps are made once, by the constructor, and not again.
StartWithoutMaps ==
    /\ started' = TRUE
    /\ nextIndex' = 0
    /\ pending' = <<Message("message_start")>>
    /\ UNCHANGED <<blockIndex, content, currentTool, openTools, byIndex, byID, toolMaps,
                   finishReason, stopHandled, stopped, crashed>>

HandleStart ==
    /\ started' = TRUE
    /\ nextIndex' = 0
    /\ blockIndex' = 0
    /\ content' = [k \in ContentKinds |-> NoBlock]
    /\ currentTool' = NoBlock
    /\ openTools' = {}
    /\ byIndex' = [x \in ToolIndexes |-> NoBlock]
    /\ byID' = [x \in ToolIDs |-> NoBlock]
    /\ toolMaps' = TRUE
    /\ finishReason' = "none"
    /\ stopHandled' = FALSE
    /\ stopped' = {}
    /\ pending' = <<Message("message_start")>>
    /\ UNCHANGED crashed

\* Mutant: only the thinking block is closed.
StopThinkingOnly ==
    StopIf(content["thinking"] # NoBlock, content["thinking"])

StopAllTextOrThinking ==
    StopIf(content["thinking"] # NoBlock, content["thinking"])
        \o StopIf(content["text"] # NoBlock, content["text"])

\* A block_start or a delta for text or thinking: the block is opened when it
\* is not open yet, which closes the block of the other kind.
Other(k) == IF k = "text" THEN "thinking" ELSE "text"

HandleContent(k, withDelta) ==
    LET idx == IF content[k] # NoBlock THEN content[k] ELSE nextIndex
        delta == IF withDelta THEN <<BlockDelta(idx, k)>> ELSE <<>>
    IN  /\ \/ /\ content[k] # NoBlock
              /\ pending' = delta
              /\ UNCHANGED <<content, nextIndex, blockIndex>>
           \/ /\ content[k] = NoBlock
              /\ pending' = StopIf(content[Other(k)] # NoBlock, content[Other(k)])
                                \o <<BlockStart(nextIndex, k)>> \o delta
              /\ content' = [c \in ContentKinds |-> IF c = k THEN nextIndex ELSE NoBlock]
              /\ nextIndex' = nextIndex + 1
              /\ blockIndex' = nextIndex
        /\ UNCHANGED <<started, currentTool, openTools, byIndex, byID, toolMaps,
                       finishReason, stopHandled, stopped, crashed>>

\* The block a provider's tool call already has, by its index, else by its id.
KnownTool(id, x) ==
    IF x # NoIndex /\ byIndex[x] # NoBlock THEN byIndex[x]
    ELSE IF id # NoID THEN byID[id]
    ELSE NoBlock

StartToolBlock(id, x) ==
    LET known == KnownTool(id, x) IN
    \/ /\ known # NoBlock
       /\ pending' = StopAllTextOrThinking
       /\ content' = [k \in ContentKinds |-> NoBlock]
       /\ currentTool' = known
       /\ blockIndex' = known
       /\ UNCHANGED <<started, nextIndex, openTools, byIndex, byID, toolMaps,
                      finishReason, stopHandled, stopped, crashed>>
    \/ /\ known = NoBlock
       /\ toolMaps \/ (id = NoID /\ x = NoIndex)
       /\ pending' = StopAllTextOrThinking \o <<ToolStart(nextIndex, id)>>
       /\ content' = [k \in ContentKinds |-> NoBlock]
       /\ currentTool' = nextIndex
       /\ blockIndex' = nextIndex
       /\ nextIndex' = nextIndex + 1
       /\ openTools' = openTools \cup {nextIndex}
       /\ byIndex' = [y \in ToolIndexes |-> IF y = x THEN nextIndex ELSE byIndex[y]]
       /\ byID' = [y \in ToolIDs |-> IF y = id THEN nextIndex ELSE byID[y]]
       /\ finishReason' = Recorded("tool_calls")
       /\ UNCHANGED <<started, toolMaps, stopHandled, stopped, crashed>>
    \/ /\ known = NoBlock
       /\ ~toolMaps
       /\ id # NoID \/ x # NoIndex
       /\ Panic

\* Mutant: a fragment always goes to the tool call that started last.
LastToolIndex(x) ==
    IF currentTool # NoBlock THEN currentTool ELSE blockIndex

\* The block a fragment of tool arguments is sent to.
ToolDeltaIndex(x) ==
    IF x # NoIndex /\ byIndex[x] # NoBlock THEN byIndex[x]
    ELSE IF currentTool # NoBlock THEN currentTool
    ELSE blockIndex

HandleToolDelta(x, id) ==
    /\ pending' = <<ToolDelta(ToolDeltaIndex(x), id)>>
    /\ UNCHANGED <<started, nextIndex, blockIndex, content, currentTool, openTools,
                   byIndex, byID, toolMaps, finishReason, stopHandled, stopped, crashed>>

\* The index is marked as stopped whether or not a block has it.
HandleBlockStop(i) ==
    \/ /\ i = NoIndex \/ i \in stopped
       /\ Ignore
    \/ /\ i # NoIndex /\ i \notin stopped
       /\ ~started
       /\ Panic
    \/ /\ i # NoIndex /\ i \notin stopped
       /\ started
       /\ pending' = StopIf(i \in openTools, i)
                         \o StopIf(content["text"] = i, i)
                         \o StopIf(content["thinking"] = i, i)
       /\ openTools' = openTools \ {i}
       /\ content' = [k \in ContentKinds |-> IF content[k] = i THEN NoBlock ELSE content[k]]
       /\ stopped' = stopped \cup {i}
       /\ UNCHANGED <<started, nextIndex, blockIndex, currentTool, byIndex, byID,
                      toolMaps, finishReason, stopHandled, crashed>>

\* A redacted block is atomic: it is started and stopped at once.
HandleRedacted ==
    \/ /\ ~started
       /\ Panic
    \/ /\ started
       /\ pending' = StopAllTextOrThinking
                         \o <<BlockStart(nextIndex, "redacted_thinking"), BlockStop(nextIndex)>>
       /\ content' = [k \in ContentKinds |-> NoBlock]
       /\ nextIndex' = nextIndex + 1
       /\ blockIndex' = nextIndex
       /\ stopped' = stopped \cup {nextIndex}
       /\ UNCHANGED <<started, currentTool, openTools, byIndex, byID, toolMaps,
                      finishReason, stopHandled, crashed>>

\* A usage delta becomes a ping, a metadata delta a message_delta with no reason.
HandleUsage ==
    /\ pending' = <<Message("ping")>>
    /\ UNCHANGED <<started, nextIndex, blockIndex, content, currentTool, openTools,
                   byIndex, byID, toolMaps, finishReason, stopHandled, stopped, crashed>>

HandleMetadata ==
    /\ pending' = <<MessageDelta("none")>>
    /\ UNCHANGED <<started, nextIndex, blockIndex, content, currentTool, openTools,
                   byIndex, byID, toolMaps, finishReason, stopHandled, stopped, crashed>>

RecordFinishReason(r) ==
    /\ finishReason' = Recorded(r)
    /\ UNCHANGED <<started, nextIndex, blockIndex, content, currentTool, openTools,
                   byIndex, byID, toolMaps, stopHandled, stopped, crashed, pending>>

-----------------------------------------------------------------------------
(* The end of a message. *)

StopReason ==
    IF finishReason # "none" THEN finishReason
    ELSE IF openTools # {} \/ currentTool # NoBlock THEN "tool_use"
    ELSE "end_turn"

\* The enumerations of S in ascending order (for a finite S there is one).
Ascending(S) ==
    {f \in [1..Cardinality(S) -> S] :
        /\ \A p, q \in 1..Cardinality(S) : p < q => f[p] < f[q]
        /\ \A i \in S : \E p \in 1..Cardinality(S) : f[p] = i}

\* handleStop: closes what is still open, in the order thinking, text, tools,
\* but nothing that a BlockStop has marked, and ends the message.
HandleStop(prefix) ==
    /\ \E tools \in Ascending(openTools \ stopped) :
          pending' = prefix
              \o StopIf(content["thinking"] # NoBlock /\ content["thinking"] \notin stopped,
                        content["thinking"])
              \o StopIf(content["text"] # NoBlock /\ content["text"] \notin stopped,
                        content["text"])
              \o [p \in 1..Cardinality(openTools \ stopped) |-> BlockStop(tools[p])]
              \o <<MessageDelta(StopReason), Message("message_stop")>>
    /\ content' = [k \in ContentKinds |->
                      IF content[k] \in stopped THEN content[k] ELSE NoBlock]
    /\ openTools' = {}
    /\ currentTool' = NoBlock
    /\ byIndex' = [x \in ToolIndexes |-> NoBlock]
    /\ byID' = [x \in ToolIDs |-> NoBlock]
    /\ toolMaps' = FALSE
    /\ stopHandled' = TRUE
    /\ UNCHANGED <<started, nextIndex, blockIndex, finishReason, stopped, crashed>>

\* Mutant: every Done ends the message.
EveryDoneStops ==
    \/ /\ started
       /\ HandleStop(<<>>)
    \/ /\ ~started
       /\ Ignore

HandleDone ==
    \/ /\ started /\ ~stopHandled
       /\ HandleStop(<<>>)
    \/ /\ ~started \/ stopHandled
       /\ Ignore

\* Mutant: an error is passed on and the message left open.
ErrorOnly ==
    /\ pending' = <<Message("error")>>
    /\ UNCHANGED <<started, nextIndex, blockIndex, content, currentTool, openTools,
                   byIndex, byID, toolMaps, finishReason, stopHandled, stopped, crashed>>

HandleError ==
    \/ /\ started /\ ~stopHandled
       /\ HandleStop(<<Message("error")>>)
    \/ /\ ~started \/ stopHandled
       /\ pending' = <<Message("error")>>
       /\ UNCHANGED <<started, nextIndex, blockIndex, content, currentTool, openTools,
                      byIndex, byID, toolMaps, finishReason, stopHandled, stopped, crashed>>
==============================================================================
