----------------------------- MODULE RelayStream -----------------------------
(***************************************************************************)
(* One request and its streamed reply on their way through the gateway: the *)
(* client's conversation and what an adapter is given of it, an upstream,   *)
(* the adapter that reads its reply, client.Chat with its converter         *)
(* (bamboo.go), and RelayStream (bamboo/relay/relay.go) with the serializer *)
(* of the format the client asked for.  The upstream, the adapter and the   *)
(* converter of one reply do not depend on that format, so the serializers  *)
(* of all formats read the same events side by side.                        *)
(*                                                                          *)
(* A frame is read when the events of the one before were converted and     *)
(* passed on; ChatStream models the channels between the goroutines.  A     *)
(* caller may read the adapter's channel itself, with a TimingCollector.    *)
(***************************************************************************)
EXTENDS StreamConverter, StreamClient, SequencesExt

CONSTANTS CallIDs,      (* the ids of tool calls of the reply, as a sequence   *)
          AskedIDs,     (* the ids of tool calls of the request, as a sequence *)
          MaxTurns,     (* bound: the messages of a request, for each kind     *)
          MaxFrames     (* bound: the frames of a reply, for each kind         *)

\* The client's ids are no empty strings; a call without one has none of them.
ASSUME RelayAssumption == NoID \notin ToSet(AskedIDs)

Requests == INSTANCE ProviderRequests
Completions == INSTANCE CompletionsAdapter
Responses == INSTANCE ResponsesAdapter
Gemini == INSTANCE GeminiAdapter WITH Spare <- CallIDs
Anthropic == INSTANCE AnthropicAdapter
Bamboo == INSTANCE BambooAdapter
Client == INSTANCE Conversation
API == INSTANCE Upstream
Body == INSTANCE SSEScanner
Timing == INSTANCE TimingCollector

ToResponses == INSTANCE ResponsesSerializer
ToOpenAI == INSTANCE OpenAISerializer
ToGemini == INSTANCE GeminiSerializer
ToAnthropic == INSTANCE AnthropicSerializer

VARIABLES kind,    (* the upstream                                             *)
          request, (* the conversation, until it was sent                      *)
          messages,(* what the adapter is given of it                          *)
          fed,     (* the frames read from it                                  *)
          scanner, (* what the scanner of the body keeps                       *)
          wire,    (* "open", "ending" (the loop was left), "over"             *)
          a,       (* what the adapter keeps between two frames                *)
          queue,   (* the events it sent that are not converted yet            *)
          now,     (* the event converted last                                 *)
          timing,  (* a TimingCollector that was shown the same events         *)
          told,    (* history: the provider as ConverterStream sees it         *)
          chat,    (* "asking", "peeking", "refused", "streaming" or "over"    *)
          ser,     (* the serializers                                          *)
          tally    (* the calls of OnUsage and OnError                         *)

relayVars == <<kind, request, messages, fed, scanner, wire, a, queue, now, timing, told, chat, ser, tally>>
vars == <<converterVars, clientVars, relayVars>>

-----------------------------------------------------------------------------
(* The adapters. *)

Inline == kind = "inline"
CompletionsKinds == {"completions", "unnumbered", "inline", "glued"}
FramedKinds == {"anthropic", "bamboo"}
ReadsOn == {"responses"} \cup FramedKinds

NewAdapter(k, used) ==
    CASE k \in CompletionsKinds -> Completions!NewCompletions(k = "inline")
      [] k = "gemini" -> Gemini!NewGemini(used)
      [] k = "anthropic" -> Anthropic!NewAnthropic
      [] k = "bamboo" -> Bamboo!NewBamboo
      [] OTHER -> Responses!NewResponses

AdapterFrame(f) ==
    CASE kind \in CompletionsKinds -> Completions!CompletionsFrame(a, f)
      [] kind = "gemini" -> Gemini!GeminiFrame(a, f)
      [] kind = "responses" -> Responses!ResponsesFrame(a, f)
      [] kind = "websocket" -> Responses!WebSocketFrame(a, f)
      [] kind = "bamboo" -> Bamboo!BambooFrame(a, f)
      [] OTHER -> Anthropic!AnthropicFrame(a, f)

AdapterEnd(broken, degraded) ==
    CASE kind \in CompletionsKinds -> Completions!CompletionsEnd(a, broken, degraded)
      [] kind = "gemini" -> Gemini!GeminiEnd(a, broken, degraded)
      [] kind = "anthropic" -> Anthropic!AnthropicEnd(a, broken, degraded)
      [] kind = "bamboo" -> Bamboo!BambooEnd(a, broken)
      [] OTHER -> Responses!ResponsesEnd(a, broken, degraded)

\* ResolveDegradedReason: by the provider's strategy and whether there are tools.
DegradedReasons == {"stop", "tool_calls"}

-----------------------------------------------------------------------------

NewTold(k) ==
    [style |-> CASE k = "anthropic" -> "framed"
                 [] k = "bamboo" -> "unindexed"
                 [] OTHER -> "implicit",
     source |-> "silent", frame |-> "none", frameIndex |-> 0,
     slot |-> [id \in ToolIDs |-> -2], lastTool |-> NoTool, said |-> {}, astray |-> FALSE]

\* NewStreamConverterForProvider: gemini's thoughts keep their provenance.
NewSerializers(k) ==
    [responses |-> ToResponses!NewResponsesSerializer,
     openai |-> ToOpenAI!NewOpenAISerializer,
     gemini |-> ToGemini!NewGeminiSerializer(k = "gemini"),
     hop |-> [a |-> Anthropic!NewAnthropic, out |-> <<>>]]

Init ==
    /\ ConverterInit
    /\ ClientInit
    /\ kind \in API!Kinds
    /\ request = <<>>
    /\ messages = <<>>
    /\ a = NewAdapter(kind, {})
    /\ fed = <<>>
    /\ scanner = Body!NewScanner
    /\ wire = "open"
    /\ queue = <<>>
    /\ now = API!DoneEvent
    /\ timing = Timing!NewTimingCollector
    /\ told = NewTold(kind)
    /\ chat = "asking"
    /\ ser = NewSerializers(kind)
    /\ tally = [usage |-> 0, errors |-> 0, estimated |-> FALSE]

-----------------------------------------------------------------------------
(* The request. *)

\* The client's conversation gets another message.
Ask ==
    /\ chat = "asking" /\ Len(request) < MaxTurns[kind]
    /\ \E m \in Client!NextTurns(request) : request' = Append(request, m)
    /\ messages' = Requests!MessagesToProvider(request')
    /\ UNCHANGED <<kind, fed, scanner, wire, a, queue, now, timing, told, chat, ser, tally,
                   converterVars, clientVars>>

\* It is sent.  All the adapter keeps of it are the ids of its calls (of which
\* those matter that the reply may have).
Call ==
    /\ chat = "asking"
    /\ chat' = "peeking"
    /\ request' = <<>>
    /\ messages' = <<>>
    /\ a' = NewAdapter(kind, Requests!UsedIDs(messages) \cap ToSet(CallIDs))
    /\ UNCHANGED <<kind, fed, scanner, wire, queue, now, timing, told, ser, tally, converterVars, clientVars>>

-----------------------------------------------------------------------------
(* The adapter reads. *)

Idle == queue = <<>> /\ pending = <<>> /\ ~crashed /\ chat \notin {"asking", "refused"}

\* The blocks of a framed upstream whose start the adapter does not announce.
DroppedAs(f) ==
    CASE f.type = "block_start" /\ f.kind = "server_tool_use" -> "fed"
      [] f.type = "block_start" /\ f.kind = "redacted_thinking" /\ f.piece = API!Nothing -> "mute"
      [] OTHER -> told.frame

UsedIDs == IF kind = "gemini" THEN a.used ELSE {}

\* The scanner hands out a frame.
Reads(f) ==
    LET r == AdapterFrame(f) IN
    /\ a' = r.a
    /\ queue' = r.out
    /\ wire' = CASE r.then = "read" -> "open" [] r.then = "end" -> "ending" [] OTHER -> "over"
    /\ told' = [told EXCEPT !.frame = DroppedAs(f)]

\* The next event of the body is read; it may have no frame.  (A message of a
\* WebSocket is one frame.)
Read ==
    /\ wire = "open" /\ Idle /\ Body!AtEvent(scanner)
    /\ \E event \in API!NextEvents(kind, fed, UsedIDs) :
          LET frames == Body!FramesOf(event.lines) IN
          /\ fed' = fed \o API!FramesIn(event)
          /\ scanner' = Body!Dispatched(event.lines, event.last)
          /\ IF frames = <<>> THEN UNCHANGED <<a, queue, wire, told>> ELSE Reads(frames[1])
    /\ UNCHANGED <<kind, request, messages, now, timing, chat, ser, tally, converterVars, clientVars>>

\* The frames that were glued to one before.
ReadPending ==
    /\ wire = "open" /\ Idle /\ Body!HasPending(scanner)
    /\ Reads(scanner.pending[1])
    /\ scanner' = [scanner EXCEPT !.pending = Tail(@)]
    /\ UNCHANGED <<kind, request, messages, fed, now, timing, chat, ser, tally, converterVars, clientVars>>

\* The body ends, or a read fails.
EndOfBody ==
    /\ wire \in {"open", "ending"} /\ Idle /\ ~Body!HasPending(scanner)
    /\ \E broken \in BOOLEAN, degraded \in DegradedReasons :
          /\ broken => wire = "open" /\ ~scanner.over
          /\ queue' = AdapterEnd(broken, degraded)
    /\ wire' = "over"
    /\ UNCHANGED <<kind, request, messages, fed, scanner, a, now, timing, told, chat, ser, tally,
                   converterVars, clientVars>>

\* The upstream answers with an error status, or cannot be reached.
Refuse ==
    /\ wire = "open" /\ Idle /\ fed = <<>> /\ ~scanner.over
    /\ queue' = <<API!ErrorEvent>>
    /\ wire' = "over"
    /\ UNCHANGED <<kind, request, messages, fed, scanner, a, now, timing, told, chat, ser, tally,
                   converterVars, clientVars>>

-----------------------------------------------------------------------------
(* client.Chat. *)

\* A first event that is an error, or Done, is the answer of the call itself.
Peek ==
    /\ chat = "peeking" /\ queue # <<>>
    /\ LET refused == Head(queue).type \in {"error", "done"} IN
       /\ chat' = IF refused THEN "refused" ELSE "streaming"
       /\ tally' = [tally EXCEPT !.errors = IF refused THEN @ + 1 ELSE @]
    /\ UNCHANGED <<kind, request, messages, fed, scanner, wire, a, queue, now, timing, told, ser,
                   converterVars, clientVars>>

Sending == {"live", "babbling"}

\* What ConverterStream's provider would be after the event.
Tell(e) ==
    CASE e.type = "start" -> [told EXCEPT !.source = "live"]
      [] e.type = "stop" ->
            [told EXCEPT !.said = IF told.source # "live" THEN @
                                  ELSE @ \cup {IF e.kind = "none" THEN "stop" ELSE e.kind}]
      [] e.type = "error" ->
            [told EXCEPT !.source = IF kind \in ReadsOn /\ @ # "silent" THEN "babbling" ELSE "failed"]
      [] e.type = "done" -> [told EXCEPT !.source = IF @ = "babbling" THEN "babbled" ELSE "done"]
      [] e.type = "tool" -> [told EXCEPT !.slot[e.id] = e.index, !.lastTool = e.id]
      [] e.type = "block" /\ e.kind = "tool_use" ->
            [told EXCEPT !.slot[e.id] = NoIndex, !.lastTool = e.id, !.frame = "tool_use"]
      [] e.type = "block" /\ e.kind \in ContentKinds /\ kind \in FramedKinds ->
            [told EXCEPT !.frame = e.kind]
      [] e.type = "redacted" -> [told EXCEPT !.frame = "redacted_thinking"]
      [] e.type = "fragment" -> [told EXCEPT !.astray = @ \/ told.frame = "fed"]
      [] e.type = "blockstop" -> [told EXCEPT !.frame = "none", !.frameIndex = @ + 1]
      [] OTHER -> told

\* Convert (convert.go), by the type of the event and of its delta.
Dispatch(e) ==
    CASE e.type = "start" -> HandleStart
      [] e.type = "stop" -> RecordFinishReason(e.kind)
      [] e.type = "error" -> HandleError
      [] e.type = "done" -> HandleDone
      [] e.type = "usage" -> HandleUsage
      [] e.type = "metadata" -> HandleMetadata
      [] e.type = "block" /\ e.kind \in ContentKinds -> HandleContent(e.kind, FALSE)
      [] e.type = "block" /\ e.kind = "tool_use" -> StartToolBlock(e.id, NoIndex)
      [] e.type = "content" -> HandleContent(e.kind, TRUE)
      [] e.type = "signature" -> HandleContent("thinking", TRUE)
      [] e.type = "tool" -> StartToolBlock(e.id, e.index)
      [] e.type = "fragment" -> HandleToolDelta(e.index, e.id)
      [] e.type = "redacted" -> HandleRedacted
      [] e.type = "blockstop" -> HandleBlockStop(e.index)
      [] OTHER -> Ignore

Streaming == chat = "streaming" /\ pending = <<>> /\ ~crashed

\* When the events of the queue arrived: with their frame, or at the end.
Clock == Len(fed) - Len(scanner.pending) + (IF wire = "over" THEN 3 ELSE 2)

Convert ==
    /\ Streaming /\ queue # <<>>
    /\ now' = Head(queue)
    /\ queue' = Tail(queue)
    /\ Dispatch(Head(queue))
    /\ told' = Tell(Head(queue))
    /\ timing' = Timing!Observe(timing, Head(queue), Clock)
    /\ UNCHANGED <<kind, request, messages, fed, scanner, wire, a, chat, ser, tally, clientVars>>

\* The adapter's channel is closed without Done.
ChannelClosed ==
    /\ Streaming /\ queue = <<>> /\ wire = "over"
    /\ told.source \in {"silent", "live", "failed", "babbling"}
    /\ now' = API!DoneEvent
    /\ HandleDone
    /\ told' = Tell(API!DoneEvent)
    /\ UNCHANGED <<kind, request, messages, fed, scanner, wire, a, queue, timing, chat, ser, tally, clientVars>>

-----------------------------------------------------------------------------
(* RelayStream. *)

\* The usage of a ping is real, that of the final delta is when there was one.
HasUsage(e) == (e.type = "ping" /\ now.type = "usage") \/ (IsFinal(e) /\ tally.usage > 0)

NextHop(hop, frames) ==
    LET Step(h, f) == LET r == Anthropic!AnthropicFrame(h.a, f)
                      IN  [a |-> r.a, out |-> h.out \o r.out]
    IN  FoldLeft(Step, hop, frames)

Serialized(e) ==
    [responses |-> ToResponses!ResponsesSerialize(ser.responses, e, now),
     openai |-> ToOpenAI!OpenAISerialize(ser.openai, e, now),
     gemini |-> ToGemini!GeminiSerialize(ser.gemini, e, now),
     hop |-> NextHop(ser.hop, ToAnthropic!AnthropicSerialize(e, now))]

Tallied(e) ==
    [tally EXCEPT !.usage = IF HasUsage(e) THEN @ + 1 ELSE @,
                  !.errors = IF e.type = "error" THEN @ + 1 ELSE @]

Emit ==
    /\ pending # <<>>
    /\ pending' = Tail(pending)
    /\ Receive(Head(pending))
    /\ ser' = Serialized(Head(pending))
    /\ tally' = Tallied(Head(pending))
    /\ UNCHANGED <<started, nextIndex, blockIndex, content, currentTool, openTools,
                   byIndex, byID, toolMaps, finishReason, stopHandled, stopped, crashed>>
    /\ UNCHANGED <<kind, request, messages, fed, scanner, wire, a, queue, now, timing, told, chat>>

Flushed(s) ==
    [s EXCEPT !.openai = ToOpenAI!OpenAIFlush(@), !.gemini = ToGemini!GeminiFlush(@)]

\* The end of Chat's channel: the terminal marks, and the deferred estimate.
Close(lastSer, lastTally) ==
    /\ chat' = "over"
    /\ ser' = Flushed(lastSer)
    /\ tally' = [lastTally EXCEPT !.estimated = lastTally.usage = 0]
    /\ UNCHANGED <<kind, request, messages, fed, scanner, wire, a, queue, now, timing, told,
                   converterVars, clientVars>>

Finish ==
    /\ Streaming /\ queue = <<>> /\ wire = "over"
    /\ told.source \in {"done", "babbled"}
    /\ Close(ser, tally)

\* A panic of the converter becomes an error event, unless Chat's channel is full.
Recover ==
    /\ chat = "streaming" /\ crashed
    /\ \/ Close(Serialized(Message("error")), Tallied(Message("error")))
       \/ Close(ser, tally)

Next ==
    \/ Ask
    \/ Call
    \/ Read
    \/ ReadPending
    \/ EndOfBody
    \/ Refuse
    \/ Peek
    \/ Convert
    \/ ChannelClosed
    \/ Emit
    \/ Finish
    \/ Recover

Spec == Init /\ [][Next]_vars
-----------------------------------------------------------------------------
(* Properties. *)

Env == INSTANCE ConverterStream WITH
           BlockIndexes <- Nat,
           Dropped <- {"mute", "fed"},
           style <- told.style, source <- told.source, frame <- told.frame,
           frameIndex <- told.frameIndex, slot <- told.slot, lastTool <- told.lastTool,
           said <- told.said, astray <- told.astray

\* What is proved and checked of the converter holds behind these adapters: each
\* of them, whatever its upstream sends, keeps to one of the three styles that
\* ConverterStream supposes (provider/*/stream.go, chat.go).
AdaptersKeepStyle == Env!Spec

\* A block whose start an adapter drops while it forwards the stop does no harm
\* before the end of the message, unless fragments of the dropped block go astray
\* (anthropic/stream.go:75-169, convert.go:988-1023).
BrokenOnlyAtEnd == phase = "broken" => stopHandled \/ told.astray

CallsOf(m) == ToSet(m.calls)
ResultAt(id) == {p \in DOMAIN messages : messages[p].role = "tool" /\ messages[p].id = id}
CallsAt(id) == {p \in DOMAIN messages : id \in CallsOf(messages[p])}

\* In a request, here to the Responses API, every call has one result, after it,
\* and every result its call; a call the client answered after it declared it is
\* among them (convert.go:221-321, responses/message.go:18-40).
PairsKept ==
    chat = "asking" =>
        \A id \in ToSet(AskedIDs) :
            LET declared == {p \in DOMAIN request : id \in CallsOf(request[p])}
                answered == {p \in DOMAIN request : id \in ToSet(request[p].results)}
                items == Requests!ResponsesInput(messages)
                Items(type) == {p \in DOMAIN items : items[p] = [type |-> type, id |-> id]}
            IN  /\ Cardinality(Items("function_call")) = Cardinality(Items("function_call_output"))
                /\ \A p \in Items("function_call"), q \in Items("function_call_output") : p < q
                /\ Cardinality(CallsAt(id)) = IF \E p \in declared, q \in answered :
                                                     p < q /\ \A r \in declared : p <= r
                                              THEN 1 ELSE 0

\* No result of an earlier call comes after a later assistant with calls.
Sequential ==
    \A id \in ToSet(AskedIDs) : \A p \in CallsAt(id), q \in ResultAt(id), r \in DOMAIN messages :
        p < r /\ r < q => messages[r].calls = <<>>

\* In a chat completions request the results of a message with calls come right
\* behind it and in the order the client gave them, also when it put a text
\* between them; unless calls of two messages are answered in turn, for which
\* the places of the results are counted wrong (completions/message.go:19-25).
ResultsBehindTheirCalls ==
    kind = "completions" /\ chat = "asking" /\ Sequential =>
        LET out == Requests!CompletionsMessages(messages)
            Results(id) == {p \in DOMAIN out : out[p].role = "tool" /\ out[p].id = id}
        IN  \A p \in DOMAIN out : \A id \in CallsOf(out[p]) :
                /\ \E q \in Results(id) : p < q /\ q <= p + Cardinality(CallsOf(out[p]))
                /\ \A other \in CallsOf(out[p]) : \A q \in ResultAt(id), r \in ResultAt(other) :
                      q < r => \A x \in Results(id), y \in Results(other) : x < y

\* In a request to the Messages API the results a client gave together are one
\* user message, of results only (anthropic/message.go:20-21, bamboo/message.go:160-175).
ResultsTogether ==
    kind = "anthropic" /\ chat = "asking" =>
        \A toBamboo \in BOOLEAN :
            LET sent == Requests!WireMessages(messages, toBamboo)
                IsResults(p) == sent[p].blocks[1].type = "tool_result"
            IN  /\ \A p \in DOMAIN sent : \A block \in ToSet(sent[p].blocks) :
                      block.type = "tool_result" <=> IsResults(p)
                /\ \A p \in DOMAIN sent : p > 1 /\ IsResults(p) => ~IsResults(p - 1)

CallParts(turn) ==
    FlattenSeq([p \in DOMAIN turn.parts |->
                   IF turn.parts[p].type = "call" THEN <<turn.parts[p]>> ELSE <<>>])

\* A request to Gemini ends with the user, and a turn of the model that calls is
\* followed by the results the client gave for its calls, in their order
\* (gemini/message.go:30-41, 62-66).
ModelTurnsClosed ==
    kind = "gemini" /\ chat = "asking" =>
        LET contents == Requests!GeminiContents(messages)
        IN  /\ contents # <<>> => Last(contents).role = "user"
            /\ \A p \in DOMAIN contents : CallParts(contents[p]) # <<>> =>
                  /\ p < Len(contents)
                  /\ LET calls == CallParts(contents[p])
                         responses == contents[p + 1].parts
                     IN  /\ Len(responses) = Len(calls)
                         /\ \A q \in DOMAIN calls :
                               /\ responses[q].type = "response" /\ responses[q].id = calls[q].id
                               /\ \E r \in ResultAt(calls[q].id) : responses[q].from = messages[r].from

Babble == told.source \in {"babbling", "babbled"}
Quiet == queue = <<>> /\ pending = <<>> /\ scanner.pending = <<>> /\ ~crashed /\ chat # "refused"
Written(out, type) == SelectSeq(out, LAMBDA w : w.type = type)
JoinedData(out) == FlattenSeq([p \in DOMAIN out |-> out[p].data])
ArgumentsOf(out, id) == SelectSeq(out, LAMBDA w : w.type = "arguments" /\ w.id = id)

\* Between two frames the chat completions client has been given all the text,
\* all the thinking and every call's arguments the upstream has sent, in order,
\* however a chunk mixes them and the body glues chunks together; but glued to
\* the last one of a body without a blank line at its end they are lost
\* (codec/openai/stream.go:178-255, sse_scanner.go:84-97, 155-177).
ContentKept ==
    Quiet /\ ~told.astray /\ ~Inline =>
        /\ \A what \in {"text", "thinking"} :
              JoinedData(Written(ser.openai.out, what)) = API!Given(fed, what, NoID)
        /\ kind # "gemini" =>
              \A id \in ToolIDs :
                  JoinedData(ArgumentsOf(ser.openai.out, id)) = API!Given(fed, "arguments", id)

\* A fragment of tool arguments is written under the number of its own call,
\* also when calls are fed in turn (codec/openai/stream.go:206-240).
FragmentsUnderTheirCall ==
    LET out == ser.openai.out IN
    ~told.astray /\ ~crashed =>
        \A p \in DOMAIN out : out[p].type = "arguments" =>
            \E q \in 1..p : /\ out[q].type = "call" /\ out[q].call = out[p].call
                            /\ out[q].id = out[p].id
                            /\ \A r \in (q + 1)..p : out[r].type = "call" => out[r].call # out[p].call

\* At most one text and one thinking block, all of them announced.
BlocksOf(k) == {p \in DOMAIN blocks : blocks[p].kind = k}
Plain ==
    /\ \A k \in ContentKinds : Cardinality(BlocksOf(k)) <= 1
    /\ BlocksOf("redacted_thinking") = {}
    /\ phase # "broken" /\ ~Babble

ResponseEnds == {"completed", "incomplete", "failed"}
At(out, ev, i) == {p \in DOMAIN out : out[p].ev = ev /\ out[p].item.at = i}

\* The items of a Responses reply: an output index is one item, added once before
\* it is fed and done once after; response.completed holds every item, and a call
\* has the arguments the upstream sent for it.  A reply with a second block of one
\* kind breaks this (codec/responses/stream.go:377-427, 575-592).
ResponsesItems ==
    LET out == ser.responses.out IN
    Plain =>
        /\ \A p \in DOMAIN out : out[p].ev \in {"delta", "done"} =>
              \E q \in 1..(p - 1) : q \in At(out, "added", out[p].item.at)
        /\ \A p \in DOMAIN out : out[p].ev = "delta" =>
              \A q \in 1..(p - 1) : q \notin At(out, "done", out[p].item.at)
        /\ \A p \in DOMAIN out : out[p].ev \in {"added", "done"} =>
              Cardinality(At(out, out[p].ev, out[p].item.at)) = 1
        /\ \A p \in DOMAIN out : out[p].ev \in {"completed", "incomplete"} =>
              {w.at : w \in ToSet(out[p].output)} = {out[q].item.at : q \in {r \in DOMAIN out : out[r].ev = "added"}}
        /\ Quiet /\ ~told.astray /\ kind # "gemini" =>
              \A p \in DOMAIN out : out[p].ev = "done" /\ out[p].item.kind = "tool_use" =>
                  out[p].item.data = API!Given(fed, "arguments", out[p].item.call)

\* In every format a reply ends once and nothing but its usage and [DONE] follows:
\* also when it fails, when it ends twice, or when the adapter reads on (where a
\* chat completions client may be sent more).
OneEnding ==
    LET responses == ser.responses.out
        openai == ser.openai.out
        gemini == ser.gemini.out
    IN  /\ \A p \in DOMAIN responses : responses[p].ev \in ResponseEnds => p = Len(responses)
        /\ \A p \in DOMAIN gemini : gemini[p].type \in {"finish", "error"} => p = Len(gemini)
        /\ ~Babble => \A p \in DOMAIN openai : openai[p].type = "finish" =>
               \A q \in (p + 1)..Len(openai) : openai[q].type \in {"usage", "[DONE]"}
        /\ chat = "over" /\ started /\ ~crashed =>
               /\ \E p \in DOMAIN responses : responses[p].ev \in ResponseEnds
               /\ \E p \in DOMAIN openai : openai[p].type = "finish"
               /\ ser.gemini.errors = 0 =>
                      \E p \in DOMAIN gemini : gemini[p].type \in {"finish", "error"}

\* A reply whose error was reported is not told to be complete, although the
\* converter ends every failed reply as if it were (convert.go:1089-1101,
\* relay.go:255-259).
FailedNotCompleted ==
    tally.errors > 0 =>
        /\ \A p \in DOMAIN ser.responses.out :
              ser.responses.out[p].ev \notin {"completed", "incomplete"}
        /\ \A p \in DOMAIN ser.gemini.out : ser.gemini.out[p].type # "finish"

\* A Gemini client gets a call once, whole, in the order the calls were declared,
\* and a finish reason only with all of them (codec/gemini/stream.go:199-284).
GeminiCallsWhole ==
    LET written == Written(ser.gemini.out, "call")
        declared == SelectSeq(blocks, LAMBDA b : b.kind = "tool_use")
    IN  /\ Len(written) <= Len(declared)
        /\ \A p \in DOMAIN written :
              written[p].id = declared[p].tool /\ written[p].data \in {<<>>, <<"whole">>, <<"half", "half">>}
        /\ Written(ser.gemini.out, "finish") # <<>> => Len(written) = Len(declared)

\* OnUsage is called with the usage the upstream reported, wherever in the reply
\* it was, and with an estimate only when there was none (relay.go:199-220).
TellsUsage(f) ==
    IF f.type = "message_delta" THEN f.usage = "inside" ELSE "usage" \in DOMAIN f /\ f.usage
UsageReported ==
    chat = "over" /\ scanner.pending = <<>> /\ ~crashed =>
        /\ tally.usage > 0 <=> \E p \in DOMAIN fed : TellsUsage(fed[p])
        /\ tally.estimated <=> tally.usage = 0

\* Whenever Stats is asked, no stage has a negative time or one that is not over
\* by the end of the reply, and no two stages overlap; provided thinking, text and
\* calls begin one after the other and not after Stop, else a stage may end before it
\* began (timing.go:397-478).
StagesMeasured ==
    LET stages == Timing!Stages(timing)
        Ordered == /\ \A p, q \in DOMAIN stages : p < q => stages[p].from < stages[q].from
                   /\ \A p \in DOMAIN stages : stages[p].from <= Timing!End(timing)
    IN  timing.lastEvent # Timing!Never /\ Ordered =>
            /\ Timing!Begin(timing) <= Timing!End(timing)
            /\ \A p \in DOMAIN stages :
                  /\ timing.firstByte <= stages[p].from
                  /\ stages[p].from <= stages[p].to /\ stages[p].to <= Timing!End(timing)
            /\ \A p, q \in DOMAIN stages : p < q => stages[p].to <= stages[q].from

\* Before a closing tag, a tail that may begin a tag.
Dangling(raw) ==
    \E p \in DOMAIN raw, n \in 1..3 :
        /\ p > n /\ p + 2 <= Len(raw) /\ SubSeq(raw, p, p + 2) = Completions!CloseTag
        /\ \E tag \in Completions!Tags : IsPrefix(SubSeq(raw, p - n, p - 1), tag)

\* Think tags are stripped from a stream as from a reply that is not streamed,
\* however the chunks cut it (think_tag.go:47-228), except for a "<" right before
\* the end of the thinking, which the stripper leaks into the text.
StrippedAsWhole ==
    LET raw == API!Given(fed, "text", NoID)
        whole == Completions!StripThinkTags(raw)
    IN  Inline /\ chat = "over" /\ told.source = "done" /\ ~Dangling(raw) =>
            /\ JoinedData(Written(ser.openai.out, "text")) = whole.text
            /\ JoinedData(Written(ser.openai.out, "thinking")) = whole.thinking

HopEvents(type, k) == SelectSeq(ser.hop.out, LAMBDA e : e.type = type /\ e.kind = k)
HopPieces(events) == FlattenSeq([p \in DOMAIN events |-> events[p].piece])

\* A reply written by the Anthropic codec and read by the Anthropic adapter of a
\* second gateway is the same reply: its content, its calls, each fragment after
\* the block it belongs to, and its reason (codec/anthropic/stream.go,
\* provider/anthropic/stream.go).
HopKeepsReply ==
    LET toolBlocks == HopEvents("block", "tool_use")
        tools == SelectSeq(blocks, LAMBDA b : b.kind = "tool_use")
    IN  pending = <<>> /\ phase # "broken" /\ ~Babble /\ ~told.astray =>
            /\ \A what \in ContentKinds :
                  HopPieces(HopEvents("content", what)) = JoinedData(Written(ser.openai.out, what))
            /\ [p \in DOMAIN toolBlocks |-> toolBlocks[p].id] = [p \in DOMAIN tools |-> tools[p].tool]
            /\ reason # "none" =>
                  \A e \in ToSet(HopEvents("stop", "length")) : reason = "max_tokens"
            /\ phase = "ended" /\ reason # "end_turn" =>
                  HopEvents("stop", IF reason = "tool_use" THEN "tool_calls" ELSE "length") # <<>>

\* The usage of a reply reaches a second gateway as well.
HopKeepsUsage ==
    chat = "over" /\ phase = "ended" /\ tally.usage > 0 =>
        Written(ser.hop.out, "usage") # <<>>
==============================================================================
