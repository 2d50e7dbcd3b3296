# Formal models of bamboo-messages

bamboo-messages is a Go library that lets one program talk to five kinds of AI
upstreams (Anthropic Messages, OpenAI chat completions, OpenAI Responses, Gemini
and another bamboo gateway) through one API, and that can relay requests of those
formats to any of the upstreams. This directory holds TLA+ models of the parts of
it in which the order of things matters, TLC configurations that check the models
on small instances, and theorems about them that TLAPS checks for every value of
the constants.

Paths are relative to the root of the repository. Line numbers are those of the
commit the models were written from; `PROJECT.json` maps every definition to its
lines.

## 1. The system

A request passes through these parts, and its streamed reply comes back the same
way:

    relay (HTTP)  --codec.ParseRequest-->  client.Chat  --messages-->  provider adapter --HTTP/WS--> upstream
    relay (WS)    <--codec.Serialize----   StreamConverter <--channel--  SSE scanner  <-------------

| part | state it keeps | operations | how it interacts |
|---|---|---|---|
| **Stream converter** (`bamboo/convert.go:508-1122`) | started/stopped flags, block indexes, open tool blocks, maps from tool ids and indexes to blocks, the reason on record, the indexes already stopped | `Convert`: one handler per provider event | called by `client.Chat` with one event at a time, returns a batch of client events |
| **Streaming client** (`bamboo/bamboo.go:64-185`) | two bounded channels (64), a ticker, the context | peek, convert and forward, ping, cancel, recover from a panic | reads the channel of an adapter's goroutine, writes the channel of the caller |
| **Provider adapters** (`provider/*/chat.go`, `stream.go`) | finish reason, which blocks they started, think-tag buffer | read SSE frames or WS messages, send events | goroutine per call, closes the channel after draining the response body |
| **Responses WebSocket server** (`bamboo/relay/websocket.go`) | queue and worker per `stream_id`, the session store, a connection context | read a frame, dispatch, answer, store a snapshot, shut down | workers call `client.Chat`, share the store and one `ws.Conn` |
| **WebSocket connection** (`pkg/ws/ws.go`) | write lock, closed flag, fragment buffer | read and write messages, ping/pong, close handshake | used by the server and by the Responses WS adapter |
| **Responses WS adapter** (`provider/openai/responses/websocket.go`) | one connection per call, guard goroutine | dial, write the request, read events | as the other adapters |
| **HTTP relay** (`bamboo/relay/relay.go`) | usage seen so far, whether the head was written | `Relay`, `RelayStream` | one serializer per reply over the client's channel |
| **Codecs** (`bamboo/codec/*`) | serializers keep open items, sequence numbers | `Serialize`, `Flush` | fed with client events |
| **Message conversion** (`bamboo/convert.go:29-321`) | none | history to provider messages, pairing of tool calls and results | before every call |
| **SSE scanner** (`provider/sse_scanner.go`) | line buffer, frame buffer, queue of values | `Next` | read by an adapter |
| **Timing collector** (`provider/timing.go`) | time stamps | `Observe` | wraps a provider's channel |

Options, errors, interceptors and debug output are values or wrappers without
behaviour of their own.

### What is hard about it

* *Five dialects, one state machine.* Adapters feed the converter with blocks that
  are framed and numbered by the upstream, framed without numbers, or implied by
  their deltas; tool calls are told apart by index, by id or only by recency;
  finish reasons come once, twice or never, before or after the tool calls; errors
  come before the start, in the middle, and three adapters read on after one.
* *Two goroutines and two bounded channels* between upstream and caller, a context
  that may be cancelled between any two steps, a caller that may stop reading, an
  upstream that may keep its connection open.
* *A multiplexing server* whose workers share a store of snapshots: what a
  conversation is continued with depends on what other workers have already stored.
* *Endings.* Every way a reply can end (done, degraded, failed, cancelled, panic,
  disconnect) has its own path through the code.

### What makes the parts correct

* Converter: a strict client can make sense of every event; every block is fed and
  stopped once and only while it is open; the stop reason is the one an agent loop
  needs; no write to a map that is nil; a started reply is ended.
* Client: no event is lost under back pressure, no cancelled reply looks complete,
  the channel is closed when the context or the upstream ends, no goroutine stays.
* Adapters: they keep to the styles that `ConverterStream` supposes; all text,
  thinking and arguments of the upstream are passed on, once and in order.
* WebSocket call: nothing is written after a close frame, messages are read whole, a
  call that is cancelled or whose upstream leaves comes to its end.
* Server: answers keep the order of their stream, a continuation is shown the
  conversation it continues and no other, only what was answered is stored, every frame
  is answered, the call ends with all its workers.
* Relay and codecs: one end per downstream reply and not a good one after an error,
  every item added, fed and done once, every fragment under its own call, the usage
  reported or else estimated, and a second gateway reads the same reply.
* Tool pairing: what is sent upstream has a result for every call and a call for
  every result, in the order each upstream demands.
* SSE scanner: every value of the body is handed out once, in order.
* Timing collector: stages that are not negative and do not overlap.

`PROJECT.json` lists under `hazards` where in the code each of these can go wrong.

## 2. The modules

| module | stands for | state and actions |
|---|---|---|
| `BlockProtocol` | what a reader of one reply is promised (README.md:89, `bamboo/stream.go`) | abstract: `phase`, `blocks`, `open`, `reason`; one action per event that matters |
| `StreamConverter` | `bamboo.StreamConverter` | one variable per field, one action per handler; `pending` is the batch a call of `Convert` returned |
| `StreamClient` | a strict reader (external) | the reader's view; turns `"broken"` at the first event it can make no sense of |
| `ConverterStream` | converter + provider of any style + strict reader | `Provider*`, `Frame*`, `Implicit*` are what adapters send; `Emit` forwards one event |
| `ChatStream` | `client.Chat` with an adapter's goroutine and a caller | program counters of both goroutines, both channels, context, upstream |
| `ResponsesServer` | `ServeResponsesWebSocketConn` | reader, queues, workers, store, contexts; the client and the upstream are external |
| `ProviderEvents`, `ClientEvents` | the events between adapter and converter, converter and serializer | constructors; no state |
| `SSEScanner` | `provider/sse_scanner.go` | operators on `pending` frames and the terminal state |
| `ThinkTag` | `think_tag.go` | the stripper, character by character, and the stripping of a whole text |
| `CompletionsAdapter`, `ResponsesAdapter`, `GeminiAdapter`, `AnthropicAdapter`, `BambooAdapter` | the frame loops of `provider/*/chat.go` and the handlers of `stream.go`, Responses over both transports | what an adapter keeps between two frames -> the same, the events it sends, and whether it reads on |
| `Upstream`, `Conversation` | the model APIs and the client (external) | the frames that may come next, the messages that may come next |
| `ToolPairing` | `messagesToProvider`, `sanitizeToolMessages` | operators on sequences |
| `ProviderRequests` | `buildMessages` and `buildInput` of the adapters | operators on sequences: what each API is sent |
| `OpenAISerializer`, `ResponsesSerializer`, `GeminiSerializer`, `AnthropicSerializer` | the stream serializers of `bamboo/codec` | a serializer's fields and what it wrote |
| `TimingCollector` | `provider/timing.go` | marks, and the stages `Stats` makes of them |
| `RelayStream` | one request and its reply through all of the above, with `RelayStream` of `relay.go` | see below |
| `WsConn` | a client connection of `pkg/ws` | lock, closed flag, socket, fragments; one operator per step of `Dial`, `writeFrame`, `Close`, `ReadMessage` |
| `WebSocketCall` | `chatViaWebSocket`, its guard and `completeViaWebSocket` on a `WsConn` | the places of both goroutines, the event channel, an upstream |
| `StreamConverterProofs` | - | lemmas about the converter and a strict reader, wherever they run: types, what a batch tells a reader, what each handler's batch says |
| `ConverterStreamProofs`, `ChatStreamProofs`, `WebSocketCallProofs`, `ResponsesServerProofs` | - | theorems about the module each is named after |
| `RelayAdapterProofs` | - | theorems about tool pairing and the requests made of it; lemmas about the adapters behind `RelayStream`: what the answer to a frame and what the end of a body consists of |
| `RelayEventProofs` | - | lemmas about one event on its way: what the converter makes of it, what each serializer writes for it; the theorem about requests to Gemini |
| `RelayStreamProofs` | - | the invariant of `RelayStream`, one lemma per action, and its theorems |
| `MC*` | - | instances for TLC |

`ConverterStream`, `ChatStream` and `RelayStream` extend `StreamConverter` and
`StreamClient`: the converter is one definition, checked against every order of
events (`ConverterStream`, the forwarding reduced to its loop), inside the goroutines
(`ChatStream`, the order of events reduced to what the goroutines can tell apart) and
behind real adapters (`RelayStream`, in which a frame is read when the events of the
one before have been passed on). `AdaptersKeepStyle` is the link: `RelayStream`
implements `ConverterStream!Spec`, so what is checked and proved of the latter holds
behind each adapter. `ResponsesServer` does not contain the two: it uses of them what
the runs `chat` and `converter` show, that a started reply ends unless the context is
done, and that it may then end anywhere without an error event.

`RelayStream`, the composition:

    Ask* -> Call -> [ Read | ReadPending | EndOfBody | Refuse -> (Peek) -> (Convert -> Emit*)* ]* -> Finish

`Ask` builds the conversation, `Call` sends it; the properties of requests are those
of the states before. `Read` takes an event of the body through the scanner and the
adapter (`queue`), `Convert` one adapter event through the converter (`pending`), and
`Emit` one client event through the serializers. The reply of an upstream does not
depend on the format the client asked for, so one behaviour feeds the serializers of
all formats, and a second Anthropic adapter (`ser.hop`) that reads what the Anthropic
serializer writes. A caller may as well read the adapter's channel itself with a
`TimingCollector`; it is shown the same events.

How the state corresponds to the code:

* `content["text"] = NoBlock` is `textBlockStarted == false`, otherwise the value is
  `textBlockIndex` (`thinking` and `currentTool` alike): the code reads an index only
  while its flag is on, so flag and index are one variable. `openTools` is the slice
  `openToolBlockIndexes` as a set: indexes only grow, so the set determines the slice.
  `toolMaps` tells whether the two tool maps are non-nil. `stopped` is
  `stoppedBlockIndexes`. A write to a nil map is `Panic`.
* Events carry the type, the index, the kind of block or the stop reason, and the id
  of the tool call they are about; texts, signatures, usage and time stamps are left
  out, since no step depends on them.
* `ConverterStream!source` follows the adapter: `silent` before its `Start`, `live`,
  `failed` after an error it does not read on after, `done`, and `babbling` when it
  reads on after an error (`provider/anthropic`, `/bamboo`, `/openai/responses`).
* In `ChatStream` the writer's two decisions, the check of `ctx.Err()` and the
  `select` on the channel and `ctx.Done()`, are two steps (`WriteCheck`; `Write` or
  `WriteAborted`), because a cancellation may come between them.
* An adapter is a record `a` of the flags of its loop (finish reason, which blocks
  were started, the stripper's buffer, gemini's used ids). A handler is an operator
  that returns the record, the events and whether the loop goes on, ends, or returns.
* A piece of text is the number of the frame that brought it, arguments are one
  "whole" or two "half"s of an object: enough to see a piece lost, doubled, moved or
  given to another call. Only think tags are spelled out, with three symbols for the
  seven and eight characters of the tags, which share their first one as the tags do.
* In `WebSocketCall` a goroutine has a place; taking `writeMu`, writing and closing are
  steps of their own, since another goroutine, a cancellation or the upstream may come
  between. `socket` is what the kernel has taken and the peer has not read: when it is
  full a writer waits with the lock held.
  `Dial` is three places: it connects, it waits for the answer to the upgrade, and of a
  refusal it reads the body ("refused"), with the deadline already cleared and no guard
  yet (`ws.go:155-169`). The answer of the upstream is one of four: accepted, a wrong
  key, refused, or refused with a body that does not end.
* In `ResponsesServer` a message is the number of the frame that brought it or whose
  reply it is, with the blocks it has, so `history`, `store` and `heard` say which turns
  a model is shown and what of them. `reply` is what the upstream sends: each event may
  open blocks, "redacted" thinking or others ("text"). What is kept of it is a copy that
  the collector makes (`websocket.go:326-422`): `Observed` is what `observe` has a case
  for, and `Told` is the message of that, or none at all when there is nothing in it.
  `Written` drops what is written for a client that left; a client that is there is
  assumed to read (below, Fairness). A worker's parsing, loading of the history and its
  call of `client.Chat` are separate steps, as are the last event of a reply, the close
  of its channel and the `Save`.

## 3. The runs

Passing runs:

| run | question | bounds | size |
|---|---|---|---|
| `converter` | Is every output of the converter a behaviour of `BlockProtocol`, whatever providers of the three styles send? | 2 tool ids, 2 tool indexes, 3 blocks | 0.84 M states |
| `chat` | Do the goroutines lose, invent or withhold anything? | channels of 2, 3 provider events and what the adapter makes up, 1 ping | 0.12 M |
| `server` | Are conversations kept apart and in order, and is only what was answered stored? | 2 streams, 3 turns, queues of 2; each event of a reply opens redacted thinking, alone or with another block | 1.9 M |
| `server_progress` | Does every frame get its answer, does the call end? | 2 streams, 2 frames of every kind, queues of 1, both kinds of upstream | 0.15 M |
| `relay` | Does a conversation reach each upstream as its API demands it, and the reply the client of each format? | 9 kinds of upstream, 2 calls in a reply; requests of up to 3 messages with 3 ids (to completions, gemini, anthropic); replies of up to 7 frames, by kind (below) | 0.74 M |
| `ws` | Do goroutine, guard and caller of a WebSocket call end, and write nothing after a close? | socket of 1 frame, channel of 2 events, 3 frames from the upstream | 0.21 M |

What the properties of `relay` and `ws` say, and what they leave out (a property's
comment names its lines; the exceptions are defects or limits of the code):

* *Requests.* `PairsKept`: every call has one result behind it, every result its call,
  and what the client answered is kept. `ResultsBehindTheirCalls`: in a chat
  completions request they follow at once and in the client's order; except when calls
  of two messages are answered in turn, where `toolCountByAnchor`
  (`completions/message.go:128-138`) counts from positions that earlier insertions have
  moved. `ResultsTogether`: for the Messages API one user message of results only.
  `ModelTurnsClosed`: a model turn with calls is followed by their results, and the
  request ends with the user. (A user turn may still follow a turn of results, which
  the comment at `gemini/message.go:61` rules out, and a conversation of one empty
  assistant gives an empty request.)
* *Adapter and converter.* `AdaptersKeepStyle` (a refinement), `BrokenOnlyAtEnd`: a
  block whose start is dropped and whose stop is forwarded breaks nothing before the
  end of the message, unless fragments of it go astray. `StrippedAsWhole`: a stream
  with think tags gives what the whole text would, except for a tail of the thinking
  that may begin a tag (`think_tag.go:92-96`).
* *What the client gets.* `ContentKept`: all text, thinking and arguments, in order;
  except frames that are glued to the last one of a body without a blank line at its
  end (`sse_scanner.go:155-177`), and a [DONE] glued to a frame is no [DONE].
  `FragmentsUnderTheirCall`, `GeminiCallsWhole`, and `ResponsesItems` (for replies with
  one text and one thinking block: a second one re-uses the first one's item,
  `codec/responses/stream.go:377-427`, 575-592). `OneEnding`, `FailedNotCompleted`: a
  failed reply gets no good ending in the Responses and Gemini formats (those of
  OpenAI and Anthropic get the error and then the end that the converter makes).
* *What is told about it.* `UsageReported`: the callback gets what the adapter found,
  an estimate only when that was nothing. `StagesMeasured`: except when text follows a
  call, thinking follows text, or text is flushed after Stop, which make a stage of
  negative length (`timing.go:428-463`). `HopKeepsReply`: a second gateway reads the
  same content, calls and reason.
* *Server.* `ContinuesTurn`: what a turn that continues another shows a stateless model is
  what that one showed it, of its reply what the collector observed, and the new
  message. Redacted thinking is not in it, and a reply of nothing else, or of no block,
  is no message (`websocket.go:355-366`, 406-418), which is less than what
  `websocket.go:24` promises (section 5).
  `StoredIsAnswered` says of the collected reply that it is whole unless the context of
  the connection ended.
* *WebSocket.* `NothingAfterClose`, `MessagesWhole` (what is returned is whole, and the part
  that is read next is not refused), and two of liveness: `CancelEnds`,
  except for a call that stays stuck because the upstream does not answer an upgrade
  without a deadline (`ws.go:145-158`: the context is not looked at), refuses one and
  does not end the body of its answer, deadline or not (`ws.go:159-164`), or does not
  read while a writer holds the lock that `Close` waits for (`ws.go:306-318`);
  `LeavingEnds`. The first two are the run `dial_cancelled`.
  Its result may still be "ok": a read that fails in the middle of a reply ends it as if
  it were whole (`responses/websocket.go:175-194`), which the model shows and no document
  denies.

Runs that end in a counterexample, each against a sentence of the repository:

| run | what it shows |
|---|---|
| `dropped_block` | A content block the adapter has no case for (`provider/anthropic/stream.go:116-117`) sends nothing but its stop, which marks the index of the *next* block as stopped: that block never gets its `content_block_stop`. |
| `held_body` | After `message_stop` the caller's channel stays open until the upstream closes its response body: the adapter's deferred drain runs before the deferred close of its channel. |
| `fork_race` | A client that has seen `response.completed` can continue it on another stream and be told `previous_response_not_found`: the snapshot is saved after the reply's channel was closed. |
| `warmup_replaced` | Two warm-ups with histories of equal length get the same id; the second replaces the first one's snapshot. |
| `hop_usage` | The Anthropic codec writes the final usage of a reply beside the delta of `message_delta`, like the Messages API; the Anthropic adapter looks for it inside (`provider/anthropic/stream.go:199`), so a second gateway finds none. |
| `dial_cancelled` | An upstream that refuses the upgrade and keeps the body of its answer open holds `Dial`: the deadline is cleared before the body is read and no guard exists yet, so cancelling does not end the call. |

`PROJECT.json` quotes the sentences under `findings`.

### Why the bounds are enough

* Three blocks are one open, one that pushes it out and one after a stop: each pair
  of kinds occurs in each order, between two tool calls too. Two tool calls with two
  indexes are what a wrong attribution needs. There is no bound on the number of
  usage, metadata, finish-reason and fragment events, nor on repeated deltas.
* A channel of two is full, half full and empty with a batch of up to five events
  (an error that closes an open tool block) on its way, so every write of a batch
  meets a full channel in some behaviour. The code's 64 only makes this rarer.
* Three frames on two streams are the least with which a stream has a queue while
  another one runs, and with which a continuation of a continuation exists. Queues of
  one and two frames make the reader wait; the code's 32 makes it rarer. The two
  events of a reply make one with redacted thinking only, or with more; one with no block
  at all is collected like the former. `server` has turns only;
  warm-ups, malformed and unsupported frames are in `server_progress`, warm-ups in
  `warmup_replaced` too, and the theorems about the invariants of `server` are for all
  kinds of frames.
* `relay`: two calls are what a wrong attribution needs, three ids and three messages
  what a misplaced result needs (two messages with calls and one with results, or a
  declaration, an early and a late result). Replies have up to 4 frames from
  completions, responses and inline upstreams, 3 from unnumbered, websocket and glued
  ones (a glued event holds two frames), 7 from anthropic (start, two blocks and an
  end), 5 from bamboo and 2 from gemini (whose frames hold two parts): enough for two
  interleaved calls, for text, thinking and a call in any order, for an error or the
  end of the body after any frame, and for every path through the stripper's states.
  The mutants fail within these bounds.
* `ws`: a socket of one frame is full after every write, three frames are a fragment,
  a control frame and the rest.

### Fairness

* `ConverterStream`: weak fairness of `Emit`, the loop of `writeAll`
  (`bamboo/bamboo.go:140-147`). Nothing is assumed of the provider.
* `ChatStream`: weak fairness of the pump's steps, and of the adapter's return when
  its upstream ended or its context is done: goroutines that can run are scheduled,
  every send of an adapter is a `select` with `ctx.Done()`, and `io.Copy` on the body
  of a request ends with the body or the request's context. The upstream, the ticker
  and the canceller owe nothing. The caller's reading is fair only where a property
  says so: the run uses `LazySpec`, a caller that may stop; `UpstreamEndEndsStream`
  assumes a reading caller in its own antecedent.
* `ResponsesServer`: weak fairness of the reader and of each worker's own steps; a
  turn whose context is done ends, which is `CancelEnds` of `ChatStream`. That
  upstreams bring their replies to an end is only the antecedent `UpstreamEnds` of
  the two properties that need it. One assumption about the client is in the model
  itself: while it is there it reads what is written to it, so that a write of the
  server ends. The code gives such a write no deadline and holds `writeMu` meanwhile
  (`ws.go:371-421`), so behind a client that stays and does not read every worker may
  wait, and `EveryFrameAnswered`, `ExitReturns` and `DisconnectReturns` do not speak of
  such a client.
* `WebSocketCall`: weak fairness of `Main`, `Guard` and `Consume`: goroutines that can
  run are scheduled, and the caller reads its channel to the end. Nothing is assumed of
  the upstream, the canceller or the deadline's owner.

Deadlock is not checked: the models may stop for good, when the reply is over, the
client says no more, or the bounds are used up. That they do not stop too early is
what the liveness properties say.

## 4. The theorems

`ConverterStreamProofs` proves, for every set of tool ids and indexes and every bound
on blocks, from the named assumptions `ConverterAssumption` (the id of a nameless
call is not an id, indexes are natural numbers), `NoToolAssumption` (the mark of a
block without a tool is not an id either) and `StreamAssumption`:

* `TypeInvariant`, `TypeCorrect`: types. The inductive invariant is `TypeOK` with
  the finiteness of `openTools`, which `handleStop` needs to enumerate it.
* `NeverPanics`: `NoPanic`. It is not inductive: whether a handler panics depends on
  the tool maps. `LiveInv` adds that they exist while the provider is live (made by
  `handleStart`, dropped only by `handleStop`, which ends being live), and that an
  adapter that reads on after an error finds them dropped.
* `StopReasonIsAlwaysSound`: `StopReasonSound`. The reason is announced long after
  what decides it, so `ReasonInv` follows it on its way: `RecordInv` (the reason on
  record is the one called for by the tool calls among the client's blocks, those
  still in the batch, and the provider's reports), `OverInv` (the message is not
  ended twice), `FinalInv` (a final event in the batch carries that reason, and no
  tool call comes after it) and `SilentInv` (nothing before the start). Three lemmas
  carry it: what is recorded only ever gets stronger, a batch without tool starts
  and final events changes nothing, and an event that is handed over takes what it
  says from the batch to the client.
* `ClientIsNeverBroken`: `ClientNeverBroken`, and from its invariant
  `StreamFollowsProtocol`: `FollowsProtocol`, the refinement of `BlockProtocol`, and
  `EveryBlockIsStopped`: `EveryBlockStopped`. `ClientNeverBroken` speaks of what was
  handed over, the converter's fields of what it returned; in between lies a batch of
  which any part may be handed over. `Reads(q, v, w)` says that a reader with the view
  `v` accepts every event of the batch `q` and has the view `w` after it; it can be
  put together from parts and loses its first event when that is handed over
  (`StreamConverterProofs`). The inductive invariant `ClientInv` is then that the
  client reads the batch to *some* view `w` that `Future` describes: nothing yet, the
  end, or a view that the converter's fields mirror (`Mirrors`: the open indexes
  are the flags' and `openTools`, `nextIndex` counts the blocks), that the tool maps
  point into (`SlotInv`) and that the provider's own frames agree with (`FrameInv`).
  One lemma per handler says which view its batch leads to. `OpenInv` and `EndInv` add
  what the refinement and the stops need.

  The three have the hypothesis `Dropped = {}`: the adapter forwards the start of
  every block it forwards the stop of. It cannot be left out of `EveryBlockIsStopped`:
  the run `dropped_block` is the counterexample. The runs `converter` and `chat` check
  the same instance; the adapters for which it does not hold are those of
  `BrokenOnlyAtEnd`.

`ChatStreamProofs` proves every invariant of the run `chat`, for every capacity of the
two channels and any number of events and pings, from `ChatAssumption` and those of the
converter, without a hypothesis:

* `CallerIsNeverBroken` (`ClientNeverBroken`), `StreamIsWhole` (`StartedIsWhole`),
  `CancelledIsNotCompleted` (`CancelledNotCompleted`). Each follows an event on its way
  through the goroutines: the provider's channel, the pump's hands, the batch, the
  event whose write was decided on, the caller's channel, the caller.
* `PumpInv` says what is true at each place of the pump, `ChannelInv` what the
  provider's channel may hold: its start comes first and once (`BeginInv`), it has not
  been overtaken by its stop (`SendingInv`, `ContentInv`), and only a failed adapter
  goes on afterwards (`ChatterInv`). A panic of the converter is possible only then.
* `QueueInv` is the converter's invariant with more in between: the caller reads what is
  in its channel, then the event being written, then the rest of the batch, to a view
  that the converter mirrors. A cancellation cuts this sequence off behind the event
  being written; the rest of it is still in order. `EndInv` says where the one
  `message_stop` is, and that there is none once a reply was cancelled early.

`WebSocketCallProofs` proves, for every size of the socket and the channel and any
number of frames:

* `NothingAfterCloseHolds`: `NothingAfterClose`. The inductive invariant is `TypeInv`,
  `LockInv` (the holder of `writeMu` is at a place where it writes, the guard exists
  only after the handshake, an accepted one) and `CloseInv`. The last is the point of it: a close frame
  is on the wire only if the connection is marked closed *or* the reader has answered a
  close frame and is on its way to `Close` (`ReadMessage` writes that answer without
  setting `closed`, `ws.go:267-270`), and whoever holds the lock to write anything
  else took it while neither was the case.
* `WritersExclude`: reader and guard never are in the middle of a frame both.
* `MessagesWholeHolds`: `MessagesWhole`. What the peer will have said when it goes on is
  its frames; what was read is messages. `Spelled` relates the two: the fragments in
  hand, then the frames on the wire, spell the messages still to come, and a message
  that is begun is finished before the next one. `HeardInv` keeps that for
  every place of the reader, since a ping or a pong is answered in the middle of a
  message, under a lock that the guard may hold.

`RelayAdapterProofs` proves of every conversation, of any length, with any ids:

* `KeptCallIsAnswered`, `AnswerHasItsCall`: a kept call has exactly one kept result,
  behind it, and a kept result exactly one kept call, before it. The argument is that an
  id is declared in one place (`DeclaredOnce`: of two the earlier would contradict the
  later) and answered in one.
* `AnsweredCallIsKept`: a declared call that is answered later is kept; the first of its
  results exists because places are well-ordered.
* `PairsAreKept` (`PairsKept`), `ResultsAreTogether` (`ResultsTogether`) and
  `ModelTurnsAreClosed` (`ModelTurnsClosed`, in `RelayEventProofs`) say what becomes of
  that in the requests to the Responses API, the Messages API and Gemini. The invariant
  behind them is `RequestInv`: while a request is built its turns are such as a client
  speaks (`Spoken`) and the messages are what `MessagesToProvider` makes of them. The
  rest is about sequences and no induction is available, so two notions stand for it.
  `Placed` says of a joined sequence from which part and which place in it each element
  comes, in order and with none left out; it turns splitting, filtering by ids and
  `buildInput` into statements about places (`ConvertedConveys`, `SanitizeIs`,
  `InputPlaces`), and an id of the client is followed through them: two places, call
  before result, or none (`Paired`, `Unpaired`). What is folded (the user messages of
  the Messages API, the turns of Gemini) is followed by what every value of the fold
  has, or else there were a least length at which it has not (`FoldKeeps`). The
  assumption `RelayAssumption` says that the client's ids are not empty.

`RelayStreamProofs` proves, for each kind of upstream, a reply of any number of frames
in any order that breaks off anywhere, any set of ids and any bounds:

* `OneEndingHolds` (`OneEnding`) and `FailedIsNotCompleted` (`FailedNotCompleted`). How a
  reply ends is decided by five parts one after the other, each with an own idea of it:
  the adapter (error, Stop, Done), the converter (which ends a failed message as if it
  were a good one), and three serializers with their flags. The inductive invariant
  `IInv`, which TLC checked on the instance of `relay` before it was proved, says what
  each may still say:
  `QueueInv`: the adapter's start is sent once and before all but an error, Done is the
  last event and sent once, and an adapter that does not read on after an error says
  nothing more but Stop and Done. `EventsInv`: the converter is stopped if and only if
  the final event is written or among the pending ones; without a failure that means
  that the adapter is done; an error is the first of a batch and `message_stop` its
  last. `OutputInv`: each serializer ended once and knows it; with the final event all
  are at an end; one that told of completion was given no error.
  None of it is inductive without the rest: that a serializer writes no second end needs
  the converter to make none, that needs the adapter's order, and that a failed reply
  is not completed needs the error to come *before* the end it is followed by.
* `StagesAreMeasured` (`StagesMeasured`). `Marked` says of a collector which marks are
  set when: a stage that began before another one was over when that began. It holds
  after any event in any order (`ObservedMarked`); `TimeInv` adds that the clock does
  not go back, whatever the scanner keeps of a frame.
* `UsageIsReported` (`UsageReported`): a reply is charged by an estimate if and only if
  the upstream did not report its usage. `UsageInv` follows the report: a frame that was
  read and tells the usage has its event in the queue, or it was converted last and its
  ping is pending, or it is counted; a frame that the scanner keeps is not yet looked
  at, and one that it lost with the end of the body is why the property speaks of
  replies without such. For each adapter there is a lemma that the answer to a frame has
  a usage event exactly when the frame tells a usage, which for the Messages API is
  looked for inside the delta (`anthropic/chat.go`).
* Five adapters enter it by two facts, `FrameResult` (an answer is a start at most at its
  head, an error at most at its end) and `EndResult`; the converter by `Dispatched`; the
  serializers by one lemma each. Frames, events and chunks are followed by their
  type (`Made`); what is in them does not decide how a reply ends.
* The adapters take frames apart with folds (the parts of a candidate, the characters of
  a chunk). That a step's invariant is the fold's is shown by the least length at which
  it would not be (`FoldKeeps`), since the induction theorems cannot be used.

The proof found nothing wrong with the code; it needed the exceptions the property
already has: behind an adapter that reads on after an error a chat completions client may
be sent more after the end (`Babble`), and a Gemini serializer that finds a call that is
not whole returns an error and writes no end.

`ResponsesServerProofs` proves every invariant of the run `server`, for any set of streams,
any number of frames, any replies, every capacity of a queue and both kinds of upstream,
from `ServerAssumption`:

* `TypeCorrect`: `TypeOK`. It needs `TakenOK`, that what is queued or worked at was
  taken: otherwise the frame of a job need not exist.
* `AnswersInOrder`: `InOrder`. `OrderInv` puts the frames of a stream in one line, those
  answered before the one worked at (`Behind`), that one before the queue, the queue in
  order and before what the reader holds. What the reader answers itself stands outside
  of the line (`Answerable`), which is why `InOrder` speaks of the others only.
* `OwnResponseIsFound`: `OwnResponseFound`. `CompletedStored` is the point: as long as
  the client is there, a response it was told to be complete is stored, or its worker
  still has it in hand, and then it takes no other frame of that stream (`Owned`).
  On another stream nothing of the kind holds: that is the run `fork_race`.
* `StoredIsReallyAnswered`: `StoredIsAnswered`, for replies with any blocks. A frame whose turn is stored is behind
  every job and queue (`Past`), so nothing is added to its answers later.
* `TurnsContinue`: `ContinuesTurn`. Along `Prepare`, `CallStarts`, `SaveTurn` and the
  client's next frame, the history of a worker, what the model was shown and what is
  stored are one sequence (`CallHistory`, `TurnHistory`, `StoredTurns`), in which a reply
  is what the collector observed of it (`Told`); `Past` makes sure that what is continued
  does not change any more, its reply included (`ToldStays`). It holds for any replies;
  with all of a reply in place of `Told` it would be false.

Only model-checked are

* everything about liveness (`StartedIsEnded`, the progress of the goroutines, of the
  server and of a WebSocket call), which the prover has no means for;
* of `RelayStream` what compares the joined pieces of a whole reply (`ContentKept`,
  `StrippedAsWhole`, `HopKeepsReply`, `ResponsesItems`, `GeminiCallsWhole`,
  `FragmentsUnderTheirCall`), which needs induction over data and in part speaks of
  `SelectSeq`, which the prover cannot expand; `ResultsBehindTheirCalls`, whose fold
  inserts in the middle of what it has built; `BrokenOnlyAtEnd` and `AdaptersKeepStyle`.
  The converter's theorems hold behind the adapters as far as `AdaptersKeepStyle`, a
  refinement that TLC checks, carries them.

## 5. What is not modelled

`PROJECT.json` lists every component. Left out are:

* replies that are not streamed (`Complete`, `Relay`, `complete.go` of the adapters,
  `ParseResponse`/`SerializeResponse`) and parameters, schemas and requests in the codecs'
  formats: conversions of one value into another, without state or order;
* the server's side of the WebSocket upgrade, a client of the server that stays and does
  not read, masks and lengths of frames, the HTTP client, line limits of the scanner;
* the timing collector's characters, rates and samples; the size of a usage
  estimate; usage is a fact and not a number;
* the bamboo codec's serializer (it writes events as they come), options, errors,
  interceptors, debug output, the example program.

Divergences that are visible in the models or met while writing them, and have no run:
the server's read loop does not look at its context although `websocket.go:120` says a
cancelled one ends it; the history of a conversation is not the "complete" one of
`websocket.go:24`: the collector has no case for redacted thinking, which the converter
does emit (`convert.go:959-979`) and the client gets, so the next turn is sent without it
(`websocket.go:355-366`), which the model shows (`Observed`); in front of a native
`openai-responses` upstream the stored history is joined to the request *and*
`previous_response_id` is sent (`websocket.go:239-248`, `responses/params.go:85-86`), so
the model sees the conversation twice, although `websocket.go:98-99` says that histories
are joined when the upstream is not the native one (`Combined`, `Shown`); an empty 200 reply of a completions or Gemini upstream gives a
stream that ends without having begun; `messagesToProvider` puts a user's text before
its tool results whatever the order of the blocks (`convert.go:169-198`); the bamboo
adapter drops a delta's index (`bamboo/stream.go:165-197`), so that interleaved calls of
a gateway upstream lose their owner; the anthropic and bamboo adapters make up a Stop
when no reason was seen rather than when `message_stop` is missing
(`anthropic/chat.go:207-222`); the first byte of the timing is set by any delta
although `timing.go:36-38` speaks of content.

## 6. Plan

Done, in this order: `BlockProtocol`, `StreamConverter`, `ConverterStream`; `ChatStream`;
`ResponsesServer`; type, panic and stop-reason theorems; `ToolPairing` with its
theorems; adapters, scanner, think tags and serializers composed in `RelayStream`;
`WsConn` and `WebSocketCall` with their theorem; `TimingCollector`; the theorems of
`ResponsesServer`; the client's view of the converter, the refinement of
`BlockProtocol`, the theorems of `ChatStream`, the messages of a WebSocket call; the ends,
the stages and the usage of a relayed reply; the requests to three of the APIs.

Left: `BrokenOnlyAtEnd` and the refinement `AdaptersKeepStyle` as theorems, for which
`IInv` has to follow the indexes and ids of blocks too; `HopKeepsReply`'s control; the server side of
`pkg/ws` under `ResponsesServer`, whose connection is one reader and a set of writers
today; an interleaving bamboo upstream.
