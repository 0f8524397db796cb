# Lightport in TLA+

Lightport is an AI gateway: a caller speaks OpenAI's chat completions or OpenAI's
Responses API to it (an adapter to Anthropic's Messages API is there too and is
modelled, though `index.ts` registers no `/v1/messages` route yet), and it calls
one of some eighty providers, translating the request on the way out and the answer, streamed or
not, on the way back.  It keeps no database and no session: what is hard in it
is one *streamed* request, which is a chain of concurrent readers and writers
between two connections either of which may fail at any step, and whose status
line has left long before anyone knows how the body ends.  That chain is the
core of this project.  Paths below are relative to the repository root
(`src/src/...` is the code under `src/` of the repository).

## The system

| Component | State it keeps | Operations | Talks to |
|---|---|---|---|
| Send layer (`index.ts` `sendWebResponse`, `announceTruncation`, `routeRequest`'s close handler) | the response (`destroyed`, `writableEnded`), its socket, the reader, `hangup`, `failure`, the request's log attributes | write the head; read a chunk and write it; wait for drain; account for the exit; announce a truncation; end or destroy | reads the last stage; is aborted by the caller's signal; asks the adapter for a notice |
| Stages (`streamHandler.ts` `pipeToWriter`, `handleStreamingMode`; `adapterUtils.ts` `adaptStreamingResponse`) | a reader, a writer, the transform's own stream state | read, transform, write; flush at the end; close or abort the writer | each other through TransformStreams and, on an adapted route, a tee |
| Upstream error guard (`streamTransformGuard.ts`) | none | a chunk that carried a failure leaves carrying one | wraps every provider transform |
| Truncation notices (`truncationNotice.ts`) | a notice builder per response | register, ask | adapter registers, send layer asks |
| Caller's signal (`clientAbort.ts`, `utils/fetch.ts`) | one AbortSignal per request | abort on 'close' of an unended response | the provider fetch, the pump, pipeToWriter, tryPost |
| Messages streaming adapter (`adapters/messages/streamTransform.ts`) | open block, next block index, thinking and text index, tool slots, started, completed | one call per chunk | a stage; the notice builder |
| Responses streaming adapter (`adapters/responses/streamTransform.ts`) | sequence number, accumulated text and reasoning, tool calls, started, completed | one call per chunk | a stage; the notice builder |
| Provider call (`handlerUtils.ts`, `responseHandlers.ts`) | a timeout timer and its controller | build, fetch, time out, answer a redirect, route the body, map the response | the signal, credential caches, the stages |
| Provider catalogue (`providers/*`) | none between requests; a stream state per stream | a table of parameters, an address, and transforms of whole answers and of chunks, for each provider and function | the mapping loop, the provider call, the stages |
| Parameter mapping (`transformToProviderRequest.ts`) | the request under construction | one row of a table after another | the catalogue's tables |
| Stream readers (`streamHandler.ts` `readAWSStream`, `readNDJSONStream`, `readSSEStream`) | a byte buffer and an expected length | cut bytes into chunks | a stage |
| Credential caches (`services/cache`, the AWS, Azure and Google helpers) | token and expiry per key, for the process | get, mint, set | the provider call |
| Sentry rate limiter (`createEventRateLimiter.ts`) | counts and windows, per key and in all | admit or drop an event | every capture |
| Process lifecycle (`start-server.ts`) | status, two timers | first signal, second signal, close, force exit | readiness, Fastify |
| Validation, route handlers, JSON adapters, error bodies, timings, configuration | none between requests | pure mappings | |

What is hard, in order of how much of the code it explains:

1. *Truncation.*  A body may come apart in the provider, in either transform,
   on the socket, or because the caller left.  It must never be framed as
   whole; it must be told of where the wire can still carry it, and told once;
   and the log line and Sentry must say whose doing it was.
2. *Parking.*  The pump waits for a slow socket, the stages wait for the pump,
   and whatever they wait for may never come.
3. *The caller's signal*, which stops the provider's meter and decides, wherever
   a rejection surfaces, whether it was a fault.
4. *The adapters' protocols.*  Two event protocols with strict lifecycles are
   generated from a stream that has none.
5. Before there is a response: timeout against hangup against redirect.
6. *The catalogue.*  Some eighty providers, each with tables, addresses and
   transforms written apart from one another, that must agree: what the table
   writes with what the address takes, what the stream tells with what the
   whole answer would have.
7. State that outlives a request: credentials, rate limits, shutdown.

`PROJECT.json` lists each hazard at its line with the properties that watch it.

## Modules

| Module | Models |
|---|---|
| `StreamDelivery` | the send layer, both stages, the guard, the signal: one streamed request from the provider's body to the caller's socket |
| `PromisedBody` | what `StreamDelivery` promises, with no stages in it |
| `MCStreamDelivery` | what the whole pipeline shows of a stream as a fold over its chunks, which TLC compares with the definition without one in `StreamDelivery` |
| `StreamDeliveryProofs` | the theorems about `StreamDelivery`: what reaches the caller; what is filed of it, told and held |
| `ProviderCall` | `tryPost`, `postToProvider`, `responseHandler` and `adaptResponse` from a request that was read to the answer the send layer is given |
| `CallPromise` | which status each cause of an answer justifies: the provider's own, but 200 for an event stream an adapter writes anew |
| `ProviderCallProofs` | the theorems about `ProviderCall` |
| `ProviderExchange` | a request written by a table, sent to an address and its answer read back; composes the next seven |
| `ParamTables` | the language of a table's rows: what a row is named, which field it sets, what it reads, its default and bounds |
| `ChatParams`, `CompleteParams`, `TaskParams`, `CompatibleParams` | the tables themselves: chat; completions; images and responses; the providers declared as OpenAI-compatible |
| `ProviderRequest` | `transformToProviderRequest`, one row at a time |
| `AnswerTables` | what a transform keeps, renames, numbers and refuses, as a row |
| `ChatAnswers`, `CompleteAnswers` | every transform of whole answers and of chunks, as such rows |
| `ProviderAnswer` | an answer on its way back: whole, in a stream of any interleaving, or a failure |
| `ProviderCatalogue` | `providers/index.ts` and each provider's `index.ts` and `api.ts`: who serves which function by which table, address and transforms |
| `ProviderExchangeProofs` | the theorems about `ProviderRequest` and about the streams of `ProviderExchange` |
| `MCProviderExchange` | what callers ask and providers answer, the known divergences, for TLC |
| `FrameReader`, `MCFrameReader`, `FrameReaderProofs` | `readAWSStream`: frames cut from bytes that come in any pieces; the theorems about it |
| `MessagesStream`, `MCMessagesStream` | the Messages adapter; a recursive reference definition of which call each piece of arguments belongs to, which TLC compares with the one in `MessagesStream` |
| `MessagesStreamProofs` | the theorems about `MessagesStream` |
| `ResponsesStream` | the Responses adapter |
| `ResponsesStreamProofs` | the theorems about `ResponsesStream` |
| `EventRateLimiter` | the limiter in front of Sentry |
| `EventAllowance` | what it promises: allowances that lapse on time, with no map to prune |
| `EventRateLimiterProofs` | the theorems about `EventRateLimiter` |
| `CredentialCache` | the map of `services/cache` and the calls that mint what it keeps; its theorems are in `ProviderCallProofs`, the provider call being who asks it |
| `MCKeptState` | the two stores a process keeps between requests, for TLC |
| `Shutdown`, `ShutdownProofs` | `start-server.ts`: signals, readiness, timers and exits; the theorems about them |

The two adapter modules are what the `"adapter"` stage of `StreamDelivery` makes
of a chunk: there a chunk is one of six kinds and the adapter has two flags
(`started`, `completed`); here each chunk's contents and the adapter's whole
state are modelled and the stages around it are left out.

### StreamDelivery

The provider sends chunks of six kinds: ordinary content, one the transform makes
nothing of, an upstream error frame, one the provider transform throws on, one
the adapter throws on, and `[DONE]`.  `taken[s]` and `passed[s]` count the
chunks stage `s` has read and dealt with, `hold[s]` is the `await writer.write`
it is in.  `pump` is the point `sendWebResponse` has reached:

    head -> reading <-> parked -> announcing -> over        (or head -> unsent)

| Action | Code |
|---|---|
| `StageReads` | one iteration of a stage's loop: read, transform (through the guard), begin to write |
| `StageFinishes` | the loop ended: flush `[DONE]` through an adapter, close the writer |
| `StageInputFails`, `Fail` | `pipeToWriter`'s rejection handler: capture if the caller has gone, abort the writer |
| `HandToAdapter` | a write taken by the tee and the parser in front of the adapter |
| `WriteCancelled` | a pending write rejected by `reader.cancel()` |
| `SendHead` | everything before the loop |
| `PumpReads` | a read that resolved with a chunk: ask `destroyed`, write, park on a full socket |
| `PumpDone`, `PumpReadFails`, `PumpReleased`, `ResponseErrors` | the four exits of the loop, each with `Settle`: the account, the notice, end or destroy |
| `AnnounceEnds` | the notice flushed or its second was up |
| `ProviderSends`, `ProviderStops`, `SocketDrains`, `CallerLeaves`, `ResponseCloses` | the environment, and the close handler of `routeRequest` |

Node is single-threaded: promise jobs run before it turns to another event.
`EventLoopTurns` says so where it matters: no event from outside comes between
a rejection or a chunk becoming available to a pump that is waiting for it, and
the pump taking it.  A socket that has gone and a response that knows it are two
steps (`socketGone`, then `ResponseCloses`), as in Node.

An aborted fetch errors the body at once, so chunks still in it are lost
(`SourceAfterAbort`); a body that had ended and been read out is past harm.

### MessagesStream, ResponsesStream

One action per kind of line the transform acts on: a chunk (`HearChunk`), an error
frame, the upstream's or the gateway's own (`HearError`), and `[DONE]`
(`HearDone`).  Each is one synchronous call in the code and one step here, built
from operators named after the code's helpers that take and return a call in
progress: the state, and the events made so far.  Lines the transform ignores (empty,
not `data:`, not parseable) change nothing and are not steps.

Left out: texts, models, ids of messages, token counts, stop reasons in the events.
A piece of arguments or text is known by where it came from, which is what lets
a property say that it arrived once, in order, in the right place.  A chunk
carries up to two entries of `delta.tool_calls`; a third behaves as in a chunk
of its own, since every entry is handled in turn on the same state.  Several
thinking texts of one chunk are one text.

### ProviderCall

`pc` is where a call is: arriving, preparing, fetching, reading (`responseHandler`
has the response), adapting, answered.

| Action | Code |
|---|---|
| `Refuse`, `Admit` | what is answered ahead of a handler (`index.ts`, the validators) |
| `AdapterRefuses`, `PreparationFails`, `Send` | `postToProvider` up to the fetch, and the timer it arms |
| `FetchAborts`, `FetchFails`, `HeadersArrive` | the fetch and its `catch` and `finally`; a redirect answered as a 502 |
| `Route`, `ReadText`, `ReadJson`, `ReadFails` | `responseHandler`'s routing by status, type, streaming and transform |
| `AdaptStream`, `AdaptJson`, `AdaptFails` | `adaptResponse` |
| `Throw` | whatever is thrown, through `tryPost`'s guard and the handler's `catch` |
| `HangUp`, `TimerFires`, `BodyEnds`, `BodyBreaks` | the caller, the deadline, the provider's body |

A body that streams is handed on unread: `StreamDelivery` begins there.  On an adapted
route whatever is labelled `text/event-stream` is written anew under status 200
(`AdaptStream`; `adapterUtils.ts:359-362`), a provider's 500 or 408 with that label among
it; JSON keeps the provider's status.  204 and 205 are left out: they carry no body to route.

### ProviderExchange

Three parts in a row, on one request.

*The request* (`ProviderRequest`).  `params` is gone through by the rows of the
provider's table in the table's order: `PutSaid`, `PutDefault` or `Skip` at
each, where a row that is set later overwrites the field.  A value carries the
parameters it was made from, which is what lets a property say that what was
said arrived.  Numbers are in hundredths, for temperatures, and `Far`
(100000000) stands for bounds no caller passes.  A row's transform is the set of
parameters it reads, those of them it takes for unsaid when zero
(`truthy`), and which of two names it prefers (`over`).

*The hand-over* (`HandOver`): the address, and whether a stream was asked for, is
sent and comes.  `streamingMode` is read off what the caller said and the
provider streams by what its address or its body says, which is not the same
thing: a table that does not carry `stream` makes it differ.

*The answer* (`ProviderAnswer`).  A message is up to four blocks of thought, text
or call, each of two pieces; the pieces come in order, but those of OpenAI's
dialect may interleave calls.  A stream ends in its dialect's own way: the
reason, the counts, `[DONE]`, together or in chunks of their own.  `told` is what
the caller's client would have assembled of the whole, and beside it whether some of
it came under another choice than the first (`strays`: Cohere's chunks take the number
of the content for the choice's, and keep it to the end of the stream) and whether
texts were put together with a line between them (`parted`: Bedrock's whole answers).  Failures come whole, with a body that
names an error, another body or a page of text, under a failing status or
under 200.

A *dialect* is what an address speaks: OpenAI's chat or text, Anthropic's
messages, Bedrock's Converse, Gemini's, Cohere's and so on.  The catalogue gives
each entry (provider, function, for Bedrock and Vertex the model's kind and how
it is named) the dialect its table writes, its address speaks and its two
transforms read.

### FrameReader

Bytes are known by their position, so the buffer is a span, and a body is the
positions at which its frames begin.  A frame starts with its length in
`LenBytes` (four) digits of base `Radix`; `Read` is a read of any size, `Cut` and
`CutNoMore` the inner loop, `ProviderCloses` the end of the body wherever it comes.
Reads that end inside a length are let in only where `SplitsPrelude` says so: the
first run shows that the reader is right without them, the second that it is not
with them.

### Shutdown

Time is ticks since the first signal.  `Signal` is either handler (a second
signal of the *other* kind finds one and exits 1; of the same kind it finds none
and kills), `CloseTimer` and `ForceTimer` the two timers, `Closed` the close that
settles when nothing is in flight, or fails; `Ready` is the balancer's poll.

### CredentialCache

One step for each stretch of code without an `await`.  `Hit` and `Miss` are a `get`
and what its caller makes of it; `Issue`, `IssueNothing` and `IssueHollow` the service's
answer, from when the credential counts as issued; `KeepMinted` the check on what came, the `set` and
the return; `MintFails` every way out that keeps nothing.  `stage[c]` is where call `c`
is between them, and `handed` is what the last step gave its caller.  A key is
`Guarded` where its caller tests what came before it is kept (Azure's three, Bedrock's);
Google's two keep whatever came.  It is `Wrapped` where the mint makes an object of
any answer under 200 (Bedrock's: `awsAuth.ts` 239-244, 293-299, 316-324, 410-417), whose
keys may be missing or empty (`full` is false of it): `if (credentials)` and
`if (cached)` are true of such an object all the same.  `Kept` has the times a key's credentials may be kept for: one
where the caller sets it, several where the answer does.  The clock does not pass
`MintBound` beyond the issue of what is under way: the code sets no such bound itself,
but the agent's timeout ends a request that takes longer.

### EventRateLimiter

Each event is one synchronous call of `beforeSend`'s limiter, and one step with
three outcomes in the code's order: dropped by the limit over all keys, dropped
by its key's, kept.  A stale window is refreshed where the code refreshes it, only
when next asked for, and a key's only behind the overall limit; buckets are
pruned behind a kept event alone.  `seen` is a history of what was reported
and kept.  `EventAllowance` says the same with an allowance for every key that
lapses by itself the moment its window is over; the refinement mapping reads a
missing or stale bucket as no window open.

## What is checked

| Run | Module, bounds | Shows |
|---|---|---|
| `delivery` | `MCStreamDelivery`; 3 chunks, high-water 2, slack 1, with fairness | the delivery's safety below; `ProviderIsStopped`, `ResponseSettles`; and `KeepsPromise`: it implements `PromisedBody` |
| `delivery_unreported` | `StreamDelivery`; no fairness | finding 1 |
| `call` | `ProviderCall`; statuses 200, 302, 408, 500, with fairness | `KeepsPromise`: it implements `CallPromise`, rewritten event streams included; no deadline outlives its fetch, nothing is made of a part of a body, nobody is paged for a hangup, hangup and deadline end what they should; `NeverStuck`: no combination of status, content type, mode, body and failure is one no branch takes |
| `exchange` | `MCProviderExchange`; every table, provider and function | the six properties below |
| `frames` | `MCFrameReader`; frames of mixed sizes, radix 3, reads of any size that do not end inside a length | every frame is given to the transform once, in order, as soon as it is all there; no well-formed body fails or spins the reader |
| `frames_prelude` | the same, with reads that do | finding 4 |
| `messages` | `MCMessagesStream`; 2 indices, 2 ids, 4 things said | the lifecycle of blocks; no argument lost |
| `messages_interleaved` | `MessagesStream`; 3 things said | finding 2 |
| `responses` | `ResponsesStream`; 2 indices, 5 things said | numbering, one end, items assembled from what was streamed |
| `responses_length` | `ResponsesStream`; 2 things said | finding 3 |
| `kept_state` | `MCKeptState`; 5 keys, limits 1 and 2, window 2, prune above 1, 6 events in 5 ticks; 2 calls, three identities (checked; checked by a test every answer passes; unchecked, with two times), two of them in use at once, clock to 4 | the limiter: `KeepsToLimits`, `MapIsBounded`, and `KeepsAllowances`: it implements `EventAllowance`; the credentials: `GoodCredentials`, `NoMintCosts`, below |
| `shutdown` | `Shutdown`; 2 requests, delays 2 and 4, polls every tick | a clean exit loses nothing, nobody is cut off without cause, the drain is known first, the process ends |

Safety of the delivery:

- `WholeMeansWhole`: `raw.end()` is reached only behind a provider that completed
  and a pipeline that has handed on every chunk.
- `OneEnding`: an adapted body is given one ending, last; one that started and was
  ended whole has been given it.
- `DeliveredIsPrefix`: whatever cut it, what was written is an exact prefix of what
  the stream shows, by a definition of that which has no stages in it.
- `Accounted`: the log never calls a broken body a delivery, and never calls a
  caller's leaving a fault.
- `TruncationIsTold`, `NothingAfterTheEnd`: the step that files a truncation also says
  it in the body where the socket is alive; nothing is written behind an ending.
- `Backpressure`: the chunks between provider and socket that take up room stay
  within the buffers' limits however slow the caller is.

The exchange:

- `DefaultsYield`: no row's default stands where the caller said something, under
  whichever of a field's names.
- `SaidReaches`: what was said and some row of the table would carry reaches the
  provider, in some field; nothing is lost to a later row or to one that never runs.
- `SentWhereServed`: table, address and both transforms are of one dialect.
- `StreamedAsWhole`: a stream that has ended told what the whole answer to the same
  request would have: thoughts, text, each call's pieces under its own number,
  the reason, the counts; all of it under the first choice, and no text with
  anything put between its pieces.
- `EndsWell`: one `[DONE]`, last; no chunk a provider may send breaks the stream.
- `FailureIsNamed`: a failure is told as a failure, whatever its body and status.

The credentials:

- `GoodCredentials`: no credential is handed on later than the time it may be kept and
  the latency of its mint after it was issued, whichever of several mints was kept
  last (`HandedInTime`; the latency belongs there, since `set` counts from when the
  answer was read); an empty value that was kept is minted again and is no hit; and
  what is handed on was minted for the key asked for and has a token, but of Bedrock's
  keys, where an object without keys is a hit (`HitsAreCredentials`).
- `NoMintCosts`: where the caller's test tells a credential from none (Azure's), no mint
  that fails, is aborted or comes back empty costs the other calls theirs
  (`OnlyTimeTakesAway`: of Bedrock's keys it does, an object without keys taking the place
  of one with them), and of every key mints that overtake each other never
  bring an entry's end forward (`DeadlineAdvances`).

The two stores share no variable, so `MCKeptState` follows each while the other has not
begun rather than their product.

Bounds.  *Delivery*: three chunks let each of the two stages and the socket hold
a different one, with content, an error and an ending in every order; a high-water
mark of 2 has a write that parks and one that does not.  Slack 1 is the tightest
coupling of the two stages; the proofs hold for every value of all three.  What
`Backpressure` says of chunks between the stages of an adapted route needs a
fourth chunk to be tight, for which the run is too long with fairness: that half
rests on its proof.
*Adapters*: two tool indices and two ids are needed for interleaving, reuse of
an index and a changed id, and four parts for begin, interrupt, resume and end;
in the Responses adapter, five let a call be added, extended, replaced and
extended again before the end.  Ids are interchangeable, so `messages` uses
symmetry.  *Limiter*: limits of 1 and 2 and five keys are what it takes for more
keys to be alive than the map may hold, across two windows.  *Call*: one status
of each kind the code tells apart.  *Frames*: in base 3 four digits
write lengths with zeros before, as every real one has, and behind, and two that
differ in the first digit alone; and several frames come in one read.  *Shutdown*: the smallest delays
with a poll before each timer.  *Credentials*: two calls are what it takes to overtake;
an entry is a matter of its key alone, so of the three identities any two are in use at a
time (`FewInUse`); a clock to 4 lets an entry be made, outlive its time and be made again.  *Exchange*: of each table every parameter alone
(below, at, within and above its bounds; the caller's `lightport-default`), every
two that make one field together, and all at once, with a model and without;
messages of one to four blocks of two pieces, which is what it takes for two
calls behind a thought and a text to be numbered apart from their blocks, and for two
texts to come apart.  Of the dialects that carry text alone a message is one text.

`CHECK_DEADLOCK FALSE` but in `shutdown`: a request ends, and the histories are
bounded.  Each module with proofs has a `TypeOK`, which is proved and so not run.

### Fairness

*Delivery.*  `FairSpec` assumes weak fairness of the gateway's own steps (Node runs
every callback that is due, and the notice's flush is raced with a one-second
timer), of `ResponseCloses` (Node emits 'close' on a response whose socket has
gone), of the pump's turns (`PumpTurns`: promise jobs run in the order they were
queued, so a pump whose read has settled is not passed over for ever by stages that
come and go) and, while the pump is parked, of "the caller reads or goes":
`start-server.ts:17,155` sets a fifteen-minute socket timeout, which destroys an
idle connection.  Nothing is assumed of the provider, which may send or stop or
do neither for ever; so the liveness properties start from a provider that has
stopped, or a caller that has left.

*Call.*  Weak fairness of the gateway's steps, of preparation (token requests run
under the agent's timeout) and of the armed timer; none of the provider, none of
the caller.  *Frames.*  Of the inner loop only, which is synchronous.  *Shutdown.*
Of listening, both timers, time and the balancer's poll; none of callers, of
the operator or of the close, which may hang.  The limiter, the credentials, the
adapters and the exchange have safety properties only.

## Known divergences

`MCExcepted` names what `exchange` is known not to hold of, provider by provider; of
everything else in the catalogue it holds.  Each was found by the run and read in
the code.

*A stream that does not tell what the whole answer does* (`StreamedAsWhole`):

- thoughts: Groq's and SambaNova's stream transforms rebuild the delta without its
  reasoning; OpenRouter is the other way round, a strict caller's whole answer
  drops what the stream keeps, though `providers/utils.ts:191-213` says whole
  answers keep it;
- calls: Together's and SambaNova's stream transforms keep text alone; Cohere's tells
  them as an object without an index, and under the index of the content;
- the choice: Cohere's stream takes the number of the content for `choices[].index`
  and keeps it (`cohere/chatComplete.ts:255,270-287`), so text behind a thought and the
  reason at the end come under choice 1 or later, where the whole answer has choice 0;
- texts: Bedrock's whole answer joins its texts with a line break
  (`bedrock/chatComplete.ts:513-516`), which its stream (690, 715) does not tell;
- usage: the stream transforms of 302.AI, Anyscale, Ollama, LingYi, Moonshot, Zhipu,
  NCompass, Lepton, LemonFox, Oracle and Together copy no usage; Bytez tells it in no
  whole answer.  For completions: Anyscale, Lepton, Novita, Together;
- the reason: SambaNova ends with `stop` beside the usage, whatever was said before;
  Perplexity maps the provider's word when whole and passes it on in a stream;
  Bytez says `stop` and its stream what was said.  For completions, Novita's and Together's
  streams tell none, and Cohere drops the last chunk with its reason.

*A stream that ends otherwise* (`EndsWell`): the completions of Anthropic and Cohere
tell no `[DONE]`; DeepSeek's transform reads `choices[0]` of the chunk that carries
usage alone and throws (`deepseek/chatComplete.ts:234`), which cuts the stream of
every caller who asks for `include_usage`; the transforms of Mistral, Latitude,
DeepInfra, Predibase, LingYi, Moonshot, Zhipu, NCompass and LemonFox would throw too, but their
tables do not pass `stream_options` on.  Google is asked without `alt=sse`
(`google/api.ts:24`) and answers with an array labelled `application/json`, which
`responseHandlers.ts:60-67` reads whole, by the wrong transform.

*A failure* (`FailureIsNamed`): Bytez's transform makes an empty answer of one;
Fireworks' and Cohere's (completions) and Nscale's (images) throw on a body
without the error they look for; and the providers under `passed` check nothing, or
have no transform, and pass on whatever came.

*By model* (`OfModel`).  Bedrock's address is chosen by the model's full name
(`bedrock/api.ts:264`), its table and transforms by the name without its region or
from the ARN: a Cohere Command or Jurassic model named with either is written for
`invoke` and sent to `converse`.  Bedrock has no stream transform for AI21's
completions, so frames are passed on as they are; Jurassic's chat stream is
read by the Converse transform, being in no other list; Titan's completion stream
tells `[DONE]` with each chunk.  Vertex's Gemini stream tells no `[DONE]`, and its Llama
transform parses `[DONE]` as JSON and throws.

*A request* (`SaidReaches`): a number of 0 that a transform takes for unsaid
(`LostZero`: Bedrock's Titan, Cohere, AI21, Vertex's images); and what is `Unheard`
without its partner, such as Converse's `tool_choice` without `tools`, Titan's `stop`
without a temperature, a length or a `top_p`, or Oracle's parameters without a model.

## What is proved

By TLAPS, for every value of the constants that satisfies the module's named
assumptions.

`StreamDeliveryProofs` (`BoundsAssumption`):

- `InvCorrect`: `Spec => []Inv`, where
  `Inv == TypeOK /\ Pipeline /\ ClosesInOrder /\ EndingsKept`;
- `TypeCorrect`, `WholeIsWhole`, `EndingIsGivenOnce`: `TypeOK`, `WholeMeansWhole`
  and `OneEnding` follow from it;
- `NothingIsWrittenAfterTheEnd`: the action property, for every step;
- `PromiseIsNeverBroken`: `Spec => Promise!Safely`, every step of the delivery is
  a step of `PromisedBody` or a stutter under the refinement mapping.

The account builds on `InvCorrect` with the invariant
`Account == Blame /\ Ledger /\ Room /\ OneAtATime /\ Slots`: who an abort and a
fault come from, what the log may say at each point of the pump, and what is held
where.

- `AccountIsTrue`, `HeldIsBounded`: `Accounted` and `Backpressure`;
- `CallerIsTold`: the action property `TruncationIsTold`.

The order of what reaches the caller builds on both with
`Integrity == AdapterKnows /\ HoldsNext /\ WireIsExact /\ PrefixKept`: what the adapter
remembers is true of the chunks it has dealt with, each stage holds the chunk
after the last it handed on, the wire is exact while the pump runs, and from then on
at most the notice or the flushed completion is behind it.

- `StreamIsIntact`: `DeliveredIsPrefix`, for any number of chunks.  The property says
  where a chunk comes on the wire by counting the chunks shown before it, since a
  fold could not be reasoned about; `MCStreamDelivery` assumes, and TLC evaluates, that
  this is the fold.

`WholeMeansWhole` is not inductive: that an ended response stands behind a source
that has ended needs that a stage closes only behind the one before it
(`ClosesInOrder`), and that nothing was left in between needs the bookkeeping
of chunks read, held and handed on (`Pipeline`).  `OneEnding` needs to know that
`completed` and the wire agree while an ending is still held by the adapter
(`EndingsKept`).  The proofs go by lemmas on one group of variables each
(`PipeTypeStep`, `ResponseTypeStep`, `FlagTypeStep`, `PipelineStep`, `OrderStep`,
`EndingsStep`), with one case per action that can disturb it.

`EventRateLimiterProofs` (`LimitsAssumption`):

- `InvCorrect`, `TypeCorrect`: types, and that no window began in the future;
- `AllowancesAreKept`: `Spec => KeepsAllowances`.  The heart is that a stale
  bucket, a pruned one and one never made are the same to the next event
  (`OpenedIs`), and that a key past its limit has a bucket that is not stale,
  so that dropping its event changes nothing (`DroppedIsDropped`);
- `LimitsAreKept`, `MapStaysBounded`: `KeepsToLimits` and `MapIsBounded`, from `Counts`:
  each bucket, and the overall count, is the number of events kept since its window
  began, keys without a bucket have kept none that still counts, and so what a
  span of a window's length holds falls into two windows at most.

`ProviderCallProofs` (`StatusAssumption`): `TypeCorrect`; `DeadlineEnds` and
`HangupUnreported`, the two hazards of telling hangup from deadline; `WholesOnly`,
that nothing is made of part of a body; and
`ImplementsPromise`, `Spec => KeepsPromise`, each answer a step of `CallPromise`.
The refinement needs that a response under way carries a status its cause
justifies before it becomes an answer, and that what the gateway composed itself, a 408 or
the 502 of a redirect, is no event stream (`ComposedIsJson`): only a provider's is written
anew as a 200.  `NoCaseLeftOut`, `HangupEnds` and `TimeoutEnds`
(`NeverStuck`, and the two halves of `EveryWaitEnds`, which is `WaitsEnd`) are for all
of a call's cases; see *Progress* below.

Of the credentials, in the same module (`CacheAssumption`): `CredentialsAreGood` and
`MintsCostNothing`, `GoodCredentials` and `NoMintCosts` for any identities, times, latency
and number of calls.  `HandedInTime` is not inductive:
`CacheInv` adds `EntryInv`, that an entry's own end is within a credential's time, and
`MintInv`, that what was minted is for the key it is wanted under and no older than
a mint may be; both say that only of a `Wrapped` key there is an object without keys.

`ShutdownProofs` (`ShutdownAssumption`): `Invariance`, `TypeCorrect`; `DrainKnown`, which
needs `PollPeriod < CLOSE_DELAY` and that a balancer that has not read of the
drain last polled within a period of now; `CleanExitIsClean`; and `CutOnlyForCause`, which needs that the
forced exit is due at `FORCE_EXIT_TIMEOUT` exactly and the clock never passes it.

`ProviderExchangeProofs`.  Of the request (`ProviderRequestAssumption`): `Invariance`,
`TypeCorrect`, and two theorems for tables of any length and *anything* a caller asks, where the run
asks parameters singly, in pairs and all at once.  `CallersWordStands` is
`DefaultsYield` for every table that keeps to `NoLateDefault`; the inductive invariant
adds `AskedSoFar`, what is in each field after the rows gone through.
`CallersWordReaches` is `SaidReaches` for every table that also keeps to `AllAreHeard`: of each
parameter a row speaks of, some field has only rows that would carry it, or only
partners of it.  Its invariants are `SetSoFar`, that a field holds what the last of its
rows to run made, and `AsAsked`, that of what was asked only a stop is read as
another value; its core is that a parameter said and not lost as a zero or
to its other name is among those the last of such rows carries (`ReadIsCarried`).
TLC evaluates the assumptions on the tables of the catalogue in `exchange`.

Of the answer (`MessagesAssumption`, `CatalogueAssumption`): `StreamsTellTheWhole` and
`StreamsEndWell`, `StreamedAsWhole` and `EndsWell` for messages of any number of blocks,
every order in which a dialect lets their pieces come, anything that was asked and
any catalogue whose entries keep to `CatalogueAssumption`.  That speaks of rows alone:
the row of whole answers and that of chunks keep the same facets, whole answers put
nothing between texts, chunks tell all in the first choice and number calls in a way
the dialect allows, the ends the dialect sends tell each
thing once, or something is known of the entry.  TLC evaluates it on the whole
catalogue in `exchange`, where the known divergences are listed (`MCExcepted`).  What is proved is
that such rows are enough, since nothing in them says what becomes of a stream:

- `ExchangeInv` says at each moment what was told of what was sent.  The reasoning and
  the text are lists of their pieces in the order of the message (`Lists`, `Sent`);
  the `n`th list of arguments is the beginning of the `n`th call's (`NumberedAsNamed`); the
  reason, the counts and [DONE] are those of the ends sent so far (`FinishIsTold`,
  `UsageIsTold`, `DoneIsTold`), and none has tripped the transform; and a row that tells
  all in the first choice has told nothing elsewhere (`StraysTold`).
- It is inductive only with `InTurn` and `CallsCounted`.  Calls of OpenAI's dialect
  interleave, and are numbered by what the provider says; elsewhere blocks
  follow one another, and a call's number is the count of those named, by a record
  of each block or by the latest of them.  `NamedInTurn` shows calls to be named in
  their order in every dialect, so that each of these numbers is the call's rank
  among the calls of the message (`CallIsCounted`), whatever blocks lie between.
- That a stream is asked for usage in a chunk of its own only of a table that speaks
  of it needs the request: of nothing else is a field made (`MadeFromRows`).

`MessagesStreamProofs` (`DataAssumption`): `StateIsSound`, `Spec => []IInv`;
`CallerFollows` and `MessageEndsClosed`, `OneBlockAtATime` and `EndsClosed` for any
indices, ids and number of chunks.  The state alone is not inductive: `Sound` says
how it stands to what was sent (`contentBlockIndex` counts the blocks begun,
`openIndex` is the one not stopped, each kept index is a block of its kind), and
`Protocol` that each event fitted what came before it.  A chunk is one step but
many events, so each function of the transform has a lemma that it keeps a call
*going* (`OpenGoes`, `CallGoes`, `DrainGoes`), and `ChunkKeeps` chains them as the
code does.

`ArgumentsAreKept` (`ArgumentsKept`) is about the calls and not the events: `Owned` gives
each named call its block with every piece of its arguments in order, `Placed` says
how the slots stand to that: each is for the latest call at its index, and knows its
block or keeps what waits for a name.  A new call behind an old one at the same index,
a change of id and the pieces that come before a name are the cases
(`MCMessagesStream` has TLC compare what a call is with a recursive definition).
`DataAssumption` includes that `None` is no slot.

`FrameReaderProofs` (`FramesAssumption`): `FramesAreRead`, that is `CutsWhatArrived`
(`FramesAreCut`) and `WellFormedIsRead` (`WellFormedIsNoFault`), under
`~SplitsPrelude`, for any body and reads of any other size.  `IInv` says that the buffer begins where a frame does and that the
length in hand is that frame's, or zero of an empty buffer, which holds only because
a length is read again when it is all there (`ReadsFront`, from `ReadsLength`: the
four digits make the number they were made from).  Without the hypothesis it does
not hold: finding 4.

`ResponsesStreamProofs` (`DataAssumption`) is built the same way: `StateIsSound`, and
`SequenceIsOne` and `ItemsAreFollowed` for `OneSequence` (`Sequenced`, by `EventsNumbered`,
and `EndsOnce`, by `ResponseEndsOnce`) and `ItemsFollow`.  Here the state keeps no record of what it has added but two flags and
the calls: `Known` says that they are true of what was sent, that no two calls kept
share an index, and that an item of a call carries the number of an event already
sent, so that the next call's is new.  At the end each call's item is done once
because calls with different indices are different items (`CallsGo`, `RunFits`).
`ItemsAreAssembled` and `AllIsDone` (`Assembled`, `AllDone`) need what the state holds of each:
`Keeps` says that the accumulated text, reasoning and arguments are what was streamed
of their items, where a call whose index was taken over is an item of its own, and
that the latest call of every index is still kept.

*Progress.*  Five theorems are about what must eventually happen:
`ProviderStopsInTheEnd` (`ProviderIsStopped`), `HangupEnds`, `TimeoutEnds`, `CuttingGetsOn`
and `ShutdownGetsOn`; with `NoCaseLeftOut` they have `[]CanBeTaken` as a hypothesis.  To
the prover `ENABLED` is an atom, of which it knows nothing.  `CanBeTaken`, defined in each
of the four modules, says what is missing and no more: where one of a fair action's
disjuncts has its guard, the action can be taken.  That is true by the form of the
actions, each of which assigns every variable behind its guard.  What is
proved is the rest: that in every state reached, some guard holds of what must lead
on, that this stays so until it does, and that the step leads where it should.
TLC checks the same properties without the hypothesis, `NeverStuck` among them, which
needs `ENABLED` too.

`CuttingGetsOn` and `ShutdownGetsOn` are one round: with `n` bytes buffered the inner loop
leaves or comes to fewer, and a shutdown at tick `n` ends or comes to tick `n + 1`.
`CuttingEnds` and `ShutdownEnds` follow by induction over `n`, with a formula for its
property, which the provers cannot do.

Only model-checked: that induction (`CuttingEnds`, `ShutdownEnds`); `ResponseSettles` and
the liveness half of the delivery's `KeepsPromise`, which need one over the chunks still
in the pipeline; and `FailureIsNamed` and `SentWhereServed`, each of which says of an entry of
the catalogue what its row says: they hold for these tables and not for any others,
and an assumption to prove them from would repeat them.

## Findings

1. `delivery_unreported`.  The comment at `src/src/handlers/streamHandler.ts:56-59`
   leaves a fault to `sendWebResponse` unless the caller has already gone.  A
   transform that throws while the pump is parked on a full socket is seen by
   neither if the caller then leaves instead of draining: the log says
   `disconnected` and Sentry is told nothing.
2. `messages_interleaved`.  "a delta never follows its own stop"
   (`src/src/adapters/messages/streamTransform.ts:201-202`) does not hold for
   parallel tool calls whose arguments interleave (lines 308-313).  The arguments
   do arrive in the right block (`ArgumentsKept`), behind its stop.
3. `responses_length`.  "Only a response that ran to the end has completed items"
   (`src/src/adapters/responses/streamTransform.ts:55-59`), but `[DONE]` always
   reports `completed`: `finishReason` is stored and never read.
4. `frames_prelude`.  "the reader takes lengths from the prelude"
   (`src/src/providers/bedrock/__tests__/streamException.test.ts:25-27`), but
   `src/src/handlers/streamHandler.ts:234` takes the next length from as many of its
   four bytes as have arrived, the rest read as zeros: a read that ends inside a
   length loses the frame, and the stream.

Seen while reading, with no claim in the repository to hold them to:

- a caller who is found gone before the head is written, or after the last chunk
  was read, is not recorded as `disconnected` (`requestTiming.ts:43`);
- on an adapted route the stage reads a clone of the response (`adapterUtils.ts:272`), and
  the other branch of that tee, meant for `requestOptions`, is read by nobody and
  holds the whole of the provider's stream (nothing sets `requestOptions`, so that 368-376
  never run);
- on an adapted route a provider's failure, or a 246, that is labelled
  `text/event-stream` is told as a 200 (`adapterUtils.ts:359-362`);
- the Responses adapter adds a reasoning item and never ends it
  (`streamTransform.ts:426`), and drops arguments that come before a call's name (501);
- a hangup while `adaptNonStreamingResponse` reads the body is answered 500 and
  logged as an error (`adapterUtils.ts:207-220`), where `tryPost` would have said 499;
- the handlers capture the 400s they throw themselves;
- a second signal of the same kind kills with Node's default, though the log of
  the other path says "forcing exit";
- a token answer without `access_token` is kept over whatever token is there, and
  minted again by the next call (`google-vertex-ai/utils.ts:141`, and 163 for the
  workload identity);
- `getAzureWorkloadIdentityToken` passes tenant, client, token and scope in that order
  (`azure-openai/utils.ts:75-82`) to a function that takes the scope first
  (`utils/azureAuth.ts:87-94`);
- Bedrock's mints make an object of any answer under 200, and one without keys is kept
  over one with them and handed on until the ttl is over
  (`awsAuth.ts` 239-244, 293-299, 316-324, 410-417; `bedrock/utils.ts` 98, 143, 177, 204);
- an entry of the credential map is deleted only when its own key is asked for again
  (`services/cache/cacheService.ts:8`);
- `custom_host` skips Bedrock's resolution of an ARN; MatterAI's stream transform is
  registered under a key nobody looks up; OVHcloud's default model is MatterAI's.

## What is not modelled

`StreamDelivery` begins where the provider's response is a readable body and a
streaming reader has cut it into chunks.  The catalogue is modelled as tables and
as what its transforms keep, number and tell; not modelled are

- the conversions of messages, tools, images and contents *inside* a transform, and
  the JSON-to-JSON adapters (`adapters/*/requestTransform.ts`,
  `responseTransform.ts`): which field goes where, with no state or order;
- base URLs, headers and signing, which are I/O and options; of the credentials, which
  of a cloud's sources is asked, in what order and with what;
- what no route reaches: embeddings, rerank, batches, fine-tunes, files, speech,
  transcription, the providers' own request handlers, and the cache-hit branches of
  `responseHandler` (`isCacheHit` is always false);
- providers without a table for a route (vector stores, embedding-only ones,
  SageMaker, Replicate, Meshy, Tripo3D);
- streams of images and of the Responses API in `ProviderExchange`; failures in the
  middle of a stream there (they are `StreamDelivery`'s); a page of text under 200
  to a caller who asked for a stream;
- validation of headers and configuration, error wording, timings and tags.

## What could come next

The transforms' own conversions of messages, as operators against a reference; the
chain of AWS credential sources above the cache.
