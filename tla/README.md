# Verification of nexus-x

nexus-x is a Go SDK for agents on a messaging platform: transports that receive
updates, a middleware chain and a router that dispatch them, an LLM engine with
a conversation memory, and a few utilities. This directory holds TLA+ models of
its stateful core and of the sequential parts around it, the TLC runs that check
them on small instances, and theorems about them that TLAPS checks for every
instance.

    tlc -workers 2 -config MCEngine_shared.cfg MCEngine    # one run
    tlapm EngineHistoryProofs.tla                          # one module of proofs

`PROJECT.json` lists the components, the runs, for each checked property a
mutation of the code's model that breaks it, the source lines each definition
stands for, the hazards, the disagreements found, and the theorems.

## The system

| component | state | operations | interacts with | hard because |
|---|---|---|---|---|
| WebSocket transport (`client/transport.go`) | the connection, the counter of missed pongs, one mutex, the backoff | dial, authenticate, read, heartbeat, reconnect, write | one goroutine per update into the chain | a heartbeat goroutine per connection shares counter and mutex with the reader and with the next connection |
| Webhook transport (`client/transport.go`), self ID (`client/client.go`) | whether the ID is resolved, twice; the ID; two mutexes | resolve the agent's own ID, verify, parse, answer, filter, dispatch | one goroutine per update into the chain | every request may be the one that looks the ID up, the lookup may fail, and the filter reads the ID without a lock |
| Middleware chain (`agentic/middleware.go`) | none of its own | filter, dedup, rate limit, credential gate, log, recover | deduplicator, rate limiter | runs in many goroutines at once; the order matters |
| Deduplicator, rate limiter (`agentic/security_inmem.go`) | a map and a clock each | `IsDuplicate`, `Allow` | called by the chain | boundaries of TTL and window, eviction |
| Router (`agentic/router.go`) | the registered commands, verbs, keyword rules and fallbacks | register, choose a handler | engine and application handlers | priorities, order of registration, letter case, registrations after construction |
| LLM engine (`agentic/engine.go`) | per update: the context with its deadline and clear flag; per run: history, steps, stream | `RunLLM` in generate and stream mode, `CallLLM` | memory, agent, tools, stream writer | load and save are not atomic; every call may fail or outlive its context |
| Conversation memory (`agentic/memory_*.go`) | the messages of each key | load, save (truncate, summarize), clear | engine, `clear_context` | shared by all handlers; Redis fails and expires |
| Agent tools (`agentic/tools`) | none; they set the clear flag and clear the memory | send, reply, query, clear | engine context, channel | one step of several fails |
| Stream writer (`client/client.go`) | a sequence number | start, push, end, error | engine | deltas are lost, the context ends first |
| Start of a program (`nxconfig`, `nxconfig/awssm`, `agentic/llmconfig`) | the configuration, the registry of providers | choose a source, load, overlay, default, validate, build | files, environment, AWS, model library | many layers, any of which may be absent or broken |
| Redaction (`nxproto/redact.go`) | an index, built once | scan the message types, walk a message | the RPC interceptor | the scan is recursive and reads its own index while it builds it |
| Conversation IDs (`nxutil/convid.go`) | none | pack and unpack two 32-bit IDs | agent filter, applications | sign extension |
| Events, channel, mini app, logging, cards and their validation | none | build, check, report | — | sequential data |

What makes each part correct:

- **Engine and memory.** The history the agent reads is made of whole turns,
  with every tool call next to its result; nothing crosses conversations;
  nothing is remembered twice; only a clear, the limit, an expiry, a crash or a
  concurrent turn makes it forget; every handler returns; a stream that ended
  shows the whole text.
- **Chain.** A message that is delivered again is not handled again within the
  TTL, nor by two goroutines at once; a burst is bounded; nobody is denied who
  has not used up the rate; the map of seen messages does not grow with what has
  expired.
- **WebSocket client.** One live connection; a silent peer is noticed; the
  missed pongs that end a connection are its own; backoff is bounded; a
  cancelled context stops every goroutine.
- **Webhook and self ID.** The agent's own updates are dropped and nobody else's;
  the ID is fetched once; every request is answered.
- **Router.** An update goes where the documented priority sends it, and a
  registration takes no update it does not speak of.
- **Start.** Sources and layers take precedence as documented, none that cannot be
  read is passed over, and every model of a program that is up has a provider.
- **Redaction.** What is sensitive is blanked; nothing is cloned in vain; the scan
  ends.
- **Conversation IDs.** An ID says whose conversation it is.

## Modules

| module | models | checked by | proved in |
|---|---|---|---|
| `Engine` | `Engine.Handle`, `RunLLM`, `CallLLM`, load and save, both memories, `clear_context` and the other tools, the stream writer, deadlines, crashes | `MCEngine` | `EngineProofs`, `EngineHistoryProofs` |
| `ConversationMemory` | the abstract memory that `Engine` implements | through `ImplementsMemory` | `EngineHistoryProofs` |
| `Dedup` | `InMemoryDedup` | through `Pipeline` | `DedupProofs` |
| `RateLimiter` | `InMemoryRateLimiter` | through `Pipeline` | `RateLimiterProofs` |
| `Pipeline` | the middleware chain over `Dedup` and `RateLimiter`, with the goroutines of the transports | `MCPipeline` | `PipelineProofs` |
| `WsClient` | `ConnectWebSocket`, `connect`, `dial`, `authenticate`, `readLoop`, `heartbeatLoop` | `MCWsClient` | `WsClientProofs` |
| `Webhook` | `webhookHandler.ServeHTTP`, `Client.SelfUserID`, `mustSelfID`, `WebhookVerify` | through `Parts` | `PartsProofs` |
| `Startup` | `LoadFromFlags`, the sources, `LoadAs` with overlay and defaults, `llmconfig` | through `Parts` | `PartsProofs` |
| `Router` | every registration, `NewRouter`, the fallback bound by `NewEngine`, `Handle` | through `Parts` | `PartsProofs` |
| `Redaction` | `scanMessage`, `MarshalRedactedBytes`, `redactFields` | through `Parts` | `RedactionProofs`, `PartsProofs` |
| `ConversationIds` | the functions of `nxutil/convid.go` | through `Parts` | `PartsProofs` |
| `Parts` | the five modules above in one program | `MCParts` | `PartsProofs` |

### Engine

A goroutine is an update `u`; `pc[u]` says where its handler is. The application's
handler may call `RunLLM` any number of times (up to `MaxRuns`). A run is
`LoadMemory`, in stream mode `StartStream`, then steps of the agent (`TextDelta`,
`ClearContext`, `SendTool`, `OtherTool`, and at last `FinalText`,
`StopAfterTools` or `AgentFails`), then `StreamEnd` or `StreamError`, and
`SaveMemory`. Generate mode sends its reply after the save (`SendReply`). Between
any two of these steps other goroutines step: that is all the atomicity the code
has. `store` is the memory; what `Redis` changes is that every call may fail or
take effect although it reports an error, that a call fails once the context is
over, and that a key may expire (`DropKey`). `Kept` is `Save`'s truncation. A
summarizer is outside the repository and is taken to return any number of messages of
its own followed by any end of what it was given (`Summarized`); its error is ignored,
and what it returns is cut like any other history. `CallLLM` is a run whose result is
returned and not sent.

The memory key is put together in three places: a streamed run (`StreamKey`) and
`CallLLM` (`CallKey`) take it from the update, `clear_context` (`ClearKey`) from the
context that `Handle` made. They agree, and `keys` shows what would follow if one
of them did not: its two mutants let them disagree.

A message is its turn (update and number of the run), its place and its kind.
That is all the engine depends on: it never looks into a message. A text delta is
its number. The agent library and what tools send are outside the repository or
keep no state, and are nondeterministic.

`ConversationMemory` states what the engine promises and says nothing of how: a
turn takes a snapshot of the history (or nothing, if it cannot be read), and what
it commits is the end of that snapshot followed by messages of that turn alone; with a
summarizer, messages of that turn may stand in front of it as well.
The refinement mapping gives each run that has loaded its history the front of
`history`, up to the first message of its own, as the snapshot (`LoadedPart`,
`Snapshot`).

### Pipeline, Dedup, RateLimiter

Time is a counter. One call of `IsDuplicate` or `Allow` is one step, as both hold
a mutex from the reading of the clock to the last write. `Pipeline` adds the
goroutines: `Deliver` starts one for an event that passes `AgentFilter`, `Fresh`
and `Duplicate` are `Dedup`, `Limit` the rate limiter, `Gate` the credential
gate, and `HandlerEnds` whatever the router runs. The order is the one of
`agentic/README.md`. The server may deliver any event again at any time. Handlers
are taken to heed the two-minute deadline of their context (`Tick`); the code
cannot force a handler to, and `OneHandlerPerMessage` rests on it.

### WsClient

One goroutine connects, authenticates, reads and tears down (`loop`), and each
authenticated connection `c` has a heartbeat (`heartbeat[c]`). They share
`missed` and the mutex `mu`, which is held while a frame is written; everything
else under the mutex is one step. A heartbeat of an old connection may still run
when the next one is up. `closed` is the connection's state as far as this side
knows it: a peer that dies (`PeerDies`) sends nothing and closes nothing. `unanswered`,
`strays` and `served` are history variables for the properties.

### Parts

The remaining parts share no state with each other, so what one of them does is
the same whatever the others do. `Parts` puts them into one program and lets a part
step only while the others have not begun; a run of it costs the sum of the parts
and not their product, and an invariant of a part alone is missed by none of these
behaviours. The names of its properties lead to the modules.

- **`Webhook`.** A goroutine is a request, or another caller of `SelfUserID`
  (`ConnectWebSocket`, an application). `LockHandler` takes the handler's mutex,
  `Known` and `Fetch` the client's; both are held while `GetProfile` runs and given
  back by `Returned`. `Profile` and `ProfileFails` are its outcomes. `Answer` is
  everything from `ReadAll` to the status, and `Filter` reads the ID: a request
  whose own `SelfUserID` succeeded has taken the mutex after the write and sees it,
  and one whose call failed may read 0 although the ID is written, as nothing orders
  the two (`Readable`).
- **`Startup`.** One action for each step that may fail: `Resolve`, `Load`, `Parse`,
  `Overlay`, `Validate`, `NewProvider`. A configuration has settings that may be
  zero, providers and models; a text is what can be read, its syntax and what it
  says. What `mergo` does with two entries of one key is left open (`MergeMaps`), as
  it is the library's affair.
- **`Router`.** One action per kind of registration, in any order and number up to
  `MaxCalls`, then the engines, then updates. What `ToLower`, `TrimSpace`, `Contains`
  and `HasPrefix` say of the texts in use are constants.
- **`Redaction`.** The recursion of `scanMessage` is explicit: `caller` is the stack,
  `todo` what each frame still has to visit, and `Return`, `Call`, `Conclude` and
  `Leave` are its steps, each with the index as it is at that moment. `walk` follows
  one path of fields through a message that is logged.
- **`ConversationIds`.** `B` stands for 2^32: shifting is division that rounds down,
  masking is `% B`, and `| int64(lo)` with a negative `lo` covers the high half.

## Runs

| run | instance | shows |
|---|---|---|
| `shared` | two updates of one key, two runs each, one tool step a run, limit 4, in-memory | `HistoryChained`, `TurnsInOrder`, `QuestionKept`, and that the engine implements `ConversationMemory` |
| `redis` | two updates of one key, two runs each in either mode, limit 5, Redis with failures and expiry | `HistoryChained` through runs that fall back and clears that fail, and that a save loses only what it was told to forget (`SaveKeepsHistory`) |
| `keys` | two updates of two keys, two runs each in either mode, limit 2, in-memory | `KeysIsolated`, and `ConversationMemory` again, as no clear or save touches the other key |
| `stream` | one update, two runs in either mode, two deltas, a summarizer, limit 3, extra messages, a crash | `StreamFaithful`, `HandlersReturn` (liveness), and `ConversationMemory` with summaries and crashes |
| `chain` | two goroutines, four events, deadline 1, TTL 2, map of 1, rate 2, window 1, clock to 4 | the promises of deduplicator and rate limiter in the chain, and `OneHandlerPerMessage` |
| `connections` | two connections, limit 2 | `OneConnection`, `TimeoutEarned`, `MissedBounded`, `BackoffCapped`, and the liveness of noticing silence and of shutting down |
| `apart` | two requests of ten kinds and another caller; 324 environments; three registrations of eleven, two engines; three message types in 224 schemas; IDs of 3 bits | `FilteredExactly`, `OneFetch`, `RequestsAnswered`; `LayersInOrder`, `EveryModelResolves`; `RoutedByPriority`, `RegistrationsLocal`; `SensitiveMasked`, `IndexSound`, `ScanEnds`; `IdsFaithful` |
| `clear_final`, `clear_flag`, `truncation`, `clicks`, `backoff_reset` | the smallest that show it | one disagreement each, below |

**Bounds.** A violation of the history properties needs two turns that overlap
and a third that reads what they left: two updates with two runs. A tool step is
a call and a result; with the user's message and the final text a turn has up to
four messages, so limits of 2 to 4 cut at every place of a turn, and with a limit of 5
a turn that follows another keeps some of it and loses some: there `SaveKeepsHistory`
can tell a cut from a loss. One update of each of two keys is the least that can mix
keys, with two runs so that one run reads what the other handler left. For the
streams two deltas distinguish lost, repeated and swapped. In the chain the
clock goes to 4, twice the TTL and four times the window, so that messages expire,
are let through again and may be evicted, and more than `2 * Rate` requests are
made; a map of size 1 is full after one message. `SYMMETRY` is over goroutines
of a chain and over handlers of one key (`redis`), in runs with no liveness. With two connections one heartbeat overlaps the
next connection; `MissedBounded` counts one excess for each heartbeat. In `apart`, two
requests and one other caller are the least with which a lookup fails, another one
succeeds and a third waits; the deliveries stand at both edges of the drift and one
beyond. Three message types give every shape a wrong scan order needs (a type
reached twice, a nested type that its own parent's fields reach, a cycle), with a
list or map at every place. The environments have every state of the chosen file
against every state of its local variant, and every kind of fallback against every
state of the default files. Three registrations are what it takes for a rule, one
that shadows it and one that replaces it. `B` is the smallest power of two with more
than two positive IDs. The runs of
`Engine` and `WsClient` may end (all handlers are done, the client has stopped), and
so does each part of `apart`: they do not check deadlock; the chain never ends and
does.

**Fairness.** `Engine`: goroutines are scheduled, and every call the engine makes
itself returns, the RPC client having a 30-second timeout, so the steps of the
goroutine are weakly fair; so is the timer of the context. Of the agent only this
is assumed: once the context is over, it returns. Nothing says that it ever
answers, and `HandlersReturn` does not need it. `WsClient`: goroutines run, tickers
fire, dial, write and the wait for the auth response have timeouts, all weakly
fair; who waits for the mutex gets it although others keep taking it
(`sync.Mutex` is starvation-free), and a `select` that is offered the cancelled
context again and again takes it: strong fairness. Reading is fair only where it
must fail, as `Read` has no timeout of its own. `Webhook`: the goroutines of
requests run and `GetProfile` returns, as its context ends after ten seconds; weak
fairness is enough for the mutexes, as a caller asks once and nobody takes a mutex
again and again. `Redaction`: the goroutine that scans runs. `Pipeline`, `Startup`,
`Router` and `ConversationIds` have safety only: nothing in them waits.

## Disagreements with comments and docs

Each is the counterexample of one run.

- `clear_final`: a turn that loaded the history before another turn cleared it
  writes it back. `tools/clear.go` promises a fresh context after a clear.
  It takes two runs of one conversation at once, or Redis: with the in-memory store
  and one run at a time the comment is true (`ClearsAreFinalOneAtATime`).
- `clear_flag`: the clear flag belongs to the update's context and is never
  reset. A handler that runs the LLM twice loses in the second save what the first
  saved after the clear. The first run of a handler never does (`SavesKeepHistory`
  covers it), so the comment is true of handlers that run the LLM once
  (`ClearsForgetOnceInOneRun`).
- `truncation`: the limit may fall between a tool call and its result, and the
  history then begins with a result whose call is gone. Only a summarizer may do
  it besides: without one, such a history has exactly the limit
  (`CallsLostOnlyToTheLimit`), and without a limit there is none
  (`CallsKeptWithoutLimit`).
- `clicks`: a click carries the message ID of its card, so a second, different
  click within the TTL is dropped as a duplicate. Whatever is dropped had the ID of a
  message that got past less than a TTL ago (`DropsAreDuplicates`), so with a message
  of its own for each event only redeliveries are (`OnlyRedeliveriesDropped`).
- `backoff_reset`: `dial` always returns an error, so the line that resets the
  backoff after a connection that worked is not reachable.

Met while reading, and not the subject of a run:

- `RunLLM`'s comment (`agentic/engine.go:287`) has the text sent first and cards
  after it; tools send while the agent runs, before the text.
- The comments of the rate limiter (`agentic/security_inmem.go:14,22`) speak of a
  sliding window; the windows are fixed and start with a request. What is true of
  it is `BurstBounded`: twice the rate, not the rate, in any stretch of one window.
- `WithReconnectMaxInterval` (`client/transport.go:117`) does not bound the first
  wait, which is one second: `BackoffCapped` says so.
- If Redis fails for one load, the run goes on without history and its save
  overwrites what was there. `ConversationMemory` allows it (`Begin`).
- A message is remembered before it is handled: a redelivery after a handler that
  failed, or that the rate limiter stopped, is dropped.
- A stream may stay open: `sw.End` and `sw.Error` take the update's context
  (`agentic/engine.go:383,404`) and fail with it, or on their own, and a failure is
  only logged; and `StartStream` may report an error although the message exists.
  No comment promises more, and any call of an RPC may fail.
- `CallLLM` returns no result and no error when `WithErrorHandler`'s function
  returns nil.
- "Self-messages (from the agent itself) are filtered out automatically"
  (`client/transport.go:34`) is not so while a request's own lookup of the ID fails:
  it then compares with 0, or with whatever it reads without a lock
  (`client/client.go:137`). Nor if `GetProfile` answers without an ID: 0 is then kept
  for good (`client/client.go:131-132`, `Nameless`). `FilteredExactly` says that these
  are the only ways.
- "Replaced by `***`" (`nxproto/redact.go:95-96`) has exceptions, which
  `SensitiveMasked` names: what a list or a map holds, what a recursive type hides
  when its entry is read before it is made, and sensitive fields that are no
  singular strings. A repeated one passes the test at `redact.go:128`, which asks for the
  kind and not for the cardinality, and setting it to a string panics; `Redaction`, which
  is about what is blanked, has it not blanked and the program go on.
- In an overlay (`nxconfig/source.go:22-23`) a zero value cannot override the base,
  and the overlay is parsed in the format of the base whatever its content.
- A configuration that is valid may still fail in `NewRegistry`: validation does not
  look at the provider's type (`llmconfig/config.go:36`).
- A router that two engines share keeps the `RunLLM` of the first
  (`agentic/engine.go:166`), while `router.go:51` says that the engine binds its own.
- `OnCardAction` (`agentic/router.go:118`) writes a map that `Handle` reads in other
  goroutines; it is for the time before updates arrive.
- Both transports start a goroutine for each update (`client/transport.go:93,354`),
  so two messages of one user may be handled in either order. `Engine` allows it.
- `agentic/README.md:107` and `agentic/doc.go:113` call `SelfUserID` with no context.

## Proofs

All theorems are of the specifications themselves, for every value of the
constants; the assumptions are the `ASSUME`s of the modules (which TLC evaluates
in every run) or stated in the theorem.

**`EngineProofs`: `TypeCorrect`, `StreamsAreFaithful`.** `TypeOK` is inductive; the
proof takes the actions one by one, with lemmas for what they write (`UpdatedType`,
`KeptType`, `StreamType`). For `StreamFaithful` the invariant (`StreamInv`) says at
every place of a run that the server has the first deltas, in order, and, as long as
the agent's step goes on, all of them: the first one that is lost ends the step.

**`EngineHistoryProofs`: `HistoryStaysChained`, `ConversationsStayApart`,
`TurnsStayInOrder`.** None is inductive: what is stored comes from `history` and
`steps` of a run that loaded the store long before. The invariant `HInv` says of
every history in the system (stored, or loaded by a run) that it is linked, from
its key, in order and without a message twice; that nobody knows of a run's messages before it has loaded
its history (`Known`); and of a run's `steps` that they are linked, its own and
numbered. A save then appends the steps to the history, and truncation takes a
suffix, which keeps all of it. It holds for any interleaving of any number of
handlers, because a save needs only what is true of the history and the steps of
its own run, and whatever others do in the meantime leaves that true.

**`QuestionsAreKept`, `CallsLostOnlyToTheLimit`, `CallsKeptWithoutLimit`.**
`LimitInv` says of every stored history that it fits the limit and begins with a whole
turn unless the limit is used up, a summarizer may have taken the beginning, or the
turn's handler has cleared (`FitsLimit`, `BeginsWhole`). A run in its turn has a history
that begins with a whole turn or is full, and it is not empty if the update has text:
so what a save cuts it cuts because of the limit. The flag of a handler that has not
begun is down, and it never falls afterwards. `CallsInv` adds that a history, stored
or loaded, begins with a result only when it is full or summarized.

**`ClearsAreFinalOneAtATime`, `ClearsForgetOnceInOneRun`:
when the comments are true.** `OneAtATime` says that no two runs of one conversation
overlap, and is a hypothesis about behaviours, as a conversation's handlers may be
serialised by the application. Then what a run has loaded is what is stored until the
run itself clears or saves (`Intact`), and no other save comes between. If every
handler runs the LLM once, a clear forgets once: that is the first-run half of
`SavesKeepHistory`.

**`EngineImplementsMemory`: the refinement.** The invariant `RefInv` says that the
`history` of a run is what it loaded, followed by all of its own messages
(`Divides`): so `Snapshot` is what it loaded, and stays that while the run adds to
`history`, and a save replaces the store by the end of the snapshot followed by
messages of the run. There is one lemma for each action of `ConversationMemory`
(`BeginStep`, `CommitStep`, `ClearStep`, ...), one for the steps it does not see
(`QuietStep`), and `MemoryStep` puts them together.

**`SavesKeepHistory`.** Whatever has been saved since, a save that was not told to
forget stores an end of the run's history and steps, with summaries in front of it at
most: what it had loaded and does not store is the front of it, and the limit is then
used up, or there is a summarizer. That the messages of a history are distinct (part
of `HInv`) makes a message that is stored one that is not in the front. A first run
that was told to forget is another matter: nobody has seen a message of a run in
progress (`UnseenInv`), a clear drops what the run has loaded, and what is stored after
it is either empty or ends with a message that the run does not have (`Newer` of
`ForgetInv`); so a save that still finds what it had loaded as the latest was not told
to forget.

**`DedupProofs`: `LetThroughOncePerTtl`, `MapHoldsLive`.** A message may be
missing from the map because it was evicted. The invariant (`Remembers`) is that a
message let through at most a TTL ago is in the map, with the time it was let
through. Eviction keeps it as it drops only what has expired; it also has to keep
`DOMAIN seen` finite, for the cardinalities.

**`RateLimiterProofs`: `BurstAtMostTwice`, `BucketsAreExact`,
`DenialsAreJustified`.** A bucket knows nothing of the one before it. The invariant
`Agree` says of the user's requests, counted from the end, that the last `count`
are in the bucket, that all before are earlier than its beginning, that all but
the last `PerWindow - 1` of those are more than a window earlier, and that the
bound already holds. A new bucket (`NextGood`) or one more request in it
(`CountedGood`) re-establishes it: a bucket holds at most `PerWindow` requests, so
the request `2 * PerWindow` places before the new one is among those more than a
window earlier than the bucket.

**`PipelineProofs`: `ChainImplementsComponents`, `MessageHandledOnceAtATime`,
`DropsAreDuplicates`, `OnlyRedeliveriesDropped`.** Every step of the chain is a step of the
deduplicator or leaves it alone, and likewise the rate limiter; so their theorems carry over (`ChainLetsThroughOnce`,
`ChainHoldsLive`, `ChainBoundsBursts`, `ChainKeepsBucketsExact`,
`ChainDeniesJustly`). One handler per message needs `Ttl > Deadline`, the deadline of every
goroutine (`InTime`), and that what a goroutine handles was let through after it
began (`LetThrough`): then it is still remembered, and `Pass` is not possible for
it. README and code have five minutes against two. `ChainTypesCorrect` is type
correctness of the chain with both stores. For `DropsAreDuplicates` the invariant
(`SeenPassed`) is that every message in the map came with an event that got past, and
`DedupProofs` has when it did.

**`WsClientProofs`.** `ConnInv` ties `conn` and the open connections to the place of
the loop: every connection but the latest is closed, the latest is closed whenever the
loop is between two connections, and `conn` is the latest or nothing. From it
follow `TypeCorrect` and `OneConnectionAtATime`. For `MissedStaysBounded` the
heartbeats that gave up are counted (`GivenUp`): one that counts beyond the limit joins
them in the same step. For `TimeoutsAreEarned` the invariant `Accounted` says that the
counter never exceeds the pings unanswered on this connection and what older
heartbeats added to it, with one ping still to be sent between the two steps.
Of liveness two safety halves are proved: `MutexHeldToWrite`, that the mutex is held by
who writes a frame (which a timeout ends) and by nobody who waits, and
`ReaderNeverAlone`, that a reader has a heartbeat that has not given its connection up.
The latter needs that a connection's context is over no earlier than its reader
(`EndedInTime`).

**`RedactionProofs`: `Masked`, `Sound`, `ScanNeverStuck`, `ScanGoesForward`.**
`RInv` describes the stack of the scan: a frame below the top is there because a child
of its type has a frame (`CalleesActive`). If no type is recursive, no type on the stack is a child of the one
on top (the types on the stack that are would be a cycle), so the entry of every
singular field's type has been made when the entry of the top is. An entry that says
no is therefore final: nothing sensitive is in the type, and the entries of its fields
say no as well (`QuietClosed`). `Sound` needs no such assumption: an entry becomes true
only by the type's own fields or by entries that are true already. What is assumed is
that schemas are schemas (`SchemasAssumption`). That the scan ends is liveness; what is
proved of it is that each of its steps goes forward (`Advances`: a type's rank grows, or
the frame on top has one type less to visit) and that it never stops before the index
is complete. The latter needs that the frames are one stack: `Grounded` says that the
callers lead from any frame to the top, so that none is left when the loops over the
files go on, and then a type that was not visited lies in one that was
(`NestedVisited`). `NestingIsProper`, that declarations do not lie in each other in a
circle, is what protobuf guarantees, and the schemas of the run have it.

**`PartsProofs`.** A step of `Parts` is a step of one part or leaves it alone
(`RedactionMasks` and `RedactionIndexSound` then follow from the theorems above).
`WebhookFiltersExactly` and `SelfIdFetchedOnce` rest on `WInv`: who is fetching holds the
client's mutex, and a request past its lookup either failed in it or sees the ID.
`LookupsNeverDeadlock` adds who holds which mutex at which place (`LocksHeld`).
`ModelsResolve` rests on `SInv`: from validation on every model names a provider of the
configuration, and the registry has been built from it. `LayersTakePrecedence` rests on
`LInv`, which says at every stage what has been settled: the source is that of `Base`,
its text was read and parsed, the local file was absent or merged, and each setting is
that of the topmost layer so far. `RoutesByPriority` and `RegistrationsAreLocal` rest
on `OInv`: each field of the router says what was registered for it last, and the
keyword rules stand in the order of registration. What the first or last of a set of
places in a sequence is, is an argument about the least or greatest element of a set of
numbers, which exists because they are well founded; no induction over sequences is
needed. `PartsTyped` is type correctness of all parts. `IdsAreFaithful` is arithmetic
for every even `B`: an ID divides into its halves in one way only (`Division`,
`Packed`).

**Model-checked only.** Liveness (`HandlersReturn`, `SilenceNoticed`, `ShutsDown`,
`HeartbeatsExit`, `RequestsAnswered`, `ScanEnds`): fairness and `ENABLED` are out of the
prover's reach. Every other property of the passing runs is a theorem. Of the five
disagreements, `BackoffReset` has no theorem that says when the comment is true: `dial`
never returns without an error, so there is no condition the code could meet.

## Not modelled

- **Event handler, outbound channel, mini app, logging; in the RPC client sending,
  editing and queries.** Each operation builds one request or one log entry, calls a
  library and keeps nothing: there is no state for a step of one to find changed.
- **Adaptive cards and their validation.** Builders of documents and a schema check by
  a library: data without control.
- **Signatures of mini apps** (`InitDataSign`, `InitDataVerify`), **`nxconfig/common.go`**:
  a chain of checks of one value that keeps no state; a table of unit tests is the
  better tool.
- **In the LLM engine** the option constructors, the choice of a named agent, the system
  prompt and the conversion of messages; **in the tools** the texts, cards and queries.
  Nothing the engine keeps depends on them. Prompts, texts, token counts and events for
  observers are not in the models for the same reason.
- **Growth.** The rate limiter never deletes a bucket, and the map of card actions may
  be written while it is read: the first is a count of users, the second aborts the
  program, and neither is a wrong state a model could show.

Three more hazards of the list have no property because the repository takes no side:
a history that could not be read is overwritten, a message is remembered before it is
handled, and a shared router keeps its first engine.
