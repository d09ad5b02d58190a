# TLA+ models of M365-Copilot2API

The gateway (`src/cmd/server`, `src/internal`) serves OpenAI-, Responses- and
Anthropic-style requests from Microsoft 365 Copilot accounts. This directory
holds TLA+ models of its stateful parts, the TLC configurations that check them
and TLAPS proofs about them. All paths below are relative to `src/`; `web/`,
`auth/` and so on stand for `internal/web/`, `internal/auth/`. `PROJECT.json`
lists components, runs, theorems, hazards, and for every definition the lines it
models.

Contents: [Inventory](#inventory), [Plan](#plan), [The modules](#the-modules),
[Runs](#runs), [Fairness](#fairness), [Proofs](#proofs),
[What the models show](#what-the-models-show), [Limits](#limits),
[Not modelled](#not-modelled).

## Inventory

### How a request travels

A handler of `web/server.go` (`openaiChat`, `chatOnce`, `chatStream`, the
Responses and Anthropic handlers which translate and call `openaiChat`) asks the
session resolver which cloud conversation the request continues, picks an account
(`resolveAccount`, `nextHealthyAccount`), makes sure of its token
(`auth.Store.EnsureValid`), waits for a slot (`chatWithAccount*`), lets
`chathub.Client` talk to the upstream, retries or fails over, and records the
conversation (`bindConversation`). A request with tools asks the upstream first
which tools to call, filters the answer by what the conversation's ledger already
holds, and gives the client calls or a text. A streamed answer passes the recovery's
reconciler, the fence buffer and the identity filter. In the background run the
persistence loop, the conversation cleaner and the usage log; administrators change
accounts, keys, settings, proxies, deployments and conversations meanwhile, and start
benchmarks, which are clients of the same handlers. MCP clients have endpoints of
their own.

### Components

| Component | State | Hard behaviour | What makes it correct | Module |
|---|---|---|---|---|
| Chat admission (`web/account_concurrency.go`, `diag.go`) | channel `chatSlots`, per-account counters, the `changed` channel | sleeping on a channel that others replace; nested resources; contexts that end | no slot lost or given twice, limits hold, no lost wake-up, every call ends | `ChatAdmission` |
| Token store (`auth/cache.go`, `token.go`, `web/images.go`) | accounts in memory and in `accounts.json`, flights | one-time refresh tokens, copies used after the mutex is released, failing saves, crashes | one refresh at a time, a refresh succeeds only when durable, no waiter left behind | `TokenStore` |
| Sign-in (`web/server.go:587-742`, `auth/pkce.go`) | pending sign-ins | several callbacks on one sign-in, late callbacks, failing saves | reported as authenticated only when durable | `SignIn` |
| Lazy persistence (`web/persist.go`, `atomicfile.go`) | dirty flags, `persistList`, temp files | flag cleared before the snapshot, overlapping flushes, failing writes, kills | the file follows memory, no acknowledged change is lost | `PersistStore`, `DurableStore` |
| Account routing (`web/server.go`, `account_health.go`, `account_cooldown.go`, `router_retry.go`, `stream_recovery.go`) | round-robin cursor, cooldowns, each request's loop counters | checks that are stale when used, errors charged to the wrong account, multiplied retries | innocent accounts stay, pinned requests stay, bounded calls, every request answered | `AccountRouting` |
| Conversation reuse (`web/session_resolver.go`, `sessions.go`, `server.go`) | bindings with histories, user sessions | prefix matches, incremental prompts, recovery, deletions under a running request | clients kept apart; a conversation holds what the prompt leaves out | `ConversationReuse` |
| Conversation cleaning (`web/auto_cleanup.go`, `conversation_manager.go`, `conversations.go`, `m365cloud.go`) | managed index, whitelist, the cloud | protection read once and used for long; paged listing; deletions that fail | idle conversations go at last; a clean end is clean | `ConversationReuse`, `CloudSweep` |
| ChatHub client (`chathub/`) | one WebSocket per call, an upload beside it | late frames, time-outs, an upload that outlives its call | one end per call, frames in order | `ChatHubCall` |
| Stream recovery and delivery (`web/stream_recovery.go`, `stream_text.go`, `stream.go`, `public_identity.go`) | delivered text, reconciler, held-back text | replays, overlaps, fragments, three buffers that are flushed in turn | nothing twice, nothing lost, one end | `StreamedAnswer`, `AnswerStream` |
| Tool loop (`web/toolloop.go`, `agent_ledger.go`, `tool_*.go`, `context_budget.go`, `server.go`) | none: the client's messages | verdicts computed from a history that is trimmed; a model that answers wrongly in many ways | no call dropped on an outdated verdict, changing calls alone | `AgentLedger`, `ToolTurns` |
| Protocol translation (`web/protocol_handlers.go`, `protocol_*.go`) | a pipe per streamed response, kept conversations | reader and writer that wait for each other, a client that leaves, eviction | a stream is ended, responses can be followed up | `Responses` |
| MCP (`mcp/`) | sessions, queue of calls | ends of sessions under answers, time-outs against results, full channels | a call in one place, no answer astray, every request answered | `McpServer` |
| API keys (`web/keys.go`) | records and their file | roll-back of failed saves under concurrent changes | an acknowledged change stays | `ApiKeys` |
| Admin login (`web/admin_security.go`) | password, sessions, attempts | two changes and logins that cross | password, file and sessions agree | `AdminAccess` |
| Settings (`web/settings.go`, `proxy_pool.go`, `outbound/proxy.go`) | settings, their file, the pool in use | updates computed from old copies, saves in another order | the three agree again | `ProxySettings` |
| Outbound proxies (`outbound/pool.go`, `health.go`) | rotation, cool-downs | replay while the rotation moves | a working proxy is found | `OutboundPool` |
| Deployments (`web/deployments.go`) | a slice and its file | a pointer into the slice kept over a network call | the file has what the console shows | `Deployments` |
| Usage (`web/usage.go`) | waiting records, the file | failing open, write, sync; end of the process | every record in one place, in order | `UsageLog` |
| Benchmark (`web/benchmark*.go`) | one run, a goroutine per start | goroutines of stopped runs, panics, the order of writes and tests | complete results, credited work, an end | `Benchmark` |
| Image generation, diagnostics, start-up, tools | little or none | - | - | see [Not modelled](#not-modelled) |

`PROJECT.json` names the files of each and what is left out. Its hazards are the places
of the code where a test hardly reaches.

## Plan

Written and checked, in this order:

1. What every request passes: `ChatAdmission`, `TokenStore`, `DurableStore` with
   `PersistStore`, `AccountRouting`, `ConversationReuse`, `CloudSweep`. Their
   theorems are proved.
2. What it is answered with: `ChatHubCall`, `StreamedAnswer` over it, shown to implement
   `AnswerStream`; `AgentLedger` and `ToolTurns` over it; `Responses`.
3. What else the process does: `McpServer`; the console's `SignIn`, `AdminAccess`,
   `ApiKeys`, `ProxySettings`, `OutboundPool`, `Deployments`; `Benchmark` over `UsageLog`.

Their safety theorems are proved, and the refinements `FileFollowsMemory` and `ClientSees`;
what is left to the runs is under [Only model-checked](#only-model-checked).

## The modules

### ChatAdmission

A member of `Calls` is one run of `chatWithAccount*`. `pc` follows it through
`acquireChatSlot` (`Enter`, `AcquireGlobal`, `CountGlobal`, `RejectGlobal`),
`accountConcurrency.Acquire` (`AcquireAccount`, `Park`, `Wake`, `GiveUp`) and the
two deferred releases. Taking a slot and counting it are two steps, as in the
code. The `changed` channel is the set `waiting` of the calls that sleep on the
channel currently installed: closing it empties the set. `Expire` ends a context at
any moment.

### TokenStore, SignIn

Token sets are numbered as the endpoint mints them; a record holds the numbers of
its access and refresh token. A member of `Calls` is one `EnsureValid`, a member of
`ImageCalls` one `designerAccessToken`, which redeems the same refresh token
outside the flight. Every step between two critical sections is an action: the
copy is taken in `ReadAccount` and used in `Redeem`, `StoreFailure`, `StoreGrant`.
`Save` writes `accounts.json` within the mutex and may fail, leaving memory
changed; `persisted` and `unsaved` remember which access tokens have been in the file and which a
failing save kept from it. `Restart` reloads the file. `SignIn` adds the table of pending sign-ins and
`callbackPKCE` in its steps: copy the entry (`TakePending`), exchange the code, store the
account, write the copy back with the outcome.

### DurableStore, PersistStore

`DurableStore` says what lazy persistence promises: memory moves on, the file
moves forward to contents memory has held, a restart loads the file.
`PersistStore` has the dirty flag, the list and the loop, `writeMu`, the
temp file and the rename, requests that mark within or after the store's lock, calls
that save at once and roll back (`Undo`), shutdown and kill. Contents are
numbered.

### AccountRouting

`req[r]` is the local state of a handler: account, failover account, loop counters,
outcomes. One action per step that reads or writes the pool: `Pick`, `Recheck`,
`Ensure`; `Send`, `Respond`; `Succeed`, `Fail`, `FallBack`, `FailOver`, `Repick`,
`Reensure`, `Resend`, `Respond2`, `Reanswered`; `Routed`, `Repaired`, `Required`,
`Rerouted`, `Corrected` for requests with tools, where what the model says is
a nondeterministic choice. The four paths are `chatOnce` ("once"), the
non-streaming and the streaming `openaiChat` ("answer", "recover") and the handlers
that never touch the pool ("plain"). `accused` is a history variable.

### ConversationReuse, CloudSweep

A turn is a user message with its reply. A request is resolved (`ByUser`,
`ByContent`), sent (`Send`, perhaps `Recover`), and remembered in three steps (`PutUser`,
`Bind`, `Record`) as in `bindConversation`; a stream's reply makes a second
`Resolve` (`Reply`). `Resolve` has the three ways of the code (session id, longest
prefix, similarity) with their windows; eviction is a nondeterministic choice of the
survivors among the most recent. The cleaner (`CleanerWake` ... `CleanerRound`) collects
what is protected once, then lists and deletes; admin handlers delete, sweep, forget and
whitelist between its steps. `said`, `ips`, `shared` and `intact` are what the cloud's
conversation has gone through, for the properties only.

`CloudSweep` has the admin's clean-up in detail, which `ConversationReuse!AdminSweep`
leaves abstract: list a screen, walk over it, keep or delete, stop when nothing was deleted.
Several sweeps and `Open` interleave; `DeleteFails` covers deletions that fail and those
accepted and not carried out.

### ChatHubCall, StreamedAnswer, AnswerStream

`ChatHubCall` is one call after the other of `chatWithHandlers`: dial, upload of the image in a
goroutine of its own (which may outlive the call and write the shared attachment), handshake,
frames, breaks, deadline, cancellation, completion. The complete answer is the text
`<<1, .., N>>`; a frame carries a snapshot of the part the upstream writes in this call, which
may be older than the last or rewritten, or a delta with what comes next, or a message without
cursor. `said` is how far the upstream has got, `cur` what the client has made of it. `StreamedAnswer`
puts `streamChatWithRecovery` on top, whose later calls start anywhere in the answer, with the
reconciler (`Passed`, `Push`), the fence buffer (`flushStreamText`), the identity filter
and the finish of the stream. `AnswerStream` is the promise to the client: text is only
added, the stream ends once, nothing follows. `ClientSees` is the refinement.

### AgentLedger, ToolTurns

`AgentLedger` is the pure part: the protocol check, the ledger of calls and results with its
verdicts, the trimming to the context budget, the reading and validating of a routing text.
`ToolTurns` is a client that keeps the messages and runs the calls, and the gateway that takes
each request from nothing but its messages: `Receive` trims and checks them, `Route`, `Repair`,
`Constrain`, `Answer`, `Eject`, `StreamAnswer`, `StreamRepair`, `Recover` and
`RecoverRepair` are the calls to the model, each with whatever text it may give, and end in
`Give` (tool calls), `Tell` (a text) or `Fail`. `dropped` and `outdated` are history.

### Responses

The streamed response: the chat behind it (`WriteLine`, `InnerReturns`), which writes lines into an
unbuffered pipe, and the adapter (`ScanLine` ... `Conclude`), which turns them into events until the
end, an error, or its client leaves. And the kept responses of each tenant, with age, eviction
(`Room`) and follow-ups; a tenant is what `extractAPIKey` makes of a requester's header and key.

### McpServer

Sessions of both transports in one registry; a request posted to a session's message
endpoint or by the streamable transport (`Message`, `Streamable`), its tool call in the queue
(`Rpc`), the workers that take and resolve calls (`Dequeue`, `Resolve`), the time-out
(`Unanswered`), the answer into the session's channel (`Respond`), and ends of sessions by
their client (`SSELeaves`) or by `DELETE` (`Drop`).

### AdminAccess, ApiKeys, ProxySettings, OutboundPool, Deployments

The console. In each, a handler is a few steps with the mutex released between them, since the
file is written outside it: `AdminAccess` (check, save, set), `ApiKeys` (change, save, roll back),
`ProxySettings` (copy, save, configure, answer), `Deployments` (append or point at an
element, check over the network, save). `OutboundPool` has the rotation with requests that replay,
the sticky dialer and the health check. Restarts read the files again.

### UsageLog, Benchmark

`UsageLog`: records wait, the flusher takes them, opens, writes, syncs; the process may end at any
point, in a write too (`RestartLog`). `cut` says that the file ends within a line, behind which the next
record cannot be read. `Benchmark` EXTENDS it: `Start`, `Stop`, and a goroutine per started run that goes on after a stop; each step of a task is a
chat that leaves a record. A workspace is the score the graders give it.

### MC modules

`MCConsole`, `MCProtocols` and `MCTokenStore` put several components or several
kinds of behaviour into one run. The components share no state with each other, so a variable
chosen at the beginning (`area`, `protocol`, `signingIn`) says which of them the behaviour is about; the
others stand still. The product of independent state spaces would show nothing more. Where two
components do share state they run together: requests, cleaner and admin handlers in
`ConversationReuse`, sign-ins and callers in `SignIn`, benchmark and usage log in `Benchmark`,
settings and proxy handlers in `ProxySettings`. In the area "benchmark" of `MCConsole` the log is
full from the start (`FullLog`), so that its flusher does not multiply the states; the area "usage"
has the log with one run and other requests that make its records.

## Runs

TLC passes all but the last two, which contain the expected counterexamples.

| Run | Instance | Shows |
|---|---|---|
| `admission` | 4 calls, 3 global slots, 1 of the account | slots conserved, both limits hold upstream, no lost wake-up, every call ends |
| `token` | 2 `EnsureValid`, 1 image request, or 1 `EnsureValid` and a sign-in with 2 callbacks; provisioning, deletion, failing saves, restarts | flight table exact, file current, a refresh or a sign-in succeeds only when its tokens have been in the file, every caller returns |
| `persist` | 2 handlers, the loop, 2 changes; failing writes, roll-backs, kills, shutdown | no lost update, acknowledged is durable, `DurableStore` is implemented, every change is saved |
| `routing` | 2 requests of 11 kinds, 2 accounts failing in every way, 2 tries | only rejecting accounts cool down, pinned requests stay, calls bounded, every request is answered |
| `reuse` | 3 requests of 2 clients, 10 inputs, 2 turns | clients kept apart, intact conversations hold the history |
| `cleaning` | 1 request, the cleaner and all admin handlers; listings and deletions fail | idle conversations are reclaimed |
| `stream` | an answer of 4 symbols with a fence, 3 calls, an image | nothing twice, the whole answer but for the named exceptions, an end, `AnswerStream` is implemented |
| `protocols` | MCP: 2 sessions, 2 requests, 1 worker, channels of 1. Responses: a stream of 5 lines; or 3 requesters in 2 buckets of 2 kept responses each | a call in one place, answers kept and not astray, every request answered; a stream is ended; the newest responses can be followed up |
| `tools` | 2 user turns, 4 calls, 4 tools of which one undeclared, 9 routing texts, 9 answers, all tool choices, both planning modes, a budget of 6 messages | no call dropped on an outdated verdict, changing calls alone |
| `console` | 2 browsers, clerks, editors, operators; 3 proxies, 1 of them working; 2 benchmark runs of 2 tasks with 3 steps; 3 usage records; 2 sweeps of 3 conversations in 2 rounds; all saves may fail, restarts | the parts of the console agree with their files and with themselves; clean ends of a sweep are clean; benchmarks end |
| `reuse_recovery` | 2 requests of one client, one streamed | violates `HistoryLenIsTrue` |
| `protocols_left` | a streamed response whose client leaves | violates `InnerEnds` |

Why the bounds are enough. Three holders of global slots are one upstream and two
parked on the same account, so that a closed channel wakes more calls than can go on;
the fourth is kept out. Two `EnsureValid` callers are a leader and a
joiner, or a leader and one with a stale copy, and the image request is the third
redeemer; two callbacks are the one that finishes a sign-in and the one that writes over it.
Two changes and three flushers suffice for an older snapshot to overtake a
newer one. Two accounts and two requests give a failover from either account while the
other request moves the cursor and the cooldowns; requests that do not share the rotation
(the other four kinds of `MixedInputs`) run one at a time, which `Together` says. Three
requests are one that opens a conversation, one that continues it, and one of another client
between them. Sweeps need a second round and something to keep. Four symbols with overlaps of two or three give a
continuation that is shorter, as long and longer than an overlap, within, before and after the fence. A
channel of one is full after one answer; two sessions are the right one and another.
A budget of six messages is exceeded in the second turn, so that the ledger's history is trimmed.
Two actors of each kind at the console are enough for any two handlers to cross; three are not tried.
What could need more (more accounts, handlers, clients or conversations) is covered by the
theorems where there is one.

Deadlock is checked in `stream`, whose only rest is `Done`. Elsewhere the models really stop: calls
and requests come once, versions, time and token sets are bounded.

Each property of a passing run has a mutant in `PROJECT.json`: a definition,
changed as a plausible bug would change it (the operators introduced by
"Variant:" in the modules), with which TLC finds the property violated. Variants are
not part of the models. The type invariants `TypeOK` hold in all of these instances; they are
proved for `ChatAdmission`, `AccountRouting`, `ConversationReuse` and `StreamedAnswer`, and in the parts the
arguments need for the others, and are not spent as properties of runs.

## Fairness

- `ChatAdmission`, `TokenStore`, `AccountRouting`, `PersistStore`: weak fairness of the
  steps of each started call, because goroutines are scheduled. Nothing forces a request
  to arrive, a context to end, an administrator to act, or a restart.
- `ChatAdmission`: no more than that. Each call uses its slots once, so the contenders
  for a slot run out and nobody has to be chosen in turn.
- `AccountRouting`: a request asks for its account's slot again and again (`Send`,
  `Resend`), with others that do the same; strong fairness stands for Go's scheduler not
  starving one contender for ever.
- `TokenStore`: the endpoint answers or the connection breaks. `Refresh` has no deadline
  of its own, so this is an assumption on the network. Sign-ins need no fairness.
- `PersistStore`: the disk does not fail for ever (strong fairness of a successful
  write and rename), and `sync.Mutex` does not starve a waiter (strong fairness of
  `Lock`). A killed process owes nothing.
- `ConversationReuse`: the loop of `StartAutoCleanup` goes on (weak); listing and
  deleting succeed at last (strong), both being calls over the network.
- `StreamedAnswer`: weak fairness of the server's own steps. The upstream may send nothing but
  pings for ever: the deadline of a call (`ChatHubCall`) ends it.
- `McpServer`: every started request goes on, the queue's timer fires, and a session's handler, as
  long as its client is there, reads its channel (weak). No worker has to take a call and no client
  has to stay.
- `Responses`: the chat returns and the adapter goes on (weak). That a line is read is the
  adapter's doing, so nothing is assumed of writes; that is what `InnerEnds` fails on.
- `Benchmark`: weak fairness of each goroutine; nobody has to press stop.

## Proofs

TLAPS checks every step; nothing is assumed but the named `ASSUME`s of the modules.

| Theorem | Says |
|---|---|
| `ChatAdmissionProofs`: `TypeCorrect`, `SlotsConserved`, `LimitsRespected`, `WakeupsKept` | `TypeOK`, `Conservation`, `UpstreamBounded`, `NoLostWakeup` for any finite set of calls, any accounts, any positive limits |
| `TokenStoreProofs`: `DiskIsCurrent`, `RefreshIsSingleFlight` | `DiskCurrent`, `SingleFlight` for any accounts and calls |
| `TokenStoreProofs`: `SuccessesAreDurable`, `SignInsKeepTheStore` | `OutcomesAreDurable`, and again `DiskCurrent` and `SingleFlight`, of `SignInSpec`: with sign-ins, for any number of callbacks |
| `PersistStoreProofs`: `Refinement`, `AcknowledgedIsDurable`, `NothingIsLost` | `Spec => FileFollowsMemory` (the refinement of `DurableStore`), `AckedIsDurable` and `NoLostUpdate` for any set of handlers, with failing writes, kills and roll-backs |
| `AccountRoutingProofs`: `TypeCorrect`, `OnlyRejectingAccountsCool` | `TypeOK`, `NoInnocentCooling` for any pool, requests and limits |
| `AccountRoutingProofs`: `PinnedRequestsStay`, `CallsAreBounded` | `PinnedStays`, `CallsBounded`, likewise, without the tool router the first; the second if plain calls have none |
| `ConversationReuseProofs`: `TypeCorrect`, `ContentStaysApart`, `HistoryIsThere` | `TypeOK`, `NoCrossTalk`, `IntactHoldsHistory` for any requests, clients, turns, windows and bounds, with the cleaner and all admin handlers |
| `StreamedAnswerProofs`: `StreamTypes`, `NothingIsSentTwice`, `StoppedIsWhole`, `ClientSeesItsStream` | `TypeOK`, `NothingTwice`, `WholeAnswer` and `Spec => ClientSees` (the refinement of `AnswerStream`) for any length of the answer, number of calls, overlaps, fence and sentences |
| `ProtocolProofs`: `CallsInOnePlace`, `AnswersAreKept`, `RecentCanBeFollowed` | `CallInOnePlace`, `AnswerKept` for any requests, workers, sessions and capacity; `NewestFollowable` for any callers, tenants and limit |
| `ProtocolProofs`: `TurnTypesHold`, `ChangesStaySerial`, `VerdictsStayFresh` | `TurnTypes`, `ChangesAreSerial`, `NoStaleVerdict` of `ToolTurns` for any tools, replies of the model, budget and limits, and conversations of any length; the last two for the tools their hypotheses name |
| `ConsoleProofs`: `DeploymentsAreSaved`, `PasswordIsAgreed`, `AnswersAboutKeysStay`, `SettingsAreAgreed`, `WorkingProxyIsFound`, `CleanupsClean` | `DeploymentsSaved`, `PasswordAgrees`, `AcknowledgedKeys`, `SettingsAgree`, `WorkingProxyFound`, `CleanMeansClean`, each of its component's specification, for any number of concurrent requests and any bounds |
| `ConsoleProofs`: `WorkGetsItsScore`, `DoneRunsAreComplete`, `UsageIsWhole` | `WorkIsCredited`, `CompleteRun`, `LogIsWhole` of `Benchmark` with its `UsageLog`, for any tasks, steps, scores and records |

The arguments:

- Admission. `IndInv` adds to the counters' equations that they are bounded by the
  limits. The equations need the sets of holders to be finite, hence `HoldersFinite`;
  each action moves one call into or out of one set (`GlobalUnmoved`,
  `AccountUnmoved`, `SameHolders` cover those that move none). `WakeupsKept`
  needs `waiting` to be emptied by exactly the step that lowers a counter.
- Token store. `SingleFlight` is not inductive alone: `FlightInv` adds that only
  `EnsureValid` calls are in the flight's stages and that the table has the leaders and no
  others. `DiskCurrent` is inductive: every mutation ends in a save that
  either brings the file up to date or sets the flag. Both are theorems of `TokenStore`; what `SignIn`
  adds to its steps is another `Upsert`, as `Login` is.
- Persistence. `IInv` is `Types`, `Behind` (the file is never ahead), `OneWriter` (who is
  between lock and unlock holds `writeMu`), `SnapshotsFresh` (what is about to be written
  lies between file and memory, the temp file is the writer's) and `OwnChangeCarried` (a
  saving call's change travels from memory to snapshot to file). `OneWriter` is what makes
  a rename move the file forward only; the refinement follows step by step.
- Routing. `Good(q, accused)` says of each request that its counters are in range, that
  its accounts are set where its stage uses them, and that a rejection it still carries
  belongs to an account in `accused`; it survives more accusations (`GoodGrows`), so each
  action has only its own request to look at (`OneRequestChanges`). `TypeCorrect` needs no
  assumption beyond the module's own. `OnlyRejectingAccountsCool` assumes that an error of the token endpoint does not read as a
  rate limit ("throttled" not in `RefreshErrors`); without it the property is false,
  see below.
- Conversation reuse. `BindingOK` (a binding's history is in its conversation, its
  IP the only one there, unless shared or not intact) and `RequestOK` (the same for a
  request on its way) are kept because a conversation only `Evolves`: what was said stays
  while it is intact, who wrote stays while it is not shared.

- Sign-ins. `DurableInv` is `OutcomeInv` (who shares a flight shares its outcome, and has none
  before it has begun), `DiskCurrent` and `SignInInv`: each callback's copy says
  "authenticated" only of tokens that were saved, so the late write of such a copy does too.
  `SaveRemembers` is the fact about every save. `AccountedInv` says where memory's tokens are: in the
  file once, or in `unsaved`, because a save failed; so it is with what is only read from memory.
- Lost updates. `NoLostUpdate` is inductive beside `IInv`: whoever ends a flush without
  memory's contents leaves a flag or somebody else who carries them (`NotLost`, `CarriersStay`).
- Where requests stay and what they cost. `Behaved(q)` is `Kept` (a request that
  the code must not move is at no stage of a failover) and `Costed` (the calls so far, with those the
  rest of the path may still make, are within the budget, by stage). `PinnedRequestsStay` is about
  every input: that a conversation stays with its account is said, in `PinnedStays` itself, of
  the requests whose chosen account owns it (`AtHome`), since the code does not compare the two; the
  tool router is exempt, and so is the move of a stream's recovery, which then drops the
  conversation. `CallsAreBounded` assumes that the handlers which make a single plain
  call have no tool router, as is so in the code and in `MCAccountRouting`'s inputs.
- The streamed answer. The symbols are the answer's positions, so "nothing twice" is that the
  output is increasing. `StreamInv` adds to `TypeOK`: `CallOK` (a call has written the answer
  from where it started), `Reach` (up to its last symbol the delivered text has no gap, a
  running call starts within it or just after it, and what it wrote is delivered or in the buffer),
  `InOrder` (unless a continuation started inside, the text is the answer's beginning and what
  is sent, held and pending is part of it in order) and `NoHoles` (what is sent, held and pending
  makes up the text, unless a call was taken out of it). `PassedFacts` says that the reconciler passes on the
  part of a continuation behind the text; `ScannedFacts` that the fence scanner, a recursive
  function, only divides the text and takes out a callable fence (`ScanIsDefined`, by minimal
  counterexample). For the refinement each step leaves `out` a prefix of the new one.
- MCP. `OnePlace` says where a call may be at each stage of its request, and `AnswersAtHome` that what is
  in a channel belongs to it. `PlacesCounted` turns places into the cardinalities of the property.
- Kept responses. `OnlyOldGo` (what is gone was old, or has `MaxStored` later ones of its tenant) is kept by
  `Record` because it removes the least of a full set: the later ones are that set without it.
- Tool turns. Each of the model's replies ends in one of four ways (`Proceeds`), which is all that
  the invariants look at. `ChangesAreSerial` needs the types only, and that `limitToolCalls` gives
  out a beginning of the calls (`LimitFacts`). `NoStaleVerdict` needs `TurnsInv`: the
  conversation consists of batches of calls, each followed by its results in order (`Shaped`); the
  messages a request works on are an end of all of it, because one that has lost its last result
  fails the protocol check (`FrontIsOpen`) and the trimming only cuts in front; and for each outdated
  observation there is a batch with a change which that observation does not follow (`Overtakes`).
  If the ledger of the trimmed messages still has the observation, it then has the change too, so
  `filterCompletedCalls` lets it pass (`VerdictIsFresh`). `ChangesStaySerial` assumes that no changing tool is
  named only like a reading one, `VerdictsStayFresh` that none is named like an observing one and that
  tools answer something: the code goes by the words in names (`web/settings.go:266`,
  `web/agent_ledger.go:222`) and takes a blank result for none (`web/agent_ledger.go:153`). The
  run's tools satisfy all three; without them the properties are false.
- Deployments, password, clean-ups. `DeploymentsSaved` is inductive. `FileOfLatest` says of crossing
  changes of the password that the last save is that of the latest or another is to come; `Agreeing`
  is what holds when none crossed. `NothingPassed`: a walk that deleted nothing
  and missed nothing has everything old before it.
- Keys. `KeysGood` follows each answer from memory to file: `LastChange` and `Held` say what the clerk
  that made the latest change may take back. The lists have each id once (`Distinct`), so that
  removing and inserting at an index moves one key (`Of` is what a list says of an id).
- Settings. `Stage` says what an editor that runs alone has written so far, `Agreed` what
  holds at rest. `NewPool` is recursive in the list; that it exists and has each proxy
  once is proved by minimal counterexample (`Least`, from the library's
  `WFMin`), which needs no induction theorem with an operator parameter.
- Proxies. `Tried(w, C)`: there is a set of as many cooling entries as the request was replayed, and it is now
  on another one; with `Size` of them and one that works the request cannot have failed.
- Benchmark, usage. `Matching`: the results written and the tasks left make up the selection. `Credited`
  is carried from grading to appending. `Placed(file, batch, waiting, lost, repeated, n)` says that the three
  places are disjoint, rising, one below the other, and hold all records but the lost and the repeated;
  `Leaving` that it stays so when a write leaves a part of the batch.

The assumptions are what the code guarantees: a missing call is no call (`NoCall`), "none" is no proxy,
proxies are listed (`Lists`), a score is between 0 and the total (`Score`), a selection consists of known
tasks (`Selections`), what the model writes are calls of nameable tools (`TurnsAssumption`), thresholds and bounds
are numbers.

### Only model-checked

- All liveness (`EveryCallEnds`, `EveryCallReturns`, `EveryChangeSaved`, `EveryRequestAnswered`,
  `IdleReclaimed`, `StreamEnds`, `RequestEnds`, `ResponseEnds`, `BenchEnds`): fairness,
  `ENABLED` and leads-to are outside what these provers do.
- What a recursive definition computes for every input, except `NewPool`, `Scanned`, `Among`, `Protocol`
  and the concatenation in `Made`, whose facts are proved by minimal counterexample.

## What the models show

Two disagreements between the code and what it says of itself are kept as runs and
described under "findings" in `PROJECT.json`: the incremental prompt that a stream's recovery
sends into an empty conversation (`web/stream_recovery.go:139`), and the chat that stays behind, with
its slots, when the client of a streamed response leaves (`web/protocol_handlers.go:84`).

The properties exclude the following, each seen as a behaviour of the models while
they were written. They are recorded here rather than as runs.

Accounts, tokens and files:

- `web/account_concurrency.go:120`: calls queued on a full account keep their global
  slot, so they can keep out calls for idle accounts (README.md:200 says other accounts go on).
- `auth/cache.go:240`: a caller that copied the record before a flight ended redeems the
  spent refresh token again (cache.go:39-41 wants to prevent it). `cache.go:286`: the
  failure branch writes the old copy back over a rotation that an image request saved.
- `auth/cache.go:244`: when the save of a refresh fails, its leader and joiners get the error, but
  memory keeps the new token, and the next `EnsureValid` hands it out although it is not in the
  file; a kill then loses it, with the refresh token it was bought with. `web/images.go:310`: an image
  request whose rotated refresh token could not be saved logs that and goes on.
- `web/server.go:698`: a sign-in is not used up. A second callback (a reload of the page) turns
  "authenticated" into "error", after an error a success keeps the error's text, and a
  callback that comes back late restores a sign-in that `pkceStatus` had forgotten.
- `cmd/server/main.go:53`: the last flush runs while accepted requests are still served.
  `web/persist.go:51`: a failed immediate save leaves a store dirty that the loop may not know.
- `web/keys.go:126,136`: a change taken back after a failed save is not marked, so that memory and
  file differ until the next change. The roll-back of a deletion at an index that has moved puts the key
  elsewhere or panics with the mutex held; that of a creation cuts off whatever key is last.

Routing:

- `web/server.go:961`: `chatOnce` answers with an error after a failover that succeeded
  (`server.go:934-935` says otherwise). `server.go:1743`: after a successful failover the
  rate-limited account is not cooled down. `server.go:1524`: the router's failover ignores a bound
  conversation. `server.go:752`: with more accounts than `maxAccountProbe + 1` a request may be
  refused although a healthy account was not looked at. `server.go:1730`: a closed connection of a
  non-streaming chat is not retried on another account. `server.go:1444`: a token
  refresh of the replacement that fails with 429 cools down the account being left.

Conversations:

- `web/session_resolver.go:276`: a session id with another history skips part of it.
  `:468`: session ids made up by the client never match. `:392`: reuse across IPs, which
  README.md:376 describes, does not happen. `web/server.go:1779`: the session id a reply carries comes
  from a second `Resolve`, which may hit another conversation.
- `web/auto_cleanup.go:112`: of too many conversations the newest are deleted. `:62`: what
  comes into use during a cleaning is not protected. `:123`: conversations beyond the first
  screen are not reached while the screen is all kept or protected. `:159`: user sessions
  outlive their conversation. `web/m365cloud.go:273`: the same screen limit in the sweep.
  `:260,272`: `kept` is never reset, so that what a sweep kept in its first round is deleted in the
  second.

Streams and responses:

- `chathub/client.go:425` says that a full snapshot is followed by deltas at the cursor, but all
  text goes through `emitSnapshot` (`:281`), which passes on nothing that does not begin with the
  text so far. So the deltas are skipped, and unless another full snapshot follows, the answer ends with
  "stop" where the snapshot ended. `WholeAnswer` excepts it as `Skipped`. A delta as the first text of a call
  is passed on.
- `web/stream_recovery.go:28`: an overlap that arrives in fragments shorter than itself is passed on
  and shown twice. A continuation that comes as a message only is not looked at once there is text.
- `web/protocol_handlers.go:84`: a line over 2 MiB stops the reader and blocks the writer, and the
  stream never ends. `:146`: an error line in mid-stream is skipped and the part before it reported as
  completed. A text before tool calls leaves its item open. Streamed responses are never kept, so
  they cannot be followed up.

Tools:

- `web/agent_ledger.go:153`: a write whose result is blank counts as pending: the next turn is refused
  with 409, and a verification after the write is dropped as already done (`:257-258`).
- A streamed request with a tool choice of "required" that gets no call falls through to a text.

- `web/protocol_handlers.go:246`: responses are kept by the value of `extractAPIKey`
  (`web/server.go:2047`), which cuts a bearer key to 8 bytes: `m365_` and three hexadecimal digits,
  or the beginning that most JWTs have in common. Requesters whose keys begin alike share a bucket, make room in it
  at each other's expense and can follow up each other's responses. The same key in `X-API-Key` is not cut
  and has another bucket. `NewestFollowable` speaks of buckets.

MCP and the console:

- `mcp/queue.go:147-149`: the result of a call that timed out is never forwarded. Nothing in the program
  makes a queue (`NewToolCallQueue`) or gives a session its provider (`SetSessionTools`), so that what `McpServer`
  says of tool calls is about these functions as a library; the sessions and their answers are in use.
- `web/settings.go:204`: settings in memory, file and pool disagree after crossing updates until the
  next update that runs alone, or a restart. Every update, whatever it is about, configures the pool,
  so that an empty list puts an empty pool in place of `M365_OUTBOUND_PROXY`. The chat client keeps
  the dialer and the HTTP client it took at the start (`chathub/client.go:124-133`); the console does list
  `proxyPool` under `restartRequiredFields` (`web/settings.go:199`). So `SettingsAgree` is about lists, not
  about where connections go.
- `outbound/pool.go:107`: a WebSocket through an `http://` entry is dialled directly, past the proxy, since
  only `Proxy` is set for such an entry (`outbound/proxy.go:169-171`) and the pool's dialer looks at
  `NetDialContext`; the outcome is marked as the entry's.
- `outbound/pool.go:156` says a request is replayed once; it is replayed up to `Size + 1` times. A
  request without a body that fails over panics, since it has no `GetBody`.
- `web/deployments.go:224`: the result of a check is lost when the list moved meanwhile.
- `web/benchmark.go:1098`: the goroutine of a stopped run writes its results into the run started next.
- `web/usage.go:105`: records taken for a file that cannot be opened are lost; a short write leaves
  part of a batch in the file and the whole of it to be written again. It may cut a line, to which the next
  append adds its first record without a line break, so that `load` (`:67-70`) skips both: after a failed open, or a
  restart, that is another record than the one that was cut.

## Limits

- The Copilot cloud and the token endpoint are modelled from how the code uses
  them: the listing shows the newest conversations first, a deletion may fail or have no
  effect, a refresh returns a new set with or without a refresh token, or an error; the upstream
  of a stream writes some part of one answer, in order, and may revise or repeat it.
- Requests that bring their own `conversation_id` or a `session_key` (`sessionStore`) are
  not in `ConversationReuse`; the loading and file format of the resolver's and the manager's
  files are `PersistStore`'s numbered contents.
- Windows are counted in ticks; two things within a tick are equally old. The manager runs
  in its default mode. The cleaner's cap of 100 rounds is left out, and in
  `cleaning` a listing shows everything, which `IdleReclaimed` says in its premise.
- All conversations are treated as one account's, while the cloud client belongs to the
  first account only (`web/server.go:158`).
- A text is a sequence of numbered symbols, no two of which are alike (so a delta never happens to begin
  with the text before it, which the code would take for a snapshot); an overlap is counted in symbols (16 to 2048 bytes in the code); a tool's name stands for
  the words in it, its arguments for whether they satisfy the schema.
- The usage log's ends are ends of the process: what a machine that stops loses between write and sync is left
  out, and a write is never cut right before a line break.
- Cooldown lengths, error texts, message bodies, formatting and logging are abstracted; an
  error is one of the classes the code distinguishes.
- The runs compose components that share state. A whole request, from its key to its streamed end, is
  in no single instance: its state space is out of TLC's reach.

## Not modelled

- Image generation (`web/images.go`), except the token it redeems: downloads, polling and a timer.
- Diagnostics and tracing, panic guards, request ids: nothing the answers depend on.
- Start and configuration (`cmd/server`, `internal/config`): reading the environment; the last flush is
  in `PersistStore`.
- `tools/`: command-line programs outside the server.
- `auth/device.go`, `outbound.Pool.Remove`, `apiKeyStore.revoke`: nothing calls them.
- The translation of messages between protocols, prompts, schemas, and the syntax of tool calls: data
  without protocol state, and long text transformations.
- The MCP client and the stdio server: one line after the other, without concurrency.
- Statistics (`web/cache_stats.go`, the usage page): computed from what is modelled, and shown only.
