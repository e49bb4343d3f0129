# Verification of PeerClaw

PeerClaw is a Rust node that runs AI agents and sells and buys their work on a
peer-to-peer network: a node asks the network to do a job, other nodes bid, the
best bid is accepted, tokens are held in escrow until the result arrives, and
local models, caches and batches serve the work. Around that core are the
agent's tools, channels, routines and memory. This directory holds TLA+ models
of the parts of the node in which state changes over several steps or several
actors, TLC configurations that check them on small instances, and TLAPS proofs
of the results that matter most.

The models are translated from the source under `src/src/`; `PROJECT.json`
maps every definition that models code to the lines it stands for. Paths below
are relative to `src/src/`.

## Contents

| Module | Models | Source |
| --- | --- | --- |
| `WalletState`, `Wallet` | the persistent wallet record and what each operation does to it; one wallet shared by tasks: check, change, store, crash | `wallet/` |
| `EscrowLedger` | the abstract ledger a wallet promises its owner | (abstract) |
| `Marketplace` | requests, bids, acceptance, execution, settlement between nodes, each with a `WalletState` wallet | `job/`, `runtime.rs`, `cli/serve.rs`, `executor/remote.rs` |
| `JobOffers` | the price a provider asks; executions sent to other nodes | `job/pricing.rs`, `executor/remote.rs` |
| `P2pNetwork`, `ServeNode` | connections, events and the list of peers; the event loop of `serve` and its web clients | `p2p/mod.rs`, `cli/serve.rs`, `web/` |
| `StatusPages` | the figures of the dashboard while they are copied | `cli/serve.rs`, `web/mod.rs` |
| `SwarmManager` | agents of peers, actions, timeline, the bridge from the network | `swarm/`, `node.rs`, `web/mod.rs` |
| `RoutineEngine`, `Heartbeat` | triggers, loops and status of routines; the heartbeat, its channel and forwarders | `routines/` |
| `ModelCache`, `LocalModels`, `ModelDistribution` | loaded models; model files fetched, models of Ollama; models handed over in chunks | `inference/cache.rs`, `inference/mod.rs`, `inference/ollama.rs`, `cli/models.rs`, `inference/distribution.rs` |
| `BatchAggregator`, `GgufGeneration` | batched inference; one inference with its batch and context limits | `inference/batch.rs`, `inference/gguf.rs`, `executor/mod.rs` |
| `TaskExecutor` | routing, load counters, dropped calls | `executor/` |
| `PaymentChannel` | two ends of a payment channel, lock by lock | `channel/mod.rs` |
| `ProxyGate` | free tier, rate limits and price rules of the paying proxy | `proxy/` |
| `ChatSession`, `ChatCompletion` | the interactive chat and its commands; one request to the completion API | `cli/chat.rs`, `web/openai.rs` |
| `ChatChannels`, `ChannelLimits` | console, webhook and event stream under one manager; rate limiter and connections | `channels/` |
| `Messaging`, `MessagingPlatforms` | the registry of messaging links and its locks; console, webhook and peer-to-peer platforms | `messaging/` |
| `Mcp` | the client of a tool server and the manager of several | `mcp/` |
| `BuiltinTools`, `FileTools`, `AgentTools` | shell and web pages; files and lists; tools of the network and in WASM | `tools/`, `wasm/` |
| `VectorStore`, `WorkspaceFiles`, `Skills` | memories, collections, embedder; files and IDENTITY.md; skills on disk and chosen for a prompt | `vector/`, `tools/builtin/memory.rs`, `workspace/`, `skills/` |
| `SafetyLayer` | what becomes of a tool's output | `safety/` |
| `NodePrograms` | first start, commands on one database | `cli/`, `identity/`, `config/`, `db/` |
| `MCWallet`, `MCMarketplace`, `MCNode`, `MCParts` | instances for TLC | |
| `Totals` | sums of natural numbers over a finite set | (arithmetic of the models) |
| `WalletProofs`, `MarketplaceProofs`, `RoutineProofs` | theorems of the modules they are named for (`RoutineProofs`: `RoutineEngine` and `Heartbeat`) | |
| `PaymentProofs` | theorems of `PaymentChannel` and `JobOffers` | |
| `InferenceProofs` | theorems of `GgufGeneration`, `TaskExecutor`, `ModelCache`, `ModelDistribution` | |
| `ServiceProofs` | theorems of `Messaging`, `BatchAggregator`, `NodePrograms` | |
| `TotalsProofs` | lemmas about sums | |

To check a model: `tlc -config MCWallet.cfg MCWallet`; to check the proofs:
`tlapm MarketplaceProofs.tla` and so on.

### The two suites

`MCNode` holds the services of a node, which run tasks of their own, and
`MCParts` the parts that calls go through. Their parts share no state in the
code, so a product of them would show nothing: a variable `component` is chosen
in the initial state among `Components`, and only the chosen part moves. Each
invariant of a suite is a conjunction of `component = "x" => P` over parts that
promise the same kind of thing. A module with two independent parts
(`Skills`, `FileTools`, ...) has a section and a next-state relation for each.
The modules with proofs are extended by the suite and the others instantiated, so
that what TLC checks and what is proved are the same formulas: `GgufGeneration`,
`TaskExecutor`, `ModelCache`, `ModelDistribution` and `PaymentChannel` (and
`ProxyGate`) in `MCParts`; `RoutineEngine`,
`Heartbeat`, `Messaging`, `BatchAggregator`, `NodePrograms` and `JobOffers` in
`MCNode`.

## The system

| Component | State it keeps | Operations | Who calls it | Hard part | Correct when |
| --- | --- | --- | --- | --- | --- |
| Wallet (`wallet/`) | balances, escrows, transactions, spend per hour and day behind one lock; a stored copy | credit, debit, create/release/refund escrow, stake, unstake | runtime, marketplace, payment channels, any task with the `Arc<Wallet>` | limits are checked before the lock is taken; the store follows the unlock and may fail; crash | tokens are conserved, held tokens are the active escrows, an Ok survives a crash |
| Job marketplace (`job/`) | requests, bids, active and completed jobs, in memory | create_request, receive_bid, accept_bid, submit_result, settle_job | the event loop | late, lost and reordered messages; an error between two maps or between a map and the wallet | a job is in one place, executed and paid at most once, within budget |
| Job runtime (`runtime.rs`, `cli/serve.rs`, `executor/remote.rs`) | collection times, a provider's pending requests | gossip handlers, execution, auto_accept_bids | one event loop per node | several nodes act on the same message | only the winner executes |
| Network and event loop (`p2p/`, `cli/serve.rs`, `web/`) | connected peers, channels of web clients, figures of the pages | poll, handle, inference, submission, status | libp2p, web handlers | two queues between a connection and the page; clients that time out | lists follow connections; a submission makes one job at most |
| Model cache and engine (`inference/`) | loaded models with reference counts, a memory estimate, under two locks | get, insert, ensure_capacity, evict_lru; load_model, generate | concurrent inferences | everything read is stale when used | a model in use is not evicted; limits hold up to the tasks racing |
| Batch aggregator (`inference/batch.rs`) | a bounded queue, the batch, statistics | submit, shutdown, the loop of the processor | concurrent callers | shutdown racing submit; callers that leave | every call is answered once |
| Model distribution (`inference/distribution.rs`, `cli/models.rs`) | downloads, models offered, files | start_download, write_chunk, complete_download; download, remove | gossip, commands | check and start apart; a body that stops half way | a file in place is complete and hashes right |
| Task executor (`executor/`) | active task counters | route, execute | runtime | routing on a snapshot; dropped futures | counters are the calls that run |
| Payment channels (`channel/mod.rs`) | channels by id, ids by peer, under two locks | open, confirm, pay, pay_peer, receive_payment, close | any task; updates from the peer | lost, repeated, crossing updates; lock order | balances add up to the capacity and the ends agree, whatever arrives; one state per nonce |
| Swarm (`swarm/`) | agents, their peers, events, statistics | register, update, job events | the bridge of `node.rs`, web | a guard held through an else branch; look up and insert apart | one agent per peer; the one event whose handler waits for itself is known |
| Routines and heartbeat (`routines/`) | routines, their status, running flag; a channel of results | register, trigger, start, stop, subscribe | timers, web, events | overlapping runs, stop and start; a full channel | one loop per routine and start, true status, results in order |
| HTTP 402 proxy (`proxy/`) | free-tier and rate counters, price rules | check, use, price | HTTP requests | check and use in two sections | no caller gets more than the limit but for calls in flight; a rule prices its paths |
| Chat and completion (`cli/chat.rs`, `web/openai.rs`) | history, settings; an answer cut into events | exchange, compact, clear, commands | a user; a client | settings decided apart; a client that reads slowly or goes | no exchange is lost; events are in order |
| Interactive channels (`channels/`) | lines, responses, subscribers, counters | start, receive, respond, broadcast | users, agent | bounded queues; two atomics beside two locks | each line heard once, each response given once |
| Messaging registry (`messaging/`) | links by name, queues, counts | register, remove, send, broadcast, connect | agent, network | guards kept while waiting for room | no deadlock, nothing queued on a closed link |
| MCP client (`mcp/`) | pending requests of a child process, clients by name | call, answer, timeout, connect, disconnect | tools | late answers, end of file | every call returns with its own answer |
| Tools (`tools/`, `wasm/`), skills (`skills/`) | files, processes, offers, skills on disk | execute, list, install, scan, select | agent | several processes on one file; pipes that fill | what is read is what was written; all output comes back |
| Vector store, workspace (`vector/`, `workspace/`) | collections, memories, files | add, search, append, read | tools | lazily made globals; two writes for one append | nothing stored is lost |
| Safety layer (`safety/`) | patterns | check_output | agent | positions found before the text changes | what a pattern matches is gone, the rest kept or told; the exceptions are known |
| Identity, configuration, storage, commands | files, one database | first start, commands | users | two starts at once, a crash between truncation and write | one identity; tokens carry over |

The parts meet in three ways. The wallet is shared by reference: marketplace,
payment channels and runtime call it from different tasks. The marketplace is
driven by messages: one event loop (`cli/serve.rs`) polls the swarm, timers and
local requests, so its handlers never overlap on one node, but nodes interleave
freely. Inference and tools are called by many tasks at once and rely on locks.

## Models and code

**Wallet.** Every operation of `impl Wallet` does three things, and other tasks
may run between them. `debit` and `create_escrow` read the spend of the hour and
of the day under a read lock (`CheckLimits`). The operation takes the write
lock, checks the balance again and changes the state (`Credit`, `Debit`,
`CreateEscrow`, `ReleaseEscrow`, `RefundEscrow`, `Stake`, `Unstake`, or
`Refuse`). `save_state` then stores the whole state of that moment (`Save`), or
the store fails and the caller gets an error while memory keeps the change
(`SaveFails`). `CrashAndReload` is `Wallet::new` on what was stored last.
`WalletState` has the effects alone, as functions of the record, because
`Marketplace` applies the same ones. `credited`, `paid`, `debited` and `seq` are
not fields of the Rust struct: they add up what its transactions record.
`EscrowLedger` is what an owner may rely on: a ledger that balances, on which an
escrow only moves forward and a reported outcome is never taken back.

**Marketplace.** One action per message handler or per part of a timer's work:
`Submit`, `HandleRequest` (a provider bids), `HandleBid`, `HandleBidAccepted`
(execute_provider_job), `HandleResult` (submit_result and settle_job),
`TrackNew` and `AcceptBid` (the two halves of auto_accept_bids),
`CrashAndRestart`. `net` holds one copy of a message for each peer it will
reach; all others when `Reliable`, any of them otherwise. Messages arrive in any
order. Gossipsub removes duplicates and does not deliver to the sender, so the
model does neither. A handler that calls the wallet runs to its end before the
next, so change and store are one action (`WalletOp`), but the store may fail in
it, which ends the handler early.

**JobOffers.** The price as integers with the conversions of `pricing.rs`
(rates per unit, utilisation and reputation multipliers, rounding), and a
`RemoteExecutor` with its bids, its timeout and the escrow it makes. Acceptance
has three ends: `BidAccepted`, `BidRefused` (the bid expired, or the wallet's
limits), and `StoreFailed`, in which `create_escrow` has changed memory and then
cannot store it: the request stays open, and the price stays held for no job.
`unstored` is a history of these requests.

**Network, event loop, pages.** `P2pNetwork` opens and closes several
connections per peer and queues an event for each; `ServeNode` instantiates it
and takes one turn of the loop stage by stage. The code takes a peer off its list
when the first of several connections closes; the history `cutOff` names the
peers that are off it for that reason, and `ConnectedButCutOff` says that the
list is what the events tell, less exactly these. `StatusPages` copies the job
manager's figures one lock at a time while jobs move.

**SwarmManager.** The read guard of `peer_to_agent` is part of the state, since
its lifetime decides whether the writer behind it can ever go on. For an
advertisement of a peer without an agent it cannot: the guard of the `if let`
lives through the `else`, in which the same task asks for the write lock
(`manager.rs:309-312`). `EventHandled` says that this handler blocks itself for
ever and that every other one comes back. Recorders count jobs (`RecordJob`) and
other actions (`RecordAction`), each over several locks.

**Routines.** A call of `start` is a walk through the startup routines followed
by `SpawnLoops`; loops and listeners carry the number of the start that spawned
them. `Heartbeat` has the loop (`CheckBeats`, `CallBack`, `SendResult`), the
bounded channel and one forwarder per subscription, which locks the only
receiver for as long as it lives.

**Models and inference.** In `ModelCache` a step is what happens under one lock;
the value read stays with the task and is used later. `ModelDistribution` keeps
paths and files apart, since a rename moves a path and `File::create` truncates
what a path already names. `LocalModels` has the command line's downloads and
the resolution of a name among Ollama's. `GgufGeneration` counts tokens:
batches, contexts, positions and limits. In `BatchAggregator`, `submit` is
`CheckShutdown`, `SendRequest`, `CountIn`, `ReceiveReply`, with a caller dropped
at any await (`DropCall`); the processor is `LoopTop`, `TakeFirst` or
`FirstTimesOut`, `TakeMore`, `CloseBatch`, `InferGroup` per model and
`DropProcessor`. Its batch is a set: the code only groups and counts it.

**TaskExecutor.** A call routes on what `BackgroundUpdate` last wrote and on
the counters of that moment, and raises the counter of its kind only when it
begins; `RunTask` ends it with data or an error, `TaskCompleted` takes the
counter back, and `DropFuture` leaves it raised.

**PaymentChannel.** Both ends compute the same channel id, so each manager has
at most one entry for the peer. A step is a lock section. Only two calls wait
for a lock while they hold another: `pay_peer`, whose read guard on `by_peer`
lives to the end of its `if let` (edition 2021), and `close_channel`; `readers`
and `payWriter` record exactly these. `receive_payment` looks at the nonce and
at the sum of the balances and verifies no signature (the TODO of
`mod.rs:412`), so `Receive` takes any update at any time: of the other end or the
node's own, again, late, of an earlier opening, or of nobody. Three histories
serve the properties and are looked at by no step: `updates`, what each node
signed; `strays`, how many updates were taken that the other end never signed;
and `era`, which counts the openings of a node. The code has no such number: a
channel that is opened again has the same id and starts again at nonce 0, so
`OneStatePerNonce` says what is left of the "monotonically increasing nonce" of
`state.rs:14`, that two states a node signs under one nonce are of two openings.
Sums wrap at `U64` as in a release build.

**ProxyGate.** The gate is check and use of two counters, each in a section of
its own, with the hour and minute passing between them; `PatternStep` walks a
rule and a path with two indices, and `MatchIsGlob` compares it with the
definition of a glob.

**Channels and messaging.** `Messaging` keeps the guards (`mapGuards`,
`linkGuards`) that a sender holds while it waits for room. `MessagingPlatforms`
and `ChatChannels` follow single lines and posts through readers, queues and
disconnects.

**ChatCompletion.** A request waits for a place in the inference loop's channel
(32 in the code), which others fill too; only then does its timer of 120 seconds
start. `RequestEnds` is therefore in two parts: a request in the channel ends,
and one that waits for a place ends if there is room again and again.

**Mcp.** One client: writer, child process, reader, a table of pending calls,
callers with a timeout. The manager: connecting and disconnecting with the map
changed in several steps.

**Tools.** The shell tool is a child with pipes of bounded size and a timer
that starts after its input is written. What it shows is measured after
`from_utf8_lossy`, which makes three bytes of one that is no text: output of a
third of the limit may be cut, or end in a panic where the cut meets a character.
File calls read and write in pieces,
and an append finishes in tokio's background write. A WASM call compiles, sets
fuel and reads its output from what may have been replaced meanwhile; network
offers are ranked and age. The reader of web pages strips hidden parts in the
code's order.

**Stores.** A skill directory shared by processes, with scans that meet files
being written; selection under limits of count, score and tokens. Memories in a
store that the first callers make at the same time. Collections found and
inserted under separate guards. One vocabulary shared by threads; two vectors
of one text are equal up to the rounding of `f32` sums taken in another order. A
scan for skills whose directory cannot be read is an error after the map was
cleared (`ScanFails`).

**SafetyLayer.** `Scan`, `Replace`, `Policy` and `Sanitize` in the order of
`sanitize_tool_output`. Previews of matches are cut at a byte, so a match that is
not all ASCII may be a panic (`WideMatch`, and any rule of the policy). Private
keys are matched by their header line alone, so their body comes through. Output
above the limit is cut and returned before the scan (`safety/mod.rs:123-134`), with
its secrets, whatever `safety/mod.rs:6` says; `SecretsComeOut` says exactly what
comes out in each case.

**NodePrograms.** A first start writes `identity.key` and `config.toml` step by
step and may die between; commands open the database, read, change, write.

## Runs

| Run | Instance | Shows |
| --- | --- | --- |
| `wallet` | 2 tasks, 2 escrows, amounts 1 and 5, hours 3 to 5 of days of 2 hours, at most 5 tokens credited and 5 changes | `Conserved`, `EscrowBacked` (held tokens are the active escrows), `Durable`, refinement of `EscrowLedger`; concurrent debits pass a limit by at most one checked amount per other task (`OvershootBounded`) |
| `market` | 3 nodes, 1 job, 2 escrow ids, lossy gossip, failing stores, expiring bids, 1 crash | `JobInOnePlace`, `ActiveJobFunded`, `PaidOnceForWorkDone`, `ExecutedAtMostOnce`, `WithinBudget` |
| `market_jobs` | 2 nodes that serve each other, 2 jobs, 3 escrow ids, lossy gossip, failing stores | `JobsApart`: jobs, escrows and results are not mixed up |
| `market_live` | 3 nodes, reliable gossip, no failures, fair | no escrow is stranded (stores do not fail here), every servable request is settled |
| `node` | every part of `MCNode` | one invariant per promise: peers, pages and submissions, programs, prices and remote tasks, routines, heartbeats, batches, answers, messages, links of the registry |
| `node_live` | eight parts of `MCNode` on smaller instances, fair | calls return, network events get through the swarm's locks but for the one that waits for its own, what is stopped ends |
| `parts` | every part of `MCParts` | task counters, models, files, token loop, chat, prices and limits, tools, stores, payment channels. `FilesTrue` and `ServedAsPriced` are the properties of `ModelDistribution` and `ProxyGate`; the model files of the command line and of Ollama are in `StoresTrue`, the limits of the interactive channels in `ConversationKept` |
| `market_failure`, `market_expiry`, `cache_guard`, `channel_close`, `chat_shown` | one component each, as small as shows it | the five findings below |

Deadlock is not checked: every model may stop, because its counters are bounded
or all its calls have returned; what must not stop is a liveness property. Every
property has a mutant in `PROJECT.json`: a plausible slip in one mapped
definition (a dropped guard, an answer before the store, a subtraction that does
not saturate) that makes the same run fail. A property of a suite has one for
each of its parts.

### Bounds, and why they are enough

- `MaxOps`, `MaxCredited` (`wallet`): five changes are enough for a credit, two
  checked spends that race on one limit, a failed store and a crash between
  them; the amount 5 passes every limit but not the credits. With two hours per
  day the three hours cross a day, and leave the hourly window of two.
- `MaxTime`, `LastStart`, `CollectTime`, `BidValidity` (`market*`): one unit of
  time tells a bid that is still valid from one that is not, and a collection
  that is over from one that is not. `LastStart` keeps the clock from ending
  inside a collection; it restricts submission, not handlers. In `market_live` a
  bid stays valid for the whole run: the code gives it 60 seconds and decides
  about 8 seconds after the request. `market` has bids that expire.
- `MaxCrashes` 1: a second crash starts from a state the first can produce. The
  proofs take any number.
- Executor: an inference, two WASM calls on one place, and an inference that
  streams; two of one kind are enough for a limit passed on a stale counter.
- Cache: two tasks, models of size 1 and 2 and room for one or for two units;
  `MaxUses` 1 because a reference that is never given back grows without bound
  (finding 3).
- Token loop: a context of 5, batches of 3, prompts on both sides of both, and
  up to three tokens: every boundary is met with one to spare.
- `MaxOpens`, `MaxNonce` (payment channels): two openings have one channel
  follow another under one id; two nonces let updates cross, repeat and arrive
  after a newer one. Balances are `u64` with `U64` 3: any update can be tried, and
  a sum can wrap. `MaxStray` 1: one update that nobody signed sets the ends apart, a
  second one starts from what the first can leave. `StraysFollowed`: after such an
  update one call goes on at a time and nonces stay at one; the proof has no such
  bound.
- Routines: one routine of each kind of trigger and two starts, the second
  while the loops of the first are alive. Heartbeat: four results into one
  place, two subscribers: one waits for the receiver the other holds.
- Batches of two or three among three requests of two models, a queue of two,
  so that a request waits outside, one inside and a third in the batch.
- Messaging: three links, two of one name, queues of one; two users suffice for
  a reader and a writer of each lock.
- Swarm: two recorders, two jobs and a history of two, so that it is trimmed.
- Files: pieces of two units in reads of at most seven, two appenders, an
  overwriter and a reader; offsets at the end of what is there. `Length`,
  `MaxPattern`, `MaxPath`, `MaxPieces`, `MaxSecrets` bound data, not behaviour:
  patterns of three parts on paths of four, pages of four pieces, and outputs of a
  tool with three parts, of which two secrets may touch, nest or overlap, and a
  fourth that is cut off, contain each combination the code distinguishes.
- `NoOverlap` (`parts`): a second `start_download` of a file that is being
  received truncates it; what is then received into it is not followed further.
  The proof of `DownloadsAreTrue` follows it, with the promise as `FilesTrue` limits it.
- Token amounts are natural numbers. The code's are `u64` in millionths and its
  additions are unchecked; no amount that can be credited comes near 2^64.
- Nodes share one clock in `Marketplace`. The code compares a bid's expiry,
  written by the bidder, with the requester's clock.

### Fairness

- `Marketplace`: the event loop selects on the swarm and its timers forever, so
  a delivered message is handled and the bid timer fires (weak fairness of
  `Deliver`, `TrackNew` and each `AcceptBid`); time passes (`Tick`). Nothing is
  fair about `Submit`, which users do, or crashes.
- Event loop, swarm bridge, routines: their tasks run (weak fairness of `Loop`,
  `BridgeStepNext`, `StartStep`, and of each loop and listener).
- Batches: tasks that can run do run and an inference ends (`SendRequest`,
  `CountIn`, `ReceiveReply`, the processor's `RunProcessor`). Nothing makes a caller start, a shutdown
  come or a caller leave. Weak fairness of `SendRequest` is enough because no request is
  sent twice, so a queue with room keeps it.
- Tool servers: the server reads what is written to it; nothing makes it answer.
- Messaging: each user goes on when it can, and the network layer takes messages
  out of each queue (`Drain`); without that a full queue holds its senders for
  ever, and the code does not bound that wait.
- Shell: the child need not do anything; the tool's own steps and its timer are
  fair. Only commands whose input fits the pipe are claimed to return, because
  the code writes the input before it starts the timer.
- Completions: a request that waits for a place in the channel gets one if there is
  room again and again (strong fairness of `Send`: tokio's channels give room to
  those who wait in turn); the timer runs out; the client reads, or goes. The
  inference loop need not take anything, nor answer.
- Payment channels: a call that has begun and can go on does (`Continue`).

## Proofs

All theorems hold for every value of the constants that satisfies the named
assumptions of the modules; these say that bounds, prices, limits and clocks are
natural numbers, that windows and days are not empty, that amounts are positive
(the code refuses a credit of 0) and, for the wallet, the executor, the model
cache, the messaging registry, the batches and the commands, that the tasks,
callers or processes are finitely many. No theorem needs a bound to be small.

| Theorem | Says |
| --- | --- |
| `WalletProofs!TypeCorrect`, `Conservation`, `Durability` | `TypeOK`, `Conserved` in memory and on disk, `Durable`: an Ok is never lost |
| `WalletProofs!EscrowsBacked` | what a record holds in escrow is the sum of its active escrows, in memory and on disk |
| `WalletProofs!OvershootIsBounded` | concurrent debits pass a limit of an hour or a day by at most what the other calls in flight have had checked |
| `WalletProofs!WalletImplementsLedger` | `Spec => LedgerSpec`: the saved wallet refines `EscrowLedger` |
| `MarketplaceProofs!TypeCorrect`, `InOnePlace`, `Funded` | a job is in one list; an active job has an escrow of its own, still held, of the bid's amount |
| `MarketplaceProofs!ExecutedOnce`, `PaidOnce`, `BudgetKept`, `ApartAndPaid` | executed at most once, paid at most once and only for work done, within the budget; the same for several jobs at once |
| `MarketplaceProofs!HeldForActive` | if stores do not fail and nodes do not crash, tokens are held for active jobs only |
| `PaymentProofs!ChannelsAreSound` | whatever updates arrive, a channel is funded, its balances add up to its capacity, and a node signs one state per nonce of an opening; ends that took only what the other signed agree at a nonce they share, or crossed |
| `PaymentProofs!OffersAreAccounted` | a bid is 45 % to 300 % of what its work comes to, and within the truncations of the prices of its parts; a wallet is short of the accepted bids' prices, each once, and of those whose escrow could not be stored; escrows are held for active jobs and for these only |
| `InferenceProofs!CountersAndRefusals` | a counter is the number of calls that run or were dropped; a node that may offload refuses only in the gap between its thresholds (an action property) |
| `RoutineProofs!RunsAndLoops` | a routine shown as running runs; two loops never serve one start |
| `RoutineProofs!BeatsAreAccounted` | every result is in one place, in order, or was taken by a forwarder that ended; failures counted are the latest in a row |
| `ServiceProofs!MessagingLinksSound` | nothing is queued on a link that is not connected (an action property); a link's count is what was queued on it but for sends under way; what was removed stays disconnected |
| `ServiceProofs!RequestsAccounted` | a request is queued, in the batch or answered and in no two of them; the depth shown covers the queue |
| `InferenceProofs!CachePromises` | a model in use is not unloaded; the cache passes its number of models by one per other task at most; its estimate of memory is never below what is loaded |
| `InferenceProofs!DownloadsAreTrue` | until a start creates its file beside another call: chunks counted as received are in the file, a model on offer is in its file, a file under its final name is whole |
| `InferenceProofs!GenerationSucceeds`, `GenerationCounted` | a prompt that fits never fails for its size; an answer has as many tokens as it reports |
| `ServiceProofs!ProgramsStayApart` | one identity per directory unless first starts overlap; no token lost or made between commands, wherever they die; reports of what was stored; no active job missed |
| `*!*TypeCorrect` | type correctness of each of these modules but the token loop's, which is part of `GenerationInvariant` |

Few of these are inductive. What each argument adds:

**Wallet.** `Durable` compares what callers were told with the disk; that it
survives the next `Save` rests on the disk never being ahead of memory. `IInv`
adds `DiskBehind` (memory extends the disk: credits and payments only grow,
escrows only move forward), `PendingInMemory` (what a call in flight will report
is in memory already) and `ToldOnDisk`. Each operation has a lemma that its
effect extends the record it starts from; `Extends` is reflexive and transitive;
one lemma per kind of step shows the invariant kept. The refinement follows
step by step: `Save` maps to `Commit`, everything else to a stutter.

**Sums.** Two results of the wallet and one of the cache are about sums: of
escrows, of the amounts that calls in flight have had checked, of the sizes of
loaded models. A recursive sum is outside the prover, so `Totals` defines the sum
of `f` over `S` as the number of pairs of an element of `S` and one of its units.
What is known of the cardinality of finite sets then gives what the proofs need:
the sum is the same if `f` agrees on `S` (`TotalSame`), an element adds its value
(`TotalAdd`) or takes it away (`TotalRemove`), a change of one value changes the
sum by the difference (`TotalChange`), a sum over fewer elements, or of smaller
values, is smaller (`TotalPart`, `TotalMonotone`), and no value is larger than
the sum (`TotalBounded`).

**Escrows.** `EscrowBacked` is inductive once it is stated of both records, since
a crash reloads the stored one (`Backed`). An operation changes one escrow, or
none, and `in_escrow` by what that escrow held.

**Limits.** A call that has passed `CheckLimits` debits later, on a record that
others have debited since. `SpendBounded` says that what was debited in this hour
(this day), plus what the calls in flight have had checked, is at most the limit
and one `max_spend_per_tx` per other task. A debit moves an amount from one term
to the other; a check adds an amount that fits the limit beside what was debited
so far, and each other call in flight has at most `max_spend_per_tx`
(`CallsChecked`); a new hour or day starts from no debits at all. What
`CheckLimits` reads is the spend the record keeps by hour and by day, so
`Tracked` says that these are what was debited, in memory and on disk, since a
reload makes the stored record the current one.

**Marketplace.** What makes the market safe is spread over the network: a
provider executes because of one message, the requester pays because of another,
and both may arrive after the request is gone, or after a crash of either node.
`IInv` says, beside the types,

- `OwnJobs`, `ListsApart`: a node's lists hold jobs it asked for, each in one list
  and once;
- `BidsWithinBudget`: every bid, kept or on its way, is within the budget, so the
  one that is accepted is;
- `AcceptedOnce`, `OneWinner`: a job with an acceptance in the network is pending
  nowhere, so there will be no second one, and all copies name one winner;
- `ExecutedWhenAccepted`: a job that was executed was executed once, its request
  is closed, and no acceptance on its way is addressed to the winner it names;
- `ResultsOfRuns`: a result in the network is of a run that happened;
- `ActiveIsAccepted`: whoever executes or has executed an active job is the bidder
  its escrow names, so the result that settles it is of the node that is paid;
- `ActiveJobFunded` and `WalletsSound`: the escrow is the job's own and held, and
  in every wallet, in memory and stored, an escrow is of a job of that node within
  its budget, and a released one has paid the one run of a job that is over.

Steps on the network only, on one node's lists and on its wallet have a lemma
each; `EscrowedWallet` and `ReleasedWallet` say what the two operations of the
wallet do to the one escrow they name and leave of the others. `HeldForActive` is proved separately, from `IInv` and the assumption that
no store fails and no node crashes: either makes it false (see the notes on
`create_escrow` below), which is why it is a property of `market_live` only.

**Payment channel.** An update that anybody may have made can set an end's balances
to anything that adds up, so nothing is assumed of what arrives. What a node signs is
its own doing: `SignaturesBehind` says that what it has signed is of an older opening
or, of the present one, of an earlier nonce or the very state it stands on, and
`OneStatePerNonce` follows. While nothing strayed, an end past its opening stands on
a state it signed or on the mirror of one the other end signed (`Accounted`); two
ends at one nonce then mirror each other unless each has signed there, which is
`EndsAgree`. That sums do not wrap while nothing strayed is `Fits`. `Funded` needs
`InHandOK`: what a task locked and carries to its insertion is within the escrow.

**Offers of work.** A price is truncated three times, in integers or in floats.
`TruncatedBounds` is what one truncation takes; `PriceInStages` names the two
values in between, and then nothing of the division is left: `PriceInRange` and
`PriceOfSum` follow from six inequalities per price, one stage after the other,
with the products of two variables compared by `TimesMonotone` and `TimesCancels`.
Both properties are about the bid last made, so the invariant is that it is one
of the prices at the present multiplier and discount (`BidPriced`). For the
executions, the bids that won are told apart by the jobs they are for
(`OwnBids`), so a job that is accepted adds one bid to them, which was not among
them, and its price to the sum (`Spent`, `TotalAdd`); so does one whose escrow
could not be stored. `Tracked` says, stage by stage, which of the two a job is.

**Model cache.** What keeps a model loaded under its user is the reference
count, and a task decides to evict on a count it read under a lock it has since
dropped; `UsersCounted` says that a model a task uses is in the map and has a
reference, entries that were replaced under their users aside. `RoomBounded` counts
the tasks that have seen room for a model and not yet inserted theirs: the models
loaded and these together are at most `max_models` and one per other task. For
the estimate of memory, `insert` puts a model in the map before it adds its size;
`Adding` is what is still to be added.

**Downloads.** The promise is about one file that two paths and several calls lead to.
`PathsApart` (the partial and the final path never name one file) holds always.
`InOrder` holds until `overlapped`: one call at most has the file in its hands
(`HoldsAlone`), nothing is installed while one is being received or verified
(`PartialAlone`), what is counted is written (`ReceivedWritten`), and the installed
file is on offer or about to be (`FinalKnown`, `OfferedWhole`). The proof has a lemma
per action; `FilesTrue` is what `InOrder` says of the states between calls.

**Executor.** The counter of a kind is the cardinality of a set of calls, and a
step adds one call to the set, takes one out, or moves one within it. That
`saturating_sub` never saturates is the case of `TaskCompleted`: the call itself
is in the set.

**Routines.** Loops of two starts may overlap, by design of the code. That two
of one start do not rests on where a call of `start` is: until it spawns its
loops, none of its generation exists (`Generations`); with `LoopsOnce` a loop is
known by its routine and start, and `OneHolder` says that one listener at a time
has the receiver of events.

**Heartbeat.** Results are numbered. What was delivered comes before what a
forwarder holds, that before what is in the channel, and that before the result
being sent (`InOrder`); only one forwarder has the receiver (`OneReceiver`);
none is missing and none is delivered twice (`NoneMissing`, `NoneTwice`). So a
result can only vanish with the forwarder that took it.

**Messaging.** What a call relies on is the guard it holds: from the moment a
sender has found the link connected until it has counted, it reads the link's
lock, so `connected` cannot change (`HoldsLink`); a loop over the map reads the
map's lock, so the links it has still to visit are registered (`HoldsMap`), and
`connect_all` cannot wake one that was removed. `Excluded` is the lock's own
promise. `SentAccounted` counts the callers between their queueing and their
counting (`Uncounted`), a set that each step changes by one at most.

**Batches.** What is queued or in the batch was sent and has no answer yet
(`FlightUnanswered`), so an answer takes exactly its requests out of flight; the
queue is injective because only a request that was never sent is appended.
`DepthCoversQueue` is not inductive: `depth` goes down when a batch is closed,
not when a request is taken. Until then the batch counts as well
(`DepthCoversBatch`), and `saturating_sub` loses nothing that the queue still
needs. `DepthBounded` says that a request is counted once.

**Programs of one directory.** That the running programs have the identity that
is on disk is not inductive: a start that found no key writes one later, over
whatever is there by then. While no first starts overlap (`raced` is false),
`KeysApart` says that one program at most is making a key, that none is past the
making of one while the file is missing or empty, and that who is past it holds
what is on disk. For the commands, the database is the lock (`FileHeld`): between
load and save nobody else has it, so what a process loaded is what is stored
(`WalletLoaded`) but for the one change it is about to save (`WalletToSave`).
`AgentsMade` and `AgentsNamed` say where a process is when its agent is in the
table, and that nobody names one before that; a stop in progress is of one agent
of another process (`OneIsStopped`). `JobsOfOne`: who has jobs runs with the
database open, so a command that got it open meets no node with jobs.

Left to TLC, and why:

- liveness under fairness (`JobCompletes`, `CallsReturn`, `EventHandled`,
  `StopsEnd`), outside the prover;
- properties of modules with recursive operators or folds over sequences (glob
  matching, selection of skills, the readers of text, redaction);
- the other invariants of the suites. They conjoin several modules, and those
  modules have no proofs yet (see the plan).

## Where code and documentation disagree

The five runs that end in a violation check a sentence of the source:

1. `market_failure`: an execution that fails sends its error text as a result,
   and the requester settles every result as a success. ("On failure or timeout,
   tokens are refunded", `wallet/escrow.rs:5`.)
2. `market_expiry`: nothing reads `expires_at`; a lost acceptance or result
   leaves the escrow held for ever. ("auto-refund after this time",
   `wallet/escrow.rs:84`.)
3. `cache_guard`: dropping `ModelUseGuard` releases nothing, so a model used
   once can never be evicted. ("Guard that releases model reference when
   dropped", `inference/mod.rs:343`.)
4. `channel_close`: `close_channel` and `pay_peer` take two locks in opposite
   orders and wait for each other for ever. ("immediate close",
   `channel/mod.rs:442`.)
5. `chat_shown`: a chat connected to a node, with streaming on, never prints its
   answer. ("For streaming, text was already printed", `cli/chat.rs:1194`.)

Seen while modelling, modelled as the code is unless said otherwise, and without
a run of their own:

*Wallet and market*

- `create_escrow` checks the hourly and daily limits but is never counted in
  them; `stake` ignores the reserve; only `credit` trims the transactions; the
  status `Expired` is never set. Releasing an escrow pays nobody: the worker's
  wallet is not credited.
- A store that fails inside `create_escrow` makes `accept_bid` return early:
  memory holds an escrow no job refers to, and the next tick makes another.
  `HeldOnlyForActiveJob` therefore holds only without failing stores, and its run
  has none; `OffersAccounted` follows such escrows beside the others. A store that
  fails inside `release_escrow` is in the runs too: the tokens are paid in memory,
  `settle_job` has removed the job, and an error is all that tells.
- `Runtime::new` credits 1000 PCLAW at every start (`runtime.rs:79`), and so does
  each `job` or `peers` command, which makes a runtime of its own. `wallet send`
  makes an escrow nobody releases.
- A provider that loses a bid keeps the request pending for ever;
  `job_creation_times` keeps entries of requests that are gone; the count of
  completed jobs stops at 100; a job whose settlement the wallet refuses is in no
  list.
- `auto_accept_bids` matches on a guard that lives through its arms, so
  `execute_job_locally` would wait for ever; no node bids on its own request, so
  it is never called there.
- `RemoteExecutor` is started by no command. With the runtime's handler
  (`runtime.rs:324-344`) its `wait_for_result` never sees a result; a caller that
  timed out may still pay later; a failed execution leaves its request open;
  `max_price_multiplier` is unused; `select_best_bid` may pick an expired bid
  while a valid one is there.
- An endpoint of price 0 still needs a payment or the free tier
  (`proxy/pricing.rs:158`). A clock read late sets the proxy's counts back.
- Closing a payment channel settles and refunds nothing; both ends lock their
  own capacity; a reopened channel has the id and the first nonces of the old
  one, against "monotonically increasing nonce" (`channel/state.rs:14`); two payments
  that cross leave both ends with one nonce and every later update refused. No
  signature and no signer is verified (`channel/mod.rs:412`), so an end may be set to
  any balances that add up to its capacity, which it may do as wrapped `u64`.

*Network, swarm, pages*

- Only `node.rs` feeds network events to a `SwarmManager`, and `Node` is made only
  in a test; `serve` has one that hears none. The bridge ends for good when it
  lags (`node.rs:157`). A peer that went Offline stays so after it reconnects.
- `remove_agent` and `add_connection` have no caller; the timeline's `has_more` is
  always false. The dashboard may miss a job, or show one twice, while figures are
  copied one by one.
- Ctrl+C is heard between turns only (`serve.rs:263`).
- No part stores a peer, so `network peers` is empty; `network discover` asks
  127.0.0.1:8080 whatever the configuration.

*Models and executor*

- The batch processor is created and dropped at start-up (`runtime.rs:146`), so a
  `submit` in the running node would get QueueFull; `BatchAggregator` models the
  pair as its tests use it. `max_queue_depth` is documented to reject and makes
  callers wait.
- `ModelCache::release` and `clear` have no caller; `ModelDistributor` is only
  constructed.
- `vram_available_mb` is never set, so an inference is never routed locally;
  concurrent tasks pass a limit that each saw free. `max_web_response_size` is
  read by nothing (`executor/mod.rs:559`, `381`).
- A batch has room for 512 tokens (`gguf.rs:395`, `518`) whatever `n_batch` and
  `n_ctx` are, so a longer prompt fails;
  `stop_sequences` is ignored; `generate_streaming_channel` always fails and has no
  caller. The model file lookup strips dashes from the request and not from file
  names, and falls back to any .gguf (`executor/mod.rs:482-500`). Resolution of
  Ollama names drops tags; `parse_parameters` reads "3.2b" as 2.
- A download of the command line creates its file before the body arrives, and
  one that fails keeps its name; a scan never removes models that are gone.

*Chat and channels*

- `finish_reason` is always "stop" (`web/openai.rs`).
- A command line argument overrides a saved setting (`chat.rs:472`) only if it is
  not the default: nobody can ask for the default once another value is saved;
  `/distributed on` in a session never subscribes; `/tool exec` goes past
  approval and statistics (`chat.rs:918-955`). The settings menu and the history
  slice text at bytes 30, 40 and 50 (`chat.rs:299`, `380`).
- The console channel loses one line per disconnect and stays connected after the
  end of its input; restarted, it keeps its old reader. Keepalive stopped and
  started leaves two loops. `pending_responses` of the webhook is never trimmed.
- A webhook link without `outgoing_url` reports every send as sent; a payload whose
  "message" is no string is refused though "text" is there; a `receive` that waits
  holds the link.
- A messaging link that `register` replaces is never disconnected. The peer-to-peer
  channel's `incoming_sender` goes past connection, lists and counts; `receive` and
  `receive_from_network` can wait for each other under the handle's lock.

*Tools*

- A tool server that stops reading its stdin blocks its callers; `disconnect` never
  closes stdin; pending entries of calls that timed out stay. The manager drops a
  client it replaces without disconnecting it and leaves entries behind a connect
  or disconnect that half failed; a server whose name has a colon can neither be
  called nor kept apart. Errors of tools are not counted.
- The shell's timer kills the shell only, starts after the input is written, and
  stdout is read to its end before stderr. `truncate_output` slices at a byte and
  panics inside a character, as do the previews of the leak detector and the
  policy; the `*_truncated` flags count raw bytes.
- `file_read` refuses files over 10 MB even with offset and limit, which its
  message advises; an offset past the size underflows; one read returns at most
  2 MB. `file_write` in append mode returns before tokio's background write.
  `file_list` ignores its pattern. Web pages: `follow_redirects` is ignored,
  `&amp;lt;` is decoded twice, a body of undeclared length is not limited, the
  `truncated` flag may be false after a cut at a word.
- `workspace` append writes the text and a newline apart; the newline may pass
  `max_file_size`, which read then refuses; an append overtaken by a delete or a
  write is lost. In IDENTITY.md an item with a colon is dropped and custom sections
  reach no prompt.
- Skills: the trust of one that is scanned becomes Local; `skill remove x` deletes
  `x.md` and not the file it was loaded from; excluded skills are chosen when
  `min_score` is 0; the estimate of tokens leaves out the headings.
- Every `vector` command makes an in-memory store of its own; `get_or_create` may
  fail or panic in a race; `update_idf` converts weights twice (no caller).
- Overlapping secrets can make `scan_and_clean` panic or lose text
  (`leak_detector.rs:268`). The timeout and memory limit of WASM are never applied.
  `memory_write` with "replicate" only logs, `memory_search` reports
  `searched_network` without searching; the p2p tools are placeholders.

*Programs*

- A crash between the truncation of `identity.key` and its write makes every later
  start fail. The first-run wizard overwrites `config.toml` (`start.rs:67`).
- `serve --agent` opens the database a second time while the runtime holds it, and
  so stores no agent state (`serve.rs:226-238`); `agent` commands take the path from
  `bootstrap`, `serve` from the configuration; `job`, `wallet`, `peers` and `agent`
  commands fail while a node runs. `agent run` reports "deployed" without a
  database.
- `run --distributed` and `job inference` say they offload or run locally and do
  not (`run.rs:34`, `cli/job.rs:153`). The interactive start prints a dashboard it
  never starts and loops for ever at the end of its input (`start.rs:105-168`).
- `USE_OLLAMA` does not override `config.toml` (`config/mod.rs:3`, `231`).

## Not modelled, and the plan

- Outside: tensor code and HTTP of the model back ends, libp2p (the models say
  what its gossip and its connections may do), redb (a store happens as a whole or
  fails), Wasmtime (a call uses its fuel or ends).
- `safety/validator.rs` and the wording of the patterns: regular expressions over
  text without state. `cli/test.rs` and `cli/doctor.rs` print what they find.
- Cron expressions only set the length of an interval and are not parsed.
- Signatures of payment updates, which the code does not check.
- Statistics that nothing reads, formatting, colours, menus.
- Nothing in the source calls `ChannelRegistry`, the network registries of skills
  and tools, `Workspace`, `SafetyLayer` and most of the vector store and WASM
  outside tests; they are modelled from their own code, with the callers their
  interfaces allow.

Proofs next: `OneAgentPerPeer` of `SwarmManager`; the pending calls of `Mcp`.
