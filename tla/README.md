# Forkyard in TLA+

Forkyard is one process that hands out many private forks of an EVM chain. This directory models it in
TLA+, checks the models with TLC on small instances and proves their invariants with TLAPS for
every number of callers, sessions, workers, threads and keys. Paths below are relative to the repository.

## The system

| Part | State it keeps | Operations | What makes it hard |
| --- | --- | --- | --- |
| Session workers, `crates/session/src/lib.rs` | per worker: an inbox, the sessions it owns, the sessions blocked on upstream with their queues; per session an overlay and a last-used time; a live count | fork, adopt, reads, writes, simulate, advance, branch, discard; park, unblock, resolver threads; the TTL sweep | three kinds of threads share one inbox per worker; a job may run several times; panics; expiry under a parked job |
| Opening a session, same file | base, fallback and block_env behind three locks; `PinnedBlocks` (map, recency, OnceCells) | `refresh_fallback`, `fork`, `fork_at_block`, `restore` | the three locks are read and written one at a time; cells are initialised by one of several waiters, may fail, may be evicted meanwhile |
| Chain-tip follower, `crates/ingest` | `last_seen_number` | poll, re-fork, refresh | a re-fork may fail after the new block was seen; the chain moves between poll and fork |
| Read-through fetch, `crates/fetch` | the shared cache, the keys in flight, permits for batches in flight | `resolve`, blocking reads | resolvers that share keys; rate limits; failures while others wait |
| Overlay, `crates/engine/src/lib.rs` | overlay, inherited layers, base, read log of a session | reads, writes, commit, branch, state, restore, speculation | what a pass that missed leaves behind; sharing between branches |
| Files, `crates/engine/src/persist.rs` | fork-cache files per chain and block, content-addressed snapshot files | load, store, write_atomically | crashes, failed writes, and several processes and requests writing one path |
| Wiring, `crates/bin/src/main.rs` | configuration, the seeded base | start, periodic flush, shutdown | flush races refresh; order of shutdown |
| HTTP surface, `crates/api-http` | `rpc_state`: per session a block counter and receipts | JSON-RPC methods, each one to three session calls; serve, shutdown | the table and the session are written in different steps; handlers are dropped where they await; sessions expire under them |
| MCP surface, `crates/api-mcp` | none | tools, each one to three session calls; serve over HTTP and stdio, shutdown | read-modify-write in two calls; a price asked for before it is used; requests of the other surface on the same session |
| Load generator, benchmarks, examples, scripts | none of the system's | | not modelled |

A request of either surface becomes one job in the inbox of the worker that owns the session, and a oneshot
reply. A job that needs state nobody has fetched is run speculatively on placeholders; if any was read, the
result is dropped, the job is parked, and a resolver thread fetches what it missed through the read-through
cache and posts an `Unblock`. New sessions copy the manager's base, fallback and block_env, which the follower
refreshes, or those of a pinned block.

What each part has to guarantee:

- workers: every job is answered, once, in arrival order of its session; parking and waking pair up; no
  answer or overlay rests on a made-up value; advances commit once; one session's wait stalls no other; the
  live count is exact; idle sessions expire;
- opening: a session is at one block, a pinned or restored one at its own; after a refresh nothing older is
  handed out; the pinned-block cache is a bounded LRU whose sessions share one fetch;
- follower: the manager reaches a quiet chain's tip whatever failed before;
- fetch: every flight lands, nobody waits for good, a key is asked for once per miss, Ok means all there;
- overlay: branches are isolated, `restore` inverts `state`;
- files: a reader sees a whole file of the right block or none;
- surfaces: block numbers and receipts agree with what the session executed, whatever requests of either surface interleave;
  a discard leaves nothing behind; every request is answered, so that the process can shut down.

## Modules

| Module | Models | Lines of code it stands for |
| --- | --- | --- |
| `Worker` | the worker pool: `SessionManager`'s jobs, `worker_loop`, `Worker`, `attempt`, `execute`, `handle_job`, resolver threads, the sweep | session 204-1201, engine 247-280 |
| `SessionJobs` | what the workers promise whoever sends them jobs, an abstract specification | session 501-782, 852-866, 946-1025, 1111-1203 |
| `Resolve` | what a worker may assume of its `Resolver`, an abstract specification | session 107-140 |
| `ReadThrough` | the resolver in production: claims, flights, batches, retries, permits, blocking reads; implements `Resolve` | fetch 123-477 |
| `Forks` | `refresh_fallback`, the follower, `PinnedBlocks`, `fork`, `fork_at_block`, `restore` | session 66-578, ingest 62-98, fetch 509-538 |
| `Overlay` | a session's overlay, inherited layers, base and read log; `branch`, `state`, `restore` and what a snapshot file holds | engine 167-516, persist 219-241, session 1031-1193 |
| `Cache` | fork-cache and snapshot files over a process's life: load at start, `persist_cache`, `write_atomically`, `SnapshotStore::store`, shutdown, kills and loss of power | persist 177-525, bin 48-334, ingest 62-98, session 468-476 |
| `Manager` | `SessionManager` as the surfaces see it: jobs, answers, sessions reduced to a block and one account; what the handlers of both surfaces share | session 157-785, 847-1241, api-http 94-108, 313-325, 367-375, 625-679 |
| `HttpSurface` | the JSON-RPC methods and `rpc_state` | api-http 61-604, session 526-782 |
| `McpSurface` | the MCP tools | api-mcp 42-435 |
| `Surfaces` | both surfaces over one manager, the follower's tip, and main's shutdown of them | api-http 678-728, api-mcp 153-236, bin 223-350 |
| `WorkerProofs`, `ReadThroughProofs`, `ForksProofs`, `OverlayProofs`, `CacheProofs`, `SurfacesProofs` | theorems about the module they extend | |
| `OneAtATimeProofs` | the theorem about clients that wait for each answer, on top of `SurfacesProofs` | |
| `MCWorker`, `MCReadThrough`, `MCForks`, `MCOverlay`, `MCCache`, `MCSurfaces` | symmetry sets and the instance's data for the configurations | |

How they fit: `Worker` contains `Resolve`'s steps as `ResolveKey` and `ResolveEnd`, and `ReadThrough` is
shown to implement `Resolve` (`KeepsPromise`, by TLC and by proof), so what `Worker` assumes of upstream
is what the fetch crate delivers. Towards its callers `Worker` is shown to implement `SessionJobs` (`TakesEffectInTurn`, again by TLC and by
proof): a job takes effect at one moment. `Worker`'s `Fork` sends what `Forks` calls an opened session; the two
share no variable, since a session holds its own copies of base, fallback and block_env from then on.
`Worker` says which jobs run on a session and when, with its values reduced to which are placeholders; `Overlay` says
what one such job does to the values, and assumes of a warm base that it agrees with the chain: `Cache` says
when a file gives such a base. `Cache` has of `Forks` only the two locks `persist_cache` reads. A pass of `Worker` is the steps of `Overlay` from `BeginSpeculation` to `EndSpeculation`.
`Surfaces` composes `HttpSurface` and `McpSurface` over `Manager`, whose `Run...` steps are `SessionJobs`' `Answer` with values: it takes from `Worker` that a session's
jobs run one at a time, in the order they were posted, each once (`TakesEffectInTurn`), and that each is answered (`EveryJobAnswered`); and from `Overlay`
that a branch and a resumed snapshot read as their origin did.

### Worker

State. `inbox[w]` is the channel of worker w, `blocked`, `queue[s]` and `rounds[s]` are its `blocked` map,
`queue[s]` doubling as the local queue while the session is being run (`running[w]`, `blocking[w]`).
`live` and `age` are the `sessions` map and `touched`; `count` the published live counts. A session's
values are abstracted to `placeholder[s]`, the slots whose overlay entry is a speculative zero, and
`cached`, the keys the shared fetch cache holds; this is all parking depends on. `call[c]` is a caller's
job and its answer; `made` records what the answer, or the branch on its way to a new id, rests on that upstream never said,
`commits[c]` how often it was committed, and `tainted` the sessions with a diff in their overlay that was computed from placeholders. A caller is an HTTP or MCP handler and awaits one job at a time; more concurrency is more callers.

Actions follow the code: `Receive` is `accept` and the head of `unblock`, each `Run...` is one iteration of
`handle` by the job's kind and by what its pass meets (`RunClean`, `RunDirty`, `RunBlocking`, `RunPanic`),
`RunEnd` the loop's tail, `Sweep` the timeout branch. Every pass, whatever it missed, goes through `Execute`, which writes the diff
where `attempt` let the result through (`Clean`) and the EVM took the transaction (`Commits`); the answer is given after it, or the job parked. A pass is one step: it runs on one thread on state
only that thread changes, except for the fetch cache, which only grows. A pass that misses may miss any set
of keys that includes one the job really reads, since a placeholder can lead it to keys the real value never
would. `Adopt` is the second hop of `fork_from`. Panics include those of a resolver, which the code turns into a
failed `Unblock`.

`SessionJobs` has of all this the sessions that exist (`live`), the ids given out and each caller's job. `Answer` is the one step in which a job
has its effect, on the session as its earlier jobs left it; `ahead[c]` are those that must come first. Where a job waits does not appear in it, nor do passes, workers
and resolvers. A job that a panic drops has had no effect (`Drop`), and none that came before it outlives it.

Left out: allocation failure and channels closed because the whole worker thread is gone, which the code
answers `WorkerGone` and never repairs.

### ReadThrough and Resolve

One action per lock hold of `resolve` or per event of its batch: `Claim` (`claim` and what follows when
nothing is free, under the `in_flight` lock), `Prepare` and `Send` (`resolve_batched`, permit), `Arrive`,
`BatchDone`, `ReadHash` (block hashes, which no batch carries), `Lose` with `Refused` (rate limit, retried)
or `Fail`, `Land` (the drop of `Landing`, on every way out), `Wake`. `Read` is a worker's blocking read,
which goes past the flights. The default, unbatched path of `resolve` is the same protocol with a batch per key and is not a separate action.

### Forks

Bases, fallbacks and block_envs are the block they describe. `refresh_fallback` is three actions (`ReFork`,
`WriteEnv`, `WriteBase`) and `fork_seeded` three (`ReadBase`, `ReadFallback`, `ReadEnv`), since each takes its
own lock. `EnterCell` is `get_or_insert` under its mutex; `StartInit`, `FactoryOk`, `FactoryErr` and
`Cancel` are `OnceCell::get_or_try_init` as tokio documents it: one initialiser, the others wait, a
failure or a dropped future leaves the cell empty for the next. A cell is named by the count of `get_or_insert`
calls when it was made. `tip` is the chain upstream, which only grows here: a provider that answers from a lagging
node is not modelled.

### Overlay

Accounts and slots are kept in one map per layer, since the code treats them alike except in a speculative pass
(`Miss`): `base[s]`, `inherited[s]`, `overlay[s]` with the hashes whose code each holds, `log[s]` for `read_log` and
`pass[s]` for the pass `attempt` has under way. `files` are the snapshot files. Each read, miss and write is an
action, so those of two sessions interleave; `Commit`, `Set`, `Branch`, `Snapshot` and `Drop` are jobs, which
never run inside a pass of their session. `Snapshot` takes the copy and writes the file in one step: the copy no longer changes once taken.
`view[s]` is a history variable: what the writes of the session's lineage left, over the chain. A read whose fallback
fails caches nothing and is a stutter here; what it answers is the business of `Worker`. A shared base is any
map that agrees with the chain at the block, which is what the fork cache has to provide.

### Cache

A process `p` is `proc[p]`: how far it is (`stage`), the block of its fallback and of its `block_env` (the same but
between the two writes of a refresh, `refreshing`), what it was seeded with, and the keys its fork has `fetched`. `Launch` is
`main` up to the manager, for a pinned and for a following process; `ReFork` and `WriteEnv` are the follower's
refresh, whose third write `persist_cache` does not see. `persist_cache` reads the key, the fallback and the env under separate
locks (`BeginFlush`, `ReadFallback`, `ReadEnv`); `Save` is `SnapshotStore::store` up to its `exists()` test. Both
end in `write_atomically`, one action per system call (`CreateTemp`, `FillTemp`, `Rename`), any of which may fail
(`WriteFails`). `StopFollower`, `StopFlush` and the last `BeginFlush`, then `Exit`, are `main` after the signal.

Files are keyed by the block or the id in their path; what is kept under a key is the block it was read at, which is all
that can be wrong with it. A file is torn or whole, and `synced` once `sync_all` has returned. `PowerLoss` may undo any set of renames
(`older` is what each path held before its last one, the code syncs no directory) and tears what was not
synced; this is the weakest file system the comment at persist.rs:261 speaks of. Torn files are read as any unusable file,
as no file. A process killed in a write leaves its temp file (`LeftFile`): the code removes one only on an error that returns, so it stays
until a process of the same pid creates one of that name, or a loss of power takes it. `raced`, `had` and `promised` are history:
whether a refresh overlapped the flush that wrote a file, what a process loaded or saved, the ids it handed out.
Two processes never have the same pid at once here: machines that share a directory over a network are left out.

### Manager

A session is its block and one account, the sender of every transaction: `nonce`, and `funds`, the number of transactions its
balance still pays for. `session[s]` is that of an id, with `st` "none", "live" or "gone"; `jobs[s]` its unanswered jobs in order;
`reply[h]` the oneshot of handler h; `call[h]` the request it works on, `pc` the job it awaits; `saved` the snapshots a client can resume.
A handler is one request of either surface; a request's answer frees it. `Post` is `worker_for(id).send`, `Register` takes the id as it
posts the create job, `Hangup` is a receiver that is read or dropped. Each `Run...` is a job of `handle_job` in one step. `RunTransaction` answers what
revm's validation says (`Verdict`, external) and commits a valid `advance`; one that reverts is valid. `RunUnknown` is a session that has
expired or was discarded; `RunFails` an upstream error or a panic; `Expire` the sweep. `client[s]` is history: what
clients were told of an id, whether two requests that named it overlapped (`shared`), whether it was discarded over HTTP (`removed`) and what was under
way then (`late`), and whether its entry was copied from a session that still lived (`kept`).

### HttpSurface, McpSurface and Surfaces

`side[s]` is `rpc_state`: whether the id has an entry, its counter, and for each transaction the block its receipt is numbered by. Each
method is one action up to its first await and one per answer: `EthSendRawTransaction` posts the advance, `SendAdvanced` asks for the block env once it is
committed, `SendRecorded` writes counter and receipt under one lock; `ForkyardForkFrom` asks the parent for a branch, `ForkFromBranched` registers the
child, `ForkFromAdopted` copies the entry; `EthBlockNumber` reads the counter and asks for the env, `BlockNumberAnswered` adds them up, falling back to the
manager's block when the session is gone, as the code does. `Dropped` is a client that closed its connection: axum drops the handler
at its await, and the job it posted runs all the same. MCP's `advance` and `simulate` carry a sender and no signature; with the gas
price omitted they ask for the base fee first (`TransferAtBasefee`, `TransferPriced`), and a refused price asks for it again to explain (`TransferRun`).

`Surfaces` puts both over one manager. `Signal`, `HttpShutdown` and `Exit` are main after the follower has stopped: HTTP accepts nothing new and is waited for,
then MCP's HTTP connections (`draining`) are; stdio is not. Every session, job and entry is gone with the process.

Left out: the wording of answers, parsing of parameters and addresses, JSON and the MCP protocol. `eth_chainId` answers a constant. Storage and code are read and
written by jobs that leave the model's state alone. An entry's receipts hold of a receipt only that it exists and its block number.

## What the runs check

| Run | Instance | Shows |
| --- | --- | --- |
| `worker_safety` | 2 workers, 2 callers, 2 ids so that a branch crosses shards, an account and a slot, 1 round | `TypeOK` (rounds stay in bounds), `NoLostWakeup`, `JobHeldOnce`, `CommitOnce`, `NoPlaceholderKept`, `AnswersFromUpstream`, refinement `TakesEffectInTurn` |
| `worker_liveness` | 1 worker, 2 callers, 2 ids, 1 key | `CountFresh` with forks, discards and the sweep, `OthersNotStalled` with upstream silent (a job may wait behind a blocking retry that misses, nothing else), `EveryJobAnswered` with upstream fair, `QuietWorkerExpires` with time too |
| `worker_busy_ttl` | 1 worker, 2 ids | finding: `IdleSessionExpires` is violated |
| `worker_slot_error` | 1 caller, an account and a slot | finding: `UpstreamErrorSurfaces` is violated |
| `fetch` | 3 threads, a key also read blocking, a block hash, 1 permit, 1 retry, 1 error, fair | `TypeOK`, `FlightsLand`, `AskedOncePerMiss`, refinement `KeepsPromise`, `EveryResolveReturns` |
| `forks_pinned` | 2 callers, 3 blocks, 2 warm, 5 calls of `get_or_insert`, quiet chain | `TypeOK` (cap), `LeastRecentlyUsed`, `SharesPinnedBlock` |
| `forks_tip` | 2 callers, the chain moves by a block, 1 failure | `PinnedAtItsBlock`, `SettledForkIsWhole`, `SeesLastRefresh`, `EveryOpenReturns`, `CatchesUp` |
| `forks_torn` | 1 caller, 1 refresh | finding: `SessionAtOneBlock` is violated |
| `overlay` | 2 sessions, a contract and a slot, a cold and a warm base, 1 file | `TypeOK`, `ReadsItsLineage`, `FilesReproduce` |
| `cache` | 2 processes, 3 starts, 2 flushes or saves, the chain moves by a block | `TypeOK` (no temp file of a write that returned), `FilesWhole`, `FilesOfTheirBlock`, `NeverErodes`, `StoredStays` |
| `cache_torn` | 1 process, 1 refresh | finding: `FileAtOneBlock` is violated |
| `surfaces` | 2 handlers of either surface, 2 ids, 2 nonces, the tip moves by a block of higher base fee, requests of total cost 4, 1 failed job, expiry or dropped handler, fair | `TypeOK`, `OneAtATime`, `ReceiptsNumbered`, `NeverReportsLower`, `ReceiptsOfSends`, `QuotedPriceAccepted`, `DiscardCleans`, `EveryRequestAnswered` |

Every property was also run against a mutant of the code it is about (the operators marked `mutant`), and TLC finds each violated.

### Bounds

`MaxSessions` bounds the ids handed out, `MaxErrors` and `MaxFailures` upstream failures, `MaxUses` the calls of
`get_or_insert`, `MaxBlock` the chain; the other constants are the code's own limits, made small. Two
callers and two sessions reach a job queued behind a parked one, a job behind a drained one, discard and
expiry under a parked job and two sessions waiting at once; a round and then
a second miss reach the forced blocking pass. Discards are left to `worker_liveness`, and to the proofs of `NoLostWakeup` and `JobHeldOnce`, which cover every job. In `Cache` three starts are two processes at once and one
of them again, warm; two writes are two flushes of one process, before and after a refresh, a flush
in each, or a flush beside a save. Three resolvers reach a chain of waiting: one whose fetch failed, one that waits
for it and one that waits for the second. Three blocks with a cap of two and four calls tell least
recently used from first in; the fifth call comes back to an evicted block while its first cell is still held. In `Overlay` two ids suffice for any
chain of branches, since an id dropped can be opened again from the other. `Ttl` 1 is
the shortest idle time the code can tell from none.

In `fetch` one error per behaviour is enough for a rate limit that is retried, or a failure that its waiters must repair; that a second rate limit is not
retried (the boundary of `MaxRetries`) is past the run and covered by the proof of `TypeOK`. A batch of both keys and a batch per key are reached.
In `surfaces` `Cost` charges 1 for the requests that write the table or open and discard sessions and 2 or 3 for the rest, so that four of the former fit, which is what the
properties need: open, send, fork or discard, and one more; a `set_balance`, `snapshot`, gas price or shutdown leaves room for an open and one. Two handlers overlap any two
requests.

### Fairness

- `WorkerFairness`: worker threads run, in a blocking pass too when it finds everything cached (`RunCached`). That is all `OthersNotStalled` assumes:
  upstream owes nothing.
- `UpstreamFairness`: every upstream request ends, in an answer or an error, and resolver threads run; the fetch
  crate bounds its retries, and its HTTP client its waits.
- `TimeFairness`: time passes and a `recv_timeout` that ran out returns; only `QuietWorkerExpires` and the
  violation of `IdleSessionExpires` use it.
- `ReadThrough.FairSpec`: threads run, and permits are handed out in turn (tokio's semaphore is FIFO), hence the strong
  fairness of `Send`.
- `Forks.FairSpec`: the follower and each caller take their next step, and only `MaxFailures` requests fail. `Open`,
  `Cancel`, `Return` and `Mine` are not fair: no property needs a caller or the chain to act.
- `Surfaces.Fairness`: workers run the jobs in their inboxes, the runtime polls a handler whose answer has come, and main goes on once HTTP is drained. Clients,
  the sweep and the chain owe nothing. `Exit` is not fair: an MCP client may keep its connection's event stream open, and whether rmcp and axum end it is theirs, not this repository's.

## What is proved

All theorems are checked by TLAPS for every value of the constants that satisfies the named assumption
(`WorkerAssumption`, `ReadThroughAssumption`, `ForksAssumption`, `OverlayAssumption`, `CacheAssumption`, `ManagerAssumption` with `HttpAssumption`).

**Worker** (`WorkerProofs`). `TypeOK`, `NoLostWakeup`, `JobHeldOnce`, `NoPlaceholderKept`, `AnswersFromUpstream`, `CommitOnce` and `CountFresh` are invariants, and
`Spec => TakesEffectInTurn`: every step is a step of `SessionJobs` or a stutter. None of the first three is inductive
alone. A second `Unblock` would be harmless to the types and fatal to the wake-ups, so the proof carries `NoLostWakeup` with
`RunningOK` (what runs is the worker's own, is not parked, and has a round left); `JobHeldOnce` needs
to know that messages and queues are where their session belongs (`InboxOK`, `QueueOK`) and that a
job is held at most once (`HeldAtMostOnce`) and somewhere (`HeldSomewhere`). `IInv` is their conjunction. The step lemma has one case per action. Over `IInv`, `NoPlaceholderKept` and `CountFresh` are inductive, and
`AnswersFromUpstream` is with `NoPlaceholderKept`: what a clean pass reads is then real, and so is what it commits and what a branch takes along.
`CommitOnce` goes over the passes: `commits` grows in `Execute` alone, of the job that `JobHeldOnce`'s invariant puts at the front of one queue and nowhere else; a pass that missed
leaves it at 0 and the job unanswered, and the pass that is let through answers the job it commits. For the refinement it has to be known
where the jobs ahead of a job are: they are unanswered jobs of its session (`AheadOK`), before it in the queue it is in (`QueueOrder`), and before it in the inbox or already
in that queue while it is in the inbox (`InboxOrder`). So nothing is ahead of the front of a queue, which alone is answered, and what is ahead of a job goes
down with the queue a panic drops. Runs that park, requeue, resolve or miss are stutters.

**ReadThrough** (`ReadThroughProofs`). `TypeOK`, `FlightsLand` and `AskedOncePerMiss` are invariants, and
`Spec => KeepsPromise`: every step is a step of `Resolve` or a stutter. The strengthening is `AskedOK` (a request is for claimed
keys), `AsksOK` (a key asked for once more than it was missed has arrived or is on its way) and `WantedOK` (what is missing of a call was
claimed or is waited for).

**Forks** (`ForksProofs`). `PinnedAtItsBlock`, `SettledForkIsWhole` and `SeesLastRefresh` are invariants, for any
number of callers, blocks and refreshes. `IInv` is `Shape` (the part of `TypeOK` the argument needs), `ManagerOK`
(between refreshes the three locks agree, and none holds anything older than the last refresh) and for each call
`SettledCopy` (what a call no refresh has overlapped has copied is what the locks still hold), `FreshCopy`,
`PathOK` and `OpenOK`. `TypeOK`, `LeastRecentlyUsed` and `SharesPinnedBlock` are invariants for any capacity, number of uses and failures. The cache of pinned blocks is
independent of the refresh and has an invariant of its own, `PinInv`: no cell, use or eviction is later than the last use, and no more blocks are listed than fit
(`PinShape`), recency lists the cells by last use (`LeastRecentlyUsed`, inductive with it), a call's cell is the block's unless the block was evicted after the cell was made (`CellOK`, which unlike
`SharesPinnedBlock` covers the calls still waiting), and the calls about to use the cache fit `MaxUses` (`BudgetOK`), which needs `Callers` to be finite.

**Overlay** (`OverlayProofs`). `TypeOK`, `ReadsItsLineage` and `FilesReproduce` are invariants, for any number of
sessions, keys, values and branches. `IInv` says key by key (`KeyOK`) that a base is the chain with what was inherited laid over it (`BaseOK`),
without which `state` could not leave the base out; that what is logged came from the fallback and hides nothing (`LogOK`);
that the rest of the layers is the lineage's view (`SettledOK`); that the code of an entry can be seen (`OverlayOK`); and
the same of files (`FileOK`).

**Cache** (`CacheProofs`). `TypeOK`, `FilesWhole`, `FilesOfTheirBlock`, `NeverErodes` and `StoredStays` are invariants, for any
number of processes, saves, keys and blocks. `IInv` says of every file, and of what its path held before, that it is synced and
of its block (`FileOK`), since a loss of power may bring either; of a process that it is at one block outside a refresh, which ends before it
shuts down (`ProcOK`); that what it had at its block is what it was seeded with or has fetched (`HadOK`); that a flush no refresh overlaps is
at that block and holds all of it (`FlushOK`); that a save goes to an id (`SaveOK`); and that what is about to
be renamed is whole and synced (`TempOK`).

**Surfaces** (`SurfacesProofs`). `TypeOK`, `ReceiptsOfSends`, `DiscardCleans`, `ReceiptsNumbered`, `NeverReportsLower` and `QuotedPriceAccepted`
are invariants, for any number of handlers, sessions, transactions, blocks and faults. What a handler does after an await rests on what it saw before, so
`IInv` follows a request through its awaits: its session was known to the client when it began, and an id it is opening is known to nobody (`CallOK`, `OpensApart`);
the job it awaits is in its session's inbox under its name and nowhere else, and an id being opened has no other job (`JobsOK`, `OpensAwaited`); an answer not yet read still says the
block of its session, that a session that no longer knows its block is gone for good, and that a transaction answered Ok is among those it executed (`AnswerOK`); an id nobody opened has
neither session nor entry (`IdOK`). On these rests what is kept of each entry (`EntryOK`: receipts numbered apart, the counter not below
what was told, no entry nor unrecorded send after a clean discard) and of a send or a block number between its two awaits (`SendOK`). Steps are grouped by their effect on the
channels: a job is posted (`PostsOn`, `RegistersOn`), a request ends (`ReturnsOn`), a worker answers (`WorksOn`). TLC agrees that `IInv` is an invariant of the `surfaces` instance,
and of larger ones (requests of total cost 5 with two faults; three handlers).

**Clients that wait** (`OneAtATimeProofs`). `OneAtATime` is an invariant, for any number of handlers, sessions, blocks and faults. It speaks of sessions nobody is working on,
so the invariant behind it, `Turns`, speaks of those with one request under way. `Alone` says of a session no two requests have overlapped on that its jobs are
those of its one request, that its books balance but for the one transaction that is committed and has no receipt yet (`Books`, `Due`), and that a `setBalance` between its two calls
has seen the nonce it will write back, without which it would undo a send. `ChildOK` says that a branch on its way to a new id, and the entry it will be given, tell of
the same transactions, as parent and entry did. A snapshot starts over with no transactions told of (`KeptAfresh`). What the parent's request sees is steady because it is the only one, which `SurfacesProofs`' `IInv` cannot say: it holds of every
interleaving, and is used here on both ends of a step. TLC agrees that `Turns` is an invariant of an instance of two handlers and of total cost 4.

Only model-checked: `EveryResolveReturns`, `EveryOpenReturns`, `CatchesUp`, `OthersNotStalled`, `EveryJobAnswered`, `QuietWorkerExpires` and `EveryRequestAnswered`, the liveness
properties: they rest on fairness, hence on `ENABLED`, which is out of the prover's reach. Every invariant of a passing run and both refinements are proved. That `Manager`'s values are what
`Overlay` and revm make of them is by construction of the model, not a theorem.

## Where documentation and code part

- `IdleSessionExpires`: README.md:55 promises that idle sessions are reaped; a worker sweeps only after a second without any message.
- `UpstreamErrorSurfaces`: a failed retry's "upstream error surfaces as the job's own error"; a storage read's does not, it reads as zero.
- `SessionAtOneBlock`: a session is pinned to the block its block_env names; a fork or restore that overlaps a refresh mixes two blocks. `SettledForkIsWhole` shows that only such a fork can.
- `FileAtOneBlock`: merging is "only ever called for two snapshots of the same block"; an interval flush that meets a refresh
  stores one block's state as another's. `FilesOfTheirBlock` shows that only such a flush can, the one at shutdown never.

Met while modelling, and kept as conditions of properties or as hazards rather than as runs:

- README.md:92 and 56 and session 813 have a worker never wait on upstream, so that one agent's read cannot stall another's. The blocking retry, after a failed fetch or
  `MAX_SPECULATIVE_ROUNDS` passes that missed (session 932, 1036), waits for each read on the worker's own thread: with upstream silent a job of another session of that worker
  is not even received. `OthersNotStalled` has this as its one exemption (`Waiting`), and shows that nothing else holds a worker up;
- a session whose job is parked longer than the TTL can expire under it, and a panic drops the jobs queued behind the one that panicked;
- a `set_balance` that overlaps an `advance` writes back the account it read before: the nonce goes back and the same signed transaction can be
  executed twice. `OneAtATime` has this only of requests that overlap (`shared`);
- a `forkFrom` that overlaps a discard of its parent gives a child without the parent's entry, hence with a lower block number than the parent's clients were
  told (`removed`); one whose parent takes a send between the branch and the copy gives the child a receipt of a transaction its state never executed (`shared`);
  one whose parent dies in between copies an entry whose last receipt may be numbered by the manager's block (`kept`);
- a send that was executed before a discard, and recorded after it, re-creates the entry (`late`), which nothing removes any more; neither expiry nor MCP's `discard` removes an entry at all;
- `main.rs:326` says that after both surfaces are down "nothing is still fetching": the stdio server, which is no part of the shutdown, and the jobs of handlers
  that were dropped may be;
- `eth_call` is "the read path every client uses" (api-http lib.rs:493), but leaves its nonce 0 with the nonce check on, so a `from` that has sent something is refused.

## Not modelled

The load generator, the crate examples, the Python benchmarks and the installation scripts keep no state of the system; the requests they send are among those `Surfaces`
allows. Parsing, formatting and JSON, configuration and logging are left out everywhere, as no property tells their results apart. What revm makes of a
transaction, what tokio, axum, rmcp and the file system do is modelled from how the code uses them and marked external in the map. `set_block_env` is called by tests alone.
What a destroyed account leaves in an overlay (engine 507) is revm's business and has no property.

## Plan

1. Done: `Worker`, `ReadThrough` with `Resolve`, `Forks`, `Overlay`, `Cache`, `Manager` with `HttpSurface`, `McpSurface` and `Surfaces`, and proofs about them.
2. Done: a theorem for every invariant and refinement a run checks.
3. Proofs: that `Surfaces` stays within `SessionJobs`, so that `Manager` asks no more of a session's workers than they promise.
