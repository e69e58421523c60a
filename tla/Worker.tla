------------------------------- MODULE Worker -------------------------------
(***************************************************************************)
(* The session workers of crates/session/src/lib.rs: a fixed pool of       *)
(* threads, each owning the sessions whose id it is, each draining one     *)
(* inbox.  A job that misses upstream state is parked with every later job *)
(* of its session behind it; a resolver thread fetches the missing keys    *)
(* and posts an Unblock; the job runs again.  Sessions expire on an idle   *)
(* worker's one-second sweep.                                              *)
(*                                                                         *)
(* A caller has at most one job outstanding and is an API handler that     *)
(* sends a job and awaits its reply.  State values are abstracted to which *)
(* keys are cached and which cached values are placeholders.               *)
(***************************************************************************)
EXTENDS Integers, Sequences, FiniteSets

CONSTANTS
  Callers,      \* API handlers awaiting a reply
  MaxSessions,  \* bound: ids handed out by next_id
  NumWorkers,   \* SessionManager::new's num_workers
  Keys,         \* upstream state keys (StateKey)
  Slots,        \* the keys that are storage slots; the rest are accounts
  Ops,          \* kinds of job the callers submit
  MaxRounds,    \* MAX_SPECULATIVE_ROUNDS
  Ttl           \* the session TTL, in ticks of one second

Creating == {"fork", "adopt"}
Reading  == {"simulate", "advance", "read"}
AllOps   == Creating \cup Reading \cup {"touch", "branch", "discard"}

ASSUME WorkerAssumption ==
  /\ MaxSessions \in Nat \ {0} /\ NumWorkers \in Nat \ {0}
  /\ MaxRounds \in Nat \ {0} /\ Ttl \in Nat \ {0}
  /\ Slots \subseteq Keys
  /\ Ops \subseteq AllOps \ {"adopt"}

Sessions   == 0 .. MaxSessions - 1
NoSession  == MaxSessions
Workers    == 0 .. NumWorkers - 1
WorkerOf(s) == s % NumWorkers
Answered   == {"ok", "err", "unknown", "gone"}
\* What an answer may rest on that upstream never said.
MadeUp     == {"placeholder", "failed read"}

VARIABLES
  nextId,       \* SessionManager::next_id
  live,         \* ids in some Worker::sessions
  age,          \* ticks since each session's `touched`, capped at Ttl
  placeholder,  \* slots whose overlay entry is a speculative pass's made-up zero
  tainted,      \* sessions whose overlay has a diff computed from placeholders
  cached,       \* keys the shared fetch cache holds
  inbox,        \* each worker's channel
  blocked,      \* ids in some Worker::blocked
  queue,        \* Blocked::queue, of a parked session or of the one running
  rounds,       \* Blocked::rounds
  resolving,    \* the keys of a session's resolver thread, {} when it has none
  running,      \* the session whose queue a worker is running, or NoSession
  blocking,     \* whether that worker runs the front job blocking
  count,        \* SessionManager::counts
  waited,       \* the worker's recv_timeout has waited its second
  call,         \* each caller's job
  commits,      \* history: how often each caller's job was committed
  ahead         \* history: callers whose job for the same session came first

sessionVars == <<nextId, live, age, placeholder, tainted, count>>
workerVars  == <<inbox, blocked, queue, rounds, resolving, running, blocking, waited>>
vars == <<sessionVars, workerVars, cached, call, commits, ahead>>

NoCall == [st |-> "idle", op |-> "touch", id |-> 0, reads |-> {}, made |-> {}]
CountOf(w, alive) == Cardinality({s \in alive : WorkerOf(s) = w})
StoreCountEarly(w, alive) == count' = [count EXCEPT ![w] = CountOf(w, live)]  \* mutant
StoreCount(w, alive) == count' = [count EXCEPT ![w] = CountOf(w, alive)]
JobMsg(c) == [type |-> "job", caller |-> c]
UnblockMsg(s, f) == [type |-> "unblock", id |-> s, failed |-> f]

Init ==
  /\ nextId = 0
  /\ live = {}
  /\ age = [s \in Sessions |-> 0]
  /\ placeholder = [s \in Sessions |-> {}]
  /\ tainted = {}
  /\ cached = {}
  /\ inbox = [w \in Workers |-> <<>>]
  /\ blocked = {}
  /\ queue = [s \in Sessions |-> <<>>]
  /\ rounds = [s \in Sessions |-> 0]
  /\ resolving = [s \in Sessions |-> {}]
  /\ running = [w \in Workers |-> NoSession]
  /\ blocking = [w \in Workers |-> FALSE]
  /\ count = [w \in Workers |-> 0]
  /\ waited = [w \in Workers |-> FALSE]
  /\ call = [c \in Callers |-> NoCall]
  /\ commits = [c \in Callers |-> 0]
  /\ ahead = [c \in Callers |-> {}]

----------------------------------------------------------------------------
(* Callers *)

Outstanding(s) == {c \in Callers : call[c].st = "sent" /\ call[c].id = s}

\* A branch on its way to its new id takes along what it rests on.
Post(c, op, s, reads) ==
  /\ call' = [call EXCEPT ![c] = [NoCall EXCEPT !.st = "sent", !.op = op, !.id = s,
                                                !.reads = reads, !.made = call[c].made]]
  /\ commits' = [commits EXCEPT ![c] = 0]
  /\ ahead' = [ahead EXCEPT ![c] = Outstanding(s)]
  /\ inbox' = [inbox EXCEPT ![WorkerOf(s)] = Append(@, JobMsg(c))]
  /\ UNCHANGED <<live, age, placeholder, tainted, count, cached, blocked, queue,
                 rounds, resolving, running, blocking, waited>>

\* A job on a session id, live or not: a client may name any id.
Submit(c, op, s, reads) ==
  /\ call[c].st = "idle"
  /\ op \in Ops \ Creating
  /\ op \notin Reading => reads = {}
  /\ Post(c, op, s, reads)
  /\ UNCHANGED nextId

\* register: take the next id, send Job::Fork to its worker.
Fork(c) ==
  /\ call[c].st = "idle" /\ "fork" \in Ops
  /\ nextId < MaxSessions
  /\ Post(c, "fork", nextId, {})
  /\ nextId' = nextId + 1

\* fork_from's second hop: the branched session is sent to its own shard.
Adopt(c) ==
  /\ call[c].st = "branched"
  /\ nextId < MaxSessions
  /\ Post(c, "adopt", nextId, {})
  /\ nextId' = nextId + 1

\* The caller reads its reply (or gives up a branch once the bound on ids is
\* reached) and may send another job.
Return(c) ==
  /\ \/ call[c].st \in Answered
     \/ call[c].st = "branched" /\ nextId = MaxSessions
  /\ call' = [call EXCEPT ![c] = NoCall]
  /\ commits' = [commits EXCEPT ![c] = 0]
  /\ UNCHANGED <<sessionVars, workerVars, cached, ahead>>

----------------------------------------------------------------------------
(* The worker loop *)

ReadyUnlessParked(w) == running[w] = NoSession /\ inbox[w] # <<>> /\ blocked = {}  \* mutant
Ready(w) == running[w] = NoSession /\ inbox[w] # <<>>

\* The job joins its parked session's queue.
BehindPushFront(s, c) == <<c>> \o queue[s]  \* mutant
BehindReplaced(s, c) == <<c>>  \* mutant
Behind(s, c) == Append(queue[s], c)

\* unblock's allow_blocking, for the front job.
GivesUpLate(s, failed) == failed \/ rounds[s] > MaxRounds  \* mutant
GivesUp(s, failed) == failed \/ rounds[s] >= MaxRounds

\* recv: an Unblock starts its session's queue; a job of a blocked session
\* joins that queue; any other job is about to run, alone, speculatively.
Receive(w) ==
  /\ Ready(w)
  /\ inbox' = [inbox EXCEPT ![w] = Tail(@)]
  /\ waited' = [waited EXCEPT ![w] = FALSE]
  /\ LET m == Head(inbox[w]) IN
     \/ /\ m.type = "unblock" /\ m.id \in blocked
        /\ blocked' = blocked \ {m.id}
        /\ running' = [running EXCEPT ![w] = m.id]
        /\ blocking' = [blocking EXCEPT ![w] = GivesUp(m.id, m.failed)]
        /\ UNCHANGED <<queue, rounds>>
     \/ /\ m.type = "unblock" /\ m.id \notin blocked
        /\ UNCHANGED <<blocked, running, blocking, queue, rounds>>
     \/ /\ m.type = "job" /\ call[m.caller].id \in blocked
        /\ queue' = [queue EXCEPT ![call[m.caller].id] = Behind(call[m.caller].id, m.caller)]
        /\ UNCHANGED <<blocked, running, blocking, rounds>>
     \/ /\ m.type = "job" /\ call[m.caller].id \notin blocked
        /\ queue' = [queue EXCEPT ![call[m.caller].id] = <<m.caller>>]
        /\ rounds' = [rounds EXCEPT ![call[m.caller].id] = 0]
        /\ running' = [running EXCEPT ![w] = call[m.caller].id]
        /\ blocking' = [blocking EXCEPT ![w] = FALSE]
        /\ UNCHANGED blocked
  /\ UNCHANGED <<sessionVars, cached, resolving, call, commits, ahead>>

\* The front job of the queue worker w runs is caller c's, on session s.
Front(w, s, c) ==
  /\ running[w] = s /\ s \in Sessions
  /\ queue[s] # <<>> /\ c = Head(queue[s])

\* The front job is answered; the rest of the queue runs speculatively again.
Reply(w, s, c, outcome, made) ==
  /\ call' = [call EXCEPT ![c] = [call[c] EXCEPT !.st = outcome, !.made = made]]
  /\ ahead' = [d \in Callers |-> ahead[d] \ {c}]
  /\ queue' = [queue EXCEPT ![s] = Tail(@)]
  /\ rounds' = [rounds EXCEPT ![s] = 0]
  /\ blocking' = [blocking EXCEPT ![w] = FALSE]
  /\ UNCHANGED <<nextId, inbox, blocked, resolving, running, waited>>

\* A session that was discarded or has expired; Discard itself never asks.
RunUnknown(w, s, c) ==
  /\ Front(w, s, c)
  /\ s \notin live /\ call[c].op \notin Creating \cup {"discard"}
  /\ Reply(w, s, c, "unknown", {})
  /\ UNCHANGED <<live, age, placeholder, tainted, count, cached, commits>>

RunCreate(w, s, c) ==
  /\ Front(w, s, c)
  /\ call[c].op \in Creating
  /\ live' = live \cup {s}
  /\ age' = [age EXCEPT ![s] = 0]
  /\ tainted' = IF "placeholder" \in call[c].made THEN tainted \cup {s} ELSE tainted
  /\ StoreCount(w, live')
  /\ Reply(w, s, c, "ok", {})
  /\ UNCHANGED <<placeholder, cached, commits>>

RunDiscard(w, s, c) ==
  /\ Front(w, s, c)
  /\ call[c].op = "discard"
  /\ live' = live \ {s}
  /\ placeholder' = [placeholder EXCEPT ![s] = {}]
  /\ tainted' = tainted \ {s}
  /\ StoreCount(w, live')
  /\ Reply(w, s, c, "ok", {})
  /\ UNCHANGED <<age, cached, commits>>

\* What is made up in the overlay a branch copies.
Inherited(s) == IF s \in tainted THEN {"placeholder"} ELSE {}

\* State, BlockEnvOf, SetAccount, SetStorage and Branch never read upstream.
RunDirect(w, s, c) ==
  /\ Front(w, s, c)
  /\ s \in live
  /\ age' = [age EXCEPT ![s] = 0]
  /\ \/ call[c].op = "touch" /\ Reply(w, s, c, "ok", {})
     \/ call[c].op = "branch" /\ Reply(w, s, c, "branched", Inherited(s))
  /\ UNCHANGED <<live, placeholder, tainted, count, cached, commits>>

\* A job of Reading on a live session touches it before anything else.
FrontRead(w, s, c) ==
  /\ Front(w, s, c)
  /\ s \in live /\ call[c].op \in Reading
  /\ age' = [age EXCEPT ![s] = 0]

Known(s) == cached \cup placeholder[s]
Misses(s, c) == call[c].reads \ Known(s)

\* What the answer and the diff of a job's pass may rest on: the values it read
\* itself, and the diffs that were in the overlay.
RestsOn(s, c, missed, failed) ==
  Inherited(s) \cup
  {m \in MadeUp : \/ m = "placeholder" /\ call[c].reads \cap (missed \cup placeholder[s]) # {}
                  \/ m = "failed read" /\ failed # {}}

CleanButSlots(misses) == misses \subseteq Slots  \* mutant
\* attempt: a pass with a miss is let go.
Clean(misses) == misses = {}

EndSpeculationKept(s, keep, logged) ==  \* mutant
  placeholder' = [placeholder EXCEPT ![s] = @ \cup logged]

\* end_speculation: keep what the pass cached, or take all of it back.
EndSpeculation(s, keep, logged) ==
  placeholder' = [placeholder EXCEPT ![s] = IF keep THEN @ \cup logged ELSE @]

CommitsInPass(op, clean, outcome) == op = "advance" /\ outcome = "ok"  \* mutant
\* execute commits what attempt let through, if the EVM took the transaction.
Commits(op, clean, outcome) == op = "advance" /\ clean /\ outcome = "ok"

\* What a pass that computed `outcome` from `made` writes into the overlay.
Execute(s, c, clean, outcome, made) ==
  LET writes == Commits(call[c].op, clean, outcome) IN
  /\ tainted' = IF writes /\ "placeholder" \in made THEN tainted \cup {s} ELSE tainted
  /\ commits' = IF writes THEN [commits EXCEPT ![c] = @ + 1] ELSE commits

\* A clean speculative pass: everything read was known.  The EVM may reject
\* the transaction, which commits nothing.
RunClean(w, s, c, outcome) ==
  LET misses == Misses(s, c)
      made == RestsOn(s, c, misses, {}) IN
  /\ FrontRead(w, s, c)
  /\ ~blocking[w] /\ Clean(misses)
  /\ Execute(s, c, TRUE, outcome, made)
  /\ Reply(w, s, c, outcome, made)
  /\ EndSpeculation(s, TRUE, misses \cap Slots)
  /\ UNCHANGED <<live, count, cached>>

\* A pass that missed: the keys in `missing` read as placeholders, those among
\* the job's own reads and those only a placeholder led to; only a slot's zero
\* enters the overlay.  The result, Ok or not, is dropped and the job parked at
\* the front of its session's queue.
RunDirty(w, s, c, missing) ==
  /\ FrontRead(w, s, c)
  /\ ~blocking[w]
  /\ missing \subseteq Keys \ Known(s) /\ ~Clean(missing \cap call[c].reads)
  /\ Execute(s, c, FALSE, "ok", RestsOn(s, c, missing, {}))
  /\ EndSpeculation(s, FALSE, missing \cap Slots)
  /\ blocked' = blocked \cup {s}
  /\ rounds' = [rounds EXCEPT ![s] = @ + 1]
  /\ resolving' = [resolving EXCEPT ![s] = missing]
  /\ running' = [running EXCEPT ![w] = NoSession]
  /\ UNCHANGED <<nextId, live, count, cached, inbox, queue, blocking, waited, call, ahead>>

\* A blocking pass waits for each unknown key.  `failed` are the reads that
\* errored: an account's error is the job's own, a slot's reads as zero.
RunBlocking(w, s, c, got, failed, outcome) ==
  LET wanted == Misses(s, c)
      made == IF failed \subseteq Slots THEN RestsOn(s, c, {}, failed) ELSE {} IN
  /\ FrontRead(w, s, c)
  /\ blocking[w]
  /\ got \cup failed \subseteq wanted /\ got \cap failed = {}
  /\ IF failed \subseteq Slots THEN got \cup failed = wanted ELSE outcome = "err"
  /\ cached' = cached \cup got
  /\ Execute(s, c, TRUE, outcome, made)
  /\ Reply(w, s, c, outcome, made)
  /\ UNCHANGED <<live, count, placeholder>>

\* The pass panics after reading `read`, before anything is committed.  attempt
\* rolls a speculative pass's placeholders back; a blocking pass has cached what
\* it got; catch_unwind in the loop drops the local queue, and with it every
\* reply channel in it.
RunPanic(w, s, c, read) ==
  /\ FrontRead(w, s, c)
  /\ read \subseteq call[c].reads \ Known(s)
  /\ EndSpeculation(s, FALSE, IF blocking[w] THEN {} ELSE read \cap Slots)
  /\ cached' = IF blocking[w] THEN cached \cup read ELSE cached
  /\ LET lost == {queue[s][i] : i \in DOMAIN queue[s]} IN
     /\ call' = [d \in Callers |-> IF d \in lost THEN [call[d] EXCEPT !.st = "gone"] ELSE call[d]]
     /\ ahead' = [d \in Callers |-> ahead[d] \ lost]
  /\ queue' = [queue EXCEPT ![s] = <<>>]
  /\ rounds' = [rounds EXCEPT ![s] = 0]
  /\ running' = [running EXCEPT ![w] = NoSession]
  /\ blocking' = [blocking EXCEPT ![w] = FALSE]
  /\ StoreCount(w, live)
  /\ UNCHANGED <<nextId, live, tainted, inbox, blocked, resolving, waited, commits>>

\* The queue is empty: back to recv, the live count stored once more.
RunEnd(w) ==
  /\ running[w] # NoSession /\ queue[running[w]] = <<>>
  /\ running' = [running EXCEPT ![w] = NoSession]
  /\ StoreCount(w, live)
  /\ UNCHANGED <<nextId, live, age, placeholder, tainted, cached, inbox, blocked,
                 queue, rounds, resolving, blocking, waited, call, commits, ahead>>

----------------------------------------------------------------------------
(* Resolver threads *)

\* One of the keys lands in the shared cache.
ResolveKey(s, k) ==
  /\ k \in resolving[s] \ cached
  /\ cached' = cached \cup {k}
  /\ UNCHANGED <<sessionVars, workerVars, call, commits, ahead>>

\* The resolver thread's last send.
PostedOnSuccess(s, failed) ==  \* mutant
  IF failed THEN inbox[WorkerOf(s)] ELSE Append(inbox[WorkerOf(s)], UnblockMsg(s, failed))
Posted(s, failed) == Append(inbox[WorkerOf(s)], UnblockMsg(s, failed))

\* The thread posts Unblock: not failed once every key is in; failed on an
\* upstream error, a panic, an expired session or a thread that never spawned.
ResolveEnd(s, failed) ==
  /\ resolving[s] # {}
  /\ failed \/ resolving[s] \subseteq cached
  /\ resolving' = [resolving EXCEPT ![s] = {}]
  /\ inbox' = [inbox EXCEPT ![WorkerOf(s)] = Posted(s, failed)]
  /\ UNCHANGED <<sessionVars, cached, blocked, queue, rounds, running, blocking,
                 waited, call, commits, ahead>>

----------------------------------------------------------------------------
(* Time *)

Quiet(w) == running[w] = NoSession /\ inbox[w] = <<>>

Tick ==
  /\ age' = [s \in Sessions |-> IF s \in live /\ age[s] < Ttl THEN age[s] + 1 ELSE age[s]]
  /\ waited' = [w \in Workers |-> waited[w] \/ Quiet(w)]
  /\ UNCHANGED <<nextId, live, placeholder, tainted, count, cached, inbox, blocked,
                 queue, rounds, resolving, running, blocking, call, commits, ahead>>

\* What the sweep's retain drops.
ExpiredInverted(w) == {s \in live : WorkerOf(s) = w /\ age[s] < Ttl}  \* mutant
Expired(w) == {s \in live : WorkerOf(s) = w /\ age[s] >= Ttl}

\* recv_timeout ran out: the sweep drops this worker's expired sessions.
Sweep(w) ==
  /\ Quiet(w) /\ waited[w]
  /\ waited' = [waited EXCEPT ![w] = FALSE]
  /\ live' = live \ Expired(w)
  /\ placeholder' = [s \in Sessions |-> IF s \in Expired(w) THEN {} ELSE placeholder[s]]
  /\ tainted' = tainted \ Expired(w)
  /\ StoreCount(w, live')
  /\ UNCHANGED <<nextId, age, cached, inbox, blocked, queue, rounds, resolving,
                 running, blocking, call, commits, ahead>>

----------------------------------------------------------------------------
Caller(c) ==
  \/ \E op \in Ops, s \in Sessions, reads \in SUBSET Keys : Submit(c, op, s, reads)
  \/ Fork(c)
  \/ Adopt(c)
  \/ Return(c)

\* What a worker does without waiting for the network.
RunLocal(w) ==
  \/ \E s \in Sessions, c \in Callers :
       \/ RunUnknown(w, s, c)
       \/ RunCreate(w, s, c)
       \/ RunDiscard(w, s, c)
       \/ RunDirect(w, s, c)
       \/ \E o \in {"ok", "err"} : RunClean(w, s, c, o)
       \/ \E m \in SUBSET Keys : RunDirty(w, s, c, m)
       \/ \E l \in SUBSET Keys : ~blocking[w] /\ RunPanic(w, s, c, l)
  \/ RunEnd(w)

\* What it does on the worker thread at the network's pace.
RunWaiting(w) ==
  \E s \in Sessions, c \in Callers :
    \/ \E g, f \in SUBSET Keys, o \in {"ok", "err"} : RunBlocking(w, s, c, g, f, o)
    \/ \E l \in SUBSET Keys : blocking[w] /\ RunPanic(w, s, c, l)

\* A blocking pass that finds everything it reads waits for nobody.
RunCached(w) ==
  \E s \in Sessions, c \in Callers, o \in {"ok", "err"} : RunBlocking(w, s, c, {}, {}, o)

Resolver(s) ==
  \/ \E k \in Keys : ResolveKey(s, k)
  \/ \E f \in BOOLEAN : ResolveEnd(s, f)

Next ==
  \/ \E c \in Callers : Caller(c)
  \/ \E w \in Workers : Receive(w) \/ RunLocal(w) \/ RunWaiting(w) \/ Sweep(w)
  \/ \E s \in Sessions : Resolver(s)
  \/ Tick

Spec == Init /\ [][Next]_vars

\* A worker thread never stops; upstream answers nothing in particular.
WorkerFairness ==
  \A w \in Workers : WF_vars(Receive(w)) /\ WF_vars(RunLocal(w) \/ RunCached(w))
\* Every upstream request ends, in an answer or in an error.
UpstreamFairness ==
  /\ \A w \in Workers : WF_vars(RunWaiting(w))
  /\ \A s \in Sessions : WF_vars(Resolver(s))
\* Time passes, and a recv_timeout that ran out returns.
TimeFairness == WF_vars(Tick) /\ \A w \in Workers : WF_vars(Sweep(w))

OfflineSpec == Spec /\ WorkerFairness
TimedSpec == OfflineSpec /\ UpstreamFairness /\ TimeFairness

----------------------------------------------------------------------------
(* Properties *)

CallType == [st : Answered \cup {"idle", "sent", "branched"}, op : AllOps, id : Sessions,
             reads : SUBSET Keys, made : SUBSET MadeUp]

MessageType == [type : {"job"}, caller : Callers]
                 \cup [type : {"unblock"}, id : Sessions, failed : BOOLEAN]

\* The shape of every variable; in particular no job takes more than
\* MAX_SPECULATIVE_ROUNDS passes that miss.
TypeOK ==
  /\ nextId \in 0 .. MaxSessions
  /\ live \subseteq Sessions
  /\ age \in [Sessions -> 0 .. Ttl]
  /\ placeholder \in [Sessions -> SUBSET Keys]
  /\ tainted \subseteq Sessions
  /\ cached \subseteq Keys
  /\ inbox \in [Workers -> Seq(MessageType)]
  /\ blocked \subseteq Sessions
  /\ queue \in [Sessions -> Seq(Callers)]
  /\ rounds \in [Sessions -> 0 .. MaxRounds]
  /\ resolving \in [Sessions -> SUBSET Keys]
  /\ running \in [Workers -> Sessions \cup {NoSession}]
  /\ blocking \in [Workers -> BOOLEAN]
  /\ count \in [Workers -> Nat]
  /\ waited \in [Workers -> BOOLEAN]
  /\ call \in [Callers -> CallType]
  /\ commits \in [Callers -> Nat]
  /\ ahead \in [Callers -> SUBSET Callers]

PostsIn(q, s) == {i \in DOMAIN q : q[i].type = "unblock" /\ q[i].id = s}
Posts(s) == PostsIn(inbox[WorkerOf(s)], s)

\* park's "From here on `Unblock` must arrive": a parked session always has
\* exactly one wake-up on its way, its resolver thread or the Unblock that
\* thread posted, and a session that is not parked has none that could start
\* its queue a second time.
NoLostWakeup ==
  \A s \in Sessions :
    IF s \in blocked
    THEN \/ resolving[s] # {} /\ Posts(s) = {}
         \/ resolving[s] = {} /\ \E i \in DOMAIN inbox[WorkerOf(s)] : Posts(s) = {i}
    ELSE resolving[s] = {} /\ Posts(s) = {}

Places(c) ==
  (UNION {{<<"inbox", w, i>> : i \in {j \in DOMAIN inbox[w] : inbox[w][j] = JobMsg(c)}} : w \in Workers})
  \cup (UNION {{<<"queue", s, i>> : i \in {j \in DOMAIN queue[s] : queue[s][j] = c}} : s \in Sessions})

\* Through parking, requeueing and draining a job is never dropped and never
\* duplicated: an unanswered job is in one place, an answered one in none.
JobHeldOnce ==
  \A c \in Callers :
    IF call[c].st = "sent" THEN \E p \in Places(c) : Places(c) = {p} ELSE Places(c) = {}

\* execute commits "only after a clean pass": however many passes an advance
\* took, whatever they missed and whether they came out Ok, it is committed once
\* if it was answered Ok, and never while it waits, if it was rejected or lost.
CommitOnce ==
  \A c \in Callers :
    commits[c] = IF call[c].op = "advance" /\ call[c].st = "ok" THEN 1 ELSE 0

\* attempt drops what a pass that missed computed, execute's diff is "never one
\* computed from placeholders": no answer rests on a placeholder, its own pass's,
\* one another pass left in the overlay, or one behind a diff committed earlier
\* to its session or to the sessions that was branched from.
AnswersFromUpstream ==
  /\ \A c \in Callers : "placeholder" \notin call[c].made
  /\ tainted = {}

\* A pass that missed or panicked leaves none of its placeholders behind.
NoPlaceholderKept == \A s \in Sessions : placeholder[s] = {}

\* active_session_count: "a caller that just got its reply never reads the old
\* count", and the sweep and the panic path keep it exact too.
CountFresh == \A w \in Workers : count[w] = CountOf(w, live)

\* Job::session_id's "jobs for one session run in arrival order even while one
\* of them waits on upstream", and dispatch: whatever passes, parks and retries a
\* job took, it takes effect at one moment, in its turn, and only if answered.
Jobs == INSTANCE SessionJobs WITH
  opened <- 0 .. nextId - 1,
  job <- [c \in Callers |-> [st |-> call[c].st, op |-> call[c].op, id |-> call[c].id,
                             commits |-> commits[c]]]
TakesEffectInTurn == Jobs!Spec

\* A blocking retry that misses something, hence holds its worker thread.
Waiting(w) ==
  \E s \in Sessions, c \in Callers : Front(w, s, c) /\ blocking[w] /\ Misses(s, c) # {}

\* A job whose pass missed is parked "while every other session on this worker
\* carries on": with upstream silent for good, a job is still answered unless its
\* own session is parked.  It may also wait behind a blocking retry, which holds
\* the worker although "a worker never waits on the network"; behind nothing else.
OthersNotStalled ==
  \A c \in Callers :
    call[c].st = "sent" ~>
      \/ call[c].st # "sent"
      \/ call[c].id \in blocked
      \/ Waiting(WorkerOf(call[c].id))

\* Every job is answered in the end, whatever upstream answers, as long as it
\* answers or fails every request.
EveryJobAnswered ==
  UpstreamFairness => \A c \in Callers : (call[c].st = "sent" ~> call[c].st # "sent")

\* A worker whose callers have gone quiet expires every session it holds.
QuietWorkerExpires ==
  UpstreamFairness /\ TimeFairness =>
    \A w \in Workers : <>[]Quiet(w) => <>[](\A s \in live : WorkerOf(s) # w)

----------------------------------------------------------------------------
(* The inductive invariant behind TypeOK, NoLostWakeup and JobHeldOnce *)

\* What a worker is running is its own, is not parked at the same time, and has
\* a pass left before its job must run blocking.
RunningOK ==
  \A w \in Workers : running[w] # NoSession =>
    /\ WorkerOf(running[w]) = w /\ running[w] \notin blocked
    /\ ~blocking[w] /\ queue[running[w]] # <<>> => rounds[running[w]] < MaxRounds

\* A message is in the inbox of its session's worker; a job in it is unanswered.
InboxOK ==
  \A w \in Workers : \A i \in DOMAIN inbox[w] :
    LET m == inbox[w][i] IN
    /\ m.type = "unblock" => WorkerOf(m.id) = w
    /\ m.type = "job" => call[m.caller].st = "sent" /\ WorkerOf(call[m.caller].id) = w

\* A queue holds unanswered jobs of its own session, and only while that
\* session is parked or running.
QueueOK ==
  \A s \in Sessions :
    /\ \A i \in DOMAIN queue[s] : call[queue[s][i]].st = "sent" /\ call[queue[s][i]].id = s
    /\ queue[s] # <<>> => s \in blocked \/ running[WorkerOf(s)] = s

\* No job is twice in an inbox, twice in a queue, or in both.
HeldAtMostOnce ==
  /\ \A w \in Workers : \A i, j \in DOMAIN inbox[w] :
       inbox[w][i].type = "job" /\ inbox[w][j] = inbox[w][i] => i = j
  /\ \A s \in Sessions : \A i, j \in DOMAIN queue[s] : queue[s][i] = queue[s][j] => i = j
  /\ \A w \in Workers, s \in Sessions : \A i \in DOMAIN inbox[w], j \in DOMAIN queue[s] :
       inbox[w][i] # JobMsg(queue[s][j])

\* An unanswered job is in its worker's inbox or in its session's queue.
HeldSomewhere ==
  \A c \in Callers : call[c].st = "sent" =>
    \/ \E i \in DOMAIN inbox[WorkerOf(call[c].id)] : inbox[WorkerOf(call[c].id)][i] = JobMsg(c)
    \/ \E i \in DOMAIN queue[call[c].id] : queue[call[c].id][i] = c

IInv ==
  /\ TypeOK /\ RunningOK /\ NoLostWakeup
  /\ InboxOK /\ QueueOK /\ HeldAtMostOnce /\ HeldSomewhere

----------------------------------------------------------------------------
(* What the documentation says and the code does not do *)

\* README, FORKYARD_SESSION_TTL_SECS: "Idle lifetime of a session before it's
\* reaped": a session nobody uses any more is reaped, other traffic or not.
IdleSessionExpires ==
  \A s \in Sessions :
    (s \in live /\ \A c \in Callers : call[c].st = "sent" => call[c].id # s)
      ~> (s \notin live \/ \E c \in Callers : call[c].st = "sent" /\ call[c].id = s)

\* execute: "never one computed from placeholders"; Job::Unblock: a failed
\* retry's "upstream error surfaces as the job's own error".
UpstreamErrorSurfaces == \A c \in Callers : "failed read" \notin call[c].made
=============================================================================
