---------------------------- MODULE ReadThrough ----------------------------
(***************************************************************************)
(* ReadThrough::resolve of crates/fetch/src/lib.rs: resolver threads fetch *)
(* the keys of speculative passes that missed into one shared cache.  A    *)
(* key another thread is fetching is waited for, not asked for twice; the  *)
(* rest go out as one batch, under a cap on batches in flight, retried     *)
(* while the provider is rate limiting.  Blocking reads of the workers go  *)
(* past all that.  A flight is its key and its owner: its waiters hold it  *)
(* until it lands.                                                         *)
(***************************************************************************)
EXTENDS Integers, FiniteSets

CONSTANTS
  Threads,      \* resolver threads
  Keys,         \* StateKeys
  Hashes,       \* those that are block hashes, which no batch carries
  Blocking,     \* those a worker's blocking read may fetch
  MaxInFlight,  \* set_upstream_max_in_flight
  MaxRetries,   \* RATE_LIMIT_RETRIES
  MaxErrors,    \* bound: requests upstream refuses or fails
  NoThread

ASSUME ReadThroughAssumption ==
  /\ Hashes \subseteq Keys /\ Blocking \subseteq Keys
  /\ MaxInFlight \in Nat \ {0} /\ MaxRetries \in Nat /\ MaxErrors \in Nat
  /\ NoThread \notin Threads

VARIABLES
  cached,   \* ReadCache's accounts, storage and block_hashes
  flight,   \* ReadCache::in_flight: who is fetching a key
  pc,       \* where each thread's call is
  wanted,   \* the keys it was given
  mine,     \* the keys it claimed: its Landing
  theirs,   \* the flights it has still to wait for
  shared,   \* whether its last claim found flights of others
  asked,    \* the keys of its request that have not arrived
  attempt,  \* its retries of a rate-limited batch
  result,   \* how its last call ended
  errors,   \* requests refused or failed so far
  asks,     \* history: how often a resolve asked upstream for a key
  missed    \* history: how often it was asked for and did not arrive

callVars == <<pc, wanted, mine, theirs, shared, asked, attempt, result>>
history == <<errors, asks, missed>>
vars == <<cached, flight, callVars, history>>

Init ==
  /\ cached = {}
  /\ flight = [k \in Keys |-> NoThread]
  /\ pc = [t \in Threads |-> "idle"]
  /\ wanted = [t \in Threads |-> {}]
  /\ mine = [t \in Threads |-> {}]
  /\ theirs = [t \in Threads |-> {}]
  /\ shared = [t \in Threads |-> FALSE]
  /\ asked = [t \in Threads |-> {}]
  /\ attempt = [t \in Threads |-> 0]
  /\ result = [t \in Threads |-> "none"]
  /\ errors = 0
  /\ asks = [k \in Keys |-> 0]
  /\ missed = [k \in Keys |-> 0]

----------------------------------------------------------------------------
Call(t, keys) ==
  /\ pc[t] = "idle" /\ keys # {}
  /\ pc' = [pc EXCEPT ![t] = "claim"]
  /\ wanted' = [wanted EXCEPT ![t] = keys]
  /\ result' = [result EXCEPT ![t] = "none"]
  /\ UNCHANGED <<cached, flight, mine, theirs, shared, asked, attempt, history>>

\* The call goes on at `phase`, or ends.
GoTo(t, phase) ==
  /\ pc' = [pc EXCEPT ![t] = phase]
  /\ UNCHANGED <<wanted, result>>
Return(t, outcome) ==
  /\ pc' = [pc EXCEPT ![t] = "idle"]
  /\ wanted' = [wanted EXCEPT ![t] = {}]
  /\ result' = [result EXCEPT ![t] = outcome]

\* The uncached keys nobody is fetching.
FreeIfFlying(t) == {k \in wanted[t] \ cached : flight[k] # NoThread}  \* mutant
Free(t) == {k \in wanted[t] \ cached : flight[k] = NoThread}

\* claim, and what follows when there is nothing to fetch: all in one hold of
\* the in_flight lock.
Claim(t) ==
  /\ pc[t] = "claim"
  /\ LET busy == (wanted[t] \ cached) \ Free(t) IN
     /\ mine' = [mine EXCEPT ![t] = Free(t)]
     /\ theirs' = [theirs EXCEPT ![t] = {<<k, flight[k]>> : k \in busy}]
     /\ shared' = [shared EXCEPT ![t] = busy # {}]
     /\ flight' = [k \in Keys |-> IF k \in Free(t) THEN t ELSE flight[k]]
     /\ \/ Free(t) # {} /\ GoTo(t, "ready")
        \/ Free(t) = {} /\ busy # {} /\ GoTo(t, "wait")
        \/ Free(t) = {} /\ busy = {} /\ Return(t, "ok")
  /\ attempt' = [attempt EXCEPT ![t] = 0]
  /\ UNCHANGED <<cached, asked, history>>

\* The keys of its Landing that resolve_batched still has to ask for.
MissingAll(t) == mine[t]  \* mutant
Missing(t) == mine[t] \ cached

\* resolve_batched: what is missing now becomes the next request; with only
\* block hashes missing there is no batch to queue for.
Prepare(t) ==
  /\ pc[t] = "ready"
  /\ asked' = [asked EXCEPT ![t] = Missing(t)]
  /\ pc' = [pc EXCEPT ![t] = IF Missing(t) \subseteq Hashes THEN "hashes" ELSE "queued"]
  /\ UNCHANGED <<cached, flight, wanted, mine, theirs, shared, attempt, result, history>>

InFlight == Cardinality({t \in Threads : pc[t] = "batch"})

\* The permit is taken and the batch sent.
Send(t) ==
  /\ pc[t] = "queued" /\ InFlight < MaxInFlight
  /\ pc' = [pc EXCEPT ![t] = "batch"]
  /\ asks' = [k \in Keys |-> IF k \in asked[t] \ Hashes THEN asks[k] + 1 ELSE asks[k]]
  /\ UNCHANGED <<cached, flight, wanted, mine, theirs, shared, asked, attempt, result, errors, missed>>

\* One answer of the batch is cached.
Arrive(t, k) ==
  /\ pc[t] = "batch" /\ k \in asked[t] \ Hashes
  /\ cached' = cached \cup {k}
  /\ asked' = [asked EXCEPT ![t] = @ \ {k}]
  /\ UNCHANGED <<flight, pc, wanted, mine, theirs, shared, attempt, result, history>>

\* The batch is complete, the permit dropped; its block hashes follow.
BatchDone(t) ==
  /\ pc[t] = "batch" /\ asked[t] \subseteq Hashes
  /\ pc' = [pc EXCEPT ![t] = "hashes"]
  /\ UNCHANGED <<cached, flight, wanted, mine, theirs, shared, asked, attempt, result, history>>

\* read_blocking of one block hash.
ReadHash(t, k) ==
  /\ pc[t] = "hashes" /\ k \in asked[t]
  /\ cached' = cached \cup {k}
  /\ asked' = [asked EXCEPT ![t] = @ \ {k}]
  /\ asks' = IF k \in cached THEN asks ELSE [asks EXCEPT ![k] = @ + 1]
  /\ UNCHANGED <<flight, pc, wanted, mine, theirs, shared, attempt, result, errors, missed>>

\* Landing's drop: the flights end and whoever waits for one is woken.  The
\* thread itself goes on with the flights `held`.
Waiter(t) == CHOOSE u \in Threads : (\A v \in Threads : \A f \in theirs[v] : f[2] # t)
                                    \/ \E f \in theirs[u] : f[2] = t
LandNotifyOne(t, held) ==  \* mutant
  /\ flight' = [k \in Keys |-> IF k \in mine[t] THEN NoThread ELSE flight[k]]
  /\ theirs' = [[theirs EXCEPT ![t] = held] EXCEPT ![Waiter(t)] = {f \in @ : f[2] # t}]
  /\ mine' = [mine EXCEPT ![t] = {}]
Land(t, held) ==
  /\ flight' = [k \in Keys |-> IF k \in mine[t] THEN NoThread ELSE flight[k]]
  /\ theirs' = [u \in Threads |-> {f \in (IF u = t THEN held ELSE theirs[u]) : f[2] # t}]
  /\ mine' = [mine EXCEPT ![t] = {}]

\* Whether a fetched claim is all there was to do.
AloneNow(t) == theirs[t] = {}  \* mutant
Alone(t) == ~shared[t]

\* Everything claimed is in.  The call ends if it claimed all that was missing;
\* otherwise it waits and looks again.
Fetched(t) ==
  /\ pc[t] = "hashes" /\ asked[t] = {}
  /\ Land(t, theirs[t])
  /\ \/ Alone(t) /\ Return(t, "ok")
     \/ ~Alone(t) /\ GoTo(t, "wait")
  /\ UNCHANGED <<cached, shared, asked, attempt, history>>

\* A request ends without some of what it asked for: of a batch, whatever has
\* not arrived; of the block hashes, the one being read.
Lose(t) ==
  /\ errors < MaxErrors
  /\ errors' = errors + 1
  /\ \/ /\ pc[t] = "batch" /\ asked[t] \ Hashes # {}
        /\ missed' = [k \in Keys |-> IF k \in asked[t] \ Hashes THEN missed[k] + 1 ELSE missed[k]]
        /\ UNCHANGED asks
     \/ /\ pc[t] = "hashes"
        /\ \E k \in asked[t] \ cached :
             /\ asks' = [asks EXCEPT ![k] = @ + 1]
             /\ missed' = [missed EXCEPT ![k] = @ + 1]
  /\ asked' = [asked EXCEPT ![t] = {}]

MayRetry(t) == attempt[t] < MaxRetries

\* Rate limited: back off, then ask for what is still missing.
Refused(t) ==
  /\ Lose(t)
  /\ MayRetry(t)
  /\ attempt' = [attempt EXCEPT ![t] = @ + 1]
  /\ pc' = [pc EXCEPT ![t] = "ready"]
  /\ UNCHANGED <<cached, flight, wanted, mine, theirs, shared, result>>

\* Any other error, a refusal too many, or a panic: the call fails at once,
\* without waiting for the flights of others.
Fail(t) ==
  /\ Lose(t)
  /\ Land(t, {})
  /\ Return(t, "err")
  /\ UNCHANGED <<cached, shared, attempt>>

\* Every flight waited for has landed: look again.
Wake(t) ==
  /\ pc[t] = "wait" /\ theirs[t] = {}
  /\ pc' = [pc EXCEPT ![t] = "claim"]
  /\ UNCHANGED <<cached, flight, wanted, mine, theirs, shared, asked, attempt, result, history>>

\* basic_ref, storage_ref or block_hash_ref on a worker running a job blocking.
Read(k) ==
  /\ k \in Blocking \ cached
  /\ cached' = cached \cup {k}
  /\ UNCHANGED <<flight, callVars, history>>

Step(t) ==
  \/ Claim(t)
  \/ Prepare(t)
  \/ Send(t)
  \/ BatchDone(t)
  \/ Fetched(t)
  \/ Refused(t)
  \/ Fail(t)
  \/ Wake(t)
  \/ \E k \in Keys : Arrive(t, k) \/ ReadHash(t, k)

Next ==
  \/ \E t \in Threads, keys \in SUBSET Keys : Call(t, keys)
  \/ \E t \in Threads : Step(t)
  \/ \E k \in Keys : Read(k)

Spec == Init /\ [][Next]_vars

\* A thread runs, upstream answers or fails every request, and the semaphore
\* hands its permits out in turn (tokio's is fair).
FairSpec == Spec /\ \A t \in Threads : WF_vars(Step(t)) /\ SF_vars(Send(t))

----------------------------------------------------------------------------
(* Properties *)

Phases == {"idle", "claim", "ready", "queued", "batch", "hashes", "wait"}
Fetching == {"ready", "queued", "batch", "hashes"}

\* The shape of every variable: a batch is retried at most RATE_LIMIT_RETRIES
\* times.
TypeOK ==
  /\ cached \subseteq Keys
  /\ flight \in [Keys -> Threads \cup {NoThread}]
  /\ pc \in [Threads -> Phases]
  /\ wanted \in [Threads -> SUBSET Keys]
  /\ mine \in [Threads -> SUBSET Keys]
  /\ theirs \in [Threads -> SUBSET (Keys \X Threads)]
  /\ shared \in [Threads -> BOOLEAN]
  /\ asked \in [Threads -> SUBSET Keys]
  /\ attempt \in [Threads -> 0 .. MaxRetries]
  /\ result \in [Threads -> {"none", "ok", "err"}]
  /\ errors \in 0 .. MaxErrors
  /\ asks \in [Keys -> Nat] /\ missed \in [Keys -> Nat]

\* Landing: "a failed fetch can never leave its waiters waiting for good".  A
\* flight belongs to the one thread that claimed its key and is fetching it,
\* and whoever waits, waits for such a flight and holds none.
FlightsLand ==
  /\ \A k \in Keys, t \in Threads : flight[k] = t <=> k \in mine[t]
  /\ \A t \in Threads : mine[t] # {} => pc[t] \in Fetching
  /\ \A t \in Threads : \A f \in theirs[t] : f[2] # t /\ flight[f[1]] = f[2]

\* "A key another session is already fetching isn't asked for again", and a
\* retry "asks only for what's still missing": a resolve asks upstream for a
\* key once, and once more only for each time the key was asked for and did
\* not come.
AskedOncePerMiss == \A k \in Keys : asks[k] <= missed[k] + 1

\* Every resolve returns, in one way or the other, once upstream has failed
\* for the last time.
EveryResolveReturns == \A t \in Threads : pc[t] # "idle" ~> pc[t] = "idle"

\* resolve keeps the promise its caller builds on: a call that returns Ok has
\* every key it was given in the cache, those that other threads fetched too.
Promise == INSTANCE Resolve WITH resolving <- wanted
KeepsPromise == Promise!Spec

----------------------------------------------------------------------------
(* The inductive invariant behind AskedOncePerMiss and KeepsPromise *)

\* A request asks for keys its thread claimed; block hashes last.
AskedOK ==
  \A t \in Threads :
    /\ asked[t] \subseteq mine[t]
    /\ asked[t] # {} => pc[t] \in {"queued", "batch", "hashes"}
    /\ pc[t] = "hashes" => asked[t] \subseteq Hashes

\* A key asked for once more than it was missed has arrived or is on its way;
\* a request still queued is for keys that have missed every time.
AsksOK ==
  \A k \in Keys :
    /\ asks[k] <= missed[k] + 1
    /\ \/ asks[k] <= missed[k]
       \/ k \in cached
       \/ \E t \in Threads : pc[t] = "batch" /\ k \in asked[t] \ Hashes
    /\ \A t \in Threads : pc[t] = "queued" /\ k \in asked[t] \ Hashes => asks[k] <= missed[k]

\* What is missing of a call was claimed, unless it shares; what is missing of
\* a claim is in its request; a call in progress is for some key.
WantedOK ==
  \A t \in Threads :
    /\ pc[t] \in Fetching /\ ~shared[t] => wanted[t] \ cached \subseteq mine[t]
    /\ pc[t] \in {"queued", "batch", "hashes"} => mine[t] \ cached \subseteq asked[t]
    /\ pc[t] = "idle" <=> wanted[t] = {}

IInv == TypeOK /\ FlightsLand /\ AskedOK /\ AsksOK /\ WantedOK
=============================================================================
