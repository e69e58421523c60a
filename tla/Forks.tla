-------------------------------- MODULE Forks --------------------------------
(***************************************************************************)
(* Where a new session's base, fallback and block come from: the three     *)
(* locks of SessionManager that refresh_fallback writes one after the      *)
(* other, the chain-tip follower that calls it, the least-recently-used    *)
(* PinnedBlocks behind fork_at_block, and fork, fork_at_block and restore, *)
(* which read all of these one lock at a time.                             *)
(*                                                                         *)
(* A base, a fallback and a BlockEnv are each abstracted to the block they *)
(* describe; an empty base describes NoBlock.  A pinned block's cell is    *)
(* named by the value of `uses` when it was made.                          *)
(***************************************************************************)
EXTENDS Integers, Sequences, FiniteSets

CONSTANTS
  Callers,      \* tasks that open sessions
  Start,        \* the block the process starts at
  MaxBlock,     \* bound: the last block the chain produces
  Cap,          \* PinnedBlocks::cap
  MaxUses,      \* bound: calls of get_or_insert
  MaxFailures   \* bound: upstream requests that fail

ASSUME ForksAssumption ==
  /\ MaxBlock \in Nat \ {0} /\ Start \in 1 .. MaxBlock /\ Cap \in Nat \ {0}
  /\ MaxUses \in Nat /\ MaxFailures \in Nat /\ IsFiniteSet(Callers)

Blocks  == 1 .. MaxBlock
NoBlock == 0
NoCell  == 0

VARIABLES
  tip,        \* the chain's latest block, upstream
  base,       \* SessionManager::base
  fallback,   \* SessionManager::fallback
  env,        \* SessionManager::block_env
  follower,   \* the ChainTipFollower task; `seen` is last_seen_number
  cells,      \* PinnedBlocks::cells
  recency,    \* PinnedBlocks::recency
  ready,      \* the cells whose OnceCell is initialised
  call,       \* each caller's fork, fork_at_block or restore
  failures,   \* upstream failures so far
  refreshed,  \* history: the block of the last refresh that has returned
  uses,       \* history: calls of get_or_insert so far
  lastUse,    \* history: when each block was last asked for
  evictedAt   \* history: when each block was last evicted

tipVars == <<tip, base, fallback, env, follower, refreshed>>
pinVars == <<cells, recency, ready, uses, lastUse, evictedAt>>
vars == <<tipVars, pinVars, call, failures>>

NewCall(pc, op, n, since, overlap) ==
  [pc |-> pc, op |-> op, want |-> n, cell |-> NoCell, base |-> NoBlock,
   fallback |-> NoBlock, env |-> NoBlock, since |-> since, overlap |-> overlap]
NoCall == NewCall("idle", "fork", NoBlock, NoBlock, FALSE)

\* with_base may have seeded the base with that block's state.
Init ==
  /\ tip = Start /\ fallback = Start /\ env = Start /\ base \in {NoBlock, Start}
  /\ follower = [pc |-> "sleep", got |-> Start, seen |-> Start]
  /\ cells = [n \in Blocks |-> NoCell]
  /\ recency = <<>>
  /\ ready = {}
  /\ call = [c \in Callers |-> NoCall]
  /\ failures = 0
  /\ refreshed = Start
  /\ uses = 0
  /\ lastUse = [n \in Blocks |-> 0]
  /\ evictedAt = [n \in Blocks |-> 0]

----------------------------------------------------------------------------
(* The chain-tip follower *)

Mine ==
  /\ tip < MaxBlock
  /\ tip' = tip + 1
  /\ UNCHANGED <<base, fallback, env, follower, refreshed, pinVars, call, failures>>

\* latest_block_env shows a block other than the last one forked.
Poll ==
  /\ follower.pc = "sleep" /\ tip # follower.seen
  /\ follower' = [follower EXCEPT !.pc = "forking"]
  /\ UNCHANGED <<tip, base, fallback, env, refreshed, pinVars, call, failures>>

\* Calls that are copying the three locks while a refresh writes them.
Copying == {"base", "fallback", "env"}
Overlapped ==
  [c \in Callers |-> IF call[c].pc \in Copying THEN [call[c] EXCEPT !.overlap = TRUE]
                                               ELSE call[c]]

\* refresh_fallback's first write; the chain may have moved on since the poll.
ReFork ==
  /\ follower.pc = "forking"
  /\ follower' = [pc |-> "env", got |-> tip, seen |-> tip]
  /\ fallback' = tip
  /\ call' = Overlapped
  /\ UNCHANGED <<tip, base, env, refreshed, pinVars, failures>>

SeenOnFailureToo == tip  \* mutant
\* last_seen_number moves only with a fork that succeeded.
SeenOnFailure == follower.seen

ReForkFails ==
  /\ follower.pc = "forking" /\ failures < MaxFailures
  /\ failures' = failures + 1
  /\ follower' = [follower EXCEPT !.pc = "sleep", !.seen = SeenOnFailure]
  /\ UNCHANGED <<tip, base, fallback, env, refreshed, pinVars, call>>

WriteEnv ==
  /\ follower.pc = "env"
  /\ env' = follower.got
  /\ follower' = [follower EXCEPT !.pc = "base"]
  /\ call' = Overlapped
  /\ UNCHANGED <<tip, base, fallback, refreshed, pinVars, failures>>

KeptBase == base  \* mutant
RefreshedBase == NoBlock

WriteBase ==
  /\ follower.pc = "base"
  /\ base' = RefreshedBase
  /\ follower' = [follower EXCEPT !.pc = "sleep"]
  /\ refreshed' = follower.got
  /\ call' = Overlapped
  /\ UNCHANGED <<tip, fallback, env, pinVars, failures>>

----------------------------------------------------------------------------
(* Opening a session *)

\* Whether a session comes from the manager's own block; restore asks env.
ByDefaultWhenSame(op, n) == op = "fork" \/ env = n  \* mutant
ByDefault(op, n) == op = "fork" \/ (op = "restore" /\ env = n)

Open(c, op, n) ==
  /\ call[c].pc = "idle"
  /\ op = "fork" <=> n = NoBlock
  /\ op = "restore" => n <= tip
  /\ ByDefault(op, n) \/ uses + Cardinality({d \in Callers : call[d].pc = "pinned"}) < MaxUses
  /\ call' = [call EXCEPT ![c] = NewCall(IF ByDefault(op, n) THEN "base" ELSE "pinned",
                                         op, n, refreshed, follower.pc \in {"env", "base"})]
  /\ UNCHANGED <<tipVars, pinVars, failures>>

\* fork_seeded copies the three locks one at a time.
ReadBase(c) ==
  /\ call[c].pc = "base"
  /\ call' = [call EXCEPT ![c] = [@ EXCEPT !.pc = "fallback", !.base = base]]
  /\ UNCHANGED <<tipVars, pinVars, failures>>

ReadFallback(c) ==
  /\ call[c].pc = "fallback"
  /\ call' = [call EXCEPT ![c] = [@ EXCEPT !.pc = "env", !.fallback = fallback]]
  /\ UNCHANGED <<tipVars, pinVars, failures>>

ReadEnv(c) ==
  /\ call[c].pc = "env"
  /\ call' = [call EXCEPT ![c] = [@ EXCEPT !.pc = "open", !.env = env]]
  /\ UNCHANGED <<tipVars, pinVars, failures>>

UsedOnce(n) ==  \* mutant
  IF \E i \in DOMAIN recency : recency[i] = n THEN recency ELSE Append(recency, n)
\* recency.retain(..), of a list that holds a block at most once.
Without(n) ==
  IF \A i \in DOMAIN recency : recency[i] # n THEN recency
  ELSE LET k == CHOOSE k \in DOMAIN recency : recency[k] = n IN
       [i \in 1 .. Len(recency) - 1 |-> recency[IF i < k THEN i ELSE i + 1]]
Used(n) == Append(Without(n), n)
OverflowLate(q) == IF Len(q) > Cap + 1 THEN Len(q) - Cap ELSE 0  \* mutant
\* How many blocks get_or_insert's loop evicts.
Overflow(q) == IF Len(q) > Cap THEN Len(q) - Cap ELSE 0
NewCell(n) == uses + 1  \* mutant
\* cells.entry(n).or_default()
CellOf(n) == IF cells[n] # NoCell THEN cells[n] ELSE uses + 1

\* get_or_insert, under the lock of `pinned`.
EnterCell(c) ==
  /\ call[c].pc = "pinned"
  /\ LET n == call[c].want
         over == Overflow(Used(n))
         evicted == {Used(n)[i] : i \in 1 .. over} IN
     /\ recency' = SubSeq(Used(n), over + 1, Len(Used(n)))
     /\ cells' = [m \in Blocks |-> IF m \in evicted THEN NoCell
                                   ELSE IF m = n THEN CellOf(n) ELSE cells[m]]
     /\ uses' = uses + 1
     /\ lastUse' = [lastUse EXCEPT ![n] = uses']
     /\ evictedAt' = [m \in Blocks |-> IF m \in evicted THEN uses' ELSE evictedAt[m]]
     /\ call' = [call EXCEPT ![c] = [@ EXCEPT !.pc = "cell", !.cell = CellOf(n)]]
  /\ UNCHANGED <<tipVars, ready, failures>>

\* get_or_try_init: one caller of a cell runs the factory, the others wait.
StartInit(c) ==
  /\ call[c].pc = "cell" /\ call[c].cell \notin ready
  /\ \A d \in Callers : ~(call[d].pc = "factory" /\ call[d].cell = call[c].cell)
  /\ call' = [call EXCEPT ![c] = [@ EXCEPT !.pc = "factory"]]
  /\ UNCHANGED <<tipVars, pinVars, failures>>

FactoryOk(c) ==
  /\ call[c].pc = "factory" /\ call[c].want <= tip
  /\ ready' = ready \cup {call[c].cell}
  /\ call' = [call EXCEPT ![c] = [@ EXCEPT !.pc = "cell"]]
  /\ UNCHANGED <<tipVars, cells, recency, uses, lastUse, evictedAt, failures>>

FactoryMayFailOnlyTransiently(n) == failures < MaxFailures  \* mutant
\* Upstream may fail, and it has no block past its tip.
FactoryMayFail(n) == failures < MaxFailures \/ n > tip

FactoryErr(c) ==
  /\ call[c].pc = "factory" /\ FactoryMayFail(call[c].want)
  /\ failures' = IF call[c].want > tip THEN failures ELSE failures + 1
  /\ call' = [call EXCEPT ![c] = [@ EXCEPT !.pc = "failed"]]
  /\ UNCHANGED <<tipVars, pinVars>>

\* The cell is initialised: the session shares its fallback, its BlockEnv and
\* its base, which was made empty.
TakeCell(c) ==
  /\ call[c].pc = "cell" /\ call[c].cell \in ready
  /\ call' = [call EXCEPT ![c] =
       [@ EXCEPT !.pc = "open", !.base = NoBlock,
                 !.fallback = call[c].want, !.env = call[c].want]]
  /\ UNCHANGED <<tipVars, pinVars, failures>>

\* The client goes away and the handler's future is dropped at its await.
Cancel(c) ==
  /\ call[c].pc \in {"cell", "factory"}
  /\ call' = [call EXCEPT ![c] = NoCall]
  /\ UNCHANGED <<tipVars, pinVars, failures>>

Return(c) ==
  /\ call[c].pc \in {"open", "failed"}
  /\ call' = [call EXCEPT ![c] = NoCall]
  /\ UNCHANGED <<tipVars, pinVars, failures>>

----------------------------------------------------------------------------
Follower == Poll \/ ReFork \/ ReForkFails \/ WriteEnv \/ WriteBase

Step(c) ==
  \/ ReadBase(c) \/ ReadFallback(c) \/ ReadEnv(c)
  \/ EnterCell(c) \/ StartInit(c) \/ FactoryOk(c) \/ FactoryErr(c) \/ TakeCell(c)

Next ==
  \/ Mine
  \/ Follower
  \/ \E c \in Callers :
       \/ \E op \in {"fork", "forkAt", "restore"}, n \in Blocks \cup {NoBlock} : Open(c, op, n)
       \/ Step(c)
       \/ Cancel(c)
       \/ Return(c)

Spec == Init /\ [][Next]_vars

\* Every thread takes its next step; upstream answers or fails every request,
\* and only MaxFailures of them fail.
Fairness == WF_vars(Follower) /\ \A c \in Callers : WF_vars(Step(c))
FairSpec == Spec /\ Fairness

----------------------------------------------------------------------------
(* Properties *)

CallType ==
  [pc : {"idle", "pinned", "cell", "factory", "open", "failed"} \cup Copying,
   op : {"fork", "forkAt", "restore"}, want : 0 .. MaxBlock, cell : 0 .. MaxUses,
   base : 0 .. MaxBlock, fallback : 0 .. MaxBlock, env : 0 .. MaxBlock,
   since : 0 .. MaxBlock, overlap : BOOLEAN]

\* The shape of every variable; in particular at most `cap` blocks stay warm.
TypeOK ==
  /\ tip \in Blocks /\ fallback \in Blocks /\ env \in Blocks
  /\ base \in 0 .. MaxBlock /\ refreshed \in Blocks
  /\ follower \in [pc : {"sleep", "forking", "env", "base"}, got : Blocks, seen : Blocks]
  /\ cells \in [Blocks -> 0 .. MaxUses]
  /\ recency \in Seq(Blocks) /\ Len(recency) <= Cap
  /\ ready \subseteq 1 .. MaxUses
  /\ call \in [Callers -> CallType]
  /\ failures \in 0 .. MaxFailures
  /\ uses \in 0 .. MaxUses
  /\ lastUse \in [Blocks -> 0 .. MaxUses]
  /\ evictedAt \in [Blocks -> 0 .. MaxUses]

Opened(c) == call[c].pc = "open"
\* All that the session of call c reads from describes block n.
AtBlock(c, n) ==
  call[c].fallback = n /\ call[c].env = n /\ call[c].base \in {NoBlock, n}

\* fork_at_block: "a pinned session must survive refresh_fallback, which moves
\* the default base out from under it": whatever the follower does meanwhile,
\* every part of a session pinned at a block is that block's.
PinnedAtItsBlock ==
  \A c \in Callers : Opened(c) /\ call[c].op = "forkAt" => AtBlock(c, call[c].want)

\* with_base, Session::restore: "another block's accounts are wrong, not merely
\* stale".  A session opened while no refresh was under way is at one block,
\* and a restored one at the block its state was saved at.
SettledForkIsWhole ==
  \A c \in Callers : Opened(c) /\ ~call[c].overlap =>
    AtBlock(c, call[c].env) /\ (call[c].op = "restore" => call[c].env = call[c].want)

\* refresh_fallback: "Only sessions forked after this call see the new one":
\* a session forked after a refresh returned reads nothing older than it.
SeesLastRefresh ==
  \A c \in Callers : Opened(c) /\ call[c].op = "fork" =>
    /\ call[c].fallback >= call[c].since /\ call[c].env >= call[c].since
    /\ call[c].base = NoBlock \/ call[c].base >= call[c].since

\* PinnedBlocks, "evicting least-recently-*used* first": recency lists the
\* blocks that have a cell, each once, by their last use, and every block
\* without one was last used before them all.
LeastRecentlyUsed ==
  /\ {recency[i] : i \in DOMAIN recency} = {n \in Blocks : cells[n] # NoCell}
  /\ \A i, j \in DOMAIN recency : i < j => lastUse[recency[i]] < lastUse[recency[j]]
  /\ \A n, m \in Blocks : cells[n] # NoCell /\ cells[m] = NoCell => lastUse[m] < lastUse[n]

\* fork_at_block: "Sessions at the same block share one base and one fallback",
\* from the first that asks for the block until the block is evicted.
SharesPinnedBlock ==
  \A c \in Callers :
    call[c].cell # NoCell /\ call[c].cell > evictedAt[call[c].want]
      => cells[call[c].want] = call[c].cell

\* A factory that fails, a caller that goes away while it runs and an eviction
\* in between leave no other caller of the block waiting for ever.
EveryOpenReturns ==
  \A c \in Callers : (call[c].pc # "idle") ~> (call[c].pc \in {"idle", "open", "failed"})

\* ChainTipFollower keeps the manager "current to the latest chain head": once
\* the chain is quiet, whichever of its forks failed, the manager is at the tip.
CatchesUp ==
  \A n \in Blocks : <>[](tip = n) => <>[](fallback = n /\ env = n /\ base \in {NoBlock, n})

----------------------------------------------------------------------------
(* What the documentation says and the code does not do *)

\* Session::fork: the block_env is "the real block ... this session's fork is
\* pinned to"; Session::restore: the caller owns the same block.  Whatever
\* refresh runs meanwhile, a session is at one block, a restored one at its own.
SessionAtOneBlock ==
  \A c \in Callers : Opened(c) =>
    AtBlock(c, call[c].env) /\ (call[c].op = "restore" => call[c].env = call[c].want)
=============================================================================
