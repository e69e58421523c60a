------------------------------- MODULE Manager -------------------------------
(***************************************************************************)
(* SessionManager as the two surfaces see it, and what their request       *)
(* handlers share.  A handler posts a job to a session and awaits the      *)
(* answer on its oneshot channel; a session's jobs run one at a time in    *)
(* the order they were posted.  Worker says how a worker thread keeps that *)
(* promise; here a job runs in one step.                                   *)
(*                                                                         *)
(* A session is abstracted to its block and to one account, the sender of  *)
(* every transaction: its nonce and the number of transactions its balance *)
(* still pays for.  Storage and code are read and written by jobs that     *)
(* leave both alone.                                                       *)
(***************************************************************************)
EXTENDS Integers, Sequences, FiniteSets

CONSTANTS
  Handlers,     \* request handlers of either surface
  Nonces,       \* nonces and gas prices clients put in transactions
  Prices,
  MaxSessions,  \* bound: ids handed out by next_id
  MaxCalls,     \* bound: requests and a shutdown, each at its cost
  Cost,
  Start,        \* the block the process starts at
  MaxBlock,     \* bound: the last block the chain produces
  BaseFee,      \* each block's base fee
  Funds,        \* transactions the sender's upstream balance pays for
  MaxFaults,    \* bound: jobs that fail, sessions that expire, handlers dropped
  NoHandler

Methods == {"none", "open", "read", "set_balance", "snapshot", "discard", "block_number",
            "gas_price", "fork_from", "send", "send_sync", "estimate", "simulate", "advance",
            "stop"}

ASSUME ManagerAssumption ==
  /\ Nonces \subseteq Nat /\ Prices \subseteq Nat
  /\ MaxSessions \in Nat \ {0} /\ MaxCalls \in Nat
  /\ MaxBlock \in Nat \ {0} /\ Start \in 1 .. MaxBlock
  /\ BaseFee \in [1 .. MaxBlock -> Nat]
  /\ Funds \in Nat /\ MaxFaults \in Nat /\ Cost \in [Methods -> Nat]
  /\ NoHandler \notin Handlers

Blocks == 1 .. MaxBlock
Ids    == 0 .. MaxSessions - 1
NoId   == MaxSessions

VARIABLES
  nextId,    \* SessionManager::next_id
  tip,       \* SessionManager::block_env
  session,   \* what the workers hold under each id
  jobs,      \* each session's unanswered jobs, in the order they were posted
  reply,     \* each handler's oneshot channel
  saved,     \* the states in the snapshot store
  faults,    \* faults so far
  call,      \* each handler's request, and the job it awaits
  calls,     \* the cost of all that so far
  client     \* history: what clients have been told of each id

managerVars == <<nextId, tip, session, jobs, reply, saved, faults, call, calls, client>>

\* The transactions clients hold that are signed by the sender's key.
Signed == [nonce : Nonces, price : Prices, signed : {TRUE}]
NoTx   == [nonce |-> 0, price |-> 0, signed |-> FALSE]

\* `sent` and `signed` are history: the transactions committed since the
\* session had the nonce `from`, and those a client signed among them.
NewSession(st, block, nonce, funds) ==
  [st |-> st, block |-> block, nonce |-> nonce, funds |-> funds,
   from |-> nonce, sent |-> 0, signed |-> {}]
Absent == NewSession("none", 1, 0, 0)
\* A session straight off the chain at a block.
Forked(block) == NewSession("live", block, 0, Funds)
\* What a snapshot keeps of a session, and a resume opens.
Restored(rec) == NewSession("live", rec.block, rec.nonce, rec.funds)

NoReply == [st |-> "none", session |-> Absent]
Waiting == [st |-> "waiting", session |-> Absent]

\* `n` and `new` are the handler's locals, a number and the id it registered;
\* `floor` is history: the highest block told of the session by then.
Idle == [by |-> "none", m |-> "none", pc |-> "idle", s |-> NoId, tx |-> NoTx,
         n |-> 0, new |-> NoId, floor |-> 0]

\* Of an id: it was handed out; two requests that named it overlapped, or one
\* was dropped; its entry was copied from a live session, if at all; an HTTP
\* discard removed its entry; a send of it was under way then; the highest
\* block told of it; the gas prices quoted for it; the sends answered Ok.
Stranger == [known |-> FALSE, shared |-> FALSE, kept |-> TRUE, removed |-> FALSE,
             late |-> FALSE, block |-> 0, prices |-> {}, sent |-> {}]

ManagerInit ==
  /\ nextId = 0
  /\ tip = Start
  /\ session = [s \in Ids |-> Absent]
  /\ jobs = [s \in Ids |-> <<>>]
  /\ reply = [h \in Handlers |-> NoReply]
  /\ saved = {}
  /\ faults = 0
  /\ call = [h \in Handlers |-> Idle]
  /\ calls = 0
  /\ client = [s \in Ids |-> Stranger]

Live(s) == session[s].st = "live"

----------------------------------------------------------------------------
(* The handler's side of a job; each is part of a handler's step *)

Job(h, op, tx, payload) == [h |-> h, op |-> op, tx |-> tx, payload |-> payload]

\* worker_for(id).send(job), then rx.await.
Post(h, s, job) ==
  /\ jobs' = [jobs EXCEPT ![s] = Append(@, job)]
  /\ reply' = [reply EXCEPT ![h] = Waiting]
  /\ UNCHANGED <<tip, session, saved, faults>>

Ask(h, s, op)         == Post(h, s, Job(h, op, NoTx, Absent)) /\ UNCHANGED nextId
Execute(h, s, op, tx) == Post(h, s, Job(h, op, tx, Absent)) /\ UNCHANGED nextId
SetAccount(h, s, rec) == Post(h, s, Job(h, "set_account", NoTx, rec)) /\ UNCHANGED nextId

\* register, and fork_from's second hop: the id is taken when the job is posted.
Register(h, rec) ==
  /\ nextId < MaxSessions
  /\ Post(h, nextId, Job(h, "create", NoTx, rec))
  /\ nextId' = nextId + 1

\* The answer is read, or the future that awaits it is dropped and the answer
\* will find nobody.
Hangup(h) ==
  /\ reply' = [reply EXCEPT ![h] = NoReply]
  /\ jobs' = [s \in Ids |-> [i \in DOMAIN jobs[s] |->
                IF jobs[s][i].h = h THEN [jobs[s][i] EXCEPT !.h = NoHandler]
                                    ELSE jobs[s][i]]]
  /\ UNCHANGED <<nextId, tip, session>>

----------------------------------------------------------------------------
(* What the handlers of both surfaces are made of *)

On(s) == {h \in Handlers : call[h].pc # "idle" /\ call[h].s = s}

\* A request that names a session reaches its handler, which awaits a job `op`.
Begin(h, by, m, s, tx, n, op) ==
  /\ call[h].pc = "idle" /\ calls + Cost[m] <= MaxCalls
  /\ client[s].known
  /\ calls' = calls + Cost[m]
  /\ call' = [call EXCEPT ![h] = [by |-> by, m |-> m, pc |-> op, s |-> s, tx |-> tx,
                                   n |-> n, new |-> NoId, floor |-> client[s].block]]
  /\ client' = [client EXCEPT ![s] = [client[s] EXCEPT !.shared = @ \/ On(s) # {}]]

\* A request whose handler asks the session one thing first.
Asks(h, by, m, s, op) == Begin(h, by, m, s, NoTx, 0, op) /\ Ask(h, s, op)

At(h, by, m, pc) ==
  /\ call[h].by = by /\ call[h].m = m /\ call[h].pc = pc
  /\ reply[h].st \notin {"none", "waiting"}
Ok(h)    == reply[h].st = "ok"
Seen(h)  == reply[h].session

Await(h, pc) ==
  /\ call' = [call EXCEPT ![h] = [@ EXCEPT !.pc = pc]]
  /\ UNCHANGED <<calls, client>>

\* The request is answered; `c` is what the client then knows of ids.
Return(h, c) ==
  /\ call' = [call EXCEPT ![h] = Idle]
  /\ client' = c
  /\ Hangup(h)
  /\ UNCHANGED <<calls, faults>>
Done(h) == Return(h, client) /\ UNCHANGED saved

\* A branch that was answered takes an id in its handler's next step.
Room == nextId + Cardinality({h \in Handlers : call[h].pc = "branch"}) < MaxSessions

\* fork, fork_at_block and resume: a request that names no session.
Opens(h, by, rec) ==
  /\ call[h].pc = "idle" /\ Room
  /\ calls + Cost["open"] <= MaxCalls
  /\ calls' = calls + Cost["open"]
  /\ Register(h, rec)
  /\ call' = [call EXCEPT ![h] = [Idle EXCEPT !.by = by, !.m = "open", !.pc = "create",
                                              !.new = nextId]]
  /\ UNCHANGED client

Opened(h, by) ==
  /\ At(h, by, "open", "create")
  /\ Return(h, [client EXCEPT ![call[h].new] = [@ EXCEPT !.known = TRUE]])
  /\ UNCHANGED saved

\* One job, whose answer is passed on.
PassedOn(h, by, op) == At(h, by, "read", op) /\ Done(h)

\* set_balance: the account is read, and written back with the new balance.
SetsBalance(h, by) ==
  \E s \in Ids, n \in {0, Funds} :
    Begin(h, by, "set_balance", s, NoTx, n, "basic") /\ Ask(h, s, "basic")
FreshAccount(rec, funds) == [Forked(rec.block) EXCEPT !.funds = funds]  \* mutant
Refilled(rec, funds) == [rec EXCEPT !.funds = funds]
WritesBack(h, by) ==
  /\ At(h, by, "set_balance", "basic")
  /\ \/ ~Ok(h) /\ Done(h)
     \/ /\ Ok(h)
        /\ SetAccount(h, call[h].s, Refilled(Seen(h), call[h].n))
        /\ Await(h, "set_account")
BalanceSet(h, by) == At(h, by, "set_balance", "set_account") /\ Done(h)

\* snapshot: the state the session answered with goes to the store, unless
\* writing it fails.
Snapshotted(h, by) ==
  /\ At(h, by, "snapshot", "state")
  /\ \/ Ok(h) /\ saved' = saved \cup {Restored(Seen(h))}
     \/ UNCHANGED saved
  /\ Return(h, client)

----------------------------------------------------------------------------
(* The workers' side: the front job of a session *)

Reading  == {"basic", "read", "simulate", "call", "advance"}
\* State, BlockEnvOf, Branch and SetStorage never read upstream.
Direct   == {"state", "env", "branch", "set_storage"}
Creating == {"create"}

Front(s, op) == jobs[s] # <<>> /\ Head(jobs[s]).op = op

\* The job is answered; `seen` is what the answer carries of the session.
Reply(s, st, seen) ==
  LET h == Head(jobs[s]).h IN
  /\ jobs' = [jobs EXCEPT ![s] = Tail(@)]
  /\ reply' = IF h = NoHandler THEN reply
              ELSE [reply EXCEPT ![h] = [st |-> st, session |-> seen]]

RunCreate(s) ==
  /\ Front(s, "create")
  /\ session' = [session EXCEPT ![s] = Head(jobs[s]).payload]
  /\ Reply(s, "ok", Absent)
  /\ UNCHANGED <<nextId, tip, saved, faults, call, calls, client>>

UnknownIgnored(s) ==  \* mutant
  /\ \E op \in Reading \cup Direct \cup {"set_account"} : Front(s, op)
  /\ ~Live(s)
  /\ jobs' = [jobs EXCEPT ![s] = Tail(@)]
  /\ UNCHANGED <<nextId, tip, session, reply, saved, faults, call, calls, client>>
\* A session that was discarded or has expired; Discard itself never asks.
RunUnknown(s) ==
  /\ \E op \in Reading \cup Direct \cup {"set_account"} : Front(s, op)
  /\ ~Live(s)
  /\ Reply(s, "unknown", Absent)
  /\ UNCHANGED <<nextId, tip, session, saved, faults, call, calls, client>>

Gone(s) == [session EXCEPT ![s] = [session[s] EXCEPT !.st = IF @ = "live" THEN "gone" ELSE @]]

RunDiscard(s) ==
  /\ Front(s, "discard")
  /\ session' = Gone(s)
  /\ Reply(s, "ok", Absent)
  /\ UNCHANGED <<nextId, tip, saved, faults, call, calls, client>>

RunDirect(s) ==
  /\ \E op \in Direct : Front(s, op)
  /\ Live(s)
  /\ Reply(s, "ok", session[s])
  /\ UNCHANGED <<nextId, tip, session, saved, faults, call, calls, client>>

\* Reads of the account, of storage and of code; a call without checks, which
\* the EVM may fail.
RunRead(s) ==
  /\ Live(s)
  /\ \/ Front(s, "basic") /\ Reply(s, "ok", session[s])
     \/ Front(s, "read") /\ Reply(s, "ok", Absent)
     \/ Front(s, "call") /\ \E st \in {"ok", "refused"} : Reply(s, st, Absent)
  /\ UNCHANGED <<nextId, tip, session, saved, faults, call, calls, client>>

\* SetAccount puts the whole account it is given in the overlay.
Overwrite(rec, account) ==
  [rec EXCEPT !.nonce = account.nonce, !.funds = account.funds]

RunSetAccount(s) ==
  /\ Front(s, "set_account") /\ Live(s)
  /\ session' = [session EXCEPT ![s] = Overwrite(@, Head(jobs[s]).payload)]
  /\ Reply(s, "ok", Absent)
  /\ UNCHANGED <<nextId, tip, saved, faults, call, calls, client>>

OnCredit(rec, tx) ==  \* mutant
  IF tx.price < BaseFee[rec.block] THEN "underpriced"
  ELSE IF tx.nonce # rec.nonce THEN "refused" ELSE "ok"
\* What revm's validation says of a transaction, before any of it runs.
Verdict(rec, tx) ==
  IF tx.price < BaseFee[rec.block] THEN "underpriced"
  ELSE IF tx.nonce # rec.nonce \/ rec.funds = 0 THEN "refused" ELSE "ok"

Committed(rec, tx) ==
  [rec EXCEPT !.nonce = @ + 1, !.funds = @ - 1, !.sent = @ + 1,
              !.signed = IF tx.signed THEN @ \cup {tx} ELSE @]

\* A transaction that reverts is executed and committed like any other.
RunTransaction(s) ==
  LET tx == Head(jobs[s]).tx
      verdict == Verdict(session[s], tx) IN
  /\ Live(s)
  /\ \/ Front(s, "advance")
        /\ session' = IF verdict = "ok"
                      THEN [session EXCEPT ![s] = Committed(@, tx)] ELSE session
     \/ Front(s, "simulate") /\ UNCHANGED session
  /\ Reply(s, verdict, Absent)
  /\ UNCHANGED <<nextId, tip, saved, faults, call, calls, client>>

\* Upstream fails a read the job needs, or the job's pass panics.
RunFails(s) ==
  /\ \E op \in Reading : Front(s, op)
  /\ Live(s) /\ faults < MaxFaults
  /\ faults' = faults + 1
  /\ Reply(s, "error", Absent)
  /\ UNCHANGED <<nextId, tip, session, saved, call, calls, client>>

\* The sweep, at any time: a session may be idle for longer than its TTL
\* between any two jobs, or under a job that waits for upstream.
Expire(s) ==
  /\ Live(s) /\ faults < MaxFaults
  /\ session' = Gone(s)
  /\ faults' = faults + 1
  /\ UNCHANGED <<nextId, tip, jobs, reply, saved, call, calls, client>>

\* refresh_fallback, of which the surfaces see the block_env.
Refresh ==
  /\ tip < MaxBlock
  /\ tip' = tip + 1
  /\ UNCHANGED <<nextId, session, jobs, reply, saved, faults, call, calls, client>>

Run(s) ==
  \/ RunCreate(s) \/ RunUnknown(s) \/ RunDiscard(s) \/ RunDirect(s) \/ RunRead(s)
  \/ RunSetAccount(s) \/ RunTransaction(s) \/ RunFails(s)

----------------------------------------------------------------------------
TxType      == Signed \cup [nonce : Nat, price : Nat, signed : {FALSE}]
SessionType == [st : {"none", "live", "gone"}, block : Blocks, nonce : Nat, funds : Nat,
                from : Nat, sent : Nat, signed : SUBSET Signed]
Ops         == Reading \cup Direct \cup {"create", "set_account", "discard"}
JobType     == [h : Handlers \cup {NoHandler}, tx : TxType, payload : SessionType, op : Ops]
Answers     == {"ok", "unknown", "refused", "underpriced", "error"}
ReplyType   == [st : Answers \cup {"none", "waiting"}, session : SessionType]
CallType    == [by : {"none", "http", "mcp"}, m : Methods, pc : Ops \cup {"idle"},
                s : Ids \cup {NoId}, tx : TxType, n : Nat, new : Ids \cup {NoId}, floor : Nat]
ClientType  == [known : BOOLEAN, shared : BOOLEAN, kept : BOOLEAN, removed : BOOLEAN,
                late : BOOLEAN, block : Nat, prices : SUBSET Nat, sent : SUBSET Signed]

ManagerTypeOK ==
  /\ nextId \in 0 .. MaxSessions
  /\ tip \in Blocks
  /\ session \in [Ids -> SessionType]
  /\ jobs \in [Ids -> Seq(JobType)]
  /\ reply \in [Handlers -> ReplyType]
  /\ saved \subseteq SessionType
  /\ faults \in 0 .. MaxFaults
  /\ call \in [Handlers -> CallType]
  /\ calls \in 0 .. MaxCalls
  /\ client \in [Ids -> ClientType]
=============================================================================
