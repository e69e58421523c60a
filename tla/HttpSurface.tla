----------------------------- MODULE HttpSurface -----------------------------
(***************************************************************************)
(* The JSON-RPC surface: one handler per request, which posts jobs to the  *)
(* request's session and keeps, beside the sessions, a table of block      *)
(* counters and receipts (rpc_state).  Every lock of that table is one     *)
(* step; an await is where other handlers run, and where a client that     *)
(* went away leaves a handler that is dropped.                             *)
(***************************************************************************)
EXTENDS Manager

CONSTANT PriorityFee   \* PRIORITY_FEE_WEI

ASSUME HttpAssumption == PriorityFee \in Nat

VARIABLE side          \* rpc_state: each id's SessionRpcState, if present

\* An entry maps each transaction to the block its receipt is numbered by.
NoReceipt == 0
NoEntry == [present |-> FALSE, count |-> 0, receipts |-> [tx \in Signed |-> NoReceipt]]

HttpInit == side = [s \in Ids |-> NoEntry]

\* rpc_state...get(&id), with None and a default entry alike.
BlockCount(s) == side[s].count

\* eth_getTransactionReceipt is answered under the lock, and changes nothing.
EthGetTransactionReceipt(s, tx) == side[s].receipts[tx]

----------------------------------------------------------------------------
(* POST /session *)

OpenAtTip(h) == Opens(h, "http", Forked(tip))

\* A height upstream cannot serve is answered with an error and opens nothing.
OpenAtBlock(h) == \E b \in Blocks : Opens(h, "http", Forked(b))

\* A resumed session has no entry: it starts its counter and receipts afresh.
OpenSnapshot(h) == \E rec \in saved : Opens(h, "http", rec)

----------------------------------------------------------------------------
(* POST /session/{id}: the methods of one job *)

EthGetBalance(h)          == \E s \in Ids : Asks(h, "http", "read", s, "basic")
EthGetTransactionCount(h) == \E s \in Ids : Asks(h, "http", "read", s, "basic")
EthGetStorageAt(h)        == \E s \in Ids : Asks(h, "http", "read", s, "read")
EthGetCode(h)             == \E s \in Ids : Asks(h, "http", "read", s, "read")
EthCall(h)                == \E s \in Ids : Asks(h, "http", "read", s, "call")
ForkyardSetStorageAt(h)   == \E s \in Ids : Asks(h, "http", "read", s, "set_storage")
OneJobAnswered(h) ==
  \E op \in {"basic", "read", "call", "set_storage"} : PassedOn(h, "http", op)

\* The nonce is read first, the estimate runs at it, without checks.
EthEstimateGas(h) == \E s \in Ids : Asks(h, "http", "estimate", s, "basic")
EstimateAtNonce(h) ==
  /\ At(h, "http", "estimate", "basic")
  /\ \/ ~Ok(h) /\ Done(h)
     \/ Ok(h) /\ Ask(h, call[h].s, "call") /\ Await(h, "call")
EstimateAnswered(h) == At(h, "http", "estimate", "call") /\ Done(h)

ForkyardSetBalance(h) == SetsBalance(h, "http")
SetBalanceRead(h)     == WritesBack(h, "http")
SetBalanceWritten(h)  == BalanceSet(h, "http")

ForkyardSnapshot(h) == \E s \in Ids : Asks(h, "http", "snapshot", s, "state")
SnapshotStored(h)   == Snapshotted(h, "http")

----------------------------------------------------------------------------
(* The methods that look at the session's own block *)

ManagersBlock(h) == tip  \* mutant
\* An expired session falls back to the manager's block.
SessionBlockEnv(h) == IF Ok(h) THEN Seen(h).block ELSE tip

Higher(a, b) == IF a < b THEN b ELSE a
\* A block number a client was told of a session that answered.
ToldBlock(h, s, number) ==
  [client EXCEPT ![s] = [client[s] EXCEPT !.block = IF Ok(h) THEN Higher(@, number) ELSE @]]

\* real_block_number reads the counter, lets go of the lock, and asks.
EthBlockNumber(h) ==
  \E s \in Ids : Begin(h, "http", "block_number", s, NoTx, BlockCount(s), "env") /\ Ask(h, s, "env")
RealBlockNumber(h) == SessionBlockEnv(h) + call[h].n
BlockNumberAnswered(h) ==
  /\ At(h, "http", "block_number", "env")
  /\ Return(h, ToldBlock(h, call[h].s, RealBlockNumber(h)))
  /\ UNCHANGED saved

EthGasPrice(h) == \E s \in Ids : Asks(h, "http", "gas_price", s, "env")
GasPrice(h) == BaseFee[SessionBlockEnv(h)] + PriorityFee
GasPriceAnswered(h) ==
  LET s == call[h].s IN
  /\ At(h, "http", "gas_price", "env")
  /\ Return(h, [client EXCEPT ![s] = [client[s] EXCEPT !.prices = @ \cup {GasPrice(h)}]])
  /\ UNCHANGED saved

----------------------------------------------------------------------------
(* The methods that write the table *)

EthSendRawTransaction(h) ==
  \E s \in Ids, tx \in Signed, m \in {"send", "send_sync"} :
    Begin(h, "http", m, s, tx, 0, "advance") /\ Execute(h, s, "advance", tx)

RecordedAnyway(h) ==  \* mutant
  /\ \E m \in {"send", "send_sync"} : At(h, "http", m, "advance")
  /\ Ask(h, call[h].s, "env") /\ Await(h, "env")
\* The transaction is committed; the block it is to be numbered by is asked for.
SendAdvanced(h) ==
  /\ \E m \in {"send", "send_sync"} : At(h, "http", m, "advance")
  /\ \/ ~Ok(h) /\ Done(h)
     \/ Ok(h) /\ Ask(h, call[h].s, "env") /\ Await(h, "env")

InsertedAnew(entry, tx, start) ==  \* mutant
  [present |-> TRUE, count |-> entry.count + 1,
   receipts |-> [NoEntry.receipts EXCEPT ![tx] = start + entry.count + 1]]
\* entry(id).or_default(), its counter, and a receipt numbered by it.
WithReceipt(entry, tx, start) ==
  [present |-> TRUE, count |-> entry.count + 1,
   receipts |-> [entry.receipts EXCEPT ![tx] = start + entry.count + 1]]

\* `send_sync` answers with the receipt and its block number, `send` with a hash.
Sent(h, number) ==
  LET s == call[h].s IN
  [client EXCEPT ![s] = [client[s] EXCEPT !.sent = @ \cup {call[h].tx},
     !.block = IF call[h].m = "send_sync" /\ Ok(h) THEN Higher(@, number) ELSE @]]

SendRecorded(h) ==
  LET s == call[h].s
      entry == WithReceipt(side[s], call[h].tx, SessionBlockEnv(h)) IN
  /\ \E m \in {"send", "send_sync"} : At(h, "http", m, "env")
  /\ side' = [side EXCEPT ![s] = entry]
  /\ Return(h, Sent(h, entry.receipts[call[h].tx]))
  /\ UNCHANGED saved

ForkyardForkFrom(h) == Room /\ \E s \in Ids : Asks(h, "http", "fork_from", s, "branch")

\* fork_from's second hop registers the child the parent's worker answered with.
ForkFromBranched(h) ==
  /\ At(h, "http", "fork_from", "branch")
  /\ \/ ~Ok(h) /\ Done(h)
     \/ /\ Ok(h)
        /\ Register(h, Seen(h))
        /\ call' = [call EXCEPT ![h] = [@ EXCEPT !.pc = "create", !.new = nextId]]
        /\ UNCHANGED <<calls, client>>

Afresh(parent, child) == side[child]  \* mutant
\* guard.get(&parent).cloned(), inserted under the child if there is one.
Inherited(parent, child) == IF side[parent].present THEN side[parent] ELSE side[child]

\* The client has seen on the child's ancestor what it had seen when it asked.
Branched(h) ==
  LET parent == client[call[h].s]
      child == call[h].new IN
  [client EXCEPT ![child] =
     [client[child] EXCEPT !.known = TRUE, !.shared = parent.shared,
                           !.kept = parent.kept /\ Live(call[h].s),
                           !.block = IF parent.removed THEN @ ELSE call[h].floor]]

ForkFromAdopted(h) ==
  /\ At(h, "http", "fork_from", "create")
  /\ side' = [side EXCEPT ![call[h].new] = Inherited(call[h].s, call[h].new)]
  /\ Return(h, Branched(h))
  /\ UNCHANGED saved

\* What is left to be recorded of a send: it was executed.
Unrecorded(s) ==
  {h \in Handlers : /\ call[h].s = s /\ call[h].m \in {"send", "send_sync"}
                    /\ \/ call[h].pc = "env"
                       \/ call[h].pc = "advance" /\ Ok(h)}

ForkyardDiscard(h) == \E s \in Ids : Asks(h, "http", "discard", s, "discard")
DiscardAnswered(h) ==
  LET s == call[h].s IN
  /\ At(h, "http", "discard", "discard")
  /\ side' = [side EXCEPT ![s] = NoEntry]
  /\ Return(h, [client EXCEPT ![s] = [client[s] EXCEPT !.removed = TRUE,
                                              !.late = @ \/ Unrecorded(s) # {}]])
  /\ UNCHANGED saved

\* The client closed its connection: the handler's future is dropped where it
\* awaits, and the job it posted runs all the same.
Dropped(h) ==
  /\ call[h].by = "http" /\ call[h].pc # "idle" /\ faults < MaxFaults
  /\ faults' = faults + 1
  /\ call' = [call EXCEPT ![h] = Idle]
  /\ client' = [s \in Ids |-> IF s = call[h].s THEN [client[s] EXCEPT !.shared = TRUE]
                                               ELSE client[s]]
  /\ Hangup(h)
  /\ UNCHANGED <<calls, saved>>

----------------------------------------------------------------------------
HttpRequest(h) ==
  \/ OpenAtTip(h) \/ OpenAtBlock(h) \/ OpenSnapshot(h)
  \/ EthGetBalance(h) \/ EthGetTransactionCount(h) \/ EthGetStorageAt(h) \/ EthGetCode(h)
  \/ EthCall(h) \/ ForkyardSetStorageAt(h) \/ EthEstimateGas(h)
  \/ ForkyardSetBalance(h) \/ ForkyardSnapshot(h) \/ EthBlockNumber(h) \/ EthGasPrice(h)
  \/ EthSendRawTransaction(h) \/ ForkyardForkFrom(h) \/ ForkyardDiscard(h)

\* The awaits after which the table is left alone, and those that write it.
HttpAnswered(h) ==
  \/ Opened(h, "http") \/ OneJobAnswered(h) \/ EstimateAtNonce(h) \/ EstimateAnswered(h)
  \/ SetBalanceRead(h) \/ SetBalanceWritten(h) \/ SnapshotStored(h)
  \/ BlockNumberAnswered(h) \/ GasPriceAnswered(h) \/ SendAdvanced(h) \/ ForkFromBranched(h)
HttpRecorded(h) == SendRecorded(h) \/ ForkFromAdopted(h) \/ DiscardAnswered(h)

EntryType == [present : BOOLEAN, count : Nat, receipts : [Signed -> Nat]]
HttpTypeOK == side \in [Ids -> EntryType]
=============================================================================
