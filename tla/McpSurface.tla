----------------------------- MODULE McpSurface ------------------------------
(***************************************************************************)
(* The MCP surface: each tool is one call of SessionManager or two, and    *)
(* keeps nothing between requests.  Its transactions carry a sender and no *)
(* signature, and it neither reads nor writes the HTTP surface's table.    *)
(***************************************************************************)
EXTENDS Manager

McpFork(h)   == Opens(h, "mcp", Forked(tip))
McpResume(h) == \E rec \in saved : Opens(h, "mcp", rec)

GetBalance(h) == \E s \in Ids : Asks(h, "mcp", "read", s, "basic")
GetStorage(h) == \E s \in Ids : Asks(h, "mcp", "read", s, "read")
GetCode(h)    == \E s \in Ids : Asks(h, "mcp", "read", s, "read")
SetStorage(h) == \E s \in Ids : Asks(h, "mcp", "read", s, "set_storage")
ToolAnswered(h) == \E op \in {"basic", "read", "set_storage"} : PassedOn(h, "mcp", op)

SetBalance(h)        == SetsBalance(h, "mcp")
McpBalanceRead(h)    == WritesBack(h, "mcp")
McpBalanceWritten(h) == BalanceSet(h, "mcp")

Snapshot(h)          == \E s \in Ids : Asks(h, "mcp", "snapshot", s, "state")
McpSnapshotStored(h) == Snapshotted(h, "mcp")

Discard(h)           == \E s \in Ids : Asks(h, "mcp", "discard", s, "discard")
McpDiscarded(h)      == At(h, "mcp", "discard", "discard") /\ Done(h)

----------------------------------------------------------------------------
(* simulate and advance: run_transfer *)

Tools    == {"simulate", "advance"}
Unsigned == [nonce : Nonces, price : Prices, signed : {FALSE}]

\* gas_price is given: the transaction is posted at once.
TransferAtPrice(h) ==
  \E s \in Ids, tx \in Unsigned, m \in Tools :
    Begin(h, "mcp", m, s, tx, 0, m) /\ Execute(h, s, m, tx)

\* gas_price is omitted: the session's base fee is asked for first.
TransferAtBasefee(h) ==
  \E s \in Ids, nonce \in Nonces, m \in Tools :
    Begin(h, "mcp", m, s, [NoTx EXCEPT !.nonce = nonce], 0, "env") /\ Ask(h, s, "env")

ManagersFee(h) == BaseFee[tip]  \* mutant
BasefeeOf(h) == BaseFee[Seen(h).block]
PricedAt(h, price) == [call[h].tx EXCEPT !.price = price]

\* `n` = 0 until the transaction was posted.
TransferPriced(h) ==
  LET s == call[h].s IN
  /\ \E m \in Tools : At(h, "mcp", m, "env")
  /\ call[h].n = 0
  /\ \/ ~Ok(h) /\ Done(h)
     \/ /\ Ok(h)
        /\ Execute(h, s, call[h].m, PricedAt(h, BasefeeOf(h)))
        /\ call' = [call EXCEPT ![h] = [@ EXCEPT !.pc = call[h].m, !.tx = PricedAt(h, BasefeeOf(h))]]
        /\ client' = [client EXCEPT ![s] = [client[s] EXCEPT !.prices = @ \cup {BasefeeOf(h)}]]
        /\ UNCHANGED calls

\* explain_fee_error asks for the base fee it advises, the rest is answered.
TransferRun(h) ==
  /\ \E m \in Tools : At(h, "mcp", m, m)
  /\ \/ reply[h].st # "underpriced" /\ Done(h)
     \/ /\ reply[h].st = "underpriced"
        /\ Ask(h, call[h].s, "env")
        /\ call' = [call EXCEPT ![h] = [@ EXCEPT !.pc = "env", !.n = 1]]
        /\ UNCHANGED <<calls, client>>

FeeExplained(h) ==
  /\ \E m \in Tools : At(h, "mcp", m, "env")
  /\ call[h].n = 1
  /\ Done(h)

----------------------------------------------------------------------------
McpRequest(h) ==
  \/ McpFork(h) \/ McpResume(h) \/ GetBalance(h) \/ GetStorage(h) \/ GetCode(h)
  \/ SetStorage(h) \/ SetBalance(h) \/ Snapshot(h) \/ Discard(h)
  \/ TransferAtPrice(h) \/ TransferAtBasefee(h)

McpAnswered(h) ==
  \/ Opened(h, "mcp") \/ ToolAnswered(h) \/ McpBalanceRead(h) \/ McpBalanceWritten(h)
  \/ McpSnapshotStored(h) \/ McpDiscarded(h) \/ TransferPriced(h) \/ TransferRun(h)
  \/ FeeExplained(h)
=============================================================================
