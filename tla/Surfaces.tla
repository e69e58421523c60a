------------------------------ MODULE Surfaces -------------------------------
(***************************************************************************)
(* The process as its clients meet it: both surfaces over one session      *)
(* manager, with requests of either on any session, sessions that expire,  *)
(* a chain tip that moves, and the order in which main shuts them down.    *)
(* MCP requests come over HTTP and over stdio; which is which matters only *)
(* once the HTTP transport is being closed.                                *)
(***************************************************************************)
EXTENDS HttpSurface, McpSurface

VARIABLES
  stage,     \* how far main is: "up", the surface it is closing, "exited"
  draining   \* the MCP handlers of the HTTP connections it waits for

served == <<side, stage, draining>>
vars == <<nextId, tip, session, jobs, reply, saved, faults, call, calls, client, served>>

Init == ManagerInit /\ HttpInit /\ stage = "up" /\ draining = {}

Active(by) == {h \in Handlers : call[h].by = by}

----------------------------------------------------------------------------
(* Serving *)

HttpAccepts == stage = "up"
\* stdio is no part of a shutdown: it takes requests until the process is gone.
McpAccepts(h) == stage \in {"up", "http"} \/ (stage = "mcp" /\ h \notin draining)

\* A request's first step posts its first job, and takes nothing from the store.
Request(h)  ==
  /\ (HttpAccepts /\ HttpRequest(h)) \/ (McpAccepts(h) /\ McpRequest(h))
  /\ UNCHANGED served
Continue(h) ==
  /\ ((HttpAnswered(h) \/ McpAnswered(h)) /\ UNCHANGED side) \/ HttpRecorded(h)
  /\ UNCHANGED <<stage, draining>>
Hangs(h)    == Dropped(h) /\ UNCHANGED served
Works(s)    == Run(s) /\ UNCHANGED served
\* main waits for the follower before it closes anything.
Follows     == stage = "up" /\ Refresh /\ UNCHANGED served

----------------------------------------------------------------------------
(* Shutting down: main after the signal *)

Signal ==
  /\ stage = "up" /\ calls + Cost["stop"] <= MaxCalls
  /\ calls' = calls + Cost["stop"]
  /\ stage' = "http"
  /\ UNCHANGED <<nextId, tip, session, jobs, reply, saved, faults, call, client, side, draining>>

\* Handle::shutdown: no new connections, and the requests under way are awaited.
HttpShutdown ==
  /\ stage = "http" /\ Active("http") = {}
  /\ stage' = "mcp"
  /\ draining' \in SUBSET Active("mcp")
  /\ UNCHANGED <<nextId, tip, session, jobs, reply, saved, faults, call, calls, client, side>>

\* The MCP surface's Handle::shutdown; stdio is not waited for.
McpDrained == draining \cap Active("mcp") = {}

\* The cache is persisted and main returns: the sessions, the table and what
\* stdio still asked for are gone.
Exit ==
  /\ stage = "mcp" /\ McpDrained
  /\ stage' = "exited" /\ draining' = {}
  /\ nextId' = 0
  /\ session' = [s \in Ids |-> Absent]
  /\ jobs' = [s \in Ids |-> <<>>]
  /\ reply' = [h \in Handlers |-> NoReply]
  /\ call' = [h \in Handlers |-> Idle]
  /\ client' = [s \in Ids |-> Stranger]
  /\ side' = [s \in Ids |-> NoEntry]
  /\ UNCHANGED <<tip, saved, faults, calls>>

----------------------------------------------------------------------------
Next ==
  \/ \E h \in Handlers : Request(h) \/ Continue(h) \/ Hangs(h)
  \/ \E s \in Ids : Works(s) \/ (Expire(s) /\ UNCHANGED served)
  \/ Follows
  \/ Signal \/ HttpShutdown \/ Exit

Spec == Init /\ [][Next]_vars

\* Workers run what is in their inboxes and the runtime polls a future whose
\* answer has come; clients, the sweep, the chain and the signal owe nothing,
\* nor does an MCP client that keeps its connection's event stream open.
Fairness == /\ \A h \in Handlers : WF_vars(Continue(h))
            /\ \A s \in Ids : WF_vars(Works(s))
            /\ WF_vars(HttpShutdown)
FairSpec == Spec /\ Fairness

----------------------------------------------------------------------------
\* The shape of every variable; main has closed what it went past.
TypeOK ==
  /\ ManagerTypeOK /\ HttpTypeOK
  /\ stage \in {"up", "http", "mcp", "exited"}
  /\ draining \subseteq Handlers
  /\ stage \in {"mcp", "exited"} => Active("http") = {}

Receipts(s) == {tx \in Signed : EthGetTransactionReceipt(s, tx) # NoReceipt}

\* A client that waits for each answer before it asks the next thing, of either
\* surface, finds what it did and nothing else: the nonce counts the committed
\* transactions, the table counts and has receipts of exactly those that came
\* over HTTP, through forkFrom, setBalance and snapshots (lib.rs 371, 399, 469).
OneAtATime ==
  \A s \in Ids :
    client[s].known /\ ~client[s].shared /\ Live(s) /\ On(s) = {} =>
      /\ session[s].nonce = session[s].from + session[s].sent
      /\ side[s].count = Cardinality(session[s].signed)
      /\ session[s].signed = Receipts(s)

\* However its requests interleave, a session's receipts are numbered apart and
\* within the blocks its counter has reached, unless its entry was copied from
\* a parent that had gone (lib.rs 462-469).
ReceiptsNumbered ==
  \A s \in Ids : Live(s) /\ client[s].kept =>
    /\ \A tx \in Receipts(s) : side[s].receipts[tx] - session[s].block \in 1 .. side[s].count
    /\ \A tx, ux \in Receipts(s) : tx # ux => side[s].receipts[tx] # side[s].receipts[ux]

\* eth_blockNumber never goes back: not below what was told of the session when
\* it was asked, nor, for a branch, what had been told of its parent (396-398).
NeverReportsLower ==
  \A h \in Handlers :
    call[h].m = "block_number" /\ call[h].pc = "env" /\ Ok(h) =>
      RealBlockNumber(h) >= call[h].floor

\* A send that was answered Ok has a receipt until its session is discarded over
\* HTTP: no other request of either surface, and no expiry, loses it.  And there
\* is no receipt of a transaction that no session has executed (459-471, 480-491).
ReceiptsOfSends ==
  \A s \in Ids, tx \in Signed :
    /\ tx \in client[s].sent /\ ~client[s].removed => EthGetTransactionReceipt(s, tx) # NoReceipt
    /\ EthGetTransactionReceipt(s, tx) # NoReceipt => \E a \in Ids : tx \in session[a].signed

\* A price eth_gasPrice or an omitted gas_price quoted for a session never makes
\* that session refuse a transaction as underpriced, whatever happened between
\* (api-mcp lib.rs 346-349, api-http lib.rs 131-135).
QuotedPriceAccepted ==
  \A s \in Ids : Live(s) =>
    \A p \in client[s].prices : Verdict(session[s], [NoTx EXCEPT !.price = p]) # "underpriced"

\* A discard over HTTP leaves no entry behind, whatever is asked of the session
\* afterwards, unless a send had been executed and not recorded when it removed
\* the entry (428-431, 469).
DiscardCleans ==
  \A s \in Ids : client[s].removed /\ ~client[s].late => ~side[s].present

\* Every request is answered or dropped: also one for a session that is unknown,
\* has expired under it, or was discarded before it (session lib.rs 658-782); and
\* so the HTTP surface's shutdown, which waits for them, returns (main.rs 323).
EveryRequestAnswered ==
  /\ \A h \in Handlers : call[h].pc # "idle" ~> call[h].pc = "idle"
  /\ stage = "http" ~> stage # "http"
=============================================================================
