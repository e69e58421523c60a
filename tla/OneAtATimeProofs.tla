-------------------------- MODULE OneAtATimeProofs ---------------------------
(***************************************************************************)
(* That a client which waits for each answer before it asks the next thing *)
(* finds what it did and nothing else, for any number of handlers,         *)
(* sessions, blocks and faults.  What the surfaces keep of every session,  *)
(* SurfacesProofs' IInv, is assumed here of both ends of a step; what is   *)
(* new is what holds of a session only until two requests on it overlap.   *)
(***************************************************************************)
EXTENDS SurfacesProofs, FiniteSetTheorems

\* A session's nonce counts its transactions, none of which has a later one.
Sound(rec) ==
  /\ rec.nonce = rec.from + rec.sent
  /\ IsFiniteSet(rec.signed) /\ \A tx \in rec.signed : tx.nonce < rec.nonce

ReceiptsIn(entry) == {tx \in Signed : entry.receipts[tx] # NoReceipt}

\* A session and an entry of the table tell of the same transactions.
Agrees(rec, entry) ==
  /\ Sound(rec)
  /\ entry.count = Cardinality(rec.signed) /\ rec.signed = ReceiptsIn(entry)

\* Committed, and without a receipt so far.
Due(s) == {call[h].tx : h \in Unrecorded(s)}

\* The session has executed what the table has receipts of, and what is due.
Books(s) ==
  /\ Sound(session[s])
  /\ session[s].signed = Receipts(s) \cup Due(s) /\ Receipts(s) \cap Due(s) = {}
  /\ side[s].count = Cardinality(Receipts(s))

\* While no two requests on a session overlap, its jobs are those of its one
\* request, and that request has seen the nonce it is about to write back.
Alone(s) ==
  client[s].known /\ ~client[s].shared =>
    /\ \A g, h \in On(s) : g = h
    /\ ~client[s].removed => Books(s)
    /\ \A i \in 1 .. Len(jobs[s]) :
         /\ jobs[s][i].h # NoHandler
         /\ jobs[s][i].op = "set_account" => jobs[s][i].payload.nonce = session[s].nonce
    /\ \A h \in On(s) : call[h].pc = "basic" /\ Ok(h) => Seen(h).nonce = session[s].nonce

\* A session being opened starts with an empty entry, a branch with its parent's.
Origin(h) == IF call[h].m = "open" THEN NoEntry ELSE side[call[h].s]

ChildOK(h) ==
  LET c == call[h] IN
  c.m = "open" \/ (c.m = "fork_from" /\ ~client[c.s].shared) =>
    /\ c.pc = "branch" /\ Ok(h) => Agrees(Seen(h), Origin(h))
    /\ c.pc = "create" =>
         /\ \A i \in 1 .. Len(jobs[c.new]) : Agrees(jobs[c.new][i].payload, Origin(h))
         /\ session[c.new].st # "none" => Agrees(session[c.new], Origin(h))

Solo == (\A s \in Ids : Alone(s)) /\ (\A h \in Handlers : ChildOK(h))

----------------------------------------------------------------------------
(* What keeps the books of a session a step leaves alone *)

\* Nothing that the turn of session t is about has changed, unless it ended.
SameTurn(t) ==
  /\ client'[t].known => client[t].known
  /\ client[t].shared => client'[t].shared
  /\ client[t].removed => client'[t].removed
  /\ side'[t] = side[t]
  /\ session'[t].nonce = session[t].nonce /\ session'[t].from = session[t].from
  /\ session'[t].sent = session[t].sent /\ session'[t].signed = session[t].signed
  /\ jobs'[t] = jobs[t]

\* Handler g stays where it was, or has left session t, or is still on it and
\* awaits neither its account nor what is left of a send.
Onlooker(g, t) ==
  \/ call'[g] = call[g] /\ reply'[g] = reply[g]
  \/ /\ g \notin Unrecorded(t)
     /\ call'[g].pc # "idle" /\ call'[g].s = t =>
          g \in On(t) /\ call'[g].pc \notin {"basic", "env", "advance"}

\* The turn of a session lasts through a step of others' requests.
LEMMA TurnKept ==
  ASSUME NEW t \in Ids, Alone(t), SameTurn(t), \A g \in Handlers : Onlooker(g, t)
  PROVE  Alone(t)'
<1>1. On(t)' \subseteq On(t)
  BY DEF On, Onlooker
<1>2. Unrecorded(t)' = Unrecorded(t)
  <2>1. ASSUME NEW g \in Handlers PROVE g \in Unrecorded(t)' <=> g \in Unrecorded(t)
    BY DEF Onlooker, Unrecorded, Ok, Sends
  <2> QED
    BY <2>1 DEF Unrecorded
<1>3. Due(t)' = Due(t)
  <2>1. \A g \in Unrecorded(t) : call'[g] = call[g]
    BY DEF Unrecorded, Onlooker, Sends
  <2> QED
    BY <1>2, <2>1 DEF Due
<1>4. Receipts(t)' = Receipts(t)
  BY DEF Receipts, EthGetTransactionReceipt, SameTurn
<1>5. Books(t) => Books(t)'
  BY <1>3, <1>4 DEF Books, Sound, SameTurn
<1>6. ASSUME NEW h \in On(t)', call'[h].pc = "basic"
      PROVE  h \in On(t) /\ call'[h] = call[h] /\ reply'[h] = reply[h]
  BY <1>1, <1>6 DEF On, Onlooker
<1> SUFFICES ASSUME client'[t].known, ~client'[t].shared
             PROVE  /\ \A g, h \in On(t)' : g = h
                    /\ ~client'[t].removed => Books(t)'
                    /\ \A i \in 1 .. Len(jobs'[t]) :
                         /\ jobs'[t][i].h # NoHandler
                         /\ jobs'[t][i].op = "set_account" => jobs'[t][i].payload.nonce = session'[t].nonce
                    /\ \A h \in On(t)' : call'[h].pc = "basic" /\ Ok(h)' => Seen(h)'.nonce = session'[t].nonce
  BY DEF Alone
<1>7. client[t].known /\ ~client[t].shared
  BY DEF SameTurn
<1>8. \A h \in On(t)' : call'[h].pc = "basic" /\ Ok(h)' => Seen(h)'.nonce = session'[t].nonce
  BY <1>6, <1>7 DEF Alone, SameTurn, Ok, Seen
<1>9. \A i \in 1 .. Len(jobs'[t]) :
        /\ jobs'[t][i].h # NoHandler
        /\ jobs'[t][i].op = "set_account" => jobs'[t][i].payload.nonce = session'[t].nonce
  BY <1>7 DEF Alone, SameTurn
<1>10. (\A g, h \in On(t)' : g = h) /\ (~client'[t].removed => Books(t)')
  BY <1>1, <1>5, <1>7 DEF Alone, SameTurn
<1> QED
  BY <1>8, <1>9, <1>10

\* So does what a request on an id it is opening rests on.
LEMMA ChildKept ==
  ASSUME NEW g \in Handlers, ChildOK(g), call'[g] = call[g], reply'[g] = reply[g],
         call[g].pc = "create" =>
           LET n == call[g].new IN
           /\ \A i \in 1 .. Len(jobs'[n]) : \E k \in 1 .. Len(jobs[n]) :
                jobs'[n][i].payload = jobs[n][k].payload
           /\ session'[n].st # "none" => session[n].st # "none"
           /\ session'[n].nonce = session[n].nonce /\ session'[n].from = session[n].from
           /\ session'[n].sent = session[n].sent /\ session'[n].signed = session[n].signed,
         call[g].m = "fork_from" /\ call[g].pc \in {"branch", "create"} =>
           client'[call[g].s].shared
             \/ (~client[call[g].s].shared /\ side'[call[g].s] = side[call[g].s])
  PROVE  ChildOK(g)'
<1> DEFINE c == call[g]
           n == call[g].new
<1> SUFFICES ASSUME c.m = "open" \/ (c.m = "fork_from" /\ ~client'[c.s].shared)
             PROVE  /\ c.pc = "branch" /\ Ok(g)' => Agrees(Seen(g)', Origin(g)')
                    /\ c.pc = "create" =>
                         /\ \A i \in 1 .. Len(jobs'[n]) : Agrees(jobs'[n][i].payload, Origin(g)')
                         /\ session'[n].st # "none" => Agrees(session'[n], Origin(g)')
  BY DEF ChildOK
<1>1. CASE c.pc \notin {"branch", "create"}
  BY <1>1
<1>2. CASE c.pc \in {"branch", "create"}
  <2>1. Origin(g)' = Origin(g)
    BY <1>2 DEF Origin
  <2>2. c.m = "open" \/ (c.m = "fork_from" /\ ~client[c.s].shared)
    BY <1>2
  <2>3. c.pc = "branch" /\ Ok(g)' => Agrees(Seen(g)', Origin(g)')
    BY <2>1, <2>2 DEF ChildOK, Ok, Seen
  <2>4. ASSUME c.pc = "create", NEW i \in 1 .. Len(jobs'[n])
        PROVE  Agrees(jobs'[n][i].payload, Origin(g)')
    <3>1. PICK k \in 1 .. Len(jobs[n]) : jobs'[n][i].payload = jobs[n][k].payload
      BY <2>4
    <3> QED
      BY <2>1, <2>2, <2>4, <3>1 DEF ChildOK
  <2>5. ASSUME c.pc = "create", session'[n].st # "none" PROVE Agrees(session'[n], Origin(g)')
    <3>1. Agrees(session[n], Origin(g))
      BY <2>2, <2>5 DEF ChildOK
    <3> QED
      BY <2>1, <2>5, <3>1 DEF Agrees, Sound
  <2> QED
    BY <2>3, <2>4, <2>5
<1> QED
  BY <1>1, <1>2

\* Of a session whose turn it is, the one job is the one request's, which waits.
LEMMA TurnJobs ==
  ASSUME Linked, NEW s \in Ids, Alone(s), client[s].known, ~client[s].shared,
         NEW i \in 1 .. Len(jobs[s])
  PROVE  LET h == jobs[s][i].h IN
         /\ h \in Handlers /\ h \in On(s) /\ call[h].pc = jobs[s][i].op /\ ~Answered(h)
         /\ \A k \in 1 .. Len(jobs[s]) : k = i
<1> DEFINE h == jobs[s][i].h
<1>1. h # NoHandler /\ JobOK(s, i) /\ jobs[s][i] \in JobType
  <2>1. jobs[s] \in Seq(JobType)
    BY LinkedTypes DEF Typed
  <2> QED
    BY <2>1 DEF Alone, Linked, JobsOK
<1>2. h \in Handlers /\ jobs[s][i].op # "idle"
  BY <1>1 DEF JobType, Ops, Reading, Direct
<1>3. call[h].pc = jobs[s][i].op /\ Target(h) = s /\ reply[h].st = "waiting"
  BY <1>1 DEF JobOK
<1>4. jobs[s][i].op # "create"
  BY <1>1, IdleJobs
<1>5. h \in On(s)
  BY <1>2, <1>3, <1>4 DEF On, Target
<1>6. ASSUME NEW k \in 1 .. Len(jobs[s]) PROVE k = i
  <2>1. jobs[s][k].h # NoHandler /\ JobOK(s, k) /\ jobs[s][k] \in JobType
    <3>1. jobs[s] \in Seq(JobType)
      BY LinkedTypes DEF Typed
    <3> QED
      BY <3>1 DEF Alone, Linked, JobsOK
  <2>2. jobs[s][k].h \in On(s)
    <3>1. jobs[s][k].h \in Handlers /\ jobs[s][k].op # "idle"
      BY <2>1 DEF JobType, Ops, Reading, Direct
    <3>2. call[jobs[s][k].h].pc = jobs[s][k].op /\ Target(jobs[s][k].h) = s
      BY <2>1 DEF JobOK
    <3>3. jobs[s][k].op # "create"
      BY <2>1, IdleJobs
    <3> QED
      BY <3>1, <3>2, <3>3 DEF On, Target
  <2>3. jobs[s][k].h = h
    BY <1>5, <2>2 DEF Alone
  <2> QED
    BY <1>1, <2>3 DEF Linked, JobsOK
<1> QED
  BY <1>2, <1>3, <1>5, <1>6 DEF Answered

\* When no request is on it, or the one that is has its answer, it has no job.
LEMMA TurnIdle ==
  ASSUME Linked, NEW s \in Ids, Alone(s), client[s].known, ~client[s].shared,
         \A h \in On(s) : Answered(h)
  PROVE  jobs[s] = <<>>
<1>1. jobs[s] \in Seq(JobType)
  BY LinkedTypes DEF Typed
<1>2. \A i \in 1 .. Len(jobs[s]) : FALSE
  BY TurnJobs
<1>3. Len(jobs[s]) \in Nat /\ ~(1 \in 1 .. Len(jobs[s]))
  BY <1>1, <1>2
<1>4. Len(jobs[s]) = 0
  BY <1>3
<1> QED
  BY <1>1, <1>4

----------------------------------------------------------------------------
(* The handlers' steps *)

\* A request that posts a job on a known session, its first or its next.
LEMMA PostsInTurn ==
  ASSUME IInv, Solo, NEW h \in Handlers, NEW s \in Ids, NEW op \in Ops \ {"create"},
         NEW tx \in TxType, NEW rec \in SessionType, NEW c \in CallType,
         Post(h, s, Job(h, op, tx, rec)), call' = [call EXCEPT ![h] = c], side' = side,
         call[h].pc = "idle" \/ (Answered(h) /\ call[h].s = s),
         c.s = s, c.pc = op, c.m # "open", client[s].known,
         \A t \in Ids : t # s => client'[t] = client[t],
         client'[s].known = client[s].known, client'[s].removed = client[s].removed,
         client[s].shared => client'[s].shared,
         call[h].pc = "idle" => client'[s].shared \/ On(s) = {},
         op = "set_account" => Ok(h) /\ call[h].pc = "basic" /\ rec.nonce = Seen(h).nonce,
         (c.m \in Sends /\ op = "env") <=> h \in Unrecorded(s),
         h \in Unrecorded(s) => c.tx = call[h].tx
  PROVE  Solo'
<1> DEFINE job == Job(h, op, tx, rec)
<1>1. Linked /\ Typed /\ call \in [Handlers -> CallType]
  BY LinkedTypes DEF IInv
<1>2. job \in JobType /\ job.h = h /\ job.op = op /\ job.payload = rec
  BY JobTypes DEF Job
<1> HIDE DEF job
<1>3. /\ Len(jobs[s]) \in Nat /\ Len(jobs'[s]) = Len(jobs[s]) + 1
      /\ jobs'[s][Len(jobs[s]) + 1] = job
      /\ \A t \in Ids : t # s => jobs'[t] = jobs[t]
      /\ reply'[h] = Waiting
      /\ \A g \in Handlers : g # h => reply'[g] = reply[g]
  BY <1>1, <1>2, Posted DEF job
<1>4. session' = session
  BY DEF Post
<1>5. call'[h] = c /\ \A g \in Handlers : g # h => call'[g] = call[g]
  BY <1>1
<1>6. ~Ok(h)'
  BY <1>3 DEF Ok, Waiting
<1>7. ASSUME NEW t \in Ids, t # s PROVE Alone(t)'
  <2>1. Alone(t) /\ SameTurn(t)
    BY <1>3, <1>4, <1>7 DEF Solo, SameTurn
  <2>2. ASSUME NEW g \in Handlers PROVE Onlooker(g, t)
    <3>1. CASE g # h
      BY <1>3, <1>5, <3>1 DEF Onlooker
    <3>2. CASE g = h
      <4>1. call'[g].s # t
        BY <1>5, <1>7, <3>2
      <4>2. g \notin Unrecorded(t)
        <5>1. call[g].pc = "idle" \/ call[g].s # t
          BY <1>7, <3>2
        <5> QED
          BY <5>1 DEF Unrecorded
      <4> QED
        BY <4>1, <4>2 DEF Onlooker
    <3> QED
      BY <3>1, <3>2
  <2> QED
    BY <2>1, <2>2, TurnKept
<1>8. Alone(s)'
  <2>1. CASE ~(client'[s].known /\ ~client'[s].shared)
    BY <2>1 DEF Alone
  <2>2. CASE client'[s].known /\ ~client'[s].shared
    <3>1. Alone(s) /\ client[s].known /\ ~client[s].shared
      BY <2>2 DEF Solo
    <3>2. ASSUME NEW g \in On(s) PROVE g = h /\ Answered(h)
      <4>1. g \in Handlers /\ call[h].pc # "idle" /\ h \in On(s)
        BY <2>2 DEF On
      <4> QED
        BY <3>1, <4>1 DEF Alone
    <3>3. jobs[s] = <<>>
      BY <1>1, <3>1, <3>2, TurnIdle
    <3>4. Len(jobs'[s]) = 1 /\ jobs'[s][1] = job
      BY <1>3, <3>3
    <3>5. On(s)' = {h}
      <4>1. \A g \in Handlers : g # h => ~(call[g].pc # "idle" /\ call[g].s = s)
        BY <3>2 DEF On
      <4>2. c.pc # "idle"
        BY DEF Ops, Reading, Direct
      <4> QED
        BY <1>5, <4>1, <4>2 DEF On
    <3>6. Unrecorded(s)' = Unrecorded(s)
      <4>1. \A g \in Handlers : g # h => (g \in Unrecorded(s)' <=> g \in Unrecorded(s))
        BY <1>3, <1>5 DEF Unrecorded, Ok
      <4>2. h \in Unrecorded(s)' <=> (c.m \in Sends /\ op = "env")
        BY <1>5, <1>6 DEF Unrecorded, Sends
      <4>3. Unrecorded(s) \subseteq Handlers /\ Unrecorded(s)' \subseteq Handlers
        BY DEF Unrecorded
      <4> QED
        BY <4>1, <4>2, <4>3
    <3>7. Due(s)' = Due(s)
      <4>1. \A g \in Unrecorded(s) : call'[g].tx = call[g].tx
        BY <1>5 DEF Unrecorded
      <4> QED
        BY <3>6, <4>1 DEF Due
    <3>8. Receipts(s)' = Receipts(s)
      BY DEF Receipts, EthGetTransactionReceipt
    <3>9. ~client'[s].removed => Books(s)'
      <4>1. ~client'[s].removed => Books(s)
        BY <3>1 DEF Alone
      <4> QED
        BY <1>4, <3>7, <3>8, <4>1 DEF Books, Sound
    <3>10. ASSUME NEW i \in 1 .. Len(jobs'[s])
           PROVE  /\ jobs'[s][i].h # NoHandler
                  /\ jobs'[s][i].op = "set_account" => jobs'[s][i].payload.nonce = session'[s].nonce
      <4>1. jobs'[s][i] = job
        BY <3>4
      <4>2. op = "set_account" => rec.nonce = session[s].nonce
        <5>1. op = "set_account" => h \in On(s)
          BY DEF On
        <5> QED
          BY <3>1, <5>1 DEF Alone
      <4> QED
        BY <1>2, <1>4, <4>1, <4>2, ManagerAssumption
    <3>11. \A g, k \in On(s)' : g = k
      BY <3>5
    <3>12. \A g \in On(s)' : call'[g].pc = "basic" /\ Ok(g)' => Seen(g)'.nonce = session'[s].nonce
      <4>1. \A g \in On(s)' : ~Ok(g)'
        BY <1>6, <3>5 DEF Ok
      <4> QED
        BY <4>1
    <3> QED
      BY <3>9, <3>10, <3>11, <3>12 DEF Alone
  <2> QED
    BY <2>1, <2>2
<1>9. ASSUME NEW g \in Handlers PROVE ChildOK(g)'
  <2>1. CASE g = h
    <3>1. call'[g].pc # "create" /\ ~Ok(g)'
      BY <1>5, <1>6, <2>1
    <3> QED
      BY <3>1 DEF ChildOK
  <2>2. CASE g # h
    <3>1. ChildOK(g) /\ call'[g] = call[g] /\ reply'[g] = reply[g]
      BY <1>3, <1>5, <2>2 DEF Solo
    <3>2. call[g].pc = "create" => call[g].new \in Ids /\ call[g].new # s
      BY <1>1, LinkedTypes DEF Linked, CallOK
    <3>3. call[g].pc = "create" => jobs'[call[g].new] = jobs[call[g].new]
      BY <1>3, <3>2
    <3>4. call[g].m = "fork_from" /\ call[g].pc # "idle" => call[g].s \in Ids
      BY <1>1, LinkedTypes
    <3>5. \A t \in Ids : client'[t].shared \/ (~client[t].shared /\ side'[t] = side[t])
      OBVIOUS
    <3> QED
      BY <1>4, <3>1, <3>3, <3>4, <3>5, ChildKept
  <2> QED
    BY <2>1, <2>2
<1> QED
  BY <1>7, <1>8, <1>9 DEF Solo

\* A request that opens a session, its own or a branch of the one it is on.
LEMMA RegistersInTurn ==
  ASSUME IInv, Solo, NEW h \in Handlers, NEW rec \in SessionType, NEW c \in CallType,
         Register(h, rec), call' = [call EXCEPT ![h] = c], client' = client, side' = side,
         c.pc = "create", c.new = nextId,
         \/ call[h].pc = "idle" /\ c.m = "open" /\ c.s = NoId /\ Agrees(rec, NoEntry)
         \/ /\ Answered(h) /\ call[h].pc = "branch" /\ call[h].m = "fork_from"
            /\ c.m = "fork_from" /\ c.s \in Ids /\ c.s = call[h].s
            /\ ~client[c.s].shared => Agrees(rec, side[c.s])
  PROVE  Solo'
<1> DEFINE job == Job(h, "create", NoTx, rec)
<1>1. Linked /\ Typed /\ call \in [Handlers -> CallType] /\ nextId \in 0 .. MaxSessions
  BY LinkedTypes DEF IInv
<1>2. job \in JobType /\ job.h = h /\ job.payload = rec
  BY JobTypes, TxTypes DEF Job, Ops
<1>3. PICK s \in Ids : s = nextId
  BY <1>1, IdTypes, ManagerAssumption DEF Register
<1>4. Post(h, s, job) /\ session' = session
  BY <1>3 DEF Register, Post
<1>5. jobs[s] = <<>> /\ session[s].st = "none" /\ ~client[s].known
  BY <1>1, <1>3, IdTypes DEF Linked, IdOK
<1> HIDE DEF job
<1>6. /\ Len(jobs[s]) \in Nat /\ Len(jobs'[s]) = Len(jobs[s]) + 1
      /\ jobs'[s][Len(jobs[s]) + 1] = job
      /\ \A t \in Ids : t # s => jobs'[t] = jobs[t]
      /\ reply'[h] = Waiting
      /\ \A g \in Handlers : g # h => reply'[g] = reply[g]
  BY <1>1, <1>2, <1>4, Posted
<1>7. Len(jobs'[s]) = 1 /\ jobs'[s][1] = job
  BY <1>5, <1>6
<1>8. call'[h] = c /\ \A g \in Handlers : g # h => call'[g] = call[g]
  BY <1>1
<1>9. ASSUME NEW t \in Ids PROVE Alone(t)'
  <2>1. CASE t = s
    BY <1>5, <2>1 DEF Alone
  <2>2. CASE t # s
    <3>1. Alone(t) /\ SameTurn(t)
      BY <1>4, <1>6, <2>2 DEF Solo, SameTurn
    <3>2. ASSUME NEW g \in Handlers PROVE Onlooker(g, t)
      <4>1. CASE g # h
        BY <1>6, <1>8, <4>1 DEF Onlooker
      <4>2. CASE g = h
        <5>1. call'[g] = c /\ c.pc = "create" /\ c.m \notin Sends
          BY <1>8, <4>2 DEF Sends
        <5>2. g \notin Unrecorded(t)
          <6>1. call[g].pc \in {"idle", "branch"}
            BY <4>2
          <6> QED
            BY <6>1 DEF Unrecorded
        <5>3. c.s = t => g \in On(t)
          <6>1. c.s = t => call[g].pc = "branch" /\ call[g].s = t
            BY <4>2, IdTypes
          <6> QED
            BY <6>1 DEF On
        <5> QED
          BY <5>1, <5>2, <5>3 DEF Onlooker
      <4> QED
        BY <4>1, <4>2
    <3> QED
      BY <3>1, <3>2, TurnKept
  <2> QED
    BY <2>1, <2>2
<1>10. ASSUME NEW g \in Handlers PROVE ChildOK(g)'
  <2>1. CASE g = h
    <3>1. Origin(g)' = IF c.m = "open" THEN NoEntry ELSE side[c.s]
      BY <1>8, <2>1 DEF Origin
    <3>2. c.m = "open" \/ (c.m = "fork_from" /\ ~client[c.s].shared) => Agrees(rec, Origin(g)')
      BY <3>1
    <3>3. \A i \in 1 .. Len(jobs'[s]) : jobs'[s][i].payload = rec
      BY <1>2, <1>7
    <3>4. session'[s].st = "none" /\ call'[g] = c /\ c.new = s
      BY <1>3, <1>4, <1>5, <1>8, <2>1
    <3> QED
      BY <3>2, <3>3, <3>4 DEF ChildOK
  <2>2. CASE g # h
    <3>1. ChildOK(g) /\ call'[g] = call[g] /\ reply'[g] = reply[g]
      BY <1>6, <1>8, <2>2 DEF Solo
    <3>2. call[g].pc = "create" => call[g].new \in Ids /\ call[g].new # s
      <4>1. call[g].pc = "create" => call[g].new < nextId /\ call[g].new \in Ids
        BY <1>1, LinkedTypes DEF Linked, CallOK
      <4> QED
        BY <1>3, <4>1, IdTypes
    <3>3. call[g].pc = "create" => jobs'[call[g].new] = jobs[call[g].new]
      BY <1>6, <3>2
    <3>4. \A t \in Ids : client'[t].shared \/ (~client[t].shared /\ side'[t] = side[t])
      OBVIOUS
    <3>5. call[g].m = "fork_from" /\ call[g].pc # "idle" => call[g].s \in Ids
      BY <1>1, LinkedTypes
    <3> QED
      BY <1>4, <3>1, <3>3, <3>4, <3>5, ChildKept
  <2> QED
    BY <2>1, <2>2
<1> QED
  BY <1>9, <1>10 DEF Solo

\* A request that is answered, or dropped: what it leaves of the ids it has told
\* of or written the entry of is to be shown, the others stay as they were.
LEMMA ReturnsInTurn ==
  ASSUME IInv, Solo, NEW h \in Handlers, Hangup(h), call' = [call EXCEPT ![h] = Idle],
         \A t \in Ids : Alone(t)' \/
           /\ client'[t].known => client[t].known
           /\ client[t].shared => client'[t].shared
           /\ client[t].removed => client'[t].removed
           /\ side'[t] = side[t] /\ h \notin Unrecorded(t)
           /\ \A i \in 1 .. Len(jobs[t]) : jobs[t][i].h # h,
         \A g \in Handlers : g # h /\ call[g].m = "fork_from" /\ call[g].pc \in {"branch", "create"} =>
           client'[call[g].s].shared
             \/ (~client[call[g].s].shared /\ side'[call[g].s] = side[call[g].s])
  PROVE  Solo'
<1>1. Linked /\ Typed /\ call \in [Handlers -> CallType]
  BY LinkedTypes DEF IInv
<1>2. session' = session
  BY DEF Hangup
<1>3. /\ \A t \in Ids : /\ Len(jobs[t]) \in Nat /\ Len(jobs'[t]) = Len(jobs[t])
                        /\ \A i \in 1 .. Len(jobs[t]) : /\ jobs[t][i] \in JobType
                                                        /\ jobs'[t][i] = Hung(jobs[t][i], h)
      /\ Typed'
      /\ \A g \in Handlers : g # h => reply'[g] = reply[g]
  BY <1>1, HungUp DEF Hangup
<1>4. call'[h] = Idle /\ \A g \in Handlers : g # h => call'[g] = call[g]
  BY <1>1
<1>5. ASSUME NEW t \in Ids PROVE Alone(t)'
  <2> SUFFICES ASSUME ~Alone(t)' PROVE Alone(t)'
    OBVIOUS
  <2>1. \A i \in 1 .. Len(jobs[t]) : jobs'[t][i] = jobs[t][i]
    BY <1>3 DEF Hung
  <2>2. jobs[t] \in Seq(JobType) /\ jobs'[t] \in Seq(JobType)
    BY <1>1, <1>3 DEF Typed
  <2>3. jobs'[t] = jobs[t]
    BY <1>3, <2>1, <2>2
  <2>4. SameTurn(t) /\ Alone(t)
    BY <1>2, <2>3 DEF SameTurn, Solo
  <2>5. ASSUME NEW g \in Handlers PROVE Onlooker(g, t)
    BY <1>3, <1>4, CallTypes DEF Onlooker
  <2> QED
    BY <2>4, <2>5, TurnKept
<1>6. ASSUME NEW g \in Handlers PROVE ChildOK(g)'
  <2>1. CASE g = h
    BY <1>4, <2>1, CallTypes DEF ChildOK
  <2>2. CASE g # h
    <3>1. ChildOK(g) /\ call'[g] = call[g] /\ reply'[g] = reply[g]
      BY <1>3, <1>4, <2>2 DEF Solo
    <3>2. call[g].pc = "create" => call[g].new \in Ids
      BY <1>1, LinkedTypes
    <3>3. ASSUME NEW n \in Ids, NEW i \in 1 .. Len(jobs'[n])
          PROVE  \E k \in 1 .. Len(jobs[n]) : jobs'[n][i].payload = jobs[n][k].payload
      BY <1>3, HungType
    <3> QED
      BY <1>2, <2>2, <3>1, <3>2, <3>3, ChildKept
  <2> QED
    BY <2>1, <2>2
<1> QED
  BY <1>5, <1>6 DEF Solo

LEMMA OpensAfresh ==
  ASSUME NEW rec \in SessionType, rec.signed = {}, rec.sent = 0, rec.from = rec.nonce
  PROVE  Agrees(rec, NoEntry)
<1>1. Sound(rec)
  <2>1. rec.nonce \in Nat
    BY DEF SessionType
  <2> QED
    BY <2>1, FS_EmptySet DEF Sound
<1>2. ReceiptsIn(NoEntry) = {}
  BY EntryTypes DEF ReceiptsIn
<1> QED
  BY <1>1, <1>2, FS_EmptySet, EntryTypes DEF Agrees

\* A request on a session: its first job.
LEMMA BeginsInTurn ==
  ASSUME IInv, Solo, NEW h \in Handlers, NEW by \in {"http", "mcp"}, NEW m \in Methods \ {"open"},
         NEW s \in Ids, NEW tx \in TxType, NEW n \in Nat, NEW op \in Ops \ {"create", "set_account"},
         NEW jtx \in TxType, NEW rec \in SessionType,
         Begin(h, by, m, s, tx, n, op), Post(h, s, Job(h, op, jtx, rec)), UNCHANGED served,
         m \in Sends => op = "advance"
  PROVE  Solo'
<1> DEFINE c == [by |-> by, m |-> m, pc |-> op, s |-> s, tx |-> tx,
                 n |-> n, new |-> NoId, floor |-> client[s].block]
<1>1. client \in [Ids -> ClientType] /\ client[s] \in ClientType
  BY DEF IInv, Linked, TypeOK, ManagerTypeOK
<1>2. /\ call[h].pc = "idle" /\ client[s].known /\ call' = [call EXCEPT ![h] = c]
      /\ client' = [client EXCEPT ![s] = [client[s] EXCEPT !.shared = client[s].shared \/ On(s) # {}]]
  BY DEF Begin
<1>3. c \in CallType /\ c.s = s /\ c.pc = op /\ c.m = m /\ c.m # "open"
  BY <1>1 DEF CallType, ClientType
<1>4. /\ \A t \in Ids : t # s => client'[t] = client[t]
      /\ client'[s].known = client[s].known /\ client'[s].removed = client[s].removed
      /\ client'[s].shared = (client[s].shared \/ On(s) # {})
  BY <1>1, <1>2 DEF ClientType
<1>5. h \notin Unrecorded(s) /\ ~(c.m \in Sends /\ op = "env")
  BY <1>2, <1>3 DEF Unrecorded
<1>6. side' = side /\ op # "set_account"
  BY DEF served
<1> HIDE DEF c
<1>7. PICK d \in CallType : d = c
  BY <1>3
<1>8. /\ call' = [call EXCEPT ![h] = d] /\ call[h].pc = "idle" /\ client[s].known
      /\ d.s = s /\ d.pc = op /\ d.m # "open"
      /\ client[s].shared => client'[s].shared
      /\ client'[s].shared \/ On(s) = {}
      /\ (d.m \in Sends /\ op = "env") <=> h \in Unrecorded(s)
      /\ h \in Unrecorded(s) => d.tx = call[h].tx
  BY <1>2, <1>3, <1>4, <1>5, <1>7
<1>9. op \in Ops \ {"create"}
  OBVIOUS
<1> QED
  BY <1>4, <1>6, <1>8, <1>9, PostsInTurn

LEMMA OpensInTurn ==
  ASSUME IInv, Solo, NEW h \in Handlers, NEW by \in {"http", "mcp"}, NEW rec \in SessionType,
         Opens(h, by, rec), Agrees(rec, NoEntry), UNCHANGED served
  PROVE  Solo'
<1> DEFINE c == [Idle EXCEPT !.by = by, !.m = "open", !.pc = "create", !.new = nextId]
<1>1. nextId \in 0 .. MaxSessions
  BY DEF IInv, Linked, TypeOK, ManagerTypeOK
<1>2. call[h].pc = "idle" /\ Register(h, rec) /\ call' = [call EXCEPT ![h] = c] /\ client' = client
  BY DEF Opens
<1>3. nextId \in Ids
  BY <1>1, <1>2, IdTypes, ManagerAssumption DEF Register
<1>4. c \in CallType /\ c.m = "open" /\ c.pc = "create" /\ c.new = nextId /\ c.s = NoId
  BY <1>3, IdTypes, TxTypes DEF CallType, Idle, Methods, Ops
<1>5. side' = side
  BY DEF served
<1> HIDE DEF c
<1> QED
  BY <1>2, <1>4, <1>5, RegistersInTurn

LEMMA AsksInTurn ==
  ASSUME IInv, Solo, NEW h \in Handlers, NEW by \in {"http", "mcp"},
         NEW m \in Methods \ {"open", "send", "send_sync"},
         NEW s \in Ids, NEW op \in Ops \ {"create", "set_account", "advance", "simulate"},
         Asks(h, by, m, s, op), UNCHANGED served
  PROVE  Solo'
<1>1. Begin(h, by, m, s, NoTx, 0, op) /\ Post(h, s, Job(h, op, NoTx, Absent))
  BY DEF Asks, Ask
<1>2. m \notin Sends
  BY DEF Sends
<1> QED
  BY <1>1, <1>2, TxTypes, SessionTypes, BeginsInTurn

LEMMA SetsBalanceInTurn ==
  ASSUME IInv, Solo, NEW h \in Handlers, NEW by \in {"http", "mcp"},
         SetsBalance(h, by), UNCHANGED served
  PROVE  Solo'
<1>1. PICK s \in Ids, n \in {0, Funds} :
        Begin(h, by, "set_balance", s, NoTx, n, "basic") /\ Ask(h, s, "basic")
  BY DEF SetsBalance
<1>2. Post(h, s, Job(h, "basic", NoTx, Absent))
  BY <1>1 DEF Ask
<1>3. /\ n \in Nat /\ "basic" \in Ops \ {"create", "set_account"}
      /\ "set_balance" \in Methods \ {"open"} /\ "set_balance" \notin Sends
  BY ManagerAssumption DEF Ops, Reading, Methods, Sends
<1> QED
  BY <1>1, <1>2, <1>3, TxTypes, SessionTypes, BeginsInTurn

LEMMA ChainAfresh ==
  ASSUME IInv
  PROVE  /\ \A b \in Blocks : Forked(b) \in SessionType /\ Agrees(Forked(b), NoEntry)
         /\ \A rec \in SessionType : Restored(rec) \in SessionType /\ Agrees(Restored(rec), NoEntry)
         /\ tip \in Blocks
<1>1. ASSUME NEW b \in Blocks PROVE Forked(b) \in SessionType /\ Agrees(Forked(b), NoEntry)
  <2>1. /\ Forked(b) \in SessionType
        /\ Forked(b).signed = {} /\ Forked(b).sent = 0 /\ Forked(b).from = Forked(b).nonce
    BY SessionTypes DEF Forked, NewSession
  <2> QED
    BY <2>1, OpensAfresh
<1>2. ASSUME NEW rec \in SessionType
      PROVE  Restored(rec) \in SessionType /\ Agrees(Restored(rec), NoEntry)
  <2>1. /\ Restored(rec) \in SessionType /\ Restored(rec).signed = {}
        /\ Restored(rec).sent = 0 /\ Restored(rec).from = Restored(rec).nonce
    BY SessionTypes DEF Restored, NewSession
  <2> QED
    BY <2>1, OpensAfresh
<1> QED
  BY <1>1, <1>2 DEF IInv, Linked, TypeOK, ManagerTypeOK

\* What the store holds opens with no transaction behind it.
KeptAfresh == \A rec \in saved : Agrees(rec, NoEntry)

LEMMA HttpRequestInTurn ==
  ASSUME IInv, Solo, KeptAfresh, NEW h \in Handlers, HttpRequest(h), UNCHANGED served
  PROVE  Solo'
<1> DEFINE Plain == {"basic", "read", "call", "set_storage", "state", "env", "branch", "discard"}
           Names == {"read", "estimate", "snapshot", "gas_price", "fork_from", "discard"}
<1>1. Plain \subseteq Ops \ {"create", "set_account", "advance", "simulate"}
      /\ Names \subseteq Methods \ {"open", "send", "send_sync"}
  BY DEF Ops, Reading, Direct, Methods
<1>2. ASSUME NEW s \in Ids, NEW m \in Names, NEW op \in Plain, Asks(h, "http", m, s, op)
      PROVE  Solo'
  BY <1>1, <1>2, AsksInTurn
<1>3. CASE OpenAtTip(h) \/ OpenAtBlock(h) \/ OpenSnapshot(h)
  <2>1. PICK rec \in SessionType : Agrees(rec, NoEntry) /\ Opens(h, "http", rec)
    BY <1>3, ChainAfresh, OpeningSession DEF OpenAtTip, OpenAtBlock, OpenSnapshot, KeptAfresh
  <2> QED
    BY <2>1, OpensInTurn
<1>4. CASE \/ EthGetBalance(h) \/ EthGetTransactionCount(h) \/ EthGetStorageAt(h) \/ EthGetCode(h)
           \/ EthCall(h) \/ ForkyardSetStorageAt(h)
  <2>1. PICK s \in Ids, op \in Plain : Asks(h, "http", "read", s, op)
    BY <1>4 DEF EthGetBalance, EthGetTransactionCount, EthGetStorageAt, EthGetCode, EthCall,
                ForkyardSetStorageAt
  <2> QED
    BY <1>2, <2>1
<1>5. CASE \/ EthEstimateGas(h) \/ ForkyardSnapshot(h) \/ EthGasPrice(h)
           \/ ForkyardForkFrom(h) \/ ForkyardDiscard(h)
  <2>1. PICK s \in Ids, m \in Names, op \in Plain : Asks(h, "http", m, s, op)
    BY <1>5 DEF EthEstimateGas, ForkyardSnapshot, EthGasPrice, ForkyardForkFrom, ForkyardDiscard
  <2> QED
    BY <1>2, <2>1
<1>6. CASE ForkyardSetBalance(h)
  BY <1>6, SetsBalanceInTurn DEF ForkyardSetBalance
<1>7. CASE EthBlockNumber(h)
  <2>1. PICK s \in Ids :
          Begin(h, "http", "block_number", s, NoTx, BlockCount(s), "env") /\ Ask(h, s, "env")
    BY <1>7 DEF EthBlockNumber
  <2>2. Post(h, s, Job(h, "env", NoTx, Absent))
    BY <2>1 DEF Ask
  <2>3. BlockCount(s) \in Nat
    BY DEF IInv, Linked, TypeOK, HttpTypeOK, EntryType, BlockCount
  <2>4. /\ "env" \in Ops \ {"create", "set_account"}
        /\ "block_number" \in Methods \ {"open"} /\ "block_number" \notin Sends
    BY DEF Ops, Direct, Methods, Sends
  <2> QED
    BY <2>1, <2>2, <2>3, <2>4, TxTypes, SessionTypes, BeginsInTurn
<1>8. CASE EthSendRawTransaction(h)
  <2>1. PICK s \in Ids, tx \in Signed, m \in {"send", "send_sync"} :
          Begin(h, "http", m, s, tx, 0, "advance") /\ Execute(h, s, "advance", tx)
    BY <1>8 DEF EthSendRawTransaction
  <2>2. Post(h, s, Job(h, "advance", tx, Absent))
    BY <2>1 DEF Execute
  <2>3. "advance" \in Ops \ {"create", "set_account"} /\ m \in Methods \ {"open"}
    BY DEF Ops, Reading, Methods
  <2>4. tx \in TxType
    BY TxTypes
  <2> QED
    BY <2>1, <2>2, <2>3, <2>4, SessionTypes, BeginsInTurn
<1> QED
  BY <1>3, <1>4, <1>5, <1>6, <1>7, <1>8 DEF HttpRequest

LEMMA McpRequestInTurn ==
  ASSUME IInv, Solo, KeptAfresh, NEW h \in Handlers, McpRequest(h), UNCHANGED served
  PROVE  Solo'
<1> DEFINE Plain == {"basic", "read", "set_storage", "state", "discard"}
           Names == {"read", "snapshot", "discard"}
<1>1. Plain \subseteq Ops \ {"create", "set_account", "advance", "simulate"}
      /\ Names \subseteq Methods \ {"open", "send", "send_sync"}
  BY DEF Ops, Reading, Direct, Methods
<1>2. ASSUME NEW s \in Ids, NEW m \in Names, NEW op \in Plain, Asks(h, "mcp", m, s, op)
      PROVE  Solo'
  BY <1>1, <1>2, AsksInTurn
<1>3. CASE McpFork(h) \/ McpResume(h)
  <2>1. PICK rec \in SessionType : Agrees(rec, NoEntry) /\ Opens(h, "mcp", rec)
    BY <1>3, ChainAfresh, OpeningSession DEF McpFork, McpResume, KeptAfresh
  <2> QED
    BY <2>1, OpensInTurn
<1>4. CASE GetBalance(h) \/ GetStorage(h) \/ GetCode(h) \/ SetStorage(h) \/ Snapshot(h) \/ Discard(h)
  <2>1. PICK s \in Ids, m \in Names, op \in Plain : Asks(h, "mcp", m, s, op)
    BY <1>4 DEF GetBalance, GetStorage, GetCode, SetStorage, Snapshot, Discard
  <2> QED
    BY <1>2, <2>1
<1>5. CASE SetBalance(h)
  BY <1>5, SetsBalanceInTurn DEF SetBalance
<1>6. Tools \subseteq (Methods \ {"open"}) \cap (Ops \ {"create", "set_account"})
      /\ Tools \cap Sends = {}
  BY DEF Tools, Ops, Reading, Methods, Sends
<1>7. CASE TransferAtPrice(h)
  <2>1. PICK s \in Ids, tx \in Unsigned, m \in Tools :
          Begin(h, "mcp", m, s, tx, 0, m) /\ Execute(h, s, m, tx)
    BY <1>7 DEF TransferAtPrice
  <2>2. Post(h, s, Job(h, m, tx, Absent))
    BY <2>1 DEF Execute
  <2>3. tx \in TxType
    BY TxTypes
  <2>4. m \in Methods \ {"open"} /\ m \in Ops \ {"create", "set_account"} /\ m \notin Sends
    BY <1>6
  <2> QED
    BY <2>1, <2>2, <2>3, <2>4, SessionTypes, BeginsInTurn
<1>8. CASE TransferAtBasefee(h)
  <2>1. PICK s \in Ids, nonce \in Nonces, m \in Tools :
          /\ Begin(h, "mcp", m, s, [NoTx EXCEPT !.nonce = nonce], 0, "env")
          /\ Ask(h, s, "env")
    BY <1>8 DEF TransferAtBasefee
  <2>2. Post(h, s, Job(h, "env", NoTx, Absent))
    BY <2>1 DEF Ask
  <2>3. [NoTx EXCEPT !.nonce = nonce] \in TxType
    BY ManagerAssumption DEF NoTx, TxType
  <2>4. m \in Methods \ {"open"} /\ m \notin Sends /\ "env" \in Ops \ {"create", "set_account"}
    BY <1>6 DEF Ops, Direct
  <2> QED
    BY <2>1, <2>2, <2>3, <2>4, TxTypes, SessionTypes, BeginsInTurn
<1> QED
  BY <1>3, <1>4, <1>5, <1>7, <1>8 DEF McpRequest

\* The next job of a request, about the session the request is on.
LEMMA GoesOnInTurn ==
  ASSUME IInv, Solo, NEW h \in Handlers, NEW by, NEW m, NEW pc, At(h, by, m, pc),
         pc # "idle", m # "open",
         NEW op \in Ops \ {"create"}, NEW tx \in TxType, NEW rec \in SessionType, NEW c \in CallType,
         Post(h, call[h].s, Job(h, op, tx, rec)), call' = [call EXCEPT ![h] = c], UNCHANGED served,
         c.m = m, c.pc = op, c.s = call[h].s,
         \A t \in Ids : t # call[h].s => client'[t] = client[t],
         client'[call[h].s].known = client[call[h].s].known,
         client'[call[h].s].removed = client[call[h].s].removed,
         client'[call[h].s].shared = client[call[h].s].shared,
         op = "set_account" => Ok(h) /\ pc = "basic" /\ rec.nonce = Seen(h).nonce,
         m \in Sends => pc = "advance" /\ Ok(h) /\ op = "env" /\ c.tx = call[h].tx
  PROVE  Solo'
<1>1. /\ Answered(h) /\ call[h].m = m /\ call[h].pc = pc
      /\ call[h].s \in Ids /\ client[call[h].s].known
  BY Read
<1>2. PICK s \in Ids : s = call[h].s
  BY <1>1
<1>3. (c.m \in Sends /\ op = "env") <=> h \in Unrecorded(s)
  BY <1>1, <1>2 DEF Unrecorded, Sends
<1>4. h \in Unrecorded(s) => c.tx = call[h].tx
  BY <1>3
<1>5. /\ Post(h, s, Job(h, op, tx, rec)) /\ c.s = s /\ side' = side /\ client[s].known
      /\ \A t \in Ids : t # s => client'[t] = client[t]
      /\ client'[s].known = client[s].known /\ client'[s].removed = client[s].removed
      /\ client'[s].shared = client[s].shared
  BY <1>1, <1>2 DEF served
<1>6. /\ call[h].pc # "idle" /\ Answered(h) /\ call[h].s = s /\ c.pc = op /\ c.m # "open"
      /\ call' = [call EXCEPT ![h] = c]
      /\ op = "set_account" => Ok(h) /\ call[h].pc = "basic" /\ rec.nonce = Seen(h).nonce
  BY <1>1, <1>2
<1>7. (call[h].pc = "idle" \/ (Answered(h) /\ call[h].s = s))
      /\ (call[h].pc = "idle" => client'[s].shared \/ On(s) = {})
  BY <1>6
<1>8. c.s = s /\ (client[s].shared => client'[s].shared)
  BY <1>5
<1> QED
  BY <1>3, <1>4, <1>5, <1>6, <1>7, <1>8, PostsInTurn

LEMMA AwaitsInTurn ==
  ASSUME IInv, Solo, NEW h \in Handlers, NEW by, NEW m, NEW pc, At(h, by, m, pc),
         pc # "idle", m # "open",
         NEW op \in Ops \ {"create"}, NEW rec \in SessionType,
         Post(h, call[h].s, Job(h, op, NoTx, rec)), Await(h, op), UNCHANGED served,
         op = "set_account" => Ok(h) /\ pc = "basic" /\ rec.nonce = Seen(h).nonce,
         m \in Sends => pc = "advance" /\ Ok(h) /\ op = "env"
  PROVE  Solo'
<1> DEFINE c == [call[h] EXCEPT !.pc = op]
<1>1. call[h] \in CallType /\ call[h].m = m
  BY Read
<1>2. call' = [call EXCEPT ![h] = c] /\ client' = client
  BY DEF Await
<1>3. c \in CallType /\ c.m = m /\ c.pc = op /\ c.s = call[h].s /\ c.tx = call[h].tx
  BY <1>1 DEF CallType
<1> HIDE DEF c
<1>4. PICK d \in CallType : d = c
  BY <1>3
<1>5. /\ call' = [call EXCEPT ![h] = d] /\ d.m = m /\ d.pc = op /\ d.s = call[h].s
      /\ d.tx = call[h].tx /\ client' = client
  BY <1>2, <1>3, <1>4
<1> QED
  BY <1>5, TxTypes, GoesOnInTurn

\* A request is answered, and clients are told nothing of any turn.
LEMMA QuietInTurn ==
  ASSUME IInv, Solo, NEW h \in Handlers, Answered(h), Hangup(h),
         call' = [call EXCEPT ![h] = Idle], side' = side,
         \A t \in Ids : /\ client'[t].known = client[t].known
                        /\ client'[t].shared = client[t].shared
                        /\ client'[t].removed = client[t].removed,
         call[h].m \notin Sends \/ (call[h].pc = "advance" /\ ~Ok(h))
  PROVE  Solo'
<1>1. Linked
  BY DEF IInv
<1>2. \A t \in Ids : h \notin Unrecorded(t) /\ \A i \in 1 .. Len(jobs[t]) : jobs[t][i].h # h
  BY <1>1, NoneWaiting DEF Unrecorded, Sends
<1>3. \A g \in Handlers : call[g].m = "fork_from" /\ call[g].pc \in {"branch", "create"} =>
        call[g].s \in Ids
  BY <1>1, LinkedTypes
<1> QED
  BY <1>2, <1>3, ReturnsInTurn

LEMMA DoneInTurn ==
  ASSUME IInv, Solo, NEW h \in Handlers, Answered(h), Done(h), UNCHANGED served,
         call[h].m \notin Sends \/ (call[h].pc = "advance" /\ ~Ok(h))
  PROVE  Solo'
<1>1. Hangup(h) /\ call' = [call EXCEPT ![h] = Idle] /\ client' = client /\ side' = side
  BY DEF Done, Return, served
<1> QED
  BY <1>1, QuietInTurn

LEMMA WritesBackInTurn ==
  ASSUME IInv, Solo, NEW h \in Handlers, NEW by, WritesBack(h, by), UNCHANGED served
  PROVE  Solo'
<1>0. At(h, by, "set_balance", "basic") /\ "set_balance" \notin Sends
  BY DEF WritesBack, Sends
<1>1. CASE Done(h)
  BY <1>0, <1>1, Read, DoneInTurn
<1>2. CASE Ok(h) /\ SetAccount(h, call[h].s, Refilled(Seen(h), call[h].n)) /\ Await(h, "set_account")
  <2>1. Seen(h) \in SessionType /\ call[h].n \in Nat
    BY <1>0, Read
  <2>2. Refilled(Seen(h), call[h].n) \in SessionType
        /\ Refilled(Seen(h), call[h].n).nonce = Seen(h).nonce
    BY <2>1 DEF Refilled, SessionType
  <2>3. Post(h, call[h].s, Job(h, "set_account", NoTx, Refilled(Seen(h), call[h].n)))
    BY <1>2 DEF SetAccount
  <2>4. "set_account" \in Ops \ {"create"}
    BY DEF Ops
  <2> QED
    BY <1>0, <1>2, <2>2, <2>3, <2>4, AwaitsInTurn
<1> QED
  BY <1>1, <1>2 DEF WritesBack

LEMMA EstimateInTurn ==
  ASSUME IInv, Solo, NEW h \in Handlers, EstimateAtNonce(h), UNCHANGED served
  PROVE  Solo'
<1>0. At(h, "http", "estimate", "basic") /\ "estimate" \notin Sends
  BY DEF EstimateAtNonce, Sends
<1>1. CASE Done(h)
  BY <1>0, <1>1, Read, DoneInTurn
<1>2. CASE Ask(h, call[h].s, "call") /\ Await(h, "call")
  <2>1. Post(h, call[h].s, Job(h, "call", NoTx, Absent)) /\ "call" \in Ops \ {"create"}
    BY <1>2 DEF Ask, Ops, Reading
  <2> QED
    BY <1>0, <1>2, <2>1, SessionTypes, AwaitsInTurn
<1> QED
  BY <1>1, <1>2 DEF EstimateAtNonce

LEMMA SendAdvancedInTurn ==
  ASSUME IInv, Solo, NEW h \in Handlers, SendAdvanced(h), UNCHANGED served
  PROVE  Solo'
<1>0. PICK m \in {"send", "send_sync"} : At(h, "http", m, "advance")
  BY DEF SendAdvanced
<1>1. CASE ~Ok(h) /\ Done(h)
  BY <1>0, <1>1, Read, DoneInTurn
<1>2. CASE Ok(h) /\ Ask(h, call[h].s, "env") /\ Await(h, "env")
  <2>1. Post(h, call[h].s, Job(h, "env", NoTx, Absent)) /\ "env" \in Ops \ {"create"}
    BY <1>2 DEF Ask, Ops, Direct
  <2> QED
    BY <1>0, <1>2, <2>1, SessionTypes, AwaitsInTurn
<1> QED
  BY <1>1, <1>2 DEF SendAdvanced

LEMMA TransferPricedInTurn ==
  ASSUME IInv, Solo, NEW h \in Handlers, TransferPriced(h), UNCHANGED served
  PROVE  Solo'
<1>0. PICK m \in Tools : At(h, "mcp", m, "env")
  BY DEF TransferPriced
<1>1. m \in Ops \ {"create", "set_account"} /\ m \notin {"open", "block_number"} /\ m \notin Sends
  BY DEF Tools, Ops, Reading, Sends
<1>2. CASE Done(h)
  BY <1>0, <1>1, <1>2, Read, DoneInTurn
<1> DEFINE fee == BasefeeOf(h)
           tx == PricedAt(h, fee)
           c == [call[h] EXCEPT !.pc = call[h].m, !.tx = tx]
<1>3. CASE /\ Ok(h) /\ Execute(h, call[h].s, call[h].m, tx)
           /\ call' = [call EXCEPT ![h] = c]
           /\ client' = [client EXCEPT ![call[h].s] =
                [client[call[h].s] EXCEPT !.prices = client[call[h].s].prices \cup {fee}]]
  <2>1. PICK s \in Ids : s = call[h].s
    BY <1>0, <1>1, Read
  <2>2. /\ call[h].m = m /\ call[h] \in CallType /\ Seen(h) \in SessionType /\ CallOK(h)
        /\ call[h].by = "mcp"
    BY <1>0, <1>1, Read
  <2>3. call[h].tx \in [nonce : Nat, price : Nat, signed : {FALSE}]
    BY <2>2 DEF CallType, CallOK, TxType, Signed
  <2>4. fee \in Nat
    BY <2>2, BlockTypes DEF BasefeeOf, SessionType
  <2> HIDE DEF fee
  <2>5. tx \in TxType
    BY <2>3, <2>4 DEF PricedAt, TxType
  <2> HIDE DEF tx
  <2>6. c \in CallType /\ c.m = m /\ c.pc = m /\ c.s = call[h].s
    BY <1>1, <2>2, <2>5 DEF CallType
  <2>7. call' = [call EXCEPT ![h] = c]
    BY <1>3
  <2> HIDE DEF c
  <2>8. Post(h, call[h].s, Job(h, m, tx, Absent))
    BY <1>3, <2>2 DEF Execute
  <2>9. /\ \A t \in Ids : t # s => client'[t] = client[t]
        /\ client'[s].known = client[s].known /\ client'[s].removed = client[s].removed
        /\ client'[s].shared = client[s].shared
    <3>1. client \in [Ids -> ClientType] /\ client[s] \in ClientType
      BY DEF IInv, Linked, TypeOK, ManagerTypeOK
    <3>2. client' = [client EXCEPT ![s] = [client[s] EXCEPT !.prices = client[s].prices \cup {fee}]]
      BY <1>3, <2>1
    <3> QED
      BY <3>1, <3>2 DEF ClientType
  <2>10. PICK u \in TxType, d \in CallType, op \in Ops \ {"create"} : u = tx /\ d = c /\ op = m
    BY <1>1, <2>5, <2>6
  <2>11. /\ d.m = m /\ d.pc = op /\ d.s = call[h].s /\ op # "set_account"
         /\ call' = [call EXCEPT ![h] = d] /\ Post(h, call[h].s, Job(h, op, u, Absent))
    BY <1>1, <2>6, <2>7, <2>8, <2>10
  <2>12. /\ "env" # "idle" /\ m # "open" /\ m \notin Sends /\ Absent \in SessionType
         /\ \A t \in Ids : t # call[h].s => client'[t] = client[t]
         /\ client'[call[h].s].known = client[call[h].s].known
         /\ client'[call[h].s].removed = client[call[h].s].removed
         /\ client'[call[h].s].shared = client[call[h].s].shared
    BY <1>1, <2>1, <2>9, SessionTypes
  <2> QED
    BY <1>0, <2>11, <2>12, GoesOnInTurn
<1> QED
  BY <1>2, <1>3 DEF TransferPriced

LEMMA TransferRunInTurn ==
  ASSUME IInv, Solo, NEW h \in Handlers, TransferRun(h), UNCHANGED served
  PROVE  Solo'
<1>0. PICK m \in Tools : At(h, "mcp", m, m)
  BY DEF TransferRun
<1>1. m # "idle" /\ m # "open" /\ m \notin Sends /\ "env" \in Ops \ {"create"}
  BY DEF Tools, Ops, Direct, Sends
<1>2. CASE Done(h)
  BY <1>0, <1>1, <1>2, Read, DoneInTurn
<1> DEFINE c == [call[h] EXCEPT !.pc = "env", !.n = 1]
<1>3. CASE Ask(h, call[h].s, "env") /\ client' = client /\ call' = [call EXCEPT ![h] = c]
  <2>1. call[h] \in CallType /\ call[h].m = m
    BY <1>0, <1>1, Read
  <2>2. c \in CallType /\ c.m = m /\ c.pc = "env" /\ c.s = call[h].s
    BY <1>1, <2>1 DEF CallType
  <2>3. Post(h, call[h].s, Job(h, "env", NoTx, Absent)) /\ call' = [call EXCEPT ![h] = c]
    BY <1>3 DEF Ask
  <2> HIDE DEF c
  <2>4. "env" # "set_account" /\ NoTx \in TxType /\ Absent \in SessionType
    BY TxTypes, SessionTypes
  <2>5. PICK d \in CallType, op \in Ops \ {"create"} : d = c /\ op = "env"
    BY <1>1, <2>2
  <2>6. /\ d.m = m /\ d.pc = op /\ d.s = call[h].s /\ op # "set_account" /\ m \notin Sends
        /\ call' = [call EXCEPT ![h] = d] /\ Post(h, call[h].s, Job(h, op, NoTx, Absent))
    BY <1>1, <2>2, <2>3, <2>4, <2>5
  <2>7. /\ \A t \in Ids : t # call[h].s => client'[t] = client[t]
        /\ client'[call[h].s].known = client[call[h].s].known
        /\ client'[call[h].s].removed = client[call[h].s].removed
        /\ client'[call[h].s].shared = client[call[h].s].shared
    BY <1>3
  <2> QED
    BY <1>0, <1>1, <2>4, <2>5, <2>6, <2>7, GoesOnInTurn
<1> QED
  BY <1>2, <1>3 DEF TransferRun

\* A branch is registered as its parent answered it.
LEMMA BranchedInTurn ==
  ASSUME IInv, Solo, NEW h \in Handlers, ForkFromBranched(h), UNCHANGED served
  PROVE  Solo'
<1>0. At(h, "http", "fork_from", "branch") /\ "fork_from" \notin Sends
  BY DEF ForkFromBranched, Sends
<1>1. CASE Done(h)
  BY <1>0, <1>1, Read, DoneInTurn
<1>2. CASE /\ Ok(h) /\ Register(h, Seen(h)) /\ client' = client
           /\ call' = [call EXCEPT ![h] = [call[h] EXCEPT !.pc = "create", !.new = nextId]]
  <2> DEFINE c == [call[h] EXCEPT !.pc = "create", !.new = nextId]
  <2>1. /\ Answered(h) /\ call[h].pc = "branch" /\ call[h].m = "fork_from"
        /\ call[h] \in CallType /\ call[h].s \in Ids /\ Seen(h) \in SessionType
    BY <1>0, Read
  <2>2. nextId \in Ids
    BY <1>2, IdTypes, ManagerAssumption DEF Register, IInv, Linked, TypeOK, ManagerTypeOK
  <2>3. c \in CallType /\ c.m = "fork_from" /\ c.pc = "create" /\ c.new = nextId /\ c.s = call[h].s
    BY <2>1, <2>2 DEF CallType, Ops
  <2>4. call' = [call EXCEPT ![h] = c] /\ side' = side
    BY <1>2 DEF served
  <2>5. ~client[call[h].s].shared => Agrees(Seen(h), side[call[h].s])
    BY <1>2, <2>1 DEF Solo, ChildOK, Origin
  <2> HIDE DEF c
  <2> QED
    BY <1>2, <2>1, <2>3, <2>4, <2>5, RegistersInTurn
<1> QED
  BY <1>1, <1>2 DEF ForkFromBranched

LEMMA SnapshottedInTurn ==
  ASSUME IInv, Solo, NEW h \in Handlers, NEW by, Snapshotted(h, by), UNCHANGED served
  PROVE  Solo'
<1>1. /\ Answered(h) /\ call[h].m = "snapshot"
      /\ Hangup(h) /\ call' = [call EXCEPT ![h] = Idle] /\ client' = client /\ side' = side
  BY DEF Snapshotted, Return, At, Answered, served
<1> QED
  BY <1>1, QuietInTurn DEF Sends

LEMMA BlockNumberInTurn ==
  ASSUME IInv, Solo, NEW h \in Handlers, BlockNumberAnswered(h) \/ GasPriceAnswered(h), UNCHANGED served
  PROVE  Solo'
<1>1. /\ Answered(h) /\ call[h].m \notin Sends
      /\ Hangup(h) /\ call' = [call EXCEPT ![h] = Idle] /\ side' = side
  BY DEF BlockNumberAnswered, GasPriceAnswered, Return, At, Answered, served, Sends
<1>2. client \in [Ids -> ClientType]
  BY DEF IInv, Linked, TypeOK, ManagerTypeOK
<1>3. ASSUME NEW t \in Ids
      PROVE  /\ client'[t].known = client[t].known
             /\ client'[t].shared = client[t].shared
             /\ client'[t].removed = client[t].removed
  <2>1. client[t] \in ClientType
    BY <1>2
  <2>2. CASE BlockNumberAnswered(h)
    BY <1>2, <2>1, <2>2 DEF BlockNumberAnswered, Return, ToldBlock, ClientType
  <2>3. CASE GasPriceAnswered(h)
    BY <1>2, <2>1, <2>3 DEF GasPriceAnswered, Return, ClientType
  <2> QED
    BY <2>2, <2>3
<1> QED
  BY <1>1, <1>3, QuietInTurn

\* An id clients are told of starts a turn with the books it was opened with.
LEMMA BornInTurn ==
  ASSUME IInv, Solo, NEW h \in Handlers, NEW k \in Ids, Answered(h),
         call[h].pc = "create", call[h].new = k, Hangup(h), call' = [call EXCEPT ![h] = Idle],
         \A t \in Ids : t # k => client'[t] = client[t] /\ side'[t] = side[t],
         client'[k].shared \/ Agrees(session[k], side'[k])
  PROVE  Solo'
<1>1. Linked /\ Typed /\ call \in [Handlers -> CallType] /\ ~client[k].known
  BY LinkedTypes, Opening DEF IInv
<1>2. \A g \in Handlers : call[g].pc # "idle" /\ call[g].m # "open" =>
        call[g].s \in Ids /\ call[g].s # k
  BY <1>1 DEF Linked, CallOK
<1>3. \A g \in Handlers : call[g].pc # "idle" => call[g].s # k
  <2>1. \A g \in Handlers : call[g].m = "open" => call[g].s \notin Ids
    BY <1>1, IdTypes DEF Linked, CallOK
  <2> QED
    BY <1>2, <2>1
<1>4. call'[h] = Idle /\ \A g \in Handlers : g # h => call'[g] = call[g]
  BY <1>1
<1>5. On(k)' = {} /\ Unrecorded(k)' = {}
  <2>1. \A g \in Handlers : call'[g].pc # "idle" => call'[g].s # k
    BY <1>3, <1>4, CallTypes
  <2> QED
    BY <2>1 DEF On, Unrecorded
<1>6. jobs'[k] = <<>>
  <2>1. \A i \in 1 .. Len(jobs[k]) : FALSE
    BY <1>1, NoneWaiting DEF Linked, OpensAwaited
  <2>2. Len(jobs[k]) \in Nat /\ ~(1 \in 1 .. Len(jobs[k])) /\ jobs[k] \in Seq(JobType)
    BY <1>1, <2>1 DEF Typed
  <2>3. jobs[k] = <<>>
    BY <2>2
  <2> QED
    BY <1>1, <2>3, HungUp DEF Hangup
<1>7. Alone(k)'
  <2>1. Agrees(session[k], side'[k]) => Books(k)'
    <3>1. Due(k)' = {}
      BY <1>5 DEF Due
    <3>2. Receipts(k)' = ReceiptsIn(side'[k])
      BY DEF Receipts, ReceiptsIn, EthGetTransactionReceipt
    <3>3. session' = session
      BY DEF Hangup
    <3> QED
      BY <3>1, <3>2, <3>3 DEF Agrees, Books, Sound
  <2>2. \A i \in 1 .. Len(jobs'[k]) : FALSE
    BY <1>6
  <2> QED
    BY <1>5, <2>1, <2>2 DEF Alone
<1>8. ASSUME NEW t \in Ids, t # k
      PROVE  h \notin Unrecorded(t) /\ \A i \in 1 .. Len(jobs[t]) : jobs[t][i].h # h
  BY <1>1, NoneWaiting DEF Unrecorded
<1>9. ASSUME NEW t \in Ids
      PROVE  Alone(t)' \/
           /\ client'[t].known => client[t].known
           /\ client[t].shared => client'[t].shared
           /\ client[t].removed => client'[t].removed
           /\ side'[t] = side[t] /\ h \notin Unrecorded(t)
           /\ \A i \in 1 .. Len(jobs[t]) : jobs[t][i].h # h
  BY <1>7, <1>8
<1>10. \A g \in Handlers : g # h /\ call[g].m = "fork_from" /\ call[g].pc \in {"branch", "create"} =>
         client'[call[g].s].shared
             \/ (~client[call[g].s].shared /\ side'[call[g].s] = side[call[g].s])
  BY <1>2
<1> QED
  BY <1>9, <1>10, ReturnsInTurn

LEMMA OpenedInTurn ==
  ASSUME IInv, Solo, NEW h \in Handlers, NEW by, Opened(h, by), UNCHANGED served
  PROVE  Solo'
<1>1. Answered(h) /\ call[h].pc = "create" /\ call[h].m = "open"
  BY DEF Opened, At, Answered
<1>2. PICK k \in Ids : k = call[h].new
  BY <1>1, Opening
<1>3. /\ Hangup(h) /\ call' = [call EXCEPT ![h] = Idle] /\ side' = side
      /\ client' = [client EXCEPT ![k] = [client[k] EXCEPT !.known = TRUE]]
  BY <1>2 DEF Opened, Return, served
<1>4. \A t \in Ids : t # k => client'[t] = client[t] /\ side'[t] = side[t]
  BY <1>3 DEF IInv, Linked, TypeOK, ManagerTypeOK
<1>5. session[k].st # "none"
  BY <1>1, <1>2 DEF IInv, Linked, AnswerOK
<1>6. Agrees(session[k], NoEntry) /\ side[k] = NoEntry
  BY <1>1, <1>2, <1>5, Opening DEF Solo, ChildOK, Origin
<1> QED
  BY <1>1, <1>2, <1>3, <1>4, <1>6, BornInTurn

\* A child starts with its parent's books, when nothing ran on the parent since.
LEMMA AdoptedInTurn ==
  ASSUME IInv, Solo, NEW h \in Handlers, ForkFromAdopted(h), UNCHANGED <<stage, draining>>
  PROVE  Solo'
<1>1. /\ Answered(h) /\ call[h].pc = "create" /\ call[h].m = "fork_from"
      /\ call[h].s \in Ids
  BY Read DEF ForkFromAdopted
<1>2. PICK k \in Ids : k = call[h].new
  BY <1>1, Opening
<1>3. PICK p \in Ids : p = call[h].s
  BY <1>1
<1>4. /\ client \in [Ids -> ClientType] /\ side \in [Ids -> EntryType] /\ EntryOK(p)
      /\ side[k] = NoEntry
  BY <1>1, <1>2, Opening DEF IInv, Linked, TypeOK, ManagerTypeOK, HttpTypeOK
<1>5. /\ Hangup(h) /\ call' = [call EXCEPT ![h] = Idle]
      /\ side' = [side EXCEPT ![k] = Inherited(p, k)] /\ client' = Branched(h)
  BY <1>2, <1>3 DEF ForkFromAdopted, Return
<1>6. Inherited(p, k) = side[p]
  BY <1>4 DEF Inherited, EntryOK
<1>7. /\ \A t \in Ids : t # k => client'[t] = client[t] /\ side'[t] = side[t]
      /\ side'[k] = side[p]
  BY <1>2, <1>4, <1>5, <1>6 DEF Branched
<1>8. client'[k].shared = client[p].shared
  <2>1. client[k] \in ClientType
    BY <1>4
  <2> QED
    BY <1>2, <1>3, <1>4, <1>5, <2>1 DEF Branched, ClientType
<1>9. client[p].shared \/ Agrees(session[k], side[p])
  <2>1. session[k].st # "none"
    BY <1>1, <1>2 DEF IInv, Linked, AnswerOK
  <2> QED
    BY <1>1, <1>2, <1>3, <2>1 DEF Solo, ChildOK, Origin
<1> QED
  BY <1>1, <1>2, <1>5, <1>7, <1>8, <1>9, BornInTurn

\* The one request on a session ends, and writes its entry or removes it.
LEMMA EndsInTurn ==
  ASSUME IInv, Solo, NEW h \in Handlers, NEW s \in Ids, Answered(h),
         call[h].pc # "idle", call[h].s = s, client[s].known,
         Hangup(h), call' = [call EXCEPT ![h] = Idle],
         \A t \in Ids : t # s => client'[t] = client[t] /\ side'[t] = side[t],
         client'[s].shared = client[s].shared,
         client[s].removed => client'[s].removed,
         Books(s) /\ ~client'[s].removed /\ Due(s) = {call[h].tx} =>
           session[s].signed = Receipts(s)' /\ side'[s].count = Cardinality(Receipts(s)'),
         ~client'[s].removed => h \in Unrecorded(s)
  PROVE  Solo'
<1>1. Linked /\ Typed /\ call \in [Handlers -> CallType] /\ session' = session
  BY LinkedTypes DEF IInv, Hangup
<1>2. h \in On(s)
  BY DEF On
<1>3. call'[h] = Idle /\ \A g \in Handlers : g # h => call'[g] = call[g]
  BY <1>1
<1>4. ASSUME ~client[s].shared PROVE On(s) = {h}
  BY <1>2, <1>4 DEF Solo, Alone
<1>5. Alone(s)'
  <2> SUFFICES ASSUME ~client'[s].shared PROVE Alone(s)'
    BY DEF Alone
  <2>1. Alone(s) /\ On(s) = {h}
    BY <1>4 DEF Solo
  <2>2. jobs[s] = <<>>
    BY <1>1, <2>1, TurnIdle
  <2>3. jobs'[s] = <<>>
    BY <1>1, <2>2, HungUp DEF Hangup
  <2>4. On(s)' = {} /\ Unrecorded(s)' = {}
    <3>1. \A g \in Handlers : ~(call'[g].pc # "idle" /\ call'[g].s = s)
      BY <1>3, <2>1, CallTypes DEF On
    <3> QED
      BY <3>1 DEF On, Unrecorded
  <2>5. ~client'[s].removed => Books(s)'
    <3> SUFFICES ASSUME ~client'[s].removed PROVE Books(s)'
      OBVIOUS
    <3>1. Books(s)
      BY <2>1 DEF Alone
    <3>2. Unrecorded(s) = {h}
      <4>1. Unrecorded(s) \subseteq On(s)
        BY DEF Unrecorded, On
      <4> QED
        BY <2>1, <4>1
    <3>3. Due(s) = {call[h].tx} /\ Due(s)' = {}
      BY <2>4, <3>2 DEF Due
    <3>4. session[s].signed = Receipts(s)' /\ side'[s].count = Cardinality(Receipts(s)')
      BY <3>1, <3>3
    <3> QED
      BY <1>1, <3>1, <3>3, <3>4 DEF Books, Sound
  <2>6. \A i \in 1 .. Len(jobs'[s]) : FALSE
    BY <2>3
  <2> QED
    BY <2>4, <2>5, <2>6 DEF Alone
<1>6. ASSUME NEW t \in Ids, t # s
      PROVE  h \notin Unrecorded(t) /\ \A i \in 1 .. Len(jobs[t]) : jobs[t][i].h # h
  BY <1>1, <1>6, NoneWaiting DEF Unrecorded
<1>7. ASSUME NEW t \in Ids
      PROVE  Alone(t)' \/
           /\ client'[t].known => client[t].known
           /\ client[t].shared => client'[t].shared
           /\ client[t].removed => client'[t].removed
           /\ side'[t] = side[t] /\ h \notin Unrecorded(t)
           /\ \A i \in 1 .. Len(jobs[t]) : jobs[t][i].h # h
  BY <1>5, <1>6
<1>8. ASSUME NEW g \in Handlers, g # h, call[g].m = "fork_from", call[g].pc \in {"branch", "create"}
      PROVE  client'[call[g].s].shared
             \/ (~client[call[g].s].shared /\ side'[call[g].s] = side[call[g].s])
  <2>1. call[g].s \in Ids
    BY <1>1, <1>8, LinkedTypes
  <2>2. CASE call[g].s = s
    <3>1. g \in On(s)
      BY <1>8, <2>2 DEF On
    <3> QED
      BY <1>4, <1>8, <2>2, <3>1
  <2>3. CASE call[g].s # s
    BY <2>1, <2>3
  <2> QED
    BY <2>2, <2>3
<1> QED
  BY <1>7, <1>8, ReturnsInTurn

\* The receipt of what was due, and the number of it.
LEMMA RecordedInTurn ==
  ASSUME IInv, Solo, NEW h \in Handlers, SendRecorded(h), UNCHANGED <<stage, draining>>
  PROVE  Solo'
<1>0. PICK m \in Sends : At(h, "http", m, "env")
  BY DEF SendRecorded, Sends
<1>1. PICK s \in Ids : s = call[h].s
  BY <1>0, Read DEF Sends
<1>2. /\ Answered(h) /\ call[h].pc = "env" /\ call[h].m \in Sends /\ client[s].known
      /\ Seen(h) \in SessionType /\ CallOK(h)
  BY <1>0, <1>1, Read DEF Sends
<1>3. /\ client \in [Ids -> ClientType] /\ side \in [Ids -> EntryType] /\ tip \in Blocks
      /\ client[s] \in ClientType /\ side[s] \in EntryType
  BY DEF IInv, Linked, TypeOK, ManagerTypeOK, HttpTypeOK
<1>4. PICK tx \in Signed : tx = call[h].tx
  BY <1>2 DEF CallOK
<1>5. PICK start \in Nat : start = SessionBlockEnv(h)
  BY <1>2, <1>3, BlockTypes DEF SessionBlockEnv, SessionType
<1>6. PICK e : e = WithReceipt(side[s], tx, start)
  OBVIOUS
<1>7. /\ e.count = side[s].count + 1 /\ e.receipts[tx] # NoReceipt
      /\ \A ux \in Signed : ux # tx => e.receipts[ux] = side[s].receipts[ux]
  BY <1>3, <1>6, Recorded
<1>8. /\ Hangup(h) /\ call' = [call EXCEPT ![h] = Idle]
      /\ side' = [side EXCEPT ![s] = e] /\ client' = Sent(h, e.receipts[tx])
  BY <1>1, <1>4, <1>5, <1>6 DEF SendRecorded, Return
<1>9. /\ \A t \in Ids : t # s => client'[t] = client[t] /\ side'[t] = side[t]
      /\ side'[s] = e
      /\ client'[s].shared = client[s].shared /\ client'[s].removed = client[s].removed
  BY <1>1, <1>3, <1>8 DEF Sent, ClientType
<1>10. h \in Unrecorded(s)
  BY <1>1, <1>2 DEF Unrecorded, Sends
<1>11. Receipts(s)' = Receipts(s) \cup {tx}
  <2>1. \A ux \in Signed : side'[s].receipts[ux] # NoReceipt <=>
                             side[s].receipts[ux] # NoReceipt \/ ux = tx
    BY <1>7, <1>9
  <2>2. \A ux : ux \in Receipts(s)' <=> ux \in Receipts(s) \/ ux = tx
    BY <2>1 DEF Receipts, EthGetTransactionReceipt
  <2> QED
    BY <2>2
<1>12. ASSUME Books(s), Due(s) = {call[h].tx}
       PROVE  session[s].signed = Receipts(s)' /\ side'[s].count = Cardinality(Receipts(s)')
  <2>1. session[s].signed = Receipts(s)' /\ tx \notin Receipts(s)
    BY <1>4, <1>11, <1>12 DEF Books
  <2>2. IsFiniteSet(Receipts(s))
    <3>1. IsFiniteSet(session[s].signed) /\ Receipts(s) \subseteq session[s].signed
      BY <1>12 DEF Books, Sound
    <3> QED
      BY <3>1, FS_Subset
  <2>3. Cardinality(Receipts(s) \cup {tx}) = Cardinality(Receipts(s)) + 1
    BY <2>1, <2>2, FS_AddElement
  <2> QED
    BY <1>7, <1>9, <1>11, <1>12, <2>1, <2>3 DEF Books
<1> QED
  BY <1>1, <1>2, <1>8, <1>9, <1>10, <1>12, EndsInTurn

LEMMA DiscardInTurn ==
  ASSUME IInv, Solo, NEW h \in Handlers, DiscardAnswered(h), UNCHANGED <<stage, draining>>
  PROVE  Solo'
<1>0. At(h, "http", "discard", "discard")
  BY DEF DiscardAnswered
<1>1. PICK s \in Ids : s = call[h].s
  BY <1>0, Read
<1>2. /\ client \in [Ids -> ClientType] /\ side \in [Ids -> EntryType] /\ client[s] \in ClientType
      /\ Answered(h) /\ call[h].pc = "discard" /\ client[s].known
  BY <1>0, <1>1, Read DEF IInv, Linked, TypeOK, ManagerTypeOK, HttpTypeOK
<1>3. /\ Hangup(h) /\ call' = [call EXCEPT ![h] = Idle]
      /\ side' = [side EXCEPT ![s] = NoEntry]
      /\ client' = [client EXCEPT ![s] = [client[s] EXCEPT !.removed = TRUE,
                                            !.late = client[s].late \/ Unrecorded(s) # {}]]
  BY <1>1 DEF DiscardAnswered, Return
<1>4. /\ \A t \in Ids : t # s => client'[t] = client[t] /\ side'[t] = side[t]
      /\ client'[s].shared = client[s].shared /\ client'[s].removed
  BY <1>2, <1>3 DEF ClientType
<1> QED
  BY <1>1, <1>2, <1>3, <1>4, EndsInTurn

\* A request that is dropped ends the turn of its session.
LEMMA DroppedInTurn ==
  ASSUME IInv, Solo, NEW h \in Handlers, Dropped(h), UNCHANGED served
  PROVE  Solo'
<1>1. /\ Linked /\ Typed /\ client \in [Ids -> ClientType]
  BY LinkedTypes DEF IInv
<1>2. /\ Hangup(h) /\ call' = [call EXCEPT ![h] = Idle] /\ side' = side
      /\ client' = [s \in Ids |-> IF s = call[h].s THEN [client[s] EXCEPT !.shared = TRUE]
                                                   ELSE client[s]]
  BY DEF Dropped, served
<1>3. ASSUME NEW t \in Ids
      PROVE  /\ client'[t].known = client[t].known /\ client'[t].removed = client[t].removed
             /\ t = call[h].s => client'[t].shared
             /\ t # call[h].s => client'[t].shared = client[t].shared
             /\ client[t].shared => client'[t].shared
  <2>1. client[t] \in ClientType
    BY <1>1
  <2> QED
    BY <1>2, <2>1 DEF ClientType
<1>4. ASSUME NEW t \in Ids, t # call[h].s, client[t].known, NEW i \in 1 .. Len(jobs[t])
      PROVE  jobs[t][i].h # h
  <2>1. JobOK(t, i) /\ CallOK(h)
    BY <1>1 DEF Linked, JobsOK
  <2>2. h # NoHandler
    BY ManagerAssumption
  <2> QED
    BY <1>4, <2>1, <2>2 DEF JobOK, Target, CallOK
<1>5. ASSUME NEW t \in Ids
      PROVE  Alone(t)' \/
           /\ client'[t].known => client[t].known
           /\ client[t].shared => client'[t].shared
           /\ client[t].removed => client'[t].removed
           /\ side'[t] = side[t] /\ h \notin Unrecorded(t)
           /\ \A i \in 1 .. Len(jobs[t]) : jobs[t][i].h # h
  <2>1. CASE t = call[h].s \/ ~client[t].known
    <3>1. client'[t].shared \/ ~client'[t].known
      BY <1>3, <2>1
    <3> QED
      BY <3>1 DEF Alone
  <2>2. CASE t # call[h].s /\ client[t].known
    BY <1>2, <1>3, <1>4, <2>2 DEF Unrecorded
  <2> QED
    BY <2>1, <2>2
<1>6. \A g \in Handlers : call[g].m = "fork_from" /\ call[g].pc \in {"branch", "create"} =>
        call[g].s \in Ids
  BY <1>1, LinkedTypes
<1>7. \A t \in Ids : client'[t].shared \/ (~client[t].shared /\ side'[t] = side[t])
  BY <1>2, <1>3
<1> QED
  BY <1>2, <1>5, <1>6, <1>7, ReturnsInTurn

LEMMA ContinueInTurn ==
  ASSUME IInv, Solo, NEW h \in Handlers, Continue(h)
  PROVE  Solo'
<1>1. CASE HttpRecorded(h)
  <2>1. UNCHANGED <<stage, draining>>
    BY DEF Continue
  <2> QED
    BY <1>1, <2>1, RecordedInTurn, AdoptedInTurn, DiscardInTurn DEF HttpRecorded
<1>2. CASE (HttpAnswered(h) \/ McpAnswered(h)) /\ UNCHANGED side
  <2>1. UNCHANGED served
    BY <1>2 DEF Continue, served
  <2>2. CASE Opened(h, "http") \/ Opened(h, "mcp")
    BY <2>1, <2>2, OpenedInTurn
  <2>3. CASE \/ OneJobAnswered(h) \/ EstimateAnswered(h) \/ SetBalanceWritten(h)
             \/ ToolAnswered(h) \/ McpBalanceWritten(h) \/ McpDiscarded(h)
    <3>1. Done(h) /\ Answered(h) /\ call[h].m \notin Sends
      BY <2>3 DEF OneJobAnswered, PassedOn, EstimateAnswered, SetBalanceWritten, BalanceSet,
                  ToolAnswered, McpBalanceWritten, McpDiscarded, At, Answered, Sends
    <3> QED
      BY <2>1, <3>1, DoneInTurn
  <2>4. CASE FeeExplained(h)
    <3>1. Done(h) /\ Answered(h) /\ call[h].m \notin Sends
      BY <2>4 DEF FeeExplained, Tools, At, Answered, Sends
    <3> QED
      BY <2>1, <3>1, DoneInTurn
  <2>5. CASE EstimateAtNonce(h)
    BY <2>1, <2>5, EstimateInTurn
  <2>6. CASE SetBalanceRead(h) \/ McpBalanceRead(h)
    BY <2>1, <2>6, WritesBackInTurn DEF SetBalanceRead, McpBalanceRead
  <2>7. CASE SnapshotStored(h) \/ McpSnapshotStored(h)
    BY <2>1, <2>7, SnapshottedInTurn DEF SnapshotStored, McpSnapshotStored
  <2>8. CASE BlockNumberAnswered(h) \/ GasPriceAnswered(h)
    BY <2>1, <2>8, BlockNumberInTurn
  <2>9. CASE SendAdvanced(h)
    BY <2>1, <2>9, SendAdvancedInTurn
  <2>10. CASE ForkFromBranched(h)
    BY <2>1, <2>10, BranchedInTurn
  <2>11. CASE TransferPriced(h)
    BY <2>1, <2>11, TransferPricedInTurn
  <2>12. CASE TransferRun(h)
    BY <2>1, <2>12, TransferRunInTurn
  <2> QED
    BY <1>2, <2>2, <2>3, <2>4, <2>5, <2>6, <2>7, <2>8, <2>9, <2>10, <2>11, <2>12
    DEF HttpAnswered, McpAnswered
<1> QED
  BY <1>1, <1>2 DEF Continue

----------------------------------------------------------------------------
(* The workers' steps *)

\* Only a send is signed.
SignersSend == \A h \in Handlers : call[h].tx.signed => call[h].m \in Sends

SameBooks(rec, old) ==
  rec.nonce = old.nonce /\ rec.from = old.from /\ rec.sent = old.sent /\ rec.signed = old.signed

\* What job j does to the books of its session, and tells of it.
BooksOK(j, old, rec, st, seen) ==
  /\ j.op = "create" => rec = j.payload
  /\ j.op = "set_account" =>
       /\ rec.nonce \in {old.nonce, j.payload.nonce}
       /\ rec.from = old.from /\ rec.sent = old.sent /\ rec.signed = old.signed
  /\ j.op = "advance" /\ st = "ok" => rec = Committed(old, j.tx) /\ j.tx.nonce = old.nonce
  /\ j.op \notin {"create", "set_account"} /\ ~(j.op = "advance" /\ st = "ok") => SameBooks(rec, old)
  /\ j.op \in {"basic", "branch"} /\ st = "ok" => seen = old /\ old.st = "live"

\* A transaction commits at its session's nonce, later than those before it.
LEMMA CommittedSound ==
  ASSUME NEW old \in SessionType, NEW tx \in TxType, Sound(old), tx.nonce = old.nonce
  PROVE  /\ Sound(Committed(old, tx)) /\ tx \notin old.signed
         /\ Committed(old, tx).signed = IF tx.signed THEN old.signed \cup {tx} ELSE old.signed
<1> DEFINE signed == IF tx.signed THEN old.signed \cup {tx} ELSE old.signed
           rec == Committed(old, tx)
<1>1. old.nonce \in Nat /\ old.from \in Nat /\ old.sent \in Nat /\ old.signed \subseteq Signed
  BY DEF SessionType
<1>2. rec.nonce = old.nonce + 1 /\ rec.from = old.from /\ rec.sent = old.sent + 1 /\ rec.signed = signed
  BY DEF Committed, SessionType
<1>3. IsFiniteSet(signed)
  BY FS_AddElement DEF Sound
<1>4. ASSUME NEW ux \in signed PROVE ux.nonce < old.nonce + 1
  <2>1. CASE ux = tx
    BY <1>1, <2>1
  <2>2. CASE ux \in old.signed
    <3>1. ux.nonce \in Nat /\ ux.nonce < old.nonce
      BY <1>1, <2>2, ManagerAssumption DEF Sound, Signed
    <3> QED
      BY <1>1, <3>1
  <2> QED
    BY <2>1, <2>2
<1>5. tx \notin old.signed
  BY <1>1 DEF Sound
<1>6. rec.nonce = rec.from + rec.sent
  BY <1>1, <1>2 DEF Sound
<1> HIDE DEF signed, rec
<1>7. Sound(rec)
  BY <1>2, <1>3, <1>4, <1>6 DEF Sound
<1> QED
  BY <1>2, <1>5, <1>7 DEF signed, rec

\* The front job runs: it is the one job of the session's one request, or it
\* opens the session, or nothing of the session's turn is told any more.
LEMMA WorksInTurn ==
  ASSUME IInv, Solo, SignersSend, NEW s \in Ids, NEW j \in JobType, jobs[s] # <<>>, j = jobs[s][1],
         NEW st \in Answers, NEW seen \in SessionType, Reply(s, st, seen),
         NEW rec \in SessionType, session' = [session EXCEPT ![s] = rec],
         BooksOK(j, session[s], rec, st, seen), UNCHANGED <<call, client, served>>
  PROVE  Solo'
<1>1. /\ Linked /\ Typed /\ call \in [Handlers -> CallType] /\ session \in [Ids -> SessionType]
      /\ side' = side /\ NoHandler \notin Handlers
  BY LinkedTypes, ManagerAssumption DEF IInv, served
<1>2. /\ Len(jobs[s]) \in Nat /\ Len(jobs[s]) >= 1 /\ Len(jobs'[s]) = Len(jobs[s]) - 1
      /\ \A i \in 1 .. Len(jobs'[s]) : jobs'[s][i] = jobs[s][i + 1]
      /\ \A t \in Ids : t # s => jobs'[t] = jobs[t]
      /\ j.h # NoHandler => j.h \in Handlers /\ reply'[j.h] = [st |-> st, session |-> seen]
      /\ \A g \in Handlers : g # j.h => reply'[g] = reply[g]
      /\ Typed'
  BY <1>1, Replied
<1>3. session'[s] = rec /\ \A t \in Ids : t # s => session'[t] = session[t]
  BY <1>1
<1>4. 1 \in 1 .. Len(jobs[s]) /\ JobOK(s, 1) /\ IdOK(s)
  BY <1>1, <1>2 DEF Linked, JobsOK
<1>5. /\ j.h # NoHandler => call[j.h].pc = j.op /\ Target(j.h) = s /\ reply[j.h].st = "waiting"
      /\ j.h # NoHandler /\ j.op = "advance" => call[j.h].tx = j.tx
      /\ j.op = "create" => Len(jobs[s]) = 1 /\ session[s].st = "none"
      /\ j.op # "create" => client[s].known
  BY <1>4 DEF JobOK
<1>6. ASSUME NEW t \in Ids, t # s PROVE Alone(t)'
  <2>1. Alone(t) /\ SameTurn(t)
    BY <1>1, <1>2, <1>3, <1>6 DEF Solo, SameTurn
  <2>2. ASSUME NEW g \in Handlers PROVE Onlooker(g, t)
    <3>1. CASE g # j.h
      BY <1>2, <3>1 DEF Onlooker
    <3>2. CASE g = j.h /\ j.op # "create"
      <4>1. call[g].s = s
        BY <1>1, <1>5, <3>2 DEF Target
      <4> QED
        BY <1>6, <4>1 DEF Onlooker, Unrecorded
    <3>3. CASE g = j.h /\ j.op = "create"
      <4>1. call[g].pc = "create" /\ call' = call
        BY <1>1, <1>5, <3>3
      <4>2. g \notin Unrecorded(t)
        BY <4>1 DEF Unrecorded
      <4> QED
        BY <4>1, <4>2 DEF Onlooker, On
    <3> QED
      BY <3>1, <3>2, <3>3
  <2> QED
    BY <2>1, <2>2, TurnKept
<1>7. Alone(s)'
  <2> SUFFICES ASSUME client[s].known, ~client[s].shared PROVE Alone(s)'
    BY DEF Alone
  <2>1. Alone(s)
    BY DEF Solo
  <2> DEFINE h == j.h
  <2>2. /\ h \in Handlers /\ h \in On(s) /\ call[h].pc = j.op /\ ~Answered(h)
        /\ \A k \in 1 .. Len(jobs[s]) : k = 1
    BY <1>1, <1>4, <2>1, TurnJobs
  <2>3. Len(jobs'[s]) = 0
    <3>1. ~(2 \in 1 .. Len(jobs[s]))
      BY <2>2
    <3>2. Len(jobs[s]) \in Nat /\ Len(jobs[s]) >= 1 /\ Len(jobs'[s]) = Len(jobs[s]) - 1
      BY <1>2
    <3>3. \A n \in Nat : n >= 1 /\ ~(2 \in 1 .. n) => n - 1 = 0
      OBVIOUS
    <3> QED
      BY <3>1, <3>2, <3>3
  <2>4. On(s) = {h} /\ On(s)' = {h} /\ call[h].s = s
    BY <2>1, <2>2 DEF Alone, On
  <2>5. reply'[h] = [st |-> st, session |-> seen] /\ h # NoHandler /\ j.op # "create"
    <3>1. h # NoHandler
      BY <1>1, <2>2
    <3>2. j.op # "create"
      BY <1>4, <1>5 DEF IdOK
    <3> QED
      BY <1>2, <3>1, <3>2
  <2>6. Receipts(s)' = Receipts(s)
    BY <1>1 DEF Receipts, EthGetTransactionReceipt
  <2>7. ASSUME ~client[s].removed PROVE Books(s)'
    <3>1. Books(s)
      BY <2>1, <2>7 DEF Alone
    <3>2. Unrecorded(s) = {g \in {h} : call[g].m \in Sends /\ j.op = "env"}
      <4>1. ~Ok(h)
        BY <2>2 DEF Ok, Answered
      <4>2. \A g \in Unrecorded(s) : g = h /\ call[g].m \in Sends /\ j.op = "env"
        BY <2>2, <2>4, <4>1 DEF Unrecorded, On, Sends
      <4>3. call[h].m \in Sends /\ j.op = "env" => h \in Unrecorded(s)
        BY <2>2, <2>4 DEF Unrecorded, Sends
      <4> QED
        BY <4>2, <4>3
    <3>3. Unrecorded(s)' = {g \in {h} : call[g].m \in Sends /\
                                         (j.op = "env" \/ (j.op = "advance" /\ st = "ok"))}
      <4>1. Ok(h)' <=> st = "ok"
        BY <2>5 DEF Ok
      <4>2. \A g \in Unrecorded(s)' : g = h /\ call[g].m \in Sends /\
                                      (j.op = "env" \/ (j.op = "advance" /\ st = "ok"))
        BY <2>2, <2>4, <4>1 DEF Unrecorded, On, Sends
      <4>3. call[h].m \in Sends /\ (j.op = "env" \/ (j.op = "advance" /\ st = "ok")) =>
              h \in Unrecorded(s)'
        BY <2>2, <2>4, <4>1 DEF Unrecorded, Sends
      <4> QED
        BY <4>2, <4>3
    <3>4. CASE j.op = "advance" /\ st = "ok"
      <4>1. rec = Committed(session[s], j.tx) /\ j.tx.nonce = session[s].nonce
            /\ session[s] \in SessionType /\ j.tx \in TxType /\ Sound(session[s])
        BY <1>1, <3>1, <3>4 DEF BooksOK, JobType, Books
      <4>2. /\ Sound(rec) /\ j.tx \notin session[s].signed
            /\ rec.signed = IF j.tx.signed THEN session[s].signed \cup {j.tx} ELSE session[s].signed
        BY <4>1, CommittedSound
      <4>3. Due(s) = {} /\ Due(s)' = {call[g].tx : g \in {k \in {h} : call[k].m \in Sends}}
        BY <3>2, <3>3, <3>4 DEF Due
      <4>4. j.tx = call[h].tx
        BY <1>5, <2>5, <3>4
      <4>5. CASE call[h].m \in Sends
        <5>1. j.tx.signed /\ Due(s)' = {j.tx}
          <6>1. CallOK(h)
            BY <1>1, <2>2 DEF Linked
          <6>2. j.tx \in Signed
            BY <4>4, <4>5, <6>1 DEF CallOK
          <6> QED
            BY <4>3, <4>4, <4>5, <6>2 DEF Signed
        <5>2. session[s].signed = Receipts(s) /\ side[s].count = Cardinality(Receipts(s))
          BY <3>1, <4>3 DEF Books
        <5>3. rec.signed = Receipts(s) \cup {j.tx} /\ Receipts(s) \cap {j.tx} = {}
          BY <4>2, <5>1, <5>2
        <5>4. session'[s] = rec /\ side'[s] = side[s] /\ Sound(session[s])'
          BY <1>1, <1>3, <4>2 DEF Sound
        <5> QED
          BY <2>6, <5>1, <5>2, <5>3, <5>4 DEF Books
      <4>6. CASE call[h].m \notin Sends
        <5>1. ~j.tx.signed /\ Due(s)' = {}
          BY <2>2, <4>3, <4>4, <4>6 DEF SignersSend
        <5> QED
          BY <1>1, <1>3, <2>6, <3>1, <4>2, <4>3, <5>1 DEF Books, Sound
      <4> QED
        BY <4>5, <4>6
    <3>5. CASE ~(j.op = "advance" /\ st = "ok")
      <4>1. Due(s)' = Due(s)
        BY <3>2, <3>3, <3>5 DEF Due
      <4>2. SameBooks(rec, session[s])
        <5>1. j.op = "set_account" => j.payload.nonce = session[s].nonce
          BY <1>4, <2>1 DEF Alone
        <5> QED
          BY <2>5, <3>5, <5>1 DEF BooksOK, SameBooks
      <4> QED
        BY <1>1, <1>3, <2>6, <3>1, <4>1, <4>2 DEF Books, Sound, SameBooks
    <3> QED
      BY <3>4, <3>5
  <2>8. \A i \in 1 .. Len(jobs'[s]) : FALSE
    BY <2>3
  <2>9. ASSUME call[h].pc = "basic", Ok(h)' PROVE Seen(h)'.nonce = rec.nonce
    <3>1. st = "ok" /\ Seen(h)' = seen /\ j.op = "basic"
      BY <2>2, <2>5, <2>9 DEF Ok, Seen
    <3> QED
      BY <3>1 DEF BooksOK, SameBooks
  <2> HIDE DEF h
  <2>10. \A g \in On(s)' : call'[g].pc = "basic" /\ Ok(g)' => Seen(g)'.nonce = session'[s].nonce
    <3>1. \A g \in On(s)' : g = h
      BY <2>4
    <3> QED
      BY <1>3, <2>9, <3>1 DEF Ok, Seen
  <2>11. \A g, k \in On(s)' : g = k
    BY <2>4
  <2> QED
    BY <2>7, <2>8, <2>10, <2>11 DEF Alone
<1>8. ASSUME NEW g \in Handlers PROVE ChildOK(g)'
  <2>1. CASE g # j.h
    <3>1. ChildOK(g) /\ call'[g] = call[g] /\ reply'[g] = reply[g]
      BY <1>2, <2>1 DEF Solo
    <3>2. call[g].pc = "create" => call[g].new \in Ids /\ call[g].new # s
      BY <1>1, <1>4, <2>1, LinkedTypes DEF Linked, OpensAwaited
    <3>3. call[g].pc = "create" => jobs'[call[g].new] = jobs[call[g].new]
                                   /\ session'[call[g].new] = session[call[g].new]
      BY <1>2, <1>3, <3>2
    <3>4. \A t : client'[t].shared \/ (~client[t].shared /\ side'[t] = side[t])
      BY <1>1
    <3> QED
      BY <3>1, <3>3, <3>4, ChildKept
  <2>2. CASE g = j.h
    <3>1. /\ call[g].pc = j.op /\ Target(g) = s /\ reply'[g] = [st |-> st, session |-> seen]
          /\ call' = call /\ Origin(g)' = Origin(g) /\ CallOK(g)
      BY <1>1, <1>2, <1>5, <2>2 DEF Origin, Linked
    <3>2. CASE j.op \notin {"branch", "create"}
      BY <3>1, <3>2 DEF ChildOK
    <3>3. CASE j.op = "create"
      <4>1. call[g].new = s /\ Len(jobs'[s]) = 0 /\ session'[s] = jobs[s][1].payload
        BY <1>2, <1>3, <1>5, <3>1, <3>3 DEF Target, BooksOK
      <4>2. call[g].m = "open" \/ (call[g].m = "fork_from" /\ ~client[call[g].s].shared) =>
              Agrees(jobs[s][1].payload, Origin(g))
        BY <1>4, <3>1, <3>3, <4>1 DEF Solo, ChildOK
      <4>3. \A i \in 1 .. Len(jobs'[s]) : FALSE
        BY <4>1
      <4> QED
        BY <3>1, <3>3, <4>1, <4>2, <4>3 DEF ChildOK
    <3>4. CASE j.op = "branch"
      <4>1. call[g].s = s /\ call[g].m # "open" /\ j.op # "create" /\ client[s].known
        BY <1>5, <3>1, <3>4 DEF Target, CallOK
      <4> SUFFICES ASSUME call[g].m = "fork_from", ~client[s].shared, st = "ok"
                   PROVE  Agrees(seen, side[s])
        BY <1>1, <3>1, <3>4, <4>1 DEF ChildOK, Origin, Ok, Seen
      <4>2. seen = session[s] /\ session[s].st = "live"
        BY <3>4 DEF BooksOK
      <4>3. Alone(s) /\ EntryOK(s)
        BY DEF Solo, IInv
      <4>4. Books(s)
        BY <4>1, <4>2, <4>3 DEF Alone, EntryOK
      <4>5. Unrecorded(s) = {}
        <5>1. g \in On(s)
          BY <3>1, <3>4, <4>1 DEF On
        <5>2. \A k \in Unrecorded(s) : k = g
          BY <4>1, <4>3, <5>1 DEF Alone, On, Unrecorded
        <5> QED
          BY <5>2 DEF Unrecorded
      <4>6. Due(s) = {} /\ Receipts(s) = ReceiptsIn(side[s])
        BY <4>5 DEF Due, Receipts, ReceiptsIn, EthGetTransactionReceipt
      <4> QED
        BY <4>2, <4>4, <4>6 DEF Books, Agrees
    <3> QED
      BY <3>2, <3>3, <3>4
  <2> QED
    BY <2>1, <2>2
<1> QED
  BY <1>6, <1>7, <1>8 DEF Solo

\* A job that leaves its session as it is.
LEMMA WorksQuietly ==
  ASSUME IInv, Solo, SignersSend, NEW s \in Ids, NEW op, Front(s, op), op # "create",
         NEW st \in Answers, NEW seen \in SessionType, Reply(s, st, seen), session' = session,
         ~(op = "advance" /\ st = "ok"),
         op \in {"basic", "branch"} /\ st = "ok" => seen = session[s] /\ Live(s),
         UNCHANGED <<call, client, served>>
  PROVE  Solo'
<1>1. jobs[s] # <<>> /\ session \in [Ids -> SessionType] /\ session[s] \in SessionType
  BY AtFront
<1>2. PICK j \in JobType : j = jobs[s][1] /\ j.op = op
  BY AtFront
<1>3. PICK rec \in SessionType : rec = session[s]
  BY <1>1
<1>4. session' = [session EXCEPT ![s] = rec]
  BY <1>1, <1>3
<1>5. BooksOK(j, session[s], rec, st, seen)
  BY <1>2, <1>3 DEF BooksOK, SameBooks, Live
<1> QED
  BY <1>1, <1>2, <1>4, <1>5, WorksInTurn

LEMMA CreateInTurn ==
  ASSUME IInv, Solo, SignersSend, NEW s \in Ids, RunCreate(s), UNCHANGED served
  PROVE  Solo'
<1>1. Front(s, "create") /\ Reply(s, "ok", Absent) /\ UNCHANGED <<call, client>>
  BY DEF RunCreate
<1>2. jobs[s] # <<>> /\ session \in [Ids -> SessionType] /\ Head(jobs[s]) = jobs[s][1]
  BY <1>1, AtFront
<1>3. PICK j \in JobType : j = jobs[s][1] /\ j.op = "create"
  BY <1>1, AtFront
<1>4. PICK rec \in SessionType : rec = j.payload
  BY DEF JobType
<1>5. session' = [session EXCEPT ![s] = rec]
  BY <1>2, <1>3, <1>4 DEF RunCreate
<1>6. BooksOK(j, session[s], rec, "ok", Absent)
  BY <1>3, <1>4 DEF BooksOK
<1>7. "ok" \in Answers /\ Absent \in SessionType
  BY SessionTypes DEF Answers
<1> QED
  BY <1>1, <1>2, <1>3, <1>5, <1>6, <1>7, WorksInTurn

LEMMA DiscardRunInTurn ==
  ASSUME IInv, Solo, SignersSend, NEW s \in Ids, RunDiscard(s), UNCHANGED served
  PROVE  Solo'
<1>1. Front(s, "discard") /\ Reply(s, "ok", Absent) /\ session' = Gone(s) /\ UNCHANGED <<call, client>>
  BY DEF RunDiscard
<1>2. jobs[s] # <<>> /\ session \in [Ids -> SessionType] /\ session[s] \in SessionType
  BY <1>1, AtFront
<1>3. PICK j \in JobType : j = jobs[s][1] /\ j.op = "discard"
  BY <1>1, AtFront
<1>4. PICK rec \in SessionType : session' = [session EXCEPT ![s] = rec] /\ SameBooks(rec, session[s])
  <2> DEFINE rec == [session[s] EXCEPT !.st = IF session[s].st = "live" THEN "gone" ELSE session[s].st]
  <2>1. rec \in SessionType /\ SameBooks(rec, session[s])
    BY <1>2 DEF SessionType, SameBooks
  <2>2. session' = [session EXCEPT ![s] = rec]
    BY <1>1 DEF Gone
  <2> HIDE DEF rec
  <2> QED
    BY <2>1, <2>2
<1>5. BooksOK(j, session[s], rec, "ok", Absent)
  BY <1>3, <1>4 DEF BooksOK
<1>6. "ok" \in Answers /\ Absent \in SessionType
  BY SessionTypes DEF Answers
<1> QED
  BY <1>1, <1>2, <1>3, <1>4, <1>5, <1>6, WorksInTurn

LEMMA SetAccountInTurn ==
  ASSUME IInv, Solo, SignersSend, NEW s \in Ids, RunSetAccount(s), UNCHANGED served
  PROVE  Solo'
<1>1. Front(s, "set_account") /\ Reply(s, "ok", Absent) /\ UNCHANGED <<call, client>>
  BY DEF RunSetAccount
<1>2. /\ jobs[s] # <<>> /\ session \in [Ids -> SessionType] /\ session[s] \in SessionType
      /\ Head(jobs[s]) = jobs[s][1]
  BY <1>1, AtFront
<1>3. PICK j \in JobType : j = jobs[s][1] /\ j.op = "set_account"
  BY <1>1, AtFront
<1>4. PICK rec : rec = Overwrite(session[s], j.payload)
  OBVIOUS
<1>5. /\ rec \in SessionType /\ rec.nonce = j.payload.nonce
      /\ rec.from = session[s].from /\ rec.sent = session[s].sent /\ rec.signed = session[s].signed
  BY <1>2, <1>4 DEF Overwrite, SessionType, JobType
<1>6. session' = [session EXCEPT ![s] = rec]
  BY <1>2, <1>3, <1>4 DEF RunSetAccount
<1>7. BooksOK(j, session[s], rec, "ok", Absent)
  BY <1>3, <1>5 DEF BooksOK
<1>8. "ok" \in Answers /\ Absent \in SessionType
  BY SessionTypes DEF Answers
<1> QED
  BY <1>1, <1>2, <1>3, <1>5, <1>6, <1>7, <1>8, WorksInTurn

LEMMA TransactionInTurn ==
  ASSUME IInv, Solo, SignersSend, NEW s \in Ids, RunTransaction(s), UNCHANGED served
  PROVE  Solo'
<1>1. PICK op \in {"advance", "simulate"} :
        /\ Front(s, op)
        /\ op = "advance" =>
             session' = IF Verdict(session[s], Head(jobs[s]).tx) = "ok"
                        THEN [session EXCEPT ![s] = Committed(session[s], Head(jobs[s]).tx)]
                        ELSE session
        /\ op = "simulate" => session' = session
  BY DEF RunTransaction
<1>2. /\ jobs[s] # <<>> /\ session \in [Ids -> SessionType] /\ session[s] \in SessionType
      /\ Head(jobs[s]) = jobs[s][1]
  BY <1>1, AtFront
<1>3. PICK j \in JobType : j = jobs[s][1] /\ j.op = op
  BY <1>1, AtFront
<1>4. j.tx \in TxType /\ Absent \in SessionType
  BY SessionTypes DEF JobType
<1>5. PICK st \in Answers : st = Verdict(session[s], j.tx)
  BY DEF Verdict, Answers
<1>6. Reply(s, st, Absent) /\ UNCHANGED <<call, client, served>>
  BY <1>2, <1>3, <1>5 DEF RunTransaction
<1>7. CASE op = "simulate" \/ st # "ok"
  <2>1. session' = session
    BY <1>1, <1>2, <1>3, <1>5, <1>7
  <2>2. op # "create" /\ op # "basic" /\ op # "branch"
    OBVIOUS
  <2> QED
    BY <1>1, <1>4, <1>6, <1>7, <2>1, <2>2, WorksQuietly
<1>8. CASE op = "advance" /\ st = "ok"
  <2>1. session[s].funds # 0 /\ j.tx.nonce = session[s].nonce
    BY <1>5, <1>8 DEF Verdict
  <2>2. PICK rec \in SessionType : rec = Committed(session[s], j.tx)
    BY <1>2, <1>4, <2>1, CommittedTypes
  <2>3. session' = [session EXCEPT ![s] = rec]
    BY <1>1, <1>2, <1>3, <1>5, <1>8, <2>2
  <2>4. BooksOK(j, session[s], rec, st, Absent)
    BY <1>3, <1>8, <2>1, <2>2 DEF BooksOK
  <2> QED
    BY <1>2, <1>3, <1>4, <1>6, <2>3, <2>4, WorksInTurn
<1> QED
  BY <1>7, <1>8

LEMMA WorkInTurn ==
  ASSUME IInv, Solo, SignersSend, NEW s \in Ids, Works(s)
  PROVE  Solo'
<1>1. Run(s) /\ UNCHANGED served
  BY DEF Works
<1>2. "ok" \in Answers /\ "unknown" \in Answers /\ "error" \in Answers /\ Absent \in SessionType
  BY SessionTypes DEF Answers
<1>3. CASE RunUnknown(s)
  <2>1. PICK op \in Reading \cup Direct \cup {"set_account"} : Front(s, op)
    BY <1>3 DEF RunUnknown
  <2>2. op # "create"
    BY DEF Reading, Direct
  <2>3. Reply(s, "unknown", Absent) /\ session' = session /\ UNCHANGED <<call, client, served>>
    BY <1>1, <1>3 DEF RunUnknown
  <2> QED
    BY <1>2, <2>1, <2>2, <2>3, WorksQuietly
<1>4. CASE RunDirect(s)
  <2>1. PICK op \in Direct : Front(s, op)
    BY <1>4 DEF RunDirect
  <2>2. op # "create" /\ op # "advance"
    BY DEF Direct
  <2>3. /\ Live(s) /\ Reply(s, "ok", session[s]) /\ session' = session
        /\ UNCHANGED <<call, client, served>>
    BY <1>1, <1>4 DEF RunDirect
  <2>4. PICK seen \in SessionType : seen = session[s]
    BY <2>1, AtFront
  <2> QED
    BY <1>2, <2>1, <2>2, <2>3, <2>4, WorksQuietly
<1>5. CASE RunRead(s)
  <2>1. Live(s) /\ session' = session /\ UNCHANGED <<call, client, served>>
    BY <1>1, <1>5 DEF RunRead
  <2>2. CASE Front(s, "basic") /\ Reply(s, "ok", session[s])
    <3>1. PICK seen \in SessionType : seen = session[s]
      BY <2>2, AtFront
    <3> QED
      BY <1>2, <2>1, <2>2, <3>1, WorksQuietly
  <2>3. CASE \E op \in {"read", "call"}, st \in Answers : Front(s, op) /\ Reply(s, st, Absent)
    <3>1. PICK op \in {"read", "call"}, st \in Answers : Front(s, op) /\ Reply(s, st, Absent)
      BY <2>3
    <3>2. op # "create" /\ op # "advance" /\ op # "basic" /\ op # "branch"
      OBVIOUS
    <3> QED
      BY <1>2, <2>1, <3>1, <3>2, WorksQuietly
  <2> QED
    BY <1>5, <2>2, <2>3 DEF RunRead, Answers
<1>6. CASE RunFails(s)
  <2>1. PICK op \in Reading : Front(s, op)
    BY <1>6 DEF RunFails
  <2>2. op # "create"
    BY DEF Reading
  <2>3. Reply(s, "error", Absent) /\ session' = session /\ UNCHANGED <<call, client, served>>
    BY <1>1, <1>6 DEF RunFails
  <2> QED
    BY <1>2, <2>1, <2>2, <2>3, WorksQuietly
<1> QED
  BY <1>1, <1>3, <1>4, <1>5, <1>6, CreateInTurn, DiscardRunInTurn, SetAccountInTurn,
     TransactionInTurn DEF Run

----------------------------------------------------------------------------
(* The other steps, and what else a turn rests on *)

\* A step that none of the requests is part of, and no session's books.
LEMMA SoloElsewhere ==
  ASSUME Solo, UNCHANGED <<jobs, reply, call, client, side>>,
         \A t : /\ SameBooks(session'[t], session[t])
                /\ session'[t].st # "none" => session[t].st # "none"
  PROVE  Solo'
<1>1. ASSUME NEW t \in Ids PROVE Alone(t)'
  <2>1. SameTurn(t) /\ Alone(t) /\ \A g \in Handlers : Onlooker(g, t)
    BY DEF SameTurn, SameBooks, Solo, Onlooker
  <2> QED
    BY <2>1, TurnKept
<1>2. ASSUME NEW g \in Handlers PROVE ChildOK(g)'
  <2>1. /\ ChildOK(g) /\ call'[g] = call[g] /\ reply'[g] = reply[g]
        /\ \A t : client'[t].shared \/ (~client[t].shared /\ side'[t] = side[t])
    BY DEF Solo
  <2> QED
    BY <2>1, ChildKept DEF SameBooks
<1> QED
  BY <1>1, <1>2 DEF Solo

LEMMA ExpireInTurn ==
  ASSUME IInv, Solo, NEW s \in Ids, Expire(s), UNCHANGED served
  PROVE  Solo'
<1>1. session \in [Ids -> SessionType]
  BY DEF IInv, Linked, TypeOK, ManagerTypeOK
<1> DEFINE rec == [session[s] EXCEPT !.st = IF session[s].st = "live" THEN "gone" ELSE session[s].st]
<1>2. session' = [session EXCEPT ![s] = rec] /\ session[s].st = "live"
  BY DEF Expire, Gone, Live
<1>3. SameBooks(rec, session[s])
  BY <1>1 DEF SessionType, SameBooks
<1> HIDE DEF rec
<1>4. ASSUME NEW t
      PROVE  /\ SameBooks(session'[t], session[t])
             /\ session'[t].st # "none" => session[t].st # "none"
  <2>1. CASE t = s
    BY <1>1, <1>2, <1>3, <2>1
  <2>2. CASE t # s
    <3>1. session'[t] = session[t]
      BY <1>1, <1>2, <2>2
    <3> QED
      BY <3>1 DEF SameBooks
  <2> QED
    BY <2>1, <2>2
<1>5. UNCHANGED <<jobs, reply, call, client, side>>
  BY DEF Expire, served
<1> QED
  BY <1>4, <1>5, SoloElsewhere

LEMMA SoloBlank == AllBlank => Solo
<1> SUFFICES ASSUME AllBlank PROVE Solo
  OBVIOUS
<1>1. ASSUME NEW s \in Ids PROVE Alone(s)
  BY ClientTypes DEF AllBlank, Alone
<1>2. ASSUME NEW h \in Handlers PROVE ChildOK(h)
  BY CallTypes DEF AllBlank, ChildOK
<1> QED
  BY <1>1, <1>2 DEF Solo

\* A handler's call is of its request, whatever it awaits next of it.
LEMMA SignersBy ==
  ASSUME IInv, SignersSend, NEW h \in Handlers, NEW c, call' = [call EXCEPT ![h] = c],
         c.tx.signed => c.m \in Sends
  PROVE  SignersSend'
<1>1. call \in [Handlers -> CallType]
  BY DEF IInv, Linked, TypeOK, ManagerTypeOK
<1>2. call'[h] = c /\ \A g \in Handlers : g # h => call'[g] = call[g]
  BY <1>1
<1> QED
  BY <1>2 DEF SignersSend

LEMMA SignersIdle ==
  ASSUME IInv, SignersSend, NEW h \in Handlers, call' = [call EXCEPT ![h] = Idle]
  PROVE  SignersSend'
<1>1. ~Idle.tx.signed
  BY TxTypes DEF Idle
<1> QED
  BY <1>1, SignersBy

LEMMA SignersBegin ==
  ASSUME IInv, SignersSend, NEW h \in Handlers, NEW by, NEW m, NEW s, NEW tx, NEW n, NEW op,
         Begin(h, by, m, s, tx, n, op), tx.signed => m \in Sends
  PROVE  SignersSend'
<1> DEFINE c == [by |-> by, m |-> m, pc |-> op, s |-> s, tx |-> tx,
                 n |-> n, new |-> NoId, floor |-> client[s].block]
<1>1. call' = [call EXCEPT ![h] = c] /\ c.tx = tx /\ c.m = m
  BY DEF Begin
<1> HIDE DEF c
<1> QED
  BY <1>1, SignersBy

LEMMA SignersOpen ==
  ASSUME IInv, SignersSend, NEW h \in Handlers, NEW by, NEW rec, Opens(h, by, rec)
  PROVE  SignersSend'
<1> DEFINE c == [Idle EXCEPT !.by = by, !.m = "open", !.pc = "create", !.new = nextId]
<1>1. call' = [call EXCEPT ![h] = c] /\ ~c.tx.signed
  BY TxTypes DEF Opens, Idle
<1> HIDE DEF c
<1> QED
  BY <1>1, SignersBy

LEMMA SignersRequest ==
  ASSUME IInv, SignersSend, NEW h \in Handlers, HttpRequest(h) \/ McpRequest(h)
  PROVE  SignersSend'
<1>1. ASSUME NEW by, NEW m, NEW s, NEW op, Asks(h, by, m, s, op) PROVE SignersSend'
  BY <1>1, TxTypes, SignersBegin DEF Asks
<1>2. ASSUME NEW by, SetsBalance(h, by) PROVE SignersSend'
  BY <1>2, TxTypes, SignersBegin DEF SetsBalance
<1>3. CASE HttpRequest(h)
  <2>1. CASE OpenAtTip(h) \/ OpenAtBlock(h) \/ OpenSnapshot(h)
    BY <2>1, SignersOpen DEF OpenAtTip, OpenAtBlock, OpenSnapshot
  <2>2. CASE \/ EthGetBalance(h) \/ EthGetTransactionCount(h) \/ EthGetStorageAt(h) \/ EthGetCode(h)
             \/ EthCall(h) \/ ForkyardSetStorageAt(h) \/ EthEstimateGas(h)
    BY <1>1, <2>2 DEF EthGetBalance, EthGetTransactionCount, EthGetStorageAt, EthGetCode, EthCall,
                      ForkyardSetStorageAt, EthEstimateGas
  <2>3. CASE ForkyardSnapshot(h) \/ EthGasPrice(h) \/ ForkyardForkFrom(h) \/ ForkyardDiscard(h)
    BY <1>1, <2>3 DEF ForkyardSnapshot, EthGasPrice, ForkyardForkFrom, ForkyardDiscard
  <2>4. CASE ForkyardSetBalance(h)
    BY <1>2, <2>4 DEF ForkyardSetBalance
  <2>5. CASE EthBlockNumber(h)
    BY <2>5, TxTypes, SignersBegin DEF EthBlockNumber
  <2>6. CASE EthSendRawTransaction(h)
    BY <2>6, SignersBegin DEF EthSendRawTransaction, Sends
  <2> QED
    BY <1>3, <2>1, <2>2, <2>3, <2>4, <2>5, <2>6 DEF HttpRequest
<1>4. CASE McpRequest(h)
  <2>1. CASE McpFork(h) \/ McpResume(h)
    BY <2>1, SignersOpen DEF McpFork, McpResume
  <2>2. CASE GetBalance(h) \/ GetStorage(h) \/ GetCode(h) \/ SetStorage(h) \/ Snapshot(h) \/ Discard(h)
    BY <1>1, <2>2 DEF GetBalance, GetStorage, GetCode, SetStorage, Snapshot, Discard
  <2>3. CASE SetBalance(h)
    BY <1>2, <2>3 DEF SetBalance
  <2>4. CASE TransferAtPrice(h)
    <3>1. \A tx \in Unsigned : ~tx.signed
      BY DEF Unsigned
    <3> QED
      BY <2>4, <3>1, SignersBegin DEF TransferAtPrice
  <2>5. CASE TransferAtBasefee(h)
    <3>1. \A n : ~[NoTx EXCEPT !.nonce = n].signed
      BY DEF NoTx
    <3> QED
      BY <2>5, <3>1, SignersBegin DEF TransferAtBasefee
  <2> QED
    BY <1>4, <2>1, <2>2, <2>3, <2>4, <2>5 DEF McpRequest
<1> QED
  BY <1>3, <1>4

LEMMA SignersContinue ==
  ASSUME IInv, SignersSend, NEW h \in Handlers, Continue(h)
  PROVE  SignersSend'
<1>1. call \in [Handlers -> CallType] /\ call[h] \in CallType /\ CallOK(h)
      /\ (call[h].tx.signed => call[h].m \in Sends)
  BY DEF IInv, Linked, TypeOK, ManagerTypeOK, SignersSend
<1>2. CASE call' = [call EXCEPT ![h] = Idle]
  BY <1>2, SignersIdle
<1>3. ASSUME NEW pc, Await(h, pc) PROVE SignersSend'
  <2> DEFINE c == [call[h] EXCEPT !.pc = pc]
  <2>1. call' = [call EXCEPT ![h] = c] /\ (c.tx.signed => c.m \in Sends)
    BY <1>1, <1>3 DEF Await, CallType
  <2> HIDE DEF c
  <2> QED
    BY <2>1, SignersBy
<1>4. CASE ForkFromBranched(h)
  <2> DEFINE c == [call[h] EXCEPT !.pc = "create", !.new = nextId]
  <2>1. call' = [call EXCEPT ![h] = c] \/ call' = [call EXCEPT ![h] = Idle]
    BY <1>4 DEF ForkFromBranched, Done, Return
  <2>2. c.tx.signed => c.m \in Sends
    BY <1>1 DEF CallType
  <2> HIDE DEF c
  <2> QED
    BY <1>2, <2>1, <2>2, SignersBy
<1>5. CASE TransferPriced(h)
  <2> DEFINE tx == PricedAt(h, BasefeeOf(h))
             c == [call[h] EXCEPT !.pc = call[h].m, !.tx = tx]
  <2>1. call' = [call EXCEPT ![h] = c] \/ call' = [call EXCEPT ![h] = Idle]
    BY <1>5 DEF TransferPriced, Done, Return
  <2>2. call[h].by = "mcp"
    BY <1>5 DEF TransferPriced, At
  <2>3. ~call[h].tx.signed /\ call[h].tx \in TxType
    BY <1>1, <2>2 DEF CallOK, CallType
  <2>4. ~tx.signed
    BY <2>3 DEF PricedAt, TxType, Signed
  <2> HIDE DEF tx
  <2>5. ~c.tx.signed
    BY <1>1, <2>4 DEF CallType
  <2> HIDE DEF c
  <2> QED
    BY <1>2, <2>1, <2>5, SignersBy
<1>6. CASE TransferRun(h)
  <2> DEFINE c == [call[h] EXCEPT !.pc = "env", !.n = 1]
  <2>1. call' = [call EXCEPT ![h] = c] \/ call' = [call EXCEPT ![h] = Idle]
    BY <1>6 DEF TransferRun, Done, Return
  <2>2. c.tx.signed => c.m \in Sends
    BY <1>1 DEF CallType
  <2> HIDE DEF c
  <2> QED
    BY <1>2, <2>1, <2>2, SignersBy
<1>7. CASE EstimateAtNonce(h) \/ SendAdvanced(h)
  BY <1>2, <1>3, <1>7 DEF EstimateAtNonce, SendAdvanced, Done, Return
<1>8. CASE SetBalanceRead(h) \/ McpBalanceRead(h)
  BY <1>2, <1>3, <1>8 DEF SetBalanceRead, McpBalanceRead, WritesBack, Done, Return
<1>9. CASE HttpRecorded(h) \/ Opened(h, "http") \/ Opened(h, "mcp")
  BY <1>2, <1>9 DEF HttpRecorded, SendRecorded, ForkFromAdopted, DiscardAnswered, Opened, Return
<1>10. CASE OneJobAnswered(h) \/ EstimateAnswered(h) \/ SetBalanceWritten(h)
            \/ ToolAnswered(h) \/ McpBalanceWritten(h) \/ McpDiscarded(h) \/ FeeExplained(h)
  BY <1>2, <1>10 DEF OneJobAnswered, PassedOn, EstimateAnswered, SetBalanceWritten, BalanceSet,
     ToolAnswered, McpBalanceWritten, McpDiscarded, FeeExplained, Done, Return
<1>11. CASE SnapshotStored(h) \/ McpSnapshotStored(h) \/ BlockNumberAnswered(h) \/ GasPriceAnswered(h)
  BY <1>2, <1>11 DEF SnapshotStored, McpSnapshotStored, Snapshotted, BlockNumberAnswered,
     GasPriceAnswered, Return
<1> QED
  BY <1>4, <1>5, <1>6, <1>7, <1>8, <1>9, <1>10, <1>11 DEF Continue, HttpAnswered, McpAnswered

LEMMA SignersStep ==
  ASSUME IInv, SignersSend, [Next]_vars
  PROVE  SignersSend'
<1>1. CASE call' = call
  BY <1>1 DEF SignersSend
<1>2. ASSUME NEW h \in Handlers, Request(h) \/ Continue(h) \/ Hangs(h) PROVE SignersSend'
  <2>1. CASE Request(h)
    BY <2>1, SignersRequest DEF Request
  <2>2. CASE Continue(h)
    BY <2>2, SignersContinue
  <2>3. CASE Hangs(h)
    BY <2>3, SignersIdle DEF Hangs, Dropped
  <2> QED
    BY <1>2, <2>1, <2>2, <2>3
<1>3. ASSUME NEW s \in Ids, Works(s) \/ Expire(s) PROVE call' = call
  <2>1. CASE Expire(s)
    BY <2>1 DEF Expire
  <2>2. CASE Run(s)
    BY <2>2 DEF Run, RunCreate, RunUnknown, RunDiscard, RunDirect, RunRead, RunSetAccount,
       RunTransaction, RunFails
  <2> QED
    BY <1>3, <2>1, <2>2 DEF Works
<1>4. CASE Exit
  <2>1. \A h \in Handlers : call'[h] = Idle /\ ~Idle.tx.signed
    BY <1>4, TxTypes DEF Exit, Idle
  <2> QED
    BY <2>1 DEF SignersSend
<1>5. CASE Follows \/ Signal \/ HttpShutdown \/ UNCHANGED vars
  BY <1>1, <1>5 DEF Follows, Refresh, Signal, HttpShutdown, vars
<1> QED
  BY <1>1, <1>2, <1>3, <1>4, <1>5 DEF Next

\* What the store is given of a session has no transaction behind it.
LEMMA KeptAfreshStep ==
  ASSUME IInv, KeptAfresh, [Next]_vars
  PROVE  KeptAfresh'
<1>1. CASE saved' = saved
  BY <1>1 DEF KeptAfresh
<1>2. ASSUME NEW h \in Handlers, NEW by, Snapshotted(h, by) PROVE KeptAfresh'
  <2>1. Seen(h) \in SessionType
    BY <1>2, Read DEF Snapshotted
  <2>2. Agrees(Restored(Seen(h)), NoEntry)
    BY <2>1, ChainAfresh
  <2> QED
    BY <1>2, <2>2 DEF Snapshotted, KeptAfresh
<1>3. ASSUME NEW h \in Handlers, Request(h) PROVE saved' = saved
  <2>1. ASSUME NEW by, NEW rec, Opens(h, by, rec) PROVE saved' = saved
    BY <2>1 DEF Opens, Register, Post
  <2>2. ASSUME NEW by, NEW m, NEW s, NEW op, Asks(h, by, m, s, op) PROVE saved' = saved
    BY <2>2 DEF Asks, Ask, Post
  <2>3. CASE OpenAtTip(h) \/ OpenAtBlock(h) \/ OpenSnapshot(h) \/ McpFork(h) \/ McpResume(h)
    BY <2>1, <2>3 DEF OpenAtTip, OpenAtBlock, OpenSnapshot, McpFork, McpResume
  <2>4. CASE \/ EthGetBalance(h) \/ EthGetTransactionCount(h) \/ EthGetStorageAt(h) \/ EthGetCode(h)
             \/ EthCall(h) \/ ForkyardSetStorageAt(h) \/ EthEstimateGas(h)
    BY <2>2, <2>4 DEF EthGetBalance, EthGetTransactionCount, EthGetStorageAt, EthGetCode, EthCall,
                      ForkyardSetStorageAt, EthEstimateGas
  <2>5. CASE ForkyardSnapshot(h) \/ EthGasPrice(h) \/ ForkyardForkFrom(h) \/ ForkyardDiscard(h)
    BY <2>2, <2>5 DEF ForkyardSnapshot, EthGasPrice, ForkyardForkFrom, ForkyardDiscard
  <2>6. CASE GetBalance(h) \/ GetStorage(h) \/ GetCode(h) \/ SetStorage(h) \/ Snapshot(h) \/ Discard(h)
    BY <2>2, <2>6 DEF GetBalance, GetStorage, GetCode, SetStorage, Snapshot, Discard
  <2>7. CASE ForkyardSetBalance(h) \/ SetBalance(h) \/ EthBlockNumber(h)
    BY <2>7 DEF ForkyardSetBalance, SetBalance, SetsBalance, EthBlockNumber, Ask, Post
  <2>8. CASE EthSendRawTransaction(h) \/ TransferAtPrice(h) \/ TransferAtBasefee(h)
    BY <2>8 DEF EthSendRawTransaction, TransferAtPrice, TransferAtBasefee, Execute, Ask, Post
  <2> QED
    BY <1>3, <2>3, <2>4, <2>5, <2>6, <2>7, <2>8 DEF Request, HttpRequest, McpRequest
<1>4. ASSUME NEW h \in Handlers, Continue(h) PROVE KeptAfresh'
  <2>1. CASE SnapshotStored(h) \/ McpSnapshotStored(h)
    BY <1>2, <2>1 DEF SnapshotStored, McpSnapshotStored
  <2>2. CASE \/ HttpRecorded(h) \/ Opened(h, "http") \/ Opened(h, "mcp")
             \/ BlockNumberAnswered(h) \/ GasPriceAnswered(h)
    BY <1>1, <2>2 DEF HttpRecorded, SendRecorded, ForkFromAdopted, DiscardAnswered, Opened,
       BlockNumberAnswered, GasPriceAnswered
  <2>3. CASE OneJobAnswered(h) \/ EstimateAnswered(h) \/ SetBalanceWritten(h)
             \/ ToolAnswered(h) \/ McpBalanceWritten(h) \/ McpDiscarded(h) \/ FeeExplained(h)
    BY <1>1, <2>3 DEF OneJobAnswered, PassedOn, EstimateAnswered, SetBalanceWritten, BalanceSet,
       ToolAnswered, McpBalanceWritten, McpDiscarded, FeeExplained, Done
  <2>4. CASE EstimateAtNonce(h) \/ SendAdvanced(h) \/ ForkFromBranched(h)
    BY <1>1, <2>4 DEF EstimateAtNonce, SendAdvanced, ForkFromBranched, Done, Ask, Register, Post
  <2>5. CASE SetBalanceRead(h) \/ McpBalanceRead(h)
    BY <1>1, <2>5 DEF SetBalanceRead, McpBalanceRead, WritesBack, SetAccount, Done, Post
  <2>6. CASE TransferPriced(h) \/ TransferRun(h)
    BY <1>1, <2>6 DEF TransferPriced, TransferRun, Execute, Ask, Done, Post
  <2> QED
    BY <1>4, <2>1, <2>2, <2>3, <2>4, <2>5, <2>6 DEF Continue, HttpAnswered, McpAnswered
<1>5. ASSUME NEW h \in Handlers, Hangs(h) PROVE saved' = saved
  BY <1>5 DEF Hangs, Dropped
<1>6. ASSUME NEW s \in Ids, Works(s) \/ Expire(s) PROVE saved' = saved
  <2>1. CASE Expire(s)
    BY <2>1 DEF Expire
  <2>2. CASE Run(s)
    BY <2>2 DEF Run, RunCreate, RunUnknown, RunDiscard, RunDirect, RunRead, RunSetAccount,
       RunTransaction, RunFails
  <2> QED
    BY <1>6, <2>1, <2>2 DEF Works
<1>7. CASE Follows \/ Signal \/ HttpShutdown \/ Exit \/ UNCHANGED vars
  BY <1>1, <1>7 DEF Follows, Refresh, Signal, HttpShutdown, Exit, vars
<1> QED
  BY <1>1, <1>3, <1>4, <1>5, <1>6, <1>7 DEF Next

\* The turns, with what else they rest on.
Turns == Solo /\ SignersSend /\ KeptAfresh

LEMMA TurnsInit == Init => Turns
<1> SUFFICES ASSUME Init PROVE Turns
  OBVIOUS
<1>1. faults \in 0 .. MaxFaults /\ calls \in 0 .. MaxCalls
  BY ManagerAssumption DEF Init, ManagerInit
<1>2. AllBlank
  BY <1>1, BlockTypes DEF AllBlank, Init, ManagerInit, HttpInit
<1>3. \A h \in Handlers : ~call[h].tx.signed
  BY TxTypes DEF Init, ManagerInit, Idle
<1>4. saved = {}
  BY DEF Init, ManagerInit
<1> QED
  BY <1>2, <1>3, <1>4, SoloBlank DEF Turns, SignersSend, KeptAfresh

LEMMA ExitInTurn == IInv /\ Exit => Solo'
  BY ExitBlank, SoloBlank, PTL

LEMMA TurnsStep == IInv /\ Turns /\ [Next]_vars => Turns'
<1> SUFFICES ASSUME IInv, Turns, [Next]_vars PROVE Turns'
  OBVIOUS
<1>1. Solo /\ SignersSend /\ KeptAfresh
  BY DEF Turns
<1>2. SignersSend' /\ KeptAfresh'
  BY <1>1, SignersStep, KeptAfreshStep
<1>3. ASSUME NEW h \in Handlers, Request(h) PROVE Solo'
  <2>1. UNCHANGED served
    BY <1>3 DEF Request
  <2> QED
    BY <1>1, <1>3, <2>1, HttpRequestInTurn, McpRequestInTurn DEF Request
<1>4. ASSUME NEW h \in Handlers, Continue(h) PROVE Solo'
  BY <1>1, <1>4, ContinueInTurn
<1>5. ASSUME NEW h \in Handlers, Hangs(h) PROVE Solo'
  BY <1>1, <1>5, DroppedInTurn DEF Hangs
<1>6. ASSUME NEW s \in Ids, Works(s) PROVE Solo'
  BY <1>1, <1>6, WorkInTurn
<1>7. ASSUME NEW s \in Ids, Expire(s), UNCHANGED served PROVE Solo'
  BY <1>1, <1>7, ExpireInTurn
<1>8. ASSUME Follows \/ Signal \/ HttpShutdown \/ UNCHANGED vars PROVE Solo'
  <2>1. UNCHANGED <<session, jobs, reply, call, client, side>>
    BY <1>8 DEF Follows, Refresh, Signal, HttpShutdown, vars, served
  <2> QED
    BY <1>1, <2>1, SoloElsewhere DEF SameBooks
<1>9. ASSUME Exit PROVE Solo'
  BY <1>9, ExitInTurn
<1>10. Solo'
  BY <1>3, <1>4, <1>5, <1>6, <1>7, <1>8, <1>9 DEF Next
<1> QED
  BY <1>2, <1>10 DEF Turns

\* A client that waits for each answer before it asks the next thing finds what
\* it did and nothing else: the nonce counts its transactions, and the table
\* counts and has receipts of those it signed (api-http lib.rs 371, 399, 469).
THEOREM OneByOne == Spec => []OneAtATime
<1>1. Spec => []Turns
  <2>1. IInv /\ Turns /\ [Next]_vars => Turns'
    BY TurnsStep
  <2> QED
    BY <2>1, TurnsInit, Invariant, PTL DEF Spec
<1>2. IInv /\ Turns => OneAtATime
  <2> SUFFICES ASSUME IInv, Turns, NEW s \in Ids,
                      client[s].known, ~client[s].shared, Live(s), On(s) = {}
               PROVE  /\ session[s].nonce = session[s].from + session[s].sent
                      /\ side[s].count = Cardinality(session[s].signed)
                      /\ session[s].signed = Receipts(s)
    BY DEF OneAtATime
  <2>1. Alone(s) /\ EntryOK(s)
    BY DEF Turns, Solo, IInv
  <2>2. Books(s)
    BY <2>1 DEF Alone, EntryOK, Live
  <2>3. Due(s) = {}
    BY DEF Due, Unrecorded, On
  <2> QED
    BY <2>2, <2>3 DEF Books, Sound
<1> QED
  BY <1>1, <1>2, Invariant, PTL
=============================================================================
