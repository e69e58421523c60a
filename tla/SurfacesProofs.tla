--------------------------- MODULE SurfacesProofs ----------------------------
(***************************************************************************)
(* What holds of the surfaces for any number of handlers, sessions, blocks *)
(* and faults.  The inductive invariant says of each handler what job it   *)
(* awaits and what an answer it has not read yet still tells of its        *)
(* session, of each job whose it is, and of each id how its session, its   *)
(* entry and what clients were told of it hang together.                   *)
(***************************************************************************)
EXTENDS Surfaces, TLAPS

Sends == {"send", "send_sync"}
\* The id a handler's job was posted to.
Target(h) == IF call[h].pc = "create" THEN call[h].new ELSE call[h].s
Answered(h) == reply[h].st \notin {"none", "waiting"}

\* Of a request under way: its session is known to clients, an id it is opening
\* is not; only HTTP signs.
CallOK(h) ==
  LET c == call[h] IN
  /\ c.pc = "idle" => c = Idle
  /\ c.m = "open" => c.pc = "create" /\ c.s = NoId
  /\ c.pc # "idle" /\ c.m # "open" =>
       c.s \in Ids /\ client[c.s].known /\ c.floor <= client[c.s].block
  /\ c.pc = "create" => c.new < nextId /\ ~client[c.new].known
  /\ c.by = "mcp" => ~c.tx.signed
  /\ c.m \in Sends => c.tx \in Signed
  /\ c.m = "fork_from" /\ c.pc = "create" /\ session[c.new].st # "none" =>
       session[c.new].block = session[c.s].block

OpensApart ==
  \A g, h \in Handlers :
    call[g].pc = "create" /\ call[h].pc = "create" /\ call[g].new = call[h].new => g = h

\* An id that is being opened has no job but the one that opens it.
OpensAwaited ==
  \A h \in Handlers : call[h].pc = "create" =>
    \A i \in 1 .. Len(jobs[call[h].new]) : jobs[call[h].new][i].h = h

\* Of a job: its handler awaits it; an id's first job is its only one until a
\* session is opened.
JobOK(s, i) ==
  LET j == jobs[s][i] IN
  /\ j.op = "create" => Len(jobs[s]) = 1 /\ session[s].st = "none" /\ j.payload.st = "live"
  /\ j.op # "create" => client[s].known
  /\ j.h # NoHandler =>
       /\ call[j.h].pc = j.op /\ Target(j.h) = s /\ reply[j.h].st = "waiting"
       /\ j.op \in {"advance", "simulate"} => call[j.h].tx = j.tx
       /\ j.op = "create" /\ call[j.h].m = "fork_from" =>
            j.payload.block = session[call[j.h].s].block

JobsOK ==
  \A s \in Ids : \A i \in 1 .. Len(jobs[s]) :
    /\ JobOK(s, i)
    /\ \A k \in 1 .. Len(jobs[s]) :
         jobs[s][i].h # NoHandler /\ jobs[s][k].h = jobs[s][i].h => k = i

\* Of an answer: what it says of the session stays true of it.
AnswerOK(h) ==
  LET c == call[h] IN
  Answered(h) =>
    /\ c.pc = "create" => session[c.new].st # "none"
    /\ c.pc \in {"env", "branch"} /\ Ok(h) => Seen(h).block = session[c.s].block
    /\ c.pc = "env" /\ ~Ok(h) => session[c.s].st = "gone"
    /\ c.pc = "branch" /\ Ok(h) => Seen(h).st = "live"
    /\ c.pc = "advance" /\ c.m \in Sends /\ Ok(h) => c.tx \in session[c.s].signed
    /\ c.pc = "discard" => session[c.s].st = "gone"

IdOK(s) ==
  /\ nextId <= s => jobs[s] = <<>> /\ session[s].st = "none"
  /\ session[s].st = "none" => ~client[s].known /\ session[s].signed = {}
  /\ ~client[s].known => client[s] = Stranger /\ side[s] = NoEntry

Linked ==
  /\ TypeOK
  /\ \A h \in Handlers : CallOK(h) /\ AnswerOK(h)
  /\ OpensApart /\ OpensAwaited
  /\ JobsOK
  /\ \A s \in Ids : IdOK(s)
  /\ \A rec \in saved : rec.st = "live"

----------------------------------------------------------------------------
Numbered(s) ==
  /\ \A tx \in Receipts(s) : side[s].receipts[tx] - session[s].block \in 1 .. side[s].count
  /\ \A tx, ux \in Receipts(s) : tx # ux => side[s].receipts[tx] # side[s].receipts[ux]

EntryOK(s) ==
  /\ ~side[s].present => side[s] = NoEntry
  /\ Live(s) /\ client[s].kept => Numbered(s)
  /\ client[s].removed => session[s].st = "gone"
  /\ client[s].removed /\ ~client[s].late => ~side[s].present /\ Unrecorded(s) = {}
  /\ client[s].known /\ ~client[s].removed =>
       client[s].block <= session[s].block + side[s].count
  /\ Live(s) => \A p \in client[s].prices : BaseFee[session[s].block] <= p

SendOK(h) ==
  LET c == call[h] IN
  /\ c.m \in Sends /\ c.pc = "env" => c.tx \in session[c.s].signed
  /\ c.m = "block_number" /\ c.pc = "env" =>
       /\ ~client[c.s].removed => c.n <= side[c.s].count
       /\ Live(c.s) \/ Ok(h) => c.floor <= session[c.s].block + c.n

IInv ==
  /\ Linked
  /\ \A s \in Ids : EntryOK(s)
  /\ \A h \in Handlers : SendOK(h)
  /\ ReceiptsOfSends

----------------------------------------------------------------------------
(* Values *)

LEMMA IdTypes ==
  /\ Ids \subseteq Nat /\ NoId \notin Ids /\ NoId \in Nat
  /\ \A n \in Nat : n < MaxSessions => n \in Ids
  /\ \A s \in Ids : s < MaxSessions
  BY ManagerAssumption DEF Ids, NoId

LEMMA TxTypes ==
  /\ NoTx \in TxType /\ ~NoTx.signed
  /\ Signed \subseteq TxType /\ Unsigned \subseteq TxType
  /\ \A tx \in TxType :
       /\ tx.signed \in BOOLEAN /\ tx.nonce \in Nat /\ tx.price \in Nat
       /\ tx.signed <=> tx \in Signed
       /\ ~tx.signed => \A p \in Nat : [tx EXCEPT !.price = p] \in TxType
  BY ManagerAssumption DEF TxType, NoTx, Signed, Unsigned

LEMMA BlockTypes ==
  /\ Blocks \subseteq Nat \ {0} /\ Start \in Blocks /\ 1 \in Blocks
  /\ \A b \in Blocks : BaseFee[b] \in Nat
  BY ManagerAssumption DEF Blocks

LEMMA SessionTypes ==
  /\ Absent \in SessionType /\ Absent.st = "none" /\ Absent.signed = {}
  /\ \A b \in Blocks : Forked(b) \in SessionType /\ Forked(b).st = "live"
  /\ \A rec \in SessionType : Restored(rec) \in SessionType /\ Restored(rec).st = "live"
  BY ManagerAssumption, BlockTypes
  DEF SessionType, Absent, Forked, Restored, NewSession

LEMMA ReplyTypes ==
  /\ NoReply \in ReplyType /\ NoReply.st = "none"
  /\ Waiting \in ReplyType /\ Waiting.st = "waiting"
  BY SessionTypes DEF ReplyType, NoReply, Waiting, Answers

LEMMA CallTypes ==
  /\ Idle \in CallType
  /\ Idle.by = "none" /\ Idle.m = "none" /\ Idle.pc = "idle"
  BY IdTypes, TxTypes DEF CallType, Idle, Methods

LEMMA ClientTypes ==
  /\ Stranger \in ClientType
  /\ ~Stranger.known /\ ~Stranger.removed /\ Stranger.block = 0
  /\ Stranger.prices = {} /\ Stranger.sent = {}
  BY DEF ClientType, Stranger

LEMMA EntryTypes ==
  /\ NoEntry \in EntryType /\ ~NoEntry.present /\ NoEntry.count = 0
  /\ \A tx \in Signed : NoEntry.receipts[tx] = NoReceipt
  BY DEF EntryType, NoEntry, NoReceipt

LEMMA JobTypes ==
  ASSUME NEW h \in Handlers, NEW op \in Ops, NEW tx \in TxType, NEW rec \in SessionType
  PROVE  Job(h, op, tx, rec) \in JobType
  BY DEF Job, JobType

LEMMA Appended ==
  ASSUME NEW q \in Seq(JobType), NEW j \in JobType
  PROVE  /\ Append(q, j) \in Seq(JobType)
         /\ Len(Append(q, j)) = Len(q) + 1
         /\ \A i \in 1 .. Len(q) : Append(q, j)[i] = q[i]
         /\ Append(q, j)[Len(q) + 1] = j
  OBVIOUS

LEMMA Popped ==
  ASSUME NEW q \in Seq(JobType), q # <<>>
  PROVE  /\ Len(q) \in Nat /\ Len(q) >= 1
         /\ Head(q) = q[1] /\ q[1] \in JobType
         /\ Tail(q) \in Seq(JobType) /\ Len(Tail(q)) = Len(q) - 1
         /\ \A i \in 1 .. Len(q) - 1 : Tail(q)[i] = q[i + 1]
  OBVIOUS

----------------------------------------------------------------------------
(* What posting a job, reading an answer and answering do to the channels *)

Typed == /\ jobs \in [Ids -> Seq(JobType)] /\ reply \in [Handlers -> ReplyType]

LEMMA Posted ==
  ASSUME Typed, NEW h \in Handlers, NEW s \in Ids, NEW job \in JobType, Post(h, s, job)
  PROVE  /\ Typed'
         /\ Len(jobs[s]) \in Nat /\ Len(jobs'[s]) = Len(jobs[s]) + 1
         /\ \A i \in 1 .. Len(jobs[s]) : jobs'[s][i] = jobs[s][i]
         /\ jobs'[s][Len(jobs[s]) + 1] = job
         /\ \A t \in Ids : t # s => jobs'[t] = jobs[t]
         /\ reply'[h] = Waiting
         /\ \A g \in Handlers : g # h => reply'[g] = reply[g]
<1>1. jobs' = [jobs EXCEPT ![s] = Append(jobs[s], job)]
  BY DEF Post
<1>2. jobs'[s] = Append(jobs[s], job) /\ \A t \in Ids : t # s => jobs'[t] = jobs[t]
  BY <1>1 DEF Typed
<1>3. jobs' \in [Ids -> Seq(JobType)]
  BY <1>1, Appended DEF Typed
<1>4. reply' = [reply EXCEPT ![h] = Waiting]
  BY DEF Post
<1>5. /\ reply' \in [Handlers -> ReplyType] /\ reply'[h] = Waiting
      /\ \A g \in Handlers : g # h => reply'[g] = reply[g]
  BY <1>4, ReplyTypes DEF Typed
<1> QED
  BY <1>2, <1>3, <1>5, Appended DEF Typed

\* A job whose handler no longer waits for it.
Hung(job, h) == IF job.h = h THEN [job EXCEPT !.h = NoHandler] ELSE job

LEMMA HungType ==
  ASSUME NEW job \in JobType, NEW h \in Handlers
  PROVE  /\ Hung(job, h) \in JobType
         /\ Hung(job, h).op = job.op /\ Hung(job, h).payload = job.payload
         /\ Hung(job, h).tx = job.tx
         /\ Hung(job, h).h = IF job.h = h THEN NoHandler ELSE job.h
  BY DEF Hung, JobType

LEMMA HungUp ==
  ASSUME Typed, NEW h \in Handlers,
         /\ reply' = [reply EXCEPT ![h] = NoReply]
         /\ jobs' = [s \in Ids |-> [i \in DOMAIN jobs[s] |->
                IF jobs[s][i].h = h THEN [jobs[s][i] EXCEPT !.h = NoHandler] ELSE jobs[s][i]]]
  PROVE  /\ Typed'
         /\ \A s \in Ids : /\ Len(jobs[s]) \in Nat /\ Len(jobs'[s]) = Len(jobs[s])
                           /\ \A i \in 1 .. Len(jobs[s]) : /\ jobs[s][i] \in JobType
                                                           /\ jobs'[s][i] = Hung(jobs[s][i], h)
                           /\ jobs[s] = <<>> => jobs'[s] = <<>>
         /\ reply'[h] = NoReply
         /\ \A g \in Handlers : g # h => reply'[g] = reply[g]
<1>1. /\ reply' \in [Handlers -> ReplyType] /\ reply'[h] = NoReply
      /\ \A g \in Handlers : g # h => reply'[g] = reply[g]
  BY ReplyTypes DEF Typed
<1>2. ASSUME NEW s \in Ids
      PROVE  /\ jobs'[s] \in Seq(JobType)
             /\ Len(jobs[s]) \in Nat /\ Len(jobs'[s]) = Len(jobs[s])
             /\ \A i \in 1 .. Len(jobs[s]) : /\ jobs[s][i] \in JobType
                                             /\ jobs'[s][i] = Hung(jobs[s][i], h)
             /\ jobs[s] = <<>> => jobs'[s] = <<>>
  <2> DEFINE n == Len(jobs[s])
             q == [i \in 1 .. n |-> Hung(jobs[s][i], h)]
  <2>1. jobs[s] \in Seq(JobType) /\ n \in Nat /\ DOMAIN jobs[s] = 1 .. n
    BY DEF Typed
  <2>2. jobs'[s] = q
    BY <2>1 DEF Hung
  <2>3. \A i \in 1 .. n : jobs[s][i] \in JobType
    BY <2>1
  <2>4. q \in [1 .. n -> JobType]
    BY <2>3, HungType
  <2>5. q \in Seq(JobType) /\ Len(q) = n
    BY <2>1, <2>4
  <2>6. \A i \in 1 .. n : q[i] = Hung(jobs[s][i], h)
    OBVIOUS
  <2>7. ASSUME jobs[s] = <<>> PROVE q = <<>>
    <3>1. n = 0
      BY <2>7
    <3> QED
      BY <2>5, <3>1
  <2> HIDE DEF q
  <2> QED
    BY <2>1, <2>2, <2>3, <2>5, <2>6, <2>7
<1>3. jobs' = [s \in Ids |-> jobs'[s]]
  OBVIOUS
<1>4. jobs' \in [Ids -> Seq(JobType)]
  BY <1>2, <1>3
<1> QED
  BY <1>1, <1>2, <1>4 DEF Typed

LEMMA Replied ==
  ASSUME Typed, NEW s \in Ids, NEW st \in Answers, NEW seen \in SessionType,
         jobs[s] # <<>>, Reply(s, st, seen), NoHandler \notin Handlers
  PROVE  /\ Typed'
         /\ Len(jobs[s]) \in Nat /\ Len(jobs[s]) >= 1 /\ Len(jobs'[s]) = Len(jobs[s]) - 1
         /\ Head(jobs[s]) = jobs[s][1] /\ jobs[s][1] \in JobType
         /\ \A i \in 1 .. Len(jobs'[s]) : jobs'[s][i] = jobs[s][i + 1]
         /\ \A t \in Ids : t # s => jobs'[t] = jobs[t]
         /\ jobs[s][1].h # NoHandler =>
              jobs[s][1].h \in Handlers /\ reply'[jobs[s][1].h] = [st |-> st, session |-> seen]
         /\ \A g \in Handlers : g # jobs[s][1].h => reply'[g] = reply[g]
<1>1. jobs' = [jobs EXCEPT ![s] = Tail(jobs[s])]
  BY DEF Reply
<1>2. jobs[s] \in Seq(JobType)
  BY DEF Typed
<1>3. jobs'[s] = Tail(jobs[s]) /\ \A t \in Ids : t # s => jobs'[t] = jobs[t]
  BY <1>1 DEF Typed
<1>4. jobs' \in [Ids -> Seq(JobType)]
  BY <1>1, <1>2, Popped DEF Typed
<1>5. jobs[s][1].h \in Handlers \cup {NoHandler} /\ Head(jobs[s]) = jobs[s][1]
  BY <1>2, Popped DEF JobType
<1>6. [st |-> st, session |-> seen] \in ReplyType
  BY DEF ReplyType
<1>7. reply' = IF jobs[s][1].h = NoHandler THEN reply
               ELSE [reply EXCEPT ![jobs[s][1].h] = [st |-> st, session |-> seen]]
  BY <1>5 DEF Reply
<1>8. /\ reply' \in [Handlers -> ReplyType]
      /\ jobs[s][1].h # NoHandler =>
           jobs[s][1].h \in Handlers /\ reply'[jobs[s][1].h] = [st |-> st, session |-> seen]
      /\ \A g \in Handlers : g # jobs[s][1].h => reply'[g] = reply[g]
  BY <1>5, <1>6, <1>7 DEF Typed
<1> QED
  BY <1>2, <1>3, <1>4, <1>5, <1>8, Popped DEF Typed

----------------------------------------------------------------------------
(* What a step that leaves a part alone keeps of it *)

\* Sessions are opened once, stay at their block, and never come back.
Evolves(t) ==
  /\ session[t].st # "none" => session'[t].st # "none" /\ session'[t].block = session[t].block
  /\ session[t].st = "gone" => session'[t].st = "gone"
  /\ session[t].signed \subseteq session'[t].signed
SessionsEvolve == \A t \in Ids : Evolves(t)

\* Clients forget nothing, and learn nothing of an id but through its entry.
ClientsLearn == \A t \in Ids : /\ client[t].known => client'[t].known
                               /\ client[t].known => client[t].block <= client'[t].block

LEMMA LinkedTypes ==
  ASSUME Linked
  PROVE  /\ Typed
         /\ session \in [Ids -> SessionType] /\ call \in [Handlers -> CallType]
         /\ client \in [Ids -> ClientType] /\ side \in [Ids -> EntryType]
         /\ nextId \in 0 .. MaxSessions
         /\ \A h \in Handlers : /\ reply[h] \in ReplyType
                                /\ Answered(h) => reply[h].st \in Answers /\ Seen(h) \in SessionType
                                /\ call[h].pc = "create" => call[h].new \in Ids
                                /\ call[h].pc # "idle" /\ call[h].m # "open" =>
                                     call[h].s \in Ids /\ session[call[h].s].st # "none"
<1>1. /\ Typed
      /\ session \in [Ids -> SessionType] /\ call \in [Handlers -> CallType]
      /\ client \in [Ids -> ClientType] /\ side \in [Ids -> EntryType]
      /\ nextId \in 0 .. MaxSessions
  BY DEF Linked, TypeOK, ManagerTypeOK, HttpTypeOK, Typed
<1>2. ASSUME NEW h \in Handlers
      PROVE  /\ reply[h] \in ReplyType
             /\ Answered(h) => reply[h].st \in Answers /\ Seen(h) \in SessionType
  BY <1>1 DEF Typed, ReplyType, Answered, Seen
<1>3. ASSUME NEW h \in Handlers, call[h].pc = "create"
      PROVE  call[h].new \in Ids
  <2>1. call[h].new \in Ids \cup {NoId} /\ call[h].new < nextId /\ nextId <= MaxSessions
    BY <1>1, <1>3, ManagerAssumption DEF Linked, CallOK, CallType
  <2> QED
    BY <2>1, <1>1, ManagerAssumption DEF NoId, Ids
<1>4. ASSUME NEW h \in Handlers, call[h].pc # "idle", call[h].m # "open"
      PROVE  call[h].s \in Ids /\ session[call[h].s].st # "none"
  BY <1>4 DEF Linked, CallOK, IdOK
<1> QED
  BY <1>1, <1>2, <1>3, <1>4

LEMMA CallKept ==
  ASSUME Linked, NEW g \in Handlers, call'[g] = call[g], nextId <= nextId', nextId' \in Nat,
         client' \in [Ids -> ClientType], ClientsLearn, SessionsEvolve,
         call[g].pc = "create" => ~client'[call[g].new].known,
         call[g].m = "fork_from" /\ call[g].pc = "create" /\ session'[call[g].new].st # "none" =>
           \/ session[call[g].new].st # "none"
           \/ session'[call[g].new].block = session[call[g].s].block
  PROVE  CallOK(g)'
<1> DEFINE c == call[g]
<1>1. CallOK(g)
  BY DEF Linked
<1>2. ASSUME c.pc # "idle", c.m # "open"
      PROVE  client'[c.s].known /\ c.floor <= client'[c.s].block
  <2>1. c.s \in Ids /\ client[c.s].known /\ c.floor <= client[c.s].block
    BY <1>1, <1>2 DEF CallOK
  <2>2. client[c.s].block <= client'[c.s].block /\ client'[c.s].known
    BY <2>1 DEF ClientsLearn
  <2>3. c.floor \in Nat /\ client[c.s].block \in Nat /\ client'[c.s].block \in Nat
    BY <2>1, LinkedTypes DEF CallType, ClientType
  <2> QED
    BY <2>1, <2>2, <2>3
<1>3. ASSUME c.pc = "create" PROVE c.new < nextId'
  <2>1. c.new < nextId
    BY <1>1, <1>3 DEF CallOK
  <2>2. c.new \in Ids /\ nextId \in 0 .. MaxSessions
    BY <1>3, LinkedTypes
  <2>3. c.new \in Nat
    BY <2>2, IdTypes
  <2>4. nextId \in Nat
    BY <2>2, ManagerAssumption
  <2> QED
    BY <2>1, <2>3, <2>4
<1>4. ASSUME c.m = "fork_from", c.pc = "create", session'[c.new].st # "none"
      PROVE  session'[c.new].block = session'[c.s].block
  <2>1. c.new \in Ids /\ c.s \in Ids /\ session[c.s].st # "none"
    BY <1>4, LinkedTypes
  <2>2. session'[c.s].block = session[c.s].block
    BY <2>1 DEF SessionsEvolve, Evolves
  <2>3. session[c.new].st # "none" => session'[c.new].block = session[c.s].block
    BY <1>1, <1>4, <2>1 DEF SessionsEvolve, Evolves, CallOK
  <2> QED
    BY <1>4, <2>2, <2>3
<1> QED
  BY <1>1, <1>2, <1>3, <1>4 DEF CallOK

LEMMA AnswerKept ==
  ASSUME Linked, NEW g \in Handlers, call'[g] = call[g], reply'[g] = reply[g], SessionsEvolve
  PROVE  AnswerOK(g)'
<1> SUFFICES ASSUME Answered(g) PROVE AnswerOK(g)'
  BY DEF AnswerOK, Answered
<1>1. AnswerOK(g)
  BY DEF Linked
<1>2. ASSUME call[g].pc = "create"
      PROVE  session'[call[g].new].st # "none"
  BY <1>1, <1>2, LinkedTypes DEF AnswerOK, SessionsEvolve, Evolves
<1>3. ASSUME call[g].pc \in {"env", "branch", "advance", "discard"}
      PROVE  call[g].s \in Ids /\ session[call[g].s].st # "none"
  BY <1>3, LinkedTypes DEF Linked, CallOK
<1>4. /\ call[g].pc \in {"env", "branch"} /\ Ok(g) => Seen(g).block = session'[call[g].s].block
      /\ call[g].pc = "env" /\ ~Ok(g) => session'[call[g].s].st = "gone"
      /\ call[g].pc = "advance" /\ call[g].m \in Sends /\ Ok(g) => call[g].tx \in session'[call[g].s].signed
      /\ call[g].pc = "discard" => session'[call[g].s].st = "gone"
  BY <1>1, <1>3 DEF AnswerOK, SessionsEvolve, Evolves
<1>5. call[g].pc = "branch" /\ Ok(g) => Seen(g).st = "live"
  BY <1>1 DEF AnswerOK
<1> QED
  BY <1>2, <1>4, <1>5 DEF AnswerOK, Answered, Ok, Seen

LEMMA JobKept ==
  ASSUME Linked, SessionsEvolve, NEW s \in Ids, NEW k \in 1 .. Len(jobs[s]), NEW i,
         jobs'[s][i] = jobs[s][k],
         client[s].known => client'[s].known,
         jobs[s][k].op = "create" => Len(jobs'[s]) = 1 /\ session'[s].st = "none",
         jobs[s][k].h # NoHandler =>
           /\ jobs[s][k].h \in Handlers
           /\ call'[jobs[s][k].h] = call[jobs[s][k].h] /\ reply'[jobs[s][k].h] = reply[jobs[s][k].h]
  PROVE  JobOK(s, i)'
<1> DEFINE j == jobs[s][k]
<1>1. JobOK(s, k)
  BY DEF Linked, JobsOK
<1>2. ASSUME j.h # NoHandler
      PROVE  /\ call'[j.h].pc = j.op /\ reply'[j.h].st = "waiting"
             /\ s = IF call'[j.h].pc = "create" THEN call'[j.h].new ELSE call'[j.h].s
             /\ j.op \in {"advance", "simulate"} => call'[j.h].tx = j.tx
  BY <1>1, <1>2 DEF JobOK, Target
<1>3. ASSUME j.h # NoHandler, j.op = "create", call[j.h].m = "fork_from"
      PROVE  j.payload.block = session'[call[j.h].s].block
  <2>1. j.h \in Handlers /\ call[j.h].pc = "create" /\ j.payload.block = session[call[j.h].s].block
    BY <1>1, <1>3 DEF JobOK
  <2>2. call[j.h].s \in Ids /\ session[call[j.h].s].st # "none"
    BY <1>3, <2>1, LinkedTypes
  <2> QED
    BY <2>1, <2>2 DEF SessionsEvolve, Evolves
<1> QED
  BY <1>1, <1>2, <1>3 DEF JobOK, Target

\* What a step may do to an id's client record without touching its entry.
SameClient(s) ==
  /\ client'[s].known = client[s].known /\ client'[s].kept = client[s].kept
  /\ client'[s].removed = client[s].removed /\ client'[s].late = client[s].late
  /\ client'[s].block = client[s].block /\ client'[s].prices = client[s].prices
  /\ client'[s].sent = client[s].sent

LEMMA EntryKept ==
  ASSUME IInv, NEW s \in Ids, Evolves(s), Live(s)' => Live(s), side'[s] = side[s], SameClient(s),
         \A g \in Handlers : client[s].removed /\ g \in Unrecorded(s)' => g \in Unrecorded(s)
  PROVE  EntryOK(s)'
<1>1. EntryOK(s) /\ Linked
  BY DEF IInv
<1>2. Live(s)' /\ client'[s].kept => Numbered(s)'
  <2>1. Live(s)' => session'[s].block = session[s].block
    BY DEF Live, Evolves
  <2>2. Receipts(s)' = Receipts(s)
    BY DEF Receipts, EthGetTransactionReceipt
  <2> QED
    BY <1>1, <2>1, <2>2 DEF EntryOK, Numbered, SameClient
<1>3. client'[s].removed => session'[s].st = "gone"
  BY <1>1 DEF EntryOK, Evolves, SameClient
<1>4. client'[s].removed /\ ~client'[s].late => ~side'[s].present /\ Unrecorded(s)' = {}
  <2>1. Unrecorded(s)' \subseteq Handlers
    BY DEF Unrecorded
  <2> QED
    BY <1>1, <2>1 DEF EntryOK, SameClient
<1>5. client'[s].known /\ ~client'[s].removed =>
        client'[s].block <= session'[s].block + side'[s].count
  <2>1. client[s].known => session'[s].block = session[s].block
    BY <1>1 DEF Linked, IdOK, Evolves
  <2> QED
    BY <1>1, <2>1 DEF EntryOK, SameClient
<1>6. Live(s)' => \A p \in client'[s].prices : BaseFee[session'[s].block] <= p
  BY <1>1 DEF EntryOK, Evolves, Live, SameClient
<1> QED
  BY <1>1, <1>2, <1>3, <1>4, <1>5, <1>6 DEF EntryOK

LEMMA SendKept ==
  ASSUME IInv, NEW g \in Handlers, call'[g] = call[g], SessionsEvolve, side' \in [Ids -> EntryType],
         call[g].s \in Ids /\ call[g].pc = "env" =>
           /\ Live(call[g].s)' \/ Ok(g)' => Live(call[g].s) \/ Ok(g)
           /\ ~client'[call[g].s].removed =>
                ~client[call[g].s].removed /\ side[call[g].s].count <= side'[call[g].s].count
  PROVE  SendOK(g)'
<1> SUFFICES ASSUME call[g].pc = "env", call[g].m \in Sends \cup {"block_number"}
             PROVE  SendOK(g)'
  BY DEF SendOK
<1> DEFINE s == call[g].s
<1>1. Linked /\ SendOK(g)
  BY DEF IInv
<1>2. s \in Ids /\ session[s].st # "none"
  BY <1>1, LinkedTypes DEF Sends
<1>3. session'[s].block = session[s].block /\ session[s].signed \subseteq session'[s].signed
  BY <1>2 DEF SessionsEvolve, Evolves
<1>4. ~client'[s].removed => ~client[s].removed /\ side[s].count <= side'[s].count
  BY <1>2
<1>5. /\ call[g].n \in Nat /\ side[s].count \in Nat /\ side'[s].count \in Nat
  BY <1>1, <1>2, LinkedTypes DEF CallType, EntryType
<1>6. ASSUME call[g].m = "block_number" PROVE ~client'[s].removed => call[g].n <= side'[s].count
  BY <1>1, <1>4, <1>5, <1>6 DEF SendOK
<1>7. ASSUME call[g].m = "block_number"
      PROVE  Live(s)' \/ Ok(g)' => call[g].floor <= session'[s].block + call[g].n
  BY <1>1, <1>2, <1>3, <1>7 DEF SendOK
<1>8. call[g].m \in Sends => call[g].tx \in session'[s].signed
  BY <1>1, <1>3 DEF SendOK
<1> QED
  BY <1>6, <1>7, <1>8 DEF SendOK, Live, Ok

LEMMA ReceiptsKept ==
  ASSUME IInv, side' = side, SessionsEvolve,
         \A s \in Ids : /\ client'[s].sent = client[s].sent
                        /\ client[s].removed => client'[s].removed
  PROVE  ReceiptsOfSends'
<1>1. ReceiptsOfSends
  BY DEF IInv
<1> SUFFICES ASSUME NEW s \in Ids, NEW tx \in Signed
             PROVE  /\ tx \in client'[s].sent /\ ~client'[s].removed => side'[s].receipts[tx] # NoReceipt
                    /\ side'[s].receipts[tx] # NoReceipt => \E a \in Ids : tx \in session'[a].signed
  BY DEF ReceiptsOfSends, EthGetTransactionReceipt
<1>2. /\ tx \in client[s].sent /\ ~client[s].removed => side[s].receipts[tx] # NoReceipt
      /\ side[s].receipts[tx] # NoReceipt => \E a \in Ids : tx \in session[a].signed
  BY <1>1 DEF ReceiptsOfSends, EthGetTransactionReceipt
<1> QED
  BY <1>2 DEF SessionsEvolve, Evolves

----------------------------------------------------------------------------
(* A job is posted *)

\* A handler that has posted no job, or whose job was answered, has none waiting.
LEMMA NoneWaiting ==
  ASSUME Linked, NEW h \in Handlers, call[h].pc = "idle" \/ Answered(h),
         NEW t \in Ids, NEW i \in 1 .. Len(jobs[t])
  PROVE  jobs[t][i].h # h
<1> SUFFICES ASSUME jobs[t][i].h = h PROVE FALSE
  OBVIOUS
<1>1. h # NoHandler /\ JobOK(t, i)
  BY ManagerAssumption DEF Linked, JobsOK
<1>2. call[h].pc = jobs[t][i].op /\ reply[h].st = "waiting"
  BY <1>1 DEF JobOK
<1>3. jobs[t] \in Seq(JobType)
  BY LinkedTypes DEF Typed
<1>4. jobs[t][i] \in JobType
  BY <1>3
<1>5. jobs[t][i].op # "idle"
  BY <1>4 DEF JobType, Ops, Reading, Direct
<1> QED
  BY <1>2, <1>5 DEF Answered

LEMMA JobsPosted ==
  ASSUME Linked, SessionsEvolve, NEW h \in Handlers, NEW s \in Ids, NEW job \in JobType,
         NEW n \in Nat, n = Len(jobs[s]) + 1,
         Post(h, s, job), job.h = h,
         call[h].pc = "idle" \/ Answered(h),
         \A g \in Handlers : g # h => call'[g] = call[g],
         \A t \in Ids : client[t].known => client'[t].known,
         \A i \in 1 .. Len(jobs[s]) : jobs[s][i].op # "create",
         JobOK(s, n)'
  PROVE  JobsOK'
<1>1. Typed /\ JobsOK
  BY LinkedTypes DEF Linked
<1>2. /\ Len(jobs[s]) \in Nat /\ Len(jobs'[s]) = Len(jobs[s]) + 1
      /\ \A i \in 1 .. Len(jobs[s]) : jobs'[s][i] = jobs[s][i]
      /\ jobs'[s][Len(jobs[s]) + 1] = job
      /\ \A t \in Ids : t # s => jobs'[t] = jobs[t]
      /\ \A g \in Handlers : g # h => reply'[g] = reply[g]
  BY <1>1, Posted
<1> DEFINE Old(t, i) == t \in Ids /\ i \in 1 .. Len(jobs[t])
<1>3. ASSUME NEW t \in Ids, NEW i \in 1 .. Len(jobs'[t])
      PROVE  Old(t, i) \/ (t = s /\ i = Len(jobs[s]) + 1)
  BY <1>2
<1>4. ASSUME NEW t, NEW i, Old(t, i)
      PROVE  jobs'[t][i] = jobs[t][i] /\ jobs[t][i].h # h /\ jobs[t][i] \in JobType
  <2>1. jobs[t][i].h # h
    BY <1>4, NoneWaiting
  <2>2. jobs[t] \in Seq(JobType)
    BY <1>1, <1>4 DEF Typed
  <2> QED
    BY <1>2, <1>4, <2>1, <2>2
<1>5. session' = session
  BY DEF Post
<1>6. ASSUME NEW t \in Ids, NEW i \in 1 .. Len(jobs'[t])
      PROVE  JobOK(t, i)'
  <2>1. CASE Old(t, i)
    <3>1. jobs'[t][i] = jobs[t][i] /\ jobs[t][i].h # h
      BY <1>4, <2>1
    <3>2. jobs[t][i].h # NoHandler =>
            /\ jobs[t][i].h \in Handlers
            /\ call'[jobs[t][i].h] = call[jobs[t][i].h] /\ reply'[jobs[t][i].h] = reply[jobs[t][i].h]
      BY <1>2, <1>4, <2>1, <3>1 DEF JobType
    <3>3. jobs[t][i].op = "create" => Len(jobs'[t]) = 1 /\ session'[t].st = "none"
      BY <1>1, <1>2, <1>5, <2>1 DEF JobsOK, JobOK
    <3> QED
      BY <2>1, <3>1, <3>2, <3>3, JobKept
  <2>2. CASE t = s /\ i = n
    BY <2>2
  <2> QED
    BY <1>3, <2>1, <2>2
<1>7. ASSUME NEW t \in Ids, NEW i \in 1 .. Len(jobs'[t]), NEW k \in 1 .. Len(jobs'[t]),
             jobs'[t][i].h # NoHandler, jobs'[t][k].h = jobs'[t][i].h
      PROVE  k = i
  <2>1. CASE Old(t, i) /\ Old(t, k)
    BY <1>1, <1>4, <1>7, <2>1 DEF JobsOK
  <2>2. CASE ~Old(t, i) \/ ~Old(t, k)
    <3>1. t = s /\ jobs'[t][i].h = h /\ jobs'[t][k].h = h
      BY <1>2, <1>3, <1>7, <2>2
    <3>2. ~Old(t, i) /\ ~Old(t, k)
      BY <1>4, <3>1
    <3> QED
      BY <1>3, <3>2
  <2> QED
    BY <2>1, <2>2
<1> QED
  BY <1>6, <1>7 DEF JobsOK

\* A request that awaits a job of its session, and what it relies on.
AwaitOK(h, c, s, op, tx) ==
  /\ client[s].known /\ c.pc = op /\ c.s = s /\ c.m # "open" /\ op # "create"
  /\ c.floor <= client[s].block
  /\ op \in {"advance", "simulate"} => c.tx = tx
  /\ c.by = "mcp" => ~c.tx.signed
  /\ c.by = "http" => stage \notin {"mcp", "exited"}
  /\ c.m \in Sends => c.tx \in Signed
  /\ c.m \in Sends /\ op = "env" => h \in Unrecorded(s) /\ c.tx \in session[s].signed
  /\ c.m = "block_number" /\ op = "env" =>
       /\ ~client[s].removed => c.n <= side[s].count
       /\ Live(s) => c.floor <= session[s].block + c.n

\* Posting changes of clients only what they know to overlap, and quotes prices.
QuotesOn(s) ==
  /\ client' \in [Ids -> ClientType]
  /\ \A t \in Ids : t # s => client'[t] = client[t]
  /\ client'[s].known = client[s].known /\ client'[s].kept = client[s].kept
  /\ client'[s].removed = client[s].removed /\ client'[s].late = client[s].late
  /\ client'[s].block = client[s].block /\ client'[s].sent = client[s].sent
  /\ Live(s) => \A p \in client'[s].prices : BaseFee[session[s].block] <= p

LEMMA QuotesKnown ==
  ASSUME Linked, NEW s \in Ids, QuotesOn(s)
  PROVE  ClientsLearn /\ \A t \in Ids : client'[t].known = client[t].known
<1>1. client \in [Ids -> ClientType]
  BY LinkedTypes
<1>2. \A t \in Ids : client'[t].known = client[t].known /\ client'[t].block = client[t].block
  BY DEF QuotesOn
<1>3. \A t \in Ids : client[t].block \in Nat
  BY <1>1 DEF ClientType
<1> QED
  BY <1>2, <1>3 DEF ClientsLearn

LEMMA SessionsSame ==
  ASSUME session' = session
  PROVE  SessionsEvolve
  BY DEF SessionsEvolve, Evolves

LEMMA IdleJobs ==
  ASSUME Linked, NEW s \in Ids, client[s].known, NEW i \in 1 .. Len(jobs[s])
  PROVE  jobs[s][i].op # "create"
<1>1. IdOK(s) /\ JobOK(s, i)
  BY DEF Linked, JobsOK
<1> QED
  BY <1>1 DEF IdOK, JobOK

LEMMA PostsOn ==
  ASSUME IInv, NEW h \in Handlers, NEW s \in Ids, NEW op \in Ops, NEW tx \in TxType,
         NEW rec \in SessionType, NEW c \in CallType,
         Post(h, s, Job(h, op, tx, rec)), call[h].pc = "idle" \/ Answered(h),
         call' = [call EXCEPT ![h] = c], calls' \in 0 .. MaxCalls,
         AwaitOK(h, c, s, op, tx), QuotesOn(s), UNCHANGED <<nextId, served>>
  PROVE  IInv'
<1> DEFINE job == Job(h, op, tx, rec)
<1>1. /\ Linked /\ Typed
      /\ session \in [Ids -> SessionType] /\ call \in [Handlers -> CallType]
      /\ client \in [Ids -> ClientType] /\ side \in [Ids -> EntryType]
      /\ nextId \in 0 .. MaxSessions
  BY LinkedTypes DEF IInv
<1>2. job \in JobType /\ job.h = h /\ job.op = op /\ job.tx = tx
  BY JobTypes DEF Job
<1>0. PICK n \in Nat : n = Len(jobs[s]) + 1
  BY <1>1 DEF Typed
<1>3. /\ Typed'
      /\ jobs'[s][n] = job
      /\ \A t \in Ids : t # s => jobs'[t] = jobs[t]
      /\ reply'[h] = Waiting
      /\ \A g \in Handlers : g # h => reply'[g] = reply[g]
  BY <1>0, <1>1, <1>2, Posted
<1>4. /\ session' = session /\ tip' = tip /\ saved' = saved /\ faults' = faults
      /\ nextId' = nextId /\ side' = side /\ stage' = stage /\ draining' = draining
  BY DEF Post, served
<1>5. call'[h] = c /\ (\A g \in Handlers : g # h => call'[g] = call[g])
      /\ call' \in [Handlers -> CallType]
  BY <1>1
<1>6. SessionsEvolve /\ ClientsLearn /\ \A t \in Ids : client'[t].known = client[t].known
  BY <1>1, <1>4, SessionsSame, QuotesKnown
<1>7. TypeOK'
  <2>1. TypeOK
    BY <1>1 DEF Linked
  <2>2. ASSUME stage \in {"mcp", "exited"}, NEW g \in Handlers, call'[g].by = "http" PROVE FALSE
    BY <1>5, <2>1, <2>2 DEF AwaitOK, TypeOK, Active
  <2>3. ManagerTypeOK'
    BY <1>3, <1>4, <1>5, <2>1 DEF TypeOK, ManagerTypeOK, Typed, QuotesOn
  <2>4. HttpTypeOK'
    BY <1>1, <1>4 DEF HttpTypeOK
  <2> QED
    BY <1>4, <2>1, <2>2, <2>3, <2>4 DEF TypeOK, Active
<1>8. ASSUME NEW g \in Handlers PROVE CallOK(g)' /\ AnswerOK(g)'
  <2>1. CASE g = h
    <3>1. c.pc # "create" /\ c.pc # "idle"
      BY DEF AwaitOK, Ops, Reading, Direct
    <3>2. client'[s].known /\ client'[s].block = client[s].block
      BY <1>6 DEF AwaitOK, QuotesOn
    <3>3. CallOK(g)'
      BY <1>5, <2>1, <3>1, <3>2 DEF CallOK, AwaitOK
    <3>4. AnswerOK(g)'
      BY <1>3, <2>1, ReplyTypes DEF AnswerOK, Answered
    <3> QED
      BY <3>3, <3>4
  <2>2. CASE g # h
    <3>1. call'[g] = call[g] /\ reply'[g] = reply[g]
      BY <1>3, <1>5, <2>2
    <3>2. call[g].pc = "create" => ~client'[call[g].new].known
      BY <1>1, <1>6, LinkedTypes DEF Linked, CallOK
    <3>3. nextId <= nextId' /\ nextId' \in Nat
      BY <1>1, <1>4, ManagerAssumption
    <3>4. client' \in [Ids -> ClientType]
      BY DEF QuotesOn
    <3>5. CallOK(g)'
      BY <1>1, <1>4, <1>6, <3>1, <3>2, <3>3, <3>4, CallKept
    <3>6. AnswerOK(g)'
      BY <1>1, <1>6, <3>1, AnswerKept
    <3> QED
      BY <3>5, <3>6
  <2> QED
    BY <2>1, <2>2
<1>9. OpensApart'
  <2>1. OpensApart /\ c.pc # "create"
    BY <1>1 DEF Linked, AwaitOK
  <2> QED
    BY <1>5, <2>1 DEF OpensApart
<1>16. OpensAwaited'
  <2> SUFFICES ASSUME NEW g \in Handlers, call'[g].pc = "create"
               PROVE  \A i \in 1 .. Len(jobs'[call'[g].new]) : jobs'[call'[g].new][i].h = g
    BY DEF OpensAwaited
  <2>1. c.pc # "create" /\ client[s].known
    BY DEF AwaitOK
  <2>2. call'[g] = call[g]
    BY <1>5, <2>1
  <2>3. call[g].new \in Ids /\ ~client[call[g].new].known /\ OpensAwaited
    BY <1>1, <2>2, LinkedTypes DEF Linked, CallOK
  <2>4. jobs'[call[g].new] = jobs[call[g].new]
    BY <1>3, <2>1, <2>3
  <2> QED
    BY <2>2, <2>3, <2>4 DEF OpensAwaited
<1>10. JobsOK'
  <2>1. \A i \in 1 .. Len(jobs[s]) : jobs[s][i].op # "create"
    BY <1>1, IdleJobs DEF AwaitOK
  <2>2. JobOK(s, n)'
    <3> HIDE DEF job
    <3>1. client'[s].known
      BY <1>6 DEF AwaitOK
    <3>2. reply'[h].st = "waiting"
      BY <1>3, ReplyTypes
    <3>3. call'[h].pc = op /\ call'[h].s = s /\ op # "create"
      BY <1>5 DEF AwaitOK
    <3>4. op \in {"advance", "simulate"} => call'[h].tx = tx
      BY <1>5 DEF AwaitOK
    <3>5. jobs'[s][n] = job
      BY <1>3
    <3> QED
      BY <1>2, <3>1, <3>2, <3>3, <3>4, <3>5 DEF JobOK, Target
  <2> QED
    BY <1>0, <1>1, <1>2, <1>5, <1>6, <2>1, <2>2, JobsPosted
<1>11. ASSUME NEW t \in Ids PROVE IdOK(t)'
  <2>1. IdOK(t)
    BY <1>1 DEF Linked
  <2>2. CASE t = s
    BY <1>3, <1>4, <1>6, <2>1, <2>2 DEF AwaitOK, IdOK
  <2>3. CASE t # s
    BY <1>3, <1>4, <2>1, <2>3 DEF QuotesOn, IdOK
  <2> QED
    BY <2>2, <2>3
<1>12. ASSUME NEW t \in Ids PROVE EntryOK(t)'
  <2>1. ASSUME NEW g \in Handlers, g \in Unrecorded(t)' PROVE g \in Unrecorded(t)
    <3>1. CASE g = h
      <4>1. ~Ok(h)'
        BY <1>3, ReplyTypes DEF Ok
      <4>2. c.s = t /\ c.m \in Sends /\ c.pc = "env"
        BY <1>5, <2>1, <3>1, <4>1 DEF Unrecorded, Sends
      <4> QED
        BY <3>1, <4>2 DEF AwaitOK
    <3>2. CASE g # h
      BY <1>3, <1>5, <2>1, <3>2 DEF Unrecorded, Ok
    <3> QED
      BY <3>1, <3>2
  <2>2. EntryOK(t)
    BY DEF IInv
  <2>3. CASE t # s
    <3>1. SameClient(t)
      BY <2>3 DEF QuotesOn, SameClient
    <3> QED
      BY <1>4, <1>6, <2>1, <3>1, EntryKept DEF SessionsEvolve, Live
  <2>4. CASE t = s
    <3>1. Numbered(t)' <=> Numbered(t)
      BY <1>4 DEF Numbered, Receipts, EthGetTransactionReceipt
    <3>2. client'[t].removed /\ ~client'[t].late => ~side'[t].present /\ Unrecorded(t)' = {}
      <4>1. Unrecorded(t)' \subseteq Handlers
        BY DEF Unrecorded
      <4> QED
        BY <1>4, <2>1, <2>2, <2>4, <4>1 DEF EntryOK, QuotesOn
    <3>3. Live(t)' <=> Live(t)
      BY <1>4 DEF Live
    <3> QED
      BY <1>4, <2>2, <2>4, <3>1, <3>2, <3>3 DEF EntryOK, QuotesOn
  <2> QED
    BY <2>3, <2>4
<1>13. ASSUME NEW g \in Handlers PROVE SendOK(g)'
  <2>1. CASE g = h
    <3>1. ~Ok(h)'
      BY <1>3, ReplyTypes DEF Ok
    <3>2. client'[s].removed = client[s].removed
      BY DEF QuotesOn
    <3> QED
      BY <1>4, <1>5, <2>1, <3>1, <3>2 DEF SendOK, AwaitOK, Live
  <2>2. CASE g # h
    <3>1. call'[g] = call[g] /\ reply'[g] = reply[g]
      BY <1>3, <1>5, <2>2
    <3>2. \A t \in Ids : client'[t].removed = client[t].removed
      BY DEF QuotesOn
    <3>3. ASSUME call[g].s \in Ids
          PROVE  /\ Live(call[g].s)' \/ Ok(g)' => Live(call[g].s) \/ Ok(g)
                 /\ ~client'[call[g].s].removed =>
                      ~client[call[g].s].removed /\ side[call[g].s].count <= side'[call[g].s].count
      BY <1>1, <1>4, <3>1, <3>2, <3>3 DEF Live, Ok, EntryType
    <3> QED
      BY <1>1, <1>4, <1>6, <3>1, <3>3, SendKept
  <2> QED
    BY <2>1, <2>2
<1>14. ReceiptsOfSends'
  <2>1. \A t \in Ids : /\ client'[t].sent = client[t].sent
                       /\ client[t].removed => client'[t].removed
    BY DEF QuotesOn
  <2> QED
    BY <1>4, <1>6, <2>1, ReceiptsKept
<1>15. \A r \in saved' : r.st = "live"
  BY <1>1, <1>4 DEF Linked
<1> QED
  BY <1>7, <1>8, <1>9, <1>10, <1>11, <1>12, <1>13, <1>14, <1>15, <1>16 DEF IInv, Linked

\* A request that opens an id: one of its own, or the branch of its session.
OpensOK(h, c) ==
  /\ c.pc = "create" /\ c.new = nextId
  /\ \/ c.m = "open" /\ c.s = NoId
     \/ /\ c.m = "fork_from" /\ c.s \in Ids
        /\ client[c.s].known /\ c.floor <= client[c.s].block
  /\ c.by = "mcp" => ~c.tx.signed
  /\ c.by = "http" => stage \notin {"mcp", "exited"}

LEMMA RegistersOn ==
  ASSUME IInv, NEW h \in Handlers, NEW rec \in SessionType, NEW c \in CallType,
         Register(h, rec), call[h].pc = "idle" \/ Answered(h),
         call' = [call EXCEPT ![h] = c], calls' \in 0 .. MaxCalls,
         OpensOK(h, c), rec.st = "live",
         c.m = "fork_from" => rec.block = session[c.s].block,
         UNCHANGED <<client, served>>
  PROVE  IInv'
<1> DEFINE job == Job(h, "create", NoTx, rec)
<1>1. /\ Linked /\ Typed
      /\ session \in [Ids -> SessionType] /\ call \in [Handlers -> CallType]
      /\ client \in [Ids -> ClientType] /\ side \in [Ids -> EntryType]
      /\ nextId \in 0 .. MaxSessions
  BY LinkedTypes DEF IInv
<1>2. job \in JobType /\ job.h = h /\ job.op = "create" /\ job.payload = rec
  BY JobTypes, TxTypes DEF Job, Ops
<1>3. nextId \in Ids /\ nextId \in Nat
  BY <1>1, IdTypes, ManagerAssumption DEF Register
<1>4. PICK s \in Ids : s = nextId
  BY <1>3
<1>5. Post(h, s, job) /\ nextId' = nextId + 1 /\ s \in Nat
  BY <1>3, <1>4 DEF Register
<1>6. jobs[s] = <<>> /\ session[s].st = "none" /\ ~client[s].known
  BY <1>1, <1>3, <1>4 DEF Linked, IdOK
<1>7. /\ Typed'
      /\ Len(jobs'[s]) = 1 /\ jobs'[s][1] = job
      /\ \A t \in Ids : t # s => jobs'[t] = jobs[t]
      /\ reply'[h] = Waiting
      /\ \A g \in Handlers : g # h => reply'[g] = reply[g]
  <2> HIDE DEF job
  <2>1. Len(jobs[s]) = 0
    BY <1>6
  <2>2. /\ Typed' /\ Len(jobs'[s]) = Len(jobs[s]) + 1 /\ jobs'[s][Len(jobs[s]) + 1] = job
        /\ \A t \in Ids : t # s => jobs'[t] = jobs[t]
        /\ reply'[h] = Waiting
        /\ \A g \in Handlers : g # h => reply'[g] = reply[g]
    BY <1>1, <1>2, <1>5, Posted
  <2> QED
    BY <2>1, <2>2
<1>8. /\ session' = session /\ tip' = tip /\ saved' = saved /\ faults' = faults
      /\ client' = client /\ side' = side /\ stage' = stage /\ draining' = draining
  BY <1>5 DEF Post, served
<1>9. call'[h] = c /\ (\A g \in Handlers : g # h => call'[g] = call[g])
      /\ call' \in [Handlers -> CallType]
  BY <1>1
<1>10. SessionsEvolve /\ ClientsLearn
  <2>1. \A t \in Ids : client[t].block \in Nat
    BY <1>1 DEF ClientType
  <2> QED
    BY <1>8, <2>1, SessionsSame DEF ClientsLearn
<1>11. TypeOK'
  <2>1. TypeOK
    BY <1>1 DEF Linked
  <2>2. ASSUME stage \in {"mcp", "exited"}, NEW g \in Handlers, call'[g].by = "http" PROVE FALSE
    BY <1>9, <2>1, <2>2 DEF OpensOK, TypeOK, Active
  <2>3. nextId' \in 0 .. MaxSessions
    BY <1>3, <1>5, ManagerAssumption DEF Register
  <2>4. ManagerTypeOK'
    BY <1>7, <1>8, <1>9, <2>1, <2>3 DEF TypeOK, ManagerTypeOK, Typed
  <2>5. HttpTypeOK'
    BY <1>1, <1>8 DEF HttpTypeOK
  <2> QED
    BY <1>8, <2>1, <2>2, <2>4, <2>5 DEF TypeOK, Active
<1>12. ASSUME NEW g \in Handlers PROVE CallOK(g)' /\ AnswerOK(g)'
  <2>1. CASE g = h
    <3>1. session'[c.new].st = "none" /\ ~client'[c.new].known
      BY <1>4, <1>6, <1>8 DEF OpensOK
    <3>2. c.new < nextId'
      BY <1>3, <1>5 DEF OpensOK
    <3>3. c.m \notin Sends /\ c.m # "none"
      BY DEF OpensOK, Sends
    <3>4. CallOK(g)'
      BY <1>8, <1>9, <2>1, <3>1, <3>2, <3>3 DEF CallOK, OpensOK
    <3>5. AnswerOK(g)'
      BY <1>7, <2>1, ReplyTypes DEF AnswerOK, Answered
    <3> QED
      BY <3>4, <3>5
  <2>2. CASE g # h
    <3>1. call'[g] = call[g] /\ reply'[g] = reply[g]
      BY <1>7, <1>9, <2>2
    <3>2. call[g].pc = "create" => ~client'[call[g].new].known
      BY <1>1, <1>8 DEF Linked, CallOK
    <3>3. nextId <= nextId' /\ nextId' \in Nat
      BY <1>3, <1>5
    <3>4. client' \in [Ids -> ClientType]
      BY <1>1, <1>8
    <3>5. CallOK(g)'
      BY <1>1, <1>8, <1>10, <3>1, <3>2, <3>3, <3>4, CallKept
    <3>6. AnswerOK(g)'
      BY <1>1, <1>10, <3>1, AnswerKept
    <3> QED
      BY <3>5, <3>6
  <2> QED
    BY <2>1, <2>2
<1>13. OpensApart'
  <2>1. \A g \in Handlers : call[g].pc = "create" => call[g].new # nextId
    <3> SUFFICES ASSUME NEW g \in Handlers, call[g].pc = "create" PROVE call[g].new # nextId
      OBVIOUS
    <3>1. call[g].new < nextId
      BY <1>1 DEF Linked, CallOK
    <3> QED
      BY <1>3, <3>1
  <2>2. OpensApart
    BY <1>1 DEF Linked
  <2> QED
    BY <1>9, <2>1, <2>2 DEF OpensApart, OpensOK
<1>20. OpensAwaited'
  <2> SUFFICES ASSUME NEW g \in Handlers, call'[g].pc = "create"
               PROVE  \A i \in 1 .. Len(jobs'[call'[g].new]) : jobs'[call'[g].new][i].h = g
    BY DEF OpensAwaited
  <2>1. CASE g = h
    <3>1. call'[g].new = s
      BY <1>4, <1>9, <2>1 DEF OpensOK
    <3> HIDE DEF job
    <3> QED
      BY <1>2, <1>7, <2>1, <3>1
  <2>2. CASE g # h
    <3>1. call'[g] = call[g]
      BY <1>9, <2>2
    <3>2. call[g].new \in Ids /\ call[g].new < nextId /\ OpensAwaited
      BY <1>1, <3>1, LinkedTypes DEF Linked, CallOK
    <3>3. call[g].new # s
      BY <1>3, <1>4, <3>2
    <3>4. jobs'[call[g].new] = jobs[call[g].new]
      BY <1>7, <3>2, <3>3
    <3> QED
      BY <3>1, <3>2, <3>4 DEF OpensAwaited
  <2> QED
    BY <2>1, <2>2
<1>14. JobsOK'
  <2>1. \A i \in 1 .. Len(jobs[s]) : jobs[s][i].op # "create"
    BY <1>6
  <2>2. JobOK(s, 1)'
    <3> HIDE DEF job
    <3>1. Len(jobs'[s]) = 1 /\ session'[s].st = "none" /\ jobs'[s][1] = job
      BY <1>6, <1>7, <1>8
    <3>2. reply'[h].st = "waiting"
      BY <1>7, ReplyTypes
    <3>3. call'[h].pc = "create" /\ call'[h].new = s
      BY <1>4, <1>9 DEF OpensOK
    <3>4. call'[h].m = "fork_from" => rec.block = session'[call'[h].s].block
      BY <1>8, <1>9
    <3> QED
      BY <1>2, <3>1, <3>2, <3>3, <3>4 DEF JobOK, Target
  <2>3. 1 \in Nat /\ 1 = Len(jobs[s]) + 1
    BY <1>6
  <2>4. \A t \in Ids : client[t].known => client'[t].known
    BY <1>8
  <2> HIDE DEF job
  <2> QED
    BY <1>1, <1>2, <1>5, <1>9, <1>10, <2>1, <2>2, <2>3, <2>4, JobsPosted
<1>15. ASSUME NEW t \in Ids PROVE IdOK(t)'
  <2>1. IdOK(t) /\ t \in Nat
    BY <1>1, IdTypes DEF Linked
  <2>2. nextId' <= t => t # s /\ nextId <= t
    BY <1>3, <1>4, <1>5, <2>1
  <2> QED
    BY <1>7, <1>8, <2>1, <2>2 DEF IdOK
<1>16. ASSUME NEW t \in Ids PROVE EntryOK(t)'
  <2>1. ASSUME NEW g \in Handlers, g \in Unrecorded(t)' PROVE g \in Unrecorded(t)
    <3>1. CASE g = h
      BY <1>9, <2>1, <3>1 DEF Unrecorded, OpensOK
    <3>2. CASE g # h
      BY <1>7, <1>9, <2>1, <3>2 DEF Unrecorded, Ok
    <3> QED
      BY <3>1, <3>2
  <2>2. SameClient(t)
    BY <1>8 DEF SameClient
  <2> QED
    BY <1>8, <1>10, <2>1, <2>2, EntryKept DEF SessionsEvolve, Live
<1>17. ASSUME NEW g \in Handlers PROVE SendOK(g)'
  <2>1. CASE g = h
    BY <1>9, <2>1 DEF SendOK, OpensOK
  <2>2. CASE g # h
    <3>1. call'[g] = call[g] /\ reply'[g] = reply[g]
      BY <1>7, <1>9, <2>2
    <3>2. ASSUME call[g].s \in Ids
          PROVE  /\ Live(call[g].s)' \/ Ok(g)' => Live(call[g].s) \/ Ok(g)
                 /\ ~client'[call[g].s].removed =>
                      ~client[call[g].s].removed /\ side[call[g].s].count <= side'[call[g].s].count
      BY <1>1, <1>8, <3>1, <3>2 DEF Live, Ok, EntryType
    <3> QED
      BY <1>1, <1>8, <1>10, <3>1, <3>2, SendKept
  <2> QED
    BY <2>1, <2>2
<1>18. ReceiptsOfSends'
  BY <1>8, <1>10, ReceiptsKept
<1>19. \A r \in saved' : r.st = "live"
  BY <1>1, <1>8 DEF Linked
<1> QED
  BY <1>11, <1>12, <1>13, <1>14, <1>15, <1>16, <1>17, <1>18, <1>19, <1>20 DEF IInv, Linked

----------------------------------------------------------------------------
(* A request ends: it is answered, or its handler is dropped *)

LEMMA JobsHung ==
  ASSUME Linked, NEW h \in Handlers, Hangup(h), ClientsLearn,
         \A g \in Handlers : g # h => call'[g] = call[g]
  PROVE  JobsOK'
<1>1. Typed /\ JobsOK /\ session' = session
  BY LinkedTypes DEF Linked, Hangup
<1>2. /\ \A t \in Ids : /\ Len(jobs'[t]) = Len(jobs[t])
                        /\ \A i \in 1 .. Len(jobs[t]) : /\ jobs[t][i] \in JobType
                                                        /\ jobs'[t][i] = Hung(jobs[t][i], h)
      /\ \A g \in Handlers : g # h => reply'[g] = reply[g]
  BY <1>1, HungUp DEF Hangup
<1>3. ASSUME NEW t \in Ids, NEW i \in 1 .. Len(jobs'[t])
      PROVE  /\ i \in 1 .. Len(jobs[t]) /\ jobs[t][i] \in JobType
             /\ jobs'[t][i].op = jobs[t][i].op /\ jobs'[t][i].payload = jobs[t][i].payload
             /\ jobs'[t][i].tx = jobs[t][i].tx
             /\ jobs'[t][i].h # NoHandler => jobs'[t][i].h = jobs[t][i].h /\ jobs[t][i].h # h
  BY <1>2, HungType
<1>4. ASSUME NEW t \in Ids, NEW i \in 1 .. Len(jobs'[t])
      PROVE  JobOK(t, i)'
  <2>1. JobOK(t, i)
    BY <1>1, <1>3 DEF JobsOK
  <2>2. client[t].known => client'[t].known
    BY DEF ClientsLearn
  <2>3. ASSUME jobs'[t][i].h # NoHandler
        PROVE  /\ jobs[t][i].h \in Handlers
               /\ call'[jobs[t][i].h] = call[jobs[t][i].h] /\ reply'[jobs[t][i].h] = reply[jobs[t][i].h]
    <3>1. jobs[t][i].h \in Handlers /\ jobs[t][i].h # h
      BY <1>3, <2>3 DEF JobType
    <3> QED
      BY <1>2, <3>1
  <2>4. Len(jobs'[t]) = Len(jobs[t])
    BY <1>2
  <2>5. ASSUME jobs'[t][i].h # NoHandler
        PROVE  /\ call'[jobs'[t][i].h].pc = jobs'[t][i].op /\ reply'[jobs'[t][i].h].st = "waiting"
               /\ t = IF call'[jobs'[t][i].h].pc = "create" THEN call'[jobs'[t][i].h].new
                                                           ELSE call'[jobs'[t][i].h].s
               /\ jobs'[t][i].op \in {"advance", "simulate"} => call'[jobs'[t][i].h].tx = jobs'[t][i].tx
               /\ jobs'[t][i].op = "create" /\ call'[jobs'[t][i].h].m = "fork_from" =>
                    jobs'[t][i].payload.block = session'[call'[jobs'[t][i].h].s].block
    BY <1>1, <1>3, <2>1, <2>3, <2>5, SMTT(20) DEF JobOK, Target
  <2>6. /\ jobs'[t][i].op = "create" => Len(jobs'[t]) = 1 /\ session'[t].st = "none"
                                        /\ jobs'[t][i].payload.st = "live"
        /\ jobs'[t][i].op # "create" => client'[t].known
    BY <1>1, <1>3, <2>1, <2>2, <2>4 DEF JobOK
  <2> QED
    BY <2>5, <2>6 DEF JobOK, Target
<1>5. ASSUME NEW t \in Ids, NEW i \in 1 .. Len(jobs'[t]), NEW k \in 1 .. Len(jobs'[t]),
             jobs'[t][i].h # NoHandler, jobs'[t][k].h = jobs'[t][i].h
      PROVE  k = i
  BY <1>1, <1>3, <1>5 DEF JobsOK
<1> QED
  BY <1>4, <1>5 DEF JobsOK

\* What a step owes of the ids it tells clients of and whose entries it writes.
Tells ==
  /\ client' \in [Ids -> ClientType] /\ side' \in [Ids -> EntryType]
  /\ ClientsLearn
  /\ \A t \in Ids : /\ client'[t].known => session[t].st # "none"
                    /\ ~client'[t].known => client'[t] = Stranger /\ side'[t] = NoEntry
                    /\ ~client'[t].removed =>
                         ~client[t].removed /\ side[t].count <= side'[t].count

LEMMA ReturnsOn ==
  ASSUME IInv, NEW h \in Handlers, Hangup(h),
         call' = [call EXCEPT ![h] = Idle], calls' = calls, faults' \in 0 .. MaxFaults,
         saved' \subseteq SessionType, \A r \in saved' : r.st = "live",
         Tells, UNCHANGED <<stage, draining>>,
         \A g \in Handlers : g # h /\ call[g].pc = "create" => ~client'[call[g].new].known,
         \A t \in Ids : EntryOK(t)',
         ReceiptsOfSends'
  PROVE  IInv'
<1>1. /\ Linked /\ Typed
      /\ session \in [Ids -> SessionType] /\ call \in [Handlers -> CallType]
      /\ client \in [Ids -> ClientType] /\ side \in [Ids -> EntryType]
      /\ nextId \in 0 .. MaxSessions
  BY LinkedTypes DEF IInv
<1>2. session' = session /\ nextId' = nextId /\ tip' = tip
  BY DEF Hangup
<1>3. /\ Typed'
      /\ \A t \in Ids : jobs[t] = <<>> => jobs'[t] = <<>>
      /\ reply'[h] = NoReply
      /\ \A g \in Handlers : g # h => reply'[g] = reply[g]
  BY <1>1, HungUp DEF Hangup
<1>4. call'[h] = Idle /\ (\A g \in Handlers : g # h => call'[g] = call[g])
      /\ call' \in [Handlers -> CallType]
  BY <1>1, CallTypes
<1>5. SessionsEvolve /\ ClientsLearn
  BY <1>2, SessionsSame DEF Tells
<1>6. TypeOK'
  <2>1. TypeOK
    BY <1>1 DEF Linked
  <2>2. ASSUME stage \in {"mcp", "exited"}, NEW g \in Handlers, call'[g].by = "http" PROVE FALSE
    BY <1>4, <2>1, <2>2, CallTypes DEF TypeOK, Active
  <2>3. ManagerTypeOK'
    BY <1>2, <1>3, <1>4, <2>1 DEF TypeOK, ManagerTypeOK, Typed, Tells
  <2>4. HttpTypeOK'
    BY DEF HttpTypeOK, Tells
  <2> QED
    BY <2>1, <2>2, <2>3, <2>4 DEF TypeOK, Active
<1>7. ASSUME NEW g \in Handlers PROVE CallOK(g)' /\ AnswerOK(g)'
  <2>1. CASE g = h
    BY <1>3, <1>4, <2>1, CallTypes, ReplyTypes DEF CallOK, AnswerOK, Answered, Sends
  <2>2. CASE g # h
    <3>1. call'[g] = call[g] /\ reply'[g] = reply[g]
      BY <1>3, <1>4, <2>2
    <3>2. call[g].pc = "create" => ~client'[call[g].new].known
      BY <2>2
    <3>3. nextId <= nextId' /\ nextId' \in Nat
      BY <1>1, <1>2, ManagerAssumption
    <3>4. client' \in [Ids -> ClientType]
      BY DEF Tells
    <3>5. CallOK(g)'
      BY <1>1, <1>2, <1>5, <3>1, <3>2, <3>3, <3>4, CallKept
    <3>6. AnswerOK(g)'
      BY <1>1, <1>5, <3>1, AnswerKept
    <3> QED
      BY <3>5, <3>6
  <2> QED
    BY <2>1, <2>2
<1>8. OpensApart'
  <2>1. OpensApart
    BY <1>1 DEF Linked
  <2> QED
    BY <1>4, <2>1, CallTypes DEF OpensApart
<1>12. OpensAwaited'
  <2> SUFFICES ASSUME NEW g \in Handlers, call'[g].pc = "create",
                      NEW i \in 1 .. Len(jobs'[call'[g].new])
               PROVE  jobs'[call'[g].new][i].h = g
    BY DEF OpensAwaited
  <2>1. g # h /\ call'[g] = call[g]
    BY <1>4, CallTypes
  <2>2. PICK t \in Ids : t = call[g].new
    BY <1>1, <2>1, LinkedTypes
  <2>3. /\ Len(jobs'[t]) = Len(jobs[t])
        /\ \A k \in 1 .. Len(jobs[t]) : jobs[t][k] \in JobType /\ jobs'[t][k] = Hung(jobs[t][k], h)
    BY <1>1, HungUp DEF Hangup
  <2>4. i \in 1 .. Len(jobs[t]) /\ jobs[t][i].h = g
    BY <1>1, <2>1, <2>2, <2>3 DEF Linked, OpensAwaited
  <2> QED
    BY <2>1, <2>2, <2>3, <2>4, HungType
<1>9. JobsOK'
  BY <1>1, <1>4, <1>5, JobsHung
<1>10. ASSUME NEW t \in Ids PROVE IdOK(t)'
  <2>1. IdOK(t)
    BY <1>1 DEF Linked
  <2> QED
    BY <1>2, <1>3, <2>1 DEF Tells, IdOK
<1>11. ASSUME NEW g \in Handlers PROVE SendOK(g)'
  <2>1. CASE g = h
    BY <1>4, <2>1, CallTypes DEF SendOK, Sends
  <2>2. CASE g # h
    <3>1. call'[g] = call[g] /\ reply'[g] = reply[g]
      BY <1>3, <1>4, <2>2
    <3>2. ASSUME call[g].s \in Ids
          PROVE  /\ Live(call[g].s)' \/ Ok(g)' => Live(call[g].s) \/ Ok(g)
                 /\ ~client'[call[g].s].removed =>
                      ~client[call[g].s].removed /\ side[call[g].s].count <= side'[call[g].s].count
      BY <1>2, <3>1, <3>2 DEF Live, Ok, Tells
    <3>3. side' \in [Ids -> EntryType]
      BY DEF Tells
    <3> QED
      BY <1>5, <3>1, <3>2, <3>3, SendKept
  <2> QED
    BY <2>1, <2>2
<1> QED
  BY <1>6, <1>7, <1>8, <1>9, <1>10, <1>11, <1>12 DEF IInv, Linked

\* A handler that ends has recorded all it had to, or never will.
LEMMA UnrecordedEnds ==
  ASSUME Linked, NEW h \in Handlers, Hangup(h), call' = [call EXCEPT ![h] = Idle], NEW t \in Ids
  PROVE  Unrecorded(t)' \subseteq Unrecorded(t)
<1> SUFFICES ASSUME NEW g \in Handlers, g \in Unrecorded(t)' PROVE g \in Unrecorded(t)
  BY DEF Unrecorded
<1>1. call \in [Handlers -> CallType]
  BY LinkedTypes
<1>2. CASE g = h
  BY <1>1, <1>2, CallTypes DEF Unrecorded
<1>3. CASE g # h
  <2>1. call'[g] = call[g] /\ reply'[g] = reply[g]
    BY <1>1, <1>3 DEF Hangup
  <2> QED
    BY <2>1 DEF Unrecorded, Ok
<1> QED
  BY <1>2, <1>3

LEMMA EntriesSame ==
  ASSUME IInv, NEW h \in Handlers, Hangup(h), call' = [call EXCEPT ![h] = Idle],
         NEW t \in Ids, side'[t] = side[t], SameClient(t)
  PROVE  EntryOK(t)'
<1>1. session' = session /\ Linked
  BY DEF Hangup, IInv
<1>2. Unrecorded(t)' \subseteq Unrecorded(t)
  BY <1>1, UnrecordedEnds
<1>3. Evolves(t) /\ (Live(t)' => Live(t))
  BY <1>1 DEF Evolves, Live
<1> QED
  BY <1>2, <1>3, EntryKept

LEMMA ReturnsQuietly ==
  ASSUME IInv, NEW h \in Handlers, Hangup(h),
         call' = [call EXCEPT ![h] = Idle], calls' = calls, faults' \in 0 .. MaxFaults,
         saved' \subseteq SessionType, \A r \in saved' : r.st = "live",
         client' \in [Ids -> ClientType], UNCHANGED served,
         \A t \in Ids : client'[t] = client[t] \/ (client[t].known /\ SameClient(t))
  PROVE  IInv'
<1>1. /\ Linked
      /\ client \in [Ids -> ClientType] /\ side \in [Ids -> EntryType]
  BY LinkedTypes DEF IInv
<1>2. side' = side /\ stage' = stage /\ draining' = draining /\ session' = session
  BY DEF served, Hangup
<1>3. ASSUME NEW t \in Ids
      PROVE  SameClient(t) /\ (client'[t] = client[t] \/ client[t].known)
  BY DEF SameClient
<1>4. Tells
  <2>1. ClientsLearn
    <3>1. \A t \in Ids : client[t].block \in Nat
      BY <1>1 DEF ClientType
    <3> QED
      BY <1>3, <3>1 DEF ClientsLearn, SameClient
  <2>2. ASSUME NEW t \in Ids
        PROVE  /\ client'[t].known => session[t].st # "none"
               /\ ~client'[t].known => client'[t] = Stranger /\ side'[t] = NoEntry
               /\ ~client'[t].removed => ~client[t].removed
    <3>1. IdOK(t) /\ client'[t].known = client[t].known
      BY <1>1, <1>3 DEF Linked, SameClient
    <3> QED
      BY <1>2, <1>3, <3>1 DEF IdOK, SameClient
  <2>3. \A t \in Ids : side[t].count <= side'[t].count
    BY <1>1, <1>2 DEF EntryType
  <2> QED
    BY <1>1, <1>2, <2>1, <2>2, <2>3 DEF Tells
<1>5. \A g \in Handlers : g # h /\ call[g].pc = "create" => ~client'[call[g].new].known
  BY <1>1, <1>3, LinkedTypes DEF Linked, CallOK, SameClient
<1>6. ASSUME NEW t \in Ids PROVE EntryOK(t)'
  BY <1>2, <1>3, EntriesSame
<1>7. ReceiptsOfSends'
  <2>1. \A t \in Ids : /\ client'[t].sent = client[t].sent
                       /\ client[t].removed => client'[t].removed
    BY <1>3 DEF SameClient
  <2> QED
    BY <1>2, <2>1, SessionsSame, ReceiptsKept
<1> QED
  BY <1>2, <1>4, <1>5, <1>6, <1>7, ReturnsOn

\* What a request's answer tells of its own session, whose entry it leaves alone.
LEMMA ReturnsTelling ==
  ASSUME IInv, NEW h \in Handlers, NEW s \in Ids, Hangup(h),
         call' = [call EXCEPT ![h] = Idle], calls' = calls, faults' = faults, saved' = saved,
         UNCHANGED served, client[s].known,
         client' \in [Ids -> ClientType], \A t \in Ids : t # s => client'[t] = client[t],
         client'[s].known = client[s].known, client'[s].kept = client[s].kept,
         client'[s].removed = client[s].removed, client'[s].late = client[s].late,
         client'[s].sent = client[s].sent,
         client[s].block <= client'[s].block,
         ~client[s].removed => client'[s].block <= session[s].block + side[s].count,
         Live(s) => \A p \in client'[s].prices : BaseFee[session[s].block] <= p
  PROVE  IInv'
<1>1. /\ Linked /\ TypeOK
      /\ client \in [Ids -> ClientType] /\ side \in [Ids -> EntryType]
  BY LinkedTypes DEF IInv, Linked
<1>2. side' = side /\ stage' = stage /\ draining' = draining /\ session' = session
  BY DEF served, Hangup
<1>3. ASSUME NEW t \in Ids
      PROVE  /\ client'[t].known = client[t].known /\ client'[t].removed = client[t].removed
             /\ client'[t].sent = client[t].sent
             /\ client'[t] = client[t] \/ client[t].known
  OBVIOUS
<1>4. Tells
  <2>1. ClientsLearn
    <3>1. \A t \in Ids : client[t].block \in Nat
      BY <1>1 DEF ClientType
    <3>2. ASSUME NEW t \in Ids
          PROVE  /\ client[t].known => client'[t].known
                 /\ client[t].block <= client'[t].block
      <4>1. CASE t = s
        BY <4>1
      <4>2. CASE t # s
        BY <3>1, <4>2
      <4> QED
        BY <4>1, <4>2
    <3> QED
      BY <3>2 DEF ClientsLearn
  <2>2. ASSUME NEW t \in Ids
        PROVE  /\ client'[t].known => session[t].st # "none"
               /\ ~client'[t].known => client'[t] = Stranger /\ side'[t] = NoEntry
               /\ ~client'[t].removed => ~client[t].removed
    BY <1>1, <1>2, <1>3 DEF IdOK, Linked
  <2>3. \A t \in Ids : side[t].count <= side'[t].count
    BY <1>1, <1>2 DEF EntryType
  <2> QED
    BY <1>1, <1>2, <2>1, <2>2, <2>3 DEF Tells
<1>5. \A g \in Handlers : g # h /\ call[g].pc = "create" => ~client'[call[g].new].known
  BY <1>1, <1>3, LinkedTypes DEF Linked, CallOK
<1>6. ASSUME NEW t \in Ids PROVE EntryOK(t)'
  <2>1. CASE t # s
    BY <1>2, <2>1, EntriesSame DEF SameClient
  <2>2. CASE t = s
    <3>1. EntryOK(s) /\ Unrecorded(s)' \subseteq Unrecorded(s)
      BY <1>1, UnrecordedEnds DEF IInv
    <3>2. (Numbered(s)' <=> Numbered(s)) /\ (Live(s)' <=> Live(s))
      BY <1>2 DEF Numbered, Receipts, EthGetTransactionReceipt, Live
    <3> QED
      BY <1>2, <2>2, <3>1, <3>2 DEF EntryOK
  <2> QED
    BY <2>1, <2>2
<1>7. ReceiptsOfSends'
  BY <1>2, <1>3, SessionsSame, ReceiptsKept
<1>8. faults' \in 0 .. MaxFaults /\ saved' \subseteq SessionType /\ \A r \in saved' : r.st = "live"
  BY <1>1 DEF TypeOK, ManagerTypeOK, Linked
<1> QED
  BY <1>2, <1>4, <1>5, <1>6, <1>7, <1>8, ReturnsOn

\* What the answer a handler reads is worth.
LEMMA Read ==
  ASSUME IInv, NEW h \in Handlers, NEW by, NEW m, NEW pc, At(h, by, m, pc),
         pc # "idle", m # "open"
  PROVE  /\ Answered(h) /\ call[h].by = by /\ call[h].m = m /\ call[h].pc = pc
         /\ call[h] \in CallType /\ call[h].s \in Ids /\ client[call[h].s].known
         /\ call[h].floor \in Nat /\ call[h].floor <= client[call[h].s].block
         /\ call[h].n \in Nat /\ session[call[h].s] \in SessionType
         /\ Seen(h) \in SessionType /\ reply[h].st \in Answers
         /\ CallOK(h) /\ AnswerOK(h) /\ SendOK(h)
<1>1. Linked /\ CallOK(h) /\ AnswerOK(h) /\ SendOK(h)
  BY DEF IInv, Linked
<1>2. Answered(h) /\ call[h].by = by /\ call[h].m = m /\ call[h].pc = pc
  BY DEF At, Answered
<1>3. call[h] \in CallType /\ session \in [Ids -> SessionType]
  BY <1>1, LinkedTypes
<1>4. call[h].s \in Ids /\ client[call[h].s].known /\ call[h].floor <= client[call[h].s].block
  BY <1>1, <1>2 DEF CallOK
<1>5. Seen(h) \in SessionType /\ reply[h].st \in Answers
  BY <1>1, <1>2, LinkedTypes
<1> QED
  BY <1>1, <1>2, <1>3, <1>4, <1>5 DEF CallType

LEMMA StepDone ==
  ASSUME IInv, NEW h \in Handlers, Done(h), UNCHANGED served
  PROVE  IInv'
<1>1. /\ client \in [Ids -> ClientType] /\ saved \subseteq SessionType /\ faults \in 0 .. MaxFaults
      /\ \A r \in saved : r.st = "live"
  BY DEF IInv, Linked, TypeOK, ManagerTypeOK
<1>2. /\ Hangup(h) /\ call' = [call EXCEPT ![h] = Idle] /\ calls' = calls
      /\ client' = client /\ faults' = faults /\ saved' = saved
  BY DEF Done, Return
<1> QED
  BY <1>1, <1>2, ReturnsQuietly

LEMMA StepSnapshotted ==
  ASSUME IInv, NEW h \in Handlers, NEW by, Snapshotted(h, by), UNCHANGED served
  PROVE  IInv'
<1>1. /\ client \in [Ids -> ClientType] /\ saved \subseteq SessionType /\ faults \in 0 .. MaxFaults
      /\ \A r \in saved : r.st = "live"
  BY DEF IInv, Linked, TypeOK, ManagerTypeOK
<1>2. /\ Hangup(h) /\ call' = [call EXCEPT ![h] = Idle] /\ calls' = calls
      /\ client' = client /\ faults' = faults
      /\ saved' = saved \/ saved' = saved \cup {Restored(Seen(h))}
      /\ At(h, by, "snapshot", "state")
  BY DEF Snapshotted, Return
<1>3. Seen(h) \in SessionType
  BY <1>2, Read
<1>4. saved' \subseteq SessionType /\ \A r \in saved' : r.st = "live"
  BY <1>1, <1>2, <1>3, SessionTypes
<1> QED
  BY <1>1, <1>2, <1>4, ReturnsQuietly

LEMMA StepDropped ==
  ASSUME IInv, NEW h \in Handlers, Dropped(h), UNCHANGED served
  PROVE  IInv'
<1> DEFINE s == call[h].s
<1>1. /\ client \in [Ids -> ClientType] /\ saved \subseteq SessionType /\ faults \in 0 .. MaxFaults
      /\ \A r \in saved : r.st = "live"
      /\ call[h] \in CallType /\ CallOK(h) /\ MaxFaults \in Nat
  BY ManagerAssumption DEF IInv, Linked, TypeOK, ManagerTypeOK
<1>2. /\ Hangup(h) /\ call' = [call EXCEPT ![h] = Idle] /\ calls' = calls
      /\ saved' = saved /\ faults' = faults + 1 /\ faults < MaxFaults
      /\ call[h].pc # "idle"
      /\ client' = [t \in Ids |-> IF t = s THEN [client[t] EXCEPT !.shared = TRUE] ELSE client[t]]
  BY DEF Dropped
<1>3. faults' \in 0 .. MaxFaults
  BY <1>1, <1>2
<1>4. client' \in [Ids -> ClientType]
  BY <1>1, <1>2 DEF ClientType
<1>5. ASSUME NEW t \in Ids
      PROVE  client'[t] = client[t] \/ (client[t].known /\ SameClient(t))
  <2>1. CASE t # s
    BY <1>2, <2>1
  <2>2. CASE t = s /\ call[h].m = "open"
    BY <1>1, <1>2, <2>2, IdTypes DEF CallOK
  <2>3. CASE t = s /\ call[h].m # "open"
    <3>1. client[t].known
      BY <1>1, <1>2, <2>3 DEF CallOK
    <3>2. client[t] \in ClientType
      BY <1>1
    <3>3. client'[t] = [client[t] EXCEPT !.shared = TRUE]
      BY <1>2, <2>3
    <3>4. SameClient(t)
      BY <3>2, <3>3 DEF SameClient, ClientType
    <3> QED
      BY <3>1, <3>4
  <2> QED
    BY <2>1, <2>2, <2>3
<1> QED
  BY <1>1, <1>2, <1>3, <1>4, <1>5, ReturnsQuietly

LEMMA StepGasPrice ==
  ASSUME IInv, NEW h \in Handlers, GasPriceAnswered(h), UNCHANGED served
  PROVE  IInv'
<1>1. PICK s \in Ids : s = call[h].s
  BY Read DEF GasPriceAnswered
<1>2. /\ At(h, "http", "gas_price", "env") /\ Hangup(h) /\ call' = [call EXCEPT ![h] = Idle]
      /\ calls' = calls /\ faults' = faults /\ saved' = saved
      /\ client' = [client EXCEPT ![s] = [client[s] EXCEPT !.prices = client[s].prices \cup {GasPrice(h)}]]
  BY <1>1 DEF GasPriceAnswered, Return
<1>3. /\ Answered(h) /\ call[h].pc = "env" /\ client[s].known
      /\ session[s] \in SessionType /\ Seen(h) \in SessionType /\ AnswerOK(h)
  BY <1>1, <1>2, Read
<1>4. client \in [Ids -> ClientType] /\ tip \in Blocks /\ EntryOK(s)
  BY DEF IInv, Linked, TypeOK, ManagerTypeOK
<1>5. SessionBlockEnv(h) \in Blocks
  BY <1>3, <1>4 DEF SessionBlockEnv, SessionType
<1>6. GasPrice(h) \in Nat /\ GasPrice(h) >= BaseFee[SessionBlockEnv(h)]
  <2>1. BaseFee[SessionBlockEnv(h)] \in Nat
    BY <1>5, BlockTypes
  <2>2. PriorityFee \in Nat
    BY HttpAssumption
  <2> QED
    BY <2>1, <2>2 DEF GasPrice
<1>7. /\ client' \in [Ids -> ClientType] /\ \A t \in Ids : t # s => client'[t] = client[t]
      /\ client'[s].known = client[s].known /\ client'[s].kept = client[s].kept
      /\ client'[s].removed = client[s].removed /\ client'[s].late = client[s].late
      /\ client'[s].sent = client[s].sent /\ client'[s].block = client[s].block
      /\ client'[s].prices = client[s].prices \cup {GasPrice(h)}
  <2>1. client[s] \in ClientType
    BY <1>4
  <2>2. client'[s] = [client[s] EXCEPT !.prices = client[s].prices \cup {GasPrice(h)}]
    BY <1>2, <1>4
  <2>3. client'[s] \in ClientType
    BY <1>6, <2>1, <2>2 DEF ClientType
  <2>4. client' \in [Ids -> ClientType] /\ \A t \in Ids : t # s => client'[t] = client[t]
    BY <1>2, <1>4, <2>2, <2>3
  <2> QED
    BY <2>1, <2>2, <2>4 DEF ClientType
<1>8. Live(s) => BaseFee[session[s].block] <= GasPrice(h)
  <2>1. Live(s) => Ok(h) /\ Seen(h).block = session[s].block
    BY <1>1, <1>3 DEF AnswerOK, Live
  <2> QED
    BY <1>5, <1>6, <2>1, BlockTypes DEF SessionBlockEnv
<1>9. Live(s) => \A p \in client'[s].prices : BaseFee[session[s].block] <= p
  BY <1>4, <1>7, <1>8 DEF EntryOK
<1>10. /\ client[s].block <= client'[s].block
       /\ ~client[s].removed => client'[s].block <= session[s].block + side[s].count
  BY <1>3, <1>4, <1>7 DEF EntryOK, ClientType
<1> QED
  BY <1>2, <1>3, <1>7, <1>9, <1>10, ReturnsTelling

LEMMA StepBlockNumber ==
  ASSUME IInv, NEW h \in Handlers, BlockNumberAnswered(h), UNCHANGED served
  PROVE  IInv'
<1>1. PICK s \in Ids : s = call[h].s
  BY Read DEF BlockNumberAnswered
<1> DEFINE number == RealBlockNumber(h)
           top == IF Ok(h) THEN Higher(client[s].block, number) ELSE client[s].block
<1>2. /\ At(h, "http", "block_number", "env") /\ Hangup(h) /\ call' = [call EXCEPT ![h] = Idle]
      /\ calls' = calls /\ faults' = faults /\ saved' = saved
      /\ client' = [client EXCEPT ![s] = [client[s] EXCEPT !.block = top]]
  BY <1>1 DEF BlockNumberAnswered, Return, ToldBlock
<1>3. /\ Answered(h) /\ call[h].pc = "env" /\ call[h].m = "block_number" /\ client[s].known
      /\ session[s] \in SessionType /\ Seen(h) \in SessionType /\ call[h].n \in Nat
      /\ AnswerOK(h) /\ SendOK(h)
  BY <1>1, <1>2, Read
<1>4. /\ client \in [Ids -> ClientType] /\ side \in [Ids -> EntryType] /\ tip \in Blocks
      /\ EntryOK(s)
  BY DEF IInv, Linked, TypeOK, ManagerTypeOK, HttpTypeOK
<1>5. client[s].block \in Nat /\ side[s].count \in Nat /\ session[s].block \in Nat
  BY <1>3, <1>4, BlockTypes DEF ClientType, EntryType, SessionType
<1>6. number \in Nat
  <2>1. SessionBlockEnv(h) \in Nat
    BY <1>3, <1>4, BlockTypes DEF SessionBlockEnv, SessionType
  <2> QED
    BY <1>3, <2>1 DEF RealBlockNumber
<1>7. Ok(h) => number = session[s].block + call[h].n
  BY <1>1, <1>3 DEF RealBlockNumber, SessionBlockEnv, AnswerOK
<1>8. ~client[s].removed => call[h].n <= side[s].count
  BY <1>1, <1>3 DEF SendOK
<1>9. /\ top \in Nat /\ client[s].block <= top
      /\ ~client[s].removed => top <= session[s].block + side[s].count
  <2>1. ~client[s].removed => client[s].block <= session[s].block + side[s].count
    BY <1>3, <1>4 DEF EntryOK
  <2> HIDE DEF number
  <2> QED
    BY <1>3, <1>5, <1>6, <1>7, <1>8, <2>1 DEF Higher
<1> HIDE DEF top
<1>10. /\ client' \in [Ids -> ClientType] /\ \A t \in Ids : t # s => client'[t] = client[t]
       /\ client'[s].known = client[s].known /\ client'[s].kept = client[s].kept
       /\ client'[s].removed = client[s].removed /\ client'[s].late = client[s].late
       /\ client'[s].sent = client[s].sent /\ client'[s].block = top
       /\ client'[s].prices = client[s].prices
  <2>1. client[s] \in ClientType
    BY <1>4
  <2>2. client'[s] = [client[s] EXCEPT !.block = top]
    BY <1>2, <1>4
  <2>3. client'[s] \in ClientType
    BY <1>9, <2>1, <2>2 DEF ClientType
  <2>4. client' \in [Ids -> ClientType] /\ \A t \in Ids : t # s => client'[t] = client[t]
    BY <1>2, <1>4, <2>2, <2>3
  <2> QED
    BY <2>1, <2>2, <2>4 DEF ClientType
<1>11. Live(s) => \A p \in client'[s].prices : BaseFee[session[s].block] <= p
  BY <1>4, <1>10 DEF EntryOK
<1>12. /\ client[s].block <= client'[s].block
       /\ ~client[s].removed => client'[s].block <= session[s].block + side[s].count
  BY <1>9, <1>10
<1> QED
  BY <1>2, <1>3, <1>10, <1>11, <1>12, ReturnsTelling

\* An id that is being opened is known to nobody, and has no entry.
LEMMA Opening ==
  ASSUME IInv, NEW h \in Handlers, call[h].pc = "create"
  PROVE  /\ call[h].new \in Ids /\ client[call[h].new] = Stranger /\ side[call[h].new] = NoEntry
         /\ ~client[call[h].new].known
         /\ \A g \in Handlers : g # h /\ call[g].pc = "create" => call[g].new # call[h].new
<1>1. Linked
  BY DEF IInv
<1>2. call[h].new \in Ids /\ ~client[call[h].new].known
  BY <1>1, LinkedTypes DEF Linked, CallOK
<1>3. client[call[h].new] = Stranger /\ side[call[h].new] = NoEntry
  BY <1>1, <1>2 DEF Linked, IdOK
<1>4. \A g \in Handlers : g # h /\ call[g].pc = "create" => call[g].new # call[h].new
  BY <1>1 DEF Linked, OpensApart
<1> QED
  BY <1>2, <1>3, <1>4

\* An id is told of: its client record and its entry are written, no other's.
LEMMA ReturnsWriting ==
  ASSUME IInv, NEW h \in Handlers, NEW s \in Ids, Hangup(h),
         call' = [call EXCEPT ![h] = Idle], calls' = calls, faults' = faults, saved' = saved,
         UNCHANGED <<stage, draining>>,
         NEW c \in ClientType, NEW e \in EntryType,
         client' = [client EXCEPT ![s] = c], side' = [side EXCEPT ![s] = e],
         c.known, session[s].st # "none",
         client[s].known \/ (call[h].pc = "create" /\ call[h].new = s),
         client[s].block <= c.block,
         ~c.removed => ~client[s].removed /\ side[s].count <= e.count,
         EntryOK(s)', ReceiptsOfSends'
  PROVE  IInv'
<1>1. /\ Linked /\ TypeOK
      /\ client \in [Ids -> ClientType] /\ side \in [Ids -> EntryType]
  BY LinkedTypes DEF IInv, Linked
<1>2. /\ client'[s] = c /\ side'[s] = e
      /\ client' \in [Ids -> ClientType] /\ side' \in [Ids -> EntryType]
      /\ \A t \in Ids : t # s => client'[t] = client[t] /\ side'[t] = side[t]
  BY <1>1
<1>3. Tells
  <2>1. ASSUME NEW t \in Ids, t # s
        PROVE  /\ client[t].known => client'[t].known
               /\ client[t].block <= client'[t].block
               /\ client'[t].known => session[t].st # "none"
               /\ ~client'[t].known => client'[t] = Stranger /\ side'[t] = NoEntry
               /\ ~client'[t].removed => ~client[t].removed /\ side[t].count <= side'[t].count
    <3>1. client'[t] = client[t] /\ side'[t] = side[t] /\ IdOK(t)
      BY <1>1, <1>2, <2>1 DEF Linked
    <3>2. client[t].block \in Nat /\ side[t].count \in Nat
      BY <1>1 DEF ClientType, EntryType
    <3> QED
      BY <3>1, <3>2 DEF IdOK
  <2>2. /\ client[s].known => client'[s].known
        /\ client[s].block <= client'[s].block
        /\ client'[s].known => session[s].st # "none"
        /\ ~client'[s].known => client'[s] = Stranger /\ side'[s] = NoEntry
        /\ ~client'[s].removed => ~client[s].removed /\ side[s].count <= side'[s].count
    BY <1>2
  <2> QED
    BY <1>2, <2>1, <2>2 DEF Tells, ClientsLearn
<1>4. ASSUME NEW g \in Handlers, g # h, call[g].pc = "create" PROVE ~client'[call[g].new].known
  <2>1. call[g].new \in Ids /\ ~client[call[g].new].known
    BY <1>4, Opening
  <2>2. call[g].new # s
    BY <1>4, <2>1, Opening
  <2> QED
    BY <1>2, <2>1, <2>2
<1>5. ASSUME NEW t \in Ids PROVE EntryOK(t)'
  <2>1. CASE t # s
    <3>1. side'[t] = side[t] /\ SameClient(t)
      BY <1>2, <2>1 DEF SameClient
    <3> QED
      BY <3>1, EntriesSame
  <2>2. CASE t = s
    BY <2>2
  <2> QED
    BY <2>1, <2>2
<1>6. faults' \in 0 .. MaxFaults /\ saved' \subseteq SessionType /\ \A r \in saved' : r.st = "live"
  BY <1>1 DEF TypeOK, ManagerTypeOK, Linked
<1> QED
  BY <1>3, <1>4, <1>5, <1>6, ReturnsOn

LEMMA StepOpened ==
  ASSUME IInv, NEW h \in Handlers, NEW by, Opened(h, by), UNCHANGED served
  PROVE  IInv'
<1>1. Answered(h) /\ call[h].pc = "create"
  BY DEF Opened, At, Answered
<1>2. PICK s \in Ids : s = call[h].new
  BY <1>1, Opening
<1> DEFINE c == [client[s] EXCEPT !.known = TRUE]
<1>3. /\ Hangup(h) /\ call' = [call EXCEPT ![h] = Idle]
      /\ calls' = calls /\ faults' = faults /\ saved' = saved
      /\ side' = side /\ stage' = stage /\ draining' = draining
      /\ client' = [client EXCEPT ![s] = c]
  BY <1>2 DEF Opened, Return, served
<1>4. client[s] = Stranger /\ side[s] = NoEntry
  BY <1>1, <1>2, Opening
<1>5. c = [Stranger EXCEPT !.known = TRUE]
  BY <1>4
<1> HIDE DEF c
<1>6. /\ c \in ClientType /\ c.known /\ ~c.removed /\ c.block = 0
      /\ c.prices = {} /\ c.sent = {}
  BY <1>5, ClientTypes DEF ClientType, Stranger
<1>7. /\ client \in [Ids -> ClientType] /\ side \in [Ids -> EntryType] /\ AnswerOK(h)
      /\ session \in [Ids -> SessionType]
  BY DEF IInv, Linked, TypeOK, ManagerTypeOK, HttpTypeOK
<1>8. session[s].st # "none"
  BY <1>1, <1>2, <1>7 DEF AnswerOK
<1>9. client'[s] = c /\ side' = [side EXCEPT ![s] = side[s]] /\ session' = session
  BY <1>3, <1>7 DEF Hangup
<1>10. EntryOK(s)'
  <2>1. side'[s] = NoEntry /\ client'[s] = c
    BY <1>3, <1>4, <1>9
  <2>2. Receipts(s)' = {}
    BY <2>1, EntryTypes DEF Receipts, EthGetTransactionReceipt
  <2>3. session'[s].block \in Nat
    BY <1>7, <1>9, BlockTypes DEF SessionType
  <2> QED
    BY <1>6, <2>1, <2>2, <2>3, EntryTypes DEF EntryOK, Numbered
<1>11. ReceiptsOfSends'
  <2>1. \A t \in Ids : /\ client'[t].sent = client[t].sent
                       /\ client[t].removed => client'[t].removed
    BY <1>3, <1>4, <1>6, <1>7, ClientTypes
  <2> QED
    BY <1>3, <1>9, <2>1, SessionsSame, ReceiptsKept
<1>12. /\ client[s].block <= c.block /\ side[s].count <= side[s].count /\ ~client[s].removed
       /\ side[s] \in EntryType
  BY <1>4, <1>6, ClientTypes, EntryTypes
<1> QED
  BY <1>1, <1>2, <1>3, <1>6, <1>8, <1>9, <1>10, <1>11, <1>12, ReturnsWriting

LEMMA StepDiscardAnswered ==
  ASSUME IInv, NEW h \in Handlers, DiscardAnswered(h), UNCHANGED <<stage, draining>>
  PROVE  IInv'
<1>1. PICK s \in Ids : s = call[h].s
  BY Read DEF DiscardAnswered
<1> DEFINE c == [client[s] EXCEPT !.removed = TRUE, !.late = client[s].late \/ Unrecorded(s) # {}]
<1>2. /\ At(h, "http", "discard", "discard") /\ Hangup(h) /\ call' = [call EXCEPT ![h] = Idle]
      /\ calls' = calls /\ faults' = faults /\ saved' = saved
      /\ client' = [client EXCEPT ![s] = c] /\ side' = [side EXCEPT ![s] = NoEntry]
  BY <1>1 DEF DiscardAnswered, Return
<1>3. /\ client \in [Ids -> ClientType] /\ side \in [Ids -> EntryType] /\ EntryOK(s) /\ Linked
      /\ client[s] \in ClientType
  BY DEF IInv, Linked, TypeOK, ManagerTypeOK, HttpTypeOK
<1>4. /\ Answered(h) /\ call[h].pc = "discard" /\ client[s].known
      /\ session[s].st = "gone"
  BY <1>1, <1>2, Read DEF AnswerOK
<1>5. /\ c \in ClientType /\ c.known /\ c.removed /\ c.block = client[s].block
      /\ c.sent = client[s].sent
      /\ ~c.late => Unrecorded(s) = {}
  BY <1>3, <1>4 DEF ClientType
<1> HIDE DEF c
<1>6. client'[s] = c /\ side'[s] = NoEntry /\ session' = session
  BY <1>2, <1>3 DEF Hangup
<1>7. EntryOK(s)'
  <2>1. Unrecorded(s)' \subseteq Unrecorded(s)
    BY <1>2, <1>3, UnrecordedEnds
  <2> QED
    BY <1>4, <1>5, <1>6, <2>1, EntryTypes DEF EntryOK, Live
<1>8. ReceiptsOfSends'
  <2>1. ReceiptsOfSends
    BY DEF IInv
  <2> SUFFICES ASSUME NEW t \in Ids, NEW tx \in Signed
               PROVE  /\ tx \in client'[t].sent /\ ~client'[t].removed => side'[t].receipts[tx] # NoReceipt
                      /\ side'[t].receipts[tx] # NoReceipt => \E a \in Ids : tx \in session'[a].signed
    BY DEF ReceiptsOfSends, EthGetTransactionReceipt
  <2>2. CASE t = s
    BY <1>5, <1>6, <2>2, EntryTypes
  <2>3. CASE t # s
    <3>1. client'[t] = client[t] /\ side'[t] = side[t]
      BY <1>2, <1>3, <2>3
    <3> QED
      BY <1>6, <2>1, <3>1 DEF ReceiptsOfSends, EthGetTransactionReceipt
  <2> QED
    BY <2>2, <2>3
<1>9. client[s].block <= c.block
  BY <1>3, <1>5 DEF ClientType
<1> QED
  BY <1>2, <1>4, <1>5, <1>7, <1>8, <1>9, EntryTypes, ReturnsWriting

\* A receipt is numbered past every other, within the counter it raises.
LEMMA Recorded ==
  ASSUME NEW e \in EntryType, NEW tx \in Signed, NEW start \in Nat
  PROVE  LET d == WithReceipt(e, tx, start) IN
         /\ d \in EntryType /\ d.present /\ d.count = e.count + 1
         /\ d.receipts[tx] = start + d.count /\ d.receipts[tx] # NoReceipt
         /\ \A ux \in Signed : ux # tx => d.receipts[ux] = e.receipts[ux]
<1> DEFINE d == WithReceipt(e, tx, start)
<1>1. e.count \in Nat /\ e.receipts \in [Signed -> Nat]
  BY DEF EntryType
<1>2. d.present = TRUE /\ d.count = e.count + 1
      /\ d.receipts = [e.receipts EXCEPT ![tx] = start + e.count + 1]
      /\ d = [present |-> TRUE, count |-> e.count + 1,
              receipts |-> [e.receipts EXCEPT ![tx] = start + e.count + 1]]
  BY DEF WithReceipt
<1>3. [e.receipts EXCEPT ![tx] = start + e.count + 1] \in [Signed -> Nat] /\ e.count + 1 \in Nat
  BY <1>1
<1>4. d \in EntryType
  BY <1>2, <1>3 DEF EntryType
<1>5. /\ d.receipts[tx] = start + e.count + 1
      /\ \A ux \in Signed : ux # tx => d.receipts[ux] = e.receipts[ux]
  BY <1>1, <1>2
<1>6. start + e.count + 1 = start + d.count /\ start + e.count + 1 # 0
  BY <1>1, <1>2
<1> HIDE DEF d
<1>7. d.present /\ d.receipts[tx] = start + d.count /\ d.receipts[tx] # NoReceipt
  BY <1>2, <1>5, <1>6 DEF NoReceipt
<1> QED
  BY <1>2, <1>4, <1>5, <1>7 DEF d

LEMMA StepSendRecorded ==
  ASSUME IInv, NEW h \in Handlers, SendRecorded(h), UNCHANGED <<stage, draining>>
  PROVE  IInv'
<1>0. PICK m \in Sends : At(h, "http", m, "env")
  BY DEF SendRecorded, Sends
<1>1. PICK s \in Ids : s = call[h].s
  BY <1>0, Read DEF Sends
<1>2. /\ Answered(h) /\ call[h].pc = "env" /\ call[h].m \in Sends /\ client[s].known
      /\ session[s] \in SessionType /\ Seen(h) \in SessionType
      /\ CallOK(h) /\ AnswerOK(h) /\ SendOK(h)
  BY <1>0, <1>1, Read DEF Sends
<1>3. /\ client \in [Ids -> ClientType] /\ side \in [Ids -> EntryType] /\ tip \in Blocks
      /\ EntryOK(s) /\ Linked /\ client[s] \in ClientType /\ side[s] \in EntryType /\ ReceiptsOfSends
  BY DEF IInv, Linked, TypeOK, ManagerTypeOK, HttpTypeOK
<1>4. PICK tx \in Signed : tx = call[h].tx
  BY <1>2 DEF CallOK
<1>5. PICK start \in Nat : start = SessionBlockEnv(h)
  BY <1>2, <1>3, BlockTypes DEF SessionBlockEnv, SessionType
<1>6. PICK e \in EntryType : e = WithReceipt(side[s], tx, start)
  BY <1>3, Recorded
<1>7. /\ e.present /\ e.count = side[s].count + 1
      /\ e.receipts[tx] = start + e.count /\ e.receipts[tx] # NoReceipt
      /\ \A ux \in Signed : ux # tx => e.receipts[ux] = side[s].receipts[ux]
  BY <1>3, <1>6, Recorded
<1> DEFINE top == IF call[h].m = "send_sync" /\ Ok(h) THEN Higher(client[s].block, e.receipts[tx])
                                                      ELSE client[s].block
           c == [client[s] EXCEPT !.sent = client[s].sent \cup {tx}, !.block = top]
<1>8. /\ Hangup(h) /\ call' = [call EXCEPT ![h] = Idle]
      /\ calls' = calls /\ faults' = faults /\ saved' = saved
      /\ client' = [client EXCEPT ![s] = c] /\ side' = [side EXCEPT ![s] = e]
  BY <1>1, <1>4, <1>5, <1>6 DEF SendRecorded, Return, Sent
<1>9. /\ client[s].block \in Nat /\ side[s].count \in Nat /\ session[s].block \in Nat
      /\ e.count \in Nat /\ e.receipts[tx] \in Nat
  BY <1>2, <1>3, BlockTypes DEF ClientType, EntryType, SessionType
<1>10. Ok(h) => start = session[s].block
  BY <1>1, <1>2, <1>5 DEF SessionBlockEnv, AnswerOK
<1>11. /\ top \in Nat /\ client[s].block <= top
       /\ client[s].block <= session[s].block + side[s].count => top <= session[s].block + e.count
  BY <1>7, <1>9, <1>10 DEF Higher
<1> HIDE DEF top
<1>12. /\ c \in ClientType /\ c.known /\ c.block = top /\ c.sent = client[s].sent \cup {tx}
       /\ c.removed = client[s].removed /\ c.late = client[s].late /\ c.kept = client[s].kept
       /\ c.prices = client[s].prices
  BY <1>2, <1>3, <1>11 DEF ClientType
<1> HIDE DEF c
<1>13. client'[s] = c /\ side'[s] = e /\ session' = session
  BY <1>3, <1>8 DEF Hangup
<1>14. session[s].st # "none" /\ tx \in session[s].signed
  BY <1>1, <1>2, <1>3, <1>4 DEF Linked, IdOK, SendOK
<1>15. EntryOK(s)'
  <2>1. ASSUME Live(s), client[s].kept PROVE Numbered(s)'
    <3>1. start = session[s].block
      BY <1>1, <1>2, <1>10, <2>1 DEF AnswerOK, Live
    <3>2. Numbered(s)
      BY <1>3, <2>1 DEF EntryOK
    <3>3. ASSUME NEW ux \in Signed, e.receipts[ux] # NoReceipt, ux # tx
          PROVE  /\ e.receipts[ux] \in Nat /\ e.receipts[ux] - session[s].block \in 1 .. side[s].count
                 /\ e.receipts[ux] = side[s].receipts[ux] /\ ux \in Receipts(s)
      <4>1. e.receipts[ux] = side[s].receipts[ux] /\ ux \in Receipts(s)
        BY <1>7, <3>3 DEF Receipts, EthGetTransactionReceipt
      <4>2. e.receipts[ux] - session[s].block \in 1 .. side[s].count
        BY <3>2, <4>1 DEF Numbered
      <4>3. e.receipts[ux] \in Nat
        BY DEF EntryType
      <4> QED
        BY <4>1, <4>2, <4>3
    <3>4. e.receipts[tx] = session[s].block + side[s].count + 1
      BY <1>7, <1>9, <3>1
    <3>5. Receipts(s)' = {ux \in Signed : e.receipts[ux] # NoReceipt}
      BY <1>13 DEF Receipts, EthGetTransactionReceipt
    <3>6. ASSUME NEW ux \in Signed, e.receipts[ux] # NoReceipt
          PROVE  e.receipts[ux] - session[s].block \in 1 .. e.count
      <4>1. CASE ux = tx
        BY <1>7, <1>9, <3>4, <4>1
      <4>2. CASE ux # tx
        <5>1. e.receipts[ux] \in Nat /\ e.receipts[ux] - session[s].block \in 1 .. side[s].count
          BY <3>3, <3>6, <4>2
        <5> QED
          BY <1>7, <1>9, <5>1
      <4> QED
        BY <4>1, <4>2
    <3>7. ASSUME NEW ux \in Signed, NEW vx \in Signed, ux # vx,
                 e.receipts[ux] # NoReceipt, e.receipts[vx] # NoReceipt
          PROVE  e.receipts[ux] # e.receipts[vx]
      <4>1. CASE ux # tx /\ vx # tx
        BY <3>2, <3>3, <3>7, <4>1 DEF Numbered
      <4>2. ASSUME NEW wx \in Signed, wx # tx, e.receipts[wx] # NoReceipt
            PROVE  e.receipts[wx] # e.receipts[tx]
        <5>1. e.receipts[wx] \in Nat /\ e.receipts[wx] - session[s].block \in 1 .. side[s].count
          BY <3>3, <4>2
        <5> QED
          BY <1>9, <3>4, <5>1
      <4> QED
        BY <3>7, <4>1, <4>2
    <3> QED
      BY <1>13, <3>5, <3>6, <3>7 DEF Numbered
  <2>2. h \in Unrecorded(s)
    BY <1>1, <1>2 DEF Unrecorded, Sends
  <2>3. ~(client[s].removed /\ ~client[s].late)
    BY <1>3, <2>2 DEF EntryOK
  <2>4. client[s].known /\ ~client[s].removed => top <= session[s].block + e.count
    BY <1>3, <1>11 DEF EntryOK
  <2>5. ~side'[s].present => side'[s] = NoEntry
    BY <1>7, <1>13
  <2>6. Live(s)' /\ client'[s].kept => Numbered(s)'
    BY <1>12, <1>13, <2>1 DEF Live
  <2>7. /\ client'[s].removed => session'[s].st = "gone"
        /\ ~(client'[s].removed /\ ~client'[s].late)
    BY <1>3, <1>12, <1>13, <2>3 DEF EntryOK
  <2>8. client'[s].known /\ ~client'[s].removed =>
          client'[s].block <= session'[s].block + side'[s].count
    BY <1>2, <1>12, <1>13, <2>4
  <2>9. Live(s)' => \A p \in client'[s].prices : BaseFee[session'[s].block] <= p
    BY <1>3, <1>12, <1>13 DEF EntryOK, Live
  <2> QED
    BY <2>5, <2>6, <2>7, <2>8, <2>9 DEF EntryOK
<1>16. ReceiptsOfSends'
  <2> SUFFICES ASSUME NEW t \in Ids, NEW ux \in Signed
               PROVE  /\ ux \in client'[t].sent /\ ~client'[t].removed => side'[t].receipts[ux] # NoReceipt
                      /\ side'[t].receipts[ux] # NoReceipt => \E a \in Ids : ux \in session'[a].signed
    BY DEF ReceiptsOfSends, EthGetTransactionReceipt
  <2>1. /\ ux \in client[t].sent /\ ~client[t].removed => side[t].receipts[ux] # NoReceipt
        /\ side[t].receipts[ux] # NoReceipt => \E a \in Ids : ux \in session[a].signed
    BY <1>3 DEF ReceiptsOfSends, EthGetTransactionReceipt
  <2>2. CASE t # s
    <3>1. client'[t] = client[t] /\ side'[t] = side[t]
      BY <1>3, <1>8, <2>2
    <3> QED
      BY <1>13, <2>1, <3>1
  <2>3. CASE t = s /\ ux = tx
    BY <1>7, <1>13, <1>14, <2>3
  <2>4. CASE t = s /\ ux # tx
    BY <1>7, <1>12, <1>13, <2>1, <2>4
  <2> QED
    BY <2>2, <2>3, <2>4
<1>17. /\ client[s].block <= c.block
       /\ ~c.removed => ~client[s].removed /\ side[s].count <= e.count
  BY <1>7, <1>9, <1>11, <1>12
<1> QED
  BY <1>2, <1>8, <1>12, <1>14, <1>15, <1>16, <1>17, ReturnsWriting

LEMMA StepForkFromAdopted ==
  ASSUME IInv, NEW h \in Handlers, ForkFromAdopted(h), UNCHANGED <<stage, draining>>
  PROVE  IInv'
<1>0. At(h, "http", "fork_from", "create")
  BY DEF ForkFromAdopted
<1>1. PICK p \in Ids : p = call[h].s
  BY <1>0, Read
<1>2. PICK k \in Ids : k = call[h].new
  BY <1>0, Opening DEF At
<1>3. /\ Answered(h) /\ call[h].pc = "create" /\ call[h].m = "fork_from"
      /\ client[p].known /\ call[h].floor \in Nat /\ call[h].floor <= client[p].block
      /\ CallOK(h) /\ AnswerOK(h)
  BY <1>0, <1>1, Read
<1>4. /\ client \in [Ids -> ClientType] /\ side \in [Ids -> EntryType] /\ session \in [Ids -> SessionType]
      /\ EntryOK(p) /\ Linked /\ client[p] \in ClientType /\ side[p] \in EntryType /\ ReceiptsOfSends
  BY DEF IInv, Linked, TypeOK, ManagerTypeOK, HttpTypeOK
<1>5. client[k] = Stranger /\ side[k] = NoEntry /\ client[k].block = 0 /\ ~client[k].removed
  BY <1>2, <1>3, Opening, ClientTypes
<1>6. PICK e \in EntryType : e = Inherited(p, k)
  BY <1>4, <1>5, EntryTypes DEF Inherited
<1>7. e = side[p] \/ (e = NoEntry /\ ~side[p].present)
  BY <1>5, <1>6 DEF Inherited
<1> DEFINE told == IF client[p].removed THEN client[k].block ELSE call[h].floor
           c == [client[k] EXCEPT !.known = TRUE, !.shared = client[p].shared,
                                  !.kept = client[p].kept /\ Live(p), !.block = told]
<1>8. /\ Hangup(h) /\ call' = [call EXCEPT ![h] = Idle]
      /\ calls' = calls /\ faults' = faults /\ saved' = saved
      /\ client' = [client EXCEPT ![k] = c] /\ side' = [side EXCEPT ![k] = e]
  BY <1>1, <1>2, <1>6 DEF ForkFromAdopted, Return, Branched
<1>9. told \in Nat /\ (client[p].removed => told = 0) /\ (~client[p].removed => told = call[h].floor)
  BY <1>3, <1>5
<1> HIDE DEF told
<1>10. c = [Stranger EXCEPT !.known = TRUE, !.shared = client[p].shared,
                            !.kept = client[p].kept /\ Live(p), !.block = told]
  BY <1>5
<1>11. client[p].shared \in BOOLEAN /\ client[p].kept \in BOOLEAN /\ Live(p) \in BOOLEAN
  BY <1>4 DEF ClientType, Live
<1> HIDE DEF c
<1>12. /\ c.known = TRUE /\ c.removed = FALSE /\ c.block = told
       /\ c.prices = {} /\ c.sent = {} /\ c.kept = (client[p].kept /\ Live(p))
  BY <1>10, ClientTypes DEF Stranger
<1>13. c \in ClientType
  BY <1>9, <1>10, <1>11 DEF ClientType, Stranger
<1>14. client'[k] = c /\ side'[k] = e /\ session' = session
  BY <1>4, <1>8 DEF Hangup
<1>15. session[k].st # "none" /\ session[k].block = session[p].block
  BY <1>1, <1>2, <1>3 DEF CallOK, AnswerOK
<1>16. EntryOK(k)'
  <2>1. ~e.present => e = NoEntry
    BY <1>4, <1>7 DEF EntryOK
  <2>2. ASSUME client[p].kept, Live(p) PROVE Numbered(k)'
    <3>1. Numbered(p)
      BY <1>4, <2>2 DEF EntryOK
    <3>2. Receipts(k)' = {tx \in Signed : e.receipts[tx] # NoReceipt}
      BY <1>14 DEF Receipts, EthGetTransactionReceipt
    <3>3. CASE e = side[p]
      <4>1. Receipts(k)' = Receipts(p)
        BY <3>2, <3>3 DEF Receipts, EthGetTransactionReceipt
      <4> QED
        BY <1>14, <1>15, <3>1, <3>3, <4>1 DEF Numbered
    <3>4. CASE e = NoEntry
      <4>1. Receipts(k)' = {}
        BY <3>2, <3>4, EntryTypes
      <4> QED
        BY <4>1 DEF Numbered
    <3> QED
      BY <1>7, <3>3, <3>4
  <2>3. told <= session[k].block + e.count
    <3>1. session[p].block \in Nat /\ side[p].count \in Nat /\ e.count \in Nat /\ client[p].block \in Nat
      BY <1>4, BlockTypes DEF SessionType, EntryType, ClientType
    <3>2. CASE client[p].removed
      BY <1>9, <1>15, <3>1, <3>2
    <3>3. CASE ~client[p].removed
      <4>1. client[p].block <= session[p].block + side[p].count
        BY <1>3, <1>4, <3>3 DEF EntryOK
      <4>2. e.count = side[p].count
        BY <1>4, <1>7 DEF EntryOK
      <4> QED
        BY <1>3, <1>9, <1>15, <3>1, <3>3, <4>1, <4>2
    <3> QED
      BY <3>2, <3>3
  <2> QED
    BY <1>12, <1>14, <2>1, <2>2, <2>3 DEF EntryOK
<1>17. ReceiptsOfSends'
  <2> SUFFICES ASSUME NEW t \in Ids, NEW tx \in Signed
               PROVE  /\ tx \in client'[t].sent /\ ~client'[t].removed => side'[t].receipts[tx] # NoReceipt
                      /\ side'[t].receipts[tx] # NoReceipt => \E a \in Ids : tx \in session'[a].signed
    BY DEF ReceiptsOfSends, EthGetTransactionReceipt
  <2>1. \A u \in Ids :
          /\ tx \in client[u].sent /\ ~client[u].removed => side[u].receipts[tx] # NoReceipt
          /\ side[u].receipts[tx] # NoReceipt => \E a \in Ids : tx \in session[a].signed
    BY <1>4 DEF ReceiptsOfSends, EthGetTransactionReceipt
  <2>2. CASE t # k
    <3>1. client'[t] = client[t] /\ side'[t] = side[t]
      BY <1>4, <1>8, <2>2
    <3> QED
      BY <1>14, <2>1, <3>1
  <2>3. CASE t = k
    <3>1. e.receipts[tx] # NoReceipt => side[p].receipts[tx] # NoReceipt
      BY <1>7, EntryTypes
    <3> QED
      BY <1>12, <1>14, <2>1, <2>3, <3>1
  <2> QED
    BY <2>2, <2>3
<1>18. client[k].block <= c.block /\ (~c.removed => ~client[k].removed /\ side[k].count <= e.count)
  <2>1. e.count \in Nat /\ side[k].count = 0
    BY <1>5, EntryTypes DEF EntryType
  <2> QED
    BY <1>5, <1>9, <1>12, <2>1
<1> QED
  BY <1>2, <1>3, <1>8, <1>12, <1>13, <1>15, <1>16, <1>17, <1>18, ReturnsWriting

----------------------------------------------------------------------------
(* The requests, up to their first await *)

LEMMA BeginsOn ==
  ASSUME IInv, NEW h \in Handlers, NEW by \in {"http", "mcp"}, NEW m \in Methods \ {"open"},
         NEW s \in Ids, NEW tx \in TxType, NEW n \in Nat, NEW op \in Ops \ {"create"},
         NEW jtx \in TxType, NEW rec \in SessionType,
         Begin(h, by, m, s, tx, n, op), Post(h, s, Job(h, op, jtx, rec)),
         UNCHANGED <<nextId, served>>,
         op \in {"advance", "simulate"} => jtx = tx,
         by = "mcp" => ~tx.signed,
         by = "http" => stage \notin {"mcp", "exited"},
         m \in Sends => tx \in Signed /\ op = "advance",
         m = "block_number" => n = side[s].count
  PROVE  IInv'
<1> DEFINE c == [by |-> by, m |-> m, pc |-> op, s |-> s, tx |-> tx,
                 n |-> n, new |-> NoId, floor |-> client[s].block]
<1>1. /\ client \in [Ids -> ClientType] /\ calls \in 0 .. MaxCalls /\ EntryOK(s)
      /\ side \in [Ids -> EntryType] /\ session \in [Ids -> SessionType]
  BY DEF IInv, Linked, TypeOK, ManagerTypeOK, HttpTypeOK
<1>2. /\ call[h].pc = "idle" /\ client[s].known /\ calls + Cost[m] <= MaxCalls
      /\ calls' = calls + Cost[m] /\ call' = [call EXCEPT ![h] = c]
      /\ client' = [client EXCEPT ![s] = [client[s] EXCEPT !.shared = client[s].shared \/ On(s) # {}]]
  BY DEF Begin
<1>3. calls' \in 0 .. MaxCalls
  <2>1. Cost[m] \in Nat /\ calls \in Nat /\ MaxCalls \in Nat
    BY <1>1, ManagerAssumption
  <2> QED
    BY <1>2, <2>1
<1>4. /\ client[s] \in ClientType /\ client[s].block \in Nat /\ side[s].count \in Nat
      /\ session[s].block \in Nat
  BY <1>1, BlockTypes DEF ClientType, EntryType, SessionType
<1>5. c \in CallType
  BY <1>4 DEF CallType
<1>6. QuotesOn(s)
  <2>1. client'[s] = [client[s] EXCEPT !.shared = client[s].shared \/ On(s) # {}]
        /\ \A t \in Ids : t # s => client'[t] = client[t]
    BY <1>1, <1>2
  <2>2. client'[s] \in ClientType
    BY <1>4, <2>1 DEF ClientType
  <2>3. client' \in [Ids -> ClientType]
    BY <1>1, <1>2, <2>1, <2>2
  <2>4. /\ client'[s].known = client[s].known /\ client'[s].kept = client[s].kept
        /\ client'[s].removed = client[s].removed /\ client'[s].late = client[s].late
        /\ client'[s].block = client[s].block /\ client'[s].sent = client[s].sent
        /\ client'[s].prices = client[s].prices
    BY <1>4, <2>1 DEF ClientType
  <2>5. Live(s) => \A p \in client'[s].prices : BaseFee[session[s].block] <= p
    BY <1>1, <2>4 DEF EntryOK
  <2> QED
    BY <2>1, <2>3, <2>4, <2>5 DEF QuotesOn
<1>7. AwaitOK(h, c, s, op, tx)
  <2>1. client[s].block <= client[s].block
    BY <1>4
  <2>2. Live(s) => ~client[s].removed /\ client[s].block <= session[s].block + side[s].count
    BY <1>1, <1>2 DEF EntryOK, Live
  <2>3. side[s].count <= side[s].count
    BY <1>4
  <2>4. op # "env" \/ m \notin Sends
    OBVIOUS
  <2> QED
    BY <1>2, <2>1, <2>2, <2>3, <2>4 DEF AwaitOK
<1>8. op \in {"advance", "simulate"} => c.tx = jtx
  OBVIOUS
<1>9. AwaitOK(h, c, s, op, jtx)
  BY <1>7, <1>8 DEF AwaitOK
<1> HIDE DEF c
<1> QED
  BY <1>2, <1>3, <1>5, <1>6, <1>9, PostsOn

LEMMA OpensOn ==
  ASSUME IInv, NEW h \in Handlers, NEW by \in {"http", "mcp"}, NEW rec \in SessionType,
         Opens(h, by, rec), rec.st = "live", UNCHANGED served,
         by = "http" => stage \notin {"mcp", "exited"}
  PROVE  IInv'
<1> DEFINE c == [Idle EXCEPT !.by = by, !.m = "open", !.pc = "create", !.new = nextId]
<1>1. /\ nextId \in 0 .. MaxSessions /\ calls \in 0 .. MaxCalls
  BY DEF IInv, Linked, TypeOK, ManagerTypeOK
<1>2. /\ call[h].pc = "idle" /\ Register(h, rec) /\ calls + Cost["open"] <= MaxCalls
      /\ calls' = calls + Cost["open"] /\ call' = [call EXCEPT ![h] = c] /\ client' = client
  BY DEF Opens
<1>3. calls' \in 0 .. MaxCalls
  <2>1. Cost["open"] \in Nat /\ calls \in Nat /\ MaxCalls \in Nat
    BY <1>1, ManagerAssumption DEF Methods
  <2> QED
    BY <1>2, <2>1
<1>4. nextId \in Ids
  BY <1>1, <1>2, IdTypes, ManagerAssumption DEF Register
<1>5. /\ c \in CallType /\ c.by = by /\ c.m = "open" /\ c.pc = "create" /\ c.new = nextId
      /\ c.s = NoId /\ c.tx = NoTx
  BY <1>4, IdTypes, TxTypes DEF CallType, Idle, Methods, Ops
<1> HIDE DEF c
<1>6. OpensOK(h, c)
  BY <1>5, TxTypes DEF OpensOK
<1> QED
  BY <1>2, <1>3, <1>5, <1>6, RegistersOn

LEMMA AsksOn ==
  ASSUME IInv, NEW h \in Handlers, NEW by \in {"http", "mcp"},
         NEW m \in Methods \ {"open", "send", "send_sync", "block_number"},
         NEW s \in Ids, NEW op \in Ops \ {"create", "advance", "simulate"},
         Asks(h, by, m, s, op), UNCHANGED served,
         by = "http" => stage \notin {"mcp", "exited"}
  PROVE  IInv'
<1>1. Begin(h, by, m, s, NoTx, 0, op) /\ Post(h, s, Job(h, op, NoTx, Absent)) /\ nextId' = nextId
  BY DEF Asks, Ask
<1>2. m \notin Sends /\ m # "block_number"
  BY DEF Sends
<1> QED
  BY <1>1, <1>2, TxTypes, SessionTypes, BeginsOn

LEMMA SetsBalanceOn ==
  ASSUME IInv, NEW h \in Handlers, NEW by \in {"http", "mcp"},
         SetsBalance(h, by), UNCHANGED served,
         by = "http" => stage \notin {"mcp", "exited"}
  PROVE  IInv'
<1>1. PICK s \in Ids, n \in {0, Funds} :
        Begin(h, by, "set_balance", s, NoTx, n, "basic") /\ Ask(h, s, "basic")
  BY DEF SetsBalance
<1>2. Post(h, s, Job(h, "basic", NoTx, Absent)) /\ nextId' = nextId
  BY <1>1 DEF Ask
<1>3. n \in Nat /\ "basic" \in Ops \ {"create"} /\ "set_balance" \in Methods \ {"open"}
  BY ManagerAssumption DEF Ops, Reading, Methods
<1> QED
  BY <1>1, <1>2, <1>3, TxTypes, SessionTypes, BeginsOn DEF Sends

LEMMA OpeningSession ==
  ASSUME IInv
  PROVE  /\ Forked(tip) \in SessionType /\ Forked(tip).st = "live"
         /\ \A b \in Blocks : Forked(b) \in SessionType /\ Forked(b).st = "live"
         /\ \A rec \in saved : rec \in SessionType /\ rec.st = "live"
  BY SessionTypes DEF IInv, Linked, TypeOK, ManagerTypeOK

LEMMA StepHttpRequest ==
  ASSUME IInv, NEW h \in Handlers, HttpAccepts, HttpRequest(h), UNCHANGED served
  PROVE  IInv'
<1>1. stage \notin {"mcp", "exited"}
  BY DEF HttpAccepts
<1> DEFINE Plain == {"basic", "read", "call", "set_storage", "state", "env", "branch", "discard"}
           Names == {"read", "estimate", "snapshot", "gas_price", "fork_from", "discard"}
<1>2. Plain \subseteq Ops \ {"create", "advance", "simulate"}
      /\ Names \subseteq Methods \ {"open", "send", "send_sync", "block_number"}
  BY DEF Ops, Reading, Direct, Methods
<1>3. ASSUME NEW s \in Ids, NEW m \in Names, NEW op \in Plain, Asks(h, "http", m, s, op)
      PROVE  IInv'
  BY <1>1, <1>2, <1>3, AsksOn
<1>4. CASE OpenAtTip(h) \/ OpenAtBlock(h) \/ OpenSnapshot(h)
  <2>1. PICK rec \in SessionType : rec.st = "live" /\ Opens(h, "http", rec)
    BY <1>4, OpeningSession DEF OpenAtTip, OpenAtBlock, OpenSnapshot
  <2> QED
    BY <1>1, <2>1, OpensOn
<1>5. CASE \/ EthGetBalance(h) \/ EthGetTransactionCount(h) \/ EthGetStorageAt(h) \/ EthGetCode(h)
           \/ EthCall(h) \/ ForkyardSetStorageAt(h)
  <2>1. PICK s \in Ids, op \in Plain : Asks(h, "http", "read", s, op)
    BY <1>5 DEF EthGetBalance, EthGetTransactionCount, EthGetStorageAt, EthGetCode, EthCall,
                ForkyardSetStorageAt
  <2> QED
    BY <1>3, <2>1
<1>6. CASE EthEstimateGas(h) \/ ForkyardSnapshot(h) \/ EthGasPrice(h)
  <2>1. PICK s \in Ids, m \in Names, op \in Plain : Asks(h, "http", m, s, op)
    BY <1>6 DEF EthEstimateGas, ForkyardSnapshot, EthGasPrice
  <2> QED
    BY <1>3, <2>1
<1>7. CASE ForkyardForkFrom(h) \/ ForkyardDiscard(h)
  <2>1. PICK s \in Ids, m \in Names, op \in Plain : Asks(h, "http", m, s, op)
    BY <1>7 DEF ForkyardForkFrom, ForkyardDiscard
  <2> QED
    BY <1>3, <2>1
<1>8. CASE ForkyardSetBalance(h)
  BY <1>1, <1>8, SetsBalanceOn DEF ForkyardSetBalance
<1>9. CASE EthBlockNumber(h)
  <2>1. PICK s \in Ids :
          Begin(h, "http", "block_number", s, NoTx, BlockCount(s), "env") /\ Ask(h, s, "env")
    BY <1>9 DEF EthBlockNumber
  <2>2. Post(h, s, Job(h, "env", NoTx, Absent)) /\ nextId' = nextId
    BY <2>1 DEF Ask
  <2>3. BlockCount(s) \in Nat /\ BlockCount(s) = side[s].count
    BY DEF IInv, Linked, TypeOK, HttpTypeOK, EntryType, BlockCount
  <2>4. "env" \in Ops \ {"create"} /\ "block_number" \in Methods \ {"open"}
        /\ "block_number" \notin Sends
    BY DEF Ops, Direct, Methods, Sends
  <2> QED
    BY <1>1, <2>1, <2>2, <2>3, <2>4, TxTypes, SessionTypes, BeginsOn
<1>10. CASE EthSendRawTransaction(h)
  <2>1. PICK s \in Ids, tx \in Signed, m \in {"send", "send_sync"} :
          Begin(h, "http", m, s, tx, 0, "advance") /\ Execute(h, s, "advance", tx)
    BY <1>10 DEF EthSendRawTransaction
  <2>2. Post(h, s, Job(h, "advance", tx, Absent)) /\ nextId' = nextId
    BY <2>1 DEF Execute
  <2>3. "advance" \in Ops \ {"create"} /\ m \in Methods \ {"open"} /\ m # "block_number"
    BY DEF Ops, Reading, Methods
  <2>4. tx \in TxType
    BY TxTypes
  <2> QED
    BY <1>1, <2>1, <2>2, <2>3, <2>4, SessionTypes, BeginsOn
<1> QED
  BY <1>4, <1>5, <1>6, <1>7, <1>8, <1>9, <1>10 DEF HttpRequest

LEMMA StepMcpRequest ==
  ASSUME IInv, NEW h \in Handlers, McpRequest(h), UNCHANGED served
  PROVE  IInv'
<1> DEFINE Plain == {"basic", "read", "set_storage", "state", "discard"}
           Names == {"read", "snapshot", "discard"}
<1>1. Plain \subseteq Ops \ {"create", "advance", "simulate"}
      /\ Names \subseteq Methods \ {"open", "send", "send_sync", "block_number"}
  BY DEF Ops, Reading, Direct, Methods
<1>2. ASSUME NEW s \in Ids, NEW m \in Names, NEW op \in Plain, Asks(h, "mcp", m, s, op)
      PROVE  IInv'
  BY <1>1, <1>2, AsksOn
<1>3. CASE McpFork(h) \/ McpResume(h)
  <2>1. PICK rec \in SessionType : rec.st = "live" /\ Opens(h, "mcp", rec)
    BY <1>3, OpeningSession DEF McpFork, McpResume
  <2> QED
    BY <2>1, OpensOn
<1>4. CASE GetBalance(h) \/ GetStorage(h) \/ GetCode(h) \/ SetStorage(h) \/ Snapshot(h) \/ Discard(h)
  <2>1. PICK s \in Ids, m \in Names, op \in Plain : Asks(h, "mcp", m, s, op)
    BY <1>4 DEF GetBalance, GetStorage, GetCode, SetStorage, Snapshot, Discard
  <2> QED
    BY <1>2, <2>1
<1>5. CASE SetBalance(h)
  BY <1>5, SetsBalanceOn DEF SetBalance
<1>6. Tools \subseteq (Methods \ {"open"}) \cap (Ops \ {"create"})
      /\ "block_number" \notin Tools /\ Tools \cap Sends = {}
  BY DEF Tools, Ops, Reading, Methods, Sends
<1>7. CASE TransferAtPrice(h)
  <2>1. PICK s \in Ids, tx \in Unsigned, m \in Tools :
          Begin(h, "mcp", m, s, tx, 0, m) /\ Execute(h, s, m, tx)
    BY <1>7 DEF TransferAtPrice
  <2>2. Post(h, s, Job(h, m, tx, Absent)) /\ nextId' = nextId
    BY <2>1 DEF Execute
  <2>3. tx \in TxType /\ ~tx.signed
    BY TxTypes DEF Unsigned
  <2>4. m \in Methods \ {"open"} /\ m \in Ops \ {"create"} /\ m \notin Sends /\ m # "block_number"
    BY <1>6
  <2> QED
    BY <2>1, <2>2, <2>3, <2>4, SessionTypes, BeginsOn
<1>8. CASE TransferAtBasefee(h)
  <2>1. PICK s \in Ids, nonce \in Nonces, m \in Tools :
          /\ Begin(h, "mcp", m, s, [NoTx EXCEPT !.nonce = nonce], 0, "env")
          /\ Ask(h, s, "env")
    BY <1>8 DEF TransferAtBasefee
  <2>2. Post(h, s, Job(h, "env", NoTx, Absent)) /\ nextId' = nextId
    BY <2>1 DEF Ask
  <2>3. [NoTx EXCEPT !.nonce = nonce] \in TxType /\ ~[NoTx EXCEPT !.nonce = nonce].signed
    BY ManagerAssumption DEF NoTx, TxType
  <2>4. m \in Methods \ {"open"} /\ m \notin Sends /\ m # "block_number" /\ "env" \in Ops \ {"create"}
    BY <1>6 DEF Ops, Direct
  <2> QED
    BY <2>1, <2>2, <2>3, <2>4, TxTypes, SessionTypes, BeginsOn
<1> QED
  BY <1>3, <1>4, <1>5, <1>7, <1>8 DEF McpRequest

----------------------------------------------------------------------------
(* The awaits that are followed by another job *)

LEMMA GoesOn ==
  ASSUME IInv, NEW h \in Handlers, NEW by, NEW m, NEW pc, At(h, by, m, pc),
         pc # "idle", m \notin {"open", "block_number"},
         NEW op \in Ops \ {"create"}, NEW tx \in TxType, NEW rec \in SessionType, NEW c \in CallType,
         Post(h, call[h].s, Job(h, op, tx, rec)), call' = [call EXCEPT ![h] = c],
         calls' = calls, QuotesOn(call[h].s), UNCHANGED <<nextId, served>>,
         c.by = by, c.m = m, c.pc = op, c.s = call[h].s, c.floor = call[h].floor,
         op \in {"advance", "simulate"} => c.tx = tx,
         c.tx.signed = call[h].tx.signed,
         m \in Sends => c.tx = call[h].tx /\ pc = "advance" /\ Ok(h)
  PROVE  IInv'
<1>1. /\ Answered(h) /\ call[h].by = by /\ call[h].m = m /\ call[h].pc = pc
      /\ call[h].s \in Ids /\ client[call[h].s].known
      /\ call[h].floor <= client[call[h].s].block /\ CallOK(h) /\ AnswerOK(h)
  BY Read
<1>2. PICK s \in Ids : s = call[h].s
  BY <1>1
<1>3. calls' \in 0 .. MaxCalls /\ (by = "http" => stage \notin {"mcp", "exited"})
  BY <1>1 DEF IInv, Linked, TypeOK, ManagerTypeOK, Active
<1>4. m \in Sends => h \in Unrecorded(s) /\ c.tx \in session[s].signed /\ c.tx \in Signed
  BY <1>1, <1>2 DEF Unrecorded, AnswerOK, CallOK, Sends
<1>5. by = "mcp" => ~c.tx.signed
  BY <1>1 DEF CallOK
<1>6. AwaitOK(h, c, s, op, tx)
  BY <1>1, <1>2, <1>3, <1>4, <1>5 DEF AwaitOK
<1>7. Post(h, s, Job(h, op, tx, rec)) /\ QuotesOn(s) /\ op \in Ops
  BY <1>2
<1> QED
  BY <1>1, <1>3, <1>6, <1>7, PostsOn

LEMMA QuotesNothing ==
  ASSUME IInv, NEW s \in Ids, client' = client
  PROVE  QuotesOn(s)
<1>1. client \in [Ids -> ClientType] /\ EntryOK(s)
  BY DEF IInv, Linked, TypeOK, ManagerTypeOK
<1> QED
  BY <1>1 DEF QuotesOn, EntryOK

\* The next job of a request, about what the request was about.
LEMMA AwaitsNext ==
  ASSUME IInv, NEW h \in Handlers, NEW by, NEW m, NEW pc, At(h, by, m, pc),
         pc # "idle", m \notin {"open", "block_number"},
         NEW op \in Ops \ {"create", "advance", "simulate"}, NEW rec \in SessionType,
         Post(h, call[h].s, Job(h, op, NoTx, rec)), nextId' = nextId,
         Await(h, op), UNCHANGED served,
         m \in Sends => pc = "advance" /\ Ok(h)
  PROVE  IInv'
<1> DEFINE c == [call[h] EXCEPT !.pc = op]
<1>1. /\ call[h] \in CallType /\ call[h].s \in Ids /\ call[h].by = by /\ call[h].m = m
  BY Read
<1>2. call' = [call EXCEPT ![h] = c] /\ calls' = calls /\ client' = client
  BY DEF Await
<1>3. /\ c \in CallType /\ c.by = by /\ c.m = m /\ c.pc = op /\ c.s = call[h].s
      /\ c.floor = call[h].floor /\ c.tx = call[h].tx
  BY <1>1 DEF CallType
<1> HIDE DEF c
<1>4. QuotesOn(call[h].s)
  BY <1>1, <1>2, QuotesNothing
<1>5. c.tx.signed = call[h].tx.signed /\ NoTx \in TxType
  BY <1>3, TxTypes
<1>6. m \in Sends => c.tx = call[h].tx /\ pc = "advance" /\ Ok(h)
  BY <1>3
<1> QED
  BY <1>2, <1>3, <1>4, <1>5, <1>6, GoesOn

LEMMA StepWritesBack ==
  ASSUME IInv, NEW h \in Handlers, NEW by, WritesBack(h, by), UNCHANGED served
  PROVE  IInv'
<1>1. CASE Done(h)
  BY <1>1, StepDone
<1>2. CASE /\ At(h, by, "set_balance", "basic")
           /\ SetAccount(h, call[h].s, Refilled(Seen(h), call[h].n)) /\ Await(h, "set_account")
  <2>1. Seen(h) \in SessionType /\ call[h].n \in Nat
    BY <1>2, Read
  <2>2. Refilled(Seen(h), call[h].n) \in SessionType
    BY <2>1 DEF Refilled, SessionType
  <2>3. /\ Post(h, call[h].s, Job(h, "set_account", NoTx, Refilled(Seen(h), call[h].n)))
        /\ nextId' = nextId
    BY <1>2 DEF SetAccount
  <2>4. "set_account" \in Ops \ {"create", "advance", "simulate"} /\ "set_balance" \notin Sends
    BY DEF Ops, Sends
  <2> QED
    BY <1>2, <2>2, <2>3, <2>4, AwaitsNext
<1> QED
  BY <1>1, <1>2 DEF WritesBack

LEMMA StepEstimateAtNonce ==
  ASSUME IInv, NEW h \in Handlers, EstimateAtNonce(h), UNCHANGED served
  PROVE  IInv'
<1>1. CASE Done(h)
  BY <1>1, StepDone
<1>2. CASE /\ At(h, "http", "estimate", "basic")
           /\ Ask(h, call[h].s, "call") /\ Await(h, "call")
  <2>1. Post(h, call[h].s, Job(h, "call", NoTx, Absent)) /\ nextId' = nextId
    BY <1>2 DEF Ask
  <2>2. "call" \in Ops \ {"create", "advance", "simulate"} /\ "estimate" \notin Sends
    BY DEF Ops, Reading, Sends
  <2> QED
    BY <1>2, <2>1, <2>2, SessionTypes, AwaitsNext
<1> QED
  BY <1>1, <1>2 DEF EstimateAtNonce

LEMMA StepSendAdvanced ==
  ASSUME IInv, NEW h \in Handlers, SendAdvanced(h), UNCHANGED served
  PROVE  IInv'
<1>0. PICK m \in {"send", "send_sync"} : At(h, "http", m, "advance")
  BY DEF SendAdvanced
<1>1. CASE Done(h)
  BY <1>1, StepDone
<1>2. CASE Ok(h) /\ Ask(h, call[h].s, "env") /\ Await(h, "env")
  <2>1. Post(h, call[h].s, Job(h, "env", NoTx, Absent)) /\ nextId' = nextId
    BY <1>2 DEF Ask
  <2>2. "env" \in Ops \ {"create", "advance", "simulate"}
    BY DEF Ops, Direct
  <2> QED
    BY <1>0, <1>2, <2>1, <2>2, SessionTypes, AwaitsNext
<1> QED
  BY <1>1, <1>2 DEF SendAdvanced

LEMMA StepForkFromBranched ==
  ASSUME IInv, NEW h \in Handlers, ForkFromBranched(h), UNCHANGED served
  PROVE  IInv'
<1>1. CASE Done(h)
  BY <1>1, StepDone
<1>2. CASE /\ Ok(h) /\ Register(h, Seen(h)) /\ UNCHANGED <<calls, client>>
           /\ call' = [call EXCEPT ![h] = [call[h] EXCEPT !.pc = "create", !.new = nextId]]
  <2> DEFINE c == [call[h] EXCEPT !.pc = "create", !.new = nextId]
  <2>1. At(h, "http", "fork_from", "branch")
    BY DEF ForkFromBranched
  <2>2. /\ Answered(h) /\ call[h].pc = "branch" /\ call[h].by = "http" /\ call[h].m = "fork_from"
        /\ call[h] \in CallType /\ call[h].s \in Ids /\ client[call[h].s].known
        /\ call[h].floor <= client[call[h].s].block
        /\ Seen(h) \in SessionType /\ AnswerOK(h)
    BY <2>1, Read
  <2>3. Seen(h).block = session[call[h].s].block /\ Seen(h).st = "live"
    BY <1>2, <2>2 DEF AnswerOK
  <2>4. nextId \in Ids
    BY <1>2, IdTypes, ManagerAssumption DEF Register, IInv, Linked, TypeOK, ManagerTypeOK
  <2>5. /\ c \in CallType /\ c.by = "http" /\ c.m = "fork_from" /\ c.pc = "create"
        /\ c.new = nextId /\ c.s = call[h].s /\ c.floor = call[h].floor
    BY <2>2, <2>4 DEF CallType, Ops
  <2>6. stage \notin {"mcp", "exited"} /\ calls' \in 0 .. MaxCalls
    BY <1>2, <2>2 DEF IInv, Linked, TypeOK, ManagerTypeOK, Active
  <2>7. call' = [call EXCEPT ![h] = c]
    BY <1>2
  <2> HIDE DEF c
  <2>8. OpensOK(h, c)
    BY <2>2, <2>5, <2>6 DEF OpensOK
  <2> QED
    BY <1>2, <2>2, <2>3, <2>5, <2>6, <2>7, <2>8, RegistersOn
<1> QED
  BY <1>1, <1>2 DEF ForkFromBranched

LEMMA StepTransferPriced ==
  ASSUME IInv, NEW h \in Handlers, TransferPriced(h), UNCHANGED served
  PROVE  IInv'
<1>0. PICK m \in Tools : At(h, "mcp", m, "env")
  BY DEF TransferPriced
<1>1. CASE Done(h)
  BY <1>1, StepDone
<1> DEFINE fee == BasefeeOf(h)
           tx == PricedAt(h, fee)
           c == [call[h] EXCEPT !.pc = call[h].m, !.tx = tx]
<1>2. CASE /\ Ok(h) /\ Execute(h, call[h].s, call[h].m, tx) /\ calls' = calls
           /\ call' = [call EXCEPT ![h] = c]
           /\ client' = [client EXCEPT ![call[h].s] =
                [client[call[h].s] EXCEPT !.prices = client[call[h].s].prices \cup {fee}]]
  <2>1. /\ m \in Ops \ {"create"} /\ m \notin {"open", "block_number"} /\ m \notin Sends
    BY DEF Tools, Ops, Reading, Sends
  <2>2. PICK s \in Ids : s = call[h].s
    BY <1>0, <2>1, Read
  <2>3. /\ Answered(h) /\ call[h].pc = "env" /\ call[h].by = "mcp" /\ call[h].m = m
        /\ call[h] \in CallType /\ Seen(h) \in SessionType
        /\ session[s] \in SessionType /\ CallOK(h) /\ AnswerOK(h)
    BY <1>0, <2>1, <2>2, Read
  <2>4. call[h].tx \in TxType /\ ~call[h].tx.signed
    BY <2>3 DEF CallType, CallOK
  <2>5. fee \in Nat /\ fee = BaseFee[session[s].block]
    <3>1. Seen(h).block = session[s].block /\ Seen(h).block \in Blocks
      BY <1>2, <2>2, <2>3 DEF AnswerOK, SessionType
    <3> QED
      BY <3>1, BlockTypes DEF BasefeeOf
  <2> HIDE DEF fee
  <2>6. tx = [call[h].tx EXCEPT !.price = fee]
    BY DEF PricedAt
  <2>7. tx \in TxType
    <3>1. call[h].tx \in [nonce : Nat, price : Nat, signed : {FALSE}]
      BY <2>4 DEF TxType, Signed
    <3>2. [call[h].tx EXCEPT !.price = fee] \in [nonce : Nat, price : Nat, signed : {FALSE}]
      BY <2>5, <3>1
    <3> QED
      BY <2>6, <3>2 DEF TxType
  <2>8. ~tx.signed /\ tx.signed = call[h].tx.signed
    BY <2>4, <2>6 DEF TxType
  <2> HIDE DEF tx
  <2>9. /\ c \in CallType /\ c.by = "mcp" /\ c.m = m /\ c.pc = m /\ c.s = call[h].s
        /\ c.floor = call[h].floor /\ c.tx = tx
    BY <2>1, <2>3, <2>7 DEF CallType
  <2>10. call' = [call EXCEPT ![h] = c] /\ calls' = calls
    BY <1>2
  <2> HIDE DEF c
  <2>11. Post(h, call[h].s, Job(h, m, tx, Absent)) /\ nextId' = nextId
    BY <1>2, <2>3 DEF Execute
  <2>12. QuotesOn(s)
    <3>1. /\ client \in [Ids -> ClientType] /\ client[s] \in ClientType /\ EntryOK(s)
      BY DEF IInv, Linked, TypeOK, ManagerTypeOK
    <3>2. /\ client' = [client EXCEPT ![s] = [client[s] EXCEPT !.prices = client[s].prices \cup {fee}]]
      BY <1>2, <2>2
    <3>3. client'[s] = [client[s] EXCEPT !.prices = client[s].prices \cup {fee}]
          /\ \A t \in Ids : t # s => client'[t] = client[t]
      BY <3>1, <3>2
    <3>4. client'[s] \in ClientType
      BY <2>5, <3>1, <3>3 DEF ClientType
    <3>5. client' \in [Ids -> ClientType]
      BY <3>1, <3>2, <3>3, <3>4
    <3>6. /\ client'[s].known = client[s].known /\ client'[s].kept = client[s].kept
          /\ client'[s].removed = client[s].removed /\ client'[s].late = client[s].late
          /\ client'[s].block = client[s].block /\ client'[s].sent = client[s].sent
          /\ client'[s].prices = client[s].prices \cup {fee}
      BY <3>1, <3>3 DEF ClientType
    <3>7. Live(s) => \A p \in client'[s].prices : BaseFee[session[s].block] <= p
      BY <2>5, <3>1, <3>6 DEF EntryOK
    <3> QED
      BY <3>3, <3>5, <3>6, <3>7 DEF QuotesOn
  <2>13. QuotesOn(call[h].s) /\ c.tx.signed = call[h].tx.signed
    BY <2>2, <2>8, <2>9, <2>12
  <2>14. PICK u \in TxType, d \in CallType, op \in Ops \ {"create"} : u = tx /\ d = c /\ op = m
    BY <2>1, <2>7, <2>9
  <2>15. /\ d.by = "mcp" /\ d.m = m /\ d.pc = op /\ d.s = call[h].s
         /\ d.floor = call[h].floor /\ d.tx = u /\ d.tx.signed = call[h].tx.signed
         /\ call' = [call EXCEPT ![h] = d] /\ calls' = calls
         /\ Post(h, call[h].s, Job(h, op, u, Absent)) /\ nextId' = nextId
    BY <2>9, <2>10, <2>11, <2>13, <2>14
  <2>16. "env" # "idle" /\ m \notin {"open", "block_number"} /\ m \notin Sends
         /\ Absent \in SessionType /\ QuotesOn(call[h].s)
    BY <2>1, <2>13, SessionTypes
  <2> QED
    BY <1>0, <2>15, <2>16, GoesOn
<1> QED
  BY <1>1, <1>2 DEF TransferPriced

LEMMA StepTransferRun ==
  ASSUME IInv, NEW h \in Handlers, TransferRun(h), UNCHANGED served
  PROVE  IInv'
<1>0. PICK m \in Tools : At(h, "mcp", m, m)
  BY DEF TransferRun
<1>1. CASE Done(h)
  BY <1>1, StepDone
<1> DEFINE c == [call[h] EXCEPT !.pc = "env", !.n = 1]
<1>2. CASE /\ Ask(h, call[h].s, "env") /\ UNCHANGED <<calls, client>>
           /\ call' = [call EXCEPT ![h] = c]
  <2>1. /\ m # "idle" /\ m \notin {"open", "block_number"} /\ m \notin Sends
        /\ "env" \in Ops \ {"create"} /\ "env" \notin {"advance", "simulate"}
    BY DEF Tools, Ops, Direct, Sends
  <2>2. call[h] \in CallType /\ call[h].by = "mcp" /\ call[h].m = m /\ call[h].s \in Ids
    BY <1>0, <2>1, Read
  <2>3. /\ c \in CallType /\ c.by = "mcp" /\ c.m = m /\ c.pc = "env" /\ c.s = call[h].s
        /\ c.floor = call[h].floor /\ c.tx = call[h].tx
    BY <2>1, <2>2 DEF CallType
  <2>4. Post(h, call[h].s, Job(h, "env", NoTx, Absent)) /\ nextId' = nextId
    BY <1>2 DEF Ask
  <2>5. QuotesOn(call[h].s)
    BY <1>2, <2>2, QuotesNothing
  <2>6. c.tx.signed = call[h].tx.signed /\ call' = [call EXCEPT ![h] = c] /\ calls' = calls
    BY <1>2, <2>3
  <2> HIDE DEF c
  <2> QED
    BY <1>0, <2>1, <2>3, <2>4, <2>5, <2>6, TxTypes, SessionTypes, GoesOn
<1> QED
  BY <1>1, <1>2 DEF TransferRun

LEMMA StepContinue ==
  ASSUME IInv, NEW h \in Handlers, Continue(h)
  PROVE  IInv'
<1>1. CASE HttpRecorded(h)
  <2>1. UNCHANGED <<stage, draining>>
    BY DEF Continue
  <2> QED
    BY <1>1, <2>1, StepSendRecorded, StepForkFromAdopted, StepDiscardAnswered DEF HttpRecorded
<1>2. CASE HttpAnswered(h) /\ UNCHANGED side
  <2>1. UNCHANGED served
    BY <1>2 DEF Continue, served
  <2>2. CASE Opened(h, "http")
    BY <2>1, <2>2, StepOpened
  <2>3. CASE OneJobAnswered(h) \/ EstimateAnswered(h) \/ SetBalanceWritten(h)
    <3>1. Done(h)
      BY <2>3 DEF OneJobAnswered, PassedOn, EstimateAnswered, SetBalanceWritten, BalanceSet
    <3> QED
      BY <2>1, <3>1, StepDone
  <2>4. CASE EstimateAtNonce(h)
    BY <2>1, <2>4, StepEstimateAtNonce
  <2>5. CASE SetBalanceRead(h)
    BY <2>1, <2>5, StepWritesBack DEF SetBalanceRead
  <2>6. CASE SnapshotStored(h)
    BY <2>1, <2>6, StepSnapshotted DEF SnapshotStored
  <2>7. CASE BlockNumberAnswered(h)
    BY <2>1, <2>7, StepBlockNumber
  <2>8. CASE GasPriceAnswered(h)
    BY <2>1, <2>8, StepGasPrice
  <2>9. CASE SendAdvanced(h)
    BY <2>1, <2>9, StepSendAdvanced
  <2>10. CASE ForkFromBranched(h)
    BY <2>1, <2>10, StepForkFromBranched
  <2> QED
    BY <1>2, <2>2, <2>3, <2>4, <2>5, <2>6, <2>7, <2>8, <2>9, <2>10 DEF HttpAnswered
<1>3. CASE McpAnswered(h) /\ UNCHANGED side
  <2>1. UNCHANGED served
    BY <1>3 DEF Continue, served
  <2>2. CASE Opened(h, "mcp")
    BY <2>1, <2>2, StepOpened
  <2>3. CASE ToolAnswered(h) \/ McpBalanceWritten(h) \/ McpDiscarded(h) \/ FeeExplained(h)
    <3>1. Done(h)
      BY <2>3 DEF ToolAnswered, PassedOn, McpBalanceWritten, BalanceSet, McpDiscarded, FeeExplained
    <3> QED
      BY <2>1, <3>1, StepDone
  <2>4. CASE McpBalanceRead(h)
    BY <2>1, <2>4, StepWritesBack DEF McpBalanceRead
  <2>5. CASE McpSnapshotStored(h)
    BY <2>1, <2>5, StepSnapshotted DEF McpSnapshotStored
  <2>6. CASE TransferPriced(h)
    BY <2>1, <2>6, StepTransferPriced
  <2>7. CASE TransferRun(h)
    BY <2>1, <2>7, StepTransferRun
  <2> QED
    BY <1>3, <2>2, <2>3, <2>4, <2>5, <2>6, <2>7 DEF McpAnswered
<1> QED
  BY <1>1, <1>2, <1>3 DEF Continue

----------------------------------------------------------------------------
(* A worker answers the front job of a session *)

\* What the answer to `j` and the session it leaves, `rec`, owe its handler.
AnswersTruly(j, s, rec, st, seen) ==
  /\ j.op \in {"env", "branch"} /\ st = "ok" => seen.block = rec.block /\ Live(s)
  /\ j.op = "branch" /\ st = "ok" => seen.st = "live"
  /\ j.op = "env" /\ st # "ok" => rec.st = "gone"
  /\ j.op = "advance" /\ st = "ok" => Live(s) /\ (j.tx.signed => j.tx \in rec.signed)
  /\ j.op = "discard" => rec.st = "gone"
LeavesTruly(j, s, rec) ==
  /\ j.op = "create" => rec = j.payload
  /\ j.op # "create" =>
       /\ rec.st # "none" /\ rec.block = session[s].block /\ session[s].signed \subseteq rec.signed
       /\ rec.st = "live" => Live(s)

LEMMA JobsPopped ==
  ASSUME Linked, SessionsEvolve, NEW s \in Ids, jobs[s] # <<>>, NEW st \in Answers,
         NEW seen \in SessionType, Reply(s, st, seen), UNCHANGED <<call, client>>,
         \A t \in Ids : t # s => session'[t] = session[t]
  PROVE  JobsOK' /\ OpensAwaited'
<1>1. Typed /\ JobsOK /\ OpensAwaited /\ NoHandler \notin Handlers
  BY LinkedTypes, ManagerAssumption DEF Linked
<1>2. PICK j \in JobType : j = jobs[s][1]
  BY <1>1, Replied
<1>3. /\ Len(jobs[s]) \in Nat /\ Len(jobs[s]) >= 1 /\ Len(jobs'[s]) = Len(jobs[s]) - 1
      /\ \A i \in 1 .. Len(jobs'[s]) : jobs'[s][i] = jobs[s][i + 1]
      /\ \A t \in Ids : t # s => jobs'[t] = jobs[t]
      /\ \A g \in Handlers : g # j.h => reply'[g] = reply[g]
  BY <1>1, <1>2, Replied
\* Each job that is left was there, at the place `Was` says.
<1> DEFINE Was(t, i) == IF t = s THEN i + 1 ELSE i
<1>4. ASSUME NEW t \in Ids, NEW i \in 1 .. Len(jobs'[t])
      PROVE  /\ Was(t, i) \in 1 .. Len(jobs[t]) /\ jobs'[t][i] = jobs[t][Was(t, i)]
             /\ jobs[t][Was(t, i)] \in JobType
  <2>1. jobs[t] \in Seq(JobType)
    BY <1>1 DEF Typed
  <2>2. Was(t, i) \in 1 .. Len(jobs[t]) /\ jobs'[t][i] = jobs[t][Was(t, i)]
    BY <1>3, <2>1
  <2> QED
    BY <2>1, <2>2
<1>5. ASSUME NEW t \in Ids, NEW i \in 1 .. Len(jobs'[t])
      PROVE  JobOK(t, i)'
  <2>1. PICK k \in 1 .. Len(jobs[t]) : k = Was(t, i)
    BY <1>4
  <2>2. jobs'[t][i] = jobs[t][k] /\ jobs[t][k] \in JobType /\ JobOK(t, k) /\ JobOK(s, 1)
    BY <1>1, <1>3, <1>4, <2>1 DEF JobsOK
  <2>3. ASSUME jobs[t][k].h # NoHandler
        PROVE  /\ jobs[t][k].h \in Handlers
               /\ call'[jobs[t][k].h] = call[jobs[t][k].h] /\ reply'[jobs[t][k].h] = reply[jobs[t][k].h]
    <3>1. jobs[t][k].h \in Handlers
      BY <2>2, <2>3 DEF JobType
    <3>2. ASSUME jobs[t][k].h = j.h PROVE FALSE
      <4>1. t = s
        BY <1>2, <2>2, <2>3, <3>2 DEF JobOK
      <4>2. k # 1 /\ 1 \in 1 .. Len(jobs[s])
        BY <1>3, <2>1, <4>1
      <4> QED
        BY <1>1, <1>2, <2>3, <3>2, <4>1, <4>2 DEF JobsOK
    <3> QED
      BY <1>3, <3>1, <3>2
  <2>4. ASSUME jobs[t][k].op = "create" PROVE Len(jobs'[t]) = 1 /\ session'[t].st = "none"
    <3>1. Len(jobs[t]) = 1 /\ session[t].st = "none"
      BY <2>2, <2>4 DEF JobOK
    <3>2. t # s
      BY <1>3, <3>1
    <3> QED
      BY <1>3, <3>1, <3>2
  <2> QED
    BY <2>2, <2>3, <2>4, JobKept
<1>6. ASSUME NEW t \in Ids, NEW i \in 1 .. Len(jobs'[t]), NEW k \in 1 .. Len(jobs'[t]),
             jobs'[t][i].h # NoHandler, jobs'[t][k].h = jobs'[t][i].h
      PROVE  k = i
  <2>1. Was(t, k) = Was(t, i)
    <3>1. /\ Was(t, i) \in 1 .. Len(jobs[t]) /\ Was(t, k) \in 1 .. Len(jobs[t])
          /\ jobs[t][Was(t, i)].h # NoHandler /\ jobs[t][Was(t, k)].h = jobs[t][Was(t, i)].h
      BY <1>4, <1>6
    <3> HIDE DEF Was
    <3> QED
      BY <1>1, <3>1 DEF JobsOK
  <2> QED
    BY <2>1
<1>7. ASSUME NEW h \in Handlers, call'[h].pc = "create", NEW i \in 1 .. Len(jobs'[call'[h].new])
      PROVE  jobs'[call'[h].new][i].h = h
  <2>1. call[h].pc = "create" /\ call[h].new \in Ids /\ call'[h] = call[h]
    BY <1>7, LinkedTypes
  <2>2. PICK t \in Ids : t = call[h].new
    BY <2>1
  <2>3. Was(t, i) \in 1 .. Len(jobs[t]) /\ jobs'[t][i] = jobs[t][Was(t, i)]
    BY <1>4, <1>7, <2>1, <2>2
  <2> HIDE DEF Was
  <2> QED
    BY <1>1, <2>1, <2>2, <2>3 DEF OpensAwaited
<1> QED
  BY <1>5, <1>6, <1>7 DEF JobsOK, OpensAwaited

LEMMA WorksOn ==
  ASSUME IInv, NEW s \in Ids, jobs[s] # <<>>, NEW j \in JobType, j = jobs[s][1],
         NEW st \in Answers, NEW seen \in SessionType, Reply(s, st, seen),
         NEW rec \in SessionType, session' = [session EXCEPT ![s] = rec],
         LeavesTruly(j, s, rec), AnswersTruly(j, s, rec, st, seen),
         faults' \in 0 .. MaxFaults,
         UNCHANGED <<nextId, tip, saved, call, calls, client, served>>
  PROVE  IInv'
<1>1. /\ Linked /\ Typed /\ NoHandler \notin Handlers
      /\ session \in [Ids -> SessionType] /\ call \in [Handlers -> CallType]
      /\ client \in [Ids -> ClientType] /\ side \in [Ids -> EntryType]
      /\ nextId \in 0 .. MaxSessions /\ nextId \in Nat
  BY LinkedTypes, ManagerAssumption DEF IInv
<1>2. /\ Typed'
      /\ Len(jobs[s]) \in Nat /\ Len(jobs[s]) >= 1 /\ Len(jobs'[s]) = Len(jobs[s]) - 1
      /\ \A t \in Ids : t # s => jobs'[t] = jobs[t]
      /\ j.h # NoHandler => j.h \in Handlers /\ reply'[j.h] = [st |-> st, session |-> seen]
      /\ \A g \in Handlers : g # j.h => reply'[g] = reply[g]
  BY <1>1, Replied
<1>3. /\ nextId' = nextId /\ tip' = tip /\ saved' = saved /\ call' = call /\ calls' = calls
      /\ client' = client /\ side' = side /\ stage' = stage /\ draining' = draining
  BY DEF served
<1>4. session'[s] = rec /\ (\A t \in Ids : t # s => session'[t] = session[t])
      /\ session' \in [Ids -> SessionType]
  BY <1>1
<1>5. JobOK(s, 1) /\ IdOK(s)
  BY <1>1, <1>2 DEF Linked, JobsOK
<1>6. ASSUME j.op = "create"
      PROVE  /\ session[s].st = "none" /\ session[s].signed = {} /\ rec = j.payload
             /\ rec.st = "live" /\ client[s] = Stranger /\ side[s] = NoEntry
  BY <1>5, <1>6 DEF JobOK, IdOK, LeavesTruly
<1>7. ASSUME j.op # "create"
      PROVE  /\ client[s].known /\ session[s].st # "none"
             /\ rec.st # "none" /\ rec.block = session[s].block /\ session[s].signed \subseteq rec.signed
             /\ (rec.st = "live" => Live(s))
  BY <1>5, <1>7 DEF JobOK, IdOK, LeavesTruly
<1>8. Evolves(s) /\ SessionsEvolve
  <2>1. session[s].st # "none" => rec.st # "none" /\ rec.block = session[s].block
    BY <1>6, <1>7
  <2>2. session[s].st = "gone" => rec.st = "gone"
    <3>1. rec.st \in {"none", "live", "gone"}
      BY DEF SessionType
    <3> QED
      BY <1>6, <1>7, <3>1 DEF Live
  <2>3. session[s].signed \subseteq rec.signed
    BY <1>6, <1>7
  <2>4. Evolves(s)
    BY <1>4, <2>1, <2>2, <2>3 DEF Evolves
  <2>5. ASSUME NEW t \in Ids, t # s PROVE Evolves(t)
    BY <1>4, <2>5 DEF Evolves
  <2> QED
    BY <2>4, <2>5 DEF SessionsEvolve
<1>9. ClientsLearn
  <2>1. \A t \in Ids : client[t].block \in Nat
    BY <1>1 DEF ClientType
  <2> QED
    BY <1>3, <2>1 DEF ClientsLearn
<1>10. TypeOK'
  <2>1. TypeOK
    BY <1>1 DEF Linked
  <2>2. ManagerTypeOK'
    BY <1>2, <1>3, <1>4, <2>1 DEF TypeOK, ManagerTypeOK, Typed
  <2>3. HttpTypeOK'
    BY <1>1, <1>3 DEF HttpTypeOK
  <2> QED
    BY <1>3, <2>1, <2>2, <2>3 DEF TypeOK, Active
\* The handler that is answered, if it still waits.
<1>11. ASSUME NEW g \in Handlers, reply'[g] # reply[g]
       PROVE  /\ g = j.h /\ call[g].pc = j.op /\ Target(g) = s
              /\ reply'[g] = [st |-> st, session |-> seen] /\ ~Ok(g)
              /\ (j.op \in {"advance", "simulate"} => call[g].tx = j.tx)
  <2>1. g = j.h /\ j.h # NoHandler
    BY <1>1, <1>2, <1>11
  <2> QED
    BY <1>2, <1>5, <2>1 DEF JobOK, Ok
<1>12. ASSUME NEW g \in Handlers PROVE CallOK(g)'
  <2>1. ASSUME call[g].m = "fork_from", call[g].pc = "create", session'[call[g].new].st # "none"
        PROVE  \/ session[call[g].new].st # "none"
               \/ session'[call[g].new].block = session[call[g].s].block
    <3>1. call[g].new \in Ids
      BY <1>1, <2>1, LinkedTypes
    <3>2. CASE call[g].new # s
      BY <1>4, <2>1, <3>1, <3>2
    <3>3. CASE call[g].new = s /\ j.op # "create"
      BY <1>7, <3>3
    <3>4. CASE call[g].new = s /\ j.op = "create"
      <4>1. j.h = g
        <5>1. \A i \in 1 .. Len(jobs[s]) : jobs[s][i].h = g
          BY <1>1, <2>1, <3>4 DEF Linked, OpensAwaited
        <5>2. 1 \in 1 .. Len(jobs[s])
          BY <1>2
        <5> QED
          BY <5>1, <5>2
      <4>2. j.payload.block = session[call[g].s].block
        BY <1>1, <1>5, <2>1, <3>4, <4>1 DEF JobOK
      <4> QED
        BY <1>4, <1>6, <3>4, <4>2
    <3> QED
      BY <3>2, <3>3, <3>4
  <2>2. call[g].pc = "create" => ~client'[call[g].new].known
    BY <1>1, <1>3 DEF Linked, CallOK
  <2>3. call'[g] = call[g] /\ nextId <= nextId' /\ nextId' \in Nat /\ client' \in [Ids -> ClientType]
    BY <1>1, <1>3
  <2> QED
    BY <1>1, <1>8, <1>9, <2>1, <2>2, <2>3, CallKept
<1>13. ASSUME NEW g \in Handlers PROVE AnswerOK(g)'
  <2>1. CASE reply'[g] = reply[g]
    BY <1>1, <1>3, <1>8, <2>1, AnswerKept
  <2>2. CASE reply'[g] # reply[g]
    <3>1. /\ call[g].pc = j.op /\ Target(g) = s /\ reply'[g] = [st |-> st, session |-> seen]
          /\ (j.op \in {"advance", "simulate"} => call[g].tx = j.tx) /\ call'[g] = call[g]
      BY <1>3, <1>11, <2>2
    <3>2. CASE j.op = "create"
      BY <1>4, <1>6, <3>1, <3>2 DEF AnswerOK, Target
    <3>3. CASE j.op # "create"
      <4>1. call[g].s = s /\ Ok(g)' = (st = "ok") /\ Seen(g)' = seen
        BY <3>1, <3>3 DEF Target, Ok, Seen
      <4>2. call[g].m \in Sends => call[g].tx.signed
        BY <1>1 DEF Linked, CallOK, Signed
      <4>3. j.op = "advance" /\ call[g].m \in Sends /\ st = "ok" => call[g].tx \in rec.signed
        BY <3>1, <4>2 DEF AnswersTruly
      <4>4. session'[call[g].s] = rec /\ call'[g] = call[g] /\ call[g].pc = j.op
        BY <1>4, <3>1, <4>1
      <4> QED
        BY <3>3, <4>1, <4>3, <4>4 DEF AnswersTruly, AnswerOK
    <3> QED
      BY <3>2, <3>3
  <2> QED
    BY <2>1, <2>2
<1>14. JobsOK' /\ OpensAwaited' /\ OpensApart'
  <2>1. OpensApart'
    BY <1>1, <1>3 DEF Linked, OpensApart
  <2> QED
    BY <1>1, <1>3, <1>4, <1>8, <2>1, JobsPopped
<1>15. ASSUME NEW t \in Ids PROVE IdOK(t)'
  <2>1. IdOK(t)
    BY <1>1 DEF Linked
  <2>2. CASE t = s
    <3>1. rec.st # "none"
      BY <1>6, <1>7
    <3>2. ~(nextId <= s)
      BY <1>5 DEF IdOK
    <3> QED
      BY <1>3, <1>4, <2>1, <2>2, <3>1, <3>2 DEF IdOK
  <2>3. CASE t # s
    BY <1>2, <1>3, <1>4, <2>1, <2>3 DEF IdOK
  <2> QED
    BY <2>2, <2>3
<1>16. ASSUME NEW t \in Ids PROVE EntryOK(t)'
  <2>1. CASE t = s /\ j.op = "create"
    <3>1. client'[t] = Stranger /\ side'[t] = NoEntry /\ session'[t] = rec /\ rec.st = "live"
      BY <1>3, <1>4, <1>6, <2>1
    <3>2. Receipts(t)' = {}
      BY <3>1, EntryTypes DEF Receipts, EthGetTransactionReceipt
    <3>3. Numbered(t)'
      BY <3>2 DEF Numbered
    <3> QED
      BY <3>1, <3>3, ClientTypes DEF EntryOK
  <2>2. CASE t # s \/ j.op # "create"
    <3>1. Live(t)' => Live(t)
      BY <1>4, <1>7, <2>2 DEF Live
    <3>2. ASSUME client[t].removed, NEW g \in Handlers, g \in Unrecorded(t)' PROVE g \in Unrecorded(t)
      <4>1. CASE reply'[g] = reply[g]
        BY <1>3, <3>2, <4>1 DEF Unrecorded, Ok
      <4>2. CASE reply'[g] # reply[g]
        <5>1. call[g].pc = j.op /\ Target(g) = s /\ (Ok(g)' = (st = "ok"))
          BY <1>11, <4>2 DEF Ok
        <5>2. CASE call[g].pc = "env"
          BY <1>3, <3>2, <5>2 DEF Unrecorded
        <5>3. CASE call[g].pc # "env"
          <6>1. call[g].s = t /\ call[g].pc = "advance" /\ st = "ok"
            BY <1>3, <3>2, <5>1, <5>3 DEF Unrecorded
          <6>2. t = s /\ Live(s)
            BY <5>1, <6>1 DEF Target, AnswersTruly
          <6> QED
            BY <3>2, <6>2 DEF IInv, EntryOK, Live
        <5> QED
          BY <5>2, <5>3
      <4> QED
        BY <4>1, <4>2
    <3>3. SameClient(t) /\ side'[t] = side[t] /\ Evolves(t)
      BY <1>3, <1>8 DEF SameClient, SessionsEvolve
    <3> QED
      BY <3>1, <3>2, <3>3, EntryKept
  <2> QED
    BY <2>1, <2>2
<1>17. ASSUME NEW g \in Handlers PROVE SendOK(g)'
  <2>1. ASSUME call[g].s \in Ids, call[g].pc = "env"
        PROVE  /\ Live(call[g].s)' \/ Ok(g)' => Live(call[g].s) \/ Ok(g)
               /\ ~client'[call[g].s].removed =>
                    ~client[call[g].s].removed /\ side[call[g].s].count <= side'[call[g].s].count
    <3>1. PICK t \in Ids : t = call[g].s
      BY <2>1
    <3>2. session[t].st # "none"
      <4>1. call[g].m # "open"
        BY <1>1, <2>1 DEF Linked, CallOK
      <4> QED
        BY <1>1, <2>1, <3>1, <4>1, LinkedTypes
    <3>3. Live(t)' => Live(t)
      BY <1>4, <1>6, <1>7, <3>2 DEF Live
    <3>4. ASSUME Ok(g)', ~Ok(g) PROVE Live(t)
      <4>1. reply'[g] # reply[g]
        BY <3>4 DEF Ok
      <4>2. j.op = "env" /\ s = t /\ st = "ok"
        BY <1>11, <2>1, <3>1, <3>4, <4>1 DEF Target, Ok
      <4> QED
        BY <4>2 DEF AnswersTruly
    <3>5. ~client'[t].removed => ~client[t].removed /\ side[t].count <= side'[t].count
      BY <1>1, <1>3 DEF EntryType
    <3> QED
      BY <3>1, <3>3, <3>4, <3>5
  <2>2. call'[g] = call[g] /\ side' \in [Ids -> EntryType]
    BY <1>1, <1>3
  <2> QED
    BY <1>8, <2>1, <2>2, SendKept
<1>18. ReceiptsOfSends'
  BY <1>3, <1>8, ReceiptsKept
<1>19. \A r \in saved' : r.st = "live"
  BY <1>1, <1>3 DEF Linked
<1> QED
  BY <1>10, <1>12, <1>13, <1>14, <1>15, <1>16, <1>17, <1>18, <1>19 DEF IInv, Linked

\* The front job of a session that has one.
LEMMA AtFront ==
  ASSUME IInv, NEW s \in Ids, NEW op, Front(s, op)
  PROVE  /\ jobs[s] # <<>> /\ Head(jobs[s]) = jobs[s][1] /\ jobs[s][1] \in JobType
         /\ jobs[s][1].op = op /\ JobOK(s, 1) /\ session \in [Ids -> SessionType]
         /\ session[s] \in SessionType /\ faults \in 0 .. MaxFaults
         /\ op # "create" => client[s].known /\ session[s].st # "none"
<1>1. Linked /\ Typed /\ session \in [Ids -> SessionType] /\ faults \in 0 .. MaxFaults
  BY LinkedTypes DEF IInv, Linked, TypeOK, ManagerTypeOK
<1>2. jobs[s] # <<>> /\ Head(jobs[s]).op = op /\ jobs[s] \in Seq(JobType)
  BY <1>1 DEF Front, Typed
<1>3. Len(jobs[s]) \in Nat /\ Len(jobs[s]) >= 1 /\ Head(jobs[s]) = jobs[s][1] /\ jobs[s][1] \in JobType
  BY <1>2, Popped
<1>4. JobOK(s, 1) /\ IdOK(s)
  BY <1>1, <1>3 DEF Linked, JobsOK
<1> QED
  BY <1>1, <1>2, <1>3, <1>4 DEF JobOK, IdOK

\* An answer that leaves the session as it is.
LEMMA WorksWithout ==
  ASSUME IInv, NEW s \in Ids, NEW op, Front(s, op), op # "create",
         NEW st \in Answers, NEW seen \in SessionType, Reply(s, st, seen), session' = session,
         /\ op \in {"env", "branch"} /\ st = "ok" => seen = session[s] /\ Live(s)
         /\ op = "env" /\ st # "ok" => ~Live(s)
         /\ op \notin {"advance", "discard"} \/ (op = "advance" /\ st # "ok"),
         faults' \in 0 .. MaxFaults,
         UNCHANGED <<nextId, tip, saved, call, calls, client, served>>
  PROVE  IInv'
<1>1. /\ jobs[s] # <<>> /\ session \in [Ids -> SessionType] /\ session[s] \in SessionType
      /\ session[s].st # "none"
  BY AtFront
<1>2. PICK j \in JobType : j = jobs[s][1] /\ j.op = op
  BY AtFront
<1>3. PICK rec \in SessionType : rec = session[s]
  BY <1>1
<1>4. session' = [session EXCEPT ![s] = rec]
  BY <1>1, <1>3
<1>5. LeavesTruly(j, s, rec)
  BY <1>1, <1>2, <1>3 DEF LeavesTruly, Live
<1>6. rec.st \in {"none", "live", "gone"}
  BY DEF SessionType
<1>7. AnswersTruly(j, s, rec, st, seen)
  BY <1>1, <1>2, <1>3, <1>6 DEF AnswersTruly, Live
<1> QED
  BY <1>1, <1>2, <1>4, <1>5, <1>7, WorksOn

LEMMA StepCreate ==
  ASSUME IInv, NEW s \in Ids, RunCreate(s), UNCHANGED served
  PROVE  IInv'
<1>1. Front(s, "create") /\ Reply(s, "ok", Absent)
  BY DEF RunCreate
<1>2. /\ jobs[s] # <<>> /\ session \in [Ids -> SessionType] /\ Head(jobs[s]) = jobs[s][1]
      /\ faults \in 0 .. MaxFaults
  BY <1>1, AtFront
<1>3. PICK j \in JobType : j = jobs[s][1] /\ j.op = "create"
  BY <1>1, AtFront
<1>4. PICK rec \in SessionType : rec = j.payload
  BY DEF JobType
<1>5. session' = [session EXCEPT ![s] = rec]
  BY <1>2, <1>3, <1>4 DEF RunCreate
<1>6. LeavesTruly(j, s, rec) /\ AnswersTruly(j, s, rec, "ok", Absent)
  BY <1>3, <1>4 DEF LeavesTruly, AnswersTruly
<1>7. "ok" \in Answers /\ Absent \in SessionType
  BY SessionTypes DEF Answers
<1>8. faults' \in 0 .. MaxFaults /\ UNCHANGED <<nextId, tip, saved, call, calls, client, served>>
  BY <1>2 DEF RunCreate
<1> QED
  BY <1>1, <1>2, <1>3, <1>5, <1>6, <1>7, <1>8, WorksOn

LEMMA StepUnknown ==
  ASSUME IInv, NEW s \in Ids, RunUnknown(s), UNCHANGED served
  PROVE  IInv'
<1>1. PICK op \in Reading \cup Direct \cup {"set_account"} : Front(s, op)
  BY DEF RunUnknown
<1>2. op \notin {"create", "discard"}
  BY DEF Reading, Direct
<1>3. "unknown" \in Answers /\ Absent \in SessionType
  BY SessionTypes DEF Answers
<1>4. ~Live(s) /\ Reply(s, "unknown", Absent) /\ session' = session
  BY DEF RunUnknown
<1>5. faults' \in 0 .. MaxFaults /\ UNCHANGED <<nextId, tip, saved, call, calls, client, served>>
  BY <1>1, AtFront DEF RunUnknown
<1> QED
  BY <1>1, <1>2, <1>3, <1>4, <1>5, WorksWithout

LEMMA StepDirect ==
  ASSUME IInv, NEW s \in Ids, RunDirect(s), UNCHANGED served
  PROVE  IInv'
<1>1. PICK op \in Direct : Front(s, op)
  BY DEF RunDirect
<1>2. op \notin {"create", "discard", "advance"}
  BY DEF Direct
<1>3. "ok" \in Answers /\ session[s] \in SessionType /\ faults \in 0 .. MaxFaults
  BY <1>1, AtFront DEF Answers
<1>4. Live(s) /\ Reply(s, "ok", session[s]) /\ session' = session
  BY DEF RunDirect
<1>5. faults' \in 0 .. MaxFaults /\ UNCHANGED <<nextId, tip, saved, call, calls, client, served>>
  BY <1>3 DEF RunDirect
<1>6. PICK seen \in SessionType : seen = session[s]
  BY <1>3
<1> QED
  BY <1>1, <1>2, <1>3, <1>4, <1>5, <1>6, WorksWithout

LEMMA StepRead ==
  ASSUME IInv, NEW s \in Ids, RunRead(s), UNCHANGED served
  PROVE  IInv'
<1>1. PICK op \in {"basic", "read", "call"} : Front(s, op)
  BY DEF RunRead
<1>2. op \notin {"create", "discard", "advance", "env", "branch"}
  OBVIOUS
<1>3. session[s] \in SessionType /\ Absent \in SessionType /\ faults \in 0 .. MaxFaults
  BY <1>1, AtFront, SessionTypes
<1>4. PICK st \in Answers, seen \in SessionType : Reply(s, st, seen)
  BY <1>3 DEF RunRead, Answers
<1>5. /\ faults' \in 0 .. MaxFaults /\ session' = session
      /\ UNCHANGED <<nextId, tip, saved, call, calls, client, served>>
  BY <1>3 DEF RunRead
<1> QED
  BY <1>1, <1>2, <1>4, <1>5, WorksWithout

LEMMA StepFails ==
  ASSUME IInv, NEW s \in Ids, RunFails(s), UNCHANGED served
  PROVE  IInv'
<1>1. PICK op \in Reading : Front(s, op)
  BY DEF RunFails
<1>2. op \notin {"create", "discard", "env", "branch"}
  BY DEF Reading
<1>3. "error" \in Answers /\ Absent \in SessionType /\ MaxFaults \in Nat /\ faults \in 0 .. MaxFaults
  BY <1>1, AtFront, SessionTypes, ManagerAssumption DEF Answers
<1>4. /\ faults' \in 0 .. MaxFaults /\ session' = session /\ Reply(s, "error", Absent)
      /\ UNCHANGED <<nextId, tip, saved, call, calls, client, served>>
  BY <1>3 DEF RunFails
<1> QED
  BY <1>1, <1>2, <1>3, <1>4, WorksWithout

LEMMA GoneTypes ==
  ASSUME session \in [Ids -> SessionType], NEW s \in Ids, session[s].st # "none"
  PROVE  \E rec \in SessionType :
           /\ Gone(s) = [session EXCEPT ![s] = rec]
           /\ rec.st = "gone" /\ rec.block = session[s].block /\ rec.signed = session[s].signed
<1> DEFINE rec == [session[s] EXCEPT !.st = IF session[s].st = "live" THEN "gone" ELSE session[s].st]
<1>1. session[s] \in SessionType
  OBVIOUS
<1>2. session[s].st \in {"live", "gone"}
  BY <1>1 DEF SessionType
<1>3. rec \in SessionType /\ rec.st = "gone" /\ rec.block = session[s].block
      /\ rec.signed = session[s].signed
  BY <1>1, <1>2 DEF SessionType
<1>4. Gone(s) = [session EXCEPT ![s] = rec]
  BY DEF Gone
<1> QED
  BY <1>3, <1>4

LEMMA StepDiscard ==
  ASSUME IInv, NEW s \in Ids, RunDiscard(s), UNCHANGED served
  PROVE  IInv'
<1>1. Front(s, "discard") /\ Reply(s, "ok", Absent) /\ session' = Gone(s)
  BY DEF RunDiscard
<1>2. /\ jobs[s] # <<>> /\ session \in [Ids -> SessionType] /\ session[s].st # "none"
      /\ faults \in 0 .. MaxFaults
  BY <1>1, AtFront
<1>3. PICK j \in JobType : j = jobs[s][1] /\ j.op = "discard"
  BY <1>1, AtFront
<1>4. PICK rec \in SessionType :
        /\ session' = [session EXCEPT ![s] = rec]
        /\ rec.st = "gone" /\ rec.block = session[s].block /\ rec.signed = session[s].signed
  BY <1>1, <1>2, GoneTypes
<1>5. LeavesTruly(j, s, rec) /\ AnswersTruly(j, s, rec, "ok", Absent)
  BY <1>3, <1>4 DEF LeavesTruly, AnswersTruly
<1>6. "ok" \in Answers /\ Absent \in SessionType
  BY SessionTypes DEF Answers
<1>7. faults' \in 0 .. MaxFaults /\ UNCHANGED <<nextId, tip, saved, call, calls, client, served>>
  BY <1>2 DEF RunDiscard
<1> QED
  BY <1>1, <1>2, <1>3, <1>4, <1>5, <1>6, <1>7, WorksOn

LEMMA StepSetAccount ==
  ASSUME IInv, NEW s \in Ids, RunSetAccount(s), UNCHANGED served
  PROVE  IInv'
<1>1. Front(s, "set_account") /\ Live(s) /\ Reply(s, "ok", Absent)
  BY DEF RunSetAccount
<1>2. /\ jobs[s] # <<>> /\ session \in [Ids -> SessionType] /\ session[s] \in SessionType
      /\ faults \in 0 .. MaxFaults /\ Head(jobs[s]) = jobs[s][1]
  BY <1>1, AtFront
<1>3. PICK j \in JobType : j = jobs[s][1] /\ j.op = "set_account"
  BY <1>1, AtFront
<1>4. PICK rec : rec = Overwrite(session[s], j.payload)
  OBVIOUS
<1>5. rec \in SessionType /\ rec.st = "live" /\ rec.block = session[s].block
      /\ rec.signed = session[s].signed
  BY <1>1, <1>2, <1>4 DEF Overwrite, SessionType, JobType, Live
<1>6. session' = [session EXCEPT ![s] = rec]
  BY <1>2, <1>3, <1>4 DEF RunSetAccount
<1>7. LeavesTruly(j, s, rec) /\ AnswersTruly(j, s, rec, "ok", Absent)
  BY <1>1, <1>3, <1>5 DEF LeavesTruly, AnswersTruly
<1>8. "ok" \in Answers /\ Absent \in SessionType
  BY SessionTypes DEF Answers
<1>9. faults' \in 0 .. MaxFaults /\ UNCHANGED <<nextId, tip, saved, call, calls, client, served>>
  BY <1>2 DEF RunSetAccount
<1> QED
  BY <1>1, <1>2, <1>3, <1>5, <1>6, <1>7, <1>8, <1>9, WorksOn

LEMMA CommittedTypes ==
  ASSUME NEW rec \in SessionType, NEW tx \in TxType, rec.funds # 0
  PROVE  /\ Committed(rec, tx) \in SessionType
         /\ Committed(rec, tx).st = rec.st /\ Committed(rec, tx).block = rec.block
         /\ rec.signed \subseteq Committed(rec, tx).signed
         /\ tx.signed => tx \in Committed(rec, tx).signed
<1> DEFINE signed == IF tx.signed THEN rec.signed \cup {tx} ELSE rec.signed
<1>1. tx.signed => tx \in Signed
  BY TxTypes
<1>2. signed \in SUBSET Signed
  BY <1>1 DEF SessionType
<1>3. rec.signed \subseteq signed /\ (tx.signed => tx \in signed)
  OBVIOUS
<1>4. Committed(rec, tx) = [rec EXCEPT !.nonce = rec.nonce + 1, !.funds = rec.funds - 1,
                                       !.sent = rec.sent + 1, !.signed = signed]
  BY DEF Committed
<1> HIDE DEF signed
<1>5. rec.funds - 1 \in Nat /\ rec.nonce + 1 \in Nat /\ rec.sent + 1 \in Nat
  BY DEF SessionType
<1>6. Committed(rec, tx) \in SessionType
  BY <1>2, <1>4, <1>5 DEF SessionType
<1>7. /\ Committed(rec, tx).st = rec.st /\ Committed(rec, tx).block = rec.block
      /\ Committed(rec, tx).signed = signed
  BY <1>4 DEF SessionType
<1> QED
  BY <1>3, <1>6, <1>7

LEMMA StepTransaction ==
  ASSUME IInv, NEW s \in Ids, RunTransaction(s), UNCHANGED served
  PROVE  IInv'
<1>1. PICK op \in {"advance", "simulate"} :
        /\ Front(s, op) /\ Live(s)
        /\ op = "advance" =>
             session' = IF Verdict(session[s], Head(jobs[s]).tx) = "ok"
                        THEN [session EXCEPT ![s] = Committed(session[s], Head(jobs[s]).tx)]
                        ELSE session
        /\ op = "simulate" => session' = session
  BY DEF RunTransaction
<1>2. /\ jobs[s] # <<>> /\ session \in [Ids -> SessionType] /\ session[s] \in SessionType
      /\ faults \in 0 .. MaxFaults /\ Head(jobs[s]) = jobs[s][1]
  BY <1>1, AtFront
<1>3. PICK j \in JobType : j = jobs[s][1] /\ j.op = op
  BY <1>1, AtFront
<1>4. j.tx \in TxType /\ Absent \in SessionType
  BY SessionTypes DEF JobType
<1>5. PICK st \in Answers : st = Verdict(session[s], j.tx)
  BY DEF Verdict, Answers
<1>6. /\ Reply(s, st, Absent) /\ faults' \in 0 .. MaxFaults
      /\ UNCHANGED <<nextId, tip, saved, call, calls, client, served>>
  BY <1>2, <1>3, <1>5 DEF RunTransaction
<1>7. CASE op = "simulate" \/ st # "ok"
  <2>1. session' = session
    BY <1>1, <1>2, <1>3, <1>5, <1>7
  <2>2. op # "create" /\ op # "env" /\ op # "branch" /\ op # "discard"
    OBVIOUS
  <2> QED
    BY <1>1, <1>4, <1>6, <1>7, <2>1, <2>2, WorksWithout
<1>8. CASE op = "advance" /\ st = "ok"
  <2>1. session[s].funds # 0
    BY <1>5, <1>8 DEF Verdict
  <2>2. PICK rec \in SessionType :
          /\ rec = Committed(session[s], j.tx)
          /\ rec.st = "live" /\ rec.block = session[s].block /\ session[s].signed \subseteq rec.signed
          /\ (j.tx.signed => j.tx \in rec.signed)
    BY <1>1, <1>2, <1>4, <2>1, CommittedTypes DEF Live
  <2>3. session' = [session EXCEPT ![s] = rec]
    BY <1>1, <1>2, <1>3, <1>5, <1>8, <2>2
  <2>4. LeavesTruly(j, s, rec) /\ AnswersTruly(j, s, rec, st, Absent)
    BY <1>1, <1>3, <1>8, <2>2 DEF LeavesTruly, AnswersTruly
  <2> QED
    BY <1>2, <1>3, <1>4, <1>6, <2>3, <2>4, WorksOn
<1> QED
  BY <1>7, <1>8

LEMMA StepWorks ==
  ASSUME IInv, NEW s \in Ids, Works(s)
  PROVE  IInv'
<1>1. Run(s) /\ UNCHANGED served
  BY DEF Works
<1> QED
  BY <1>1, StepCreate, StepUnknown, StepDiscard, StepDirect, StepRead, StepSetAccount,
     StepTransaction, StepFails DEF Run

LEMMA StepExpire ==
  ASSUME IInv, NEW s \in Ids, Expire(s), UNCHANGED served
  PROVE  IInv'
<1>1. /\ Linked /\ TypeOK /\ Typed /\ session \in [Ids -> SessionType] /\ faults \in 0 .. MaxFaults
      /\ client \in [Ids -> ClientType] /\ side \in [Ids -> EntryType]
      /\ nextId \in 0 .. MaxSessions /\ nextId \in Nat /\ MaxFaults \in Nat
  BY LinkedTypes, ManagerAssumption DEF IInv, Linked, TypeOK, ManagerTypeOK
<1>2. /\ nextId' = nextId /\ tip' = tip /\ saved' = saved /\ call' = call /\ calls' = calls
      /\ client' = client /\ side' = side /\ stage' = stage /\ draining' = draining
      /\ jobs' = jobs /\ reply' = reply /\ faults' \in 0 .. MaxFaults
  BY <1>1 DEF Expire, served
<1>3. session[s].st = "live" /\ session[s] \in SessionType
  BY <1>1 DEF Expire, Live
<1>4. PICK rec \in SessionType :
        /\ session' = [session EXCEPT ![s] = rec]
        /\ rec.st = "gone" /\ rec.block = session[s].block /\ rec.signed = session[s].signed
  BY <1>1, <1>3, GoneTypes DEF Expire
<1>5. /\ session'[s] = rec /\ (\A t \in Ids : t # s => session'[t] = session[t])
      /\ session' \in [Ids -> SessionType]
  BY <1>1, <1>4
<1>6. SessionsEvolve /\ \A t \in Ids : session'[t].st # "none" => session[t].st # "none"
  BY <1>3, <1>4, <1>5 DEF SessionsEvolve, Evolves
<1>7. ClientsLearn
  <2>1. \A t \in Ids : client[t].block \in Nat
    BY <1>1 DEF ClientType
  <2> QED
    BY <1>2, <2>1 DEF ClientsLearn
<1>8. TypeOK'
  <2>1. ManagerTypeOK'
    BY <1>1, <1>2, <1>5 DEF TypeOK, ManagerTypeOK
  <2>2. HttpTypeOK'
    BY <1>1, <1>2 DEF HttpTypeOK
  <2> QED
    BY <1>1, <1>2, <2>1, <2>2 DEF TypeOK, Active
<1>9. ASSUME NEW g \in Handlers PROVE CallOK(g)' /\ AnswerOK(g)'
  <2>1. call'[g] = call[g] /\ reply'[g] = reply[g] /\ nextId <= nextId' /\ nextId' \in Nat
        /\ client' \in [Ids -> ClientType]
    BY <1>1, <1>2
  <2>2. call[g].pc = "create" => ~client'[call[g].new].known /\ call[g].new \in Ids
    BY <1>1, <1>2, LinkedTypes DEF Linked, CallOK
  <2>3. CallOK(g)'
    BY <1>1, <1>6, <1>7, <2>1, <2>2, CallKept
  <2>4. AnswerOK(g)'
    BY <1>1, <1>6, <2>1, AnswerKept
  <2> QED
    BY <2>3, <2>4
<1>10. OpensApart' /\ OpensAwaited'
  BY <1>1, <1>2 DEF Linked, OpensApart, OpensAwaited
<1>11. JobsOK'
  <2>1. ASSUME NEW t \in Ids, NEW i \in 1 .. Len(jobs'[t]) PROVE JobOK(t, i)'
    <3>1. i \in 1 .. Len(jobs[t]) /\ jobs'[t][i] = jobs[t][i] /\ jobs[t] \in Seq(JobType)
      BY <1>1, <1>2, <2>1 DEF Typed
    <3>2. JobOK(t, i) /\ jobs[t][i] \in JobType
      BY <1>1, <3>1 DEF Linked, JobsOK
    <3>3. jobs[t][i].op = "create" => Len(jobs'[t]) = 1 /\ session'[t].st = "none"
      BY <1>2, <1>6, <3>2 DEF JobOK
    <3>4. jobs[t][i].h # NoHandler =>
            /\ jobs[t][i].h \in Handlers
            /\ call'[jobs[t][i].h] = call[jobs[t][i].h] /\ reply'[jobs[t][i].h] = reply[jobs[t][i].h]
      BY <1>2, <3>2 DEF JobType
    <3> QED
      BY <1>1, <1>2, <1>6, <3>1, <3>3, <3>4, JobKept
  <2>2. ASSUME NEW t \in Ids, NEW i \in 1 .. Len(jobs'[t]), NEW k \in 1 .. Len(jobs'[t]),
               jobs'[t][i].h # NoHandler, jobs'[t][k].h = jobs'[t][i].h
        PROVE  k = i
    BY <1>1, <1>2, <2>2 DEF Linked, JobsOK
  <2> QED
    BY <2>1, <2>2 DEF JobsOK
<1>12. ASSUME NEW t \in Ids PROVE IdOK(t)'
  <2>1. IdOK(t)
    BY <1>1 DEF Linked
  <2>2. CASE t = s
    BY <1>2, <1>3, <1>4, <1>5, <2>1, <2>2 DEF IdOK
  <2>3. CASE t # s
    BY <1>2, <1>5, <2>1, <2>3 DEF IdOK
  <2> QED
    BY <2>2, <2>3
<1>13. ASSUME NEW t \in Ids PROVE EntryOK(t)'
  <2>1. Unrecorded(t)' = Unrecorded(t)
    BY <1>2 DEF Unrecorded, Ok
  <2>2. Live(t)' => Live(t)
    BY <1>3, <1>5 DEF Live
  <2>3. Evolves(t) /\ side'[t] = side[t] /\ SameClient(t)
    BY <1>2, <1>6 DEF SessionsEvolve, SameClient
  <2> QED
    BY <2>1, <2>2, <2>3, EntryKept
<1>14. ASSUME NEW g \in Handlers PROVE SendOK(g)'
  <2>1. ASSUME call[g].s \in Ids
        PROVE  /\ Live(call[g].s)' \/ Ok(g)' => Live(call[g].s) \/ Ok(g)
               /\ ~client'[call[g].s].removed =>
                    ~client[call[g].s].removed /\ side[call[g].s].count <= side'[call[g].s].count
    <3>1. Live(call[g].s)' => Live(call[g].s)
      <4>1. PICK t \in Ids : t = call[g].s /\ call'[g].s = t
        BY <1>2, <2>1
      <4>2. session'[t].st = "live" => session[t].st = "live"
        BY <1>3, <1>5
      <4> QED
        BY <4>1, <4>2 DEF Live
    <3>2. Ok(g)' => Ok(g)
      BY <1>2 DEF Ok
    <3>3. side[call[g].s].count \in Nat /\ side'[call[g].s] = side[call[g].s]
      BY <1>1, <1>2, <2>1 DEF EntryType
    <3> QED
      BY <1>2, <3>1, <3>2, <3>3
  <2>2. call'[g] = call[g] /\ side' \in [Ids -> EntryType]
    BY <1>1, <1>2
  <2> QED
    BY <1>6, <2>1, <2>2, SendKept
<1>15. ReceiptsOfSends'
  BY <1>2, <1>6, ReceiptsKept
<1>16. \A r \in saved' : r.st = "live"
  BY <1>1, <1>2 DEF Linked
<1> QED
  BY <1>8, <1>9, <1>10, <1>11, <1>12, <1>13, <1>14, <1>15, <1>16 DEF IInv, Linked

----------------------------------------------------------------------------
(* The chain and main *)

LEMMA Elsewhere ==
  ASSUME IInv, TypeOK', UNCHANGED <<nextId, session, jobs, reply, saved, call, client, side>>
  PROVE  IInv'
<1>1. Linked /\ (\A s \in Ids : EntryOK(s)) /\ (\A h \in Handlers : SendOK(h)) /\ ReceiptsOfSends
  BY DEF IInv
<1>2. ASSUME NEW h \in Handlers PROVE CallOK(h)' /\ AnswerOK(h)' /\ SendOK(h)'
  <2>1. CallOK(h)'
    BY <1>1 DEF Linked, CallOK
  <2>2. AnswerOK(h)'
    BY <1>1 DEF Linked, AnswerOK, Answered, Ok, Seen
  <2>3. SendOK(h)'
    BY <1>1 DEF SendOK, Live, Ok
  <2> QED
    BY <2>1, <2>2, <2>3
<1>3. OpensApart' /\ OpensAwaited'
  BY <1>1 DEF Linked, OpensApart, OpensAwaited
<1>4. JobsOK'
  BY <1>1 DEF Linked, JobsOK, JobOK, Target
<1>5. ASSUME NEW s \in Ids PROVE IdOK(s)' /\ EntryOK(s)'
  <2>1. IdOK(s)'
    BY <1>1 DEF Linked, IdOK
  <2>2. Numbered(s)' <=> Numbered(s)
    BY DEF Numbered, Receipts, EthGetTransactionReceipt
  <2>3. Unrecorded(s)' = Unrecorded(s) /\ (Live(s)' <=> Live(s))
    BY DEF Unrecorded, Ok, Live
  <2>4. EntryOK(s)'
    BY <1>1, <2>2, <2>3 DEF EntryOK
  <2> QED
    BY <2>1, <2>4
<1>6. ReceiptsOfSends'
  BY <1>1 DEF ReceiptsOfSends, EthGetTransactionReceipt
<1>7. \A r \in saved' : r.st = "live"
  BY <1>1 DEF Linked
<1> QED
  BY <1>2, <1>3, <1>4, <1>5, <1>6, <1>7 DEF IInv, Linked

LEMMA StepFollows ==
  ASSUME IInv, Follows
  PROVE  IInv'
<1>1. /\ TypeOK /\ tip' = tip + 1 /\ tip < MaxBlock /\ MaxBlock \in Nat
      /\ UNCHANGED <<nextId, session, jobs, reply, saved, faults, call, calls, client>>
      /\ UNCHANGED <<side, stage, draining>>
  BY ManagerAssumption DEF Follows, Refresh, served, IInv, Linked
<1>2. tip' \in Blocks
  BY <1>1 DEF TypeOK, ManagerTypeOK, Blocks
<1>3. ManagerTypeOK'
  BY <1>1, <1>2 DEF TypeOK, ManagerTypeOK
<1>4. TypeOK'
  BY <1>1, <1>3 DEF TypeOK, HttpTypeOK, Active
<1> QED
  BY <1>1, <1>4, Elsewhere

LEMMA StepSignal ==
  ASSUME IInv, Signal
  PROVE  IInv'
<1>1. /\ TypeOK /\ stage' = "http" /\ calls' = calls + Cost["stop"]
      /\ calls + Cost["stop"] <= MaxCalls
      /\ UNCHANGED <<nextId, tip, session, jobs, reply, saved, faults, call, client, side, draining>>
  BY DEF Signal, IInv, Linked
<1>2. calls' \in 0 .. MaxCalls
  <2>1. calls \in 0 .. MaxCalls /\ Cost["stop"] \in Nat
    BY <1>1, ManagerAssumption DEF TypeOK, ManagerTypeOK, Methods
  <2> QED
    BY <1>1, <2>1, ManagerAssumption
<1>3. ManagerTypeOK'
  BY <1>1, <1>2 DEF TypeOK, ManagerTypeOK
<1>4. TypeOK'
  BY <1>1, <1>3 DEF TypeOK, HttpTypeOK
<1> QED
  BY <1>1, <1>4, Elsewhere

LEMMA StepHttpShutdown ==
  ASSUME IInv, HttpShutdown
  PROVE  IInv'
<1>1. /\ TypeOK /\ stage' = "mcp" /\ Active("http") = {} /\ draining' \in SUBSET Active("mcp")
      /\ UNCHANGED <<nextId, tip, session, jobs, reply, saved, faults, call, calls, client, side>>
  BY DEF HttpShutdown, IInv, Linked
<1>2. ManagerTypeOK'
  BY <1>1 DEF TypeOK, ManagerTypeOK
<1>3. TypeOK'
  BY <1>1, <1>2 DEF TypeOK, HttpTypeOK, Active
<1> QED
  BY <1>1, <1>3, Elsewhere

\* No id handed out, and no request under way.
AllBlank ==
  /\ nextId = 0 /\ session = [s \in Ids |-> Absent] /\ jobs = [s \in Ids |-> <<>>]
  /\ reply = [h \in Handlers |-> NoReply] /\ call = [h \in Handlers |-> Idle]
  /\ client = [s \in Ids |-> Stranger] /\ side = [s \in Ids |-> NoEntry]
  /\ tip \in Blocks /\ saved \subseteq SessionType /\ (\A r \in saved : r.st = "live")
  /\ faults \in 0 .. MaxFaults /\ calls \in 0 .. MaxCalls
  /\ stage \in {"up", "http", "mcp", "exited"} /\ draining = {}

LEMMA Blank == AllBlank => IInv
<1> SUFFICES ASSUME AllBlank PROVE IInv
  OBVIOUS
<1>1. ManagerTypeOK
  BY ManagerAssumption, SessionTypes, ReplyTypes, CallTypes, ClientTypes
  DEF AllBlank, ManagerTypeOK
<1>2. TypeOK
  BY <1>1, EntryTypes, CallTypes DEF AllBlank, TypeOK, HttpTypeOK, Active
<1>3. ASSUME NEW h \in Handlers PROVE CallOK(h) /\ AnswerOK(h) /\ SendOK(h)
  BY CallTypes, ReplyTypes
  DEF AllBlank, CallOK, AnswerOK, Answered, SendOK, Idle, Sends, NoTx
<1>4. OpensApart /\ OpensAwaited
  BY CallTypes DEF AllBlank, OpensApart, OpensAwaited
<1>5. JobsOK
  BY DEF AllBlank, JobsOK
<1>6. ASSUME NEW s \in Ids PROVE IdOK(s) /\ EntryOK(s)
  BY SessionTypes, ClientTypes, EntryTypes DEF AllBlank, IdOK, EntryOK, Live
<1>7. ReceiptsOfSends
  BY ClientTypes, EntryTypes DEF AllBlank, ReceiptsOfSends, EthGetTransactionReceipt
<1> QED
  BY <1>2, <1>3, <1>4, <1>5, <1>6, <1>7 DEF AllBlank, IInv, Linked

LEMMA InitOK == Init => IInv
<1> SUFFICES ASSUME Init PROVE IInv
  OBVIOUS
<1>1. faults \in 0 .. MaxFaults /\ calls \in 0 .. MaxCalls
  BY ManagerAssumption DEF Init, ManagerInit
<1>2. AllBlank
  BY <1>1, BlockTypes DEF AllBlank, Init, ManagerInit, HttpInit
<1> QED
  BY <1>2, Blank

LEMMA ExitBlank == IInv /\ Exit => AllBlank'
<1> SUFFICES ASSUME IInv, Exit PROVE AllBlank'
  OBVIOUS
<1>1. /\ tip \in Blocks /\ saved \subseteq SessionType /\ (\A r \in saved : r.st = "live")
      /\ faults \in 0 .. MaxFaults /\ calls \in 0 .. MaxCalls
  BY DEF IInv, Linked, TypeOK, ManagerTypeOK
<1> QED
  BY <1>1 DEF Exit, AllBlank

LEMMA StepExit == IInv /\ Exit => IInv'
  BY ExitBlank, Blank, PTL

LEMMA StepOK == IInv /\ [Next]_vars => IInv'
<1> SUFFICES ASSUME IInv, [Next]_vars PROVE IInv'
  OBVIOUS
<1>1. ASSUME NEW h \in Handlers, Request(h) PROVE IInv'
  <2>1. UNCHANGED served
    BY <1>1 DEF Request
  <2> QED
    BY <1>1, <2>1, StepHttpRequest, StepMcpRequest DEF Request
<1>2. ASSUME NEW h \in Handlers, Continue(h) PROVE IInv'
  BY <1>2, StepContinue
<1>3. ASSUME NEW h \in Handlers, Hangs(h) PROVE IInv'
  BY <1>3, StepDropped DEF Hangs
<1>4. ASSUME NEW s \in Ids, Works(s) PROVE IInv'
  BY <1>4, StepWorks
<1>5. ASSUME NEW s \in Ids, Expire(s), UNCHANGED served PROVE IInv'
  BY <1>5, StepExpire
<1>6. CASE Follows
  BY <1>6, StepFollows
<1>7. CASE Signal
  BY <1>7, StepSignal
<1>8. CASE HttpShutdown
  BY <1>8, StepHttpShutdown
<1>9. CASE Exit
  BY <1>9, StepExit
<1>10. CASE UNCHANGED vars
  <2>1. TypeOK'
    BY <1>10 DEF vars, served, IInv, Linked, TypeOK, ManagerTypeOK, HttpTypeOK, Active
  <2> QED
    BY <1>10, <2>1, Elsewhere DEF vars, served
<1> QED
  BY <1>1, <1>2, <1>3, <1>4, <1>5, <1>6, <1>7, <1>8, <1>9, <1>10 DEF Next

\* The inductive invariant, in every state the process can reach.
LEMMA Invariant == Spec => []IInv
  BY InitOK, StepOK, PTL DEF Spec

----------------------------------------------------------------------------
\* Every variable keeps its shape, and no HTTP request is under way once main
\* has closed that surface (main.rs 323).
THEOREM TypeCorrect == Spec => []TypeOK
<1>1. IInv => TypeOK
  BY DEF IInv, Linked
<1> QED
  BY <1>1, Invariant, PTL

\* A send that was answered Ok keeps its receipt until its session is discarded
\* over HTTP, and no receipt is of a transaction no session has executed
\* (api-http lib.rs 459-471).
THEOREM SendsKeepReceipts == Spec => []ReceiptsOfSends
<1>1. IInv => ReceiptsOfSends
  BY DEF IInv
<1> QED
  BY <1>1, Invariant, PTL

\* An HTTP discard leaves no entry in the table, but for a send that it crosses
\* (api-http lib.rs 428-431, 469).
THEOREM DiscardsClean == Spec => []DiscardCleans
<1>1. IInv => DiscardCleans
  BY DEF IInv, EntryOK, DiscardCleans
<1> QED
  BY <1>1, Invariant, PTL

\* A live session's receipts are numbered apart and within its own blocks,
\* unless a dead parent's entry was copied (api-http lib.rs 462-469).
THEOREM ReceiptsApart == Spec => []ReceiptsNumbered
<1>1. IInv => ReceiptsNumbered
  BY DEF IInv, EntryOK, Numbered, ReceiptsNumbered
<1> QED
  BY <1>1, Invariant, PTL

\* eth_blockNumber reports no less than what was told of the session when it
\* was asked (api-http lib.rs 396-398).
THEOREM NumbersRise == Spec => []NeverReportsLower
<1>1. IInv => NeverReportsLower
  <2> SUFFICES ASSUME IInv, NEW h \in Handlers,
                      call[h].m = "block_number", call[h].pc = "env", Ok(h)
               PROVE  RealBlockNumber(h) >= call[h].floor
    BY DEF NeverReportsLower
  <2>1. Linked /\ Answered(h) /\ SendOK(h) /\ AnswerOK(h)
    BY DEF IInv, Linked, Answered, Ok
  <2>2. Seen(h).block = session[call[h].s].block /\ call[h].floor <= session[call[h].s].block + call[h].n
    BY <2>1 DEF AnswerOK, SendOK
  <2>3. call[h] \in CallType /\ Seen(h) \in SessionType
    BY <2>1, LinkedTypes
  <2>4. call[h].floor \in Nat /\ call[h].n \in Nat /\ Seen(h).block \in Nat
    BY <2>3, BlockTypes DEF CallType, SessionType
  <2> QED
    BY <2>2, <2>4 DEF RealBlockNumber, SessionBlockEnv
<1> QED
  BY <1>1, Invariant, PTL

\* A gas price quoted for a session is never too low for that session, whatever
\* happened between (api-mcp lib.rs 346-349, api-http lib.rs 131-135).
THEOREM QuotesHold == Spec => []QuotedPriceAccepted
<1>1. IInv => QuotedPriceAccepted
  <2> SUFFICES ASSUME IInv, NEW s \in Ids, Live(s), NEW p \in client[s].prices
               PROVE  Verdict(session[s], [NoTx EXCEPT !.price = p]) # "underpriced"
    BY DEF QuotedPriceAccepted
  <2>1. /\ BaseFee[session[s].block] <= p /\ client[s] \in ClientType
        /\ session[s].block \in Blocks
    BY DEF IInv, EntryOK, Linked, TypeOK, ManagerTypeOK, SessionType
  <2>2. p \in Nat /\ BaseFee[session[s].block] \in Nat
    BY <2>1, BlockTypes DEF ClientType
  <2>3. [NoTx EXCEPT !.price = p].price = p
    BY DEF NoTx
  <2>4. ~(p < BaseFee[session[s].block])
    BY <2>1, <2>2
  <2> QED
    BY <2>3, <2>4 DEF Verdict
<1> QED
  BY <1>1, Invariant, PTL
=============================================================================
