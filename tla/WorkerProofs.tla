---------------------------- MODULE WorkerProofs ----------------------------
(***************************************************************************)
(* Proofs about Worker, for any number of callers, sessions, workers, keys *)
(* and rounds: wake-ups pair up with parked sessions, no job is lost or    *)
(* held twice, nothing made up outlives its pass, an advance commits once, *)
(* the live counts are exact, and the pool implements SessionJobs.         *)
(***************************************************************************)
EXTENDS Worker, FiniteSetTheorems, TLAPS

\* Every session has a worker.
LEMMA WorkerOfType == ASSUME NEW s \in Sessions PROVE WorkerOf(s) \in Workers
BY WorkerAssumption DEF WorkerOf, Workers, Sessions

\* NoSession is no session.
LEMMA NoSessionType == NoSession \notin Sessions
BY WorkerAssumption DEF NoSession, Sessions

\* The live sessions of a worker can be counted.
LEMMA CountType ==
  ASSUME NEW w, NEW alive, alive \subseteq Sessions
  PROVE  CountOf(w, alive) \in Nat
<1>1. IsFiniteSet(Sessions)
  BY FS_Interval, WorkerAssumption DEF Sessions
<1>2. IsFiniteSet({s \in alive : WorkerOf(s) = w})
  BY <1>1, FS_Subset
<1>. QED
  BY <1>2, FS_CardinalityType DEF CountOf

\* A message posted to an inbox is last in it.
LEMMA PostsAppend ==
  ASSUME NEW q \in Seq(MessageType), NEW m \in MessageType, NEW s
  PROVE  PostsIn(Append(q, m), s) =
           IF m.type = "unblock" /\ m.id = s
           THEN PostsIn(q, s) \cup {Len(q) + 1} ELSE PostsIn(q, s)
BY DEF PostsIn

\* Taking the first message of an inbox moves the others up by one.
LEMMA PostsTail ==
  ASSUME NEW q \in Seq(MessageType), q # <<>>, NEW s
  PROVE  /\ PostsIn(Tail(q), s) = {i - 1 : i \in PostsIn(q, s) \ {1}}
         /\ 1 \in PostsIn(q, s) <=> Head(q).type = "unblock" /\ Head(q).id = s
BY DEF PostsIn

----------------------------------------------------------------------------
(* Types *)

\* The bounds are naturals with a zero.
LEMMA Bounds ==
  /\ MaxSessions \in Nat /\ MaxRounds \in Nat /\ Ttl \in Nat
  /\ 0 \in 0 .. MaxRounds /\ 0 \in 0 .. Ttl /\ 0 < MaxRounds
BY WorkerAssumption

\* What a pass commits keeps the types.
LEMMA ExecuteType ==
  ASSUME TypeOK, NEW s \in Sessions, NEW c \in Callers, NEW clean, NEW o, NEW m,
         Execute(s, c, clean, o, m)
  PROVE  tainted' \subseteq Sessions /\ commits' \in [Callers -> Nat]
<1>1. tainted' \subseteq Sessions
  BY DEF Execute, TypeOK
<1>2. commits[c] + 1 \in Nat
  BY DEF TypeOK
<1>3. commits' = commits \/ commits' = [commits EXCEPT ![c] = commits[c] + 1]
  BY DEF Execute
<1>. QED  BY <1>1, <1>2, <1>3 DEF TypeOK

\* Answering a job keeps the types if the session's own variables keep theirs.
LEMMA ReplyType ==
  ASSUME TypeOK, NEW w \in Workers, NEW s \in Sessions, NEW c \in Callers,
         NEW o \in Answered \cup {"branched"}, NEW m \in SUBSET MadeUp,
         queue[s] # <<>>, Reply(w, s, c, o, m),
         live' \subseteq Sessions, age' \in [Sessions -> 0 .. Ttl],
         placeholder' \in [Sessions -> SUBSET Keys], cached' \subseteq Keys,
         tainted' \subseteq Sessions, count' \in [Workers -> Nat],
         commits' \in [Callers -> Nat]
  PROVE  TypeOK'
<1>1. call' \in [Callers -> CallType]
  <2>1. call[c] \in CallType
    BY DEF TypeOK
  <2>2. [call[c] EXCEPT !.st = o, !.made = m] \in CallType
    BY <2>1 DEF CallType
  <2>. DEFINE r == [call[c] EXCEPT !.st = o, !.made = m]
  <2>3. call' = [call EXCEPT ![c] = r]
    BY DEF Reply
  <2>4. r \in CallType /\ call \in [Callers -> CallType]
    BY <2>2 DEF TypeOK
  <2>. HIDE DEF r
  <2>. QED
    BY <2>3, <2>4
<1>2. queue' \in [Sessions -> Seq(Callers)]
  <2>1. Tail(queue[s]) \in Seq(Callers)
    BY DEF TypeOK
  <2>. QED  BY <2>1 DEF Reply, TypeOK
<1>3. rounds' \in [Sessions -> 0 .. MaxRounds]
  BY Bounds DEF Reply, TypeOK
<1>4. ahead' \in [Callers -> SUBSET Callers]
  BY DEF Reply, TypeOK
<1>5. blocking' \in [Workers -> BOOLEAN]
  BY DEF Reply, TypeOK
<1>. QED
  BY <1>1, <1>2, <1>3, <1>4, <1>5 DEF Reply, TypeOK

\* The front job's caller and session.
LEMMA FrontType ==
  ASSUME TypeOK, NEW w \in Workers, NEW s, NEW c, Front(w, s, c)
  PROVE  s \in Sessions /\ c \in Callers /\ queue[s] # <<>> /\ running[w] = s
BY DEF TypeOK, Front

\* The handlers that answer their job, and with what.
LEMMA ReplyCases ==
  ASSUME TypeOK, NEW w \in Workers, NEW s \in Sessions, NEW c \in Callers,
         \/ RunUnknown(w, s, c)
         \/ RunCreate(w, s, c)
         \/ RunDiscard(w, s, c)
         \/ RunDirect(w, s, c)
         \/ \E o \in {"ok", "err"} : RunClean(w, s, c, o)
         \/ \E g, f \in SUBSET Keys, o \in {"ok", "err"} : RunBlocking(w, s, c, g, f, o)
  PROVE  \E o \in Answered \cup {"branched"}, m \in SUBSET MadeUp :
           Reply(w, s, c, o, m)
<1>. DEFINE Answers == \E o \in Answered \cup {"branched"}, m \in SUBSET MadeUp :
                         Reply(w, s, c, o, m)
<1>1. ASSUME NEW o \in {"ok", "err"}, RunClean(w, s, c, o)
      PROVE Answers
  <2>1. RestsOn(s, c, Misses(s, c), {}) \in SUBSET MadeUp
    BY DEF RestsOn, Inherited, MadeUp
  <2>. QED  BY <1>1, <2>1 DEF RunClean, Answered
<1>2. ASSUME NEW g \in SUBSET Keys, NEW f \in SUBSET Keys, NEW o \in {"ok", "err"},
             RunBlocking(w, s, c, g, f, o)
      PROVE Answers
  <2>. DEFINE m == IF f \subseteq Slots THEN RestsOn(s, c, {}, f) ELSE {}
  <2>1. m \in SUBSET MadeUp  BY DEF RestsOn, Inherited, MadeUp
  <2>. QED  BY <1>2, <2>1 DEF RunBlocking, Answered
<1>3. CASE RunUnknown(w, s, c) \/ RunCreate(w, s, c) \/ RunDiscard(w, s, c) \/ RunDirect(w, s, c)
  <2>1. Inherited(s) \in SUBSET MadeUp
    BY DEF Inherited, MadeUp
  <2>. QED
    BY <1>3, <2>1 DEF RunUnknown, RunCreate, RunDiscard, RunDirect, Answered
<1>. QED  BY <1>1, <1>2, <1>3

\* Sending a job keeps the types.
LEMMA PostType ==
  ASSUME TypeOK, NEW c \in Callers, NEW op \in AllOps, NEW s \in Sessions,
         NEW r \in SUBSET Keys, Post(c, op, s, r), nextId' \in 0 .. MaxSessions
  PROVE  TypeOK'
<1>1. call' \in [Callers -> CallType]
  <2>1. NoCall \in CallType
    BY WorkerAssumption DEF NoCall, CallType, AllOps, Sessions
  <2>2. call[c].made \in SUBSET MadeUp
    BY DEF TypeOK, CallType
  <2>3. [NoCall EXCEPT !.st = "sent", !.op = op, !.id = s, !.reads = r, !.made = call[c].made] \in CallType
    BY <2>1, <2>2 DEF CallType
  <2>. QED
    BY <2>3 DEF TypeOK, Post
<1>2. ahead' \in [Callers -> SUBSET Callers]
  BY DEF TypeOK, Post, Outstanding
<1>3. inbox' \in [Workers -> Seq(MessageType)]
  <2>1. JobMsg(c) \in MessageType
    BY DEF JobMsg, MessageType
  <2>. QED
    BY <2>1, WorkerOfType DEF TypeOK, Post
<1>4. commits' \in [Callers -> Nat]
  BY DEF TypeOK, Post
<1>. QED
  BY <1>1, <1>2, <1>3, <1>4 DEF TypeOK, Post

\* Every step keeps the types.
LEMMA TypeStep == TypeOK /\ RunningOK /\ [Next]_vars => TypeOK'
<1> SUFFICES ASSUME TypeOK, RunningOK, [Next]_vars PROVE TypeOK'
  OBVIOUS
<1>1. CASE UNCHANGED vars
  BY <1>1 DEF TypeOK, vars, sessionVars, workerVars
<1>2. ASSUME NEW c \in Callers, Caller(c) PROVE TypeOK'
  <2>1. ASSUME NEW op \in Ops, NEW s \in Sessions, NEW r \in SUBSET Keys, Submit(c, op, s, r)
        PROVE TypeOK'
    BY <2>1, PostType, WorkerAssumption DEF Submit, TypeOK
  <2>2. CASE Fork(c) \/ Adopt(c)
    <3>1. nextId \in Sessions /\ nextId + 1 \in 0 .. MaxSessions
      BY <2>2, WorkerAssumption DEF Fork, Adopt, Sessions, TypeOK
    <3>. QED
      BY <2>2, <3>1, PostType DEF Fork, Adopt, AllOps, Creating
  <2>3. CASE Return(c)
    <3>1. NoCall \in CallType
      BY WorkerAssumption DEF NoCall, CallType, AllOps, Sessions
    <3>. QED
      BY <2>3, <3>1 DEF Return, TypeOK, sessionVars, workerVars
  <2>. QED
    BY <1>2, <2>1, <2>2, <2>3 DEF Caller
<1>3. ASSUME NEW w \in Workers, Receive(w) PROVE TypeOK'
  <2>. DEFINE m == Head(inbox[w])
  <2>1. m \in MessageType /\ Tail(inbox[w]) \in Seq(MessageType)
    <3>1. inbox[w] \in Seq(MessageType) /\ inbox[w] # <<>>
      BY <1>3, Zenon DEF Receive, Ready, Behind, GivesUp, TypeOK
    <3>. QED  BY <3>1
  <2>2. /\ m.type = "unblock" => m.id \in Sessions /\ m.failed \in BOOLEAN
        /\ m.type = "job" => m.caller \in Callers /\ call[m.caller].id \in Sessions
    BY <2>1 DEF MessageType, TypeOK, CallType
  <2>3. queue' \in [Sessions -> Seq(Callers)]
    <3>1. m.type = "job" => /\ Append(queue[call[m.caller].id], m.caller) \in Seq(Callers)
                            /\ <<m.caller>> \in Seq(Callers)
      BY <2>2 DEF TypeOK
    <3>. QED  BY <1>3, <2>2, <3>1, Zenon DEF Receive, Ready, Behind, GivesUp, TypeOK
  <2>4. /\ blocked' \subseteq Sessions
        /\ running' \in [Workers -> Sessions \cup {NoSession}]
        /\ waited' \in [Workers -> BOOLEAN]
    BY <1>3, <2>2, Zenon DEF Receive, Ready, Behind, GivesUp, TypeOK
  <2>6. rounds' \in [Sessions -> 0 .. MaxRounds]
    BY <1>3, <2>2, Bounds, Zenon DEF Receive, Ready, Behind, GivesUp, TypeOK
  <2>5. blocking' \in [Workers -> BOOLEAN]
    BY <1>3, <2>2, Zenon DEF Receive, Ready, Behind, GivesUp, TypeOK
  <2>. QED
    BY <1>3, <2>1, <2>3, <2>4, <2>5, <2>6, Zenon DEF Receive, Ready, Behind, GivesUp, TypeOK, sessionVars
<1>4. ASSUME NEW w \in Workers, NEW s \in Sessions, NEW c \in Callers,
             \/ RunUnknown(w, s, c)
             \/ RunCreate(w, s, c)
             \/ RunDiscard(w, s, c)
             \/ RunDirect(w, s, c)
             \/ \E o \in {"ok", "err"} : RunClean(w, s, c, o)
             \/ \E g, f \in SUBSET Keys, o \in {"ok", "err"} : RunBlocking(w, s, c, g, f, o)
      PROVE TypeOK'
  <2>1. queue[s] # <<>>
    BY <1>4 DEF RunUnknown, RunCreate, RunDiscard, RunDirect, RunClean, RunBlocking,
                FrontRead, Front
  <2>2. /\ live' \subseteq Sessions
        /\ placeholder' \in [Sessions -> SUBSET Keys]
        /\ cached' \subseteq Keys
    <3>1. CASE \/ RunUnknown(w, s, c)
               \/ RunCreate(w, s, c)
               \/ RunDiscard(w, s, c)
               \/ RunDirect(w, s, c)
      BY <3>1 DEF RunUnknown, RunCreate, RunDiscard, RunDirect, TypeOK
    <3>2. ASSUME NEW o, RunClean(w, s, c, o) PROVE UNCHANGED <<live, placeholder, cached>>
      BY <3>2 DEF RunClean, Clean, EndSpeculation, TypeOK
    <3>3. ASSUME NEW g \in SUBSET Keys, NEW f, NEW o, RunBlocking(w, s, c, g, f, o)
          PROVE  UNCHANGED <<live, placeholder>> /\ cached' = cached \cup g
      BY <3>3 DEF RunBlocking
    <3>. QED  BY <1>4, <3>1, <3>2, <3>3 DEF TypeOK
  <2>3. age' \in [Sessions -> 0 .. Ttl]
    BY <1>4, Bounds DEF RunUnknown, RunCreate, RunDiscard, RunDirect, RunClean, RunBlocking,
                        FrontRead, TypeOK
  <2>4. count' \in [Workers -> Nat]
    <3>1. CountOf(w, live') \in Nat
      BY <2>2, CountType
    <3>. QED
      BY <1>4, <3>1 DEF RunUnknown, RunCreate, RunDiscard, RunDirect, RunClean, RunBlocking,
                        StoreCount, TypeOK
  <2>5. \E o \in Answered \cup {"branched"}, m \in SUBSET MadeUp :
          Reply(w, s, c, o, m)
    BY <1>4, ReplyCases
  <2>6. tainted' \subseteq Sessions /\ commits' \in [Callers -> Nat]
    <3>1. CASE \/ RunUnknown(w, s, c)
               \/ RunCreate(w, s, c)
               \/ RunDiscard(w, s, c)
               \/ RunDirect(w, s, c)
      BY <3>1 DEF RunUnknown, RunCreate, RunDiscard, RunDirect, TypeOK
    <3>. QED
      BY <1>4, <3>1, ExecuteType DEF RunClean, RunBlocking
  <2>. QED
    BY <2>1, <2>2, <2>3, <2>4, <2>5, <2>6, ReplyType
<1>5. ASSUME NEW w \in Workers, NEW s \in Sessions, NEW c \in Callers,
             NEW m \in SUBSET Keys, RunDirty(w, s, c, m)
      PROVE TypeOK'
  <2>1. running[w] = s /\ queue[s] # <<>> /\ ~blocking[w] /\ s # NoSession
    BY <1>5, NoSessionType DEF RunDirty, FrontRead, Front
  <2>2. rounds[s] + 1 \in 0 .. MaxRounds
    <3>1. rounds[s] < MaxRounds /\ rounds[s] \in 0 .. MaxRounds
      BY <2>1 DEF RunningOK, TypeOK
    <3>. QED  BY <3>1, Bounds
  <2>3. rounds' \in [Sessions -> 0 .. MaxRounds]
    BY <1>5, <2>2 DEF RunDirty, TypeOK
  <2>4. age' \in [Sessions -> 0 .. Ttl]
    BY <1>5, Bounds DEF RunDirty, FrontRead, TypeOK
  <2>5. /\ placeholder' \in [Sessions -> SUBSET Keys]
        /\ resolving' \in [Sessions -> SUBSET Keys]
        /\ blocked' \subseteq Sessions
        /\ running' \in [Workers -> Sessions \cup {NoSession}]
    BY <1>5 DEF RunDirty, EndSpeculation, TypeOK
  <2>6. tainted' \subseteq Sessions /\ commits' \in [Callers -> Nat]
    BY <1>5, ExecuteType DEF RunDirty
  <2>. QED
    BY <1>5, <2>3, <2>4, <2>5, <2>6 DEF RunDirty, TypeOK
<1>6. ASSUME NEW w \in Workers, NEW s \in Sessions, NEW c \in Callers,
             NEW l \in SUBSET Keys, RunPanic(w, s, c, l)
      PROVE TypeOK'
  <2>1. call' \in [Callers -> CallType]
    <3>1. ASSUME NEW d \in Callers PROVE [call[d] EXCEPT !.st = "gone"] \in CallType
      BY DEF TypeOK, CallType, Answered
    <3>. QED  BY <1>6, <3>1 DEF RunPanic, TypeOK
  <2>2. CountOf(w, live) \in Nat
    BY CountType DEF TypeOK
  <2>3. ahead' \in [Callers -> SUBSET Callers] /\ queue' \in [Sessions -> Seq(Callers)]
    BY <1>6 DEF RunPanic, TypeOK
  <2>4. /\ age' \in [Sessions -> 0 .. Ttl] /\ rounds' \in [Sessions -> 0 .. MaxRounds]
        /\ placeholder' \in [Sessions -> SUBSET Keys] /\ cached' \subseteq Keys
    BY <1>6, WorkerAssumption DEF RunPanic, FrontRead, EndSpeculation, TypeOK
  <2>. QED
    BY <1>6, <2>1, <2>2, <2>3, <2>4 DEF RunPanic, StoreCount, TypeOK
<1>7. ASSUME NEW w \in Workers, RunEnd(w) PROVE TypeOK'
  <2>1. CountOf(w, live) \in Nat
    BY CountType DEF TypeOK
  <2>. QED
    BY <1>7, <2>1 DEF RunEnd, StoreCount, TypeOK
<1>8. ASSUME NEW w \in Workers, Sweep(w) PROVE TypeOK'
  <2>1. CountOf(w, live') \in Nat /\ live' \subseteq Sessions
    BY <1>8, CountType DEF Sweep, Expired, StoreCount, TypeOK
  <2>. QED
    BY <1>8, <2>1 DEF Sweep, Expired, StoreCount, TypeOK
<1>9. ASSUME NEW s \in Sessions, Resolver(s) PROVE TypeOK'
  <2>1. ASSUME NEW k \in Keys, ResolveKey(s, k) PROVE TypeOK'
    BY <2>1 DEF ResolveKey, TypeOK, sessionVars, workerVars
  <2>2. ASSUME NEW f \in BOOLEAN, ResolveEnd(s, f) PROVE TypeOK'
    <3>1. UnblockMsg(s, f) \in MessageType
      BY DEF UnblockMsg, MessageType
    <3>2. inbox' \in [Workers -> Seq(MessageType)]
      BY <2>2, <3>1, WorkerOfType DEF ResolveEnd, Posted, TypeOK
    <3>. QED
      BY <2>2, <3>2 DEF ResolveEnd, Posted, TypeOK, sessionVars
  <2>. QED
    BY <1>9, <2>1, <2>2 DEF Resolver
<1>10. CASE Tick
  <2>1. age' \in [Sessions -> 0 .. Ttl]
    BY <1>10, WorkerAssumption DEF Tick, TypeOK
  <2>2. waited' \in [Workers -> BOOLEAN]
    BY <1>10, Zenon DEF Tick, TypeOK
  <2>. QED
    BY <1>10, <2>1, <2>2 DEF Tick, TypeOK
<1>. QED
  BY <1>1, <1>2, <1>3, <1>4, <1>5, <1>6, <1>7, <1>8, <1>9, <1>10
  DEF Next, RunLocal, RunWaiting

----------------------------------------------------------------------------
(* Wake-ups and held jobs *)

held == <<inbox, blocked, queue, rounds, resolving, running, blocking, call, ahead>>

\* Every step, by what it does to the inboxes, the queues and the calls.
LEMMA StepCases ==
  ASSUME TypeOK, [Next]_vars
  PROVE  \/ \E c \in Callers, op \in AllOps, s \in Sessions, r \in SUBSET Keys :
              call[c].st # "sent" /\ Post(c, op, s, r)
         \/ \E c \in Callers : Return(c)
         \/ \E w \in Workers : Receive(w)
         \/ \E w \in Workers, s \in Sessions, c \in Callers, o \in Answered \cup {"branched"},
               m \in SUBSET MadeUp : Front(w, s, c) /\ Reply(w, s, c, o, m)
         \/ \E w \in Workers, s \in Sessions, c \in Callers, m \in SUBSET Keys : RunDirty(w, s, c, m)
         \/ \E w \in Workers, s \in Sessions, c \in Callers, l \in SUBSET Keys : RunPanic(w, s, c, l)
         \/ \E w \in Workers : RunEnd(w)
         \/ \E s \in Sessions, f \in BOOLEAN : ResolveEnd(s, f)
         \/ UNCHANGED held
<1>. DEFINE Goal ==
         \/ \E c \in Callers, op \in AllOps, s \in Sessions, r \in SUBSET Keys :
              call[c].st # "sent" /\ Post(c, op, s, r)
         \/ \E c \in Callers : Return(c)
         \/ \E w \in Workers : Receive(w)
         \/ \E w \in Workers, s \in Sessions, c \in Callers, o \in Answered \cup {"branched"},
               m \in SUBSET MadeUp : Front(w, s, c) /\ Reply(w, s, c, o, m)
         \/ \E w \in Workers, s \in Sessions, c \in Callers, m \in SUBSET Keys : RunDirty(w, s, c, m)
         \/ \E w \in Workers, s \in Sessions, c \in Callers, l \in SUBSET Keys : RunPanic(w, s, c, l)
         \/ \E w \in Workers : RunEnd(w)
         \/ \E s \in Sessions, f \in BOOLEAN : ResolveEnd(s, f)
         \/ UNCHANGED held
<1>1. CASE UNCHANGED vars
  BY <1>1 DEF vars, sessionVars, workerVars, held
<1>2. ASSUME NEW c \in Callers, Caller(c) PROVE Goal
  <2>1. ASSUME NEW op \in Ops, NEW s \in Sessions, NEW r \in SUBSET Keys, Submit(c, op, s, r)
        PROVE Goal
    BY <2>1, WorkerAssumption DEF Submit
  <2>2. CASE Fork(c) \/ Adopt(c)
    <3>1. nextId \in Sessions
      BY <2>2, WorkerAssumption DEF Fork, Adopt, Sessions, TypeOK
    <3>2. \E op \in AllOps, r \in SUBSET Keys : call[c].st # "sent" /\ Post(c, op, nextId, r)
      BY <2>2 DEF Fork, Adopt, AllOps, Creating
    <3>. QED  BY <3>1, <3>2
  <2>. QED
    BY <1>2, <2>1, <2>2 DEF Caller
<1>3. ASSUME NEW w \in Workers, NEW s \in Sessions, NEW c \in Callers,
             \/ RunUnknown(w, s, c)
             \/ RunCreate(w, s, c)
             \/ RunDiscard(w, s, c)
             \/ RunDirect(w, s, c)
             \/ \E o \in {"ok", "err"} : RunClean(w, s, c, o)
             \/ \E g, f \in SUBSET Keys, o \in {"ok", "err"} : RunBlocking(w, s, c, g, f, o)
      PROVE Goal
  <2>1. Front(w, s, c)
    BY <1>3 DEF RunUnknown, RunCreate, RunDiscard, RunDirect, RunClean, RunBlocking, FrontRead
  <2>2. \E o \in Answered \cup {"branched"}, m \in SUBSET MadeUp :
          Reply(w, s, c, o, m)
    BY <1>3, ReplyCases
  <2>. QED  BY <2>1, <2>2
<1>4. ASSUME NEW s \in Sessions, Resolver(s) PROVE Goal
  BY <1>4 DEF Resolver, ResolveKey, workerVars, held
<1>5. ASSUME NEW w \in Workers, Sweep(w) PROVE Goal
  BY <1>5 DEF Sweep, held
<1>6. CASE Tick
  BY <1>6 DEF Tick, held
<1>. HIDE DEF Goal
<1>7. ASSUME NEW w \in Workers, RunLocal(w) \/ RunWaiting(w) PROVE Goal
  BY <1>3, <1>7 DEF RunLocal, RunWaiting, Goal
<1>8. Goal
  BY <1>1, <1>2, <1>4, <1>5, <1>6, <1>7 DEF Next, Goal
<1>. QED  BY <1>8 DEF Goal

\* What a worker takes from its inbox is its own.
LEMMA ReceiveHead ==
  ASSUME TypeOK, InboxOK, NEW w \in Workers, Receive(w)
  PROVE  LET m == Head(inbox[w]) IN
         /\ inbox[w] \in Seq(MessageType) /\ inbox[w] # <<>>
         /\ 1 \in DOMAIN inbox[w] /\ m = inbox[w][1]
         /\ m \in MessageType
         /\ m.type = "unblock" => m.id \in Sessions /\ WorkerOf(m.id) = w
         /\ m.type = "job" => /\ m.caller \in Callers /\ m = JobMsg(m.caller)
                              /\ call[m.caller].st = "sent"
                              /\ call[m.caller].id \in Sessions
                              /\ WorkerOf(call[m.caller].id) = w
<1>. DEFINE m == Head(inbox[w])
<1>1. inbox[w] \in Seq(MessageType) /\ inbox[w] # <<>>
  BY Zenon DEF TypeOK, Receive, Ready
<1>2. 1 \in DOMAIN inbox[w] /\ m = inbox[w][1] /\ m \in MessageType
  BY <1>1
<1>3. /\ m.type = "unblock" => m.id \in Sessions
      /\ m.type = "job" => m.caller \in Callers /\ m = JobMsg(m.caller)
  BY <1>2 DEF MessageType, JobMsg
<1>4. \A c \in Callers : call[c].id \in Sessions
  BY DEF TypeOK, CallType
<1>. QED
  BY <1>1, <1>2, <1>3, <1>4 DEF InboxOK

\* A worker runs its own session's queue, never a parked session's.
LEMMA RunningStep ==
  TypeOK /\ RunningOK /\ InboxOK /\ QueueOK /\ [Next]_vars => RunningOK'
<1> SUFFICES ASSUME TypeOK, RunningOK, InboxOK, QueueOK, [Next]_vars PROVE RunningOK'
  OBVIOUS
<1>1. CASE UNCHANGED held
  BY <1>1 DEF held, RunningOK
<1>2. ASSUME NEW c \in Callers, Return(c) PROVE RunningOK'
  BY <1>2 DEF Return, RunningOK, sessionVars, workerVars
<1>3. ASSUME NEW c \in Callers, NEW op, NEW s, NEW r, Post(c, op, s, r) PROVE RunningOK'
  BY <1>3 DEF Post, RunningOK
<1>4. ASSUME NEW s \in Sessions, NEW f, ResolveEnd(s, f) PROVE RunningOK'
  BY <1>4 DEF ResolveEnd, Posted, RunningOK, sessionVars
<1>5. ASSUME NEW w \in Workers, RunEnd(w) PROVE RunningOK'
  BY <1>5 DEF RunEnd, RunningOK, TypeOK
<1>6. ASSUME NEW w \in Workers, Receive(w) PROVE RunningOK'
  <2>. DEFINE m == Head(inbox[w])
  <2>. SUFFICES ASSUME NEW v \in Workers, running'[v] # NoSession
                PROVE  /\ WorkerOf(running'[v]) = v /\ running'[v] \notin blocked'
                       /\ ~blocking'[v] /\ queue'[running'[v]] # <<>>
                            => rounds'[running'[v]] < MaxRounds
    BY DEF RunningOK
  <2>0. running[w] = NoSession
    BY <1>6, Zenon DEF Receive, Ready, Behind, GivesUp
  <2>1. CASE m.type = "unblock" /\ m.id \in blocked
    <3>1. /\ m.id \in Sessions /\ WorkerOf(m.id) = w
      BY <1>6, <2>1, ReceiveHead
    <3>2. /\ blocked' = blocked \ {m.id}
          /\ running' = [running EXCEPT ![w] = m.id]
          /\ blocking' = [blocking EXCEPT ![w] = m.failed \/ rounds[m.id] >= MaxRounds]
          /\ UNCHANGED <<queue, rounds>>
      BY <1>6, <2>1, Zenon DEF Receive, Ready, Behind, GivesUp
    <3>3. CASE v = w
      <4>1. running'[v] = m.id
        BY <3>2, <3>3 DEF TypeOK
      <4>2. ~blocking'[v] => ~(rounds[m.id] >= MaxRounds)
        BY <3>2, <3>3, Zenon DEF TypeOK
      <4>3. rounds[m.id] \in 0 .. MaxRounds
        BY <3>1 DEF TypeOK
      <4>. QED  BY <3>1, <3>2, <3>3, <4>1, <4>2, <4>3, Bounds
    <3>4. CASE v # w
      BY <3>2, <3>4 DEF RunningOK, TypeOK
    <3>. QED  BY <3>3, <3>4
  <2>2. CASE m.type = "unblock" /\ m.id \notin blocked
    BY <1>6, <2>2, Zenon DEF Receive, Ready, Behind, GivesUp, RunningOK
  <2>3. CASE m.type = "job" /\ call[m.caller].id \in blocked
    <3>. DEFINE s == call[m.caller].id
    <3>1. s \in blocked /\ \A u \in Sessions : u # s => queue'[u] = queue[u]
      BY <1>6, <2>3, ReceiveHead, Zenon DEF Receive, Ready, Behind, GivesUp, TypeOK
    <3>2. running'[v] = running[v] /\ blocked' = blocked /\ blocking' = blocking /\ rounds' = rounds
      BY <1>6, <2>3, Zenon DEF Receive, Ready, Behind, GivesUp
    <3>3. running[v] \in Sessions
      BY <3>2 DEF TypeOK
    <3>. QED  BY <3>1, <3>2, <3>3 DEF RunningOK
  <2>4. CASE m.type = "job" /\ call[m.caller].id \notin blocked
    <3>. DEFINE s == call[m.caller].id
    <3>1. s \in Sessions /\ WorkerOf(s) = w /\ s \notin blocked
      BY <1>6, <2>4, ReceiveHead
    <3>2. /\ queue' = [queue EXCEPT ![s] = <<m.caller>>]
          /\ rounds' = [rounds EXCEPT ![s] = 0]
          /\ running' = [running EXCEPT ![w] = s]
          /\ UNCHANGED blocked
      BY <1>6, <2>4, Zenon DEF Receive, Ready, Behind, GivesUp
    <3>3. CASE v = w
      BY <3>1, <3>2, <3>3, Bounds DEF TypeOK
    <3>4. CASE v # w
      <4>1. running'[v] = running[v] /\ running[v] # s /\ blocking'[v] = blocking[v]
        BY <1>6, <2>4, <3>1, <3>2, <3>4, Zenon DEF RunningOK, TypeOK, Receive
      <4>2. running[v] \in Sessions
        BY <4>1 DEF TypeOK
      <4>3. queue'[running[v]] = queue[running[v]] /\ rounds'[running[v]] = rounds[running[v]]
        BY <3>2, <4>1, <4>2 DEF TypeOK
      <4>. QED  BY <3>2, <4>1, <4>3 DEF RunningOK
    <3>. QED  BY <3>3, <3>4
  <2>. QED
    BY <1>6, <2>1, <2>2, <2>3, <2>4, Zenon DEF Receive, Ready, Behind, GivesUp
<1>7. ASSUME NEW w \in Workers, NEW s \in Sessions, NEW c \in Callers, NEW o, NEW m,
             Front(w, s, c), Reply(w, s, c, o, m)
      PROVE RunningOK'
  <2>1. running' = running /\ blocked' = blocked
    BY <1>7 DEF Reply
  <2>2. rounds'[s] = 0 /\ running[w] = s
    BY <1>7 DEF Reply, Front, TypeOK
  <2>3. \A v \in Workers : running[v] # NoSession /\ running[v] # s =>
          /\ v # w /\ running[v] \in Sessions /\ queue'[running[v]] = queue[running[v]]
          /\ rounds'[running[v]] = rounds[running[v]] /\ blocking'[v] = blocking[v]
    BY <1>7, <2>2 DEF Reply, TypeOK
  <2>. QED
    BY <2>1, <2>2, <2>3, Bounds DEF RunningOK
<1>8. ASSUME NEW w \in Workers, NEW s \in Sessions, NEW c \in Callers, NEW m,
             RunDirty(w, s, c, m)
      PROVE RunningOK'
  <2>1. running[w] = s /\ s # NoSession /\ running'[w] = NoSession
    BY <1>8, NoSessionType DEF RunDirty, FrontRead, Front, TypeOK
  <2>2. \A v \in Workers : running'[v] # NoSession =>
          v # w /\ running'[v] = running[v] /\ running[v] # s /\ running[v] \in Sessions
    BY <1>8, <2>1 DEF RunDirty, RunningOK, TypeOK
  <2>3. /\ blocked' = blocked \cup {s} /\ queue' = queue /\ blocking' = blocking
        /\ \A u \in Sessions : u # s => rounds'[u] = rounds[u]
    BY <1>8 DEF RunDirty, TypeOK
  <2>. QED
    BY <2>2, <2>3 DEF RunningOK
<1>9. ASSUME NEW w \in Workers, NEW s \in Sessions, NEW c \in Callers, NEW l,
             RunPanic(w, s, c, l)
      PROVE RunningOK'
  <2>1. running[w] = s /\ s # NoSession /\ running'[w] = NoSession
    BY <1>9, NoSessionType DEF RunPanic, FrontRead, Front, TypeOK
  <2>2. \A v \in Workers : running'[v] # NoSession =>
          /\ v # w /\ running'[v] = running[v] /\ running[v] # s /\ running[v] \in Sessions
          /\ blocking'[v] = blocking[v]
    BY <1>9, <2>1 DEF RunPanic, RunningOK, TypeOK
  <2>3. /\ blocked' = blocked
        /\ \A u \in Sessions : u # s => queue'[u] = queue[u] /\ rounds'[u] = rounds[u]
    BY <1>9 DEF RunPanic, TypeOK
  <2>. QED
    BY <2>2, <2>3 DEF RunningOK
<1>. QED
  BY <1>1, <1>2, <1>3, <1>4, <1>5, <1>6, <1>7, <1>8, <1>9, StepCases

\* A reply takes the front caller, and only it, out of its session's queue.
LEMMA ReplyEffect ==
  ASSUME TypeOK, QueueOK, HeldAtMostOnce,
         NEW w \in Workers, NEW s \in Sessions, NEW c \in Callers,
         NEW o \in Answered \cup {"branched"}, NEW m,
         Front(w, s, c), Reply(w, s, c, o, m)
  PROVE  /\ queue[s] \in Seq(Callers) /\ queue[s] # <<>> /\ queue[s][1] = c
         /\ queue'[s] = Tail(queue[s])
         /\ \A u \in Sessions : u # s => queue'[u] = queue[u]
         /\ \A d \in Callers : d # c => call'[d] = call[d]
         /\ call[c].st = "sent" /\ call[c].id = s
         /\ call'[c].st # "sent" /\ call'[c].id = s
         /\ UNCHANGED <<inbox, blocked, running, resolving>>
<1>1. queue[s] \in Seq(Callers) /\ queue[s] # <<>> /\ queue[s][1] = c
  BY DEF TypeOK, Front
<1>2. call[c].st = "sent" /\ call[c].id = s
  BY <1>1 DEF QueueOK
<1>3. call[c] \in CallType
  BY DEF TypeOK
<1>4. call' = [call EXCEPT ![c] = [call[c] EXCEPT !.st = o, !.made = m]]
  BY DEF Reply
<1>5. call'[c] = [call[c] EXCEPT !.st = o, !.made = m]
  BY <1>4 DEF TypeOK
<1>6. call'[c].st # "sent" /\ call'[c].id = s
  BY <1>2, <1>3, <1>5 DEF CallType, Answered
<1>7. \A d \in Callers : d # c => call'[d] = call[d]
  BY <1>4 DEF TypeOK
<1>. QED
  BY <1>1, <1>2, <1>6, <1>7 DEF Reply, TypeOK

\* A panic answers the callers of its session's queue and empties it.
LEMMA PanicEffect ==
  ASSUME TypeOK, QueueOK,
         NEW w \in Workers, NEW s \in Sessions, NEW c \in Callers, NEW l, RunPanic(w, s, c, l)
  PROVE  /\ queue[s] \in Seq(Callers) /\ queue'[s] = <<>>
         /\ running[w] = s
         /\ \A u \in Sessions : u # s => queue'[u] = queue[u]
         /\ \A i \in DOMAIN queue[s] : call'[queue[s][i]].st = "gone"
         /\ \A d \in Callers : (\A i \in DOMAIN queue[s] : queue[s][i] # d) => call'[d] = call[d]
         /\ \A d \in Callers : call'[d].id = call[d].id /\ (call'[d].st = "sent" => call'[d] = call[d])
         /\ UNCHANGED <<inbox, blocked, resolving>>
<1>1. queue[s] \in Seq(Callers) /\ running[w] = s
  BY DEF RunPanic, FrontRead, Front, TypeOK
<1>2. \A d \in Callers : call[d] \in CallType
  BY DEF TypeOK
<1>3. \A d \in Callers :
        call'[d] = IF d \in {queue[s][i] : i \in DOMAIN queue[s]}
                   THEN [call[d] EXCEPT !.st = "gone"] ELSE call[d]
  BY DEF RunPanic
<1>4. \A i \in DOMAIN queue[s] : queue[s][i] \in Callers
  BY <1>1
<1>5. \A d \in Callers : LET r == [call[d] EXCEPT !.st = "gone"] IN r.st = "gone" /\ r.id = call[d].id
  BY <1>2 DEF CallType
<1>6. ASSUME NEW i \in DOMAIN queue[s] PROVE call'[queue[s][i]].st = "gone"
  <2>1. queue[s][i] \in Callers /\ queue[s][i] \in {queue[s][j] : j \in DOMAIN queue[s]}
    BY <1>4
  <2>2. call'[queue[s][i]] = [call[queue[s][i]] EXCEPT !.st = "gone"]
    BY <1>3, <2>1
  <2>. QED  BY <1>5, <2>1, <2>2
<1>7. \A d \in Callers : (\A i \in DOMAIN queue[s] : queue[s][i] # d) => call'[d] = call[d]
  BY <1>3
<1>8. \A d \in Callers : call'[d].id = call[d].id /\ (call'[d].st = "sent" => call'[d] = call[d])
  BY <1>3, <1>5
<1>9. queue'[s] = <<>> /\ \A u \in Sessions : u # s => queue'[u] = queue[u]
  BY DEF RunPanic, TypeOK
<1>. QED
  BY <1>1, <1>6, <1>7, <1>8, <1>9 DEF RunPanic

\* Messages stay with their session's worker, jobs in an inbox unanswered.
LEMMA InboxStep ==
  TypeOK /\ InboxOK /\ QueueOK /\ HeldAtMostOnce /\ [Next]_vars => InboxOK'
<1> SUFFICES ASSUME TypeOK, InboxOK, QueueOK, HeldAtMostOnce, [Next]_vars PROVE InboxOK'
  OBVIOUS
<1>0. \A w \in Workers : inbox[w] \in Seq(MessageType)
  BY DEF TypeOK
<1>1. CASE UNCHANGED held
  BY <1>1 DEF held, InboxOK
<1>2. ASSUME NEW c \in Callers, Return(c) PROVE InboxOK'
  <2>1. \A w \in Workers : \A i \in DOMAIN inbox[w] :
          inbox[w][i].type = "job" => inbox[w][i].caller # c
    BY <1>2 DEF InboxOK, Return, Answered
  <2>2. \A w \in Workers : \A i \in DOMAIN inbox[w] :
          inbox[w][i].type = "job" => inbox[w][i].caller \in Callers
    BY <1>0 DEF MessageType
  <2>. QED
    BY <1>2, <2>1, <2>2 DEF Return, InboxOK, TypeOK, workerVars
<1>3. ASSUME NEW c \in Callers, NEW op \in AllOps, NEW s \in Sessions, NEW r \in SUBSET Keys,
             call[c].st # "sent", Post(c, op, s, r)
      PROVE InboxOK'
  <2>1. call'[c] = [NoCall EXCEPT !.st = "sent", !.op = op, !.id = s, !.reads = r, !.made = call[c].made]
    BY <1>3 DEF Post, TypeOK
  <2>2. call'[c].st = "sent" /\ call'[c].id = s
    BY <2>1 DEF NoCall
  <2>3. \A d \in Callers : d # c => call'[d] = call[d]
    BY <1>3 DEF Post, TypeOK
  <2>. SUFFICES ASSUME NEW w \in Workers, NEW i \in DOMAIN inbox'[w]
                PROVE  LET m == inbox'[w][i] IN
                       /\ m.type = "unblock" => WorkerOf(m.id) = w
                       /\ m.type = "job" => call'[m.caller].st = "sent" /\ WorkerOf(call'[m.caller].id) = w
    BY DEF InboxOK
  <2>4. CASE i \in DOMAIN inbox[w] /\ inbox'[w][i] = inbox[w][i]
    <3>1. inbox[w][i].type = "job" => inbox[w][i].caller \in Callers /\ inbox[w][i].caller # c
      BY <1>0, <1>3, <2>4 DEF InboxOK, MessageType
    <3>. QED  BY <2>3, <2>4, <3>1 DEF InboxOK
  <2>5. CASE w = WorkerOf(s) /\ inbox'[w][i] = JobMsg(c)
    BY <2>2, <2>5 DEF JobMsg
  <2>6. inbox' = [inbox EXCEPT ![WorkerOf(s)] = Append(inbox[WorkerOf(s)], JobMsg(c))]
    BY <1>3 DEF Post
  <2>7. CASE w = WorkerOf(s)
    <3>1. inbox'[w] = Append(inbox[w], JobMsg(c))
      BY <2>6, <2>7 DEF TypeOK
    <3>. QED  BY <1>0, <2>4, <2>5, <2>7, <3>1
  <2>8. CASE w # WorkerOf(s)
    BY <2>4, <2>6, <2>8 DEF TypeOK
  <2>. QED  BY <2>7, <2>8
<1>4. ASSUME NEW s \in Sessions, NEW f \in BOOLEAN, ResolveEnd(s, f) PROVE InboxOK'
  <2>1. call' = call /\ inbox' = [inbox EXCEPT ![WorkerOf(s)] = Append(inbox[WorkerOf(s)], UnblockMsg(s, f))]
    BY <1>4 DEF ResolveEnd, Posted
  <2>. SUFFICES ASSUME NEW w \in Workers, NEW i \in DOMAIN inbox'[w]
                PROVE  LET m == inbox'[w][i] IN
                       /\ m.type = "unblock" => WorkerOf(m.id) = w
                       /\ m.type = "job" => call[m.caller].st = "sent" /\ WorkerOf(call[m.caller].id) = w
    BY <2>1 DEF InboxOK
  <2>2. CASE w = WorkerOf(s)
    <3>1. inbox'[w] = Append(inbox[w], UnblockMsg(s, f))
      BY <2>1, <2>2 DEF TypeOK
    <3>2. inbox'[w][i] = UnblockMsg(s, f) \/ (i \in DOMAIN inbox[w] /\ inbox'[w][i] = inbox[w][i])
      BY <1>0, <3>1
    <3>. QED  BY <2>2, <3>2 DEF InboxOK, UnblockMsg
  <2>3. CASE w # WorkerOf(s)
    BY <2>1, <2>3 DEF InboxOK, TypeOK
  <2>. QED  BY <2>2, <2>3
<1>5. ASSUME NEW w \in Workers, RunEnd(w) PROVE InboxOK'
  BY <1>5 DEF RunEnd, InboxOK
<1>6. ASSUME NEW w \in Workers, Receive(w) PROVE InboxOK'
  <2>1. call' = call /\ inbox' = [inbox EXCEPT ![w] = Tail(inbox[w])] /\ inbox[w] # <<>>
    BY <1>6, Zenon DEF Receive, Ready, Behind, GivesUp
  <2>2. \A i \in DOMAIN Tail(inbox[w]) : i + 1 \in DOMAIN inbox[w] /\ Tail(inbox[w])[i] = inbox[w][i + 1]
    BY <1>0, <2>1
  <2>3. \A v \in Workers : inbox'[v] = IF v = w THEN Tail(inbox[w]) ELSE inbox[v]
    BY <2>1 DEF TypeOK
  <2>. QED  BY <2>1, <2>2, <2>3 DEF InboxOK
<1>7. ASSUME NEW w \in Workers, NEW s \in Sessions, NEW c \in Callers,
             NEW o \in Answered \cup {"branched"}, NEW m,
             Front(w, s, c), Reply(w, s, c, o, m)
      PROVE InboxOK'
  <2>0. /\ queue[s] \in Seq(Callers) /\ queue[s] # <<>> /\ queue[s][1] = c /\ inbox' = inbox
        /\ \A d \in Callers : d # c => call'[d] = call[d]
    BY <1>7, ReplyEffect
  <2>1. 1 \in DOMAIN queue[s] /\ queue[s][1] = c /\ inbox' = inbox
    BY <2>0
  <2>2. \A v \in Workers : \A i \in DOMAIN inbox[v] : inbox[v][i] # JobMsg(c)
    BY <2>1 DEF HeldAtMostOnce
  <2>3. \A v \in Workers : \A i \in DOMAIN inbox[v] :
          inbox[v][i].type = "job" => inbox[v][i].caller \in Callers /\ inbox[v][i].caller # c
    BY <1>0, <2>2 DEF MessageType, JobMsg
  <2>4. \A d \in Callers : d # c => call'[d] = call[d]
    BY <2>0
  <2>. QED  BY <2>1, <2>3, <2>4 DEF InboxOK
<1>8. ASSUME NEW w \in Workers, NEW s \in Sessions, NEW c \in Callers, NEW m,
             RunDirty(w, s, c, m)
      PROVE InboxOK'
  BY <1>8 DEF RunDirty, InboxOK
<1>9. ASSUME NEW w \in Workers, NEW s \in Sessions, NEW c \in Callers, NEW l,
             RunPanic(w, s, c, l)
      PROVE InboxOK'
  <2>1. inbox' = inbox
    BY <1>9 DEF RunPanic
  <2>2. \A v \in Workers : \A i \in DOMAIN inbox[v] : inbox[v][i].type = "job" =>
          /\ inbox[v][i].caller \in Callers /\ inbox[v][i] = JobMsg(inbox[v][i].caller)
    BY <1>0 DEF MessageType, JobMsg
  <2>3. \A v \in Workers : \A i \in DOMAIN inbox[v] : inbox[v][i].type = "job" =>
          call'[inbox[v][i].caller] = call[inbox[v][i].caller]
    BY <1>9, <2>2, PanicEffect DEF HeldAtMostOnce
  <2>. QED  BY <2>1, <2>2, <2>3 DEF InboxOK
<1>. QED
  BY <1>1, <1>2, <1>3, <1>4, <1>5, <1>6, <1>7, <1>8, <1>9, StepCases

\* A queue holds its session's unanswered jobs while it is parked or running.
LEMMA QueueStep ==
  TypeOK /\ RunningOK /\ InboxOK /\ QueueOK /\ HeldAtMostOnce /\ [Next]_vars => QueueOK'
<1> SUFFICES ASSUME TypeOK, RunningOK, InboxOK, QueueOK, HeldAtMostOnce, [Next]_vars PROVE QueueOK'
  OBVIOUS
<1>0. \A s \in Sessions : queue[s] \in Seq(Callers) /\ WorkerOf(s) \in Workers /\ s # NoSession
  BY WorkerOfType, NoSessionType DEF TypeOK
<1>1. CASE UNCHANGED held
  BY <1>1 DEF held, QueueOK
<1>2. ASSUME NEW c \in Callers, call[c].st # "sent",
             \A d \in Callers : d # c => call'[d] = call[d], UNCHANGED <<queue, blocked, running>>
      PROVE QueueOK'
  <2>1. \A s \in Sessions : \A i \in DOMAIN queue[s] : queue[s][i] \in Callers /\ queue[s][i] # c
    BY <1>0, <1>2 DEF QueueOK
  <2>. QED
    BY <1>2, <2>1 DEF QueueOK
<1>3. ASSUME NEW c \in Callers, Return(c) PROVE QueueOK'
  <2>1. \A d \in Callers : d # c => call'[d] = call[d]
    BY <1>3 DEF Return, TypeOK
  <2>. QED
    BY <1>2, <1>3, <2>1 DEF Return, workerVars, Answered
<1>4. ASSUME NEW c \in Callers, NEW op, NEW s, NEW r, call[c].st # "sent", Post(c, op, s, r)
      PROVE QueueOK'
  <2>1. \A d \in Callers : d # c => call'[d] = call[d]
    BY <1>4 DEF Post, TypeOK
  <2>. QED
    BY <1>2, <1>4, <2>1 DEF Post
<1>5. ASSUME NEW s \in Sessions, NEW f \in BOOLEAN, ResolveEnd(s, f) PROVE QueueOK'
  BY <1>5 DEF ResolveEnd, Posted, QueueOK
<1>6. ASSUME NEW w \in Workers, RunEnd(w) PROVE QueueOK'
  <2>1. running[w] # NoSession /\ queue[running[w]] = <<>> /\ UNCHANGED <<call, queue, blocked>>
    BY <1>6 DEF RunEnd
  <2>2. \A v \in Workers : v # w => running'[v] = running[v]
    BY <1>6 DEF RunEnd, StoreCount, TypeOK
  <2>3. \A s \in Sessions : queue[s] # <<>> /\ running[WorkerOf(s)] = s => WorkerOf(s) # w
    BY <2>1
  <2>. QED  BY <1>0, <2>1, <2>2, <2>3 DEF QueueOK
<1>7. ASSUME NEW w \in Workers, Receive(w) PROVE QueueOK'
  <2>. DEFINE m == Head(inbox[w])
  <2>0. call' = call /\ running[w] = NoSession
    BY <1>7, Zenon DEF Receive, Ready, Behind, GivesUp
  <2>1. CASE m.type = "unblock" /\ m.id \in blocked
    <3>1. m.id \in Sessions /\ WorkerOf(m.id) = w
      BY <1>7, <2>1, ReceiveHead
    <3>2. queue' = queue /\ blocked' = blocked \ {m.id} /\ running' = [running EXCEPT ![w] = m.id]
      BY <1>7, <2>1, Zenon DEF Receive, Ready, Behind, GivesUp
    <3>3. \A v \in Workers : running'[v] = IF v = w THEN m.id ELSE running[v]
      BY <3>2 DEF TypeOK
    <3>. QED  BY <1>0, <2>0, <3>1, <3>2, <3>3 DEF QueueOK
  <2>2. CASE m.type = "unblock" /\ m.id \notin blocked
    <3>1. UNCHANGED <<call, queue, blocked, running>>
      BY <1>7, <2>2, Zenon DEF Receive, Ready, Behind, GivesUp
    <3>. QED  BY <3>1 DEF QueueOK
  <2>3. CASE m.type = "job" /\ call[m.caller].id \in blocked
    <3>. DEFINE s == call[m.caller].id
    <3>1. m.caller \in Callers /\ s \in Sessions /\ call[m.caller].st = "sent"
      BY <1>7, <2>3, ReceiveHead
    <3>2. queue' = [queue EXCEPT ![s] = Append(queue[s], m.caller)] /\ UNCHANGED <<blocked, running>>
      BY <1>7, <2>3, Zenon DEF Receive, Ready, Behind, GivesUp
    <3>3. \A u \in Sessions : queue'[u] = IF u = s THEN Append(queue[s], m.caller) ELSE queue[u]
      BY <3>2 DEF TypeOK
    <3>4. \A i \in DOMAIN Append(queue[s], m.caller) :
            \/ Append(queue[s], m.caller)[i] = m.caller
            \/ i \in DOMAIN queue[s] /\ Append(queue[s], m.caller)[i] = queue[s][i]
      BY <1>0, <3>1
    <3>5. ASSUME NEW u \in Sessions, NEW i \in DOMAIN queue'[u]
          PROVE  call[queue'[u][i]].st = "sent" /\ call[queue'[u][i]].id = u
      <4>1. CASE u = s
        <5>1. i \in DOMAIN Append(queue[s], m.caller) /\ queue'[u][i] = Append(queue[s], m.caller)[i]
          BY <3>1, <3>3, <4>1
        <5>2. \A j \in DOMAIN queue[s] : call[queue[s][j]].st = "sent" /\ call[queue[s][j]].id = s
          BY <3>1 DEF QueueOK
        <5>. QED  BY <3>1, <3>4, <4>1, <5>1, <5>2, Zenon
      <4>2. CASE u # s
        BY <3>3, <4>2 DEF QueueOK
      <4>. QED  BY <4>1, <4>2
    <3>6. \A u \in Sessions : queue'[u] # <<>> => u \in blocked \/ running[WorkerOf(u)] = u
      BY <2>3, <3>3 DEF QueueOK
    <3>. QED  BY <2>0, <3>2, <3>5, <3>6, Zenon DEF QueueOK
  <2>4. CASE m.type = "job" /\ call[m.caller].id \notin blocked
    <3>. DEFINE s == call[m.caller].id
    <3>1. m.caller \in Callers /\ s \in Sessions /\ call[m.caller].st = "sent" /\ WorkerOf(s) = w
      BY <1>7, <2>4, ReceiveHead
    <3>2. /\ queue' = [queue EXCEPT ![s] = <<m.caller>>]
          /\ running' = [running EXCEPT ![w] = s] /\ UNCHANGED blocked
      BY <1>7, <2>4, Zenon DEF Receive, Ready, Behind, GivesUp
    <3>3. \A u \in Sessions : queue'[u] = IF u = s THEN <<m.caller>> ELSE queue[u]
      BY <3>2 DEF TypeOK
    <3>4. \A v \in Workers : running'[v] = IF v = w THEN s ELSE running[v]
      BY <3>2 DEF TypeOK
    <3>5. \A u \in Sessions : \A i \in DOMAIN queue'[u] :
            call[queue'[u][i]].st = "sent" /\ call[queue'[u][i]].id = u
      BY <3>1, <3>3 DEF QueueOK
    <3>6. \A u \in Sessions : queue'[u] # <<>> => u \in blocked \/ running'[WorkerOf(u)] = u
      BY <1>0, <2>0, <3>1, <3>3, <3>4 DEF QueueOK
    <3>. QED  BY <2>0, <3>2, <3>5, <3>6 DEF QueueOK
  <2>. QED
    BY <1>7, <2>1, <2>2, <2>3, <2>4, Zenon DEF Receive, Ready, Behind, GivesUp
<1>8. ASSUME NEW w \in Workers, NEW s \in Sessions, NEW c \in Callers,
             NEW o \in Answered \cup {"branched"}, NEW m,
             Front(w, s, c), Reply(w, s, c, o, m)
      PROVE QueueOK'
  <2>1. /\ queue[s] \in Seq(Callers) /\ queue[s] # <<>> /\ queue[s][1] = c
        /\ queue'[s] = Tail(queue[s])
        /\ \A u \in Sessions : u # s => queue'[u] = queue[u]
        /\ \A d \in Callers : d # c => call'[d] = call[d]
        /\ call[c].id = s /\ UNCHANGED <<blocked, running>>
    BY <1>8, ReplyEffect
  <2>2. \A i \in DOMAIN queue'[s] : /\ i + 1 \in DOMAIN queue[s] /\ i # 0
                                    /\ queue'[s][i] = queue[s][i + 1]
    BY <2>1
  <2>3. \A i \in DOMAIN queue'[s] : queue'[s][i] \in Callers /\ queue'[s][i] # c
    <3>1. \A i \in DOMAIN queue'[s] : i + 1 # 1 /\ 1 \in DOMAIN queue[s]
      BY <2>1
    <3>. QED  BY <2>1, <2>2, <3>1 DEF HeldAtMostOnce
  <2>4. \A u \in Sessions : u # s => \A i \in DOMAIN queue[u] : queue[u][i] \in Callers /\ queue[u][i] # c
    BY <1>0, <2>1 DEF QueueOK
  <2>5. ASSUME NEW u \in Sessions, NEW i \in DOMAIN queue'[u]
        PROVE  call'[queue'[u][i]].st = "sent" /\ call'[queue'[u][i]].id = u
    <3>1. CASE u = s
      <4>1. i \in DOMAIN queue'[s]
        BY <3>1
      <4>2. PICK j \in DOMAIN queue[s] : queue'[s][i] = queue[s][j]
        BY <2>2, <4>1
      <4>3. call'[queue'[s][i]] = call[queue[s][j]]
        BY <2>1, <2>3, <4>1, <4>2
      <4>4. call[queue[s][j]].st = "sent" /\ call[queue[s][j]].id = s
        BY DEF QueueOK
      <4>. QED  BY <3>1, <4>3, <4>4
    <3>2. CASE u # s
      BY <2>1, <2>4, <3>2 DEF QueueOK
    <3>. QED  BY <3>1, <3>2
  <2>. QED  BY <2>1, <2>5 DEF QueueOK
<1>9. ASSUME NEW w \in Workers, NEW s \in Sessions, NEW c \in Callers, NEW m,
             RunDirty(w, s, c, m)
      PROVE QueueOK'
  <2>1. /\ running[w] = s /\ queue' = queue /\ call' = call /\ blocked' = blocked \cup {s}
        /\ \A v \in Workers : running'[v] = IF v = w THEN NoSession ELSE running[v]
    BY <1>9 DEF RunDirty, FrontRead, Front, TypeOK
  <2>. QED  BY <1>0, <2>1 DEF QueueOK
<1>10. ASSUME NEW w \in Workers, NEW s \in Sessions, NEW c \in Callers, NEW l,
              RunPanic(w, s, c, l)
       PROVE QueueOK'
  <2>1. /\ queue'[s] = <<>> /\ running[w] = s /\ blocked' = blocked
        /\ \A u \in Sessions : u # s => queue'[u] = queue[u]
        /\ \A d \in Callers : (\A i \in DOMAIN queue[s] : queue[s][i] # d) => call'[d] = call[d]
    BY <1>10, PanicEffect
  <2>2. \A v \in Workers : running'[v] = IF v = w THEN NoSession ELSE running[v]
    BY <1>10 DEF RunPanic, TypeOK
  <2>3. \A u \in Sessions : u # s => \A i \in DOMAIN queue[u] :
          queue[u][i] \in Callers /\ call'[queue[u][i]] = call[queue[u][i]]
    <3>. SUFFICES ASSUME NEW u \in Sessions, u # s, NEW i \in DOMAIN queue[u]
                  PROVE queue[u][i] \in Callers /\ call'[queue[u][i]] = call[queue[u][i]]
      OBVIOUS
    <3>1. queue[u][i] \in Callers /\ call[queue[u][i]].id = u
      BY <1>0 DEF QueueOK
    <3>2. \A j \in DOMAIN queue[s] : queue[s][j] # queue[u][i]
      BY <3>1 DEF QueueOK
    <3>. QED  BY <2>1, <3>1, <3>2
  <2>4. \A u \in Sessions : u # s =>
          \A i \in DOMAIN queue'[u] : call'[queue'[u][i]].st = "sent" /\ call'[queue'[u][i]].id = u
    BY <2>1, <2>3 DEF QueueOK
  <2>5. \A u \in Sessions : queue'[u] # <<>> => u \in blocked' \/ running'[WorkerOf(u)] = u
    BY <1>0, <2>1, <2>2 DEF QueueOK
  <2>. QED  BY <2>1, <2>4, <2>5 DEF QueueOK
<1>. QED
  BY <1>1, <1>3, <1>4, <1>5, <1>6, <1>7, <1>8, <1>9, <1>10, StepCases

\* Where the elements of a sequence are after an Append.
LEMMA AppendIndex ==
  ASSUME NEW T, NEW q \in Seq(T), NEW x \in T
  PROVE  /\ \A i \in DOMAIN Append(q, x) :
              \/ i = Len(q) + 1 /\ Append(q, x)[i] = x
              \/ i \in DOMAIN q /\ Append(q, x)[i] = q[i]
         /\ Len(q) + 1 \in DOMAIN Append(q, x) /\ Append(q, x)[Len(q) + 1] = x
         /\ Len(q) + 1 \notin DOMAIN q
         /\ \A i \in DOMAIN q : i \in DOMAIN Append(q, x) /\ Append(q, x)[i] = q[i]
OBVIOUS

\* Where the elements of a sequence are after a Tail.
LEMMA TailIndex ==
  ASSUME NEW T, NEW q \in Seq(T), q # <<>>
  PROVE  /\ \A i \in DOMAIN Tail(q) : /\ i \in Nat /\ i + 1 \in DOMAIN q /\ i + 1 # 1
                                      /\ Tail(q)[i] = q[i + 1]
         /\ \A j \in DOMAIN q : j # 1 => j - 1 \in DOMAIN Tail(q) /\ Tail(q)[j - 1] = q[j]
         /\ 1 \in DOMAIN q /\ q[1] = Head(q)
OBVIOUS

\* A caller whose job is answered is in no inbox and in no queue.
LEMMA AnsweredNowhere ==
  ASSUME TypeOK, InboxOK, QueueOK, NEW c \in Callers, call[c].st # "sent"
  PROVE  /\ \A w \in Workers : \A i \in DOMAIN inbox[w] : inbox[w][i] # JobMsg(c)
         /\ \A s \in Sessions : \A i \in DOMAIN queue[s] : queue[s][i] # c
<1>1. JobMsg(c).type = "job" /\ JobMsg(c).caller = c
  BY DEF JobMsg
<1>. QED
  BY <1>1 DEF InboxOK, QueueOK

\* Nothing is duplicated by any step.
LEMMA HeldOnceStep ==
  TypeOK /\ InboxOK /\ QueueOK /\ HeldAtMostOnce /\ RunningOK /\ [Next]_vars => HeldAtMostOnce'
<1> SUFFICES ASSUME TypeOK, InboxOK, QueueOK, HeldAtMostOnce, RunningOK, [Next]_vars
             PROVE HeldAtMostOnce'
  OBVIOUS
<1>0. /\ \A s \in Sessions : queue[s] \in Seq(Callers)
      /\ \A w \in Workers : inbox[w] \in Seq(MessageType)
      /\ \A s \in Sessions : WorkerOf(s) \in Workers
  BY WorkerOfType DEF TypeOK
<1>1. CASE UNCHANGED <<inbox, queue>>
  BY <1>1 DEF HeldAtMostOnce
<1>2. ASSUME NEW s \in Sessions, NEW m \in MessageType,
             inbox' = [inbox EXCEPT ![WorkerOf(s)] = Append(@, m)], queue' = queue,
             \A c \in Callers : m = JobMsg(c) => call[c].st # "sent",
             m.type = "job" => \E c \in Callers : m = JobMsg(c)
      PROVE HeldAtMostOnce'
  <2>. DEFINE v == WorkerOf(s)
  <2>1. \A w \in Workers : inbox'[w] = IF w = v THEN Append(inbox[v], m) ELSE inbox[w]
    BY <1>2 DEF TypeOK
  <2>2. \A c \in Callers : m = JobMsg(c) =>
          /\ \A w \in Workers : \A i \in DOMAIN inbox[w] : inbox[w][i] # m
          /\ \A u \in Sessions : \A i \in DOMAIN queue[u] : m # JobMsg(queue[u][i])
    BY <1>2, AnsweredNowhere DEF JobMsg
  <2>3. \A i \in DOMAIN inbox'[v] :
          \/ i = Len(inbox[v]) + 1 /\ inbox'[v][i] = m
          \/ i \in DOMAIN inbox[v] /\ inbox'[v][i] = inbox[v][i]
    <3>1. inbox'[v] = Append(inbox[v], m)  BY <1>0, <2>1
    <3>. QED  BY <1>0, <3>1, AppendIndex
  <2>4. ASSUME NEW w \in Workers, NEW i \in DOMAIN inbox'[w], NEW j \in DOMAIN inbox'[w],
               inbox'[w][i].type = "job", inbox'[w][j] = inbox'[w][i]
        PROVE  i = j
    <3>1. CASE w = v
      BY <1>2, <2>2, <2>3, <2>4, <3>1 DEF HeldAtMostOnce
    <3>2. CASE w # v
      BY <2>1, <2>4, <3>2 DEF HeldAtMostOnce
    <3>. QED  BY <3>1, <3>2
  <2>5. ASSUME NEW w \in Workers, NEW u \in Sessions, NEW i \in DOMAIN inbox'[w], NEW j \in DOMAIN queue'[u]
        PROVE  inbox'[w][i] # JobMsg(queue'[u][j])
    <3>1. j \in DOMAIN queue[u] /\ queue'[u][j] = queue[u][j] /\ queue[u][j] \in Callers
      BY <1>0, <1>2
    <3>2. m # JobMsg(queue[u][j])
      BY <2>2, <3>1
    <3>3. CASE w = v
      BY <2>3, <3>1, <3>2, <3>3 DEF HeldAtMostOnce
    <3>4. CASE w # v
      BY <2>1, <3>1, <3>4 DEF HeldAtMostOnce
    <3>. QED  BY <3>3, <3>4
  <2>. QED  BY <1>2, <2>4, <2>5 DEF HeldAtMostOnce
<1>3. ASSUME NEW c \in Callers, NEW op \in AllOps, NEW s \in Sessions, NEW r \in SUBSET Keys,
             call[c].st # "sent", Post(c, op, s, r)
      PROVE HeldAtMostOnce'
  <2>1. JobMsg(c) \in MessageType /\ \A d \in Callers : JobMsg(c) = JobMsg(d) => d = c
    BY DEF JobMsg, MessageType
  <2>. QED
    BY <1>2, <1>3, <2>1 DEF Post
<1>4. ASSUME NEW s \in Sessions, NEW f \in BOOLEAN, ResolveEnd(s, f) PROVE HeldAtMostOnce'
  <2>1. UnblockMsg(s, f) \in MessageType /\ UnblockMsg(s, f).type = "unblock"
    BY DEF UnblockMsg, MessageType
  <2>2. \A c \in Callers : JobMsg(c).type = "job"
    BY DEF JobMsg
  <2>. QED
    BY <1>2, <1>4, <2>1, <2>2 DEF ResolveEnd, Posted
<1>5. ASSUME NEW s \in Sessions, inbox' = inbox, queue' \in [Sessions -> Seq(Callers)],
             \A u \in Sessions : u # s => queue'[u] = queue[u],
             \A i \in DOMAIN queue'[s] : /\ i \in Nat /\ i + 1 \in DOMAIN queue[s]
                                         /\ queue'[s][i] = queue[s][i + 1]
      PROVE HeldAtMostOnce'
  <2>1. \A i \in DOMAIN queue'[s] : i \in Nat /\ i + 1 \in DOMAIN queue[s] /\ queue'[s][i] = queue[s][i + 1]
    BY <1>5
  <2>2. ASSUME NEW u \in Sessions, NEW i \in DOMAIN queue'[u], NEW j \in DOMAIN queue'[u],
               queue'[u][i] = queue'[u][j]
        PROVE  i = j
    <3>1. CASE u = s
      <4>1. i + 1 = j + 1  BY <2>1, <2>2, <3>1 DEF HeldAtMostOnce
      <4>. QED  BY <2>1, <3>1, <4>1
    <3>2. CASE u # s
      BY <1>5, <2>2, <3>2 DEF HeldAtMostOnce
    <3>. QED  BY <3>1, <3>2
  <2>3. ASSUME NEW w \in Workers, NEW u \in Sessions, NEW i \in DOMAIN inbox[w], NEW j \in DOMAIN queue'[u]
        PROVE  inbox[w][i] # JobMsg(queue'[u][j])
    <3>1. CASE u = s
      BY <2>1, <3>1 DEF HeldAtMostOnce
    <3>2. CASE u # s
      BY <1>5, <3>2 DEF HeldAtMostOnce
    <3>. QED  BY <3>1, <3>2
  <2>. QED  BY <1>5, <2>2, <2>3 DEF HeldAtMostOnce
<1>6. ASSUME NEW w \in Workers, NEW s \in Sessions, NEW c \in Callers,
             NEW o \in Answered \cup {"branched"}, NEW m,
             Front(w, s, c), Reply(w, s, c, o, m)
      PROVE HeldAtMostOnce'
  <2>1. Tail(queue[s]) \in Seq(Callers) /\ queue[s] # <<>>
    BY <1>0, <1>6 DEF Front
  <2>2. queue' = [queue EXCEPT ![s] = Tail(queue[s])] /\ inbox' = inbox
    BY <1>6 DEF Reply
  <2>3. queue' \in [Sessions -> Seq(Callers)] /\ \A u \in Sessions : u # s => queue'[u] = queue[u]
    BY <2>1, <2>2 DEF TypeOK
  <2>4. queue'[s] = Tail(queue[s])
    BY <2>2 DEF TypeOK
  <2>5. \A i \in DOMAIN queue'[s] : /\ i \in Nat /\ i + 1 \in DOMAIN queue[s]
                                    /\ queue'[s][i] = queue[s][i + 1]
    BY <1>0, <2>1, <2>4, TailIndex
  <2>. QED  BY <1>5, <2>2, <2>3, <2>5
<1>7. ASSUME NEW w \in Workers, NEW s \in Sessions, NEW c \in Callers, NEW l,
             RunPanic(w, s, c, l)
      PROVE HeldAtMostOnce'
  <2>1. queue' = [queue EXCEPT ![s] = <<>>] /\ inbox' = inbox
    BY <1>7 DEF RunPanic
  <2>2. queue' \in [Sessions -> Seq(Callers)]
    BY <2>1 DEF TypeOK
  <2>3. DOMAIN queue'[s] = {} /\ \A u \in Sessions : u # s => queue'[u] = queue[u]
    BY <2>1 DEF TypeOK
  <2>. QED  BY <1>5, <2>1, <2>2, <2>3
<1>8. ASSUME NEW w \in Workers, Receive(w) PROVE HeldAtMostOnce'
  <2>. DEFINE m == Head(inbox[w])
  <2>1. /\ \A v \in Workers : v # w => inbox'[v] = inbox[v]
        /\ inbox'[w] = Tail(inbox[w]) /\ inbox[w] # <<>>
    BY <1>8, Zenon DEF Receive, Ready, Behind, GivesUp, TypeOK
  <2>2. \A i \in DOMAIN inbox'[w] : i \in Nat /\ i + 1 \in DOMAIN inbox[w] /\ i + 1 # 1
                                    /\ inbox'[w][i] = inbox[w][i + 1]
    BY <1>0, <2>1, TailIndex
  <2>3. 1 \in DOMAIN inbox[w] /\ m = inbox[w][1]
    BY <1>8, ReceiveHead
  <2>4. ASSUME NEW v \in Workers, NEW i \in DOMAIN inbox'[v]
        PROVE  \E j \in DOMAIN inbox[v] : inbox'[v][i] = inbox[v][j]
    BY <2>1, <2>2
  <2>5. ASSUME NEW v \in Workers, NEW i \in DOMAIN inbox'[v], NEW j \in DOMAIN inbox'[v],
               inbox'[v][i].type = "job", inbox'[v][j] = inbox'[v][i]
        PROVE  i = j
    <3>1. CASE v = w
      <4>1. i + 1 = j + 1  BY <2>2, <2>5, <3>1 DEF HeldAtMostOnce
      <4>. QED  BY <2>2, <3>1, <4>1
    <3>2. CASE v # w
      BY <2>1, <2>5, <3>2 DEF HeldAtMostOnce
    <3>. QED  BY <3>1, <3>2
  <2>6. CASE queue' = queue
    BY <2>4, <2>5, <2>6 DEF HeldAtMostOnce
  <2>7. CASE m.type = "job"
    <3>1. PICK c \in Callers, s \in Sessions :
            m = JobMsg(c) /\ c = m.caller /\ s = call[c].id /\ WorkerOf(s) = w
      BY <1>8, <2>7, ReceiveHead
    <3>2. \A u \in Sessions : \A j \in DOMAIN queue[u] : queue[u][j] # c
      BY <2>3, <3>1 DEF HeldAtMostOnce
    <3>3. \A v \in Workers : \A i \in DOMAIN inbox'[v] : inbox'[v][i] # JobMsg(c)
      <4>1. \A i \in DOMAIN inbox'[w] : inbox'[w][i] # JobMsg(c)
        BY <2>2, <2>3, <2>7, <3>1 DEF HeldAtMostOnce
      <4>2. ASSUME NEW v \in Workers, v # w, NEW i \in DOMAIN inbox[v] PROVE inbox[v][i] # JobMsg(c)
        BY <3>1, <4>2 DEF InboxOK, JobMsg
      <4>. QED  BY <2>1, <4>1, <4>2, Zenon
    <3>4. /\ \A u \in Sessions : u # s => queue'[u] = queue[u]
          /\ queue'[s] = Append(queue[s], c) \/ queue'[s] = <<c>>
      BY <1>8, <2>7, <3>1, Zenon DEF Receive, Ready, Behind, GivesUp, TypeOK
    <3>5. \A i \in DOMAIN queue'[s] :
            \/ queue'[s][i] = c /\ \A j \in DOMAIN queue'[s] : queue'[s][j] = c => j = i
            \/ i \in DOMAIN queue[s] /\ queue'[s][i] = queue[s][i]
      <4>1. CASE queue'[s] = <<c>>
        BY <4>1
      <4>2. CASE queue'[s] = Append(queue[s], c)
        <5>1. \A i \in DOMAIN queue'[s] :
                \/ i = Len(queue[s]) + 1 /\ queue'[s][i] = c
                \/ i \in DOMAIN queue[s] /\ queue'[s][i] = queue[s][i]
          <6>1. queue[s] \in Seq(Callers)
            BY <1>0
          <6>. QED  BY <4>2, <6>1, AppendIndex
        <5>2. \A i \in DOMAIN queue'[s] : queue'[s][i] = c => i = Len(queue[s]) + 1
          <6>1. \A j \in DOMAIN queue[s] : queue[s][j] # c
            BY <3>2
          <6>. QED  BY <5>1, <6>1
        <5>. QED  BY <5>1, <5>2
      <4>. QED  BY <3>4, <4>1, <4>2
    <3>6. ASSUME NEW u \in Sessions, NEW i \in DOMAIN queue'[u], NEW j \in DOMAIN queue'[u],
                 queue'[u][i] = queue'[u][j]
          PROVE  i = j
      <4>1. CASE u = s
        <5>1. CASE queue'[s][i] = c
          BY <3>2, <3>5, <3>1, <3>6, <4>1, <5>1, Zenon
        <5>2. CASE queue'[s][i] # c
          BY <3>5, <3>6, <4>1, <5>2 DEF HeldAtMostOnce
        <5>. QED  BY <5>1, <5>2
      <4>2. CASE u # s
        BY <3>4, <3>6, <4>2 DEF HeldAtMostOnce
      <4>. QED  BY <4>1, <4>2
    <3>7. ASSUME NEW v \in Workers, NEW u \in Sessions, NEW i \in DOMAIN inbox'[v], NEW j \in DOMAIN queue'[u]
          PROVE  inbox'[v][i] # JobMsg(queue'[u][j])
      <4>1. queue'[u][j] = c \/ (j \in DOMAIN queue[u] /\ queue'[u][j] = queue[u][j])
        BY <3>4, <3>5
      <4>. QED  BY <2>4, <3>3, <4>1 DEF HeldAtMostOnce
    <3>. QED  BY <2>5, <3>6, <3>7 DEF HeldAtMostOnce
  <2>. QED
    BY <1>8, <2>6, <2>7, Zenon DEF Receive, Ready, Behind, GivesUp
<1>. QED
  <2>1. ASSUME NEW c \in Callers, Return(c) PROVE HeldAtMostOnce'
    BY <1>1, <2>1 DEF Return, workerVars
  <2>2. ASSUME NEW w \in Workers, RunEnd(w) PROVE HeldAtMostOnce'
    BY <1>1, <2>2 DEF RunEnd
  <2>3. ASSUME NEW w \in Workers, NEW s \in Sessions, NEW c \in Callers, NEW m, RunDirty(w, s, c, m)
        PROVE HeldAtMostOnce'
    BY <1>1, <2>3 DEF RunDirty
  <2>4. CASE UNCHANGED held
    BY <1>1, <2>4 DEF held
  <2>. QED
    BY <1>3, <1>4, <1>6, <1>7, <1>8, <2>1, <2>2, <2>3, <2>4, StepCases

\* An unanswered job is never lost.
LEMMA HeldSomewhereStep ==
  /\ TypeOK /\ InboxOK /\ QueueOK /\ HeldAtMostOnce /\ HeldSomewhere /\ RunningOK
  /\ [Next]_vars
  => HeldSomewhere'
<1> SUFFICES ASSUME TypeOK, InboxOK, QueueOK, HeldAtMostOnce, HeldSomewhere, RunningOK, [Next]_vars
             PROVE HeldSomewhere'
  OBVIOUS
<1>. DEFINE At(c) == \/ \E i \in DOMAIN inbox[WorkerOf(call[c].id)] :
                          inbox[WorkerOf(call[c].id)][i] = JobMsg(c)
                     \/ \E i \in DOMAIN queue[call[c].id] : queue[call[c].id][i] = c
<1>0. /\ \A s \in Sessions : queue[s] \in Seq(Callers)
      /\ \A w \in Workers : inbox[w] \in Seq(MessageType)
      /\ \A s \in Sessions : WorkerOf(s) \in Workers
      /\ \A c \in Callers : call[c].id \in Sessions /\ WorkerOf(call[c].id) \in Workers
  BY WorkerOfType DEF TypeOK, CallType
<1>1. ASSUME UNCHANGED <<inbox, queue>>, \A c \in Callers : call'[c].st = "sent" => call'[c] = call[c]
      PROVE HeldSomewhere'
  BY <1>1 DEF HeldSomewhere
<1>2. ASSUME NEW c \in Callers, NEW op \in AllOps, NEW s \in Sessions, NEW r \in SUBSET Keys,
             call[c].st # "sent", Post(c, op, s, r)
      PROVE HeldSomewhere'
  <2>1. /\ call'[c] = [NoCall EXCEPT !.st = "sent", !.op = op, !.id = s, !.reads = r, !.made = call[c].made]
        /\ \A d \in Callers : d # c => call'[d] = call[d]
        /\ queue' = queue
    BY <1>2 DEF Post, TypeOK
  <2>2. call'[c].id = s
    BY <2>1 DEF NoCall
  <2>3. /\ inbox'[WorkerOf(s)] = Append(inbox[WorkerOf(s)], JobMsg(c))
        /\ \A w \in Workers : w # WorkerOf(s) => inbox'[w] = inbox[w]
    BY <1>0, <1>2 DEF Post, TypeOK
  <2>4. JobMsg(c) \in MessageType
    BY DEF JobMsg, MessageType
  <2>5. \A w \in Workers : \A i \in DOMAIN inbox[w] : i \in DOMAIN inbox'[w] /\ inbox'[w][i] = inbox[w][i]
    BY <1>0, <2>3, <2>4, AppendIndex
  <2>6. \E i \in DOMAIN inbox'[WorkerOf(s)] : inbox'[WorkerOf(s)][i] = JobMsg(c)
    <3>1. inbox[WorkerOf(s)] \in Seq(MessageType)
      BY <1>0
    <3>. QED  BY <2>3, <2>4, <3>1, AppendIndex
  <2>7. ASSUME NEW d \in Callers, d # c, call[d].st = "sent"
        PROVE  At(d)'
    <3>1. call'[d] = call[d] /\ At(d)
      BY <2>1, <2>7 DEF HeldSomewhere
    <3>. QED  BY <1>0, <2>1, <2>5, <3>1
  <2>. QED  BY <2>1, <2>2, <2>6, <2>7 DEF HeldSomewhere
<1>3. ASSUME NEW s \in Sessions, NEW f \in BOOLEAN, ResolveEnd(s, f) PROVE HeldSomewhere'
  <2>1. UnblockMsg(s, f) \in MessageType
    BY DEF UnblockMsg, MessageType
  <2>2. /\ inbox'[WorkerOf(s)] = Append(inbox[WorkerOf(s)], UnblockMsg(s, f))
        /\ \A w \in Workers : w # WorkerOf(s) => inbox'[w] = inbox[w]
        /\ queue' = queue /\ call' = call
    BY <1>0, <1>3 DEF ResolveEnd, Posted, TypeOK
  <2>3. \A w \in Workers : \A i \in DOMAIN inbox[w] : i \in DOMAIN inbox'[w] /\ inbox'[w][i] = inbox[w][i]
    BY <1>0, <2>1, <2>2, AppendIndex
  <2>. QED  BY <1>0, <2>2, <2>3 DEF HeldSomewhere
<1>4. ASSUME NEW w \in Workers, NEW s \in Sessions, NEW c \in Callers,
             NEW o \in Answered \cup {"branched"}, NEW m,
             Front(w, s, c), Reply(w, s, c, o, m)
      PROVE HeldSomewhere'
  <2>1. /\ queue[s] \in Seq(Callers) /\ queue[s] # <<>> /\ queue[s][1] = c
        /\ queue'[s] = Tail(queue[s])
        /\ \A u \in Sessions : u # s => queue'[u] = queue[u]
        /\ \A d \in Callers : d # c => call'[d] = call[d]
        /\ call'[c].st # "sent" /\ inbox' = inbox
    BY <1>4, ReplyEffect
  <2>2. ASSUME NEW d \in Callers, d # c, NEW j \in DOMAIN queue[s], queue[s][j] = d
        PROVE  \E i \in DOMAIN queue'[s] : queue'[s][i] = d
    <3>1. j # 1  BY <2>1, <2>2
    <3>2. j - 1 \in DOMAIN Tail(queue[s]) /\ Tail(queue[s])[j - 1] = queue[s][j]
      BY <2>1, <3>1, TailIndex
    <3>. QED  BY <2>1, <2>2, <3>2
  <2>3. ASSUME NEW d \in Callers, d # c, call[d].st = "sent"
        PROVE  At(d)'
    <3>1. call'[d] = call[d] /\ At(d)
      BY <2>1, <2>3 DEF HeldSomewhere
    <3>2. CASE \E i \in DOMAIN inbox[WorkerOf(call[d].id)] : inbox[WorkerOf(call[d].id)][i] = JobMsg(d)
      BY <2>1, <3>1, <3>2
    <3>3. CASE \E i \in DOMAIN queue[call[d].id] : queue[call[d].id][i] = d
      <4>1. CASE call[d].id = s
        <5>1. \E i \in DOMAIN queue'[s] : queue'[s][i] = d
          BY <2>2, <2>3, <3>3, <4>1
        <5>. QED  BY <3>1, <4>1, <5>1
      <4>2. CASE call[d].id # s
        <5>1. queue'[call[d].id] = queue[call[d].id]
          BY <1>0, <2>1, <4>2
        <5>. QED  BY <3>1, <3>3, <5>1
      <4>. QED  BY <4>1, <4>2
    <3>. QED  BY <3>1, <3>2, <3>3
  <2>. QED  BY <2>1, <2>3 DEF HeldSomewhere
<1>5. ASSUME NEW w \in Workers, NEW s \in Sessions, NEW c \in Callers, NEW l,
             RunPanic(w, s, c, l)
      PROVE HeldSomewhere'
  <2>1. /\ \A u \in Sessions : u # s => queue'[u] = queue[u]
        /\ \A i \in DOMAIN queue[s] : call'[queue[s][i]].st = "gone"
        /\ \A d \in Callers : call'[d].st = "sent" => call'[d] = call[d]
        /\ inbox' = inbox
    BY <1>5, PanicEffect
  <2>2. ASSUME NEW d \in Callers, call'[d].st = "sent"
        PROVE  At(d)'
    <3>1. call'[d] = call[d] /\ At(d) /\ \A i \in DOMAIN queue[s] : queue[s][i] # d
      BY <2>1, <2>2 DEF HeldSomewhere
    <3>. QED  BY <1>0, <2>1, <3>1, Zenon
  <2>. QED  BY <2>2 DEF HeldSomewhere
<1>6. ASSUME NEW w \in Workers, Receive(w) PROVE HeldSomewhere'
  <2>. DEFINE m == Head(inbox[w])
  <2>1. /\ \A v \in Workers : v # w => inbox'[v] = inbox[v]
        /\ inbox'[w] = Tail(inbox[w]) /\ inbox[w] # <<>> /\ call' = call
    BY <1>6, Zenon DEF Receive, Ready, Behind, GivesUp, TypeOK
  <2>2. \A j \in DOMAIN inbox[w] : j # 1 => j - 1 \in DOMAIN inbox'[w] /\ inbox'[w][j - 1] = inbox[w][j]
    BY <1>0, <2>1, TailIndex
  <2>3. m = inbox[w][1]
    BY <1>6, ReceiveHead
  <2>4. ASSUME NEW d \in Callers, call[d].st = "sent", m # JobMsg(d),
               \A i \in DOMAIN queue[call[d].id] : queue[call[d].id][i] = d =>
                 \E j \in DOMAIN queue'[call[d].id] : queue'[call[d].id][j] = d
        PROVE  At(d)'
    <3>1. At(d)
      BY <2>4 DEF HeldSomewhere
    <3>2. ASSUME NEW i \in DOMAIN inbox[WorkerOf(call[d].id)], inbox[WorkerOf(call[d].id)][i] = JobMsg(d)
          PROVE  \E j \in DOMAIN inbox'[WorkerOf(call[d].id)] : inbox'[WorkerOf(call[d].id)][j] = JobMsg(d)
      <4>1. CASE WorkerOf(call[d].id) = w
        BY <2>2, <2>3, <2>4, <3>2, <4>1
      <4>2. CASE WorkerOf(call[d].id) # w
        BY <1>0, <2>1, <3>2, <4>2
      <4>. QED  BY <4>1, <4>2
    <3>. QED  BY <2>1, <2>4, <3>1, <3>2
  <2>5. CASE m.type = "unblock"
    <3>1. queue' = queue
      <4>1. Head(inbox[w]).type # "job"
        BY <2>5
      <4>. QED  BY <1>6, <4>1, Zenon DEF Receive, Ready, Behind, GivesUp
    <3>2. \A d \in Callers : JobMsg(d).type = "job"
      BY DEF JobMsg
    <3>3. \A d \in Callers : m # JobMsg(d)
      BY <2>5, <3>2
    <3>. QED  BY <2>1, <2>4, <3>1, <3>3 DEF HeldSomewhere
  <2>6. CASE m.type = "job"
    <3>1. PICK c \in Callers, s \in Sessions :
            m = JobMsg(c) /\ c = m.caller /\ s = call[c].id /\ WorkerOf(s) = w /\ call[c].st = "sent"
      BY <1>6, <2>6, ReceiveHead
    <3>2. /\ \A u \in Sessions : u # s => queue'[u] = queue[u]
          /\ \/ queue'[s] = Append(queue[s], c)
             \/ queue'[s] = <<c>> /\ s \notin blocked
      BY <1>6, <2>6, <3>1, Zenon DEF Receive, Ready, Behind, GivesUp, TypeOK
    <3>3. running[w] = NoSession /\ s # NoSession
      BY <1>6, NoSessionType, Zenon DEF Receive, Ready, Behind, GivesUp
    <3>4. s \notin blocked => queue[s] = <<>>
      BY <3>1, <3>3 DEF QueueOK
    <3>5. /\ \E j \in DOMAIN queue'[s] : queue'[s][j] = c
          /\ \A i \in DOMAIN queue[s] : i \in DOMAIN queue'[s] /\ queue'[s][i] = queue[s][i]
      <4>1. CASE queue'[s] = Append(queue[s], c)
        <5>1. queue[s] \in Seq(Callers)
          BY <1>0
        <5>. QED  BY <4>1, <5>1, AppendIndex
      <4>2. CASE queue'[s] = <<c>> /\ s \notin blocked
        <5>1. DOMAIN queue[s] = {}
          BY <3>4, <4>2
        <5>. QED  BY <4>2, <5>1
      <4>. QED  BY <3>2, <4>1, <4>2
    <3>6. \A d \in Callers : d # c => m # JobMsg(d)
      BY <3>1 DEF JobMsg
    <3>7. \A d \in Callers : \A i \in DOMAIN queue[call[d].id] : queue[call[d].id][i] = d =>
            \E j \in DOMAIN queue'[call[d].id] : queue'[call[d].id][j] = d
      BY <1>0, <3>2, <3>5
    <3>8. ASSUME NEW d \in Callers, call[d].st = "sent" PROVE At(d)'
      <4>1. CASE d = c
        BY <2>1, <3>1, <3>5, <4>1, Zenon
      <4>2. CASE d # c
        BY <2>4, <3>6, <3>7, <3>8, <4>2
      <4>. QED  BY <4>1, <4>2
    <3>. QED  BY <2>1, <3>8 DEF HeldSomewhere
  <2>. QED
    BY <1>6, <2>5, <2>6, Zenon DEF Receive, Ready, Behind, GivesUp
<1>. QED
  <2>1. ASSUME NEW c \in Callers, Return(c) PROVE HeldSomewhere'
    <3>1. UNCHANGED <<inbox, queue>> /\ call' = [call EXCEPT ![c] = NoCall]
      BY <2>1 DEF Return, workerVars
    <3>2. \A d \in Callers : call'[d].st = "sent" => call'[d] = call[d]
      BY <3>1 DEF TypeOK, NoCall
    <3>. QED  BY <1>1, <3>1, <3>2
  <2>2. ASSUME NEW w \in Workers, RunEnd(w) PROVE HeldSomewhere'
    BY <1>1, <2>2 DEF RunEnd
  <2>3. ASSUME NEW w \in Workers, NEW s \in Sessions, NEW c \in Callers, NEW m, RunDirty(w, s, c, m)
        PROVE HeldSomewhere'
    BY <1>1, <2>3 DEF RunDirty
  <2>4. CASE UNCHANGED held
    BY <1>1, <2>4 DEF held
  <2>. QED
    BY <1>2, <1>3, <1>4, <1>5, <1>6, <2>1, <2>2, <2>3, <2>4, StepCases

----------------------------------------------------------------------------
(* One wake-up per parked session *)

\* A session's wake-up: the part of NoLostWakeup about s.
Wake(s) ==
  IF s \in blocked
  THEN \/ resolving[s] # {} /\ Posts(s) = {}
       \/ resolving[s] = {} /\ \E i : Posts(s) = {i}
  ELSE resolving[s] = {} /\ Posts(s) = {}

Woken == \A s \in Sessions : Wake(s)

\* NoLostWakeup is Wake of every session.
LEMMA WakeEach ==
  NoLostWakeup <=> Woken
<1>1. \A s : Posts(s) \subseteq DOMAIN inbox[WorkerOf(s)]
  BY DEF Posts, PostsIn
<1>2. ASSUME NEW s \in Sessions
      PROVE  (\E i \in DOMAIN inbox[WorkerOf(s)] : Posts(s) = {i}) <=> (\E i : Posts(s) = {i})
  BY <1>1
<1>. QED
  BY <1>2 DEF NoLostWakeup, Woken, Wake

\* Parking creates a session's wake-up, the resolver hands it over to an
\* Unblock, and receiving that Unblock is what ends the parking.
LEMMA WakeupStep ==
  TypeOK /\ RunningOK /\ InboxOK /\ NoLostWakeup /\ [Next]_vars => NoLostWakeup'
<1> SUFFICES ASSUME TypeOK, RunningOK, InboxOK, NoLostWakeup, [Next]_vars
             PROVE \A s \in Sessions : Wake(s)'
  <2>1. Woken' => NoLostWakeup'
    BY WakeEach, PTL
  <2>. QED  BY <2>1 DEF Woken
<1>0. /\ \A w \in Workers : inbox[w] \in Seq(MessageType)
      /\ \A s \in Sessions : WorkerOf(s) \in Workers
      /\ \A s \in Sessions : Wake(s)
  BY WorkerOfType, WakeEach DEF TypeOK, Woken
<1>1. ASSUME UNCHANGED <<inbox, blocked, resolving>> PROVE \A s \in Sessions : Wake(s)'
  BY <1>0, <1>1 DEF Wake, Posts
<1>2. ASSUME NEW c \in Callers, NEW op \in AllOps, NEW s \in Sessions, NEW r \in SUBSET Keys,
             Post(c, op, s, r)
      PROVE \A u \in Sessions : Wake(u)'
  <2>1. /\ inbox' = [inbox EXCEPT ![WorkerOf(s)] = Append(inbox[WorkerOf(s)], JobMsg(c))]
        /\ UNCHANGED <<blocked, resolving>>
    BY <1>2 DEF Post
  <2>2. JobMsg(c) \in MessageType /\ JobMsg(c).type # "unblock"
    BY DEF JobMsg, MessageType
  <2>3. ASSUME NEW u \in Sessions PROVE Posts(u)' = Posts(u)
    <3>1. CASE WorkerOf(u) = WorkerOf(s)
      <4>1. inbox'[WorkerOf(u)] = Append(inbox[WorkerOf(u)], JobMsg(c))
        BY <1>0, <2>1, <3>1 DEF TypeOK
      <4>2. PostsIn(Append(inbox[WorkerOf(u)], JobMsg(c)), u) = PostsIn(inbox[WorkerOf(u)], u)
        BY <1>0, <2>2, PostsAppend
      <4>. QED  BY <4>1, <4>2 DEF Posts
    <3>2. CASE WorkerOf(u) # WorkerOf(s)
      <4>1. inbox'[WorkerOf(u)] = inbox[WorkerOf(u)]
        BY <1>0, <2>1, <3>2 DEF TypeOK
      <4>. QED  BY <4>1 DEF Posts
    <3>. QED  BY <3>1, <3>2
  <2>. QED  BY <1>0, <2>1, <2>3 DEF Wake
<1>3. ASSUME NEW s \in Sessions, NEW f \in BOOLEAN, ResolveEnd(s, f)
      PROVE \A u \in Sessions : Wake(u)'
  <2>1. /\ inbox' = [inbox EXCEPT ![WorkerOf(s)] = Append(inbox[WorkerOf(s)], UnblockMsg(s, f))]
        /\ resolving[s] # {} /\ resolving' = [resolving EXCEPT ![s] = {}]
        /\ UNCHANGED blocked
    BY <1>3 DEF ResolveEnd, Posted
  <2>2. /\ UnblockMsg(s, f) \in MessageType
        /\ UnblockMsg(s, f).type = "unblock" /\ UnblockMsg(s, f).id = s
    BY DEF UnblockMsg, MessageType
  <2>3. s \in blocked /\ Posts(s) = {}
    BY <1>0, <2>1 DEF Wake
  <2>4. Posts(s)' = {Len(inbox[WorkerOf(s)]) + 1}
    <3>1. inbox'[WorkerOf(s)] = Append(inbox[WorkerOf(s)], UnblockMsg(s, f))
      BY <1>0, <2>1 DEF TypeOK
    <3>2. PostsIn(Append(inbox[WorkerOf(s)], UnblockMsg(s, f)), s)
            = PostsIn(inbox[WorkerOf(s)], s) \cup {Len(inbox[WorkerOf(s)]) + 1}
      BY <1>0, <2>2, PostsAppend
    <3>. QED  BY <2>3, <3>1, <3>2 DEF Posts
  <2>5. Wake(s)'
    BY <2>1, <2>3, <2>4 DEF Wake, TypeOK
  <2>6. ASSUME NEW u \in Sessions, u # s PROVE Wake(u)'
    <3>1. Posts(u)' = Posts(u)
      <4>1. CASE WorkerOf(u) = WorkerOf(s)
        <5>1. inbox'[WorkerOf(u)] = Append(inbox[WorkerOf(u)], UnblockMsg(s, f))
          BY <1>0, <2>1, <4>1 DEF TypeOK
        <5>2. PostsIn(Append(inbox[WorkerOf(u)], UnblockMsg(s, f)), u) = PostsIn(inbox[WorkerOf(u)], u)
          BY <1>0, <2>2, <2>6, PostsAppend
        <5>. QED  BY <5>1, <5>2 DEF Posts
      <4>2. CASE WorkerOf(u) # WorkerOf(s)
        <5>1. inbox'[WorkerOf(u)] = inbox[WorkerOf(u)]
          BY <1>0, <2>1, <4>2 DEF TypeOK
        <5>. QED  BY <5>1 DEF Posts
      <4>. QED  BY <4>1, <4>2
    <3>2. resolving'[u] = resolving[u]
      BY <2>1, <2>6 DEF TypeOK
    <3>. QED  BY <1>0, <2>1, <3>1, <3>2 DEF Wake
  <2>. QED  BY <2>5, <2>6
<1>4. ASSUME NEW w \in Workers, NEW s \in Sessions, NEW c \in Callers, NEW m, RunDirty(w, s, c, m)
      PROVE \A u \in Sessions : Wake(u)'
  <2>1. /\ running[w] = s /\ running[w] # NoSession /\ inbox' = inbox /\ m # {}
        /\ blocked' = blocked \cup {s} /\ resolving' = [resolving EXCEPT ![s] = m]
    <3>1. running[w] = s /\ m # {}
      BY <1>4 DEF RunDirty, FrontRead, Front, Clean
    <3>2. s # NoSession
      BY NoSessionType
    <3>. QED  BY <1>4, <3>1, <3>2 DEF RunDirty
  <2>2. s \notin blocked
    BY <2>1 DEF RunningOK
  <2>3. Posts(s) = {}
    BY <1>0, <2>2 DEF Wake
  <2>4. \A u : Posts(u)' = Posts(u)
    BY <2>1 DEF Posts
  <2>5. Wake(s)'
    BY <2>1, <2>3, <2>4 DEF Wake, TypeOK
  <2>6. ASSUME NEW u \in Sessions, u # s PROVE Wake(u)'
    <3>1. resolving'[u] = resolving[u] /\ (u \in blocked' <=> u \in blocked)
      BY <2>1, <2>6 DEF TypeOK
    <3>2. Posts(u)' = Posts(u) /\ Wake(u)
      BY <1>0, <2>4
    <3>. QED  BY <3>1, <3>2 DEF Wake
  <2>. QED  BY <2>5, <2>6
<1>5. ASSUME NEW w \in Workers, Receive(w)
      PROVE \A u \in Sessions : Wake(u)'
  <2>. DEFINE m == Head(inbox[w])
              waked(x) == m.type = "unblock" /\ m.id = x
  <2>1. /\ inbox' = [inbox EXCEPT ![w] = Tail(inbox[w])] /\ inbox[w] # <<>>
        /\ resolving' = resolving
    BY <1>5, Zenon DEF Receive, Ready, Behind, GivesUp
  <2>2. ASSUME NEW u \in Sessions, ~waked(u)
        PROVE  u \in blocked' <=> u \in blocked
    <3>1. \/ blocked' = blocked
          \/ m.type = "unblock" /\ blocked' = blocked \ {m.id}
      BY <1>5, Zenon DEF Receive, Ready, Behind, GivesUp
    <3>. QED  BY <2>2, <3>1
  <2>3. ASSUME NEW u \in Sessions, WorkerOf(u) = w
        PROVE  /\ Posts(u)' = {i - 1 : i \in Posts(u) \ {1}}
               /\ 1 \in Posts(u) <=> waked(u)
    <3>1. inbox'[w] = Tail(inbox[w])
      BY <2>1 DEF TypeOK
    <3>2. /\ PostsIn(Tail(inbox[w]), u) = {i - 1 : i \in PostsIn(inbox[w], u) \ {1}}
          /\ 1 \in PostsIn(inbox[w], u) <=> waked(u)
      BY <1>0, <2>1, PostsTail
    <3>. QED  BY <2>3, <3>1, <3>2 DEF Posts
  <2>4. ASSUME NEW u \in Sessions, waked(u) PROVE Wake(u)'
    <3>1. WorkerOf(u) = w
      BY <1>5, <2>4, ReceiveHead
    <3>2. 1 \in Posts(u)
      BY <2>3, <2>4, <3>1
    <3>3. u \in blocked /\ resolving[u] = {} /\ Posts(u) = {1}
      BY <1>0, <3>2 DEF Wake
    <3>4. Posts(u)' = {}
      BY <2>3, <3>1, <3>3
    <3>5. u \notin blocked'
      <4>1. m.type = "unblock" /\ m.id \in blocked
        BY <2>4, <3>3
      <4>2. blocked' = blocked \ {m.id}
        <5>1. Head(inbox[w]).type # "job" /\ Head(inbox[w]).id \in blocked
          BY <4>1
        <5>. QED  BY <1>5, <5>1, Zenon DEF Receive, Ready, Behind, GivesUp
      <4>. QED  BY <2>4, <4>2
    <3>. QED  BY <2>1, <3>3, <3>4, <3>5 DEF Wake
  <2>5. ASSUME NEW u \in Sessions, ~waked(u) PROVE Wake(u)'
    <3>1. CASE WorkerOf(u) = w
      <4>1. Posts(u)' = {i - 1 : i \in Posts(u)}
        BY <2>3, <2>5, <3>1
      <4>2. Posts(u) = {} => Posts(u)' = {}
        BY <4>1
      <4>3. (\E i : Posts(u) = {i}) => \E i : Posts(u)' = {i}
        <5>1. ASSUME NEW i, Posts(u) = {i} PROVE Posts(u)' = {i - 1}
          BY <4>1, <5>1
        <5>. QED  BY <5>1
      <4>. QED  BY <1>0, <2>1, <2>2, <2>5, <4>2, <4>3 DEF Wake
    <3>2. CASE WorkerOf(u) # w
      <4>1. inbox'[WorkerOf(u)] = inbox[WorkerOf(u)]
        BY <1>0, <2>1, <3>2 DEF TypeOK
      <4>2. Posts(u)' = Posts(u)
        BY <4>1 DEF Posts
      <4>. QED  BY <1>0, <2>1, <2>2, <2>5, <4>2 DEF Wake
    <3>. QED  BY <3>1, <3>2
  <2>. QED  BY <2>4, <2>5
<1>. QED
  <2>1. ASSUME NEW c \in Callers, Return(c) PROVE UNCHANGED <<inbox, blocked, resolving>>
    BY <2>1 DEF Return, workerVars
  <2>2. ASSUME NEW w \in Workers, RunEnd(w) PROVE UNCHANGED <<inbox, blocked, resolving>>
    BY <2>2 DEF RunEnd
  <2>3. ASSUME NEW w \in Workers, NEW s \in Sessions, NEW c \in Callers, NEW l, RunPanic(w, s, c, l)
        PROVE UNCHANGED <<inbox, blocked, resolving>>
    BY <2>3 DEF RunPanic
  <2>4. ASSUME NEW w, NEW s, NEW c, NEW o, NEW m, Reply(w, s, c, o, m)
        PROVE UNCHANGED <<inbox, blocked, resolving>>
    BY <2>4 DEF Reply
  <2>5. UNCHANGED held => UNCHANGED <<inbox, blocked, resolving>>
    BY DEF held
  <2>. QED
    BY <1>1, <1>2, <1>3, <1>4, <1>5, <2>1, <2>2, <2>3, <2>4, <2>5, StepCases

----------------------------------------------------------------------------
(* The invariant, and what follows from it *)

\* Nothing is queued, running or parked at the start.
LEMMA InitIInv == Init => IInv
<1> SUFFICES ASSUME Init PROVE IInv
  OBVIOUS
<1>1. TypeOK
  <2>1. 0 \in Sessions /\ 0 \in 0 .. MaxSessions /\ 0 \in 0 .. Ttl /\ 0 \in 0 .. MaxRounds
    BY WorkerAssumption DEF Sessions
  <2>2. NoCall \in CallType
    BY <2>1 DEF NoCall, CallType, AllOps
  <2>3. \A T : <<>> \in Seq(T)
    OBVIOUS
  <2>4. /\ inbox \in [Workers -> Seq(MessageType)] /\ queue \in [Sessions -> Seq(Callers)]
        /\ call \in [Callers -> CallType] /\ ahead \in [Callers -> SUBSET Callers]
    BY <2>2, <2>3 DEF Init
  <2>5. /\ nextId \in 0 .. MaxSessions /\ age \in [Sessions -> 0 .. Ttl]
        /\ rounds \in [Sessions -> 0 .. MaxRounds] /\ count \in [Workers -> Nat]
    BY <2>1 DEF Init
  <2>6. /\ live \subseteq Sessions /\ blocked \subseteq Sessions /\ cached \subseteq Keys
        /\ tainted \subseteq Sessions /\ commits \in [Callers -> Nat]
        /\ placeholder \in [Sessions -> SUBSET Keys] /\ resolving \in [Sessions -> SUBSET Keys]
        /\ running \in [Workers -> Sessions \cup {NoSession}]
    BY DEF Init
  <2>7. blocking \in [Workers -> BOOLEAN] /\ waited \in [Workers -> BOOLEAN]
    BY Zenon DEF Init
  <2>. QED  BY <2>4, <2>5, <2>6, <2>7 DEF TypeOK
<1>2. RunningOK
  BY DEF Init, RunningOK
<1>3. NoLostWakeup
  <2>1. \A s \in Sessions : Posts(s) = {}
    BY WorkerOfType DEF Init, Posts, PostsIn
  <2>. QED  BY <2>1 DEF Init, NoLostWakeup
<1>4. InboxOK
  BY DEF Init, InboxOK
<1>5. QueueOK
  BY DEF Init, QueueOK
<1>6. HeldAtMostOnce
  BY DEF Init, HeldAtMostOnce
<1>7. HeldSomewhere
  BY DEF Init, HeldSomewhere, NoCall
<1>. QED
  BY <1>1, <1>2, <1>3, <1>4, <1>5, <1>6, <1>7 DEF IInv

\* Every step of the workers, callers, resolvers and clock keeps the invariant.
LEMMA NextIInv == IInv /\ [Next]_vars => IInv'
BY TypeStep, RunningStep, InboxStep, QueueStep, HeldOnceStep, HeldSomewhereStep, WakeupStep DEF IInv

\* IInv holds in every reachable state, whatever the number of sessions,
\* workers, callers and keys.
THEOREM Inductive == Spec => []IInv
BY InitIInv, NextIInv, PTL DEF Spec

\* Every variable keeps its type; in particular no job takes more than
\* MAX_SPECULATIVE_ROUNDS passes that miss.
THEOREM TypeCorrect == Spec => []TypeOK
<1>1. IInv => TypeOK
  BY DEF IInv
<1>. QED  BY Inductive, <1>1, PTL

\* park's promise: a parked session has exactly one wake-up on its way, and a
\* session that is not parked has none.
THEOREM Wakeups == Spec => []NoLostWakeup
<1>1. IInv => NoLostWakeup
  BY DEF IInv
<1>. QED  BY Inductive, <1>1, PTL

\* What a place of a job is.
LEMMA PlacesMember ==
  ASSUME NEW c, NEW p
  PROVE  p \in Places(c) <=>
           \/ \E w \in Workers : \E i \in DOMAIN inbox[w] : inbox[w][i] = JobMsg(c) /\ p = <<"inbox", w, i>>
           \/ \E s \in Sessions : \E i \in DOMAIN queue[s] : queue[s][i] = c /\ p = <<"queue", s, i>>
<1>. DEFINE In(w)  == {<<"inbox", w, i>> : i \in {j \in DOMAIN inbox[w] : inbox[w][j] = JobMsg(c)}}
             Que(s) == {<<"queue", s, i>> : i \in {j \in DOMAIN queue[s] : queue[s][j] = c}}
             A == UNION {In(w) : w \in Workers}
             B == UNION {Que(s) : s \in Sessions}
<1>1. p \in A <=> \E w \in Workers : p \in In(w)
  BY Zenon
<1>2. p \in B <=> \E s \in Sessions : p \in Que(s)
  BY Zenon
<1>3. \A w : p \in In(w) <=> \E i \in DOMAIN inbox[w] : inbox[w][i] = JobMsg(c) /\ p = <<"inbox", w, i>>
  BY Zenon
<1>4. \A s : p \in Que(s) <=> \E i \in DOMAIN queue[s] : queue[s][i] = c /\ p = <<"queue", s, i>>
  BY Zenon
<1>5. Places(c) = A \cup B
  BY DEF Places
<1>. HIDE DEF In, Que, A, B
<1>. QED
  BY <1>1, <1>2, <1>3, <1>4, <1>5

\* An unanswered job is in exactly one inbox or queue slot, an answered one in
\* none: no job is lost or run twice by parking, requeueing and draining.
THEOREM HeldOnce == Spec => []JobHeldOnce
<1>1. ASSUME IInv PROVE JobHeldOnce
  <2>0. /\ \A s \in Sessions : WorkerOf(s) \in Workers
        /\ \A c \in Callers : call[c].id \in Sessions
    BY <1>1, WorkerOfType DEF IInv, TypeOK, CallType
  <2>1. ASSUME NEW c \in Callers, call[c].st # "sent" PROVE Places(c) = {}
    <3>1. ASSUME NEW w \in Workers, NEW i \in DOMAIN inbox[w] PROVE inbox[w][i] # JobMsg(c)
      BY <1>1, <2>1 DEF IInv, InboxOK, JobMsg
    <3>2. ASSUME NEW s \in Sessions, NEW i \in DOMAIN queue[s] PROVE queue[s][i] # c
      BY <1>1, <2>1 DEF IInv, QueueOK
    <3>3. \A p : p \notin Places(c)
      BY <3>1, <3>2, PlacesMember
    <3>. QED  BY <3>3
  <2>2. ASSUME NEW c \in Callers, call[c].st = "sent" PROVE \E p \in Places(c) : Places(c) = {p}
    <3>. DEFINE s == call[c].id
                w == WorkerOf(call[c].id)
    <3>1. ASSUME NEW v \in Workers, NEW i \in DOMAIN inbox[v], inbox[v][i] = JobMsg(c) PROVE v = w
      BY <1>1, <3>1 DEF IInv, InboxOK, JobMsg
    <3>2. ASSUME NEW u \in Sessions, NEW i \in DOMAIN queue[u], queue[u][i] = c PROVE u = s
      BY <1>1, <3>2 DEF IInv, QueueOK
    <3>3. ASSUME NEW i \in DOMAIN inbox[w], inbox[w][i] = JobMsg(c)
          PROVE  Places(c) = {<<"inbox", w, i>>}
      <4>1. \A j \in DOMAIN inbox[w] : inbox[w][j] = JobMsg(c) => j = i
        <5>1. inbox[w][i].type = "job"  BY <3>3 DEF JobMsg
        <5>. QED  BY <1>1, <2>0, <3>3, <5>1 DEF IInv, HeldAtMostOnce
      <4>2. \A u \in Sessions : \A j \in DOMAIN queue[u] : queue[u][j] # c
        BY <1>1, <2>0, <3>3 DEF IInv, HeldAtMostOnce
      <4>3. \A p : p \in Places(c) <=> p = <<"inbox", w, i>>
        <5>1. ASSUME NEW p \in Places(c) PROVE p = <<"inbox", w, i>>
          <6>1. PICK v \in Workers : \E j \in DOMAIN inbox[v] :
                  inbox[v][j] = JobMsg(c) /\ p = <<"inbox", v, j>>
            BY <4>2, PlacesMember, Zenon
          <6>2. v = w
            BY <3>1, <6>1
          <6>. QED  BY <4>1, <6>1, <6>2
        <5>2. w \in Workers
          BY <2>0
        <5>3. <<"inbox", w, i>> \in Places(c)
          BY <3>3, <5>2, PlacesMember, Zenon
        <5>. QED  BY <5>1, <5>3
      <4>. QED  BY <4>3
    <3>4. ASSUME NEW i \in DOMAIN queue[s], queue[s][i] = c
          PROVE  Places(c) = {<<"queue", s, i>>}
      <4>1. \A j \in DOMAIN queue[s] : queue[s][j] = c => j = i
        BY <1>1, <2>0, <3>4 DEF IInv, HeldAtMostOnce
      <4>2. \A v \in Workers : \A j \in DOMAIN inbox[v] : inbox[v][j] # JobMsg(c)
        BY <1>1, <2>0, <3>4 DEF IInv, HeldAtMostOnce
      <4>3. \A p : p \in Places(c) <=> p = <<"queue", s, i>>
        <5>1. ASSUME NEW p \in Places(c) PROVE p = <<"queue", s, i>>
          <6>1. PICK u \in Sessions : \E j \in DOMAIN queue[u] :
                  queue[u][j] = c /\ p = <<"queue", u, j>>
            BY <4>2, PlacesMember
          <6>2. u = s
            BY <3>2, <6>1
          <6>. QED  BY <4>1, <6>1, <6>2
        <5>2. s \in Sessions
          BY <2>0
        <5>3. <<"queue", s, i>> \in Places(c)
          <6>1. \E u \in Sessions : \E j \in DOMAIN queue[u] :
                  queue[u][j] = c /\ <<"queue", s, i>> = <<"queue", u, j>>
            BY <3>4, <5>2
          <6>. QED  BY <6>1, PlacesMember
        <5>. QED  BY <5>1, <5>3
      <4>. QED  BY <4>3
    <3>5. \/ \E i \in DOMAIN inbox[w] : inbox[w][i] = JobMsg(c)
          \/ \E i \in DOMAIN queue[s] : queue[s][i] = c
      BY <1>1, <2>2 DEF IInv, HeldSomewhere
    <3>. QED  BY <3>3, <3>4, <3>5
  <2>. QED  BY <2>1, <2>2 DEF JobHeldOnce
<1>. QED  BY Inductive, <1>1, PTL

----------------------------------------------------------------------------
(* What a job commits and what its answer rests on *)

\* A pass that missed or panicked takes its placeholders back, and a clean one
\* has made none: a step that starts with none in any overlay ends with none.
LEMMA PlaceholderStep ==
  TypeOK /\ NoPlaceholderKept /\ [Next]_vars => NoPlaceholderKept'
<1> SUFFICES ASSUME TypeOK, NoPlaceholderKept, [Next]_vars
             PROVE  placeholder' = [s \in Sessions |-> {}]
  BY DEF NoPlaceholderKept
<1>0. placeholder = [s \in Sessions |-> {}]
  BY DEF TypeOK, NoPlaceholderKept
<1>1. CASE UNCHANGED placeholder
  BY <1>0, <1>1
<1>2. ASSUME NEW s, NEW keep, EndSpeculation(s, keep, {}) \/ EndSpeculation(s, FALSE, keep)
      PROVE placeholder' = [u \in Sessions |-> {}]
  BY <1>0, <1>2 DEF EndSpeculation
<1>3. ASSUME NEW w \in Workers, NEW s \in Sessions, NEW c \in Callers,
             \/ RunUnknown(w, s, c)
             \/ RunCreate(w, s, c)
             \/ RunDiscard(w, s, c)
             \/ RunDirect(w, s, c)
             \/ \E o \in {"ok", "err"} : RunClean(w, s, c, o)
             \/ \E g, f \in SUBSET Keys, o \in {"ok", "err"} : RunBlocking(w, s, c, g, f, o)
             \/ \E m \in SUBSET Keys : RunDirty(w, s, c, m) \/ RunPanic(w, s, c, m)
      PROVE placeholder' = [u \in Sessions |-> {}]
  <2>1. CASE RunUnknown(w, s, c) \/ RunCreate(w, s, c) \/ RunDirect(w, s, c)
    BY <1>1, <2>1 DEF RunUnknown, RunCreate, RunDirect
  <2>2. CASE RunDiscard(w, s, c)
    BY <1>0, <2>2 DEF RunDiscard
  <2>3. ASSUME NEW o, RunClean(w, s, c, o) PROVE placeholder' = [u \in Sessions |-> {}]
    BY <1>2, <2>3 DEF RunClean, Clean
  <2>4. ASSUME NEW g, NEW f, NEW o, RunBlocking(w, s, c, g, f, o)
        PROVE placeholder' = [u \in Sessions |-> {}]
    BY <1>1, <2>4 DEF RunBlocking
  <2>5. ASSUME NEW m, RunDirty(w, s, c, m) \/ RunPanic(w, s, c, m)
        PROVE placeholder' = [u \in Sessions |-> {}]
    BY <1>2, <2>5 DEF RunDirty, RunPanic
  <2>. QED  BY <1>3, <2>1, <2>2, <2>3, <2>4, <2>5
<1>4. ASSUME NEW c \in Callers, Caller(c) PROVE UNCHANGED placeholder
  BY <1>4 DEF Caller, Submit, Fork, Adopt, Return, Post, sessionVars
<1>5. ASSUME NEW w \in Workers, Receive(w) \/ RunEnd(w) PROVE UNCHANGED placeholder
  BY <1>5, Zenon DEF Receive, RunEnd, sessionVars
<1>6. ASSUME NEW w \in Workers, Sweep(w) PROVE placeholder' = [s \in Sessions |-> {}]
  BY <1>0, <1>6 DEF Sweep
<1>7. ASSUME NEW s \in Sessions, Resolver(s) PROVE UNCHANGED placeholder
  BY <1>7 DEF Resolver, ResolveKey, ResolveEnd, sessionVars
<1>8. Tick => UNCHANGED placeholder
  BY DEF Tick
<1>9. UNCHANGED vars => UNCHANGED placeholder
  BY DEF vars, sessionVars
<1>. QED
  BY <1>1, <1>3, <1>4, <1>5, <1>6, <1>7, <1>8, <1>9 DEF Next, RunLocal, RunWaiting

\* Without a placeholder, kept or committed, a pass that misses nothing rests on
\* none, and a branch inherits none.
LEMMA RestsOnNone ==
  ASSUME NoPlaceholderKept, tainted = {}, NEW s \in Sessions, NEW c, NEW failed
  PROVE  "placeholder" \notin RestsOn(s, c, {}, failed) /\ Inherited(s) = {}
BY DEF RestsOn, Inherited, NoPlaceholderKept

\* A job a caller has just sent.
NewJob(op, s, reads, made) ==
  [NoCall EXCEPT !.st = "sent", !.op = op, !.id = s, !.reads = reads, !.made = made]

\* How often a job answered o must have been committed.
Owed(op, o) == IF op = "advance" /\ o = "ok" THEN 1 ELSE 0

\* Which handler answers job d of session s fixes its outcome o and what of it
\* is made up, m.
Outcome(w, s, d, o, m) ==
  \/ RunUnknown(w, s, d) /\ o = "unknown" /\ m = {}
  \/ RunCreate(w, s, d) /\ o = "ok" /\ m = {}
  \/ RunDiscard(w, s, d) /\ o = "ok" /\ m = {}
  \/ RunDirect(w, s, d) /\ m \in {{}, Inherited(s)}
  \/ \E f \in SUBSET Keys : o \in {"ok", "err"} /\ m \subseteq RestsOn(s, d, {}, f)

\* The front job d of session s is answered and committed as it should be.
AnswerBy(w, s, d, o, m) ==
  /\ Front(w, s, d) /\ call[d].st = "sent"
  /\ call'[d] = [call[d] EXCEPT !.st = o, !.made = m]
  /\ commits'[d] = commits[d] + Owed(call[d].op, o)
  /\ Outcome(w, s, d, o, m)

\* A clean pass commits what it owes, whatever it is.
LEMMA ExecuteOwed ==
  ASSUME TypeOK, NEW s, NEW c \in Callers, NEW o, NEW m, Execute(s, c, TRUE, o, m)
  PROVE  commits' = [commits EXCEPT ![c] = commits[c] + Owed(call[c].op, o)]
<1>0. commits \in [Callers -> Nat] /\ commits[c] + 0 = commits[c]
  BY DEF TypeOK
<1>1. CASE call[c].op = "advance" /\ o = "ok"
  <2>1. commits' = [commits EXCEPT ![c] = commits[c] + 1] /\ Owed(call[c].op, o) = 1
    BY <1>1 DEF Execute, Commits, Owed
  <2>. QED  BY <2>1
<1>2. CASE ~(call[c].op = "advance" /\ o = "ok")
  <2>1. commits' = commits /\ Owed(call[c].op, o) = 0
    BY <1>2 DEF Execute, Commits, Owed
  <2>. QED  BY <1>0, <2>1
<1>. QED  BY <1>1, <1>2

\* A pass that missed commits nothing.
LEMMA ExecuteNothing ==
  ASSUME NEW s, NEW c, NEW o, NEW m, Execute(s, c, FALSE, o, m)
  PROVE  UNCHANGED <<commits, tainted>>
BY DEF Execute, Commits

\* The handlers that answer their job, with what, and what they commit.
LEMMA RunCommits ==
  ASSUME TypeOK, NEW w \in Workers, NEW s \in Sessions, NEW c \in Callers,
         \/ RunUnknown(w, s, c)
         \/ RunCreate(w, s, c)
         \/ RunDiscard(w, s, c)
         \/ RunDirect(w, s, c)
         \/ \E o \in {"ok", "err"} : RunClean(w, s, c, o)
         \/ \E g, f \in SUBSET Keys, o \in {"ok", "err"} : RunBlocking(w, s, c, g, f, o)
  PROVE  \E o \in Answered \cup {"branched"}, m \in SUBSET MadeUp :
           /\ Front(w, s, c) /\ Reply(w, s, c, o, m) /\ Outcome(w, s, c, o, m)
           /\ commits' = [commits EXCEPT ![c] = commits[c] + Owed(call[c].op, o)]
<1>. DEFINE Goal == \E o \in Answered \cup {"branched"}, m \in SUBSET MadeUp :
              /\ Front(w, s, c) /\ Reply(w, s, c, o, m) /\ Outcome(w, s, c, o, m)
              /\ commits' = [commits EXCEPT ![c] = commits[c] + Owed(call[c].op, o)]
<1>0. ASSUME NEW o, Owed(call[c].op, o) = 0, UNCHANGED commits
      PROVE  commits' = [commits EXCEPT ![c] = commits[c] + Owed(call[c].op, o)]
  BY <1>0 DEF TypeOK
<1>1. CASE RunUnknown(w, s, c)
  <2>1. Owed(call[c].op, "unknown") = 0
    BY DEF Owed
  <2>. QED  BY <1>0, <1>1, <2>1 DEF RunUnknown, Outcome, Answered
<1>2. CASE RunCreate(w, s, c) \/ RunDiscard(w, s, c)
  <2>1. Owed(call[c].op, "ok") = 0
    BY <1>2 DEF RunCreate, RunDiscard, Creating, Owed
  <2>. QED  BY <1>0, <1>2, <2>1 DEF RunCreate, RunDiscard, Outcome, Answered
<1>3. CASE RunDirect(w, s, c)
  <2>1. PICK o \in {"ok", "branched"}, m \in {{}, Inherited(s)} : Reply(w, s, c, o, m)
    BY <1>3 DEF RunDirect
  <2>2. Owed(call[c].op, o) = 0 /\ UNCHANGED commits /\ Front(w, s, c)
    BY <1>3 DEF RunDirect, Owed
  <2>3. m \in SUBSET MadeUp /\ o \in Answered \cup {"branched"}
    BY DEF Inherited, MadeUp, Answered
  <2>. QED  BY <1>0, <1>3, <2>1, <2>2, <2>3 DEF Outcome
<1>4. ASSUME NEW o \in {"ok", "err"}, RunClean(w, s, c, o) PROVE Goal
  <2>. DEFINE m == RestsOn(s, c, {}, {})
  <2>1. Misses(s, c) = {}
    BY <1>4 DEF RunClean, Clean
  <2>2. Front(w, s, c) /\ Reply(w, s, c, o, m) /\ Execute(s, c, TRUE, o, m)
    BY <1>4, <2>1 DEF RunClean, FrontRead
  <2>3. commits' = [commits EXCEPT ![c] = commits[c] + Owed(call[c].op, o)]
    BY <2>2, ExecuteOwed
  <2>4. m \in SUBSET MadeUp /\ Outcome(w, s, c, o, m) /\ o \in Answered \cup {"branched"}
    BY DEF RestsOn, Inherited, MadeUp, Outcome, Answered
  <2>. HIDE DEF m
  <2>. QED  BY <2>2, <2>3, <2>4
<1>5. ASSUME NEW g \in SUBSET Keys, NEW f \in SUBSET Keys, NEW o \in {"ok", "err"},
             RunBlocking(w, s, c, g, f, o)
      PROVE  Goal
  <2>. DEFINE m == IF f \subseteq Slots THEN RestsOn(s, c, {}, f) ELSE {}
  <2>1. Front(w, s, c) /\ Reply(w, s, c, o, m) /\ Execute(s, c, TRUE, o, m)
    BY <1>5 DEF RunBlocking, FrontRead
  <2>2. commits' = [commits EXCEPT ![c] = commits[c] + Owed(call[c].op, o)]
    BY <2>1, ExecuteOwed
  <2>3. m \in SUBSET MadeUp /\ o \in Answered \cup {"branched"}
    BY DEF RestsOn, Inherited, MadeUp, Answered
  <2>4. Outcome(w, s, c, o, m)
    BY DEF Outcome
  <2>. HIDE DEF m
  <2>. QED  BY <2>1, <2>2, <2>3, <2>4
<1>. HIDE DEF Goal
<1>6. Goal
  <2>1. CASE RunUnknown(w, s, c) \/ RunCreate(w, s, c) \/ RunDiscard(w, s, c) \/ RunDirect(w, s, c)
    BY <1>1, <1>2, <1>3, <2>1 DEF Goal
  <2>. QED  BY <1>4, <1>5, <2>1
<1>. QED  BY <1>6 DEF Goal

\* How a step changes a caller's job: the caller sends one or reads its reply,
\* the front job of some queue is answered, or a panic drops the queue it is in.
LEMMA CallCases ==
  ASSUME TypeOK, QueueOK, HeldAtMostOnce, [Next]_vars, NEW d \in Callers
  PROVE  \/ call'[d] = call[d] /\ commits'[d] = commits[d]
         \/ call'[d] = NoCall /\ commits'[d] = 0
         \/ \E op \in AllOps, s \in Sessions, r \in SUBSET Keys :
              call'[d] = NewJob(op, s, r, call[d].made) /\ commits'[d] = 0
         \/ /\ call[d].st = "sent" /\ call'[d] = [call[d] EXCEPT !.st = "gone"]
            /\ commits'[d] = commits[d]
         \/ \E w \in Workers, s \in Sessions, o \in Answered \cup {"branched"},
               m \in SUBSET MadeUp : AnswerBy(w, s, d, o, m)
<1>. DEFINE Sent == \E op \in AllOps, s \in Sessions, r \in SUBSET Keys :
              call'[d] = NewJob(op, s, r, call[d].made) /\ commits'[d] = 0
            Answer == \E w \in Workers, s \in Sessions, o \in Answered \cup {"branched"},
                        m \in SUBSET MadeUp : AnswerBy(w, s, d, o, m)
            Panicked == /\ call[d].st = "sent" /\ call'[d] = [call[d] EXCEPT !.st = "gone"]
                        /\ commits'[d] = commits[d]
            Same == call'[d] = call[d] /\ commits'[d] = commits[d]
            Cleared == call'[d] = NoCall /\ commits'[d] = 0
            Goal == Same \/ Cleared \/ Sent \/ Panicked \/ Answer
<1>0. \A s \in Sessions : queue[s] \in Seq(Callers)
  BY DEF TypeOK
<1>. SUFFICES Goal
  OBVIOUS
<1>1. ASSUME UNCHANGED <<call, commits>> PROVE Goal
  BY <1>1
<1>2. ASSUME NEW c \in Callers, Caller(c) PROVE Goal
  <2>1. ASSUME NEW op \in AllOps, NEW s \in Sessions, NEW r \in SUBSET Keys, Post(c, op, s, r)
        PROVE Goal
    <3>1. Same \/ (call'[d] = NewJob(op, s, r, call[d].made) /\ commits'[d] = 0)
      <4>1. /\ call' = [call EXCEPT ![c] = NewJob(op, s, r, call[c].made)]
            /\ commits' = [commits EXCEPT ![c] = 0]
        BY <2>1 DEF Post, NewJob
      <4>. QED  BY <4>1 DEF TypeOK
    <3>. QED  BY <3>1
  <2>2. Return(c) => Goal
    <3>1. ASSUME Return(c) PROVE Same \/ Cleared
      BY <3>1 DEF Return, TypeOK
    <3>. QED  BY <3>1
  <2>3. ASSUME NEW op \in Ops, NEW s \in Sessions, NEW r \in SUBSET Keys, Submit(c, op, s, r)
        PROVE Goal
    BY <2>1, <2>3, WorkerAssumption DEF Submit
  <2>4. CASE Fork(c) \/ Adopt(c)
    <3>1. nextId \in Sessions
      BY <2>4, WorkerAssumption DEF Fork, Adopt, Sessions, TypeOK
    <3>2. \E op \in AllOps, r \in SUBSET Keys : Post(c, op, nextId, r)
      BY <2>4 DEF Fork, Adopt, AllOps, Creating
    <3>. HIDE DEF Goal
    <3>. QED  BY <2>1, <3>1, <3>2
  <2>. HIDE DEF Goal
  <2>. QED  BY <1>2, <2>2, <2>3, <2>4 DEF Caller
<1>3. ASSUME NEW w \in Workers, NEW s \in Sessions, NEW c \in Callers,
             NEW o \in Answered \cup {"branched"}, NEW m \in SUBSET MadeUp,
             Front(w, s, c), Reply(w, s, c, o, m), Outcome(w, s, c, o, m),
             commits' = [commits EXCEPT ![c] = commits[c] + Owed(call[c].op, o)]
      PROVE Goal
  <2>1. call[c].st = "sent"
    BY <1>0, <1>3 DEF QueueOK, Front
  <2>2. call' = [call EXCEPT ![c] = [call[c] EXCEPT !.st = o, !.made = m]]
    BY <1>3 DEF Reply
  <2>3. CASE c = d
    <3>1. /\ call'[d] = [call[d] EXCEPT !.st = o, !.made = m]
          /\ commits'[d] = commits[d] + Owed(call[d].op, o)
      BY <1>3, <2>2, <2>3 DEF TypeOK
    <3>2. AnswerBy(w, s, d, o, m)
      BY <1>3, <2>1, <2>3, <3>1 DEF AnswerBy
    <3>. QED  BY <1>3, <3>2
  <2>4. CASE c # d
    <3>1. Same
      BY <1>3, <2>2, <2>4 DEF TypeOK
    <3>. QED  BY <3>1
  <2>. QED  BY <2>3, <2>4
<1>4. ASSUME NEW w \in Workers, NEW s \in Sessions, NEW c \in Callers,
             \/ RunUnknown(w, s, c)
             \/ RunCreate(w, s, c)
             \/ RunDiscard(w, s, c)
             \/ RunDirect(w, s, c)
             \/ \E o \in {"ok", "err"} : RunClean(w, s, c, o)
             \/ \E g, f \in SUBSET Keys, o \in {"ok", "err"} : RunBlocking(w, s, c, g, f, o)
      PROVE Goal
  <2>1. \E o \in Answered \cup {"branched"}, m \in SUBSET MadeUp :
          /\ Front(w, s, c) /\ Reply(w, s, c, o, m) /\ Outcome(w, s, c, o, m)
          /\ commits' = [commits EXCEPT ![c] = commits[c] + Owed(call[c].op, o)]
    BY <1>4, RunCommits
  <2>. HIDE DEF Goal
  <2>. QED  BY <1>3, <2>1
<1>5. ASSUME NEW w \in Workers, NEW s \in Sessions, NEW c \in Callers, NEW l, RunPanic(w, s, c, l)
      PROVE Goal
  <2>1. CASE \A i \in DOMAIN queue[s] : queue[s][i] # d
    <3>1. call'[d] = call[d] /\ commits'[d] = commits[d]
      BY <1>5, <2>1, PanicEffect DEF RunPanic
    <3>. QED  BY <3>1
  <2>2. ASSUME NEW i \in DOMAIN queue[s], queue[s][i] = d PROVE Panicked
    <3>1. call[d].st = "sent"
      BY <2>2 DEF QueueOK
    <3>2. d \in {queue[s][j] : j \in DOMAIN queue[s]}
      BY <2>2
    <3>3. call'[d] = [call[d] EXCEPT !.st = "gone"] /\ commits'[d] = commits[d]
      BY <1>5, <3>2 DEF RunPanic
    <3>. QED  BY <3>1, <3>3
  <2>. HIDE DEF Panicked
  <2>. QED  BY <2>1, <2>2 DEF Goal
<1>6. ASSUME NEW w \in Workers, NEW s \in Sessions, NEW c \in Callers, NEW m, RunDirty(w, s, c, m)
      PROVE UNCHANGED <<call, commits>>
  BY <1>6, ExecuteNothing DEF RunDirty
<1>7. ASSUME NEW w \in Workers, Receive(w) \/ RunEnd(w) \/ Sweep(w) PROVE UNCHANGED <<call, commits>>
  BY <1>7, Zenon DEF Receive, RunEnd, Sweep
<1>8. ASSUME NEW s \in Sessions, Resolver(s) PROVE UNCHANGED <<call, commits>>
  BY <1>8 DEF Resolver, ResolveKey, ResolveEnd
<1>9. Tick \/ UNCHANGED vars => UNCHANGED <<call, commits>>
  BY DEF Tick, vars
<1>. HIDE DEF Goal
<1>10. ASSUME NEW w \in Workers, RunLocal(w) \/ RunWaiting(w) PROVE Goal
  BY <1>1, <1>4, <1>5, <1>6, <1>7, <1>10 DEF RunLocal, RunWaiting
<1>. QED
  BY <1>1, <1>2, <1>7, <1>8, <1>9, <1>10 DEF Next

\* What an answer, a panic, a new job and no job look like.
LEMMA CallRecords ==
  ASSUME TypeOK, NEW d \in Callers
  PROVE  /\ \A o, m : LET r == [call[d] EXCEPT !.st = o, !.made = m] IN
              r.st = o /\ r.made = m /\ r.op = call[d].op
         /\ LET r == [call[d] EXCEPT !.st = "gone"] IN r.st = "gone" /\ r.made = call[d].made
         /\ \A op, s, q, m : NewJob(op, s, q, m).st = "sent" /\ NewJob(op, s, q, m).made = m
         /\ NoCall.st = "idle" /\ NoCall.made = {}
<1>1. call[d] \in CallType
  BY DEF TypeOK
<1>. QED
  BY <1>1 DEF CallType, NoCall, NewJob

\* A diff enters an overlay with a clean or a blocking pass, which rests on no
\* placeholder, or with a branch, which brings what its parent rested on.
LEMMA TaintStep ==
  ASSUME TypeOK, NoPlaceholderKept, AnswersFromUpstream, [Next]_vars
  PROVE  tainted' = {}
<1>0. tainted = {}
  BY DEF AnswersFromUpstream
<1>1. CASE UNCHANGED tainted
  BY <1>0, <1>1
<1>2. ASSUME NEW s, NEW c, NEW clean, NEW o, NEW m, "placeholder" \notin m, Execute(s, c, clean, o, m)
      PROVE  UNCHANGED tainted
  BY <1>2 DEF Execute
<1>3. ASSUME NEW w \in Workers, NEW s \in Sessions, NEW c \in Callers,
             \/ RunUnknown(w, s, c)
             \/ RunCreate(w, s, c)
             \/ RunDiscard(w, s, c)
             \/ RunDirect(w, s, c)
             \/ \E o \in {"ok", "err"} : RunClean(w, s, c, o)
             \/ \E g, f \in SUBSET Keys, o \in {"ok", "err"} : RunBlocking(w, s, c, g, f, o)
             \/ \E m \in SUBSET Keys : RunDirty(w, s, c, m) \/ RunPanic(w, s, c, m)
      PROVE  tainted' = {}
  <2>1. CASE RunUnknown(w, s, c) \/ RunDirect(w, s, c)
    BY <1>1, <2>1 DEF RunUnknown, RunDirect
  <2>2. CASE RunCreate(w, s, c) \/ RunDiscard(w, s, c)
    BY <1>0, <2>2 DEF RunCreate, RunDiscard, AnswersFromUpstream
  <2>3. ASSUME NEW o, RunClean(w, s, c, o) PROVE UNCHANGED tainted
    <3>1. Execute(s, c, TRUE, o, RestsOn(s, c, {}, {}))
      BY <2>3 DEF RunClean, Clean
    <3>. QED  BY <1>0, <1>2, <3>1, RestsOnNone
  <2>4. ASSUME NEW g, NEW f, NEW o, RunBlocking(w, s, c, g, f, o) PROVE UNCHANGED tainted
    <3>1. PICK m \in {RestsOn(s, c, {}, f), {}} : Execute(s, c, TRUE, o, m)
      BY <2>4 DEF RunBlocking
    <3>2. "placeholder" \notin m
      BY <1>0, RestsOnNone
    <3>. QED  BY <1>2, <3>1, <3>2
  <2>5. ASSUME NEW m, RunDirty(w, s, c, m) PROVE UNCHANGED tainted
    BY <2>5, ExecuteNothing DEF RunDirty
  <2>6. ASSUME NEW m, RunPanic(w, s, c, m) PROVE UNCHANGED tainted
    BY <2>6 DEF RunPanic
  <2>. QED  BY <1>1, <1>3, <2>1, <2>2, <2>3, <2>4, <2>5, <2>6
<1>4. ASSUME NEW c \in Callers, Caller(c) PROVE UNCHANGED tainted
  BY <1>4 DEF Caller, Submit, Fork, Adopt, Return, Post, sessionVars
<1>5. ASSUME NEW w \in Workers, Receive(w) \/ RunEnd(w) PROVE UNCHANGED tainted
  BY <1>5, Zenon DEF Receive, RunEnd, sessionVars
<1>6. ASSUME NEW w \in Workers, Sweep(w) PROVE tainted' = {}
  BY <1>0, <1>6 DEF Sweep
<1>7. ASSUME NEW s \in Sessions, Resolver(s) PROVE UNCHANGED tainted
  BY <1>7 DEF Resolver, ResolveKey, ResolveEnd, sessionVars
<1>8. Tick \/ UNCHANGED vars => UNCHANGED tainted
  BY DEF Tick, vars, sessionVars
<1>. QED
  BY <1>1, <1>3, <1>4, <1>5, <1>6, <1>7, <1>8 DEF Next, RunLocal, RunWaiting

\* Only a pass that misses nothing is answered with what it computed, and a job
\* a caller sends rests on what its branch did.
LEMMA AnswerStep ==
  /\ TypeOK /\ QueueOK /\ HeldAtMostOnce /\ NoPlaceholderKept /\ AnswersFromUpstream /\ [Next]_vars
  => AnswersFromUpstream'
<1> SUFFICES ASSUME TypeOK, QueueOK, HeldAtMostOnce, NoPlaceholderKept, AnswersFromUpstream,
                    [Next]_vars, NEW d \in Callers
             PROVE  "placeholder" \notin call'[d].made
  BY TaintStep DEF AnswersFromUpstream
<1>1. "placeholder" \notin call[d].made /\ tainted = {}
  BY DEF AnswersFromUpstream
<1>2. ASSUME NEW w \in Workers, NEW s \in Sessions, NEW o, NEW m, AnswerBy(w, s, d, o, m)
      PROVE  "placeholder" \notin call'[d].made
  <2>1. call'[d].made = m
    BY <1>2, CallRecords DEF AnswerBy
  <2>2. m = {} \/ m = Inherited(s) \/ \E f : m \subseteq RestsOn(s, d, {}, f)
    BY <1>2 DEF AnswerBy, Outcome
  <2>3. "placeholder" \notin m
    BY <1>1, <2>2, RestsOnNone
  <2>. QED  BY <2>1, <2>3
<1>3. ASSUME NEW op, NEW s, NEW r, call'[d] = NewJob(op, s, r, call[d].made)
      PROVE  call'[d].made = call[d].made
  BY <1>3, CallRecords
<1>4. CASE call'[d] = call[d]
  BY <1>1, <1>4
<1>5. CASE call'[d] = NoCall
  BY <1>5, CallRecords
<1>6. CASE call'[d] = [call[d] EXCEPT !.st = "gone"]
  BY <1>1, <1>6, CallRecords
<1>. QED  BY <1>1, <1>2, <1>3, <1>4, <1>5, <1>6, CallCases

\* A job that is sent has not been committed, a pass that missed or panicked
\* leaves it so, and the pass that answers it commits what it owes.
LEMMA CommitStep ==
  TypeOK /\ QueueOK /\ HeldAtMostOnce /\ CommitOnce /\ [Next]_vars => CommitOnce'
<1> SUFFICES ASSUME TypeOK, QueueOK, HeldAtMostOnce, CommitOnce, [Next]_vars, NEW d \in Callers
             PROVE  commits'[d] = Owed(call'[d].op, call'[d].st)
  BY DEF CommitOnce, Owed
<1>1. commits[d] = Owed(call[d].op, call[d].st)
  BY DEF CommitOnce, Owed
<1>2. CASE call'[d] = call[d] /\ commits'[d] = commits[d]
  BY <1>1, <1>2
<1>3. CASE call'[d] = NoCall /\ commits'[d] = 0
  BY <1>3, CallRecords DEF Owed
<1>4. ASSUME NEW op, NEW s, NEW r, call'[d] = NewJob(op, s, r, call[d].made), commits'[d] = 0
      PROVE  commits'[d] = Owed(call'[d].op, call'[d].st)
  <2>1. call'[d].st = "sent"
    BY <1>4, CallRecords
  <2>. QED  BY <1>4, <2>1 DEF Owed
<1>5. CASE /\ call[d].st = "sent" /\ call'[d] = [call[d] EXCEPT !.st = "gone"]
           /\ commits'[d] = commits[d]
  <2>1. call'[d].st = "gone"
    BY <1>5, CallRecords
  <2>. QED  BY <1>1, <1>5, <2>1 DEF Owed
<1>6. ASSUME NEW w \in Workers, NEW s \in Sessions, NEW o, NEW m, AnswerBy(w, s, d, o, m)
      PROVE  commits'[d] = Owed(call'[d].op, call'[d].st)
  <2>1. call'[d].st = o /\ call'[d].op = call[d].op
    BY <1>6, CallRecords DEF AnswerBy
  <2>2. commits[d] = 0
    BY <1>1, <1>6 DEF AnswerBy, Owed
  <2>3. commits'[d] = commits[d] + Owed(call[d].op, o)
    BY <1>6 DEF AnswerBy
  <2>. QED  BY <2>1, <2>2, <2>3 DEF Owed
<1>. QED  BY <1>2, <1>3, <1>4, <1>5, <1>6, CallCases

\* Whatever changes which sessions are live stores the count of their worker,
\* and every worker counts its own sessions only.
LEMMA CountStep ==
  TypeOK /\ RunningOK /\ CountFresh /\ [Next]_vars => CountFresh'
<1> SUFFICES ASSUME TypeOK, RunningOK, CountFresh, [Next]_vars PROVE CountFresh'
  OBVIOUS
<1>1. CASE UNCHANGED <<live, count>>
  BY <1>1 DEF CountFresh, CountOf
<1>2. ASSUME NEW w \in Workers, StoreCount(w, live'),
             \A s : WorkerOf(s) # w => (s \in live <=> s \in live')
      PROVE  CountFresh'
  <2>. SUFFICES ASSUME NEW v \in Workers PROVE count'[v] = CountOf(v, live')
    BY DEF CountFresh, CountOf
  <2>1. CASE v = w
    <3>1. count' = [count EXCEPT ![w] = CountOf(w, live')] /\ count \in [Workers -> Nat]
      BY <1>2 DEF StoreCount, TypeOK
    <3>. QED  BY <2>1, <3>1
  <2>2. CASE v # w
    <3>1. count'[v] = CountOf(v, live)
      BY <1>2, <2>2 DEF StoreCount, TypeOK, CountFresh
    <3>2. {s \in live' : WorkerOf(s) = v} = {s \in live : WorkerOf(s) = v}
      BY <1>2, <2>2
    <3>3. CountOf(v, live') = CountOf(v, live)
      BY <3>2 DEF CountOf
    <3>. QED  BY <3>1, <3>3
  <2>. QED  BY <2>1, <2>2
<1>3. ASSUME NEW w \in Workers, NEW s \in Sessions, NEW c \in Callers,
             RunCreate(w, s, c) \/ RunDiscard(w, s, c)
      PROVE  CountFresh'
  <2>1. WorkerOf(s) = w
    BY <1>3, NoSessionType DEF RunCreate, RunDiscard, Front, RunningOK
  <2>2. live' = live \cup {s} \/ live' = live \ {s}
    BY <1>3 DEF RunCreate, RunDiscard
  <2>3. StoreCount(w, live')
    BY <1>3 DEF RunCreate, RunDiscard
  <2>. QED  BY <1>2, <2>1, <2>2, <2>3
<1>4. ASSUME NEW w \in Workers, RunEnd(w) PROVE CountFresh'
  <2>1. live' = live /\ StoreCount(w, live')
    BY <1>4 DEF RunEnd, StoreCount
  <2>. QED  BY <1>2, <2>1
<1>5. ASSUME NEW w \in Workers, NEW s \in Sessions, NEW c \in Callers, NEW l, RunPanic(w, s, c, l)
      PROVE  CountFresh'
  <2>1. live' = live /\ StoreCount(w, live')
    BY <1>5 DEF RunPanic, StoreCount
  <2>. QED  BY <1>2, <2>1
<1>6. ASSUME NEW w \in Workers, Sweep(w) PROVE CountFresh'
  <2>1. live' = live \ Expired(w) /\ StoreCount(w, live')
    BY <1>6 DEF Sweep
  <2>2. \A s \in Expired(w) : WorkerOf(s) = w
    BY DEF Expired
  <2>. QED  BY <1>2, <2>1, <2>2
<1>7. ASSUME NEW w \in Workers, NEW s \in Sessions, NEW c \in Callers,
             \/ RunUnknown(w, s, c)
             \/ RunDirect(w, s, c)
             \/ \E o \in {"ok", "err"} : RunClean(w, s, c, o)
             \/ \E g, f \in SUBSET Keys, o \in {"ok", "err"} : RunBlocking(w, s, c, g, f, o)
             \/ \E m \in SUBSET Keys : RunDirty(w, s, c, m)
      PROVE  UNCHANGED <<live, count>>
  BY <1>7 DEF RunUnknown, RunDirect, RunClean, RunBlocking, RunDirty
<1>8. ASSUME NEW c \in Callers, Caller(c) PROVE UNCHANGED <<live, count>>
  BY <1>8 DEF Caller, Submit, Fork, Adopt, Return, Post, sessionVars
<1>9. ASSUME NEW w \in Workers, Receive(w) PROVE UNCHANGED <<live, count>>
  BY <1>9, Zenon DEF Receive, sessionVars
<1>10. ASSUME NEW s \in Sessions, Resolver(s) PROVE UNCHANGED <<live, count>>
  BY <1>10 DEF Resolver, ResolveKey, ResolveEnd, sessionVars
<1>11. Tick \/ UNCHANGED vars => UNCHANGED <<live, count>>
  BY DEF Tick, vars, sessionVars
<1>12. ASSUME NEW w \in Workers, RunLocal(w) \/ RunWaiting(w) PROVE CountFresh'
  BY <1>1, <1>3, <1>4, <1>5, <1>7, <1>12 DEF RunLocal, RunWaiting
<1>. QED
  BY <1>1, <1>6, <1>8, <1>9, <1>10, <1>11, <1>12 DEF Next

----------------------------------------------------------------------------
(* The order in which a session's jobs run *)

\* A job waits only for unanswered jobs of its own session.
AheadOK ==
  \A c \in Callers : call[c].st = "sent" =>
    \A d \in ahead[c] : call[d].st = "sent" /\ call[d].id = call[c].id

\* In a session's queue, the jobs a job waits for are before it.
QueueOrder ==
  \A s \in Sessions : \A j \in DOMAIN queue[s] : \A d \in ahead[queue[s][j]] :
    \E i \in DOMAIN queue[s] : i < j /\ queue[s][i] = d

\* The jobs a job in an inbox waits for are before it there, or already in
\* their session's queue.
InboxOrder ==
  \A w \in Workers : \A j \in DOMAIN inbox[w] : inbox[w][j].type = "job" =>
    \A d \in ahead[inbox[w][j].caller] :
      \/ \E i \in DOMAIN inbox[w] : i < j /\ inbox[w][i] = JobMsg(d)
      \/ \E i \in DOMAIN queue[call[d].id] : queue[call[d].id][i] = d

Ordered == AheadOK /\ QueueOrder /\ InboxOrder

\* Sending a job waits for its session's unanswered jobs; an answer or a panic
\* takes what it answers out of every wait.
LEMMA AheadStep ==
  TypeOK /\ QueueOK /\ HeldAtMostOnce /\ AheadOK /\ [Next]_vars => AheadOK'
<1> SUFFICES ASSUME TypeOK, QueueOK, HeldAtMostOnce, AheadOK, [Next]_vars,
                    NEW c \in Callers, call'[c].st = "sent", NEW d \in ahead'[c]
             PROVE  call'[d].st = "sent" /\ call'[d].id = call'[c].id
  BY DEF AheadOK
<1>0. \A e \in Callers : ahead[e] \subseteq Callers
  BY DEF TypeOK
<1>1. ASSUME call[c].st = "sent", d \in ahead[c], call'[c].id = call[c].id, call'[d] = call[d]
      PROVE  call'[d].st = "sent" /\ call'[d].id = call'[c].id
  BY <1>1 DEF AheadOK
<1>2. ASSUME NEW b \in Callers, NEW op \in AllOps, NEW s \in Sessions, NEW r \in SUBSET Keys,
             call[b].st # "sent", Post(b, op, s, r)
      PROVE  call'[d].st = "sent" /\ call'[d].id = call'[c].id
  <2>1. /\ call'[b] = [NoCall EXCEPT !.st = "sent", !.op = op, !.id = s, !.reads = r, !.made = call[b].made]
        /\ \A e \in Callers : e # b => call'[e] = call[e] /\ ahead'[e] = ahead[e]
        /\ ahead'[b] = Outstanding(s)
    BY <1>2 DEF Post, TypeOK
  <2>2. call'[b].id = s
    BY <2>1 DEF NoCall
  <2>3. CASE c = b
    <3>1. d \in Callers /\ call[d].st = "sent" /\ call[d].id = s /\ d # b
      BY <1>2, <2>1, <2>3 DEF Outstanding
    <3>. QED  BY <2>1, <2>2, <2>3, <3>1
  <2>4. CASE c # b
    <3>1. call[c].st = "sent" /\ d \in ahead[c] /\ d \in Callers
      BY <1>0, <2>1, <2>4
    <3>2. d # b
      BY <1>2, <3>1 DEF AheadOK
    <3>. QED  BY <1>1, <2>1, <2>4, <3>1, <3>2
  <2>. QED  BY <2>3, <2>4
<1>3. ASSUME NEW b \in Callers, Return(b)
      PROVE  call'[d].st = "sent" /\ call'[d].id = call'[c].id
  <2>1. /\ call'[b].st # "sent" /\ call[b].st # "sent" /\ ahead' = ahead
        /\ \A e \in Callers : e # b => call'[e] = call[e]
    BY <1>3 DEF Return, TypeOK, NoCall, Answered
  <2>2. c # b /\ call[c].st = "sent" /\ d \in ahead[c] /\ d \in Callers
    BY <1>0, <2>1
  <2>3. d # b
    BY <2>1, <2>2 DEF AheadOK
  <2>. QED  BY <1>1, <2>1, <2>2, <2>3
<1>4. ASSUME NEW w \in Workers, NEW s \in Sessions, NEW b \in Callers,
             NEW o \in Answered \cup {"branched"}, NEW m,
             Front(w, s, b), Reply(w, s, b, o, m)
      PROVE  call'[d].st = "sent" /\ call'[d].id = call'[c].id
  <2>1. call'[b].st # "sent" /\ \A e \in Callers : e # b => call'[e] = call[e]
    BY <1>4, ReplyEffect
  <2>2. ahead'[c] = ahead[c] \ {b}
    BY <1>4 DEF Reply
  <2>3. d \in Callers
    BY <1>0, <2>2
  <2>. QED  BY <1>1, <2>1, <2>2, <2>3
<1>5. ASSUME NEW w \in Workers, NEW s \in Sessions, NEW b \in Callers, NEW l, RunPanic(w, s, b, l)
      PROVE  call'[d].st = "sent" /\ call'[d].id = call'[c].id
  <2>1. call'[c] = call[c]
    BY <1>5, PanicEffect
  <2>2. d \in ahead[c] /\ \A i \in DOMAIN queue[s] : queue[s][i] # d
    BY <1>5 DEF RunPanic
  <2>3. d \in Callers
    BY <1>0, <2>2
  <2>4. call'[d] = call[d]
    BY <1>5, <2>2, <2>3, PanicEffect
  <2>. QED  BY <1>1, <2>1, <2>2, <2>4
<1>6. UNCHANGED <<call, ahead>> => call'[d].st = "sent" /\ call'[d].id = call'[c].id
  BY <1>1
<1>7. ASSUME NEW w \in Workers, Receive(w) \/ RunEnd(w) PROVE UNCHANGED <<call, ahead>>
  BY <1>7, Zenon DEF Receive, RunEnd
<1>8. ASSUME NEW s \in Sessions, NEW f, ResolveEnd(s, f) PROVE UNCHANGED <<call, ahead>>
  BY <1>8 DEF ResolveEnd
<1>9. ASSUME NEW w, NEW s, NEW b, NEW m, RunDirty(w, s, b, m) PROVE UNCHANGED <<call, ahead>>
  BY <1>9 DEF RunDirty
<1>10. UNCHANGED held => UNCHANGED <<call, ahead>>
  BY DEF held
<1>. QED
  BY <1>2, <1>3, <1>4, <1>5, <1>6, <1>7, <1>8, <1>9, <1>10, StepCases

\* The session a worker takes a new job for, when it is not parked, has no
\* queue, so nothing is ahead of that job.
LEMMA FreshNotBehind ==
  ASSUME TypeOK, InboxOK, QueueOK, AheadOK, InboxOrder,
         NEW w \in Workers, Receive(w), NEW c \in Callers, Head(inbox[w]) = JobMsg(c)
  PROVE  /\ call[c].st = "sent" /\ call[c].id \in Sessions /\ WorkerOf(call[c].id) = w
         /\ \A d \in ahead[c] : \E i \in DOMAIN queue[call[c].id] : queue[call[c].id][i] = d
         /\ call[c].id \notin blocked => queue[call[c].id] = <<>> /\ ahead[c] = {}
<1>1. inbox[w] \in Seq(MessageType) /\ inbox[w] # <<>> /\ 1 \in DOMAIN inbox[w] /\ inbox[w][1] = JobMsg(c)
  BY ReceiveHead
<1>2. JobMsg(c).type = "job" /\ JobMsg(c).caller = c
  BY DEF JobMsg
<1>3. call[c].st = "sent" /\ call[c].id \in Sessions /\ WorkerOf(call[c].id) = w
  BY <1>2, ReceiveHead
<1>4. ASSUME NEW d \in ahead[c]
      PROVE  \E i \in DOMAIN queue[call[c].id] : queue[call[c].id][i] = d
  <2>1. call[d].id = call[c].id
    BY <1>3 DEF AheadOK
  <2>2. ~ \E i \in DOMAIN inbox[w] : i < 1
    BY <1>1
  <2>3. \/ \E i \in DOMAIN inbox[w] : i < 1 /\ inbox[w][i] = JobMsg(d)
        \/ \E i \in DOMAIN queue[call[d].id] : queue[call[d].id][i] = d
    BY <1>1, <1>2 DEF InboxOrder
  <2>. QED  BY <2>1, <2>2, <2>3
<1>5. ASSUME call[c].id \notin blocked PROVE queue[call[c].id] = <<>>
  <2>1. running[w] = NoSession /\ call[c].id # NoSession
    BY <1>3, NoSessionType, Zenon DEF Receive, Ready
  <2>. QED  BY <1>3, <1>5, <2>1 DEF QueueOK
<1>6. ASSUME call[c].id \notin blocked PROVE ahead[c] = {}
  <2>1. DOMAIN queue[call[c].id] = {}
    BY <1>5, <1>6
  <2>. QED  BY <1>4, <2>1
<1>. QED  BY <1>3, <1>4, <1>5, <1>6

\* A queue grows at its end, by a job all of whose wait is already in it, and
\* shrinks at its front, or whole.
LEMMA QueueOrderStep ==
  /\ TypeOK /\ InboxOK /\ QueueOK /\ HeldAtMostOnce /\ AheadOK /\ QueueOrder /\ InboxOrder
  /\ [Next]_vars
  => QueueOrder'
<1> SUFFICES ASSUME TypeOK, InboxOK, QueueOK, HeldAtMostOnce, AheadOK, QueueOrder, InboxOrder,
                    [Next]_vars
             PROVE  QueueOrder'
  OBVIOUS
<1>0. /\ \A s \in Sessions : queue[s] \in Seq(Callers)
      /\ \A s \in Sessions : \A i \in DOMAIN queue[s] : queue[s][i] \in Callers
  BY DEF TypeOK
<1>1. ASSUME queue' = queue,
             \A s \in Sessions : \A j \in DOMAIN queue[s] :
               ahead'[queue[s][j]] \subseteq ahead[queue[s][j]]
      PROVE  QueueOrder'
  BY <1>1 DEF QueueOrder
<1>2. UNCHANGED <<queue, ahead>> => QueueOrder'
  BY DEF QueueOrder
<1>3. ASSUME NEW b \in Callers, NEW op, NEW s \in Sessions, NEW r,
             call[b].st # "sent", Post(b, op, s, r)
      PROVE  QueueOrder'
  <2>1. queue' = queue /\ \A e \in Callers : e # b => ahead'[e] = ahead[e]
    BY <1>3 DEF Post, TypeOK
  <2>2. \A u \in Sessions : \A j \in DOMAIN queue[u] : queue[u][j] # b
    BY <1>3 DEF QueueOK
  <2>. QED  BY <1>0, <1>1, <2>1, <2>2
<1>4. ASSUME NEW w \in Workers, NEW s \in Sessions, NEW b \in Callers,
             NEW o \in Answered \cup {"branched"}, NEW m,
             Front(w, s, b), Reply(w, s, b, o, m)
      PROVE  QueueOrder'
  <2>1. /\ queue[s] # <<>> /\ queue[s][1] = b /\ queue'[s] = Tail(queue[s])
        /\ \A u \in Sessions : u # s => queue'[u] = queue[u]
    BY <1>4, ReplyEffect
  <2>2. \A e \in Callers : ahead'[e] = ahead[e] \ {b}
    BY <1>4 DEF Reply
  <2>3. ASSUME NEW j \in DOMAIN queue'[s], NEW d \in ahead'[queue'[s][j]]
        PROVE  \E i \in DOMAIN queue'[s] : i < j /\ queue'[s][i] = d
    <3>1. j \in Nat /\ j + 1 \in DOMAIN queue[s] /\ queue'[s][j] = queue[s][j + 1]
      BY <1>0, <2>1, TailIndex
    <3>2. d \in ahead[queue[s][j + 1]] /\ d # b
      BY <1>0, <2>2, <2>3, <3>1
    <3>3. PICK i \in DOMAIN queue[s] : i < j + 1 /\ queue[s][i] = d
      BY <3>1, <3>2 DEF QueueOrder
    <3>4. i # 1 /\ i \in Nat
      BY <1>0, <2>1, <3>2, <3>3
    <3>5. i - 1 \in DOMAIN queue'[s] /\ queue'[s][i - 1] = d
      BY <1>0, <2>1, <3>3, <3>4, TailIndex
    <3>6. i - 1 < j
      BY <3>1, <3>3, <3>4
    <3>. QED  BY <3>5, <3>6
  <2>4. ASSUME NEW u \in Sessions, u # s, NEW j \in DOMAIN queue'[u], NEW d \in ahead'[queue'[u][j]]
        PROVE  \E i \in DOMAIN queue'[u] : i < j /\ queue'[u][i] = d
    <3>1. queue'[u] = queue[u] /\ queue[u][j] \in Callers
      BY <1>0, <2>1, <2>4
    <3>2. d \in ahead[queue[u][j]]
      BY <2>2, <2>4, <3>1
    <3>. QED  BY <2>4, <3>1, <3>2 DEF QueueOrder
  <2>. QED  BY <2>3, <2>4 DEF QueueOrder
<1>5. ASSUME NEW w \in Workers, NEW s \in Sessions, NEW b \in Callers, NEW l, RunPanic(w, s, b, l)
      PROVE  QueueOrder'
  <2>1. queue'[s] = <<>> /\ \A u \in Sessions : u # s => queue'[u] = queue[u]
    BY <1>5, PanicEffect
  <2>2. \A e \in Callers : ahead'[e] \subseteq ahead[e]
    BY <1>5 DEF RunPanic
  <2>3. DOMAIN queue'[s] = {}
    BY <2>1
  <2>4. ASSUME NEW u \in Sessions, u # s, NEW j \in DOMAIN queue'[u], NEW d \in ahead'[queue'[u][j]]
        PROVE  \E i \in DOMAIN queue'[u] : i < j /\ queue'[u][i] = d
    <3>1. queue'[u] = queue[u] /\ queue[u][j] \in Callers
      BY <1>0, <2>1, <2>4
    <3>2. d \in ahead[queue[u][j]]
      BY <2>2, <2>4, <3>1
    <3>. QED  BY <2>4, <3>1, <3>2 DEF QueueOrder
  <2>. QED  BY <2>3, <2>4 DEF QueueOrder
<1>6. ASSUME NEW w \in Workers, Receive(w) PROVE QueueOrder'
  <2>. DEFINE m == Head(inbox[w])
  <2>0. ahead' = ahead /\ call' = call
    BY <1>6, Zenon DEF Receive
  <2>1. CASE m.type = "unblock"
    <3>1. m.type # "job"
      BY <2>1
    <3>2. queue' = queue
      BY <1>6, <3>1, Zenon DEF Receive
    <3>. QED  BY <1>2, <2>0, <3>2
  <2>2. CASE m.type = "job"
    <3>1. PICK c \in Callers, s \in Sessions :
            m = JobMsg(c) /\ c = m.caller /\ s = call[c].id
      BY <1>6, <2>2, ReceiveHead
    <3>2. /\ \A u \in Sessions : u # s => queue'[u] = queue[u]
          /\ \/ queue'[s] = Append(queue[s], c)
             \/ queue'[s] = <<c>> /\ s \notin blocked
      BY <1>6, <2>2, <3>1, Zenon DEF Receive, Behind, TypeOK
    <3>3. ASSUME NEW u \in Sessions, u # s, NEW j \in DOMAIN queue'[u], NEW d \in ahead'[queue'[u][j]]
          PROVE  \E i \in DOMAIN queue'[u] : i < j /\ queue'[u][i] = d
      <4>1. queue'[u] = queue[u]
        BY <3>2, <3>3
      <4>2. j \in DOMAIN queue[u] /\ d \in ahead[queue[u][j]]
        BY <2>0, <3>3, <4>1
      <4>. QED  BY <4>1, <4>2 DEF QueueOrder
    <3>4. ASSUME NEW j \in DOMAIN queue'[s], NEW d \in ahead'[queue'[s][j]]
          PROVE  \E i \in DOMAIN queue'[s] : i < j /\ queue'[s][i] = d
      <4>1. CASE queue'[s] = Append(queue[s], c)
        <5>1. queue[s] \in Seq(Callers)
          BY <1>0
        <5>2. CASE j = Len(queue[s]) + 1 /\ queue'[s][j] = c
          <6>. d \in ahead[c]
            BY <2>0, <3>4, <5>2
          <6>1. PICK i \in DOMAIN queue[s] : queue[s][i] = d
            BY <1>6, <3>1, FreshNotBehind
          <6>2. i < Len(queue[s]) + 1
            BY <5>1
          <6>3. i \in DOMAIN queue'[s] /\ queue'[s][i] = d
            BY <4>1, <5>1, <6>1, AppendIndex
          <6>. QED  BY <5>2, <6>2, <6>3
        <5>3. CASE j \in DOMAIN queue[s] /\ queue'[s][j] = queue[s][j]
          <6>1. d \in ahead[queue[s][j]]
            BY <2>0, <3>4, <5>3
          <6>2. PICK i \in DOMAIN queue[s] : i < j /\ queue[s][i] = d
            BY <5>3, <6>1 DEF QueueOrder
          <6>3. i \in DOMAIN queue'[s] /\ queue'[s][i] = d
            BY <4>1, <5>1, <6>2, AppendIndex
          <6>. QED  BY <6>2, <6>3
        <5>. QED  BY <3>4, <4>1, <5>1, <5>2, <5>3, AppendIndex
      <4>2. CASE queue'[s] = <<c>> /\ s \notin blocked
        <5>1. ahead[c] = {}
          BY <1>6, <3>1, <4>2, FreshNotBehind
        <5>2. queue'[s][j] = c
          BY <3>4, <4>2
        <5>. QED  BY <2>0, <3>4, <5>1, <5>2
      <4>. QED  BY <3>2, <4>1, <4>2
    <3>. QED  BY <3>3, <3>4 DEF QueueOrder
  <2>. QED
    BY <1>6, <2>1, <2>2, Zenon DEF Receive
<1>7. ASSUME NEW s \in Sessions, NEW f, ResolveEnd(s, f) PROVE UNCHANGED <<queue, ahead>>
  BY <1>7 DEF ResolveEnd
<1>8. ASSUME NEW w, NEW s, NEW b, NEW m, RunDirty(w, s, b, m) PROVE UNCHANGED <<queue, ahead>>
  BY <1>8 DEF RunDirty
<1>9. ASSUME NEW w, RunEnd(w) PROVE UNCHANGED <<queue, ahead>>
  BY <1>9 DEF RunEnd
<1>10. ASSUME NEW c, Return(c) PROVE UNCHANGED <<queue, ahead>>
  BY <1>10 DEF Return, workerVars
<1>11. UNCHANGED held => UNCHANGED <<queue, ahead>>
  BY DEF held
<1>. QED
  BY <1>2, <1>3, <1>4, <1>5, <1>6, <1>7, <1>8, <1>9, <1>10, <1>11, StepCases

\* A job is sent behind what it waits for, and what is received before it goes
\* to its session's queue.
LEMMA InboxOrderStep ==
  /\ TypeOK /\ RunningOK /\ InboxOK /\ QueueOK /\ HeldAtMostOnce /\ HeldSomewhere
  /\ AheadOK /\ InboxOrder /\ [Next]_vars
  => InboxOrder'
<1> SUFFICES ASSUME TypeOK, RunningOK, InboxOK, QueueOK, HeldAtMostOnce, HeldSomewhere,
                    AheadOK, InboxOrder, [Next]_vars
             PROVE  InboxOrder'
  OBVIOUS
<1>. SUFFICES ASSUME NEW v \in Workers, NEW j \in DOMAIN inbox'[v], NEW c \in Callers,
                     inbox'[v][j] = JobMsg(c), NEW d \in ahead'[c]
              PROVE  \/ \E i \in DOMAIN inbox'[v] : i < j /\ inbox'[v][i] = JobMsg(d)
                     \/ \E i \in DOMAIN queue'[call'[d].id] : queue'[call'[d].id][i] = d
  <2>1. \A w \in Workers : inbox'[w] \in Seq(MessageType)
    BY TypeStep DEF TypeOK
  <2>2. \A w \in Workers : \A i \in DOMAIN inbox'[w] : inbox'[w][i].type = "job" =>
          inbox'[w][i].caller \in Callers /\ inbox'[w][i] = JobMsg(inbox'[w][i].caller)
    BY <2>1 DEF MessageType, JobMsg
  <2>. QED  BY <2>2 DEF InboxOrder
<1>. DEFINE Waits == \/ \E i \in DOMAIN inbox'[v] : i < j /\ inbox'[v][i] = JobMsg(d)
                     \/ \E i \in DOMAIN queue'[call'[d].id] : queue'[call'[d].id][i] = d
<1>0. /\ \A s \in Sessions : queue[s] \in Seq(Callers) /\ WorkerOf(s) \in Workers
      /\ \A w \in Workers : inbox[w] \in Seq(MessageType)
      /\ \A e \in Callers : ahead[e] \subseteq Callers /\ call[e].id \in Sessions
      /\ JobMsg(c).type = "job" /\ JobMsg(c).caller = c
  BY WorkerOfType DEF TypeOK, CallType, JobMsg
<1>1. ASSUME NEW n \in DOMAIN inbox[v], inbox[v][n] = JobMsg(c), d \in ahead[c]
      PROVE  /\ d \in Callers /\ call[c].st = "sent" /\ call[d].st = "sent" /\ call[d].id = call[c].id
             /\ \/ \E i \in DOMAIN inbox[v] : i < n /\ inbox[v][i] = JobMsg(d)
                \/ \E i \in DOMAIN queue[call[d].id] : queue[call[d].id][i] = d
  <2>1. call[c].st = "sent"
    BY <1>0, <1>1 DEF InboxOK
  <2>. QED  BY <1>0, <1>1, <2>1 DEF InboxOrder, AheadOK
<1>2. ASSUME UNCHANGED <<inbox, queue>>, d \in ahead[c], call[d].st = "sent" => call'[d] = call[d]
      PROVE  Waits
  <2>1. j \in DOMAIN inbox[v] /\ inbox[v][j] = JobMsg(c)
    BY <1>2
  <2>. QED  BY <1>1, <1>2, <2>1
<1>3. ASSUME NEW b \in Callers, NEW op \in AllOps, NEW s \in Sessions, NEW r \in SUBSET Keys,
             call[b].st # "sent", Post(b, op, s, r)
      PROVE  Waits
  <2>1. /\ inbox'[WorkerOf(s)] = Append(inbox[WorkerOf(s)], JobMsg(b))
        /\ \A w \in Workers : w # WorkerOf(s) => inbox'[w] = inbox[w]
        /\ \A e \in Callers : e # b => call'[e] = call[e] /\ ahead'[e] = ahead[e]
        /\ ahead'[b] = Outstanding(s) /\ queue' = queue
    BY <1>0, <1>3 DEF Post, TypeOK
  <2>2. JobMsg(b) \in MessageType
    BY DEF JobMsg, MessageType
  <2>3. \A w \in Workers : \A i \in DOMAIN inbox[w] : i \in DOMAIN inbox'[w] /\ inbox'[w][i] = inbox[w][i]
    BY <1>0, <2>1, <2>2, AppendIndex
  <2>4. CASE v = WorkerOf(s) /\ j = Len(inbox[v]) + 1 /\ inbox'[v][j] = JobMsg(b)
    <3>1. c = b
      BY <2>4 DEF JobMsg
    <3>2. d \in Callers /\ call[d].st = "sent" /\ call[d].id = s /\ d # b
      BY <1>3, <2>1, <3>1 DEF Outstanding
    <3>3. CASE \E i \in DOMAIN inbox[v] : inbox[v][i] = JobMsg(d)
      <4>1. PICK i \in DOMAIN inbox[v] : inbox[v][i] = JobMsg(d)
        BY <3>3
      <4>2. i < Len(inbox[v]) + 1
        <5>1. inbox[v] \in Seq(MessageType)
          BY <1>0
        <5>. QED  BY <5>1
      <4>. QED  BY <2>3, <2>4, <4>1, <4>2
    <3>4. CASE \E i \in DOMAIN queue[s] : queue[s][i] = d
      BY <2>1, <3>2, <3>4
    <3>. QED  BY <2>4, <3>2, <3>3, <3>4 DEF HeldSomewhere
  <2>5. CASE j \in DOMAIN inbox[v] /\ inbox'[v][j] = inbox[v][j]
    <3>1. c # b
      BY <1>0, <1>3, <2>5 DEF InboxOK
    <3>2. d \in ahead[c]
      BY <2>1, <3>1
    <3>3. d # b
      BY <1>1, <1>3, <2>5, <3>2
    <3>. QED  BY <1>1, <2>1, <2>3, <2>5, <3>2, <3>3, SMTT(20)
  <2>6. \/ v = WorkerOf(s) /\ j = Len(inbox[v]) + 1 /\ inbox'[v][j] = JobMsg(b)
        \/ j \in DOMAIN inbox[v] /\ inbox'[v][j] = inbox[v][j]
    BY <1>0, <2>1, <2>2, AppendIndex
  <2>. QED  BY <2>4, <2>5, <2>6
<1>4. ASSUME NEW s \in Sessions, NEW f \in BOOLEAN, ResolveEnd(s, f) PROVE Waits
  <2>1. UnblockMsg(s, f) \in MessageType /\ UnblockMsg(s, f).type = "unblock"
    BY DEF UnblockMsg, MessageType
  <2>2. /\ inbox'[WorkerOf(s)] = Append(inbox[WorkerOf(s)], UnblockMsg(s, f))
        /\ \A w \in Workers : w # WorkerOf(s) => inbox'[w] = inbox[w]
        /\ queue' = queue /\ call' = call /\ ahead' = ahead
    BY <1>0, <1>4 DEF ResolveEnd, Posted, TypeOK
  <2>3. /\ \A i \in DOMAIN inbox[v] : i \in DOMAIN inbox'[v] /\ inbox'[v][i] = inbox[v][i]
        /\ j \in DOMAIN inbox[v]
    BY <1>0, <2>1, <2>2, AppendIndex
  <2>. QED  BY <1>1, <2>2, <2>3
<1>5. ASSUME NEW w \in Workers, NEW s \in Sessions, NEW b \in Callers,
             NEW o \in Answered \cup {"branched"}, NEW m,
             Front(w, s, b), Reply(w, s, b, o, m)
      PROVE  Waits
  <2>1. /\ queue[s] \in Seq(Callers) /\ queue[s] # <<>> /\ queue[s][1] = b
        /\ queue'[s] = Tail(queue[s])
        /\ \A u \in Sessions : u # s => queue'[u] = queue[u]
        /\ \A e \in Callers : e # b => call'[e] = call[e]
        /\ inbox' = inbox
    BY <1>5, ReplyEffect
  <2>2. d \in ahead[c] /\ d # b
    BY <1>5 DEF Reply
  <2>3. j \in DOMAIN inbox[v] /\ inbox[v][j] = JobMsg(c)
    BY <2>1
  <2>4. d \in Callers /\ call'[d] = call[d] /\ call[d].id \in Sessions
    BY <1>0, <2>1, <2>2
  <2>5. ASSUME NEW i \in DOMAIN queue[call[d].id], queue[call[d].id][i] = d
        PROVE  \E n \in DOMAIN queue'[call[d].id] : queue'[call[d].id][n] = d
    <3>1. CASE call[d].id = s
      <4>1. i # 1
        BY <2>1, <2>2, <2>5, <3>1
      <4>2. i - 1 \in DOMAIN Tail(queue[s]) /\ Tail(queue[s])[i - 1] = queue[s][i]
        BY <2>1, <2>5, <3>1, <4>1, TailIndex
      <4>. QED  BY <2>1, <2>5, <3>1, <4>2
    <3>2. CASE call[d].id # s
      BY <2>1, <2>4, <2>5, <3>2
    <3>. QED  BY <3>1, <3>2
  <2>. QED  BY <1>1, <2>1, <2>2, <2>3, <2>4, <2>5
<1>6. ASSUME NEW w \in Workers, NEW s \in Sessions, NEW b \in Callers, NEW l, RunPanic(w, s, b, l)
      PROVE  Waits
  <2>1. /\ \A u \in Sessions : u # s => queue'[u] = queue[u]
        /\ inbox' = inbox
    BY <1>6, PanicEffect
  <2>2. d \in ahead[c] /\ \A i \in DOMAIN queue[s] : queue[s][i] # d
    BY <1>6 DEF RunPanic
  <2>3. d \in Callers /\ call[d].id \in Sessions
    BY <1>0, <2>2
  <2>4. call'[d] = call[d]
    BY <1>6, <2>2, <2>3, PanicEffect
  <2>5. j \in DOMAIN inbox[v] /\ inbox[v][j] = JobMsg(c)
    BY <2>1
  <2>. QED  BY <1>1, <2>1, <2>2, <2>3, <2>4, <2>5
<1>7. ASSUME NEW w \in Workers, Receive(w) PROVE Waits
  <2>. DEFINE m == Head(inbox[w])
  <2>1. /\ \A u \in Workers : u # w => inbox'[u] = inbox[u]
        /\ inbox'[w] = Tail(inbox[w]) /\ inbox[w] # <<>> /\ call' = call /\ ahead' = ahead
    BY <1>7, Zenon DEF Receive, Ready, TypeOK
  <2>2. m = inbox[w][1]
    BY <1>7, ReceiveHead
  <2>3. \A s \in Sessions : \A i \in DOMAIN queue[s] :
          \E n \in DOMAIN queue'[s] : queue'[s][n] = queue[s][i]
    <3>1. CASE m.type # "job"
      <4>1. queue' = queue
        BY <1>7, <3>1, Zenon DEF Receive
      <4>. QED  BY <4>1
    <3>2. CASE m.type = "job"
      <4>1. PICK b \in Callers, s \in Sessions : m = JobMsg(b) /\ b = m.caller /\ s = call[b].id
        BY <1>7, <3>2, ReceiveHead
      <4>2. /\ \A u \in Sessions : u # s => queue'[u] = queue[u]
            /\ queue'[s] = Append(queue[s], b) \/ s \notin blocked
        BY <1>7, <3>2, <4>1, Zenon DEF Receive, Behind, TypeOK
      <4>4. s \notin blocked => DOMAIN queue[s] = {}
        <5>1. s \notin blocked => queue[s] = <<>>
          BY <1>7, <4>1, FreshNotBehind
        <5>. QED  BY <5>1
      <4>5. queue'[s] = Append(queue[s], b) =>
              \A i \in DOMAIN queue[s] : i \in DOMAIN queue'[s] /\ queue'[s][i] = queue[s][i]
        <5>1. queue[s] \in Seq(Callers)
          BY <1>0
        <5>. QED  BY <5>1, AppendIndex
      <4>. QED  BY <4>2, <4>4, <4>5
    <3>. QED  BY <3>1, <3>2
  <2>4. ASSUME NEW e \in Callers, m = JobMsg(e)
        PROVE  \E n \in DOMAIN queue'[call[e].id] : queue'[call[e].id][n] = e
    <3>1. m.type = "job" /\ m.caller = e /\ call[e].id \in Sessions
      BY <1>0, <2>4 DEF JobMsg
    <3>2. queue'[call[e].id] = Append(queue[call[e].id], e) \/ queue'[call[e].id] = <<e>>
      BY <1>7, <3>1, Zenon DEF Receive, Behind, TypeOK
    <3>3. queue[call[e].id] \in Seq(Callers)
      BY <1>0, <3>1
    <3>4. Append(queue[call[e].id], e)[Len(queue[call[e].id]) + 1] = e
          /\ Len(queue[call[e].id]) + 1 \in DOMAIN Append(queue[call[e].id], e)
      BY <3>3, AppendIndex
    <3>. QED  BY <3>2, <3>4
  <2>5. CASE v # w
    <3>1. j \in DOMAIN inbox[v] /\ inbox[v][j] = JobMsg(c) /\ inbox'[v] = inbox[v]
      BY <2>1, <2>5
    <3>. QED  BY <1>0, <1>1, <2>1, <2>3, <3>1
  <2>6. CASE v = w
    <3>0. inbox'[v] = Tail(inbox[v]) /\ inbox[v] \in Seq(MessageType) /\ inbox[v] # <<>>
      BY <1>0, <2>1, <2>6
    <3>1. j \in Nat /\ j + 1 \in DOMAIN inbox[v] /\ inbox[v][j + 1] = JobMsg(c)
      <4>1. j \in DOMAIN Tail(inbox[v]) /\ Tail(inbox[v])[j] = JobMsg(c)
        BY <3>0
      <4>. QED  BY <3>0, <4>1, TailIndex
    <3>2. /\ d \in Callers
          /\ \/ \E i \in DOMAIN inbox[v] : i < j + 1 /\ inbox[v][i] = JobMsg(d)
             \/ \E i \in DOMAIN queue[call[d].id] : queue[call[d].id][i] = d
      BY <1>1, <2>1, <3>1
    <3>3. CASE \E i \in DOMAIN queue[call[d].id] : queue[call[d].id][i] = d
      <4>1. call[d].id \in Sessions /\ call'[d].id = call[d].id
        BY <1>0, <2>1, <3>2
      <4>2. \E n \in DOMAIN queue'[call[d].id] : queue'[call[d].id][n] = d
        BY <2>3, <3>3, <4>1
      <4>. QED  BY <4>1, <4>2
    <3>4. ASSUME NEW i \in DOMAIN inbox[v], i < j + 1, inbox[v][i] = JobMsg(d) PROVE Waits
      <4>1. CASE i = 1
        <5>1. m = JobMsg(d)
          BY <2>2, <2>6, <3>4, <4>1
        <5>2. \E n \in DOMAIN queue'[call[d].id] : queue'[call[d].id][n] = d
          BY <2>4, <3>2, <5>1
        <5>. QED  BY <2>1, <5>2
      <4>2. CASE i # 1
        <5>1. i - 1 \in DOMAIN inbox'[v] /\ inbox'[v][i - 1] = JobMsg(d)
          BY <3>0, <3>4, <4>2, TailIndex
        <5>2. i - 1 < j
          <6>1. i \in Nat
            BY <1>0
          <6>. QED  BY <3>1, <3>4, <6>1
        <5>. QED  BY <5>1, <5>2
      <4>. QED  BY <4>1, <4>2
    <3>. QED  BY <3>2, <3>3, <3>4
  <2>. QED  BY <2>5, <2>6
<1>8. ASSUME NEW b \in Callers, Return(b) PROVE Waits
  <2>1. /\ UNCHANGED <<inbox, queue, ahead>> /\ call[b].st # "sent"
        /\ \A e \in Callers : e # b => call'[e] = call[e]
    BY <1>8 DEF Return, TypeOK, Answered, workerVars
  <2>2. d \in Callers
    BY <1>0, <2>1
  <2>. QED  BY <1>2, <2>1, <2>2
<1>9. UNCHANGED <<inbox, queue, ahead, call>> => Waits
  BY <1>2
<1>10. ASSUME NEW w, NEW s, NEW b, NEW m, RunDirty(w, s, b, m)
       PROVE  UNCHANGED <<inbox, queue, ahead, call>>
  BY <1>10 DEF RunDirty
<1>11. ASSUME NEW w, RunEnd(w) PROVE UNCHANGED <<inbox, queue, ahead, call>>
  BY <1>11 DEF RunEnd
<1>12. UNCHANGED held => UNCHANGED <<inbox, queue, ahead, call>>
  BY DEF held
<1>. HIDE DEF Waits
<1>13. Waits
  BY <1>3, <1>4, <1>5, <1>6, <1>7, <1>8, <1>9, <1>10, <1>11, <1>12, StepCases
<1>. QED  BY <1>13 DEF Waits

\* Nothing is ahead of anything at the start, and every step keeps the order.
LEMMA OrderedStep == IInv /\ Ordered /\ [Next]_vars => Ordered'
BY AheadStep, QueueOrderStep, InboxOrderStep DEF IInv, Ordered

\* No job has been sent yet.
LEMMA InitOrdered == Init => Ordered
BY DEF Init, Ordered, AheadOK, QueueOrder, InboxOrder, NoCall

\* Nothing is ahead of the front job of a queue.
LEMMA FrontTurn ==
  ASSUME TypeOK, QueueOrder, NEW w \in Workers, NEW s \in Sessions, NEW c \in Callers, Front(w, s, c)
  PROVE  ahead[c] = {}
<1>1. queue[s] \in Seq(Callers) /\ queue[s] # <<>> /\ queue[s][1] = c
  BY DEF TypeOK, Front
<1>2. 1 \in DOMAIN queue[s] /\ ~ \E i \in DOMAIN queue[s] : i < 1
  BY <1>1
<1>3. \A d \in ahead[queue[s][1]] : \E i \in DOMAIN queue[s] : i < 1 /\ queue[s][i] = d
  BY <1>2 DEF QueueOrder
<1>. QED  BY <1>1, <1>2, <1>3

----------------------------------------------------------------------------
(* What follows for the worker's promises *)

\* A pass that missed or panicked leaves none of its placeholders behind,
\* whatever it missed and however often it is retried.
THEOREM PlaceholdersGone == Spec => []NoPlaceholderKept
<1>1. Init => NoPlaceholderKept
  BY DEF Init, NoPlaceholderKept
<1>2. IInv /\ NoPlaceholderKept /\ [Next]_vars => NoPlaceholderKept'
  BY PlaceholderStep DEF IInv
<1>. QED  BY <1>1, <1>2, Inductive, PTL DEF Spec

\* attempt's promise: no answer, Ok or rejected, rests on a placeholder.
THEOREM UpstreamAnswers == Spec => []AnswersFromUpstream
<1>1. Init => AnswersFromUpstream
  BY DEF Init, AnswersFromUpstream, NoCall
<1>2. IInv /\ NoPlaceholderKept /\ AnswersFromUpstream /\ [Next]_vars => AnswersFromUpstream'
  BY AnswerStep DEF IInv
<1>. QED  BY <1>1, <1>2, Inductive, PlaceholdersGone, PTL DEF Spec

\* An advance commits once if it is answered Ok and never otherwise, however
\* many passes it took and whichever of them missed.
THEOREM CommitsOnce == Spec => []CommitOnce
<1>1. Init => CommitOnce
  BY DEF Init, CommitOnce, NoCall
<1>2. IInv /\ CommitOnce /\ [Next]_vars => CommitOnce'
  BY CommitStep DEF IInv
<1>. QED  BY <1>1, <1>2, Inductive, PTL DEF Spec

\* active_session_count: every worker's count is of its live sessions, in every
\* state another thread can read it in.
THEOREM CountsFresh == Spec => []CountFresh
<1>1. Init => CountFresh
  <2>1. \A w : {s \in {} : WorkerOf(s) = w} = {}
    OBVIOUS
  <2>. QED  BY <2>1, FS_EmptySet DEF Init, CountFresh, CountOf
<1>2. IInv /\ CountFresh /\ [Next]_vars => CountFresh'
  BY CountStep DEF IInv
<1>. QED  BY <1>1, <1>2, Inductive, PTL DEF Spec

----------------------------------------------------------------------------
(* The pool implements SessionJobs *)

\* What SessionJobs sees of a caller's job.
JobOf(r, k) == [st |-> r.st, op |-> r.op, id |-> r.id, commits |-> k]
AllJobs == [c \in Callers |-> JobOf(call[c], commits[c])]
jobVars == <<0 .. nextId - 1, live, AllJobs, ahead>>

\* Instantiating AllJobs for the abstract specification's job.
LEMMA JobsShape ==
  ASSUME TypeOK
  PROVE  /\ AllJobs = [c \in Callers |-> [st |-> call[c].st, op |-> call[c].op,
                                          id |-> call[c].id, commits |-> commits[c]]]
         /\ AllJobs' = [c \in Callers |-> JobOf(call'[c], commits'[c])]
         /\ \A c \in Callers : /\ AllJobs[c].st = call[c].st /\ AllJobs[c].op = call[c].op
                               /\ AllJobs[c].id = call[c].id /\ AllJobs[c].commits = commits[c]
BY DEF AllJobs, JobOf

\* A job that is sent goes behind the unanswered ones of its session.
LEMMA PostSends ==
  ASSUME TypeOK, NEW c \in Callers, NEW op \in AllOps, NEW s \in Sessions, NEW r \in SUBSET Keys,
         Post(c, op, s, r)
  PROVE  Jobs!Send(c, op, s)
<1>. DEFINE new == [st |-> "sent", op |-> op, id |-> s, commits |-> 0]
            posted == [NoCall EXCEPT !.st = "sent", !.op = op, !.id = s, !.reads = r, !.made = call[c].made]
<1>1. call' = [call EXCEPT ![c] = posted] /\ commits' = [commits EXCEPT ![c] = 0]
  BY DEF Post
<1>2. JobOf(posted, 0) = new
  BY DEF JobOf, NoCall
<1>3. /\ call'[c] = posted /\ commits'[c] = 0
      /\ \A d \in Callers : d # c => call'[d] = call[d] /\ commits'[d] = commits[d]
  BY <1>1 DEF TypeOK
<1>. HIDE DEF posted, new
<1>4. AllJobs' = [AllJobs EXCEPT ![c] = new]
  <2>1. AllJobs' = [d \in Callers |-> JobOf(call'[d], commits'[d])]
    BY DEF AllJobs
  <2>2. [AllJobs EXCEPT ![c] = new] = [d \in Callers |-> IF d = c THEN new ELSE JobOf(call[d], commits[d])]
    BY DEF AllJobs
  <2>. QED  BY <1>2, <1>3, <2>1, <2>2
<1>5. Outstanding(s) = {d \in Callers : AllJobs[d].st = "sent" /\ AllJobs[d].id = s}
  BY JobsShape DEF Outstanding
<1>. QED  BY <1>4, <1>5 DEF Post, Jobs!Send, AllJobs, JobOf, new

\* What a caller asks for is a job on an id, or opens an id nobody was given.
LEMMA CallerAsks ==
  ASSUME TypeOK, NEW c \in Callers, Caller(c)
  PROVE  Jobs!Next
<1>0. nextId \in Nat /\ (nextId < MaxSessions => nextId \in Sessions)
  BY WorkerAssumption DEF TypeOK, Sessions
<1>1. AllJobs[c].st = call[c].st
  BY JobsShape
<1>2. ASSUME NEW op \in Ops, NEW s \in Sessions, NEW r \in SUBSET Keys, Submit(c, op, s, r)
      PROVE  Jobs!Ask(c, op, s)
  <2>1. op \in AllOps /\ op \notin Creating /\ call[c].st = "idle" /\ Post(c, op, s, r) /\ nextId' = nextId
    BY <1>2, WorkerAssumption DEF Submit
  <2>2. Jobs!Send(c, op, s)
    BY <2>1, PostSends
  <2>. QED  BY <1>1, <2>1, <2>2 DEF Jobs!Ask, AllJobs, JobOf
<1>3. ASSUME NEW op \in Creating, NEW s \in Sessions, s = nextId, Post(c, op, s, {}), nextId' = nextId + 1,
             call[c].st = IF op = "adopt" THEN "branched" ELSE "idle"
      PROVE  Jobs!Open(c, op, s)
  <2>1. Jobs!Send(c, op, s)
    <3>1. op \in AllOps /\ {} \in SUBSET Keys
      BY <1>3 DEF AllOps
    <3>. QED  BY <1>3, <3>1, PostSends
  <2>2. s \notin 0 .. nextId - 1 /\ 0 .. nextId' - 1 = (0 .. nextId - 1) \cup {s}
    BY <1>0, <1>3
  <2>. QED  BY <1>1, <1>3, <2>1, <2>2 DEF Jobs!Open, AllJobs, JobOf
<1>4. CASE Fork(c)
  <2>1. PICK s \in Sessions : s = nextId
    BY <1>0, <1>4 DEF Fork
  <2>2. Jobs!Open(c, "fork", s)
    BY <1>3, <1>4, <2>1 DEF Fork, Creating
  <2>. QED  BY <2>2 DEF Jobs!Next, Creating
<1>5. CASE Adopt(c)
  <2>1. PICK s \in Sessions : s = nextId
    BY <1>0, <1>5 DEF Adopt
  <2>2. Jobs!Open(c, "adopt", s)
    BY <1>3, <1>5, <2>1 DEF Adopt, Creating
  <2>. QED  BY <2>2 DEF Jobs!Next, Creating
<1>6. CASE Return(c)
  <2>1. /\ call' = [call EXCEPT ![c] = NoCall] /\ commits' = [commits EXCEPT ![c] = 0]
        /\ UNCHANGED <<nextId, live, ahead>>
        /\ call[c].st \in {"ok", "err", "unknown", "gone", "branched"}
    BY <1>6 DEF Return, Answered, sessionVars
  <2>2. AllJobs' = [AllJobs EXCEPT ![c] = Jobs!NoJob]
    BY <2>1 DEF TypeOK, AllJobs, JobOf, NoCall, Jobs!NoJob
  <2>3. Jobs!Return(c)
    BY <1>1, <2>1, <2>2 DEF Jobs!Return, AllJobs, JobOf
  <2>. QED  BY <2>3 DEF Jobs!Next
<1>7. ASSUME NEW op \in Ops, NEW s \in Sessions, NEW r \in SUBSET Keys, Submit(c, op, s, r)
      PROVE  Jobs!Next
  BY <1>2, <1>7 DEF Jobs!Next
<1>. QED  BY <1>4, <1>5, <1>6, <1>7 DEF Caller

\* A reply is the one moment a job takes effect, with nothing of its session
\* left before it.
LEMMA ReplyAnswers ==
  ASSUME TypeOK, QueueOK, QueueOrder, HeldAtMostOnce, CommitOnce,
         NEW w \in Workers, NEW s \in Sessions, NEW c \in Callers,
         NEW o \in {"ok", "err", "unknown", "branched"}, NEW m,
         Front(w, s, c),
         Reply(w, s, c, o, m), commits' = [commits EXCEPT ![c] = commits[c] + Owed(call[c].op, o)],
         Jobs!Effect(call[c].op, s, o)
  PROVE  Jobs!Next
<1>. DEFINE k == Owed(call[c].op, o)
            r == [call[c] EXCEPT !.st = o, !.made = m]
            ended == [st |-> o, op |-> call[c].op, id |-> s, commits |-> k]
<1>1. call' = [call EXCEPT ![c] = r] /\ nextId' = nextId /\ ahead' = [d \in Callers |-> ahead[d] \ {c}]
  BY DEF Reply
<1>2. call[c] \in CallType /\ call[c].st = "sent" /\ call[c].id = s
  <2>1. queue[s] \in Seq(Callers) /\ queue[s] # <<>> /\ queue[s][1] = c
    BY DEF TypeOK, Front
  <2>. QED  BY <2>1 DEF TypeOK, QueueOK
<1>3. commits' = [commits EXCEPT ![c] = k]
  <2>1. commits[c] = 0
    BY <1>2 DEF CommitOnce
  <2>2. 0 + k = k
    BY DEF Owed
  <2>. QED  BY <2>1, <2>2
<1>4. JobOf(r, k) = ended
  <2>1. r.st = o /\ r.op = call[c].op /\ r.id = s
    BY <1>2 DEF CallType
  <2>. HIDE DEF r, k
  <2>. QED  BY <2>1 DEF JobOf
<1>5. AllJobs' = [AllJobs EXCEPT ![c] = ended]
  <2>1. /\ call'[c] = r /\ commits'[c] = k
        /\ \A d \in Callers : d # c => call'[d] = call[d] /\ commits'[d] = commits[d]
    BY <1>1, <1>3 DEF TypeOK
  <2>2. AllJobs' = [d \in Callers |-> JobOf(call'[d], commits'[d])]
    BY DEF AllJobs
  <2>3. [AllJobs EXCEPT ![c] = ended] = [d \in Callers |-> IF d = c THEN ended ELSE JobOf(call[d], commits[d])]
    BY DEF AllJobs
  <2>. HIDE DEF r, ended
  <2>. QED  BY <1>4, <2>1, <2>2, <2>3
<1>6. ahead[c] = {}
  BY FrontTurn
<1>7. AllJobs[c].st = "sent" /\ AllJobs[c].op = call[c].op /\ AllJobs[c].id = s
  BY <1>2, JobsShape
<1>8. AllJobs' = [AllJobs EXCEPT ![c].st = o,
                  ![c].commits = IF AllJobs[c].op = "advance" /\ o = "ok" THEN 1 ELSE 0]
  <2>. HIDE DEF AllJobs
  <2>1. AllJobs \in [Callers -> [st : {call[d].st : d \in Callers}, op : {call[d].op : d \in Callers},
                                 id : {call[d].id : d \in Callers}, commits : {commits[d] : d \in Callers}]]
    BY DEF AllJobs, JobOf
  <2>. QED  BY <1>5, <1>7, <2>1 DEF Owed
<1>9. Jobs!Answer(c, o)
  BY <1>1, <1>6, <1>7, <1>8 DEF Jobs!Answer, AllJobs, JobOf
<1>. QED  BY <1>9 DEF Jobs!Next

\* However a job is run, what it is answered and leaves is its effect.
LEMMA RunAnswers ==
  ASSUME TypeOK, QueueOK, QueueOrder, HeldAtMostOnce, CommitOnce,
         NEW w \in Workers, NEW s \in Sessions, NEW c \in Callers,
         \/ RunUnknown(w, s, c)
         \/ RunCreate(w, s, c)
         \/ RunDiscard(w, s, c)
         \/ RunDirect(w, s, c)
         \/ \E o \in {"ok", "err"} : RunClean(w, s, c, o)
         \/ \E g, f \in SUBSET Keys, o \in {"ok", "err"} : RunBlocking(w, s, c, g, f, o)
  PROVE  Jobs!Next
<1>1. PICK o \in Answered \cup {"branched"}, m \in SUBSET MadeUp :
        /\ Front(w, s, c) /\ Reply(w, s, c, o, m) /\ Outcome(w, s, c, o, m)
        /\ commits' = [commits EXCEPT ![c] = commits[c] + Owed(call[c].op, o)]
  BY RunCommits
<1>2. call'[c].st = o
  <2>1. call' = [call EXCEPT ![c] = [call[c] EXCEPT !.st = o, !.made = m]]
    BY <1>1 DEF Reply
  <2>. QED  BY <2>1 DEF TypeOK, CallType
<1>3. o \in {"ok", "err", "unknown", "branched"} /\ Jobs!Effect(call[c].op, s, o)
  <2>1. ASSUME NEW p, NEW r, Reply(w, s, c, p, r) PROVE o = p
    <3>1. call' = [call EXCEPT ![c] = [call[c] EXCEPT !.st = p, !.made = r]]
      BY <2>1 DEF Reply
    <3>. QED  BY <1>2, <3>1 DEF TypeOK, CallType
  <2>2. CASE RunUnknown(w, s, c)
    BY <2>1, <2>2 DEF RunUnknown, Jobs!Effect
  <2>3. CASE RunCreate(w, s, c)
    BY <2>1, <2>3 DEF RunCreate, Jobs!Effect, Creating
  <2>4. CASE RunDiscard(w, s, c)
    BY <2>1, <2>4 DEF RunDiscard, Jobs!Effect
  <2>5. CASE RunDirect(w, s, c)
    BY <2>1, <2>5 DEF RunDirect, Jobs!Effect, Creating
  <2>6. ASSUME FrontRead(w, s, c), live' = live, NEW p \in {"ok", "err"}
        PROVE  Jobs!Effect(call[c].op, s, p)
    BY <2>6 DEF FrontRead, Jobs!Effect, Reading, Creating
  <2>7. ASSUME NEW p \in {"ok", "err"},
               \/ RunClean(w, s, c, p)
               \/ \E g, f \in SUBSET Keys : RunBlocking(w, s, c, g, f, p)
        PROVE  o \in {"ok", "err"} /\ Jobs!Effect(call[c].op, s, o)
    BY <2>1, <2>6, <2>7 DEF RunClean, RunBlocking
  <2>. QED  BY <2>2, <2>3, <2>4, <2>5, <2>7
<1>. QED  BY <1>1, <1>3, ReplyAnswers

\* A panic drops a queue, with it all that came before any job in it.
LEMMA PanicDrops ==
  ASSUME TypeOK, QueueOK, QueueOrder,
         NEW w \in Workers, NEW s \in Sessions, NEW c \in Callers, NEW l, RunPanic(w, s, c, l)
  PROVE  Jobs!Next
<1>. DEFINE lost == {queue[s][i] : i \in DOMAIN queue[s]}
<1>1. queue[s] \in Seq(Callers) /\ lost \in SUBSET Callers
  BY DEF TypeOK
<1>2. \A d \in lost : AllJobs[d].st = "sent" /\ AllJobs[d].id = s /\ ahead[d] \subseteq lost
  <2>. SUFFICES ASSUME NEW i \in DOMAIN queue[s]
                PROVE  LET d == queue[s][i] IN
                       AllJobs[d].st = "sent" /\ AllJobs[d].id = s /\ ahead[d] \subseteq lost
    OBVIOUS
  <2>1. queue[s][i] \in Callers /\ call[queue[s][i]].st = "sent" /\ call[queue[s][i]].id = s
    BY <1>1 DEF QueueOK
  <2>2. \A e \in ahead[queue[s][i]] : \E j \in DOMAIN queue[s] : j < i /\ queue[s][j] = e
    BY DEF QueueOrder
  <2>. QED  BY <2>1, <2>2, JobsShape
<1>3. /\ call' = [d \in Callers |-> IF d \in lost THEN [call[d] EXCEPT !.st = "gone"] ELSE call[d]]
      /\ ahead' = [d \in Callers |-> ahead[d] \ lost] /\ UNCHANGED <<nextId, live, commits>>
  BY DEF RunPanic
<1>4. \A d \in Callers : JobOf([call[d] EXCEPT !.st = "gone"], commits[d])
                       = [JobOf(call[d], commits[d]) EXCEPT !.st = "gone"]
  <2>. SUFFICES ASSUME NEW d \in Callers
                PROVE  JobOf([call[d] EXCEPT !.st = "gone"], commits[d])
                       = [JobOf(call[d], commits[d]) EXCEPT !.st = "gone"]
    OBVIOUS
  <2>1. call[d] \in CallType
    BY DEF TypeOK
  <2>. QED  BY <2>1 DEF CallType, JobOf
<1>. HIDE DEF lost
<1>5. AllJobs' = [d \in Callers |-> IF d \in lost THEN [AllJobs[d] EXCEPT !.st = "gone"] ELSE AllJobs[d]]
  BY <1>3, <1>4 DEF AllJobs
<1>6. PICK gone \in SUBSET Callers : gone = lost
  BY <1>1
<1>7. Jobs!Drop(s, gone)
  BY <1>2, <1>3, <1>5, <1>6 DEF Jobs!Drop, AllJobs, JobOf
<1>. QED  BY <1>7 DEF Jobs!Next

\* Every step of the pool is one of SessionJobs, or does not show there.
LEMMA JobsStep ==
  ASSUME IInv, Ordered, CommitOnce, [Next]_vars
  PROVE  [Jobs!Next]_jobVars
<1>0. TypeOK /\ QueueOK /\ HeldAtMostOnce /\ QueueOrder
  BY DEF IInv, Ordered
<1>1. UNCHANGED <<nextId, live, call, commits, ahead>> => UNCHANGED jobVars
  BY DEF jobVars, AllJobs
<1>2. ASSUME NEW w \in Workers, Receive(w) \/ RunEnd(w) PROVE UNCHANGED <<nextId, live, call, commits, ahead>>
  BY <1>2, Zenon DEF Receive, RunEnd, sessionVars
<1>3. ASSUME NEW w \in Workers, NEW s \in Sessions, NEW c \in Callers, NEW m, RunDirty(w, s, c, m)
      PROVE  UNCHANGED <<nextId, live, call, commits, ahead>>
  BY <1>3, ExecuteNothing DEF RunDirty
<1>4. ASSUME NEW s \in Sessions, Resolver(s) PROVE UNCHANGED <<nextId, live, call, commits, ahead>>
  BY <1>4 DEF Resolver, ResolveKey, ResolveEnd, sessionVars
<1>5. Tick \/ UNCHANGED vars => UNCHANGED <<nextId, live, call, commits, ahead>>
  BY DEF Tick, vars, sessionVars
<1>6. ASSUME NEW w \in Workers, Sweep(w) PROVE Jobs!Next
  <2>1. Expired(w) \in SUBSET live
    BY DEF Expired
  <2>2. Jobs!Expire(Expired(w))
    BY <1>6 DEF Sweep, Jobs!Expire
  <2>. QED  BY <2>1, <2>2 DEF Jobs!Next
<1>7. ASSUME NEW c \in Callers, Caller(c) PROVE Jobs!Next
  BY <1>0, <1>7, CallerAsks
<1>8. ASSUME NEW w \in Workers, RunLocal(w) \/ RunWaiting(w)
      PROVE  Jobs!Next \/ UNCHANGED <<nextId, live, call, commits, ahead>>
  <2>1. ASSUME NEW s \in Sessions, NEW c \in Callers, NEW l, RunPanic(w, s, c, l) PROVE Jobs!Next
    BY <1>0, <2>1, PanicDrops
  <2>2. ASSUME NEW s \in Sessions, NEW c \in Callers,
               \/ RunUnknown(w, s, c)
               \/ RunCreate(w, s, c)
               \/ RunDiscard(w, s, c)
               \/ RunDirect(w, s, c)
               \/ \E o \in {"ok", "err"} : RunClean(w, s, c, o)
               \/ \E g, f \in SUBSET Keys, o \in {"ok", "err"} : RunBlocking(w, s, c, g, f, o)
        PROVE  Jobs!Next
    BY <1>0, <2>2, RunAnswers
  <2>. QED  BY <1>2, <1>3, <1>8, <2>1, <2>2, Zenon DEF RunLocal, RunWaiting
<1>. QED
  BY <1>1, <1>2, <1>4, <1>5, <1>6, <1>7, <1>8, Zenon DEF Next

\* The worker pool implements SessionJobs: a job takes effect at one moment, in
\* the order its session's jobs were sent, even while one of them waits on
\* upstream, and a job that a panic drops has had no effect.
THEOREM InTurn == Spec => TakesEffectInTurn
<1>1. Init => Jobs!Init
  <2> SUFFICES ASSUME Init PROVE Jobs!Init
    OBVIOUS
  <2>1. 0 .. nextId - 1 = {}
    BY DEF Init
  <2>2. AllJobs = [c \in Callers |-> Jobs!NoJob]
    BY DEF Init, AllJobs, JobOf, NoCall, Jobs!NoJob
  <2>. QED  BY <2>1, <2>2 DEF Init, Jobs!Init, AllJobs, JobOf
<1>2. IInv /\ Ordered /\ CommitOnce /\ [Next]_vars =>
        [Jobs!Next]_<<0 .. nextId - 1, live,
                      [c \in Callers |-> [st |-> call[c].st, op |-> call[c].op, id |-> call[c].id,
                                          commits |-> commits[c]]], ahead>>
  BY JobsStep DEF jobVars, AllJobs, JobOf
<1>. QED
  BY <1>1, <1>2, InitOrdered, OrderedStep, Inductive, CommitsOnce, PTL
     DEF Spec, TakesEffectInTurn, Jobs!Spec
=============================================================================
