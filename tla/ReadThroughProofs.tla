------------------------- MODULE ReadThroughProofs -------------------------
(***************************************************************************)
(* Proofs about ReadThrough, for any number of resolver threads and keys:  *)
(* every flight lands, upstream is asked once per miss, and resolve keeps  *)
(* the promise of Resolve.                                                 *)
(***************************************************************************)
EXTENDS ReadThrough, TLAPS

\* The bounds are naturals.
LEMMA Bounds ==
  /\ 0 \in 0 .. MaxErrors /\ 0 \in 0 .. MaxRetries
  /\ \A n \in 0 .. MaxErrors : n < MaxErrors => n + 1 \in 0 .. MaxErrors
  /\ \A n \in 0 .. MaxRetries : n < MaxRetries => n + 1 \in 0 .. MaxRetries
BY ReadThroughAssumption

\* Every step is one of these.
LEMMA StepCases ==
  ASSUME [Next]_vars
  PROVE  \/ \E t \in Threads, keys \in SUBSET Keys : Call(t, keys)
         \/ \E t \in Threads : Claim(t)
         \/ \E t \in Threads : Prepare(t)
         \/ \E t \in Threads : Send(t)
         \/ \E t \in Threads, k \in Keys : Arrive(t, k)
         \/ \E t \in Threads : BatchDone(t)
         \/ \E t \in Threads, k \in Keys : ReadHash(t, k)
         \/ \E t \in Threads : Fetched(t)
         \/ \E t \in Threads : Refused(t)
         \/ \E t \in Threads : Fail(t)
         \/ \E t \in Threads : Wake(t)
         \/ \E k \in Keys : Read(k)
         \/ UNCHANGED vars
BY DEF Next, Step

----------------------------------------------------------------------------
(* Types *)

\* What Land does to the types.
LEMMA LandType ==
  ASSUME TypeOK, NEW t \in Threads, NEW held, held \subseteq Keys \X Threads, Land(t, held)
  PROVE  /\ flight' \in [Keys -> Threads \cup {NoThread}]
         /\ theirs' \in [Threads -> SUBSET (Keys \X Threads)]
         /\ mine' \in [Threads -> SUBSET Keys]
BY DEF Land, TypeOK

\* What a call's going on or ending does to the types.
LEMMA PhaseType ==
  ASSUME TypeOK, NEW t \in Threads,
         \/ \E phase \in Phases : GoTo(t, phase)
         \/ \E outcome \in {"ok", "err"} : Return(t, outcome)
  PROVE  /\ pc' \in [Threads -> Phases]
         /\ wanted' \in [Threads -> SUBSET Keys]
         /\ result' \in [Threads -> {"none", "ok", "err"}]
BY DEF GoTo, Return, TypeOK, Phases

\* What losing a request does to the types.
LEMMA LoseType ==
  ASSUME TypeOK, NEW t \in Threads, Lose(t)
  PROVE  /\ errors' \in 0 .. MaxErrors
         /\ asks' \in [Keys -> Nat] /\ missed' \in [Keys -> Nat]
         /\ asked' \in [Threads -> SUBSET Keys]
<1>1. errors' \in 0 .. MaxErrors
  BY Bounds DEF Lose, TypeOK
<1>2. asks' \in [Keys -> Nat] /\ missed' \in [Keys -> Nat]
  BY DEF Lose, TypeOK
<1>. QED  BY <1>1, <1>2 DEF Lose, TypeOK

\* Every step keeps the types.
LEMMA TypeStep == TypeOK /\ [Next]_vars => TypeOK'
<1> SUFFICES ASSUME TypeOK, [Next]_vars PROVE TypeOK'
  OBVIOUS
<1>1. ASSUME NEW t \in Threads, NEW keys \in SUBSET Keys, Call(t, keys) PROVE TypeOK'
  BY <1>1 DEF Call, TypeOK, Phases, history
<1>2. ASSUME NEW t \in Threads, Claim(t) PROVE TypeOK'
  <2>1. Free(t) \subseteq Keys
    BY DEF Free, TypeOK
  <2>2. PICK busy : /\ busy = (wanted[t] \ cached) \ Free(t)
                    /\ mine' = [mine EXCEPT ![t] = Free(t)]
                    /\ theirs' = [theirs EXCEPT ![t] = {<<k, flight[k]>> : k \in busy}]
                    /\ shared' = [shared EXCEPT ![t] = busy # {}]
                    /\ flight' = [k \in Keys |-> IF k \in Free(t) THEN t ELSE flight[k]]
                    /\ \/ GoTo(t, "ready")
                       \/ GoTo(t, "wait")
                       \/ Return(t, "ok")
    BY <1>2 DEF Claim
  <2>3. \A k \in busy : k \in Keys /\ flight[k] \in Threads
    BY <2>2 DEF Free, TypeOK
  <2>4. {<<k, flight[k]>> : k \in busy} \in SUBSET (Keys \X Threads)
    BY <2>3
  <2>5. theirs' \in [Threads -> SUBSET (Keys \X Threads)]
    BY <2>2, <2>4 DEF TypeOK
  <2>6. mine' \in [Threads -> SUBSET Keys] /\ flight' \in [Keys -> Threads \cup {NoThread}]
    BY <2>1, <2>2 DEF TypeOK
  <2>7. shared' \in [Threads -> BOOLEAN]
    <3>1. (busy # {}) \in BOOLEAN  OBVIOUS
    <3>. QED  BY <2>2, <3>1, Zenon DEF TypeOK
  <2>8. /\ pc' \in [Threads -> Phases] /\ wanted' \in [Threads -> SUBSET Keys]
        /\ result' \in [Threads -> {"none", "ok", "err"}]
    BY <2>2, PhaseType DEF Phases
  <2>9. /\ attempt' \in [Threads -> 0 .. MaxRetries]
        /\ UNCHANGED <<cached, asked, errors, asks, missed>>
    BY <1>2, Bounds DEF Claim, TypeOK, history
  <2>. QED  BY <2>5, <2>6, <2>7, <2>8, <2>9 DEF TypeOK
<1>3. ASSUME NEW t \in Threads, Prepare(t) PROVE TypeOK'
  BY <1>3 DEF Prepare, Missing, TypeOK, Phases, history
<1>4. ASSUME NEW t \in Threads, Send(t) PROVE TypeOK'
  BY <1>4 DEF Send, TypeOK, Phases
<1>5. ASSUME NEW t \in Threads, NEW k \in Keys, Arrive(t, k) PROVE TypeOK'
  BY <1>5 DEF Arrive, TypeOK, history
<1>6. ASSUME NEW t \in Threads, BatchDone(t) PROVE TypeOK'
  BY <1>6 DEF BatchDone, TypeOK, Phases, history
<1>7. ASSUME NEW t \in Threads, NEW k \in Keys, ReadHash(t, k) PROVE TypeOK'
  BY <1>7 DEF ReadHash, TypeOK
<1>8. ASSUME NEW t \in Threads, Fetched(t) PROVE TypeOK'
  <2>1. theirs[t] \subseteq Keys \X Threads
    BY DEF TypeOK
  <2>2. /\ Land(t, theirs[t])
        /\ Return(t, "ok") \/ GoTo(t, "wait")
        /\ UNCHANGED <<cached, shared, asked, attempt, errors, asks, missed>>
    BY <1>8 DEF Fetched, history
  <2>3. "wait" \in Phases
    BY DEF Phases
  <2>. QED  BY <2>1, <2>2, <2>3, LandType, PhaseType DEF TypeOK
<1>9. ASSUME NEW t \in Threads, Refused(t) PROVE TypeOK'
  <2>1. attempt' \in [Threads -> 0 .. MaxRetries]
    BY <1>9, Bounds DEF Refused, MayRetry, TypeOK
  <2>. QED  BY <1>9, <2>1, LoseType DEF Refused, TypeOK, Phases
<1>10. ASSUME NEW t \in Threads, Fail(t) PROVE TypeOK'
  <2>1. /\ Lose(t) /\ Land(t, {}) /\ Return(t, "err")
        /\ UNCHANGED <<cached, shared, attempt>>
    BY <1>10 DEF Fail
  <2>. QED  BY <2>1, LandType, LoseType, PhaseType DEF TypeOK
<1>11. ASSUME NEW t \in Threads, Wake(t) PROVE TypeOK'
  BY <1>11 DEF Wake, TypeOK, Phases, history
<1>12. ASSUME NEW k \in Keys, Read(k) PROVE TypeOK'
  BY <1>12 DEF Read, TypeOK, callVars, history
<1>13. CASE UNCHANGED vars
  BY <1>13 DEF vars, callVars, history, TypeOK
<1>. QED
  BY <1>1, <1>2, <1>3, <1>4, <1>5, <1>6, <1>7, <1>8, <1>9, <1>10, <1>11, <1>12, <1>13, StepCases

----------------------------------------------------------------------------
(* Every flight lands *)

\* Land ends exactly the thread's own flights, and nobody waits for them on.
LEMMA LandFlights ==
  ASSUME TypeOK, FlightsLand, NEW t \in Threads, NEW held,
         held \in {theirs[t], {}}, Land(t, held), pc' \in [Threads -> Phases],
         \A u \in Threads : u # t => pc'[u] = pc[u]
  PROVE  FlightsLand'
<1>1. mine' = [mine EXCEPT ![t] = {}]
  BY DEF Land
<1>2. \A k \in Keys : flight'[k] = IF k \in mine[t] THEN NoThread ELSE flight[k]
  BY DEF Land
<1>3. ASSUME NEW k \in Keys, NEW u \in Threads PROVE flight'[k] = u <=> k \in mine'[u]
  <2>1. CASE u = t
    BY <1>1, <1>2, <2>1, ReadThroughAssumption DEF TypeOK, FlightsLand
  <2>2. CASE u # t
    BY <1>1, <1>2, <2>2, ReadThroughAssumption DEF TypeOK, FlightsLand
  <2>. QED  BY <2>1, <2>2
<1>4. ASSUME NEW u \in Threads, mine'[u] # {} PROVE pc'[u] \in Fetching
  BY <1>1, <1>4 DEF TypeOK, FlightsLand
<1>5. ASSUME NEW u \in Threads, NEW f \in theirs'[u] PROVE f[2] # u /\ flight'[f[1]] = f[2]
  <2>1. f \in theirs[u] /\ f[2] # t
    BY <1>5 DEF Land
  <2>2. f[1] \in Keys /\ f[2] \in Threads /\ f[2] # u /\ flight[f[1]] = f[2]
    BY <2>1 DEF TypeOK, FlightsLand
  <2>3. f[1] \notin mine[t]
    BY <2>1, <2>2 DEF FlightsLand
  <2>. QED  BY <1>2, <2>2, <2>3
<1>. QED  BY <1>3, <1>4, <1>5 DEF FlightsLand

\* A flight is its owner's from the claim to the landing.
LEMMA FlightsStep == TypeOK /\ FlightsLand /\ [Next]_vars => FlightsLand'
<1> SUFFICES ASSUME TypeOK, FlightsLand, [Next]_vars PROVE FlightsLand'
  OBVIOUS
<1>0. TypeOK'
  BY TypeStep
<1>1. ASSUME NEW t \in Threads, UNCHANGED <<flight, mine, theirs>>,
             mine[t] # {} => pc'[t] \in Fetching,
             \A u \in Threads : u # t => pc'[u] = pc[u]
      PROVE  FlightsLand'
  BY <1>1 DEF FlightsLand
<1>2. ASSUME NEW t \in Threads, Claim(t) PROVE FlightsLand'
  <2>. DEFINE busy == (wanted[t] \ cached) \ Free(t)
  <2>1. /\ mine' = [mine EXCEPT ![t] = Free(t)]
        /\ theirs' = [theirs EXCEPT ![t] = {<<k, flight[k]>> : k \in busy}]
        /\ flight' = [k \in Keys |-> IF k \in Free(t) THEN t ELSE flight[k]]
        /\ pc[t] = "claim"
    BY <1>2 DEF Claim
  <2>2. \A u \in Threads : u # t => pc'[u] = pc[u]
    BY <1>2 DEF Claim, GoTo, Return, TypeOK
  <2>3. Free(t) # {} => pc'[t] = "ready"
    BY <1>2 DEF Claim, GoTo, TypeOK
  <2>4. mine[t] = {}
    BY <2>1 DEF FlightsLand, Fetching
  <2>5. Free(t) \subseteq Keys /\ \A k \in Free(t) : flight[k] = NoThread
    BY DEF Free, TypeOK
  <2>6. \A k \in busy : k \in Keys /\ flight[k] \in Threads /\ k \notin Free(t)
    BY DEF Free, TypeOK
  <2>7. ASSUME NEW k \in Keys, NEW u \in Threads PROVE flight'[k] = u <=> k \in mine'[u]
    <3>1. CASE u = t
      BY <2>1, <2>4, <3>1 DEF TypeOK, FlightsLand
    <3>2. CASE u # t
      <4>1. mine'[u] = mine[u]
        BY <2>1, <3>2 DEF TypeOK
      <4>2. CASE k \in Free(t)
        BY <2>1, <2>5, <3>2, <4>1, <4>2, ReadThroughAssumption DEF FlightsLand
      <4>3. CASE k \notin Free(t)
        BY <2>1, <4>1, <4>3 DEF FlightsLand
      <4>. QED  BY <4>2, <4>3
    <3>. QED  BY <3>1, <3>2
  <2>8. ASSUME NEW u \in Threads, mine'[u] # {} PROVE pc'[u] \in Fetching
    BY <2>1, <2>2, <2>3, <2>8 DEF TypeOK, FlightsLand, Fetching
  <2>9. ASSUME NEW u \in Threads, NEW f \in theirs'[u] PROVE f[2] # u /\ flight'[f[1]] = f[2]
    <3>1. CASE u = t
      <4>1. PICK k \in busy : f = <<k, flight[k]>>
        BY <2>1, <2>9, <3>1 DEF TypeOK
      <4>2. k \in Keys /\ flight[k] \in Threads /\ k \notin Free(t)
        BY <2>6
      <4>3. flight[k] # t
        BY <2>4, <4>2 DEF FlightsLand
      <4>. QED  BY <2>1, <3>1, <4>1, <4>2, <4>3
    <3>2. CASE u # t
      <4>1. f \in theirs[u]
        BY <2>1, <2>9, <3>2 DEF TypeOK
      <4>2. f[1] \in Keys /\ f[2] \in Threads /\ f[2] # u /\ flight[f[1]] = f[2]
        BY <4>1 DEF TypeOK, FlightsLand
      <4>3. f[1] \notin Free(t)
        BY <2>5, <4>2, ReadThroughAssumption
      <4>. QED  BY <2>1, <4>2, <4>3
    <3>. QED  BY <3>1, <3>2
  <2>. QED  BY <2>7, <2>8, <2>9 DEF FlightsLand
<1>3. ASSUME NEW t \in Threads, Fetched(t) PROVE FlightsLand'
  <2>1. Land(t, theirs[t]) /\ \A u \in Threads : u # t => pc'[u] = pc[u]
    BY <1>3 DEF Fetched, GoTo, Return, TypeOK
  <2>. QED  BY <1>0, <2>1, LandFlights DEF TypeOK
<1>4. ASSUME NEW t \in Threads, Fail(t) PROVE FlightsLand'
  <2>1. Land(t, {}) /\ \A u \in Threads : u # t => pc'[u] = pc[u]
    BY <1>4 DEF Fail, Return, TypeOK
  <2>. QED  BY <1>0, <2>1, LandFlights DEF TypeOK
<1>5. ASSUME NEW t \in Threads, NEW keys \in SUBSET Keys, Call(t, keys) PROVE FlightsLand'
  <2>1. mine[t] = {}
    BY <1>5 DEF Call, FlightsLand, Fetching
  <2>. QED  BY <1>1, <1>5, <2>1 DEF Call, TypeOK
<1>6. ASSUME NEW t \in Threads, Prepare(t) PROVE FlightsLand'
  BY <1>1, <1>6 DEF Prepare, TypeOK, Fetching
<1>7. ASSUME NEW t \in Threads, Send(t) PROVE FlightsLand'
  BY <1>1, <1>7 DEF Send, TypeOK, Fetching
<1>8. ASSUME NEW t \in Threads, BatchDone(t) PROVE FlightsLand'
  BY <1>1, <1>8 DEF BatchDone, TypeOK, Fetching
<1>9. ASSUME NEW t \in Threads, Refused(t) PROVE FlightsLand'
  BY <1>1, <1>9 DEF Refused, TypeOK, Fetching
<1>10. ASSUME NEW t \in Threads, Wake(t) PROVE FlightsLand'
  <2>1. mine[t] = {}
    BY <1>10 DEF Wake, FlightsLand, Fetching
  <2>. QED  BY <1>1, <1>10, <2>1 DEF Wake, TypeOK
<1>11. ASSUME UNCHANGED <<flight, mine, theirs, pc>> PROVE FlightsLand'
  BY <1>11 DEF FlightsLand
<1>. QED
  <2>1. ASSUME NEW t \in Threads, NEW k \in Keys, Arrive(t, k) \/ ReadHash(t, k)
        PROVE UNCHANGED <<flight, mine, theirs, pc>>
    BY <2>1 DEF Arrive, ReadHash
  <2>2. ASSUME NEW k \in Keys, Read(k) PROVE UNCHANGED <<flight, mine, theirs, pc>>
    BY <2>2 DEF Read, callVars
  <2>3. UNCHANGED vars => UNCHANGED <<flight, mine, theirs, pc>>
    BY DEF vars, callVars
  <2>. QED
    BY <1>2, <1>3, <1>4, <1>5, <1>6, <1>7, <1>8, <1>9, <1>10, <1>11, <2>1, <2>2, <2>3, StepCases

----------------------------------------------------------------------------
(* Upstream is asked once per miss *)

\* A thread that is not t keeps what is its own.
Others(t) ==
  \A u \in Threads : u # t =>
    pc'[u] = pc[u] /\ mine'[u] = mine[u] /\ asked'[u] = asked[u]

\* A step of one thread leaves the others alone.
LEMMA StepOthers ==
  ASSUME TypeOK, NEW t \in Threads,
         \/ \E keys \in SUBSET Keys : Call(t, keys)
         \/ Claim(t)
         \/ Prepare(t)
         \/ Send(t)
         \/ BatchDone(t)
         \/ Fetched(t)
         \/ Refused(t)
         \/ Fail(t)
         \/ Wake(t)
         \/ \E k \in Keys : Arrive(t, k) \/ ReadHash(t, k)
  PROVE  Others(t)
BY DEF Others, TypeOK, Call, Claim, Prepare, Send, BatchDone, Fetched, Refused, Fail, Wake,
       Arrive, ReadHash, GoTo, Return, Land, Lose

\* The phase a step leaves its thread in, and what it claims and asks for there.
LEMMA AskedStep ==
  TypeOK /\ FlightsLand /\ AskedOK /\ [Next]_vars => AskedOK'
<1> SUFFICES ASSUME TypeOK, FlightsLand, AskedOK, [Next]_vars PROVE AskedOK'
  OBVIOUS
<1>. DEFINE Asked(t) == /\ asked[t] \subseteq mine[t]
                        /\ asked[t] # {} => pc[t] \in {"queued", "batch", "hashes"}
                        /\ pc[t] = "hashes" => asked[t] \subseteq Hashes
<1>1. ASSUME NEW t \in Threads, Others(t), Asked(t)' PROVE AskedOK'
  BY <1>1 DEF AskedOK, Others
<1>2. ASSUME NEW t \in Threads, NEW keys \in SUBSET Keys, Call(t, keys) PROVE AskedOK'
  <2>1. Asked(t)'
    BY <1>2 DEF Call, AskedOK, TypeOK
  <2>. QED  BY <1>1, <1>2, <2>1, StepOthers
<1>3. ASSUME NEW t \in Threads, Claim(t) PROVE AskedOK'
  <2>1. asked[t] = {} /\ asked' = asked
    BY <1>3 DEF Claim, AskedOK
  <2>. QED  BY <1>1, <1>3, <2>1, StepOthers
<1>4. ASSUME NEW t \in Threads, Prepare(t) PROVE AskedOK'
  <2>1. Asked(t)'
    BY <1>4 DEF Prepare, Missing, TypeOK
  <2>. QED  BY <1>1, <1>4, <2>1, StepOthers
<1>5. ASSUME NEW t \in Threads, Send(t) PROVE AskedOK'
  <2>1. Asked(t)'
    BY <1>5 DEF Send, AskedOK, TypeOK
  <2>. QED  BY <1>1, <1>5, <2>1, StepOthers
<1>6. ASSUME NEW t \in Threads, NEW k \in Keys, Arrive(t, k) PROVE AskedOK'
  <2>1. Asked(t)'
    BY <1>6 DEF Arrive, AskedOK, TypeOK
  <2>. QED  BY <1>1, <1>6, <2>1, StepOthers
<1>7. ASSUME NEW t \in Threads, BatchDone(t) PROVE AskedOK'
  <2>1. Asked(t)'
    BY <1>7 DEF BatchDone, AskedOK, TypeOK
  <2>. QED  BY <1>1, <1>7, <2>1, StepOthers
<1>8. ASSUME NEW t \in Threads, NEW k \in Keys, ReadHash(t, k) PROVE AskedOK'
  <2>1. Asked(t)'
    BY <1>8 DEF ReadHash, AskedOK, TypeOK
  <2>. QED  BY <1>1, <1>8, <2>1, StepOthers
<1>9. ASSUME NEW t \in Threads, Fetched(t) PROVE AskedOK'
  <2>1. asked'[t] = {}
    BY <1>9 DEF Fetched
  <2>. QED  BY <1>1, <1>9, <2>1, StepOthers
<1>10. ASSUME NEW t \in Threads, Refused(t) PROVE AskedOK'
  <2>1. asked'[t] = {}
    BY <1>10 DEF Refused, Lose, TypeOK
  <2>. QED  BY <1>1, <1>10, <2>1, StepOthers
<1>11. ASSUME NEW t \in Threads, Fail(t) PROVE AskedOK'
  <2>1. asked'[t] = {}
    BY <1>11 DEF Fail, Lose, TypeOK
  <2>. QED  BY <1>1, <1>11, <2>1, StepOthers
<1>12. ASSUME NEW t \in Threads, Wake(t) PROVE AskedOK'
  <2>1. Asked(t)'
    BY <1>12 DEF Wake, AskedOK, TypeOK
  <2>. QED  BY <1>1, <1>12, <2>1, StepOthers
<1>13. ASSUME UNCHANGED <<asked, mine, pc>> PROVE AskedOK'
  BY <1>13 DEF AskedOK
<1>. QED
  <2>1. ASSUME NEW k \in Keys, Read(k) PROVE UNCHANGED <<asked, mine, pc>>
    BY <2>1 DEF Read, callVars
  <2>2. UNCHANGED vars => UNCHANGED <<asked, mine, pc>>
    BY DEF vars, callVars
  <2>. QED
    BY <1>2, <1>3, <1>4, <1>5, <1>6, <1>7, <1>8, <1>9, <1>10, <1>11, <1>12, <1>13,
       <2>1, <2>2, StepCases

\* Nobody else asks for a key a thread has claimed.
LEMMA OneAsker ==
  ASSUME FlightsLand, AskedOK, NEW t \in Threads, NEW u \in Threads,
         NEW k \in Keys, k \in mine[t], k \in asked[u]
  PROVE  u = t
BY DEF FlightsLand, AskedOK

\* asks[k] grows only when k's last ask missed, or when nobody had asked.
LEMMA AsksStep ==
  TypeOK /\ FlightsLand /\ AskedOK /\ AsksOK /\ [Next]_vars => AsksOK'
<1> SUFFICES ASSUME TypeOK, FlightsLand, AskedOK, AsksOK, [Next]_vars PROVE AsksOK'
  OBVIOUS
<1>. DEFINE OnItsWay(k) == \E t \in Threads : pc[t] = "batch" /\ k \in asked[t] \ Hashes
            Owed(k) == \A t \in Threads : pc[t] = "queued" /\ k \in asked[t] \ Hashes => asks[k] <= missed[k]
            Asks(k) == /\ asks[k] <= missed[k] + 1
                       /\ asks[k] <= missed[k] \/ k \in cached \/ OnItsWay(k)
                       /\ Owed(k)
<1>0. \A k \in Keys : Asks(k) /\ asks[k] \in Nat /\ missed[k] \in Nat
  BY DEF AsksOK, TypeOK
<1>1. ASSUME UNCHANGED <<asks, missed>>, cached \subseteq cached',
             \A t \in Threads : pc'[t] = "queued" =>
               \/ pc[t] = "queued" /\ asked'[t] \subseteq asked[t]
               \/ \A k \in asked'[t] \ Hashes : asks[k] <= missed[k],
             \A t \in Threads : pc[t] = "batch" =>
               \A k \in asked[t] \ Hashes : k \in cached' \/ (pc'[t] = "batch" /\ k \in asked'[t])
      PROVE  AsksOK'
  <2>1. ASSUME NEW k \in Keys PROVE Asks(k)'
    <3>1. asks'[k] <= missed'[k] + 1
      BY <1>0, <1>1
    <3>2. Owed(k)'
      BY <1>0, <1>1
    <3>3. asks'[k] <= missed'[k] \/ k \in cached' \/ OnItsWay(k)'
      BY <1>0, <1>1
    <3>. QED  BY <3>1, <3>2, <3>3
  <2>. QED  BY <2>1 DEF AsksOK
<1>2. ASSUME NEW t \in Threads, Prepare(t) PROVE AsksOK'
  <2>1. ASSUME NEW k \in asked'[t] \ Hashes PROVE asks[k] <= missed[k]
    <3>1. k \in Keys /\ k \in mine[t] /\ k \notin cached
      BY <1>2, <2>1 DEF Prepare, Missing, TypeOK
    <3>2. pc[t] = "ready"
      BY <1>2 DEF Prepare
    <3>3. ~OnItsWay(k)
      BY <3>1, <3>2, OneAsker
    <3>. QED  BY <1>0, <3>1, <3>3
  <2>2. Others(t) /\ pc[t] # "batch" /\ UNCHANGED <<asks, missed, cached>>
    BY <1>2, StepOthers DEF Prepare, history
  <2>. QED  BY <1>1, <2>1, <2>2 DEF Others
<1>3. ASSUME NEW t \in Threads, Send(t) PROVE AsksOK'
  <2>1. ASSUME NEW k \in Keys PROVE Asks(k)'
    <3>1. Others(t) /\ pc[t] = "queued" /\ pc'[t] = "batch" /\ UNCHANGED <<missed, cached, asked>>
      BY <1>3, StepOthers DEF Send, TypeOK
    <3>2. CASE k \in asked[t] \ Hashes
      <4>1. asks'[k] = asks[k] + 1 /\ asks[k] <= missed[k] /\ k \in mine[t]
        BY <1>0, <1>3, <3>1, <3>2 DEF Send, AskedOK
      <4>2. \A u \in Threads : k \in asked[u] => u = t
        BY <4>1, OneAsker
      <4>3. Owed(k)'
        BY <3>1, <4>2
      <4>4. OnItsWay(k)'
        BY <3>1, <3>2
      <4>. QED  BY <1>0, <3>1, <4>1, <4>3, <4>4
    <3>3. CASE k \notin asked[t] \ Hashes
      <4>1. asks'[k] = asks[k]
        BY <1>3, <3>3 DEF Send
      <4>2. Owed(k)'
        BY <1>0, <3>1, <3>3, <4>1 DEF Others
      <4>3. OnItsWay(k) => OnItsWay(k)'
        BY <3>1, <3>3 DEF Others
      <4>. QED  BY <1>0, <3>1, <4>1, <4>2, <4>3
    <3>. QED  BY <3>2, <3>3
  <2>. QED  BY <2>1 DEF AsksOK
<1>4. ASSUME NEW t \in Threads, NEW k \in Keys, Arrive(t, k) PROVE AsksOK'
  BY <1>1, <1>4, StepOthers DEF Arrive, Others, TypeOK, history
<1>5. ASSUME NEW t \in Threads, BatchDone(t) PROVE AsksOK'
  BY <1>1, <1>5, StepOthers DEF BatchDone, Others, TypeOK, history
<1>6. ASSUME NEW t \in Threads, NEW h \in Keys, ReadHash(t, h) PROVE AsksOK'
  <2>1. /\ Others(t) /\ pc[t] = "hashes" /\ pc' = pc /\ missed' = missed
        /\ cached' = cached \cup {h} /\ h \in asked[t] /\ h \in Hashes
        /\ asked'[t] = asked[t] \ {h}
    BY <1>6, StepOthers DEF ReadHash, AskedOK, TypeOK
  <2>2. ASSUME NEW k \in Keys PROVE Asks(k)'
    <3>1. CASE k = h
      <4>1. Owed(k)'
        BY <2>1, <3>1
      <4>2. ~OnItsWay(k)
        BY <2>1, <3>1
      <4>3. asks'[k] <= missed[k] + 1
        <5>1. CASE h \in cached
          BY <1>0, <1>6, <5>1 DEF ReadHash
        <5>2. CASE h \notin cached
          BY <1>0, <1>6, <3>1, <4>2, <5>2 DEF ReadHash, TypeOK
        <5>. QED  BY <5>1, <5>2
      <4>. QED  BY <2>1, <3>1, <4>1, <4>3
    <3>2. CASE k # h
      <4>1. asks'[k] = asks[k]
        BY <1>6, <3>2 DEF ReadHash, TypeOK
      <4>2. Owed(k)'
        BY <1>0, <2>1, <4>1 DEF Others
      <4>3. OnItsWay(k) => OnItsWay(k)'
        BY <2>1 DEF Others
      <4>. QED  BY <1>0, <2>1, <4>1, <4>2, <4>3
    <3>. QED  BY <3>1, <3>2
  <2>. QED  BY <2>2 DEF AsksOK
<1>7. ASSUME NEW t \in Threads, Lose(t), Others(t), cached' = cached, pc'[t] # "queued"
      PROVE  AsksOK'
  <2>1. ASSUME NEW k \in Keys PROVE Asks(k)'
    <3>1. CASE pc[t] = "batch"
      <4>1. /\ asks' = asks
            /\ missed' = [j \in Keys |-> IF j \in asked[t] \ Hashes THEN missed[j] + 1 ELSE missed[j]]
        BY <1>7, <3>1 DEF Lose
      <4>2. CASE k \in asked[t] \ Hashes
        BY <1>0, <1>7, <4>1, <4>2 DEF Others
      <4>3. CASE k \notin asked[t] \ Hashes
        <5>1. missed'[k] = missed[k] /\ asks'[k] = asks[k]
          BY <4>1, <4>3
        <5>2. OnItsWay(k) => OnItsWay(k)'
          BY <1>7, <4>3 DEF Others
        <5>3. Owed(k)'
          BY <1>0, <1>7, <5>1 DEF Others
        <5>. QED  BY <1>0, <1>7, <5>1, <5>2, <5>3
      <4>. QED  BY <4>2, <4>3
    <3>2. CASE pc[t] = "hashes"
      <4>1. PICK h \in asked[t] \ cached :
              /\ asks' = [asks EXCEPT ![h] = asks[h] + 1]
              /\ missed' = [missed EXCEPT ![h] = missed[h] + 1]
        BY <1>7, <3>2 DEF Lose
      <4>2. \/ asks'[k] = asks[k] /\ missed'[k] = missed[k]
            \/ asks'[k] = asks[k] + 1 /\ missed'[k] = missed[k] + 1
        BY <4>1 DEF TypeOK
      <4>3. OnItsWay(k) => OnItsWay(k)'
        BY <1>7, <3>2 DEF Others
      <4>4. Owed(k)'
        BY <1>0, <1>7, <4>2 DEF Others
      <4>. QED  BY <1>0, <1>7, <4>2, <4>3, <4>4
    <3>. QED  BY <1>7, <3>1, <3>2 DEF Lose
  <2>. QED  BY <2>1 DEF AsksOK
<1>8. ASSUME NEW t \in Threads, Refused(t) \/ Fail(t) PROVE AsksOK'
  <2>1. /\ Lose(t) /\ Others(t) /\ cached' = cached /\ pc'[t] # "queued"
    BY <1>8, StepOthers DEF Refused, Fail, Return, TypeOK
  <2>. QED  BY <1>7, <2>1
<1>9. ASSUME NEW t \in Threads, Others(t), pc[t] # "batch", pc'[t] # "queued",
             UNCHANGED <<asks, missed, cached>>
      PROVE  AsksOK'
  BY <1>1, <1>9 DEF Others
<1>10. ASSUME NEW t \in Threads,
              (\E keys \in SUBSET Keys : Call(t, keys)) \/ Claim(t) \/ Fetched(t) \/ Wake(t)
       PROVE  AsksOK'
  <2>1. /\ Others(t) /\ pc[t] # "batch" /\ pc'[t] # "queued"
        /\ UNCHANGED <<asks, missed, cached>>
    BY <1>10, StepOthers DEF Call, Claim, Fetched, Wake, GoTo, Return, TypeOK, history
  <2>. QED  BY <1>9, <2>1
<1>11. ASSUME NEW k \in Keys, Read(k) PROVE AsksOK'
  BY <1>1, <1>11 DEF Read, callVars, history
<1>12. CASE UNCHANGED vars
  BY <1>12 DEF vars, callVars, history, AsksOK
<1>. QED
  BY <1>2, <1>3, <1>4, <1>5, <1>6, <1>8, <1>10, <1>11, <1>12, StepCases

----------------------------------------------------------------------------
(* A call that returns Ok has resolved everything *)

\* What is missing stays claimed or asked for until it arrives.
LEMMA WantedStep ==
  TypeOK /\ AskedOK /\ WantedOK /\ [Next]_vars => WantedOK'
<1> SUFFICES ASSUME TypeOK, AskedOK, WantedOK, [Next]_vars PROVE WantedOK'
  OBVIOUS
<1>. DEFINE Wanted(t) ==
       /\ pc[t] \in Fetching /\ ~shared[t] => wanted[t] \ cached \subseteq mine[t]
       /\ pc[t] \in {"queued", "batch", "hashes"} => mine[t] \ cached \subseteq asked[t]
       /\ pc[t] = "idle" <=> wanted[t] = {}
<1>1. ASSUME NEW t \in Threads, cached \subseteq cached', Wanted(t)',
             \A u \in Threads : u # t =>
               /\ pc'[u] = pc[u] /\ mine'[u] = mine[u] /\ asked'[u] = asked[u]
               /\ wanted'[u] = wanted[u] /\ shared'[u] = shared[u]
      PROVE  WantedOK'
  BY <1>1 DEF WantedOK
<1>2. ASSUME NEW t \in Threads, NEW keys \in SUBSET Keys, Call(t, keys) PROVE WantedOK'
  BY <1>1, <1>2 DEF Call, TypeOK, Fetching
<1>3. ASSUME NEW t \in Threads, Claim(t) PROVE WantedOK'
  <2>1. PICK busy : /\ busy = (wanted[t] \ cached) \ Free(t)
                    /\ mine' = [mine EXCEPT ![t] = Free(t)]
                    /\ shared' = [shared EXCEPT ![t] = busy # {}]
                    /\ \/ GoTo(t, "ready")
                       \/ GoTo(t, "wait")
                       \/ Return(t, "ok")
                    /\ cached' = cached /\ asked' = asked /\ pc[t] = "claim"
    BY <1>3 DEF Claim
  <2>2. shared'[t] = (busy # {}) /\ mine'[t] = Free(t)
    BY <2>1 DEF TypeOK
  <2>3. wanted[t] # {}
    BY <2>1 DEF WantedOK
  <2>4. Wanted(t)'
    BY <2>1, <2>2, <2>3 DEF GoTo, Return, TypeOK, Fetching
  <2>5. ASSUME NEW u \in Threads, u # t
        PROVE  /\ pc'[u] = pc[u] /\ mine'[u] = mine[u] /\ asked'[u] = asked[u]
               /\ wanted'[u] = wanted[u] /\ shared'[u] = shared[u]
    BY <2>1, <2>5 DEF GoTo, Return, TypeOK
  <2>. QED  BY <1>1, <2>1, <2>4, <2>5
<1>4. ASSUME NEW t \in Threads, Prepare(t) PROVE WantedOK'
  BY <1>1, <1>4 DEF Prepare, Missing, WantedOK, TypeOK, Fetching
<1>5. ASSUME NEW t \in Threads, Send(t) PROVE WantedOK'
  BY <1>1, <1>5 DEF Send, WantedOK, TypeOK, Fetching
<1>6. ASSUME NEW t \in Threads, NEW k \in Keys, Arrive(t, k) \/ ReadHash(t, k) PROVE WantedOK'
  BY <1>1, <1>6 DEF Arrive, ReadHash, WantedOK, TypeOK
<1>7. ASSUME NEW t \in Threads, BatchDone(t) PROVE WantedOK'
  BY <1>1, <1>7 DEF BatchDone, WantedOK, TypeOK, Fetching
<1>8. ASSUME NEW t \in Threads, Fetched(t) PROVE WantedOK'
  <2>1. Wanted(t)'
    BY <1>8 DEF Fetched, GoTo, Return, WantedOK, TypeOK, Fetching
  <2>. QED  BY <1>1, <1>8, <2>1 DEF Fetched, Land, GoTo, Return, TypeOK
<1>9. ASSUME NEW t \in Threads, Refused(t) PROVE WantedOK'
  <2>1. Wanted(t)'
    BY <1>9 DEF Refused, Lose, WantedOK, TypeOK, Fetching
  <2>. QED  BY <1>1, <1>9, <2>1 DEF Refused, Lose, TypeOK
<1>10. ASSUME NEW t \in Threads, Fail(t) PROVE WantedOK'
  <2>1. Wanted(t)'
    BY <1>10 DEF Fail, Return, TypeOK, Fetching
  <2>. QED  BY <1>1, <1>10, <2>1 DEF Fail, Lose, Land, Return, TypeOK
<1>11. ASSUME NEW t \in Threads, Wake(t) PROVE WantedOK'
  BY <1>1, <1>11 DEF Wake, WantedOK, TypeOK, Fetching
<1>12. ASSUME NEW k \in Keys, Read(k) PROVE WantedOK'
  BY <1>12 DEF Read, callVars, WantedOK
<1>13. CASE UNCHANGED vars
  BY <1>13 DEF vars, callVars, WantedOK
<1>. QED
  BY <1>2, <1>3, <1>4, <1>5, <1>6, <1>7, <1>8, <1>9, <1>10, <1>11, <1>12, <1>13, StepCases

----------------------------------------------------------------------------
(* Theorems *)

\* IInv holds in every reachable state.
THEOREM Inductive == Spec => []IInv
<1>1. Init => IInv
  <2> SUFFICES ASSUME Init PROVE IInv
    OBVIOUS
  <2>1. TypeOK
    BY Bounds DEF Init, TypeOK, Phases
  <2>2. FlightsLand
    BY ReadThroughAssumption DEF Init, FlightsLand
  <2>3. AskedOK /\ AsksOK /\ WantedOK
    BY DEF Init, AskedOK, AsksOK, WantedOK, Fetching
  <2>. QED  BY <2>1, <2>2, <2>3 DEF IInv
<1>2. IInv /\ [Next]_vars => IInv'
  BY TypeStep, FlightsStep, AskedStep, AsksStep, WantedStep DEF IInv
<1>. QED  BY <1>1, <1>2, PTL DEF Spec

\* Every variable keeps its type: no batch is retried more than
\* RATE_LIMIT_RETRIES times.
THEOREM TypeCorrect == Spec => []TypeOK
<1>1. IInv => TypeOK
  BY DEF IInv
<1>. QED  BY Inductive, <1>1, PTL

\* Landing: a flight has one owner, who is fetching it, and nobody waits for a
\* flight that is over.
THEOREM Flights == Spec => []FlightsLand
<1>1. IInv => FlightsLand
  BY DEF IInv
<1>. QED  BY Inductive, <1>1, PTL

\* A resolve asks upstream for a key once, and once more for each miss.
THEOREM Asks == Spec => []AskedOncePerMiss
<1>1. IInv => AskedOncePerMiss
  BY DEF IInv, AsksOK, AskedOncePerMiss
<1>. QED  BY Inductive, <1>1, PTL

\* A step of resolve is a step its caller may rely on: a call that returns Ok
\* leaves every key it was given in the cache.
LEMMA PromiseStep ==
  ASSUME IInv, [Next]_vars
  PROVE  [Promise!Next]_<<cached, wanted, result>>
<1>. USE DEF IInv
<1>1. ASSUME NEW t \in Threads, NEW keys \in SUBSET Keys, Call(t, keys)
      PROVE  Promise!Begin(t, keys)
  BY <1>1 DEF Call, Promise!Begin, WantedOK
<1>2. ASSUME NEW t \in Threads, Return(t, "ok"), wanted[t] # {}, wanted[t] \subseteq cached,
             cached' = cached
      PROVE  Promise!End(t, "ok")
  BY <1>2 DEF Return, Promise!End
<1>3. ASSUME NEW t \in Threads, Claim(t)
      PROVE  Promise!End(t, "ok") \/ UNCHANGED <<cached, wanted, result>>
  <2>1. wanted[t] # {} /\ cached' = cached
    BY <1>3 DEF Claim, WantedOK
  <2>2. \/ GoTo(t, "ready") \/ GoTo(t, "wait")
        \/ /\ Return(t, "ok") /\ Free(t) = {} /\ (wanted[t] \ cached) \ Free(t) = {}
    BY <1>3 DEF Claim
  <2>3. CASE Return(t, "ok") /\ Free(t) = {} /\ (wanted[t] \ cached) \ Free(t) = {}
    BY <1>2, <2>1, <2>3
  <2>. QED  BY <2>1, <2>2, <2>3 DEF GoTo
<1>4. ASSUME NEW t \in Threads, Fetched(t)
      PROVE  Promise!End(t, "ok") \/ UNCHANGED <<cached, wanted, result>>
  <2>1. wanted[t] # {} /\ cached' = cached /\ pc[t] = "hashes" /\ asked[t] = {}
    BY <1>4 DEF Fetched, WantedOK
  <2>2. CASE ~shared[t] /\ Return(t, "ok")
    <3>1. wanted[t] \subseteq cached
      BY <2>1, <2>2 DEF WantedOK, Fetching
    <3>. QED  BY <1>2, <2>1, <2>2, <3>1
  <2>3. CASE GoTo(t, "wait")
    BY <2>1, <2>3 DEF GoTo
  <2>. QED  BY <1>4, <2>2, <2>3 DEF Fetched, Alone
<1>5. ASSUME NEW t \in Threads, Fail(t) PROVE Promise!End(t, "err")
  <2>1. wanted[t] # {}
    BY <1>5 DEF Fail, Lose, WantedOK
  <2>. QED  BY <1>5, <2>1 DEF Fail, Return, Promise!End
<1>6. ASSUME NEW t \in Threads, NEW k \in Keys, Arrive(t, k) \/ ReadHash(t, k)
      PROVE  Promise!Land(k)
  BY <1>6 DEF Arrive, ReadHash, Promise!Land
<1>7. ASSUME NEW k \in Keys, Read(k) PROVE Promise!Land(k)
  BY <1>7 DEF Read, callVars, Promise!Land
<1>8. ASSUME NEW t \in Threads, Prepare(t) \/ Send(t) \/ BatchDone(t) \/ Refused(t) \/ Wake(t)
      PROVE  UNCHANGED <<cached, wanted, result>>
  BY <1>8 DEF Prepare, Send, BatchDone, Refused, Wake
<1>9. UNCHANGED vars => UNCHANGED <<cached, wanted, result>>
  BY DEF vars, callVars
<1>. QED
  BY <1>1, <1>3, <1>4, <1>5, <1>6, <1>7, <1>8, <1>9, StepCases DEF Promise!Next

\* resolve implements the Resolver contract Worker is built on.
THEOREM Refines == Spec => KeepsPromise
<1>1. Init => Promise!Init
  BY DEF Init, Promise!Init
<1>2. IInv /\ [Next]_vars => [Promise!Next]_<<cached, wanted, result>>
  BY PromiseStep
<1>. QED  BY <1>1, <1>2, Inductive, PTL DEF Spec, KeepsPromise, Promise!Spec
=============================================================================
