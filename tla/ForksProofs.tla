---------------------------- MODULE ForksProofs ----------------------------
(***************************************************************************)
(* Proofs about Forks, for any number of callers, blocks and refreshes:    *)
(* pinned sessions stay at their block, sessions opened outside a refresh  *)
(* are at one block, none sees anything older than the last refresh, and   *)
(* the pinned-block cache is a bounded LRU whose sessions share one cell.  *)
(***************************************************************************)
EXTENDS Forks, FiniteSetTheorems, TLAPS

\* The part of TypeOK the proofs need, without the bounds of the cell names.
CallShape ==
  [pc : {"idle", "pinned", "cell", "factory", "open", "failed"} \cup Copying,
   op : {"fork", "forkAt", "restore"}, want : 0 .. MaxBlock, cell : Nat,
   base : 0 .. MaxBlock, fallback : 0 .. MaxBlock, env : 0 .. MaxBlock,
   since : 0 .. MaxBlock, overlap : BOOLEAN]

Shape ==
  /\ tip \in Blocks /\ fallback \in Blocks /\ env \in Blocks
  /\ base \in 0 .. MaxBlock /\ refreshed \in Blocks
  /\ follower \in [pc : {"sleep", "forking", "env", "base"}, got : Blocks, seen : Blocks]
  /\ cells \in [Blocks -> Nat] /\ uses \in Nat
  /\ call \in [Callers -> CallShape]
  /\ \A c \in Callers : call[c].pc = "pinned" => call[c].want \in Blocks

\* Between refreshes the three locks agree; within one, what is already
\* written is the new block.  Nothing is older than the last refresh.
ManagerOK ==
  /\ follower.pc \in {"sleep", "forking"} => fallback = env /\ base \in {NoBlock, env}
  /\ follower.pc \in {"env", "base"} => fallback = follower.got
  /\ follower.pc = "base" => env = follower.got
  /\ refreshed <= fallback /\ refreshed <= env /\ fallback <= tip
  /\ base = NoBlock \/ refreshed <= base

\* A call still copying, that no refresh has overlapped, has copied what the
\* locks still hold, and if it restores, at the block it compared with.
SettledCopy(c) ==
  call[c].pc \in Copying /\ ~call[c].overlap =>
    /\ follower.pc \in {"sleep", "forking"}
    /\ call[c].pc # "base" => call[c].base = base
    /\ call[c].pc = "env" => call[c].fallback = fallback
    /\ call[c].op = "restore" => call[c].want = env

\* What a fork has copied so far is no older than the last refresh before it.
FreshCopy(c) ==
  call[c].pc \in Copying =>
    /\ call[c].since <= refreshed
    /\ call[c].pc # "base" => call[c].base = NoBlock \/ call[c].base >= call[c].since
    /\ call[c].pc = "env" => call[c].fallback >= call[c].since

\* Only fork and restore copy the locks; fork never enters a cell.
PathOK(c) ==
  /\ call[c].pc \in Copying => call[c].op # "forkAt"
  /\ call[c].pc \in {"pinned", "cell", "factory"} => call[c].op # "fork"

\* What SettledForkIsWhole, PinnedAtItsBlock and SeesLastRefresh say of a call.
OpenOK(c) ==
  Opened(c) =>
    /\ call[c].op = "forkAt" => AtBlock(c, call[c].want)
    /\ ~call[c].overlap =>
         AtBlock(c, call[c].env) /\ (call[c].op = "restore" => call[c].env = call[c].want)
    /\ call[c].op = "fork" =>
         /\ call[c].fallback >= call[c].since /\ call[c].env >= call[c].since
         /\ call[c].base = NoBlock \/ call[c].base >= call[c].since

CallOK(c) == SettledCopy(c) /\ FreshCopy(c) /\ PathOK(c) /\ OpenOK(c)

IInv == Shape /\ ManagerOK /\ \A c \in Callers : CallOK(c)

----------------------------------------------------------------------------
\* Every step is one of these.
LEMMA StepCases ==
  ASSUME [Next]_vars
  PROVE  \/ Mine \/ Poll \/ ReFork \/ ReForkFails \/ WriteEnv \/ WriteBase
         \/ \E c \in Callers, op \in {"fork", "forkAt", "restore"}, n \in Blocks \cup {NoBlock} :
              Open(c, op, n)
         \/ \E c \in Callers : ReadBase(c)
         \/ \E c \in Callers : ReadFallback(c)
         \/ \E c \in Callers : ReadEnv(c)
         \/ \E c \in Callers : EnterCell(c)
         \/ \E c \in Callers : StartInit(c)
         \/ \E c \in Callers : FactoryOk(c)
         \/ \E c \in Callers : FactoryErr(c)
         \/ \E c \in Callers : TakeCell(c)
         \/ \E c \in Callers : Cancel(c)
         \/ \E c \in Callers : Return(c)
         \/ UNCHANGED vars
BY DEF Next, Follower, Step

\* The bounds are naturals, and blocks are not NoBlock.
LEMMA Bounds ==
  /\ MaxBlock \in Nat \ {0} /\ Start \in Blocks
  /\ Blocks \subseteq 0 .. MaxBlock /\ NoBlock \in 0 .. MaxBlock
  /\ \A n \in Blocks : n \in Nat /\ n # NoBlock
BY ForksAssumption DEF Blocks, NoBlock

\* A call nobody has made is of the shape.
LEMMA NoCallShape == NoCall \in CallShape
BY Bounds DEF NoCall, NewCall, CallShape, NoCell, NoBlock

\* Marking the copying calls keeps their shape.
LEMMA OverlappedShape ==
  ASSUME Shape
  PROVE  /\ Overlapped \in [Callers -> CallShape]
         /\ \A c \in Callers : Overlapped[c].pc = "pinned" => Overlapped[c].want \in Blocks
<1>1. \A c \in Callers : [call[c] EXCEPT !.overlap = TRUE] \in CallShape
  BY DEF Shape, CallShape
<1>2. \A c \in Callers : call[c].pc \in Copying => Overlapped[c].pc # "pinned"
  BY DEF Shape, CallShape, Overlapped, Copying
<1>. QED  BY <1>1, <1>2 DEF Shape, Overlapped

\* A caller's step that gives its call the shape keeps every shape.
LEMMA MovedShape ==
  ASSUME Shape, NEW c \in Callers, NEW moved \in CallShape,
         moved.pc = "pinned" => moved.want \in Blocks,
         call' = [call EXCEPT ![c] = moved], UNCHANGED tipVars,
         cells' \in [Blocks -> Nat], uses' \in Nat
  PROVE  Shape'
BY DEF Shape, tipVars

----------------------------------------------------------------------------
\* Every step keeps the shapes.
LEMMA ShapeStep == Shape /\ [Next]_vars => Shape'
<1> SUFFICES ASSUME Shape, [Next]_vars PROVE Shape'
  OBVIOUS
<1> USE Bounds
<1>1. CASE Mine
  BY <1>1 DEF Mine, Shape, pinVars, Blocks
<1>2. CASE Poll
  BY <1>2 DEF Poll, Shape, pinVars
<1>3. CASE ReFork
  BY <1>3, OverlappedShape DEF ReFork, Shape, pinVars
<1>4. CASE ReForkFails
  BY <1>4 DEF ReForkFails, SeenOnFailure, Shape, pinVars
<1>5. CASE WriteEnv
  BY <1>5, OverlappedShape DEF WriteEnv, Shape, pinVars
<1>6. CASE WriteBase
  BY <1>6, OverlappedShape DEF WriteBase, RefreshedBase, Shape, pinVars
<1>7. ASSUME NEW c \in Callers, NEW op \in {"fork", "forkAt", "restore"},
             NEW n \in Blocks \cup {NoBlock}, Open(c, op, n)
      PROVE  Shape'
  <2> DEFINE pc == IF ByDefault(op, n) THEN "base" ELSE "pinned"
             midway == follower.pc \in {"env", "base"}
             opened == NewCall(pc, op, n, refreshed, midway)
  <2>1. opened \in CallShape /\ opened.pc = pc /\ opened.want = n
    <3>1. pc \in {"base", "pinned"} /\ n \in 0 .. MaxBlock /\ refreshed \in 0 .. MaxBlock
      BY DEF Shape
    <3>2. midway \in BOOLEAN /\ NoCell \in Nat
      BY DEF NoCell
    <3> HIDE DEF pc, midway
    <3>. QED  BY <3>1, <3>2 DEF NewCall, CallShape, Copying
  <2>2. pc = "pinned" => n \in Blocks
    BY <1>7 DEF Open, ByDefault
  <2>3. call' = [call EXCEPT ![c] = opened]
    BY <1>7 DEF Open
  <2> HIDE DEF opened, pc, midway
  <2>. QED  BY <1>7, <2>1, <2>2, <2>3, MovedShape DEF Open, Shape, pinVars
<1>8. ASSUME NEW c \in Callers, ReadBase(c) PROVE Shape'
  <2>1. [call[c] EXCEPT !.pc = "fallback", !.base = base] \in CallShape
    BY <1>8 DEF Shape, CallShape, Copying
  <2>. QED  BY <1>8, <2>1, MovedShape DEF ReadBase, Shape, pinVars, CallShape
<1>9. ASSUME NEW c \in Callers, ReadFallback(c) PROVE Shape'
  <2>1. [call[c] EXCEPT !.pc = "env", !.fallback = fallback] \in CallShape
    BY <1>9 DEF Shape, CallShape, Copying
  <2>. QED  BY <1>9, <2>1, MovedShape DEF ReadFallback, Shape, pinVars, CallShape
<1>10. ASSUME NEW c \in Callers, ReadEnv(c) PROVE Shape'
  <2>1. [call[c] EXCEPT !.pc = "open", !.env = env] \in CallShape
    BY <1>10 DEF Shape, CallShape, Copying
  <2>. QED  BY <1>10, <2>1, MovedShape DEF ReadEnv, Shape, pinVars, CallShape
<1>11. ASSUME NEW c \in Callers, EnterCell(c) PROVE Shape'
  <2> DEFINE n == call[c].want
             entered == [call[c] EXCEPT !.pc = "cell", !.cell = CellOf(n)]
  <2>1. n \in Blocks
    BY <1>11 DEF EnterCell, Shape
  <2>2. CellOf(n) \in Nat
    <3>1. cells \in [Blocks -> Nat] /\ uses \in Nat
      BY DEF Shape
    <3>2. uses + 1 \in Nat
      BY <3>1
    <3> HIDE DEF n
    <3>3. cells[n] \in Nat
      BY <2>1, <3>1, Zenon
    <3>. QED  BY <3>2, <3>3, Zenon DEF CellOf
  <2>3. entered \in CallShape /\ entered.pc = "cell"
    <3> HIDE DEF n
    <3>1. call[c] \in CallShape
      BY DEF Shape
    <3>. QED  BY <2>2, <3>1 DEF CallShape
  <2>4. cells' \in [Blocks -> Nat] /\ uses' \in Nat
    <3>1. cells \in [Blocks -> Nat] /\ uses \in Nat
      BY DEF Shape
    <3>2. PICK gone :
            cells' = [m \in Blocks |-> IF m \in gone THEN NoCell
                                      ELSE IF m = n THEN CellOf(n) ELSE cells[m]]
      BY <1>11, Zenon DEF EnterCell
    <3> HIDE DEF n
    <3>3. cells' \in [Blocks -> Nat]
      BY <2>2, <3>1, <3>2 DEF NoCell
    <3>4. uses' = uses + 1
      BY <1>11, Zenon DEF EnterCell
    <3>. QED  BY <3>1, <3>3, <3>4
  <2>5. call' = [call EXCEPT ![c] = entered] /\ UNCHANGED tipVars
    BY <1>11 DEF EnterCell
  <2> HIDE DEF entered
  <2>. QED  BY <2>3, <2>4, <2>5, MovedShape
<1>12. ASSUME NEW c \in Callers, StartInit(c) PROVE Shape'
  <2>1. [call[c] EXCEPT !.pc = "factory"] \in CallShape
    BY <1>12 DEF Shape, CallShape, Copying
  <2>. QED  BY <1>12, <2>1, MovedShape DEF StartInit, Shape, pinVars, CallShape
<1>13. ASSUME NEW c \in Callers, FactoryOk(c) PROVE Shape'
  <2>1. [call[c] EXCEPT !.pc = "cell"] \in CallShape
    BY <1>13 DEF Shape, CallShape, Copying
  <2>. QED  BY <1>13, <2>1, MovedShape DEF FactoryOk, Shape, pinVars, CallShape
<1>14. ASSUME NEW c \in Callers, FactoryErr(c) PROVE Shape'
  <2>1. [call[c] EXCEPT !.pc = "failed"] \in CallShape
    BY <1>14 DEF Shape, CallShape, Copying
  <2>. QED  BY <1>14, <2>1, MovedShape DEF FactoryErr, Shape, pinVars, CallShape
<1>15. ASSUME NEW c \in Callers, TakeCell(c) PROVE Shape'
  <2>1. [call[c] EXCEPT !.pc = "open", !.base = NoBlock, !.fallback = call[c].want, !.env = call[c].want] \in CallShape
    BY <1>15 DEF Shape, CallShape, Copying
  <2>. QED  BY <1>15, <2>1, MovedShape DEF TakeCell, Shape, pinVars, CallShape
<1>16. ASSUME NEW c \in Callers, Cancel(c) \/ Return(c) PROVE Shape'
  <2>1. NoCall.pc # "pinned"
    BY DEF NoCall, NewCall
  <2>. QED  BY <1>16, <2>1, NoCallShape, MovedShape DEF Cancel, Return, Shape, pinVars
<1>17. CASE UNCHANGED vars
  BY <1>17 DEF vars, Shape, tipVars, pinVars
<1>. QED  BY StepCases, <1>1, <1>2, <1>3, <1>4, <1>5, <1>6, <1>7, <1>8, <1>9, <1>10, <1>11,
             <1>12, <1>13, <1>14, <1>15, <1>16, <1>17

\* Opening a session writes none of the manager's locks.
LEMMA CallerStep ==
  ASSUME [Next]_vars, NEW c \in Callers,
         \/ \E op \in {"fork", "forkAt", "restore"}, n \in Blocks \cup {NoBlock} : Open(c, op, n)
         \/ ReadBase(c) \/ ReadFallback(c) \/ ReadEnv(c) \/ EnterCell(c) \/ StartInit(c)
         \/ FactoryOk(c) \/ FactoryErr(c) \/ TakeCell(c) \/ Cancel(c) \/ Return(c),
         Shape
  PROVE  /\ UNCHANGED tipVars
         /\ \A d \in Callers : d # c => call'[d] = call[d]
BY DEF Open, ReadBase, ReadFallback, ReadEnv, EnterCell, StartInit, FactoryOk, FactoryErr,
       TakeCell, Cancel, Return, Shape

\* Every step keeps the locks in order.
LEMMA ManagerStep == Shape /\ ManagerOK /\ [Next]_vars => ManagerOK'
<1> SUFFICES ASSUME Shape, ManagerOK, [Next]_vars PROVE ManagerOK'
  OBVIOUS
<1> USE Bounds DEF NoBlock
<1>1. CASE Mine
  BY <1>1 DEF Mine, ManagerOK, Shape, Blocks
<1>2. CASE Poll
  BY <1>2 DEF Poll, ManagerOK, Shape
<1>3. CASE ReFork
  BY <1>3 DEF ReFork, ManagerOK, Shape, Blocks
<1>4. CASE ReForkFails
  BY <1>4 DEF ReForkFails, ManagerOK, Shape
<1>5. CASE WriteEnv
  BY <1>5 DEF WriteEnv, ManagerOK, Shape, Blocks
<1>6. CASE WriteBase
  BY <1>6 DEF WriteBase, RefreshedBase, ManagerOK, Shape, Blocks
<1>7. CASE UNCHANGED tipVars
  BY <1>7 DEF tipVars, ManagerOK
<1>8. UNCHANGED vars => UNCHANGED tipVars
  BY DEF vars
<1>. QED  BY StepCases, CallerStep, <1>1, <1>2, <1>3, <1>4, <1>5, <1>6, <1>7, <1>8

----------------------------------------------------------------------------
\* A call is kept right by a step that touches neither it nor the locks.
LEMMA CallKept ==
  ASSUME NEW d \in Callers, CallOK(d), call'[d] = call[d], UNCHANGED <<base, fallback, env, refreshed>>,
         follower'.pc = follower.pc \/ follower'.pc \in {"sleep", "forking"}
  PROVE  CallOK(d)'
BY DEF CallOK, SettledCopy, FreshCopy, PathOK, OpenOK, Opened, AtBlock

\* And by each write of a refresh, which marks it if it is copying.
LEMMA CallOverlapped ==
  ASSUME Shape, ManagerOK, NEW d \in Callers, CallOK(d), call' = Overlapped,
         refreshed' \in Blocks, refreshed <= refreshed'
  PROVE  CallOK(d)'
<1> USE Bounds
<1>1. CASE call[d].pc \in Copying
  <2>1. /\ call'[d].overlap /\ call'[d].pc = call[d].pc /\ call'[d].op = call[d].op
        /\ call'[d].base = call[d].base /\ call'[d].fallback = call[d].fallback
        /\ call'[d].since = call[d].since
    BY <1>1 DEF Overlapped, Shape, CallShape
  <2>2. call[d].since \in Nat /\ refreshed \in Nat /\ refreshed' \in Nat
    BY DEF Shape, CallShape, Blocks
  <2>3. call[d].since <= refreshed => call[d].since <= refreshed'
    BY <2>2
  <2>4. FreshCopy(d)'
    BY <1>1, <2>1, <2>3 DEF CallOK, FreshCopy
  <2>5. ~Opened(d)'
    BY <1>1, <2>1 DEF Opened, Copying
  <2>. QED  BY <1>1, <2>1, <2>4, <2>5 DEF CallOK, SettledCopy, PathOK, OpenOK
<1>2. CASE call[d].pc \notin Copying
  <2>1. call'[d] = call[d]
    BY <1>2 DEF Overlapped
  <2>. QED  BY <1>2, <2>1 DEF CallOK, SettledCopy, FreshCopy, PathOK, OpenOK, Opened, AtBlock
<1>. QED  BY <1>1, <1>2

\* A caller's own step keeps its call right.
LEMMA OwnStep ==
  ASSUME Shape, ManagerOK, NEW c \in Callers, CallOK(c), UNCHANGED tipVars,
         \/ \E op \in {"fork", "forkAt", "restore"}, n \in Blocks \cup {NoBlock} : Open(c, op, n)
         \/ ReadBase(c) \/ ReadFallback(c) \/ ReadEnv(c) \/ EnterCell(c) \/ StartInit(c)
         \/ FactoryOk(c) \/ FactoryErr(c) \/ TakeCell(c) \/ Cancel(c) \/ Return(c)
  PROVE  CallOK(c)'
<1> USE Bounds DEF Copying
<1>1. ASSUME NEW op \in {"fork", "forkAt", "restore"}, NEW n \in Blocks \cup {NoBlock}, Open(c, op, n)
      PROVE  CallOK(c)'
  <2>1. /\ call'[c].pc = IF ByDefault(op, n) THEN "base" ELSE "pinned"
        /\ call'[c].op = op /\ call'[c].want = n /\ call'[c].since = refreshed
        /\ call'[c].overlap = (follower.pc \in {"env", "base"})
    BY <1>1 DEF Open, NewCall, Shape
  <2>2. follower.pc \in {"sleep", "forking", "env", "base"}
    BY DEF Shape
  <2>3. SettledCopy(c)' /\ PathOK(c)'
    BY <2>1, <2>2 DEF SettledCopy, PathOK, ByDefault, tipVars
  <2>4. FreshCopy(c)' /\ OpenOK(c)'
    BY <2>1 DEF FreshCopy, OpenOK, Opened, Shape, Blocks, tipVars
  <2>. QED  BY <2>3, <2>4 DEF CallOK
<1>2. CASE ReadBase(c)
  <2>1. call'[c] = [call[c] EXCEPT !.pc = "fallback", !.base = base]
    BY <1>2 DEF ReadBase, Shape
  <2>2. /\ call[c].pc = "base" /\ call'[c].pc = "fallback" /\ call'[c].base = base
        /\ call'[c].op = call[c].op /\ call'[c].want = call[c].want
        /\ call'[c].since = call[c].since /\ call'[c].overlap = call[c].overlap
    BY <1>2, <2>1 DEF ReadBase, Shape, CallShape
  <2>3. SettledCopy(c)' /\ PathOK(c)' /\ OpenOK(c)'
    BY <2>2 DEF CallOK, SettledCopy, PathOK, OpenOK, Opened, tipVars
  <2>4. FreshCopy(c)'
    BY <2>2 DEF CallOK, FreshCopy, ManagerOK, Shape, CallShape, Blocks, tipVars
  <2>. QED  BY <2>3, <2>4 DEF CallOK
<1>3. CASE ReadFallback(c)
  <2>1. call'[c] = [call[c] EXCEPT !.pc = "env", !.fallback = fallback]
    BY <1>3 DEF ReadFallback, Shape
  <2>2. /\ call[c].pc = "fallback" /\ call'[c].pc = "env" /\ call'[c].base = call[c].base
        /\ call'[c].fallback = fallback
        /\ call'[c].op = call[c].op /\ call'[c].want = call[c].want
        /\ call'[c].since = call[c].since /\ call'[c].overlap = call[c].overlap
    BY <1>3, <2>1 DEF ReadFallback, Shape, CallShape
  <2>3. SettledCopy(c)' /\ PathOK(c)' /\ OpenOK(c)'
    BY <2>2 DEF CallOK, SettledCopy, PathOK, OpenOK, Opened, tipVars
  <2>4. FreshCopy(c)'
    BY <2>2, SMTT(20) DEF CallOK, FreshCopy, ManagerOK, Shape, CallShape, Blocks, tipVars
  <2>. QED  BY <2>3, <2>4 DEF CallOK
<1>4. CASE ReadEnv(c)
  <2>1. call'[c] = [call[c] EXCEPT !.pc = "open", !.env = env]
    BY <1>4 DEF ReadEnv, Shape
  <2>2. /\ call[c].pc = "env" /\ call'[c].pc = "open" /\ call'[c].base = call[c].base
        /\ call'[c].fallback = call[c].fallback /\ call'[c].env = env
        /\ call'[c].op = call[c].op /\ call'[c].want = call[c].want
        /\ call'[c].since = call[c].since /\ call'[c].overlap = call[c].overlap
    BY <1>4, <2>1 DEF ReadEnv, Shape, CallShape
  <2>3. ~call[c].overlap => AtBlock(c, env)' /\ (call[c].op = "restore" => call[c].want = env)
    BY <2>2 DEF CallOK, SettledCopy, ManagerOK, AtBlock, tipVars
  <2>4. /\ call[c].fallback >= call[c].since /\ env >= call[c].since
        /\ call[c].base = NoBlock \/ call[c].base >= call[c].since
    BY <2>2, SMTT(20) DEF CallOK, FreshCopy, ManagerOK, Shape, CallShape, Blocks
  <2>5. OpenOK(c)'
    BY <2>2, <2>3, <2>4 DEF CallOK, PathOK, OpenOK, AtBlock, tipVars
  <2>. QED  BY <2>2, <2>5 DEF CallOK, SettledCopy, FreshCopy, PathOK
<1>5. CASE EnterCell(c) \/ StartInit(c) \/ FactoryOk(c) \/ FactoryErr(c)
  <2>1. \E p \in {"cell", "factory", "failed"} :
          \/ call'[c] = [call[c] EXCEPT !.pc = p]
          \/ call'[c] = [call[c] EXCEPT !.pc = p, !.cell = CellOf(call[c].want)]
    BY <1>5 DEF EnterCell, StartInit, FactoryOk, FactoryErr, Shape
  <2>2. call[c].pc \in {"pinned", "cell", "factory"}
    BY <1>5 DEF EnterCell, StartInit, FactoryOk, FactoryErr
  <2>3. call'[c].pc \in {"cell", "factory", "failed"} /\ call'[c].op = call[c].op
    BY <2>1 DEF Shape, CallShape
  <2>. QED  BY <2>2, <2>3 DEF CallOK, SettledCopy, FreshCopy, PathOK, OpenOK, Opened
<1>6. CASE TakeCell(c)
  <2>1. call'[c] = [call[c] EXCEPT !.pc = "open", !.base = NoBlock,
                                   !.fallback = call[c].want, !.env = call[c].want]
    BY <1>6 DEF TakeCell, Shape
  <2>2. /\ call'[c].pc = "open" /\ call'[c].op = call[c].op /\ call[c].pc = "cell"
        /\ call'[c].base = NoBlock /\ call'[c].fallback = call[c].want
        /\ call'[c].env = call[c].want /\ call'[c].want = call[c].want
    BY <1>6, <2>1 DEF TakeCell, Shape, CallShape
  <2>. QED  BY <2>2 DEF CallOK, SettledCopy, FreshCopy, PathOK, OpenOK, AtBlock
<1>7. CASE Cancel(c) \/ Return(c)
  <2>1. call'[c] = NoCall
    BY <1>7 DEF Cancel, Return, Shape
  <2>. QED  BY <2>1 DEF NoCall, NewCall, CallOK, SettledCopy, FreshCopy, PathOK, OpenOK, Opened
<1>. QED  BY <1>1, <1>2, <1>3, <1>4, <1>5, <1>6, <1>7

\* Every step keeps every call right.
LEMMA CallsStep ==
  Shape /\ ManagerOK /\ (\A c \in Callers : CallOK(c)) /\ [Next]_vars
    => \A c \in Callers : CallOK(c)'
<1> SUFFICES ASSUME Shape, ManagerOK, \A c \in Callers : CallOK(c), [Next]_vars,
                    NEW d \in Callers
             PROVE  CallOK(d)'
  OBVIOUS
<1>1. CASE Mine
  BY <1>1, CallKept DEF Mine
<1>2. CASE Poll \/ ReForkFails
  <2>1. follower'.pc \in {"sleep", "forking"}
    BY <1>2 DEF Poll, ReForkFails, Shape
  <2>. QED  BY <1>2, <2>1, CallKept DEF Poll, ReForkFails
<1>3. CASE ReFork \/ WriteEnv \/ WriteBase
  <2>1. refreshed' \in Blocks /\ refreshed <= refreshed'
    BY <1>3, Bounds DEF ReFork, WriteEnv, WriteBase, Shape, ManagerOK, Blocks
  <2>. QED  BY <1>3, <2>1, CallOverlapped DEF ReFork, WriteEnv, WriteBase
<1>4. ASSUME NEW c \in Callers,
             \/ \E op \in {"fork", "forkAt", "restore"}, n \in Blocks \cup {NoBlock} : Open(c, op, n)
             \/ ReadBase(c) \/ ReadFallback(c) \/ ReadEnv(c) \/ EnterCell(c) \/ StartInit(c)
             \/ FactoryOk(c) \/ FactoryErr(c) \/ TakeCell(c) \/ Cancel(c) \/ Return(c)
      PROVE  CallOK(d)'
  <2>1. UNCHANGED tipVars /\ (d # c => call'[d] = call[d])
    BY <1>4, CallerStep
  <2>2. CASE d = c
    BY <1>4, <2>1, <2>2, OwnStep
  <2>3. CASE d # c
    BY <2>1, <2>3, CallKept DEF tipVars
  <2>. QED  BY <2>2, <2>3
<1>5. CASE UNCHANGED vars
  BY <1>5, CallKept DEF vars, tipVars
<1>. QED  BY StepCases, <1>1, <1>2, <1>3, <1>4, <1>5

----------------------------------------------------------------------------
\* The invariant holds in every state.
THEOREM Inductive == Spec => []IInv
<1>1. Init => IInv
  <2> SUFFICES ASSUME Init PROVE IInv
    OBVIOUS
  <2>1. Shape
    <3>1. call \in [Callers -> CallShape] /\ \A c \in Callers : call[c].pc # "pinned"
      BY NoCallShape DEF Init, NoCall, NewCall
    <3>2. cells \in [Blocks -> Nat] /\ uses \in Nat
      BY DEF Init, NoCell
    <3>. QED  BY <3>1, <3>2, Bounds DEF Init, Shape
  <2>2. ManagerOK
    BY Bounds DEF Init, ManagerOK, Blocks
  <2>3. \A c \in Callers : CallOK(c)
    BY DEF Init, NoCall, NewCall, CallOK, SettledCopy, FreshCopy, PathOK, OpenOK, Opened, Copying
  <2>. QED  BY <2>1, <2>2, <2>3 DEF IInv
<1>2. IInv /\ [Next]_vars => IInv'
  BY ShapeStep, ManagerStep, CallsStep DEF IInv
<1>. QED  BY <1>1, <1>2, PTL DEF Spec

\* Whatever the follower does, a session pinned at a block is at that block.
THEOREM Pinned == Spec => []PinnedAtItsBlock
<1>1. IInv => PinnedAtItsBlock
  BY DEF IInv, CallOK, OpenOK, PinnedAtItsBlock
<1>. QED  BY <1>1, Inductive, PTL

\* A session opened while no refresh was under way is at one block, and a
\* restored one at the block its state was saved at.
THEOREM Settled == Spec => []SettledForkIsWhole
<1>1. IInv => SettledForkIsWhole
  BY DEF IInv, CallOK, OpenOK, SettledForkIsWhole
<1>. QED  BY <1>1, Inductive, PTL

\* A session forked after a refresh returned reads nothing older than it.
THEOREM Fresh == Spec => []SeesLastRefresh
<1>1. IInv => SeesLastRefresh
  BY DEF IInv, CallOK, OpenOK, SeesLastRefresh
<1>. QED  BY <1>1, Inductive, PTL
----------------------------------------------------------------------------
(* The pinned blocks *)

\* How the pinned-block cache is typed, and how far each counter can be.
PinShape ==
  /\ cells \in [Blocks -> Nat] /\ uses \in Nat
  /\ recency \in Seq(Blocks) /\ Len(recency) <= Cap
  /\ lastUse \in [Blocks -> Nat] /\ evictedAt \in [Blocks -> Nat]
  /\ \A n \in Blocks : cells[n] <= uses /\ lastUse[n] <= uses /\ evictedAt[n] <= uses
  /\ ready \subseteq 1 .. uses

\* A call has a cell from get_or_insert on, and only with a block to pin; it
\* still has it, in the cache, unless the block has been evicted since.
CellOK(c) ==
  /\ call[c].cell <= uses
  /\ call[c].pc \in {"cell", "factory"} => call[c].cell # NoCell
  /\ call[c].cell # NoCell => call[c].want \in Blocks
  /\ call[c].cell # NoCell /\ call[c].cell > evictedAt[call[c].want]
       => cells[call[c].want] = call[c].cell

\* What each caller has still to do fits the bounds of the model.
Pending == {d \in Callers : call[d].pc = "pinned"}
BudgetOK == uses + Cardinality(Pending) <= MaxUses /\ failures \in 0 .. MaxFailures

PinInv == PinShape /\ LeastRecentlyUsed /\ (\A c \in Callers : CellOK(c)) /\ BudgetOK

Listed(q) == {q[i] : i \in DOMAIN q}
Ranked(q) == \A i, j \in DOMAIN q : i < j => lastUse[q[i]] < lastUse[q[j]]

\* A list ranked by last use holds a block once, so taking out the block at
\* one place takes it out altogether, and leaves the others in their order.
LEMMA WithoutRight ==
  ASSUME recency \in Seq(Blocks), lastUse \in [Blocks -> Nat], Ranked(recency), NEW n \in Blocks
  PROVE  /\ Without(n) \in Seq(Blocks) /\ Len(Without(n)) <= Len(recency)
         /\ Listed(Without(n)) = Listed(recency) \ {n} /\ Ranked(Without(n))
<1>1. CASE \A i \in DOMAIN recency : recency[i] # n
  <2>1. Without(n) = recency
    BY <1>1 DEF Without
  <2>2. Listed(recency) = Listed(recency) \ {n}
    BY <1>1 DEF Listed
  <2>. QED  BY <2>1, <2>2
<1>2. ASSUME NEW i \in DOMAIN recency, recency[i] = n
      PROVE  /\ Without(n) \in Seq(Blocks) /\ Len(Without(n)) <= Len(recency)
             /\ Listed(Without(n)) = Listed(recency) \ {n} /\ Ranked(Without(n))
  <2> DEFINE k == CHOOSE k \in DOMAIN recency : recency[k] = n
             w == Without(n)
  <2>1. k \in DOMAIN recency /\ recency[k] = n
    BY <1>2, Zenon
  <2>2. w = [j \in 1 .. Len(recency) - 1 |-> recency[IF j < k THEN j ELSE j + 1]]
    BY <1>2 DEF Without
  <2> HIDE DEF k, w
  <2>3. DOMAIN recency = 1 .. Len(recency) /\ Len(recency) \in Nat
    OBVIOUS
  <2>4. \A j \in 1 .. Len(recency) - 1 :
          /\ (IF j < k THEN j ELSE j + 1) \in DOMAIN recency \ {k}
          /\ w[j] = recency[IF j < k THEN j ELSE j + 1]
    BY <2>1, <2>2, <2>3
  <2>5. w \in Seq(Blocks) /\ Len(w) = Len(recency) - 1 /\ DOMAIN w = 1 .. Len(recency) - 1
    BY <2>1, <2>2, <2>3, <2>4
  <2>6. \A j \in DOMAIN recency : j # k => recency[j] # n
    <3> SUFFICES ASSUME NEW j \in DOMAIN recency, j # k, recency[j] = n PROVE FALSE
      OBVIOUS
    <3>1. j < k \/ k < j
      BY <2>1, <2>3
    <3>2. lastUse[n] < lastUse[n]
      BY <2>1, <3>1 DEF Ranked
    <3>3. lastUse[n] \in Nat
      OBVIOUS
    <3>. QED  BY <3>2, <3>3
  <2>7. Listed(w) \subseteq Listed(recency) \ {n}
    BY <2>4, <2>5, <2>6 DEF Listed
  <2>8. Listed(recency) \ {n} \subseteq Listed(w)
    <3> SUFFICES ASSUME NEW j \in DOMAIN recency, recency[j] # n
                 PROVE  \E h \in DOMAIN w : w[h] = recency[j]
      BY DEF Listed
    <3>1. CASE j < k
      <4>1. j \in 1 .. Len(recency) - 1 /\ w[j] = recency[j]
        BY <2>1, <2>3, <2>4, <3>1
      <4>. QED  BY <4>1, <2>5
    <3>2. CASE k < j
      <4>1. j - 1 \in 1 .. Len(recency) - 1 /\ ~(j - 1 < k) /\ (j - 1) + 1 = j
        BY <2>1, <2>3, <3>2
      <4>2. w[j - 1] = recency[j]
        BY <4>1, <2>4
      <4>. QED  BY <4>1, <4>2, <2>5
    <3>. QED  BY <2>1, <2>3, <3>1, <3>2
  <2>9. Ranked(w)
    <3> SUFFICES ASSUME NEW a \in DOMAIN w, NEW b \in DOMAIN w, a < b
                 PROVE  lastUse[w[a]] < lastUse[w[b]]
      BY DEF Ranked
    <3> DEFINE aa == IF a < k THEN a ELSE a + 1
               bb == IF b < k THEN b ELSE b + 1
    <3>1. aa \in DOMAIN recency /\ bb \in DOMAIN recency /\ w[a] = recency[aa] /\ w[b] = recency[bb]
      BY <2>4, <2>5
    <3>2. aa < bb
      <4>1. a \in Int /\ b \in Int /\ k \in Int
        BY <2>1, <2>3, <2>5
      <4>. QED  BY <4>1
    <3> HIDE DEF aa, bb
    <3>. QED  BY <3>1, <3>2 DEF Ranked
  <2>10. w \in Seq(Blocks) /\ Len(w) <= Len(recency)
    BY <2>3, <2>5
  <2>. QED  BY <2>7, <2>8, <2>9, <2>10 DEF w
<1>. QED  BY <1>1, <1>2, Zenon

\* The blocks in order of use when n is the last used: the others, then n.
LEMMA UsedRight ==
  ASSUME PinShape, LeastRecentlyUsed, NEW n \in Blocks, lastUse' = [lastUse EXCEPT ![n] = uses + 1]
  PROVE  /\ Used(n) \in Seq(Blocks) /\ Len(Used(n)) \in 1 .. Cap + 1
         /\ Used(n)[Len(Used(n))] = n
         /\ \A i \in 1 .. Len(Used(n)) - 1 : Used(n)[i] # n
         /\ Listed(Used(n)) = Listed(recency) \cup {n}
         /\ \A i, j \in 1 .. Len(Used(n)) : i < j => lastUse'[Used(n)[i]] < lastUse'[Used(n)[j]]
<1> DEFINE w == Without(n)
           u == Used(n)
<1>1. /\ w \in Seq(Blocks) /\ Len(w) <= Len(recency)
      /\ Listed(w) = Listed(recency) \ {n} /\ Ranked(w)
  <2>1. Ranked(recency)
    BY DEF LeastRecentlyUsed, Ranked
  <2>. QED  BY <2>1, WithoutRight DEF PinShape
<1>2. u = Append(w, n)
  BY DEF Used
<1> HIDE DEF w, u
<1>3. /\ u \in Seq(Blocks) /\ Len(u) = Len(w) + 1 /\ u[Len(u)] = n
      /\ \A i \in 1 .. Len(w) : u[i] = w[i]
  BY <1>1, <1>2
<1>4. Len(w) \in Nat /\ Len(u) \in 1 .. Cap + 1 /\ DOMAIN w = 1 .. Len(w) /\ DOMAIN u = 1 .. Len(u)
  BY <1>1, <1>3, ForksAssumption DEF PinShape
<1>5. \A i \in 1 .. Len(w) : w[i] \in Blocks \ {n}
  BY <1>1, <1>4 DEF Listed
<1>6. Listed(u) = Listed(recency) \cup {n}
  <2>1. Listed(u) = Listed(w) \cup {n}
    BY <1>3, <1>4 DEF Listed
  <2>. QED  BY <1>1, <2>1
<1>7. \A m \in Blocks \ {n} : lastUse'[m] = lastUse[m] /\ lastUse[m] < uses + 1
  BY DEF PinShape
<1>8. lastUse'[n] = uses + 1
  BY DEF PinShape
<1>9. ASSUME NEW i \in 1 .. Len(u), NEW j \in 1 .. Len(u), i < j
      PROVE  lastUse'[u[i]] < lastUse'[u[j]]
  <2>1. i \in 1 .. Len(w) /\ u[i] = w[i] /\ w[i] \in Blocks \ {n}
    BY <1>3, <1>4, <1>5, <1>9
  <2>2. CASE j = Len(u)
    BY <1>3, <1>7, <1>8, <2>1, <2>2
  <2>3. CASE j # Len(u)
    <3>1. j \in 1 .. Len(w) /\ u[j] = w[j] /\ w[j] \in Blocks \ {n}
      BY <1>3, <1>4, <1>5, <2>3
    <3>2. lastUse[w[i]] < lastUse[w[j]]
      BY <1>1, <1>4, <1>9, <2>1, <3>1 DEF Ranked
    <3>. QED  BY <1>7, <2>1, <3>1, <3>2
  <2>. QED  BY <2>2, <2>3
<1>10. \A i \in 1 .. Len(u) - 1 : u[i] # n
  BY <1>3, <1>4, <1>5
<1>. QED  BY <1>3, <1>4, <1>6, <1>9, <1>10 DEF u

\* What get_or_insert leaves of the cache when it evicts the blocks of gone:
\* never the one asked for, and only blocks used before all that stay.
Entered(n, gone) ==
  /\ recency' \in Seq(Blocks) /\ Len(recency') <= Cap
  /\ Listed(recency)' = (Listed(recency) \cup {n}) \ gone
  /\ \A i, j \in DOMAIN recency' : i < j => lastUse'[recency'[i]] < lastUse'[recency'[j]]
  /\ \A m \in gone, l \in Listed(recency)' : lastUse'[m] < lastUse'[l]
  /\ lastUse' = [lastUse EXCEPT ![n] = uses + 1] /\ uses' = uses + 1
  /\ cells' = [m \in Blocks |-> IF m \in gone THEN NoCell
                                ELSE IF m = n THEN CellOf(n) ELSE cells[m]]
  /\ evictedAt' = [m \in Blocks |-> IF m \in gone THEN uses + 1 ELSE evictedAt[m]]

\* get_or_insert leaves the cache like that.
LEMMA EnterRight ==
  ASSUME PinShape, LeastRecentlyUsed, NEW c \in Callers, EnterCell(c), NEW n \in Blocks,
         call[c].want = n
  PROVE  \E gone \in SUBSET (Listed(recency) \ {n}) : Entered(n, gone)
<1> DEFINE u == Used(n)
           over == Overflow(u)
           gone == {u[i] : i \in 1 .. over}
<1>1. /\ recency' = SubSeq(u, over + 1, Len(u))
      /\ cells' = [m \in Blocks |-> IF m \in gone THEN NoCell
                                    ELSE IF m = n THEN CellOf(n) ELSE cells[m]]
      /\ uses' = uses + 1
      /\ lastUse' = [lastUse EXCEPT ![n] = uses + 1]
      /\ evictedAt' = [m \in Blocks |-> IF m \in gone THEN uses + 1 ELSE evictedAt[m]]
  BY DEF EnterCell
<1>2. /\ u \in Seq(Blocks) /\ Len(u) \in 1 .. Cap + 1 /\ u[Len(u)] = n
      /\ \A i \in 1 .. Len(u) - 1 : u[i] # n
      /\ Listed(u) = Listed(recency) \cup {n}
      /\ \A i, j \in 1 .. Len(u) : i < j => lastUse'[u[i]] < lastUse'[u[j]]
  BY <1>1, UsedRight
<1> HIDE DEF u
<1>3. over \in {0, 1} /\ over < Len(u) /\ Len(u) - over <= Cap /\ Len(u) \in Nat /\ DOMAIN u = 1 .. Len(u)
  BY <1>2, ForksAssumption DEF Overflow
<1> HIDE DEF over
<1>4. /\ recency' \in Seq(Blocks) /\ Len(recency') = Len(u) - over
      /\ DOMAIN recency' = 1 .. Len(u) - over
      /\ \A i \in 1 .. Len(u) - over : recency'[i] = u[i + over] /\ i + over \in 1 .. Len(u)
  <2>1. over + 1 \in 1 .. Len(u) /\ Len(u) \in 1 .. Len(u)
    BY <1>2, <1>3
  <2>2. \A i \in over + 1 .. Len(u) : u[i] \in Blocks
    BY <1>2, <1>3
  <2>3. recency' = [i \in 1 .. Len(u) - over |-> u[i + over]]
    BY <1>1, <1>3, <2>1
  <2>. QED  BY <1>3, <2>2, <2>3
<1>5. \A i, j \in DOMAIN recency' : i < j => lastUse'[recency'[i]] < lastUse'[recency'[j]]
  <2> SUFFICES ASSUME NEW i \in 1 .. Len(u) - over, NEW j \in 1 .. Len(u) - over, i < j
               PROVE  lastUse'[recency'[i]] < lastUse'[recency'[j]]
    BY <1>4
  <2>1. i + over \in 1 .. Len(u) /\ j + over \in 1 .. Len(u) /\ i + over < j + over
    BY <1>3
  <2>. QED  BY <1>2, <1>4, <2>1
<1>6. gone \subseteq Listed(recency) \ {n}
  <2>1. \A i \in 1 .. over : i \in 1 .. Len(u) - 1
    BY <1>3
  <2>2. \A i \in 1 .. over : u[i] \in Listed(u) /\ u[i] # n
    BY <1>2, <1>3, <2>1 DEF Listed
  <2>. QED  BY <1>2, <2>2
<1>7. Listed(recency)' = Listed(u) \ gone
  <2>1. \A m \in Listed(recency)' : \E i \in 1 .. Len(u) : over < i /\ m = u[i]
    <3>1. \A i \in 1 .. Len(u) - over : over < i + over
      BY <1>3
    <3>. QED  BY <1>4, <3>1 DEF Listed
  <2>2. \A i \in 1 .. Len(u) : over < i => u[i] \in Listed(recency)'
    <3>1. \A i \in 1 .. Len(u) : over < i => i - over \in 1 .. Len(u) - over /\ (i - over) + over = i
      BY <1>3
    <3>. QED  BY <1>4, <3>1 DEF Listed
  <2>3. \A i, j \in 1 .. Len(u) : u[i] = u[j] => i = j
    <3>1. \A m \in Blocks : lastUse'[m] \in Nat
      BY <1>1 DEF PinShape
    <3>2. \A i \in 1 .. Len(u) : lastUse'[u[i]] \in Nat
      BY <1>2, <1>3, <3>1
    <3>. QED  BY <1>2, <1>3, <3>2
  <2>4. \A i \in 1 .. over : i \in 1 .. Len(u)
    BY <1>3
  <2>5. Listed(recency)' \subseteq Listed(u) \ gone
    <3> SUFFICES ASSUME NEW m \in Listed(recency)' PROVE m \in Listed(u) \ gone
      OBVIOUS
    <3>1. PICK i \in 1 .. Len(u) : over < i /\ m = u[i]
      BY <2>1
    <3>2. \A j \in 1 .. over : j # i
      BY <1>3, <3>1
    <3>. QED  BY <1>3, <2>3, <2>4, <3>1, <3>2 DEF Listed
  <2>6. Listed(u) \ gone \subseteq Listed(recency)'
    <3> SUFFICES ASSUME NEW i \in 1 .. Len(u), u[i] \notin gone PROVE u[i] \in Listed(recency)'
      BY <1>3 DEF Listed
    <3>1. over < i
      BY <1>3
    <3>. QED  BY <2>2, <3>1
  <2>. QED  BY <2>5, <2>6
<1>8. \A m \in gone, l \in Listed(recency)' : lastUse'[m] < lastUse'[l]
  <2> SUFFICES ASSUME NEW h \in 1 .. over, NEW i \in 1 .. Len(u) - over
               PROVE  lastUse'[u[h]] < lastUse'[u[i + over]]
    BY <1>4 DEF Listed
  <2>1. h \in 1 .. Len(u) /\ i + over \in 1 .. Len(u) /\ h < i + over
    BY <1>3
  <2>. QED  BY <1>2, <2>1
<1>9. Len(recency') <= Cap
  BY <1>3, <1>4
<1> HIDE DEF gone
<1>. QED  BY <1>1, <1>2, <1>4, <1>5, <1>6, <1>7, <1>8, <1>9, Zenon DEF Entered

\* Every step that asks for no pinned block leaves the cache as it is, but for
\* the cell a factory initialises.
LEMMA CacheKept ==
  ASSUME [Next]_vars, \A c \in Callers : ~EnterCell(c)
  PROVE  /\ UNCHANGED <<cells, recency, uses, lastUse, evictedAt>>
         /\ ready' = ready \/ \E c \in Callers : call[c].pc = "factory" /\ ready' = ready \cup {call[c].cell}
<1>1. CASE Mine \/ Poll \/ ReFork \/ ReForkFails \/ WriteEnv \/ WriteBase
  BY <1>1 DEF Mine, Poll, ReFork, ReForkFails, WriteEnv, WriteBase, pinVars
<1>2. ASSUME NEW c \in Callers,
             \/ \E op \in {"fork", "forkAt", "restore"}, n \in Blocks \cup {NoBlock} : Open(c, op, n)
             \/ ReadBase(c) \/ ReadFallback(c) \/ ReadEnv(c) \/ StartInit(c)
             \/ FactoryErr(c) \/ TakeCell(c) \/ Cancel(c) \/ Return(c)
      PROVE  UNCHANGED pinVars
  BY <1>2 DEF Open, ReadBase, ReadFallback, ReadEnv, StartInit, FactoryErr, TakeCell, Cancel, Return
<1>3. ASSUME NEW c \in Callers, FactoryOk(c)
      PROVE  /\ UNCHANGED <<cells, recency, uses, lastUse, evictedAt>>
             /\ call[c].pc = "factory" /\ ready' = ready \cup {call[c].cell}
  BY <1>3 DEF FactoryOk
<1>4. CASE UNCHANGED vars
  BY <1>4 DEF vars, pinVars
<1>5. UNCHANGED pinVars => UNCHANGED <<cells, recency, uses, lastUse, evictedAt, ready>>
  BY DEF pinVars
<1>. QED  BY StepCases, <1>1, <1>2, <1>3, <1>4, <1>5, Zenon

\* Every step keeps the shape of the cache.
LEMMA PinShapeStep ==
  Shape /\ PinShape /\ LeastRecentlyUsed /\ (\A c \in Callers : CellOK(c)) /\ [Next]_vars => PinShape'
<1> SUFFICES ASSUME Shape, PinShape, LeastRecentlyUsed, \A c \in Callers : CellOK(c), [Next]_vars
             PROVE  PinShape'
  OBVIOUS
<1>1. ASSUME NEW c \in Callers, EnterCell(c) PROVE PinShape'
  <2> DEFINE n == call[c].want
  <2>1. n \in Blocks
    BY <1>1 DEF EnterCell, Shape
  <2>2. PICK gone \in SUBSET (Listed(recency) \ {n}) : Entered(n, gone)
    BY <1>1, <2>1, EnterRight
  <2> HIDE DEF n
  <2>3. CellOf(n) \in Nat /\ CellOf(n) <= uses + 1
    BY <2>1 DEF CellOf, PinShape
  <2>4. /\ cells' \in [Blocks -> Nat] /\ lastUse' \in [Blocks -> Nat] /\ evictedAt' \in [Blocks -> Nat]
        /\ uses' \in Nat
    <3>1. \A m \in Blocks : cells[m] \in Nat /\ evictedAt[m] \in Nat
      BY DEF PinShape
    <3>2. uses' = uses + 1 /\ uses + 1 \in Nat /\ NoCell \in Nat
      BY <2>2 DEF Entered, PinShape, NoCell
    <3>3. cells' \in [Blocks -> Nat]
      BY <2>2, <2>3, <3>1, <3>2 DEF Entered
    <3>4. lastUse' \in [Blocks -> Nat]
      BY <2>2, <3>2 DEF Entered, PinShape
    <3>5. evictedAt' \in [Blocks -> Nat]
      BY <2>2, <3>1, <3>2 DEF Entered
    <3>. QED  BY <3>2, <3>3, <3>4, <3>5
  <2>5. \A m \in Blocks : cells'[m] <= uses' /\ lastUse'[m] <= uses' /\ evictedAt'[m] <= uses'
    BY <2>1, <2>2, <2>3 DEF Entered, PinShape, NoCell
  <2>6. ready' \subseteq 1 .. uses'
    BY <1>1, <2>2 DEF EnterCell, Entered, PinShape
  <2>. QED  BY <2>2, <2>4, <2>5, <2>6 DEF Entered, PinShape
<1>2. CASE \A c \in Callers : ~EnterCell(c)
  <2>1. ready' \subseteq 1 .. uses
    <3>1. \A c \in Callers : call[c].pc = "factory" => call[c].cell \in 1 .. uses
      <4>1. \A c \in Callers : call[c].cell \in Nat
        BY DEF Shape, CallShape
      <4>2. \A c \in Callers : call[c].pc = "factory" => call[c].cell # 0 /\ call[c].cell <= uses
        BY DEF CellOK, NoCell
      <4>3. uses \in Nat
        BY DEF PinShape
      <4>. QED  BY <4>1, <4>2, <4>3
    <3>2. \/ ready' = ready
          \/ \E c \in Callers : call[c].pc = "factory" /\ ready' = ready \cup {call[c].cell}
      BY <1>2, CacheKept
    <3>3. ready \subseteq 1 .. uses
      BY DEF PinShape
    <3>4. ASSUME NEW c \in Callers, call[c].pc = "factory", ready' = ready \cup {call[c].cell}
          PROVE  ready' \subseteq 1 .. uses
      BY <3>1, <3>3, <3>4
    <3>. QED  BY <3>2, <3>3, <3>4, Zenon
  <2>2. UNCHANGED <<cells, recency, uses, lastUse, evictedAt>>
    BY <1>2, CacheKept
  <2>3. ready' \subseteq 1 .. uses'
    BY <2>1, <2>2
  <2>. QED  BY <2>2, <2>3 DEF PinShape
<1>. QED  BY <1>1, <1>2

\* Every step keeps the cache least-recently-used first.
LEMMA RecencyStep == Shape /\ PinShape /\ LeastRecentlyUsed /\ [Next]_vars => LeastRecentlyUsed'
<1> SUFFICES ASSUME Shape, PinShape, LeastRecentlyUsed, [Next]_vars PROVE LeastRecentlyUsed'
  OBVIOUS
<1>1. ASSUME NEW c \in Callers, EnterCell(c) PROVE LeastRecentlyUsed'
  <2> DEFINE n == call[c].want
  <2>1. n \in Blocks
    BY <1>1 DEF EnterCell, Shape
  <2>2. PICK gone \in SUBSET (Listed(recency) \ {n}) : Entered(n, gone)
    BY <1>1, <2>1, EnterRight
  <2> HIDE DEF n
  <2>3. Listed(recency) = {m \in Blocks : cells[m] # NoCell}
    BY DEF LeastRecentlyUsed, Listed
  <2>4. CellOf(n) # NoCell
    BY <2>1 DEF CellOf, PinShape, NoCell
  <2>5. Listed(recency)' = {m \in Blocks : cells'[m] # NoCell}
    BY <2>1, <2>2, <2>3, <2>4 DEF Entered
  <2>6. ASSUME NEW l \in Blocks, NEW m \in Blocks, cells'[l] # NoCell, cells'[m] = NoCell
        PROVE  lastUse'[m] < lastUse'[l]
    <3>1. l \in Listed(recency)' /\ m \notin Listed(recency)' /\ m # n
      BY <2>1, <2>2, <2>4, <2>5, <2>6 DEF Entered
    <3>2. CASE m \in gone
      BY <2>2, <3>1, <3>2 DEF Entered
    <3>3. CASE m \notin gone
      <4>1. cells[m] = NoCell /\ lastUse'[m] = lastUse[m] /\ lastUse[m] <= uses
        BY <2>2, <2>3, <3>1, <3>3 DEF Entered, PinShape
      <4>2. CASE l = n
        BY <2>1, <2>2, <4>1, <4>2 DEF Entered, PinShape
      <4>3. CASE l # n
        BY <2>2, <2>3, <3>1, <4>1, <4>3 DEF Entered, PinShape, LeastRecentlyUsed
      <4>. QED  BY <4>2, <4>3
    <3>. QED  BY <3>2, <3>3
  <2>7. {recency'[i] : i \in DOMAIN recency'} = {m \in Blocks : cells'[m] # NoCell}
    BY <2>5 DEF Listed
  <2>8. \A i, j \in DOMAIN recency' : i < j => lastUse'[recency'[i]] < lastUse'[recency'[j]]
    BY <2>2 DEF Entered
  <2>. QED  BY <2>6, <2>7, <2>8 DEF LeastRecentlyUsed
<1>2. CASE \A c \in Callers : ~EnterCell(c)
  BY <1>2, CacheKept DEF LeastRecentlyUsed
<1>. QED  BY <1>1, <1>2

\* A call keeps its cell, and the cell its place, as long as the call's cell,
\* its block and the cache stay the same; a call without a cell has none to keep.
LEMMA CellKept ==
  ASSUME NEW d \in Callers, CellOK(d), UNCHANGED <<uses, cells, evictedAt>>,
         \/ /\ call'[d].cell = call[d].cell /\ call'[d].want = call[d].want
            /\ call'[d].pc \in {"cell", "factory"} => call[d].pc \in {"cell", "factory"}
         \/ call'[d].cell = NoCell /\ call'[d].pc \notin {"cell", "factory"}
  PROVE  uses \in Nat => CellOK(d)'
BY DEF CellOK, NoCell

\* Marking the copying calls leaves their cells.
LEMMA OverlappedCell ==
  ASSUME Shape, NEW d \in Callers, call' = Overlapped
  PROVE  call'[d].cell = call[d].cell /\ call'[d].want = call[d].want /\ call'[d].pc = call[d].pc
BY DEF Overlapped, Shape, CallShape

\* A caller that enters a cell has the one the cache has for its block; the
\* others still have theirs, unless their block is evicted.
LEMMA EnteredCells ==
  ASSUME Shape, PinShape, LeastRecentlyUsed, \A c \in Callers : CellOK(c),
         NEW c \in Callers, EnterCell(c), NEW d \in Callers
  PROVE  CellOK(d)'
<1> DEFINE n == call[c].want
<1>1. n \in Blocks
  BY DEF EnterCell, Shape
<1>2. PICK gone \in SUBSET (Listed(recency) \ {n}) : Entered(n, gone)
  BY <1>1, EnterRight
<1>3. CellOf(n) \in Nat /\ CellOf(n) # NoCell /\ CellOf(n) <= uses + 1
  BY <1>1 DEF CellOf, PinShape, NoCell
<1>4. call' = [call EXCEPT ![c] = [call[c] EXCEPT !.pc = "cell", !.cell = CellOf(n)]]
  BY DEF EnterCell
<1>5. /\ uses' = uses + 1
      /\ \A m \in Blocks : m \notin gone =>
           cells'[m] = (IF m = n THEN CellOf(n) ELSE cells[m]) /\ evictedAt'[m] = evictedAt[m]
      /\ \A m \in gone : m \in Blocks => evictedAt'[m] = uses + 1
      /\ n \notin gone
  BY <1>2 DEF Entered
<1>6. uses \in Nat /\ \A m \in Blocks : cells[m] <= uses
  BY DEF PinShape
<1>7. CASE d = c
  <2>1. call'[d].pc = "cell" /\ call'[d].cell = CellOf(n) /\ call'[d].want = n
    BY <1>4, <1>7 DEF Shape, CallShape
  <2>2. cells'[n] = CellOf(n)
    BY <1>1, <1>5
  <2> HIDE DEF n
  <2>. QED  BY <1>1, <1>3, <1>5, <2>1, <2>2 DEF CellOK
<1>8. CASE d # c
  <2> DEFINE m == call[d].want
  <2>1. call'[d] = call[d]
    BY <1>4, <1>8 DEF Shape
  <2>2. call[d].cell \in Nat /\ call[d].cell <= uses /\ (call[d].cell # NoCell => m \in Blocks)
    BY DEF CellOK, Shape, CallShape
  <2>3. CASE call[d].cell # NoCell /\ call[d].cell > evictedAt'[m]
    <3>1. m \in Blocks /\ m \notin gone
      BY <1>5, <1>6, <2>2, <2>3
    <3>2. cells[m] = call[d].cell
      BY <1>5, <2>3, <3>1 DEF CellOK
    <3>3. cells'[m] = call[d].cell
      BY <1>5, <2>3, <3>1, <3>2 DEF CellOf
    <3>. QED  BY <1>5, <1>6, <2>1, <2>2, <2>3, <3>1, <3>3 DEF CellOK
  <2>4. CASE ~(call[d].cell # NoCell /\ call[d].cell > evictedAt'[m])
    BY <1>5, <1>6, <2>1, <2>2, <2>4 DEF CellOK
  <2>. QED  BY <2>3, <2>4
<1>. QED  BY <1>7, <1>8

\* Every step keeps every call's cell.
LEMMA CellsStep ==
  Shape /\ PinShape /\ LeastRecentlyUsed /\ (\A c \in Callers : CellOK(c)) /\ [Next]_vars
    => \A c \in Callers : CellOK(c)'
<1> SUFFICES ASSUME Shape, PinShape, LeastRecentlyUsed, \A c \in Callers : CellOK(c), [Next]_vars,
                    NEW d \in Callers
             PROVE  CellOK(d)'
  OBVIOUS
<1> DEFINE Goal == CellOK(d)'
<1> SUFFICES Goal
  OBVIOUS
<1>1. uses \in Nat
  BY DEF PinShape
<1>2. ASSUME \A c \in Callers : ~EnterCell(c),
             \/ /\ call'[d].cell = call[d].cell /\ call'[d].want = call[d].want
                /\ call'[d].pc \in {"cell", "factory"} => call[d].pc \in {"cell", "factory"}
             \/ call'[d].cell = NoCell /\ call'[d].pc \notin {"cell", "factory"}
      PROVE  Goal
  <2>1. UNCHANGED <<uses, cells, evictedAt>>
    BY <1>2, CacheKept
  <2>. QED  BY <1>1, <1>2, <2>1, CellKept
<1>3. ASSUME NEW c \in Callers, EnterCell(c) PROVE Goal
  BY <1>3, EnteredCells
<1>4. CASE Mine \/ Poll \/ ReForkFails \/ UNCHANGED vars
  <2>1. call'[d] = call[d] /\ \A c \in Callers : EnterCell(c) => Goal
    BY <1>3, <1>4 DEF Mine, Poll, ReForkFails, vars
  <2> HIDE DEF Goal
  <2>. QED  BY <1>2, <2>1
<1>5. CASE ReFork \/ WriteEnv \/ WriteBase
  <2>1. /\ call'[d].cell = call[d].cell /\ call'[d].want = call[d].want /\ call'[d].pc = call[d].pc
    BY <1>5, OverlappedCell DEF ReFork, WriteEnv, WriteBase
  <2> HIDE DEF Goal
  <2>. QED  BY <1>2, <1>3, <2>1
<1>6. ASSUME NEW c \in Callers, NEW op \in {"fork", "forkAt", "restore"},
             NEW n \in Blocks \cup {NoBlock}, Open(c, op, n)
      PROVE  Goal
  <2>1. call'[d] = call[d] \/ (call'[d].cell = NoCell /\ call'[d].pc \in {"base", "pinned"})
    BY <1>6 DEF Open, NewCall, Shape
  <2> HIDE DEF Goal
  <2>. QED  BY <1>2, <1>3, <2>1
<1>7. ASSUME NEW c \in Callers,
             \/ ReadBase(c) \/ ReadFallback(c) \/ ReadEnv(c) \/ StartInit(c)
             \/ FactoryOk(c) \/ FactoryErr(c) \/ TakeCell(c)
      PROVE  Goal
  <2>1. /\ call'[d].cell = call[d].cell /\ call'[d].want = call[d].want
        /\ call'[d].pc \in {"cell", "factory"} => call[d].pc \in {"cell", "factory"}
    <3>1. CASE d # c
      BY <1>7, <3>1 DEF ReadBase, ReadFallback, ReadEnv, StartInit, FactoryOk, FactoryErr, TakeCell, Shape
    <3>2. CASE d = c
      <4>1. call[d] \in CallShape
        BY DEF Shape
      <4>2. CASE ReadBase(c)
        BY <3>2, <4>1, <4>2 DEF ReadBase, Shape, CallShape
      <4>3. CASE ReadFallback(c)
        BY <3>2, <4>1, <4>3 DEF ReadFallback, Shape, CallShape
      <4>4. CASE ReadEnv(c)
        BY <3>2, <4>1, <4>4 DEF ReadEnv, Shape, CallShape
      <4>5. CASE StartInit(c) \/ FactoryOk(c)
        BY <3>2, <4>1, <4>5 DEF StartInit, FactoryOk, Shape, CallShape
      <4>6. CASE FactoryErr(c)
        BY <3>2, <4>1, <4>6 DEF FactoryErr, Shape, CallShape
      <4>7. CASE TakeCell(c)
        BY <3>2, <4>1, <4>7 DEF TakeCell, Shape, CallShape
      <4>. QED  BY <1>7, <4>2, <4>3, <4>4, <4>5, <4>6, <4>7
    <3>. QED  BY <3>1, <3>2
  <2> HIDE DEF Goal
  <2>. QED  BY <1>2, <1>3, <2>1
<1>8. ASSUME NEW c \in Callers, Cancel(c) \/ Return(c) PROVE Goal
  <2>1. call'[d] = call[d] \/ (call'[d].cell = NoCell /\ call'[d].pc = "idle")
    BY <1>8 DEF Cancel, Return, NoCall, NewCall, Shape
  <2> HIDE DEF Goal
  <2>. QED  BY <1>2, <1>3, <2>1
<1> HIDE DEF Goal
<1>. QED  BY StepCases, <1>3, <1>4, <1>5, <1>6, <1>7, <1>8, Zenon

\* A step of any other kind leaves the calls that have a block to ask for.
LEMMA PendingKept ==
  ASSUME Shape, [Next]_vars, \A c \in Callers : ~EnterCell(c),
         \A c \in Callers, op \in {"fork", "forkAt", "restore"}, n \in Blocks \cup {NoBlock} : ~Open(c, op, n)
  PROVE  Pending' = Pending
<1> DEFINE Goal == \A d \in Callers : (call'[d].pc = "pinned") = (call[d].pc = "pinned")
<1> SUFFICES Goal
  BY DEF Pending
<1>1. CASE Mine \/ Poll \/ ReForkFails \/ UNCHANGED vars
  BY <1>1 DEF Mine, Poll, ReForkFails, vars
<1>2. CASE ReFork \/ WriteEnv \/ WriteBase
  BY <1>2, OverlappedCell DEF ReFork, WriteEnv, WriteBase
<1>3. ASSUME NEW c \in Callers,
             \/ ReadBase(c) \/ ReadFallback(c) \/ ReadEnv(c) \/ StartInit(c)
             \/ FactoryOk(c) \/ FactoryErr(c) \/ TakeCell(c) \/ Cancel(c) \/ Return(c)
      PROVE  Goal
  <2>1. call[c].pc # "pinned"
    BY <1>3 DEF ReadBase, ReadFallback, ReadEnv, StartInit, FactoryOk, FactoryErr, TakeCell, Cancel, Return
  <2>2. call'[c].pc # "pinned"
    <3>1. call[c] \in CallShape
      BY DEF Shape
    <3>2. CASE ReadBase(c)
      BY <3>1, <3>2 DEF ReadBase, Shape, CallShape
    <3>3. CASE ReadFallback(c)
      BY <3>1, <3>3 DEF ReadFallback, Shape, CallShape
    <3>4. CASE ReadEnv(c)
      BY <3>1, <3>4 DEF ReadEnv, Shape, CallShape
    <3>5. CASE StartInit(c) \/ FactoryOk(c) \/ FactoryErr(c)
      BY <3>1, <3>5 DEF StartInit, FactoryOk, FactoryErr, Shape, CallShape
    <3>6. CASE TakeCell(c)
      BY <3>1, <3>6 DEF TakeCell, Shape, CallShape
    <3>7. CASE Cancel(c) \/ Return(c)
      BY <3>7 DEF Cancel, Return, NoCall, NewCall, Shape
    <3>. QED  BY <1>3, <3>2, <3>3, <3>4, <3>5, <3>6, <3>7
  <2>3. \A d \in Callers : d # c => call'[d] = call[d]
    BY <1>3, CallerStep
  <2>. QED  BY <2>1, <2>2, <2>3
<1> HIDE DEF Goal
<1>. QED  BY StepCases, <1>1, <1>2, <1>3, Zenon

\* A call that asks for a block by number does so within the model's bound.
LEMMA BudgetStep == Shape /\ PinShape /\ BudgetOK /\ [Next]_vars => BudgetOK'
<1> SUFFICES ASSUME Shape, PinShape, BudgetOK, [Next]_vars PROVE BudgetOK'
  OBVIOUS
<1>1. /\ IsFiniteSet(Pending) /\ Cardinality(Pending) \in Nat
      /\ uses \in Nat /\ MaxUses \in Nat /\ MaxFailures \in Nat
  <2>1. Pending \subseteq Callers
    BY DEF Pending
  <2>. QED  BY <2>1, ForksAssumption, FS_Subset, FS_CardinalityType DEF PinShape
<1>2. failures' \in 0 .. MaxFailures
  <2>1. CASE failures' = failures
    BY <2>1 DEF BudgetOK
  <2>2. CASE ReForkFails
    BY <1>1, <2>2 DEF ReForkFails, BudgetOK
  <2>3. ASSUME NEW c \in Callers, FactoryErr(c) PROVE failures' \in 0 .. MaxFailures
    <3>1. call[c].want \in Nat /\ tip \in Nat
      BY Bounds DEF Shape, CallShape, Blocks
    <3>2. failures' = failures \/ (failures < MaxFailures /\ failures' = failures + 1)
      BY <2>3 DEF FactoryErr, FactoryMayFail
    <3>. QED  BY <1>1, <3>2 DEF BudgetOK
  <2>4. \/ failures' = failures \/ ReForkFails \/ \E c \in Callers : FactoryErr(c)
    BY StepCases DEF Mine, Poll, ReFork, WriteEnv, WriteBase, Open, ReadBase, ReadFallback, ReadEnv,
                     EnterCell, StartInit, FactoryOk, TakeCell, Cancel, Return, vars
  <2>. QED  BY <2>1, <2>2, <2>3, <2>4
<1>3. uses' + Cardinality(Pending') <= MaxUses
  <2> DEFINE Goal == uses' + Cardinality(Pending') <= MaxUses
  <2> SUFFICES Goal
    OBVIOUS
  <2>1. ASSUME NEW c \in Callers, EnterCell(c) PROVE Goal
    <3>1. uses' = uses + 1 /\ c \in Pending
      BY <2>1 DEF EnterCell, Pending
    <3>2. call'[c].pc = "cell" /\ \A d \in Callers : d # c => call'[d] = call[d]
      BY <2>1 DEF EnterCell, Shape, CallShape
    <3>3. Pending' = Pending \ {c}
      BY <3>2 DEF Pending
    <3>4. Cardinality(Pending \ {c}) = Cardinality(Pending) - 1
      BY <1>1, <3>1, FS_RemoveElement
    <3>. QED  BY <1>1, <3>1, <3>3, <3>4 DEF BudgetOK
  <2>2. ASSUME NEW c \in Callers, NEW op \in {"fork", "forkAt", "restore"},
               NEW n \in Blocks \cup {NoBlock}, Open(c, op, n)
        PROVE  Goal
    <3>1. uses' = uses
      BY <2>2 DEF Open, pinVars
    <3>2. /\ call[c].pc = "idle" /\ \A d \in Callers : d # c => call'[d] = call[d]
          /\ call'[c].pc = IF ByDefault(op, n) THEN "base" ELSE "pinned"
      BY <2>2 DEF Open, NewCall, Shape
    <3>3. CASE ByDefault(op, n)
      <4>1. Pending' = Pending
        BY <3>2, <3>3 DEF Pending
      <4>. QED  BY <3>1, <4>1 DEF BudgetOK
    <3>4. CASE ~ByDefault(op, n)
      <4>1. Pending' = Pending \cup {c} /\ c \notin Pending
        BY <3>2, <3>4 DEF Pending
      <4>2. Cardinality(Pending \cup {c}) = Cardinality(Pending) + 1
        BY <1>1, <4>1, FS_AddElement
      <4>3. uses + Cardinality(Pending) < MaxUses
        BY <2>2, <3>4 DEF Open, Pending
      <4>. QED  BY <1>1, <3>1, <4>1, <4>2, <4>3
    <3>. QED  BY <3>3, <3>4
  <2>3. CASE /\ \A c \in Callers : ~EnterCell(c)
             /\ \A c \in Callers, op \in {"fork", "forkAt", "restore"},
                   n \in Blocks \cup {NoBlock} : ~Open(c, op, n)
    <3>1. Pending' = Pending /\ uses' = uses
      BY <2>3, PendingKept, CacheKept
    <3>. QED  BY <3>1 DEF BudgetOK
  <2> HIDE DEF Goal
  <2>. QED  BY <2>1, <2>2, <2>3
<1>. QED  BY <1>2, <1>3 DEF BudgetOK

\* The pinned-block cache is right in every state.
THEOREM PinnedInductive == Spec => []PinInv
<1>1. Init => PinInv
  <2> SUFFICES ASSUME Init PROVE PinInv
    OBVIOUS
  <2>1. PinShape /\ LeastRecentlyUsed
    BY ForksAssumption DEF Init, PinShape, LeastRecentlyUsed, NoCell
  <2>2. \A c \in Callers : call[c] = NoCall
    BY DEF Init
  <2>3. \A c \in Callers : CellOK(c)
    BY <2>1, <2>2 DEF CellOK, NoCall, NewCall, NoCell, PinShape
  <2>4. Pending = {}
    BY <2>2 DEF Pending, NoCall, NewCall
  <2>5. BudgetOK
    BY <2>4, ForksAssumption, FS_EmptySet DEF Init, BudgetOK
  <2>. QED  BY <2>1, <2>3, <2>5 DEF PinInv
<1>2. IInv /\ PinInv /\ [Next]_vars => PinInv'
  BY PinShapeStep, RecencyStep, CellsStep, BudgetStep DEF IInv, PinInv
<1>. QED  BY <1>1, <1>2, Inductive, PTL DEF Spec

\* PinnedBlocks stays a least-recently-used cache: recency lists the blocks that
\* have a cell, each once, by their last use, and none without one was used later.
THEOREM PinnedByRecency == Spec => []LeastRecentlyUsed
<1>1. PinInv => LeastRecentlyUsed
  BY DEF PinInv
<1>. QED  BY <1>1, PinnedInductive, PTL

\* The sessions at a block share one cell, with its base and fallback, from the
\* first that asks for it until the block is evicted.
THEOREM OneCellPerBlock == Spec => []SharesPinnedBlock
<1>1. PinInv => SharesPinnedBlock
  BY DEF PinInv, CellOK, SharesPinnedBlock
<1>. QED  BY <1>1, PinnedInductive, PTL

\* Every variable has its type, and at most `cap` blocks stay warm.
THEOREM TypeCorrect == Spec => []TypeOK
<1>1. IInv /\ PinInv => TypeOK
  <2> SUFFICES ASSUME IInv, PinInv PROVE TypeOK
    OBVIOUS
  <2>1. uses \in 0 .. MaxUses
    <3>1. Pending \subseteq Callers
      BY DEF Pending
    <3>2. Cardinality(Pending) \in Nat
      BY <3>1, ForksAssumption, FS_Subset, FS_CardinalityType
    <3>. QED  BY <3>2, ForksAssumption DEF PinInv, PinShape, BudgetOK
  <2>2. MaxUses \in Nat /\ ready \subseteq 1 .. MaxUses
    BY <2>1, ForksAssumption DEF PinInv, PinShape
  <2>3. /\ cells \in [Blocks -> 0 .. MaxUses] /\ lastUse \in [Blocks -> 0 .. MaxUses]
        /\ evictedAt \in [Blocks -> 0 .. MaxUses]
    BY <2>1, <2>2 DEF PinInv, PinShape
  <2>4. call \in [Callers -> CallType]
    <3>1. \A c \in Callers : call[c].cell \in 0 .. MaxUses
      BY <2>1, <2>2 DEF PinInv, CellOK, IInv, Shape, CallShape
    <3>2. \A c \in Callers : call[c] \in CallType
      BY <3>1 DEF IInv, Shape, CallShape, CallType
    <3>. QED  BY <3>2 DEF IInv, Shape
  <2>. QED  BY <2>1, <2>2, <2>3, <2>4 DEF IInv, Shape, PinInv, PinShape, BudgetOK, TypeOK
<1>. QED  BY <1>1, Inductive, PinnedInductive, PTL
=============================================================================
