----------------------------- MODULE CacheProofs -----------------------------
(***************************************************************************)
(* Proofs about Cache, for any number of processes, requests, keys and     *)
(* blocks: files are whole and of their block, a flush never erodes what   *)
(* its process had, and a snapshot that was handed out stays.              *)
(***************************************************************************)
EXTENDS Cache, TLAPS

Saved(pc) == pc \in {"env", "create", "fill", "rename"}

\* The keys a flush at block n would find in process q.
SeedKeys(q, n) == IF q.seed = n THEN KeysOf(q.known) ELSE {}
InReach(q, n) == q.fetched \cup SeedKeys(q, n)

OfBlock(n, d) ==
  /\ d.env \in {NoBlock, n}
  /\ ~d.raced => \A k \in Keys : d.of[k] \in {NoBlock, n}

FileOK(n, f) ==
  /\ f.is # "torn" /\ f.synced
  /\ n \in Blocks /\ f.is = "whole" => OfBlock(n, f.data)

\* A process is at one block outside a refresh, which ends before it shuts
\* down, and was seeded with a file of the block it started at.
ProcOK(p) ==
  LET q == proc[p] IN
    /\ q.stage = "down" => \A t \in Tasks : write[p][t].pc = "idle"
    /\ q.stage # "down" =>
         /\ q.env \in Blocks /\ q.fallback \in Blocks
         /\ q.env <= q.fallback /\ q.fallback <= tip
         /\ ~q.refreshing => q.env = q.fallback
    /\ q.refreshing => q.stage = "up"
    /\ q.seed # NoBlock => OfBlock(q.seed, q.known)

\* What it had at its own block it still has, at later blocks it had nothing.
HadOK(p) ==
  LET q == proc[p] IN
    q.stage # "down" =>
      /\ \A n \in Blocks : n > q.fallback => had[p][n] = {}
      /\ had[p][q.fallback] \subseteq InReach(q, q.fallback)

\* A flush no refresh overlaps is at the block its process is at.
FlushOK(p) ==
  LET q == proc[p] w == write[p][Flush] IN
    /\ w.pc # "idle" => w.name \in Blocks /\ w.name <= q.fallback
    /\ w.pc = "fallback" /\ ~w.overlap => w.name = q.fallback
    /\ Saved(w.pc) => OfBlock(w.name, w.data)
    /\ Saved(w.pc) /\ ~w.data.raced =>
         /\ had[p][w.name] \subseteq KeysOf(w.data)
         /\ w.name = q.fallback => KeysOf(w.data) \subseteq InReach(q, q.fallback)

SaveOK(p, t) ==
  write[p][t].pc # "idle" =>
    write[p][t].pc \notin {"fallback", "env"} /\ write[p][t].name \in Ids

\* What is about to be renamed is all there, and on the disk.
TempOK(p, t) ==
  LET w == write[p][t] IN w.pc = "rename" => temp[TempOf(p, t, w.name)] = SyncedTemp(w.data)

ProcessOK(p) ==
  /\ ProcOK(p) /\ HadOK(p) /\ FlushOK(p)
  /\ \A t \in Savers : SaveOK(p, t)
  /\ \A t \in Tasks : TempOK(p, t)

IInv ==
  /\ TypeOK
  /\ \A n \in Names : FileOK(n, dir[n]) /\ FileOK(n, older[n])
  /\ \A p \in Procs : ProcessOK(p)
  /\ StoredStays

----------------------------------------------------------------------------
(* Types *)

LEMMA EmptyType == Empty \in Contents
  BY CacheAssumption DEF Empty, Contents, NoBlock

LEMMA NoFileType == NoFile \in Files
  BY EmptyType DEF NoFile, Files

LEMMA StartName == Start \in Names
  BY CacheAssumption DEF Names, Blocks

LEMMA NoWriteType == NoWrite \in Writes
  BY EmptyType, StartName DEF NoWrite, Writes

LEMMA DownType == Down \in Processes
  BY CacheAssumption, EmptyType DEF Down, Processes, Stages, NoBlock

LEMMA FlushTask == Flush \in Tasks
  BY DEF Tasks

LEMMA KeysOfType ==
  ASSUME NEW d
  PROVE  KeysOf(d) \in SUBSET Keys
  BY DEF KeysOf

\* One task's store moves on.
LEMMA GotoType ==
  ASSUME NEW p \in Procs, NEW t \in Tasks, NEW w \in Writes,
         write \in [Procs -> [Tasks -> Writes]], Goto(p, t, w)
  PROVE  /\ write' \in [Procs -> [Tasks -> Writes]]
         /\ write'[p][t] = w
         /\ \A q \in Procs, u \in Tasks : <<q, u>> # <<p, t>> => write'[q][u] = write[q][u]
  BY DEF Goto

LEMMA TypeInit == Init => TypeOK
<1> SUFFICES ASSUME Init PROVE TypeOK
  OBVIOUS
<1>1. dir \in [Names -> Files] /\ older \in [Names -> Files]
  BY NoFileType DEF Init
<1>2. temp \in [Procs \X Tasks \X Names -> TempFiles]
  BY NoFileType DEF Init, TempFiles
<1>3. proc \in [Procs -> Processes]
  BY DownType DEF Init
<1>4. write \in [Procs -> [Tasks -> Writes]]
  BY NoWriteType DEF Init
<1>5. TempsUsed
  BY DEF Init, TempsUsed, NoFile
<1>6. had \in [Procs -> [Blocks -> SUBSET Keys]]
  BY DEF Init, NoneKnown
<1> QED
  BY <1>1, <1>2, <1>3, <1>4, <1>5, <1>6, CacheAssumption DEF Init, TypeOK

\* A store that leaves its temp file alone.
LEMMA TempsStay ==
  ASSUME TypeOK, NEW p \in Procs, NEW t \in Tasks, NEW w \in Writes, Goto(p, t, w), temp' = temp,
         write[p][t].pc \notin {"fill", "rename"} \/
           (w.name = write[p][t].name /\ w.pc \in {"fill", "rename"})
  PROVE  /\ write' \in [Procs -> [Tasks -> Writes]]
         /\ temp' \in [Procs \X Tasks \X Names -> TempFiles]
         /\ TempsUsed'
<1>1. write \in [Procs -> [Tasks -> Writes]]
  BY DEF TypeOK
<1>2. /\ write' \in [Procs -> [Tasks -> Writes]] /\ write'[p][t] = w
      /\ \A q \in Procs, u \in Tasks : <<q, u>> # <<p, t>> => write'[q][u] = write[q][u]
  BY <1>1, GotoType
<1>3. temp' \in [Procs \X Tasks \X Names -> TempFiles]
  BY DEF TypeOK
<1>4. ASSUME NEW q \in Procs, NEW u \in Tasks, NEW n \in Names, temp[<<q, u, n>>].is \notin {"none", "left"}
      PROVE  write'[q][u].name = n /\ write'[q][u].pc \in {"fill", "rename"}
  <2>1. write[q][u].name = n /\ write[q][u].pc \in {"fill", "rename"}
    BY <1>4 DEF TypeOK, TempsUsed
  <2>2. CASE <<q, u>> = <<p, t>>
    BY <2>1, <2>2, <1>2
  <2>3. CASE <<q, u>> # <<p, t>>
    BY <2>1, <2>3, <1>2
  <2> QED
    BY <2>2, <2>3
<1> QED
  BY <1>2, <1>3, <1>4 DEF TempsUsed

\* A store that writes its temp file, or is done with it.
LEMMA TempsChange ==
  ASSUME TypeOK, NEW p \in Procs, NEW t \in Tasks, NEW w \in Writes, Goto(p, t, w),
         NEW f \in Files,
         temp' = [temp EXCEPT ![TempOf(p, t, write[p][t].name)] = f],
         f.is # "none" => w.name = write[p][t].name /\ w.pc \in {"fill", "rename"}
  PROVE  /\ write' \in [Procs -> [Tasks -> Writes]]
         /\ temp' \in [Procs \X Tasks \X Names -> TempFiles]
         /\ temp'[TempOf(p, t, write[p][t].name)] = f
         /\ \A q \in Procs, u \in Tasks, n \in Names :
              <<q, u>> # <<p, t>> => temp'[TempOf(q, u, n)] = temp[TempOf(q, u, n)]
         /\ TempsUsed'
<1> DEFINE m == write[p][t].name
<1>1. write \in [Procs -> [Tasks -> Writes]] /\ m \in Names
  BY DEF TypeOK, Writes
<1>2. /\ write' \in [Procs -> [Tasks -> Writes]] /\ write'[p][t] = w
      /\ \A q \in Procs, u \in Tasks : <<q, u>> # <<p, t>> => write'[q][u] = write[q][u]
  BY <1>1, GotoType
<1>3. temp \in [Procs \X Tasks \X Names -> TempFiles] /\ <<p, t, m>> \in Procs \X Tasks \X Names
  BY <1>1 DEF TypeOK
<1>4. /\ temp' \in [Procs \X Tasks \X Names -> TempFiles] /\ temp'[<<p, t, m>>] = f
      /\ \A x \in Procs \X Tasks \X Names : x # <<p, t, m>> => temp'[x] = temp[x]
  BY <1>3 DEF TempOf, TempFiles
<1>5. ASSUME NEW q \in Procs, NEW u \in Tasks, NEW n \in Names, <<q, u, n>> # <<p, t, m>>
      PROVE  temp'[<<q, u, n>>] = temp[<<q, u, n>>]
  BY <1>4, <1>5
<1>6. ASSUME NEW q \in Procs, NEW u \in Tasks, NEW n \in Names, temp'[<<q, u, n>>].is \notin {"none", "left"}
      PROVE  write'[q][u].name = n /\ write'[q][u].pc \in {"fill", "rename"}
  <2>1. CASE <<q, u, n>> = <<p, t, m>>
    <3>1. q = p /\ u = t /\ n = m
      BY <2>1
    <3> QED
      BY <3>1, <1>2, <1>4, <1>6
  <2>2. CASE <<q, u, n>> # <<p, t, m>>
    <3>1. write[q][u].name = n /\ write[q][u].pc \in {"fill", "rename"}
      BY <1>5, <1>6, <2>2 DEF TypeOK, TempsUsed
    <3>2. <<q, u>> # <<p, t>>
      BY <3>1, <2>2
    <3> QED
      BY <3>1, <3>2, <1>2
  <2> QED
    BY <2>1, <2>2
<1>7. \A q \in Procs, u \in Tasks, n \in Names :
        <<q, u>> # <<p, t>> => temp'[TempOf(q, u, n)] = temp[TempOf(q, u, n)]
  BY <1>5 DEF TempOf
<1> QED
  BY <1>2, <1>4, <1>6, <1>7 DEF TempsUsed, TempOf

LEMMA ProcsGone ==
  ASSUME TypeOK, NEW P, NEW lost, Gone(P, lost)
  PROVE  /\ proc' \in [Procs -> Processes]
         /\ write' \in [Procs -> [Tasks -> Writes]]
         /\ temp' \in [Procs \X Tasks \X Names -> TempFiles]
         /\ had' \in [Procs -> [Blocks -> SUBSET Keys]]
         /\ TempsUsed'
<1>1. proc' \in [Procs -> Processes]
  BY DownType DEF Gone, TypeOK
<1>2. write' \in [Procs -> [Tasks -> Writes]]
  BY NoWriteType DEF Gone, TypeOK
<1>3. temp' \in [Procs \X Tasks \X Names -> TempFiles]
  BY NoFileType DEF Gone, TypeOK, TempFiles
<1>4. had' \in [Procs -> [Blocks -> SUBSET Keys]]
  BY DEF Gone, TypeOK, NoneKnown
<1>5. ASSUME NEW q \in Procs, NEW u \in Tasks, NEW n \in Names, temp'[<<q, u, n>>].is \notin {"none", "left"}
      PROVE  write'[q][u].name = n /\ write'[q][u].pc \in {"fill", "rename"}
  <2>1. <<q, u, n>> \in DOMAIN temp
    BY DEF TypeOK
  <2>2. q \notin P /\ temp'[<<q, u, n>>] = temp[<<q, u, n>>]
    BY <1>5, <2>1 DEF Gone, NoFile, LeftFile
  <2>3. write'[q][u] = write[q][u]
    BY <2>2 DEF Gone
  <2> QED
    BY <1>5, <2>2, <2>3 DEF TypeOK, TempsUsed
<1> QED
  BY <1>1, <1>2, <1>3, <1>4, <1>5 DEF TempsUsed

LEMMA WriteFields ==
  ASSUME TypeOK, NEW p \in Procs, NEW t \in Tasks
  PROVE  /\ write[p][t] \in Writes
         /\ write[p][t].name \in Names /\ write[p][t].overlap \in BOOLEAN
         /\ write[p][t].data \in Contents
  BY DEF TypeOK, Writes

LEMMA ProcFields ==
  ASSUME TypeOK, NEW p \in Procs
  PROVE  /\ proc[p] \in Processes
         /\ proc[p].fallback \in 0 .. MaxBlock /\ proc[p].env \in 0 .. MaxBlock
         /\ proc[p].seed \in 0 .. MaxBlock
         /\ proc[p].known \in Contents /\ proc[p].fetched \in SUBSET Keys
         /\ proc[p].stage \in Stages /\ proc[p].follows \in BOOLEAN /\ proc[p].refreshing \in BOOLEAN
  BY DEF TypeOK, Processes

LEMMA LaunchBlock ==
  ASSUME TypeOK, NEW n \in Blocks, NEW b,
         b = n \/ (b # NoBlock /\ b = Hint(dir[n].data, n))
  PROVE  b = n
  BY DEF Hint

LEMMA TypeLaunch ==
  ASSUME TypeOK, NEW p \in Procs, NEW n \in Blocks, NEW follows \in BOOLEAN, Launch(p, n, follows)
  PROVE  /\ TypeOK'
         /\ proc' = [proc EXCEPT ![p] =
              [stage |-> "up", follows |-> follows, refreshing |-> FALSE, fallback |-> n, env |-> n,
               seed |-> IF dir[n].is = "whole" THEN n ELSE NoBlock,
               known |-> IF dir[n].is = "whole" THEN dir[n].data ELSE Empty, fetched |-> {}]]
         /\ had' = [had EXCEPT ![p] =
              [NoneKnown EXCEPT ![n] = IF dir[n].is = "whole" THEN KeysOf(dir[n].data) ELSE {}]]
<1> DEFINE q == [stage |-> "up", follows |-> follows, refreshing |-> FALSE, fallback |-> n, env |-> n,
                 seed |-> IF dir[n].is = "whole" THEN n ELSE NoBlock,
                 known |-> IF dir[n].is = "whole" THEN dir[n].data ELSE Empty, fetched |-> {}]
           h == [NoneKnown EXCEPT ![n] = IF dir[n].is = "whole" THEN KeysOf(dir[n].data) ELSE {}]
<1>1. proc' = [proc EXCEPT ![p] = q] /\ had' = [had EXCEPT ![p] = h]
  BY DEF Launch, Hint, NoBlock, Usable
<1>2. n \in Names /\ dir[n].data \in Contents
  BY DEF TypeOK, Names, Files
<1>3. q \in Processes
  BY <1>2, CacheAssumption, EmptyType DEF Processes, Stages, Blocks, NoBlock
<1>4. h \in [Blocks -> SUBSET Keys]
  BY KeysOfType DEF NoneKnown
<1>5. proc' \in [Procs -> Processes] /\ had' \in [Procs -> [Blocks -> SUBSET Keys]]
  BY <1>1, <1>3, <1>4 DEF TypeOK
<1>6. TempsUsed'
  BY DEF Launch, TypeOK, TempsUsed
<1>7. starts' \in 0 .. MaxStarts
  BY CacheAssumption DEF Launch, TypeOK
<1> QED
  BY <1>1, <1>5, <1>6, <1>7 DEF Launch, TypeOK

LEMMA TypeRefresh ==
  ASSUME TypeOK, NEW p \in Procs, ReFork(p) \/ WriteEnv(p)
  PROVE  TypeOK'
<1> DEFINE v == write[p][Flush]
           w == [v EXCEPT !.overlap = v.overlap \/ (AtInterval(p) /\ v.pc = "fallback")]
<1>1. v \in Writes /\ v.overlap \in BOOLEAN
  BY FlushTask, WriteFields
<1>2. w \in Writes /\ w.name = v.name /\ w.pc = v.pc
  BY <1>1 DEF Writes
<1>3. Goto(p, Flush, w) /\ temp' = temp
  BY DEF ReFork, WriteEnv, Overlap
<1> HIDE DEF v, w
<1>4. /\ write' \in [Procs -> [Tasks -> Writes]] /\ TempsUsed'
  BY <1>2, <1>3, FlushTask, TempsStay DEF v
<1>5. proc' \in [Procs -> Processes]
  <2>1. tip \in 0 .. MaxBlock /\ proc \in [Procs -> Processes]
    BY CacheAssumption DEF TypeOK, Blocks
  <2>2. [proc[p] EXCEPT !.refreshing = TRUE, !.fallback = tip, !.fetched = {}] \in Processes
    BY <2>1, ProcFields DEF Processes
  <2>3. [proc[p] EXCEPT !.refreshing = FALSE, !.env = proc[p].fallback] \in Processes
    BY <2>1, ProcFields DEF Processes
  <2> QED
    BY <2>1, <2>2, <2>3 DEF ReFork, WriteEnv
<1>6. UNCHANGED <<tip, dir, older, temp, promised, had, starts, begun>>
  BY DEF ReFork, WriteEnv, bounds
<1> QED
  BY <1>4, <1>5, <1>6 DEF TypeOK

\* The next stage of a flush, and its contents.
LEMMA FlushedType ==
  ASSUME TypeOK, NEW p \in Procs, NEW n \in Names, NEW o \in BOOLEAN
  PROVE  LET q == proc[p]
             of == [k \in Keys |-> IF k \in q.fetched THEN q.fallback
                                   ELSE IF Seeded(q, n) THEN q.known.of[k] ELSE NoBlock] IN
         [env |-> NoBlock, of |-> of, raced |-> o \/ (Seeded(q, n) /\ q.known.raced)] \in Contents
<1> DEFINE q == proc[p]
           of == [k \in Keys |-> IF k \in q.fetched THEN q.fallback
                                 ELSE IF Seeded(q, n) THEN q.known.of[k] ELSE NoBlock]
<1>1. q.known.of \in [Keys -> 0 .. MaxBlock] /\ q.known.raced \in BOOLEAN
  BY ProcFields DEF Contents
<1>2. of \in [Keys -> 0 .. MaxBlock]
  BY <1>1, ProcFields, CacheAssumption DEF NoBlock
<1>3. Seeded(q, n) \in BOOLEAN
  BY DEF Seeded
<1> HIDE DEF of, q
<1>4. [env |-> NoBlock, of |-> of, raced |-> o \/ (Seeded(q, n) /\ q.known.raced)] \in Contents
  BY <1>1, <1>2, <1>3, CacheAssumption DEF Contents, NoBlock
<1> QED
  BY <1>4 DEF of, q

LEMMA TypeFlush ==
  ASSUME TypeOK, NEW p \in Procs, ProcOK(p), BeginFlush(p) \/ ReadFallback(p) \/ ReadEnv(p)
  PROVE  TypeOK'
<1> DEFINE v == write[p][Flush]
<1>1. v \in Writes /\ v.name \in Names /\ v.overlap \in BOOLEAN /\ v.data \in Contents
  BY FlushTask, WriteFields
<1>2. \E w \in Writes : Goto(p, Flush, w) /\ w.pc \in {"fallback", "env", "create"}
  <2>1. CASE BeginFlush(p)
    <3>1. proc[p].env \in Names
      BY <2>1 DEF BeginFlush, ProcOK, Names
    <3>2. [pc |-> "fallback", name |-> proc[p].env, data |-> Empty,
           overlap |-> AtInterval(p) /\ proc[p].refreshing] \in Writes
      BY <3>1, ProcFields, EmptyType DEF Writes, AtInterval
    <3> QED
      BY <2>1, <3>2 DEF BeginFlush
  <2>2. CASE ReadFallback(p)
    <3> DEFINE d == [env |-> NoBlock,
                     of |-> [k \in Keys |-> IF k \in proc[p].fetched THEN proc[p].fallback
                               ELSE IF Seeded(proc[p], v.name) THEN proc[p].known.of[k] ELSE NoBlock],
                     raced |-> v.overlap \/ (Seeded(proc[p], v.name) /\ proc[p].known.raced)]
    <3>1. d \in Contents
      BY <1>1, FlushedType
    <3>2. Goto(p, Flush, [v EXCEPT !.pc = "env", !.data = d])
      BY <2>2 DEF ReadFallback
    <3> HIDE DEF d, v
    <3>3. [v EXCEPT !.pc = "env", !.data = d] \in Writes /\ [v EXCEPT !.pc = "env", !.data = d].pc = "env"
      BY <1>1, <3>1 DEF Writes
    <3> QED
      BY <3>2, <3>3
  <2>3. CASE ReadEnv(p)
    <3> DEFINE d == [env |-> EnvFor(proc[p].env, v.name), of |-> v.data.of, raced |-> v.data.raced]
    <3>1. d \in Contents
      BY <1>1, ProcFields, CacheAssumption DEF Contents, EnvFor, NoBlock
    <3>2. Goto(p, Flush, [v EXCEPT !.pc = "create", !.data = d])
      BY <2>3 DEF ReadEnv
    <3> HIDE DEF d, v
    <3>3. [v EXCEPT !.pc = "create", !.data = d] \in Writes
          /\ [v EXCEPT !.pc = "create", !.data = d].pc = "create"
      BY <1>1, <3>1 DEF Writes
    <3> QED
      BY <3>2, <3>3
  <2> QED
    BY <2>1, <2>2, <2>3
<1>3. UNCHANGED <<tip, dir, older, temp, proc, promised, had, starts>>
  BY DEF BeginFlush, ReadFallback, ReadEnv, bounds
<1>4. begun' \in 0 .. MaxWrites
  BY CacheAssumption DEF BeginFlush, ReadFallback, ReadEnv, bounds, TypeOK
<1>5. v.pc \notin {"fill", "rename"}
  BY DEF BeginFlush, ReadFallback, ReadEnv
<1>6. write' \in [Procs -> [Tasks -> Writes]] /\ TempsUsed'
  BY <1>2, <1>3, <1>5, FlushTask, TempsStay
<1> QED
  BY <1>3, <1>4, <1>6 DEF TypeOK

LEMMA TypeSave ==
  ASSUME TypeOK, NEW p \in Procs, NEW t \in Savers, NEW i \in Ids, Save(p, t, i)
  PROVE  TypeOK'
<1>1. t \in Tasks /\ i \in Names
  BY DEF Tasks, Names
<1>2. UNCHANGED <<tip, dir, older, temp, proc, had, starts>> /\ promised' \subseteq Ids
      /\ begun' \in 0 .. MaxWrites
  BY CacheAssumption DEF Save, TypeOK
<1>3. [pc |-> "create", name |-> i, overlap |-> FALSE, data |-> Empty] \in Writes
  BY <1>1, EmptyType DEF Writes
<1>4. CASE UNCHANGED write
  BY <1>2, <1>4 DEF TypeOK, TempsUsed
<1>5. CASE Goto(p, t, [pc |-> "create", name |-> i, overlap |-> FALSE, data |-> Empty])
  <2>1. write' \in [Procs -> [Tasks -> Writes]] /\ TempsUsed'
    BY <1>1, <1>2, <1>3, <1>5, TempsStay DEF Save
  <2> QED
    BY <1>2, <2>1 DEF TypeOK
<1> QED
  BY <1>4, <1>5 DEF Save

\* The end of a store, of which only a last flush changes its process.
LEMMA Returned ==
  ASSUME TypeOK, NEW p \in Procs, NEW t \in Tasks, Return(p, t)
  PROVE  /\ Goto(p, t, NoWrite)
         /\ proc' \in [Procs -> Processes]
         /\ \A q \in Procs :
              /\ proc'[q].stage = proc[q].stage \/
                   (proc[q].stage = "surfacesDown" /\ proc'[q].stage = "exiting")
              /\ proc'[q].follows = proc[q].follows /\ proc'[q].refreshing = proc[q].refreshing
              /\ proc'[q].fallback = proc[q].fallback /\ proc'[q].env = proc[q].env
              /\ proc'[q].seed = proc[q].seed /\ proc'[q].known = proc[q].known
              /\ proc'[q].fetched = proc[q].fetched
<1> DEFINE Same(q) ==
      /\ proc'[q].follows = proc[q].follows /\ proc'[q].refreshing = proc[q].refreshing
      /\ proc'[q].fallback = proc[q].fallback /\ proc'[q].env = proc[q].env
      /\ proc'[q].seed = proc[q].seed /\ proc'[q].known = proc[q].known
      /\ proc'[q].fetched = proc[q].fetched
<1>1. Goto(p, t, NoWrite)
  BY DEF Return
<1>2. proc \in [Procs -> Processes]
  BY DEF TypeOK
<1>3. CASE proc' = proc
  BY <1>1, <1>2, <1>3
<1>4. CASE proc[p].stage = "surfacesDown" /\ proc' = [proc EXCEPT ![p] = [@ EXCEPT !.stage = "exiting"]]
  <2>1. [proc[p] EXCEPT !.stage = "exiting"] \in Processes
    BY ProcFields DEF Processes, Stages
  <2>2. proc' \in [Procs -> Processes] /\ proc'[p] = [proc[p] EXCEPT !.stage = "exiting"]
    BY <1>2, <1>4, <2>1
  <2>3. Same(p) /\ proc'[p].stage = "exiting"
    BY <2>2, ProcFields DEF Processes
  <2>4. ASSUME NEW q \in Procs, q # p
        PROVE  proc'[q] = proc[q]
    BY <1>2, <1>4, <2>4
  <2>5. \A q \in Procs : Same(q) /\
        (proc'[q].stage = proc[q].stage \/
           (proc[q].stage = "surfacesDown" /\ proc'[q].stage = "exiting"))
    BY <1>4, <2>3, <2>4
  <2> QED
    BY <1>1, <2>2, <2>5
<1> QED
  BY <1>3, <1>4 DEF Return

LEMMA TypeStore ==
  ASSUME TypeOK, NEW p \in Procs, NEW t \in Tasks, TempOK(p, t), Task(p, t)
  PROVE  TypeOK'
<1> DEFINE v == write[p][t]
<1>1. v \in Writes /\ v.name \in Names /\ v.data \in Contents
  BY WriteFields
<1>2. CASE CreateTemp(p, t)
  <2>1. [is |-> "torn", synced |-> FALSE, data |-> Empty] \in Files
    BY EmptyType DEF Files
  <2>2. [v EXCEPT !.pc = "fill"] \in Writes /\ [v EXCEPT !.pc = "fill"].name = v.name
        /\ [v EXCEPT !.pc = "fill"].pc = "fill"
    BY <1>1 DEF Writes
  <2>3. /\ write' \in [Procs -> [Tasks -> Writes]]
        /\ temp' \in [Procs \X Tasks \X Names -> TempFiles] /\ TempsUsed'
    BY <1>2, <2>1, <2>2, TempsChange DEF CreateTemp
  <2>4. UNCHANGED <<tip, dir, older, proc, promised, had, starts, begun>>
    BY <1>2 DEF CreateTemp, bounds
  <2> QED
    BY <2>3, <2>4 DEF TypeOK
<1>3. CASE FillTemp(p, t)
  <2>1. SyncedTemp(v.data) \in Files
    BY <1>1 DEF Files, SyncedTemp
  <2>2. [v EXCEPT !.pc = "rename"] \in Writes /\ [v EXCEPT !.pc = "rename"].name = v.name
        /\ [v EXCEPT !.pc = "rename"].pc = "rename"
    BY <1>1 DEF Writes
  <2>3. /\ write' \in [Procs -> [Tasks -> Writes]]
        /\ temp' \in [Procs \X Tasks \X Names -> TempFiles] /\ TempsUsed'
    BY <1>3, <2>1, <2>2, TempsChange DEF FillTemp
  <2>4. UNCHANGED <<tip, dir, older, proc, promised, had, starts, begun>>
    BY <1>3 DEF FillTemp, bounds
  <2> QED
    BY <2>3, <2>4 DEF TypeOK
<1>4. CASE Rename(p, t)
  <2>1. temp[TempOf(p, t, v.name)] = SyncedTemp(v.data)
    BY <1>4 DEF Rename, TempOK
  <2>2. SyncedTemp(v.data) \in Files
    BY <1>1 DEF Files, SyncedTemp
  <2>3. Goto(p, t, NoWrite) /\ proc' \in [Procs -> Processes]
    BY <1>4, Returned DEF Rename
  <2>4. /\ write' \in [Procs -> [Tasks -> Writes]]
        /\ temp' \in [Procs \X Tasks \X Names -> TempFiles] /\ TempsUsed'
    <3>1. temp' = [temp EXCEPT ![TempOf(p, t, write[p][t].name)] = NoFile] /\ NoFile.is = "none"
      BY <1>4 DEF Rename, NoFile
    <3> QED
      BY <2>3, <3>1, NoWriteType, NoFileType, TempsChange
  <2>5. dir' \in [Names -> Files] /\ older' \in [Names -> Files]
    BY <1>1, <1>4, <2>1, <2>2 DEF Rename, TypeOK
  <2>6. promised' \subseteq Ids /\ UNCHANGED <<tip, starts, begun>>
    BY <1>4 DEF Rename, TypeOK, bounds
  <2>7. had' \in [Procs -> [Blocks -> SUBSET Keys]]
    <3>1. CASE had' = had
      BY <3>1 DEF TypeOK
    <3>2. CASE had' = [had EXCEPT ![p] = [had[p] EXCEPT ![v.name] = had[p][v.name] \cup KeysOf(v.data)]]
      <4>1. CASE v.name \in Blocks
        <5>1. had[p] \in [Blocks -> SUBSET Keys] /\ had[p][v.name] \cup KeysOf(v.data) \in SUBSET Keys
          BY <4>1, KeysOfType DEF TypeOK
        <5> QED
          BY <3>2, <5>1 DEF TypeOK
      <4>2. CASE v.name \notin Blocks
        <5>1. had[p] \in [Blocks -> SUBSET Keys]
          BY DEF TypeOK
        <5>2. [had[p] EXCEPT ![v.name] = had[p][v.name] \cup KeysOf(v.data)] \in [Blocks -> SUBSET Keys]
          BY <4>2, <5>1
        <5> QED
          BY <3>2, <5>2 DEF TypeOK
      <4> QED
        BY <4>1, <4>2
    <3> QED
      BY <1>4, <3>1, <3>2 DEF Rename
  <2> QED
    BY <2>3, <2>4, <2>5, <2>6, <2>7 DEF TypeOK
<1>5. CASE WriteFails(p, t)
  <2>1. Goto(p, t, NoWrite) /\ proc' \in [Procs -> Processes]
    BY <1>5, Returned DEF WriteFails
  <2>2. /\ write' \in [Procs -> [Tasks -> Writes]]
        /\ temp' \in [Procs \X Tasks \X Names -> TempFiles] /\ TempsUsed'
    <3>1. temp' = [temp EXCEPT ![TempOf(p, t, write[p][t].name)] = NoFile] /\ NoFile.is = "none"
      BY <1>5 DEF WriteFails, TempRemoved, NoFile
    <3> QED
      BY <2>1, <3>1, NoWriteType, NoFileType, TempsChange
  <2>3. UNCHANGED <<tip, dir, older, promised, had, starts, begun>>
    BY <1>5 DEF WriteFails, OnError, bounds
  <2> QED
    BY <2>1, <2>2, <2>3 DEF TypeOK
<1> QED
  BY <1>2, <1>3, <1>4, <1>5 DEF Task

LEMMA TypeStop ==
  ASSUME TypeOK, NEW p \in Procs, StopFollower(p) \/ StopFlush(p)
  PROVE  TypeOK'
<1>1. UNCHANGED <<tip, dir, older, temp, write, promised, had, starts, begun>>
  BY DEF StopFollower, StopFlush, bounds
<1>2. \A s \in Stages : [proc[p] EXCEPT !.stage = s] \in Processes
  BY ProcFields DEF Processes
<1>3. proc' \in [Procs -> Processes]
  BY <1>2 DEF StopFollower, StopFlush, TypeOK, Stages
<1> QED
  BY <1>1, <1>3 DEF TypeOK, TempsUsed

LEMMA TypeEnd ==
  ASSUME TypeOK, PowerLoss \/ \E p \in Procs : Exit(p) \/ Kill(p)
  PROVE  TypeOK'
<1>1. PICK P, lost : Gone(P, lost)
  BY DEF PowerLoss, Exit, Kill
<1>2. /\ proc' \in [Procs -> Processes] /\ write' \in [Procs -> [Tasks -> Writes]]
      /\ temp' \in [Procs \X Tasks \X Names -> TempFiles]
      /\ had' \in [Procs -> [Blocks -> SUBSET Keys]] /\ TempsUsed'
  BY <1>1, ProcsGone
<1>3. UNCHANGED <<tip, starts, begun>> /\ promised' \subseteq Ids
  BY DEF PowerLoss, Exit, Kill, bounds, TypeOK
<1>4. dir' \in [Names -> Files] /\ older' \in [Names -> Files]
  <2>1. CASE PowerLoss
    <3>1. ASSUME NEW f \in Files PROVE Landed(f) \in Files
      BY DEF Landed, Files
    <3> QED
      BY <2>1, <3>1 DEF PowerLoss, TypeOK
  <2> QED
    BY <2>1 DEF Exit, Kill, TypeOK
<1> QED
  BY <1>2, <1>3, <1>4 DEF TypeOK

LEMMA TypeStep ==
  ASSUME TypeOK, [Next]_vars, \A p \in Procs : ProcOK(p) /\ \A t \in Tasks : TempOK(p, t)
  PROVE  TypeOK'
<1>1. CASE Mine
  <2>1. tip' \in Blocks /\ UNCHANGED <<dir, older, temp, proc, write, promised, had, starts, begun>>
    BY <1>1, CacheAssumption DEF Mine, TypeOK, Blocks, bounds
  <2> QED
    BY <2>1 DEF TypeOK, TempsUsed
<1>2. ASSUME NEW p \in Procs, NEW k \in Keys, Fetch(p, k)
      PROVE  TypeOK'
  <2>1. [proc[p] EXCEPT !.fetched = proc[p].fetched \cup {k}] \in Processes
    BY ProcFields DEF Processes
  <2>2. proc' \in [Procs -> Processes]
    BY <1>2, <2>1 DEF Fetch, TypeOK
  <2>3. UNCHANGED <<tip, dir, older, temp, write, promised, had, starts, begun>>
    BY <1>2 DEF Fetch, bounds
  <2> QED
    BY <2>2, <2>3 DEF TypeOK, TempsUsed
<1>3. CASE UNCHANGED vars
  BY <1>3 DEF vars, bounds, TypeOK, TempsUsed
<1>4. ASSUME NEW p \in Procs, NEW t \in Tasks, Task(p, t)
      PROVE  TypeOK'
  BY <1>4, TypeStore
<1> QED
  BY <1>1, <1>2, <1>3, <1>4, TypeLaunch, TypeRefresh, TypeFlush, TypeSave, TypeStop, TypeEnd DEF Next

----------------------------------------------------------------------------
(* What a process knows *)

\* Nothing of the process changes, nor the chain backwards.
LEMMA Others ==
  ASSUME TypeOK, TypeOK', NEW p \in Procs, ProcessOK(p),
         proc'[p] = proc[p], write'[p] = write[p], had'[p] = had[p], tip <= tip',
         \A t \in Tasks, n \in Names : temp'[TempOf(p, t, n)] = temp[TempOf(p, t, n)]
  PROVE  ProcessOK(p)'
<1>1. ProcOK(p)'
  <2>1. tip \in Nat /\ tip' \in Nat /\ proc[p].fallback \in Nat
    BY ProcFields, CacheAssumption DEF TypeOK, Blocks
  <2> QED
    BY <2>1 DEF ProcessOK, ProcOK
<1>2. HadOK(p)'
  BY DEF ProcessOK, HadOK
<1>3. FlushOK(p)'
  BY DEF ProcessOK, FlushOK
<1>4. \A t \in Savers : SaveOK(p, t)'
  BY DEF ProcessOK, SaveOK
<1>5. ASSUME NEW t \in Tasks PROVE TempOK(p, t)'
  <2>1. write[p][t].name \in Names
    BY WriteFields
  <2> QED
    BY <2>1 DEF ProcessOK, TempOK, SyncedTemp
<1> QED
  BY <1>1, <1>2, <1>3, <1>4, <1>5 DEF ProcessOK

LEMMA Launched ==
  ASSUME IInv, TypeOK', NEW p \in Procs, NEW n \in Blocks, NEW follows \in BOOLEAN, Launch(p, n, follows)
  PROVE  \A q \in Procs : ProcessOK(q)'
<1> DEFINE q == [stage |-> "up", follows |-> follows, refreshing |-> FALSE, fallback |-> n, env |-> n,
                 seed |-> IF dir[n].is = "whole" THEN n ELSE NoBlock,
                 known |-> IF dir[n].is = "whole" THEN dir[n].data ELSE Empty, fetched |-> {}]
           h == [NoneKnown EXCEPT ![n] = IF dir[n].is = "whole" THEN KeysOf(dir[n].data) ELSE {}]
<1>1. TypeOK /\ proc \in [Procs -> Processes] /\ had \in [Procs -> [Blocks -> SUBSET Keys]] /\ ProcessOK(p)
  BY DEF IInv, TypeOK
<1>2. proc' = [proc EXCEPT ![p] = q] /\ had' = [had EXCEPT ![p] = h]
  BY <1>1, TypeLaunch
<1>3. proc'[p] = q /\ had'[p] = h
  BY <1>1, <1>2
<1>4. n <= tip /\ UNCHANGED <<tip, write, temp>>
  BY <1>1, CacheAssumption DEF Launch, TypeOK, Blocks
<1>5. \A t \in Tasks : write'[p][t].pc = "idle"
  BY <1>1, <1>4 DEF Launch, ProcessOK, ProcOK
<1>6. FlushOK(p)' /\ (\A t \in Savers : SaveOK(p, t)') /\ (\A t \in Tasks : TempOK(p, t)')
  BY <1>5 DEF FlushOK, SaveOK, TempOK, Tasks, Saved
<1>7. ProcOK(p)'
  <2>1. n \in Names
    BY DEF Names
  <2>2. dir[n].is = "whole" => OfBlock(n, dir[n].data)
    BY <2>1 DEF IInv, FileOK
  <2>3. proc'[p].seed # NoBlock => OfBlock(proc'[p].seed, proc'[p].known)
    BY <1>3, <2>2
  <2>4. n <= n
    BY CacheAssumption DEF Blocks
  <2> QED
    BY <1>3, <1>4, <2>3, <2>4 DEF ProcOK, OfBlock
<1>8. HadOK(p)'
  <2>1. \A m \in Blocks : m > n => h[m] = {}
    BY CacheAssumption DEF NoneKnown, Blocks
  <2>2. h[n] = IF dir[n].is = "whole" THEN KeysOf(dir[n].data) ELSE {}
    BY DEF NoneKnown
  <2>3. h[n] \subseteq InReach(q, n)
    BY <2>2 DEF InReach, SeedKeys
  <2>6. q.fallback = n
    OBVIOUS
  <2> HIDE DEF h, q
  <2>4. \A m \in Blocks : m > proc'[p].fallback => had'[p][m] = {}
    BY <1>3, <2>1, <2>6
  <2>5. had'[p][proc'[p].fallback] \subseteq InReach(proc'[p], proc'[p].fallback)
    BY <1>3, <2>3, <2>6
  <2> QED
    BY <2>4, <2>5 DEF HadOK, InReach, SeedKeys, KeysOf
<1>9. ASSUME NEW r \in Procs, r # p PROVE ProcessOK(r)'
  <2>1. proc'[r] = proc[r] /\ had'[r] = had[r]
    BY <1>1, <1>2, <1>9
  <2>2. tip <= tip'
    BY <1>1, <1>4, CacheAssumption DEF TypeOK, Blocks
  <2> QED
    BY <1>1, <1>4, <2>1, <2>2, Others DEF IInv
<1> QED
  BY <1>6, <1>7, <1>8, <1>9 DEF ProcessOK

LEMMA Fetched ==
  ASSUME IInv, TypeOK', NEW p \in Procs, NEW k \in Keys, Fetch(p, k)
  PROVE  \A q \in Procs : ProcessOK(q)'
<1>1. TypeOK /\ proc \in [Procs -> Processes] /\ ProcessOK(p)
  BY DEF IInv, TypeOK
<1>2. UNCHANGED <<tip, write, temp, had>>
  BY DEF Fetch
<1>3. proc'[p] = [proc[p] EXCEPT !.fetched = proc[p].fetched \cup {k}]
  BY <1>1 DEF Fetch
<1>4. /\ proc'[p].stage = proc[p].stage /\ proc'[p].refreshing = proc[p].refreshing
      /\ proc'[p].fallback = proc[p].fallback /\ proc'[p].env = proc[p].env
      /\ proc'[p].seed = proc[p].seed /\ proc'[p].known = proc[p].known
      /\ proc[p].fetched \subseteq proc'[p].fetched
  BY <1>1, <1>3 DEF Processes
<1>5. \A n \in Blocks : InReach(proc[p], n) \subseteq InReach(proc'[p], n)
  BY <1>4 DEF InReach, SeedKeys
<1>6. ProcOK(p)'
  BY <1>1, <1>2, <1>4 DEF ProcessOK, ProcOK, OfBlock
<1>7. HadOK(p)'
  BY <1>1, <1>2, <1>4, <1>5 DEF ProcessOK, ProcOK, HadOK
<1>8. FlushOK(p)'
  <2>1. write[p][Flush].pc # "idle" /\ write[p][Flush].name = proc[p].fallback => proc[p].fallback \in Blocks
    BY <1>1 DEF ProcessOK, FlushOK
  <2> QED
    BY <1>1, <1>2, <1>4, <1>5, <2>1 DEF ProcessOK, FlushOK, OfBlock, Saved, KeysOf
<1>9. (\A t \in Savers : SaveOK(p, t)') /\ (\A t \in Tasks : TempOK(p, t)')
  BY <1>1, <1>2 DEF ProcessOK, SaveOK, TempOK, TempOf, SyncedTemp
<1>10. ASSUME NEW r \in Procs, r # p PROVE ProcessOK(r)'
  <2>1. proc'[r] = proc[r]
    BY <1>1, <1>10 DEF Fetch
  <2>2. tip <= tip'
    BY <1>1, <1>2, CacheAssumption DEF TypeOK, Blocks
  <2> QED
    BY <1>1, <1>2, <1>10, <2>1, <2>2, Others DEF IInv
<1> QED
  BY <1>6, <1>7, <1>8, <1>9, <1>10 DEF ProcessOK

LEMMA Refreshed ==
  ASSUME IInv, TypeOK', NEW p \in Procs, ReFork(p) \/ WriteEnv(p)
  PROVE  \A q \in Procs : ProcessOK(q)'
<1> DEFINE v == write[p][Flush]
           w == [v EXCEPT !.overlap = v.overlap \/ (AtInterval(p) /\ v.pc = "fallback")]
<1>1. TypeOK /\ proc \in [Procs -> Processes] /\ ProcessOK(p) /\ p \in Procs
  BY DEF IInv, TypeOK
<1>2. v \in Writes /\ Goto(p, Flush, w) /\ UNCHANGED <<tip, temp, had>>
  BY <1>1, FlushTask, WriteFields DEF ReFork, WriteEnv, Overlap
<1>3. proc[p].stage = "up"
  BY <1>1 DEF ReFork, WriteEnv, ProcessOK, ProcOK, Down
<1>4. /\ w \in Writes /\ w.pc = v.pc /\ w.name = v.name /\ w.data = v.data
      /\ v.pc = "fallback" => w.overlap
  BY <1>2, <1>3 DEF Writes, AtInterval
<1> HIDE DEF w
<1>5. /\ write'[p][Flush] = w
      /\ \A q \in Procs, u \in Tasks : <<q, u>> # <<p, Flush>> => write'[q][u] = write[q][u]
  BY <1>1, <1>2, <1>4, FlushTask, GotoType DEF TypeOK
<1>6. /\ proc'[p].stage = "up" /\ proc'[p].fallback \in Blocks /\ proc'[p].env \in Blocks
      /\ proc'[p].env <= proc'[p].fallback /\ proc'[p].fallback <= tip
      /\ ~proc'[p].refreshing => proc'[p].env = proc'[p].fallback
      /\ proc'[p].seed = proc[p].seed /\ proc'[p].known = proc[p].known
      /\ \/ proc'[p].fallback > proc[p].fallback
         \/ proc'[p].fallback = proc[p].fallback /\ proc'[p].fetched = proc[p].fetched
  <2>1. /\ proc[p].fallback \in Blocks /\ proc[p].env \in Blocks /\ tip \in Blocks
        /\ proc[p].env <= proc[p].fallback /\ proc[p].fallback <= tip
        /\ ~proc[p].refreshing => proc[p].env = proc[p].fallback
    BY <1>1, <1>3 DEF ProcessOK, ProcOK, TypeOK
  <2>2. CASE ReFork(p)
    <3>1. proc'[p] = [proc[p] EXCEPT !.refreshing = TRUE, !.fallback = tip, !.fetched = {}]
      BY <1>1, <2>2 DEF ReFork
    <3>2. /\ proc'[p].stage = "up" /\ proc'[p].fallback = tip /\ proc'[p].env = proc[p].env
          /\ proc'[p].refreshing = TRUE
          /\ proc'[p].seed = proc[p].seed /\ proc'[p].known = proc[p].known
      BY <1>1, <1>3, <3>1 DEF Processes
    <3>3. tip > proc[p].fallback
      BY <2>1, <2>2, CacheAssumption DEF ReFork, Blocks
    <3> QED
      BY <2>1, <3>2, <3>3, CacheAssumption DEF Blocks
  <2>3. CASE WriteEnv(p)
    <3>1. proc'[p] = [proc[p] EXCEPT !.refreshing = FALSE, !.env = proc[p].fallback]
      BY <1>1, <2>3 DEF WriteEnv
    <3>2. /\ proc'[p].stage = "up" /\ proc'[p].fallback = proc[p].fallback
          /\ proc'[p].env = proc[p].fallback /\ proc'[p].fetched = proc[p].fetched
          /\ proc'[p].seed = proc[p].seed /\ proc'[p].known = proc[p].known
      BY <1>1, <1>3, <3>1 DEF Processes
    <3> QED
      BY <2>1, <3>2, CacheAssumption DEF Blocks
  <2> QED
    BY <2>2, <2>3
<1>7. proc[p].fallback \in Blocks /\ had[p] \in [Blocks -> SUBSET Keys]
  BY <1>1, <1>3 DEF ProcessOK, ProcOK, TypeOK
<1>8. ProcOK(p)'
  BY <1>1, <1>2, <1>6 DEF ProcessOK, ProcOK, OfBlock
<1>9. HadOK(p)'
  <2>1. CASE proc'[p].fallback > proc[p].fallback
    BY <1>1, <1>2, <1>3, <1>6, <1>7, <2>1, CacheAssumption DEF ProcessOK, HadOK, Blocks
  <2>2. CASE proc'[p].fallback = proc[p].fallback /\ proc'[p].fetched = proc[p].fetched
    BY <1>1, <1>2, <1>3, <1>6, <2>2 DEF ProcessOK, HadOK, InReach, SeedKeys
  <2> QED
    BY <1>6, <2>1, <2>2
<1>10. FlushOK(p)'
  <2>1. w.pc # "idle" => w.name \in Blocks /\ w.name <= proc'[p].fallback
    BY <1>1, <1>4, <1>6, <1>7, CacheAssumption DEF ProcessOK, FlushOK, Blocks
  <2>2. w.pc = "fallback" => w.overlap
    BY <1>4
  <2>3. Saved(w.pc) => OfBlock(w.name, w.data)
    BY <1>1, <1>4 DEF ProcessOK, FlushOK
  <2>4. ASSUME Saved(w.pc), ~w.data.raced
        PROVE  /\ had[p][w.name] \subseteq KeysOf(w.data)
               /\ w.name = proc'[p].fallback => KeysOf(w.data) \subseteq InReach(proc'[p], proc'[p].fallback)
    <3>1. had[p][w.name] \subseteq KeysOf(w.data)
      BY <1>1, <1>4, <2>4 DEF ProcessOK, FlushOK
    <3>2. w.name <= proc[p].fallback /\ w.name \in Blocks
      BY <1>1, <1>4, <2>4 DEF ProcessOK, FlushOK, Saved
    <3>3. ASSUME w.name = proc'[p].fallback
          PROVE  KeysOf(w.data) \subseteq InReach(proc'[p], proc'[p].fallback)
      <4>1. proc'[p].fallback = proc[p].fallback /\ proc'[p].fetched = proc[p].fetched
        BY <1>6, <1>7, <3>2, <3>3, CacheAssumption DEF Blocks
      <4>2. KeysOf(w.data) \subseteq InReach(proc[p], proc[p].fallback)
        BY <1>1, <1>4, <2>4, <3>3, <4>1 DEF ProcessOK, FlushOK
      <4> QED
        BY <1>6, <4>1, <4>2 DEF InReach, SeedKeys
    <3> QED
      BY <3>1, <3>3
  <2> QED
    BY <1>2, <1>5, <2>1, <2>2, <2>3, <2>4 DEF FlushOK, InReach, SeedKeys, KeysOf, OfBlock
<1>11. \A t \in Savers : SaveOK(p, t)'
  <2>1. \A t \in Savers : t \in Tasks /\ t # Flush
    BY CacheAssumption DEF Tasks
  <2> QED
    BY <1>1, <1>5, <2>1 DEF ProcessOK, SaveOK
<1>12. \A t \in Tasks : TempOK(p, t)'
  <2>1. \A t \in Tasks : /\ write'[p][t].pc = write[p][t].pc
                         /\ write'[p][t].name = write[p][t].name /\ write'[p][t].data = write[p][t].data
    BY <1>1, <1>4, <1>5
  <2> QED
    BY <1>1, <1>2, <2>1 DEF ProcessOK, TempOK, TempOf, SyncedTemp
<1>13. ASSUME NEW r \in Procs, r # p PROVE ProcessOK(r)'
  <2>1. proc'[r] = proc[r]
    BY <1>1, <1>13 DEF ReFork, WriteEnv
  <2>2. write'[r] = write[r]
    BY <1>1, <1>2, <1>13 DEF Goto, TypeOK
  <2>3. tip <= tip'
    BY <1>1, <1>2, CacheAssumption DEF TypeOK, Blocks
  <2> QED
    BY <1>1, <1>2, <1>13, <2>1, <2>2, <2>3, Others DEF IInv
<1> QED
  BY <1>8, <1>9, <1>10, <1>11, <1>12, <1>13 DEF ProcessOK

\* The flush moves on and nothing else of its process does.
LEMMA FlushMoved ==
  ASSUME IInv, TypeOK', NEW p \in Procs, NEW w \in Writes, Goto(p, Flush, w),
         UNCHANGED <<tip, temp, proc, had>>, proc[p].stage # "down", w.pc # "rename",
         w.name \in Blocks, w.name <= proc[p].fallback,
         w.pc = "fallback" /\ ~w.overlap => w.name = proc[p].fallback,
         Saved(w.pc) => OfBlock(w.name, w.data),
         Saved(w.pc) /\ ~w.data.raced =>
           /\ had[p][w.name] \subseteq KeysOf(w.data)
           /\ w.name = proc[p].fallback => KeysOf(w.data) \subseteq InReach(proc[p], proc[p].fallback)
  PROVE  \A q \in Procs : ProcessOK(q)'
<1>1. TypeOK /\ ProcessOK(p)
  BY DEF IInv
<1>2. /\ write'[p][Flush] = w
      /\ \A q \in Procs, u \in Tasks : <<q, u>> # <<p, Flush>> => write'[q][u] = write[q][u]
  BY <1>1, FlushTask, GotoType DEF TypeOK
<1>3. ProcOK(p)' /\ HadOK(p)'
  BY <1>1 DEF ProcessOK, ProcOK, HadOK, OfBlock, InReach, SeedKeys, KeysOf
<1>4. FlushOK(p)'
  BY <1>2 DEF FlushOK, OfBlock, InReach, SeedKeys, KeysOf
<1>5. \A t \in Savers : SaveOK(p, t)'
  <2>1. \A t \in Savers : t \in Tasks /\ t # Flush
    BY CacheAssumption DEF Tasks
  <2> QED
    BY <1>1, <1>2, <2>1 DEF ProcessOK, SaveOK
<1>6. ASSUME NEW t \in Tasks PROVE TempOK(p, t)'
  BY <1>1, <1>2 DEF ProcessOK, TempOK, TempOf, SyncedTemp
<1>7. ASSUME NEW r \in Procs, r # p PROVE ProcessOK(r)'
  <2>1. write'[r] = write[r]
    BY <1>1, <1>7 DEF Goto, TypeOK
  <2>2. tip <= tip'
    BY <1>1, CacheAssumption DEF TypeOK, Blocks
  <2> QED
    BY <1>1, <1>7, <2>1, <2>2, Others DEF IInv
<1> QED
  BY <1>3, <1>4, <1>5, <1>6, <1>7 DEF ProcessOK

LEMMA Flushing ==
  ASSUME IInv, TypeOK', NEW p \in Procs, BeginFlush(p) \/ ReadFallback(p) \/ ReadEnv(p)
  PROVE  \A q \in Procs : ProcessOK(q)'
<1> DEFINE q == proc[p]
           v == write[p][Flush]
<1>1. TypeOK /\ ProcessOK(p) /\ q \in Processes
  BY ProcFields DEF IInv
<1>2. v \in Writes /\ v.overlap \in BOOLEAN /\ v.data \in Contents
  BY <1>1, FlushTask, WriteFields
<1>3. UNCHANGED <<tip, temp, proc, had>>
  BY DEF BeginFlush, ReadFallback, ReadEnv
<1>4. q.stage # "down"
  BY <1>1, FlushTask DEF BeginFlush, ReadFallback, ReadEnv, ProcessOK, ProcOK
<1>5. CASE BeginFlush(p)
  <2> DEFINE w == [pc |-> "fallback", name |-> q.env, data |-> Empty,
                   overlap |-> AtInterval(p) /\ q.refreshing]
  <2>1. q.env \in Blocks /\ q.env <= q.fallback /\ (~q.refreshing => q.env = q.fallback)
        /\ (q.refreshing => q.stage = "up")
    BY <1>1, <1>4 DEF ProcessOK, ProcOK
  <2>2. w \in Writes
    BY <1>1, <2>1, ProcFields, EmptyType DEF Writes, Names, AtInterval
  <2>3. ~w.overlap => w.name = q.fallback
    BY <2>1 DEF AtInterval
  <2>4. Goto(p, Flush, w)
    BY <1>5 DEF BeginFlush
  <2>5. w.pc = "fallback" /\ w.name = q.env
    OBVIOUS
  <2> HIDE DEF w
  <2> QED
    BY <1>3, <1>4, <2>1, <2>2, <2>3, <2>4, <2>5, FlushMoved DEF Saved
<1>6. CASE ReadFallback(p)
  <2> DEFINE of == [k \in Keys |-> IF k \in q.fetched THEN q.fallback
                                   ELSE IF Seeded(q, v.name) THEN q.known.of[k] ELSE NoBlock]
             d == [env |-> NoBlock, of |-> of,
                   raced |-> v.overlap \/ (Seeded(q, v.name) /\ q.known.raced)]
             w == [v EXCEPT !.pc = "env", !.data = d]
  <2>1. v.name \in Blocks /\ v.name \in Names /\ v.name <= q.fallback
        /\ (~v.overlap => v.name = q.fallback)
    BY <1>1, <1>6 DEF ReadFallback, ProcessOK, FlushOK, Names
  <2>2. d \in Contents
    BY <1>1, <1>2, <2>1, FlushedType
  <2>3. Goto(p, Flush, w)
    BY <1>6 DEF ReadFallback
  <2>4. d.env = NoBlock /\ d.of = of /\ d.raced = (v.overlap \/ (Seeded(q, v.name) /\ q.known.raced))
    OBVIOUS
  <2>5. ASSUME ~d.raced
        PROVE  /\ \A k \in Keys : d.of[k] \in {NoBlock, v.name}
               /\ had[p][v.name] \subseteq KeysOf(d)
               /\ KeysOf(d) \subseteq InReach(q, q.fallback)
    <3>1. v.name = q.fallback /\ (q.seed = v.name => ~q.known.raced)
      BY <2>1, <2>4, <2>5 DEF Seeded
    <3>2. q.seed = v.name => \A k \in Keys : q.known.of[k] \in {NoBlock, v.name}
      BY <1>1, <2>1, <3>1, CacheAssumption DEF ProcessOK, ProcOK, OfBlock, Blocks, NoBlock
    <3>3. \A k \in Keys : d.of[k] \in {NoBlock, v.name}
      BY <2>4, <3>1, <3>2 DEF Seeded
    <3>4. KeysOf(d) = InReach(q, q.fallback)
      <4>1. v.name # NoBlock
        BY <2>1, CacheAssumption DEF Blocks, NoBlock
      <4>2. \A k \in Keys : d.of[k] # NoBlock <=> k \in InReach(q, q.fallback)
        BY <2>4, <3>1, <4>1 DEF Seeded, InReach, SeedKeys, KeysOf
      <4>3. InReach(q, q.fallback) \subseteq Keys
        BY <1>1, ProcFields, KeysOfType DEF InReach, SeedKeys
      <4> QED
        BY <4>2, <4>3 DEF KeysOf
    <3>5. had[p][v.name] \subseteq InReach(q, q.fallback)
      BY <1>1, <1>4, <3>1 DEF ProcessOK, HadOK
    <3> QED
      BY <3>3, <3>4, <3>5
  <2> HIDE DEF d, of
  <2>6. w \in Writes /\ w.pc = "env" /\ w.name = v.name /\ w.data = d
    BY <1>2, <2>2 DEF Writes
  <2>7. OfBlock(v.name, d)
    BY <2>4, <2>5 DEF OfBlock
  <2> HIDE DEF w, v
  <2> QED
    BY <1>3, <1>4, <2>1, <2>3, <2>5, <2>6, <2>7, FlushMoved
<1>7. CASE ReadEnv(p)
  <2> DEFINE d == [env |-> EnvFor(q.env, v.name), of |-> v.data.of, raced |-> v.data.raced]
             w == [v EXCEPT !.pc = "create", !.data = d]
  <2>1. v.name \in Blocks /\ v.name <= q.fallback /\ Saved(v.pc) /\ OfBlock(v.name, v.data)
    BY <1>1, <1>7 DEF ReadEnv, ProcessOK, FlushOK, Saved
  <2>2. d \in Contents
    BY <1>1, <1>2, ProcFields, CacheAssumption DEF Contents, EnvFor, NoBlock
  <2>3. Goto(p, Flush, w)
    BY <1>7 DEF ReadEnv
  <2>4. OfBlock(v.name, d)
    BY <2>1 DEF OfBlock, EnvFor
  <2>5. KeysOf(d) = KeysOf(v.data) /\ d.raced = v.data.raced
    BY DEF KeysOf
  <2> HIDE DEF d
  <2>6. w \in Writes /\ w.pc = "create" /\ w.name = v.name /\ w.data = d
    BY <1>2, <2>2 DEF Writes
  <2>7. ~d.raced => /\ had[p][v.name] \subseteq KeysOf(d)
                    /\ v.name = q.fallback => KeysOf(d) \subseteq InReach(q, q.fallback)
    BY <1>1, <2>1, <2>5 DEF ProcessOK, FlushOK
  <2> HIDE DEF w, v
  <2> QED
    BY <1>3, <1>4, <2>1, <2>3, <2>4, <2>6, <2>7, FlushMoved
<1> QED
  BY <1>5, <1>6, <1>7

LEMMA Saving ==
  ASSUME IInv, TypeOK', NEW p \in Procs, NEW t \in Savers, NEW i \in Ids, Save(p, t, i)
  PROVE  \A q \in Procs : ProcessOK(q)'
<1> DEFINE w == [pc |-> "create", name |-> i, overlap |-> FALSE, data |-> Empty]
<1>1. TypeOK /\ ProcessOK(p) /\ t \in Tasks /\ t # Flush
  BY CacheAssumption DEF IInv, Tasks
<1>2. UNCHANGED <<tip, temp, proc, had>> /\ proc[p].stage # "down"
  BY DEF Save
<1>3. w \in Writes /\ w.pc = "create" /\ w.name = i
  BY EmptyType DEF Writes, Names
<1>4. CASE Goto(p, t, w)
  <2> HIDE DEF w
  <2>1. /\ write'[p][t] = w
        /\ \A q \in Procs, u \in Tasks : <<q, u>> # <<p, t>> => write'[q][u] = write[q][u]
    BY <1>1, <1>3, <1>4, GotoType DEF TypeOK
  <2>2. write'[p][Flush] = write[p][Flush]
    BY <1>1, <2>1, FlushTask
  <2>3. ProcOK(p)' /\ HadOK(p)' /\ FlushOK(p)'
    BY <1>1, <1>2, <2>2 DEF ProcessOK, ProcOK, HadOK, FlushOK, OfBlock, InReach, SeedKeys, KeysOf
  <2>4. ASSUME NEW u \in Savers PROVE SaveOK(p, u)'
    <3>1. u \in Tasks
      BY DEF Tasks
    <3>2. write'[p][u] = w \/ write'[p][u] = write[p][u]
      BY <2>1, <3>1
    <3> QED
      BY <1>1, <1>3, <3>2 DEF ProcessOK, SaveOK
  <2>5. ASSUME NEW u \in Tasks PROVE TempOK(p, u)'
    <3>1. write'[p][u] = w \/ write'[p][u] = write[p][u]
      BY <2>1
    <3> QED
      BY <1>1, <1>2, <1>3, <3>1 DEF ProcessOK, TempOK, TempOf, SyncedTemp
  <2>6. ASSUME NEW r \in Procs, r # p PROVE ProcessOK(r)'
    <3>1. write'[r] = write[r]
      BY <1>1, <1>4, <2>6 DEF Goto, TypeOK
    <3>2. tip <= tip'
      BY <1>1, <1>2, CacheAssumption DEF TypeOK, Blocks
    <3> QED
      BY <1>1, <1>2, <2>6, <3>1, <3>2, Others DEF IInv
  <2> QED
    BY <2>3, <2>4, <2>5, <2>6 DEF ProcessOK
<1>5. CASE UNCHANGED write
  <2>1. tip <= tip'
    BY <1>1, <1>2, CacheAssumption DEF TypeOK, Blocks
  <2> QED
    BY <1>1, <1>2, <1>5, <2>1, Others DEF IInv
<1> QED
  BY <1>4, <1>5 DEF Save

\* What a step of write_atomically does to its task and its temp file.
LEMMA StoreEffect ==
  ASSUME TypeOK, NEW p \in Procs, NEW t \in Tasks, Task(p, t)
  PROVE  LET v == write[p][t] IN
         /\ v.pc \in {"create", "fill", "rename"}
         /\ \E w \in Writes, f \in Files :
              /\ Goto(p, t, w) /\ temp' = [temp EXCEPT ![TempOf(p, t, v.name)] = f]
              /\ f.is # "none" => w.name = v.name /\ w.pc \in {"fill", "rename"}
              /\ \/ w.pc = "idle"
                 \/ /\ w.pc \in {"fill", "rename"} /\ w.name = v.name /\ w.data = v.data
                    /\ w.pc = "rename" => f = SyncedTemp(v.data)
                    /\ UNCHANGED had
<1> DEFINE v == write[p][t]
<1>1. v \in Writes /\ v.data \in Contents
  BY WriteFields
<1>2. CASE CreateTemp(p, t)
  <2> DEFINE f == [is |-> "torn", synced |-> FALSE, data |-> Empty]
             w == [v EXCEPT !.pc = "fill"]
  <2>1. Goto(p, t, w) /\ temp' = [temp EXCEPT ![TempOf(p, t, v.name)] = f] /\ had' = had /\ v.pc = "create"
    BY <1>2 DEF CreateTemp
  <2>2. f \in Files
    BY EmptyType DEF Files
  <2> HIDE DEF f
  <2>3. w \in Writes /\ w.pc = "fill" /\ w.name = v.name /\ w.data = v.data
    BY <1>1 DEF Writes
  <2> HIDE DEF w
  <2> QED
    BY <2>1, <2>2, <2>3
<1>3. CASE FillTemp(p, t)
  <2> DEFINE f == SyncedTemp(v.data)
             w == [v EXCEPT !.pc = "rename"]
  <2>1. Goto(p, t, w) /\ temp' = [temp EXCEPT ![TempOf(p, t, v.name)] = f] /\ had' = had /\ v.pc = "fill"
    BY <1>3 DEF FillTemp
  <2>2. f \in Files
    BY <1>1 DEF Files, SyncedTemp
  <2>3. w \in Writes /\ w.pc = "rename" /\ w.name = v.name /\ w.data = v.data
    BY <1>1 DEF Writes
  <2> HIDE DEF w
  <2> QED
    BY <2>1, <2>2, <2>3
<1>4. CASE Rename(p, t) \/ WriteFails(p, t)
  <2>1. Goto(p, t, NoWrite) /\ temp' = [temp EXCEPT ![TempOf(p, t, v.name)] = NoFile]
        /\ v.pc \in {"create", "fill", "rename"}
    BY <1>4, Returned DEF Rename, WriteFails, TempRemoved
  <2>2. NoWrite.pc = "idle" /\ NoFile.is = "none"
    BY DEF NoWrite, NoFile
  <2> QED
    BY <2>1, <2>2, NoWriteType, NoFileType
<1> QED
  BY <1>2, <1>3, <1>4 DEF Task

\* Of its process, only the stage changes, and only at the end of a last flush.
LEMMA StoreKeeps ==
  ASSUME TypeOK, NEW p \in Procs, NEW t \in Tasks, Task(p, t)
  PROVE  /\ UNCHANGED tip
         /\ \A q \in Procs :
              /\ proc'[q].stage = proc[q].stage \/
                   (proc[q].stage = "surfacesDown" /\ proc'[q].stage = "exiting")
              /\ proc'[q].refreshing = proc[q].refreshing
              /\ proc'[q].fallback = proc[q].fallback /\ proc'[q].env = proc[q].env
              /\ proc'[q].seed = proc[q].seed /\ proc'[q].known = proc[q].known
              /\ proc'[q].fetched = proc[q].fetched
              /\ q # p => proc'[q] = proc[q] /\ had'[q] = had[q]
<1>1. CASE CreateTemp(p, t) \/ FillTemp(p, t)
  BY <1>1 DEF CreateTemp, FillTemp
<1>2. CASE Rename(p, t) \/ WriteFails(p, t)
  <2>1. Return(p, t) /\ tip' = tip
    BY <1>2 DEF Rename, WriteFails
  <2>2. \A q \in Procs : q # p => proc'[q] = proc[q] /\ had'[q] = had[q]
    BY <1>2, <2>1 DEF Return, Rename, WriteFails, TypeOK
  <2> QED
    BY <2>1, <2>2, Returned
<1> QED
  BY <1>1, <1>2 DEF Task

\* What a process has grows only by what its flush renamed.
LEMMA StoredHad ==
  ASSUME TypeOK, NEW p \in Procs, NEW t \in Tasks, Task(p, t), ProcessOK(p)
  PROVE  \/ had'[p] = had[p]
         \/ /\ t = Flush /\ write[p][t].pc = "rename" /\ ~write[p][t].data.raced
            /\ \A n \in Blocks :
                 had'[p][n] \subseteq
                   had[p][n] \cup (IF n = write[p][t].name THEN KeysOf(write[p][t].data) ELSE {})
<1> DEFINE v == write[p][t]
<1>1. had \in [Procs -> [Blocks -> SUBSET Keys]]
  BY DEF TypeOK
<1>2. CASE had' = had
  BY <1>2
<1>3. CASE Rename(p, t) /\ t = Flush /\ ~v.data.raced
  <2>1. had' = [had EXCEPT ![p] = [had[p] EXCEPT ![v.name] = had[p][v.name] \cup KeysOf(v.data)]]
        /\ v.pc = "rename"
    BY <1>3 DEF Rename
  <2>2. had'[p] = [had[p] EXCEPT ![v.name] = had[p][v.name] \cup KeysOf(v.data)]
    BY <1>1, <2>1
  <2>3. had[p] \in [Blocks -> SUBSET Keys]
    BY <1>1
  <2>4. \A n \in Blocks : had'[p][n] = IF n = v.name THEN had[p][n] \cup KeysOf(v.data) ELSE had[p][n]
    BY <2>2, <2>3
  <2> QED
    BY <1>3, <2>1, <2>4
<1> QED
  BY <1>2, <1>3 DEF Task, CreateTemp, FillTemp, Rename, WriteFails

LEMMA Stored ==
  ASSUME IInv, TypeOK', NEW p \in Procs, NEW t \in Tasks, Task(p, t)
  PROVE  \A q \in Procs : ProcessOK(q)'
<1> DEFINE v == write[p][t]
<1>1. TypeOK /\ ProcessOK(p) /\ v.name \in Names
  BY WriteFields DEF IInv
<1>2. PICK w \in Writes, f \in Files :
        /\ v.pc \in {"create", "fill", "rename"}
        /\ Goto(p, t, w) /\ temp' = [temp EXCEPT ![TempOf(p, t, v.name)] = f]
        /\ f.is # "none" => w.name = v.name /\ w.pc \in {"fill", "rename"}
        /\ \/ w.pc = "idle"
           \/ /\ w.pc \in {"fill", "rename"} /\ w.name = v.name /\ w.data = v.data
              /\ w.pc = "rename" => f = SyncedTemp(v.data)
              /\ UNCHANGED had
  BY <1>1, StoreEffect
<1>3. /\ write'[p][t] = w
      /\ \A q \in Procs, u \in Tasks : <<q, u>> # <<p, t>> => write'[q][u] = write[q][u]
  BY <1>1, <1>2, GotoType DEF TypeOK
<1>4. /\ temp'[TempOf(p, t, v.name)] = f
      /\ \A q \in Procs, u \in Tasks, n \in Names :
           <<q, u>> # <<p, t>> => temp'[TempOf(q, u, n)] = temp[TempOf(q, u, n)]
  <2>1. Goto(p, t, w)
    BY <1>2
  <2>2. temp' = [temp EXCEPT ![TempOf(p, t, write[p][t].name)] = f]
    BY <1>2
  <2>3. f.is # "none" => w.name = write[p][t].name /\ w.pc \in {"fill", "rename"}
    BY <1>2
  <2>4. TypeOK
    BY <1>1
  <2> HIDE DEF v
  <2>5. /\ write' \in [Procs -> [Tasks -> Writes]]
        /\ temp' \in [Procs \X Tasks \X Names -> TempFiles]
        /\ temp'[TempOf(p, t, write[p][t].name)] = f
        /\ \A q \in Procs, u \in Tasks, n \in Names :
             <<q, u>> # <<p, t>> => temp'[TempOf(q, u, n)] = temp[TempOf(q, u, n)]
        /\ TempsUsed'
    BY <2>1, <2>2, <2>3, <2>4, TempsChange
  <2> QED
    BY <2>5 DEF v
<1>5. /\ UNCHANGED tip
      /\ proc'[p].stage = proc[p].stage \/
           (proc[p].stage = "surfacesDown" /\ proc'[p].stage = "exiting")
      /\ proc'[p].refreshing = proc[p].refreshing
      /\ proc'[p].fallback = proc[p].fallback /\ proc'[p].env = proc[p].env
      /\ proc'[p].seed = proc[p].seed /\ proc'[p].known = proc[p].known
      /\ proc'[p].fetched = proc[p].fetched
      /\ \A q \in Procs : q # p => proc'[q] = proc[q] /\ had'[q] = had[q]
  BY <1>1, StoreKeeps
<1>6. proc[p].stage # "down"
  BY <1>1, <1>2 DEF ProcessOK, ProcOK
<1>7. ProcOK(p)'
  BY <1>1, <1>5, <1>6 DEF ProcessOK, ProcOK, OfBlock
<1>8. \A n : InReach(proc'[p], n) = InReach(proc[p], n)
  BY <1>5 DEF InReach, SeedKeys
<1>9. HadOK(p)'
  <2>1. CASE had'[p] = had[p]
    BY <1>1, <1>5, <1>6, <1>8, <2>1 DEF ProcessOK, HadOK
  <2>2. CASE /\ t = Flush /\ v.pc = "rename" /\ ~v.data.raced
             /\ \A n \in Blocks :
                  had'[p][n] \subseteq had[p][n] \cup (IF n = v.name THEN KeysOf(v.data) ELSE {})
    <3>1. /\ v.name \in Blocks /\ v.name <= proc[p].fallback
          /\ v.name = proc[p].fallback => KeysOf(v.data) \subseteq InReach(proc[p], proc[p].fallback)
      BY <1>1, <2>2 DEF ProcessOK, FlushOK, Saved
    <3>2. proc[p].fallback \in Blocks
      BY <1>1, <1>6 DEF ProcessOK, ProcOK
    <3>3. had[p][proc[p].fallback] \subseteq InReach(proc[p], proc[p].fallback)
          /\ \A n \in Blocks : n > proc[p].fallback => had[p][n] = {}
      BY <1>1, <1>6 DEF ProcessOK, HadOK
    <3>4. \A n \in Blocks : n > proc[p].fallback => had'[p][n] = {}
      BY <2>2, <3>1, <3>2, <3>3, CacheAssumption DEF Blocks
    <3>5. had'[p][proc[p].fallback] \subseteq InReach(proc[p], proc[p].fallback)
      BY <2>2, <3>1, <3>2, <3>3
    <3> QED
      BY <1>5, <1>8, <3>4, <3>5 DEF HadOK
  <2> QED
    BY <1>1, <2>1, <2>2, StoredHad
<1>10. FlushOK(p)'
  <2>1. CASE t = Flush /\ w.pc = "idle"
    BY <1>3, <2>1 DEF FlushOK, Saved
  <2>2. CASE t = Flush /\ w.pc \in {"fill", "rename"} /\ w.name = v.name /\ w.data = v.data /\ had' = had
    <3>1. write'[p][Flush] = w
      BY <1>3, <2>2
    <3>2. Saved(v.pc) /\ v.pc # "idle" /\ w.pc # "fallback"
      BY <1>2, <2>2 DEF Saved
    <3>3. /\ w.name \in Blocks /\ w.name <= proc[p].fallback
          /\ OfBlock(w.name, w.data)
          /\ ~w.data.raced =>
               /\ had[p][w.name] \subseteq KeysOf(w.data)
               /\ w.name = proc[p].fallback => KeysOf(w.data) \subseteq InReach(proc[p], proc[p].fallback)
      BY <1>1, <2>2, <3>2 DEF ProcessOK, FlushOK
    <3> QED
      BY <1>5, <1>8, <2>2, <3>1, <3>2, <3>3 DEF FlushOK, OfBlock, KeysOf
  <2>3. CASE t # Flush
    <3>1. write'[p][Flush] = write[p][Flush]
      BY <1>3, <2>3, FlushTask
    <3>2. had'[p] = had[p]
      BY <1>1, <2>3, StoredHad
    <3> QED
      BY <1>1, <1>5, <1>8, <3>1, <3>2 DEF ProcessOK, FlushOK, OfBlock, KeysOf
  <2> QED
    BY <1>2, <2>1, <2>2, <2>3
<1>11. ASSUME NEW u \in Savers PROVE SaveOK(p, u)'
  <2>1. u \in Tasks
    BY DEF Tasks
  <2>2. CASE u = t
    BY <1>1, <1>2, <1>3, <2>2 DEF ProcessOK, SaveOK
  <2>3. CASE u # t
    BY <1>1, <1>3, <2>1, <2>3 DEF ProcessOK, SaveOK
  <2> QED
    BY <2>2, <2>3
<1>12. ASSUME NEW u \in Tasks PROVE TempOK(p, u)'
  <2>1. CASE u = t
    BY <1>2, <1>3, <1>4, <2>1 DEF TempOK, SyncedTemp, TempOf
  <2>2. CASE u # t
    <3>1. write'[p][u] = write[p][u] /\ write[p][u].name \in Names
      BY <1>1, <1>3, <2>2, WriteFields
    <3>2. temp'[TempOf(p, u, write[p][u].name)] = temp[TempOf(p, u, write[p][u].name)]
      BY <1>4, <2>2, <3>1
    <3> QED
      BY <1>1, <3>1, <3>2 DEF ProcessOK, TempOK, SyncedTemp, TempOf
  <2> QED
    BY <2>1, <2>2
<1>13. ASSUME NEW r \in Procs, r # p PROVE ProcessOK(r)'
  <2>1. write'[r] = write[r]
    BY <1>1, <1>2, <1>13 DEF Goto, TypeOK
  <2>2. tip <= tip'
    BY <1>1, <1>5, CacheAssumption DEF TypeOK, Blocks
  <2>3. \A u \in Tasks, n \in Names : temp'[TempOf(r, u, n)] = temp[TempOf(r, u, n)]
    BY <1>4, <1>13
  <2> QED
    BY <1>1, <1>5, <1>13, <2>1, <2>2, <2>3, Others DEF IInv
<1> QED
  BY <1>7, <1>9, <1>10, <1>11, <1>12, <1>13 DEF ProcessOK

LEMMA Stopping ==
  ASSUME IInv, TypeOK', NEW p \in Procs, StopFollower(p) \/ StopFlush(p)
  PROVE  \A q \in Procs : ProcessOK(q)'
<1>1. TypeOK /\ ProcessOK(p) /\ proc \in [Procs -> Processes]
  BY DEF IInv, TypeOK
<1>2. UNCHANGED <<tip, temp, write, had>>
  BY DEF StopFollower, StopFlush
<1>3. PICK s \in {"followerDown", "surfacesDown"} : proc' = [proc EXCEPT ![p] = [@ EXCEPT !.stage = s]]
  BY DEF StopFollower, StopFlush
<1>4. /\ proc'[p].stage = s /\ proc'[p].refreshing = proc[p].refreshing
      /\ proc'[p].fallback = proc[p].fallback /\ proc'[p].env = proc[p].env
      /\ proc'[p].seed = proc[p].seed /\ proc'[p].known = proc[p].known
      /\ proc'[p].fetched = proc[p].fetched
  <2>1. proc'[p] = [proc[p] EXCEPT !.stage = s]
    BY <1>1, <1>3
  <2> QED
    BY <1>1, <2>1 DEF Processes
<1>5. proc[p].stage # "down" /\ ~proc[p].refreshing
  BY <1>1 DEF StopFollower, StopFlush, FollowerStopped, ProcessOK, ProcOK
<1>6. ProcOK(p)'
  BY <1>1, <1>2, <1>4, <1>5 DEF ProcessOK, ProcOK, OfBlock
<1>7. HadOK(p)' /\ FlushOK(p)'
  BY <1>1, <1>2, <1>4, <1>5 DEF ProcessOK, HadOK, FlushOK, InReach, SeedKeys, OfBlock, KeysOf
<1>8. (\A t \in Savers : SaveOK(p, t)') /\ (\A t \in Tasks : TempOK(p, t)')
  BY <1>1, <1>2 DEF ProcessOK, SaveOK, TempOK, TempOf, SyncedTemp
<1>9. ASSUME NEW r \in Procs, r # p PROVE ProcessOK(r)'
  <2>1. proc'[r] = proc[r]
    BY <1>1, <1>3, <1>9
  <2>2. tip <= tip'
    BY <1>1, <1>2, CacheAssumption DEF TypeOK, Blocks
  <2> QED
    BY <1>1, <1>2, <1>9, <2>1, <2>2, Others DEF IInv
<1> QED
  BY <1>6, <1>7, <1>8, <1>9 DEF ProcessOK

LEMMA Ending ==
  ASSUME IInv, TypeOK', PowerLoss \/ \E p \in Procs : Exit(p) \/ Kill(p)
  PROVE  \A q \in Procs : ProcessOK(q)'
<1>1. PICK P, lost : Gone(P, lost) /\ (lost = {} \/ P = Procs)
  BY DEF PowerLoss, Exit, Kill
<1>2. tip' = tip /\ TypeOK
  BY DEF PowerLoss, Exit, Kill, IInv
<1> SUFFICES ASSUME NEW q \in Procs PROVE ProcessOK(q)'
  OBVIOUS
<1>3. CASE q \in P
  <2>1. proc'[q] = Down /\ \A t \in Tasks : write'[q][t] = NoWrite
    BY <1>1, <1>3 DEF Gone
  <2>2. /\ proc'[q].stage = "down" /\ proc'[q].refreshing = FALSE /\ proc'[q].seed = NoBlock
        /\ \A t \in Tasks : write'[q][t].pc = "idle"
    BY <2>1 DEF Down, NoWrite
  <2> QED
    BY <2>2, FlushTask DEF ProcessOK, ProcOK, HadOK, FlushOK, SaveOK, TempOK, Saved, Tasks
<1>4. CASE q \notin P
  <2>1. proc'[q] = proc[q] /\ write'[q] = write[q] /\ had'[q] = had[q]
    BY <1>1, <1>4 DEF Gone
  <2>2. ASSUME NEW t \in Tasks, NEW n \in Names
        PROVE  temp'[TempOf(q, t, n)] = temp[TempOf(q, t, n)]
    <3>1. <<q, t, n>> \in DOMAIN temp /\ <<q, t, n>>[1] = q
      BY <1>2 DEF TypeOK
    <3> QED
      BY <1>1, <1>4, <3>1 DEF Gone, TempOf
  <2>3. tip <= tip'
    BY <1>2, CacheAssumption DEF TypeOK, Blocks
  <2> QED
    BY <1>2, <2>1, <2>2, <2>3, Others DEF IInv
<1> QED
  BY <1>3, <1>4

----------------------------------------------------------------------------
(* The files *)

LEMMA SyncedWhole ==
  ASSUME NEW d
  PROVE  /\ SyncedTemp(d).is = "whole" /\ SyncedTemp(d).synced = TRUE
         /\ SyncedTemp(d).data = d
  BY DEF SyncedTemp

\* What is renamed is whole, and what a flush renames is of its block.
LEMMA Renamed ==
  ASSUME IInv, NEW p \in Procs, NEW t \in Tasks, Rename(p, t)
  PROVE  /\ dir' = [dir EXCEPT ![write[p][t].name] = SyncedTemp(write[p][t].data)]
         /\ older' = [older EXCEPT ![write[p][t].name] = dir[write[p][t].name]]
         /\ FileOK(write[p][t].name, SyncedTemp(write[p][t].data))
<1> DEFINE w == write[p][t]
<1>1. ProcessOK(p) /\ w.pc = "rename"
  BY DEF IInv, Rename
<1>2. temp[TempOf(p, t, w.name)] = SyncedTemp(w.data)
  BY <1>1 DEF ProcessOK, TempOK
<1>3. w.name \in Blocks => OfBlock(w.name, w.data)
  <2>1. CASE t = Flush
    BY <1>1, <2>1 DEF ProcessOK, FlushOK, Saved
  <2>2. CASE t \in Savers
    BY <1>1, <2>2, CacheAssumption DEF ProcessOK, SaveOK
  <2> QED
    BY <2>1, <2>2 DEF Tasks
<1> QED
  BY <1>2, <1>3, SyncedWhole DEF Rename, FileOK

LEMMA FilesStep ==
  ASSUME IInv, [Next]_vars
  PROVE  \A n \in Names : FileOK(n, dir[n])' /\ FileOK(n, older[n])'
<1> SUFFICES ASSUME NEW n \in Names PROVE FileOK(n, dir'[n]) /\ FileOK(n, older'[n])
  BY DEF FileOK, OfBlock
<1>1. FileOK(n, dir[n]) /\ FileOK(n, older[n]) /\ dir \in [Names -> Files] /\ older \in [Names -> Files]
  BY DEF IInv, TypeOK
<1>2. CASE UNCHANGED <<dir, older>>
  BY <1>1, <1>2
<1>3. ASSUME NEW p \in Procs, NEW t \in Tasks, Rename(p, t)
      PROVE  FileOK(n, dir'[n]) /\ FileOK(n, older'[n])
  BY <1>1, <1>3, Renamed
<1>4. CASE PowerLoss
  <2>1. PICK undone \in SUBSET Names :
          dir' = [m \in Names |-> Landed(IF m \in undone THEN older[m] ELSE dir[m])]
    BY <1>4 DEF PowerLoss
  <2>2. Landed(dir[n]) = dir[n] /\ Landed(older[n]) = older[n]
    BY <1>1 DEF Landed, FileOK
  <2>3. older' = dir' /\ dir'[n] \in {dir[n], older[n]}
    BY <1>4, <2>1, <2>2 DEF PowerLoss
  <2> QED
    BY <1>1, <2>3
<1>5. ASSUME NEW p \in Procs, NEW t \in Tasks, Task(p, t), ~Rename(p, t)
      PROVE  UNCHANGED <<dir, older>>
  BY <1>5 DEF Task, CreateTemp, FillTemp, WriteFails
<1>6. ASSUME NEW p \in Procs,
             \/ \E m \in Blocks, follows \in BOOLEAN : Launch(p, m, follows)
             \/ \E k \in Keys : Fetch(p, k)
             \/ ReFork(p) \/ WriteEnv(p)
             \/ BeginFlush(p) \/ ReadFallback(p) \/ ReadEnv(p)
             \/ \E t \in Savers, i \in Ids : Save(p, t, i)
             \/ StopFollower(p) \/ StopFlush(p) \/ Exit(p) \/ Kill(p)
      PROVE  UNCHANGED <<dir, older>>
  BY <1>6 DEF Launch, Fetch, ReFork, WriteEnv, BeginFlush, ReadFallback, ReadEnv, Save,
              StopFollower, StopFlush, Exit, Kill
<1>7. CASE Mine
  BY <1>2, <1>7 DEF Mine
<1>8. CASE Next
  BY <1>2, <1>3, <1>4, <1>5, <1>6, <1>7, <1>8 DEF Next
<1> QED
  BY <1>2, <1>8 DEF vars

LEMMA StoredStep ==
  ASSUME IInv, [Next]_vars
  PROVE  StoredStays'
<1>1. StoredStays /\ dir \in [Names -> Files] /\ promised \subseteq Ids
      /\ \A n \in Names : FileOK(n, dir[n])
  BY DEF IInv, TypeOK
<1>2. CASE UNCHANGED <<dir, promised>>
  BY <1>1, <1>2 DEF StoredStays, Usable
<1>3. ASSUME NEW p \in Procs, NEW t \in Savers, NEW i \in Ids, Save(p, t, i)
      PROVE  StoredStays'
  <2>1. dir' = dir /\ (promised' = promised \/ (dir[i].is # "none" /\ promised' = promised \cup {i}))
    BY <1>3 DEF Save
  <2>2. dir[i].is # "none" => dir[i].is = "whole"
    <3>1. dir[i] \in Files /\ FileOK(i, dir[i])
      BY <1>1 DEF Names
    <3> QED
      BY <3>1 DEF FileOK, Files
  <2> QED
    BY <1>1, <2>1, <2>2 DEF StoredStays, Usable
<1>4. ASSUME NEW p \in Procs, NEW t \in Tasks, Rename(p, t)
      PROVE  StoredStays'
  <2>1. dir' = [dir EXCEPT ![write[p][t].name] = SyncedTemp(write[p][t].data)]
    BY <1>4, Renamed
  <2>2. promised' = promised \cup ({write[p][t].name} \cap Ids)
    BY <1>4 DEF Rename
  <2>3. ASSUME NEW i \in promised' PROVE dir'[i].is = "whole"
    <3>1. i \in Names
      BY <1>1, <2>2 DEF Names
    <3>2. CASE i = write[p][t].name
      BY <1>1, <2>1, <3>1, <3>2, SyncedWhole
    <3>3. CASE i # write[p][t].name
      BY <1>1, <2>1, <2>2, <3>1, <3>3 DEF StoredStays, Usable
    <3> QED
      BY <3>2, <3>3
  <2> QED
    BY <2>3 DEF StoredStays, Usable
<1>5. CASE PowerLoss
  BY <1>5 DEF PowerLoss, StoredStays, Usable
<1>6. ASSUME NEW p \in Procs, NEW t \in Tasks, Task(p, t), ~Rename(p, t)
      PROVE  UNCHANGED <<dir, promised>>
  BY <1>6 DEF Task, CreateTemp, FillTemp, WriteFails, OnError
<1>7. ASSUME NEW p \in Procs,
             \/ \E n \in Blocks, follows \in BOOLEAN : Launch(p, n, follows)
             \/ \E k \in Keys : Fetch(p, k)
             \/ ReFork(p) \/ WriteEnv(p)
             \/ BeginFlush(p) \/ ReadFallback(p) \/ ReadEnv(p)
             \/ StopFollower(p) \/ StopFlush(p) \/ Exit(p) \/ Kill(p)
      PROVE  UNCHANGED <<dir, promised>>
  BY <1>7 DEF Launch, Fetch, ReFork, WriteEnv, BeginFlush, ReadFallback, ReadEnv,
              StopFollower, StopFlush, Exit, Kill
<1>8. CASE Mine
  BY <1>2, <1>8 DEF Mine
<1>9. CASE Next
  BY <1>2, <1>3, <1>4, <1>5, <1>6, <1>7, <1>8, <1>9 DEF Next
<1> QED
  BY <1>2, <1>9 DEF vars

----------------------------------------------------------------------------
(* The invariant *)

LEMMA InitOK == Init => IInv
<1> SUFFICES ASSUME Init PROVE IInv
  OBVIOUS
<1>1. TypeOK
  BY TypeInit
<1>2. ASSUME NEW n \in Names PROVE FileOK(n, dir[n]) /\ FileOK(n, older[n])
  <2>1. dir[n] = NoFile /\ older[n] = NoFile
    BY DEF Init
  <2> QED
    BY <2>1 DEF FileOK, NoFile
<1>3. ASSUME NEW p \in Procs PROVE ProcessOK(p)
  <2>1. /\ proc[p].stage = "down" /\ proc[p].refreshing = FALSE /\ proc[p].seed = NoBlock
        /\ \A t \in Tasks : write[p][t].pc = "idle"
    BY DEF Init, Down, NoWrite
  <2> QED
    BY <2>1, FlushTask DEF ProcessOK, ProcOK, HadOK, FlushOK, SaveOK, TempOK, Saved, Tasks
<1>4. StoredStays
  BY DEF Init, StoredStays, Usable
<1> QED
  BY <1>1, <1>2, <1>3, <1>4 DEF IInv

LEMMA ProcessStep ==
  ASSUME IInv, [Next]_vars, TypeOK'
  PROVE  \A p \in Procs : ProcessOK(p)'
<1>1. CASE Mine \/ UNCHANGED vars
  <2>1. UNCHANGED <<temp, proc, write, had>> /\ TypeOK
    BY <1>1 DEF Mine, vars, IInv
  <2>2. tip <= tip'
    BY <1>1, <2>1, CacheAssumption DEF Mine, vars, TypeOK, Blocks
  <2> QED
    BY <2>1, <2>2, Others DEF IInv
<1>2. CASE PowerLoss
  BY <1>2, Ending
<1>3. ASSUME NEW q \in Procs, ReFork(q) \/ WriteEnv(q)
      PROVE  \A p \in Procs : ProcessOK(p)'
  BY <1>3, Refreshed
<1>4. ASSUME NEW q \in Procs, BeginFlush(q) \/ ReadFallback(q) \/ ReadEnv(q)
      PROVE  \A p \in Procs : ProcessOK(p)'
  BY <1>4, Flushing
<1>5. ASSUME NEW q \in Procs, Exit(q) \/ Kill(q)
      PROVE  \A p \in Procs : ProcessOK(p)'
  BY <1>5, Ending
<1>6. ASSUME NEW q \in Procs, StopFollower(q) \/ StopFlush(q)
      PROVE  \A p \in Procs : ProcessOK(p)'
  BY <1>6, Stopping
<1>7. ASSUME NEW q \in Procs,
             \/ \E n \in Blocks, follows \in BOOLEAN : Launch(q, n, follows)
             \/ \E k \in Keys : Fetch(q, k)
      PROVE  \A p \in Procs : ProcessOK(p)'
  BY <1>7, Launched, Fetched
<1>8. ASSUME NEW q \in Procs, NEW t \in Savers, NEW i \in Ids, Save(q, t, i)
      PROVE  \A p \in Procs : ProcessOK(p)'
  BY <1>8, Saving
<1>9. ASSUME NEW q \in Procs, NEW t \in Tasks, Task(q, t)
      PROVE  \A p \in Procs : ProcessOK(p)'
  BY <1>9, Stored
<1> QED
  BY <1>1, <1>2, <1>3, <1>4, <1>5, <1>6, <1>7, <1>8, <1>9 DEF Next

LEMMA StepOK == IInv /\ [Next]_vars => IInv'
<1> SUFFICES ASSUME IInv, [Next]_vars PROVE IInv'
  OBVIOUS
<1>1. \A p \in Procs : ProcOK(p) /\ \A t \in Tasks : TempOK(p, t)
  BY DEF IInv, ProcessOK
<1>2. TypeOK'
  BY <1>1, TypeStep DEF IInv
<1>3. \A p \in Procs : ProcessOK(p)'
  BY <1>2, ProcessStep
<1>4. \A n \in Names : FileOK(n, dir[n])' /\ FileOK(n, older[n])'
  BY FilesStep
<1>5. StoredStays'
  BY StoredStep
<1> QED
  BY <1>2, <1>3, <1>4, <1>5 DEF IInv

\* The invariant holds throughout, and the runs' properties are parts of it.
THEOREM Invariant == Spec => []IInv
<1>1. Init => IInv
  BY InitOK
<1>2. IInv /\ [Next]_vars => IInv'
  BY StepOK
<1> QED
  BY <1>1, <1>2, PTL DEF Spec

----------------------------------------------------------------------------
(* The theorems *)

\* Every variable keeps its shape, and no write of write_atomically, whether it
\* ends in its rename or fails, leaves a temp file behind.
THEOREM TypeCorrect == Spec => []TypeOK
<1>1. IInv => TypeOK
  BY DEF IInv
<1> QED
  BY <1>1, Invariant, PTL

\* However many processes write a path at once, are killed at it or fail, and
\* whatever a loss of power undoes, a reader never sees part of a file.
THEOREM Whole == Spec => []FilesWhole
<1>1. IInv => FilesWhole
  BY DEF IInv, FileOK, FilesWhole
<1> QED
  BY <1>1, Invariant, PTL

\* A fork cache serves the state of its own block alone, unless persist_cache
\* read its parts across a refresh; and never the env of another block.
THEOREM RightBlock == Spec => []FilesOfTheirBlock
<1>1. IInv => FilesOfTheirBlock
  BY DEF IInv, FileOK, OfBlock, FilesOfTheirBlock, Names
<1> QED
  BY <1>1, Invariant, PTL

\* A flush writes all its process loaded or wrote for the block before.
THEOREM Kept == Spec => []NeverErodes
<1>1. IInv => NeverErodes
  BY DEF IInv, ProcessOK, FlushOK, Saved, NeverErodes
<1> QED
  BY <1>1, Invariant, PTL

\* A snapshot whose id a process was given is on the disk, whole, and stays.
THEOREM Handed == Spec => []StoredStays
<1>1. IInv => StoredStays
  BY DEF IInv
<1> QED
  BY <1>1, Invariant, PTL
=============================================================================
