-------------------------------- MODULE Cache --------------------------------
(***************************************************************************)
(* The files that outlive a process: fork caches, one per block, which a   *)
(* process loads when it starts and writes at an interval and when it      *)
(* shuts down, and session snapshots, named by their content.  Processes   *)
(* share the directories, and may be killed; the machine may lose power.   *)
(*                                                                         *)
(* What is cached under a key is abstracted to the block it was read at,   *)
(* NoBlock if nothing is; the content of a snapshot file to its id.  Of a  *)
(* refresh, only the two writes that persist_cache can see are modelled,   *)
(* those of the fallback and of the block_env.                             *)
(***************************************************************************)
EXTENDS Integers, FiniteSets

CONSTANTS
  Procs,      \* processes that share a cache and a snapshot directory
  Savers,     \* a process's requests that save a session
  Ids,        \* snapshot ids, the hash of what is saved
  Keys,       \* accounts, slots, code and block hashes
  Start,      \* the chain's block when the first process starts
  MaxBlock,   \* bound: the last block the chain produces
  MaxStarts,  \* bound: processes started
  MaxWrites   \* bound: flushes and saves begun

Blocks  == 1 .. MaxBlock
NoBlock == 0
Flush   == "flush"           \* a process's one task that persists the cache
Tasks   == Savers \cup {Flush}
Names   == Blocks \cup Ids   \* paths, by the block or the id in them

ASSUME CacheAssumption ==
  /\ MaxBlock \in Nat \ {0} /\ Start \in Blocks
  /\ MaxStarts \in Nat /\ MaxWrites \in Nat
  /\ Flush \notin Savers /\ Ids \cap Blocks = {}

VARIABLES
  tip,       \* the chain's latest block, upstream
  dir,       \* the file at each path, as a reader sees it
  older,     \* what each path held before its last rename
  temp,      \* temp files
  proc,      \* each process: its SessionManager, its seed, how far it has shut down
  write,     \* each task's store, the call of write_atomically included
  promised,  \* history: ids handed out since power was lost
  had,       \* history: the keys a process has loaded or saved for each block
  starts,    \* processes started so far
  begun      \* flushes and saves begun so far

bounds == <<starts, begun>>
vars == <<tip, dir, older, temp, proc, write, promised, had, bounds>>

\* `raced` is a history field: a refresh overlapped the interval flush that
\* wrote it, or the one that wrote what it was seeded with.
Contents == [env : 0 .. MaxBlock, of : [Keys -> 0 .. MaxBlock], raced : BOOLEAN]
Empty == [env |-> NoBlock, of |-> [k \in Keys |-> NoBlock], raced |-> FALSE]
KeysOf(d) == {k \in Keys : d.of[k] # NoBlock}

Files == [is : {"none", "torn", "whole"}, synced : BOOLEAN, data : Contents]
NoFile == [is |-> "none", synced |-> TRUE, data |-> Empty]
\* A temp file whose process ended in the middle of the write; what is in it
\* matters no more.
LeftFile == [is |-> "left", synced |-> TRUE, data |-> Empty]
TempFiles == Files \cup {LeftFile}

Down == [stage |-> "down", follows |-> FALSE, refreshing |-> FALSE, fallback |-> NoBlock,
         env |-> NoBlock, seed |-> NoBlock, known |-> Empty, fetched |-> {}]
NoWrite == [pc |-> "idle", name |-> Start, overlap |-> FALSE, data |-> Empty]
NoneKnown == [n \in Blocks |-> {}]

Init ==
  /\ tip = Start
  /\ dir = [n \in Names |-> NoFile]
  /\ older = dir
  /\ temp = [x \in Procs \X Tasks \X Names |-> NoFile]
  /\ proc = [p \in Procs |-> Down]
  /\ write = [p \in Procs |-> [t \in Tasks |-> NoWrite]]
  /\ promised = {}
  /\ had = [p \in Procs |-> NoneKnown]
  /\ starts = 0 /\ begun = 0

----------------------------------------------------------------------------
(* Start, serving, the follower *)

Mine ==
  /\ tip < MaxBlock
  /\ tip' = tip + 1
  /\ UNCHANGED <<dir, older, temp, proc, write, promised, had, bounds>>

\* What parses, has the format's tags and the path's key, and decodable code:
\* of the files at a path, all but those a crash tore.
Usable(f) == f.is = "whole"
\* load_with_block_env drops an env of another block than the file's.
Hint(d, n) == IF d.env = n THEN d.env ELSE NoBlock

\* A pinned process reads the file first and is at the block of the env in it,
\* a following one asks for the tip first.  A file that cannot be used is ignored.
Launch(p, n, follows) ==
  /\ proc[p].stage = "down" /\ starts < MaxStarts
  /\ starts' = starts + 1
  /\ IF follows THEN n = tip ELSE n <= tip
  /\ LET usable == Usable(dir[n])
         hint == IF usable /\ ~follows THEN Hint(dir[n].data, n) ELSE NoBlock
         block == IF hint # NoBlock THEN hint ELSE n IN
     /\ proc' = [proc EXCEPT ![p] =
          [stage |-> "up", follows |-> follows, refreshing |-> FALSE,
           fallback |-> block, env |-> block, seed |-> IF usable THEN block ELSE NoBlock,
           known |-> IF usable THEN dir[n].data ELSE Empty, fetched |-> {}]]
     /\ had' = [had EXCEPT ![p] =
          [NoneKnown EXCEPT ![block] = IF usable THEN KeysOf(dir[n].data) ELSE {}]]
  /\ UNCHANGED <<tip, dir, older, temp, write, promised, begun>>

\* A key some session reads through the current fallback; a session on the
\* seeded base finds the seed's keys there and never asks for them.
Fetch(p, k) ==
  /\ proc[p].stage \notin {"down", "exiting"} /\ k \notin proc[p].fetched
  /\ proc[p].fallback = proc[p].seed => k \notin KeysOf(proc[p].known)
  /\ proc' = [proc EXCEPT ![p] = [@ EXCEPT !.fetched = proc[p].fetched \cup {k}]]
  /\ UNCHANGED <<tip, dir, older, temp, write, promised, had, bounds>>

Goto(p, t, w) == write' = [write EXCEPT ![p] = [write[p] EXCEPT ![t] = w]]

AtInterval(p) == proc[p].stage # "surfacesDown"
\* An interval flush that has read the block number and not yet the fallback.
Overlap(p) ==
  LET w == write[p][Flush] IN
  Goto(p, Flush, [w EXCEPT !.overlap = w.overlap \/ (AtInterval(p) /\ w.pc = "fallback")])

\* refresh_fallback, whose two writes no stop signal comes between: a fresh
\* backend, then its block_env.
ReFork(p) ==
  /\ proc[p].follows /\ proc[p].stage = "up"
  /\ ~proc[p].refreshing /\ tip # proc[p].env
  /\ proc' = [proc EXCEPT ![p] = [@ EXCEPT !.refreshing = TRUE, !.fallback = tip, !.fetched = {}]]
  /\ Overlap(p)
  /\ UNCHANGED <<tip, dir, older, temp, promised, had, bounds>>

WriteEnv(p) ==
  /\ proc[p].refreshing
  /\ proc' = [proc EXCEPT ![p] = [@ EXCEPT !.refreshing = FALSE, !.env = proc[p].fallback]]
  /\ Overlap(p)
  /\ UNCHANGED <<tip, dir, older, temp, promised, had, bounds>>

----------------------------------------------------------------------------
(* persist_cache and SnapshotStore::store, up to the bytes to write *)

\* The interval flush, or the last one of a shutdown.
BeginFlush(p) ==
  /\ proc[p].stage \in {"up", "followerDown", "surfacesDown"}
  /\ write[p][Flush].pc = "idle" /\ begun < MaxWrites
  /\ begun' = begun + 1
  /\ Goto(p, Flush, [pc |-> "fallback", name |-> proc[p].env, data |-> Empty,
                      overlap |-> AtInterval(p) /\ proc[p].refreshing])
  /\ UNCHANGED <<tip, dir, older, temp, proc, promised, had, starts>>

FetchedOnly(q, n) == FALSE  \* mutant
\* "Guarded on the block still matching".
Seeded(q, n) == q.seed = n

ReadFallback(p) ==
  /\ write[p][Flush].pc = "fallback"
  /\ LET q == proc[p]
         w == write[p][Flush]
         of == [k \in Keys |-> IF k \in q.fetched THEN q.fallback
                               ELSE IF Seeded(q, w.name) THEN q.known.of[k] ELSE NoBlock] IN
     Goto(p, Flush,
       [w EXCEPT !.pc = "env",
                 !.data = [env |-> NoBlock, of |-> of,
                           raced |-> w.overlap \/ (Seeded(q, w.name) /\ q.known.raced)]])
  /\ UNCHANGED <<tip, dir, older, temp, proc, promised, had, bounds>>

\* store_inner: an env of another block than the key's is left out.
EnvFor(e, n) == IF e = n THEN e ELSE NoBlock

ReadEnv(p) ==
  /\ write[p][Flush].pc = "env"
  /\ LET w == write[p][Flush] IN
     Goto(p, Flush,
       [w EXCEPT !.pc = "create",
                 !.data = [env |-> EnvFor(proc[p].env, w.name), of |-> w.data.of, raced |-> w.data.raced]])
  /\ UNCHANGED <<tip, dir, older, temp, proc, promised, had, bounds>>

\* An existing file under the id already holds these bytes.
Save(p, t, i) ==
  /\ t \in Savers /\ proc[p].stage \notin {"down", "exiting"}
  /\ write[p][t].pc = "idle" /\ begun < MaxWrites
  /\ begun' = begun + 1
  /\ IF dir[i].is # "none"
       THEN promised' = promised \cup {i} /\ UNCHANGED write
       ELSE /\ Goto(p, t, [pc |-> "create", name |-> i, overlap |-> FALSE, data |-> Empty])
            /\ UNCHANGED promised
  /\ UNCHANGED <<tip, dir, older, temp, proc, had, starts>>

----------------------------------------------------------------------------
(* write_atomically *)

SameTemp(p, t, n) == <<CHOOSE q \in Procs : TRUE, t, n>>  \* mutant
\* {stem}.{pid}.{nonce}.tmp
TempOf(p, t, n) == <<p, t, n>>

UnsyncedTemp(d) == [is |-> "whole", synced |-> FALSE, data |-> d]  \* mutant
\* write_all, sync_all
SyncedTemp(d) == [is |-> "whole", synced |-> TRUE, data |-> d]

\* File::create empties what a dead process of this pid left under the name.
CreateTemp(p, t) ==
  /\ write[p][t].pc = "create"
  /\ temp' = [temp EXCEPT ![TempOf(p, t, write[p][t].name)] =
                [is |-> "torn", synced |-> FALSE, data |-> Empty]]
  /\ Goto(p, t, [write[p][t] EXCEPT !.pc = "fill"])
  /\ UNCHANGED <<tip, dir, older, proc, promised, had, bounds>>

FillTemp(p, t) ==
  /\ write[p][t].pc = "fill"
  /\ temp' = [temp EXCEPT ![TempOf(p, t, write[p][t].name)] = SyncedTemp(write[p][t].data)]
  /\ Goto(p, t, [write[p][t] EXCEPT !.pc = "rename"])
  /\ UNCHANGED <<tip, dir, older, proc, promised, had, bounds>>

\* Back to the caller: main returns once the last flush of a shutdown has.
Return(p, t) ==
  /\ Goto(p, t, NoWrite)
  /\ proc' = IF t = Flush /\ proc[p].stage = "surfacesDown"
               THEN [proc EXCEPT ![p] = [@ EXCEPT !.stage = "exiting"]] ELSE proc

Rename(p, t) ==
  LET w == write[p][t] x == TempOf(p, t, w.name) IN
  /\ w.pc = "rename" /\ temp[x].is # "none"
  /\ dir' = [dir EXCEPT ![w.name] = temp[x]]
  /\ older' = [older EXCEPT ![w.name] = dir[w.name]]
  /\ temp' = [temp EXCEPT ![x] = NoFile]
  /\ promised' = promised \cup ({w.name} \cap Ids)
  /\ had' = IF t = Flush /\ ~w.data.raced
              THEN [had EXCEPT ![p] = [had[p] EXCEPT ![w.name] = had[p][w.name] \cup KeysOf(w.data)]]
              ELSE had
  /\ Return(p, t)
  /\ UNCHANGED <<tip, bounds>>

TempKept(x) == temp  \* mutant
\* remove_file
TempRemoved(x) == [temp EXCEPT ![x] = NoFile]
OkAnyway(i) == promised \cup ({i} \cap Ids)  \* mutant
OnError(i) == promised

\* A full disk, say, at any step; or nothing left to rename.
WriteFails(p, t) ==
  LET w == write[p][t] IN
  /\ w.pc \in {"create", "fill", "rename"}
  /\ temp' = TempRemoved(TempOf(p, t, w.name))
  /\ promised' = OnError(w.name)
  /\ Return(p, t)
  /\ UNCHANGED <<tip, dir, older, had, bounds>>

----------------------------------------------------------------------------
(* The end of a process *)

RefreshCutShort(p) == TRUE  \* mutant
\* The stop signal is looked at between two polls, so a refresh ends first.
FollowerStopped(p) == ~proc[p].refreshing

\* main after the signal: it waits for the follower, then for the flush; the
\* surfaces, closed before the last flush, keep no state of this module.
StopFollower(p) ==
  /\ proc[p].stage = "up" /\ FollowerStopped(p)
  /\ proc' = [proc EXCEPT ![p] = [@ EXCEPT !.stage = "followerDown"]]
  /\ UNCHANGED <<tip, dir, older, temp, write, promised, had, bounds>>

StopFlush(p) ==
  /\ proc[p].stage = "followerDown" /\ write[p][Flush].pc = "idle"
  /\ proc' = [proc EXCEPT ![p] = [@ EXCEPT !.stage = "surfacesDown"]]
  /\ UNCHANGED <<tip, dir, older, temp, write, promised, had, bounds>>

\* No trace of a process but its files: nothing removes the temp files of the
\* writes it was in, except those that never reached the disk, in `lost`.
Gone(P, lost) ==
  /\ proc' = [p \in Procs |-> IF p \in P THEN Down ELSE proc[p]]
  /\ write' = [p \in Procs |-> IF p \in P THEN [t \in Tasks |-> NoWrite] ELSE write[p]]
  /\ temp' = [x \in DOMAIN temp |-> IF x \in lost THEN NoFile
                                    ELSE IF x[1] \in P /\ temp[x].is # "none" THEN LeftFile
                                    ELSE temp[x]]
  /\ had' = [p \in Procs |-> IF p \in P THEN NoneKnown ELSE had[p]]

\* The runtime waits for the saves still running.
Exit(p) ==
  /\ proc[p].stage = "exiting" /\ \A t \in Tasks : write[p][t].pc = "idle"
  /\ Gone({p}, {})
  /\ UNCHANGED <<tip, dir, older, promised, bounds>>

Kill(p) ==
  /\ proc[p].stage # "down"
  /\ Gone({p}, {})
  /\ UNCHANGED <<tip, dir, older, promised, bounds>>

Landed(f) == IF f.synced THEN f ELSE [f EXCEPT !.is = "torn"]

\* A rename that had not reached the disk is undone, data that had not is lost.
PowerLoss ==
  /\ \E undone \in SUBSET {n \in Names : older[n] # dir[n]} :
       dir' = [n \in Names |-> Landed(IF n \in undone THEN older[n] ELSE dir[n])]
  /\ older' = dir'
  /\ promised' = {}
  /\ \E lost \in SUBSET {x \in DOMAIN temp : temp[x].is # "none"} : Gone(Procs, lost)
  /\ UNCHANGED <<tip, bounds>>

----------------------------------------------------------------------------
Task(p, t) == CreateTemp(p, t) \/ FillTemp(p, t) \/ Rename(p, t) \/ WriteFails(p, t)

Next ==
  \/ Mine
  \/ PowerLoss
  \/ \E p \in Procs :
       \/ \E n \in Blocks, follows \in BOOLEAN : Launch(p, n, follows)
       \/ \E k \in Keys : Fetch(p, k)
       \/ ReFork(p) \/ WriteEnv(p)
       \/ BeginFlush(p) \/ ReadFallback(p) \/ ReadEnv(p)
       \/ \E t \in Savers, i \in Ids : Save(p, t, i)
       \/ \E t \in Tasks : Task(p, t)
       \/ StopFollower(p) \/ StopFlush(p)
       \/ Exit(p) \/ Kill(p)

Spec == Init /\ [][Next]_vars

----------------------------------------------------------------------------
(* Properties *)

Stages == {"down", "up", "followerDown", "surfacesDown", "exiting"}
Processes ==
  [stage : Stages, follows : BOOLEAN, refreshing : BOOLEAN, fallback : 0 .. MaxBlock,
   env : 0 .. MaxBlock, seed : 0 .. MaxBlock, known : Contents, fetched : SUBSET Keys]
Writes ==
  [pc : {"idle", "fallback", "env", "create", "fill", "rename"}, name : Names,
   overlap : BOOLEAN, data : Contents]

TempsUsed ==
  \A p \in Procs, t \in Tasks, n \in Names :
    temp[<<p, t, n>>].is \notin {"none", "left"} =>
      write[p][t].name = n /\ write[p][t].pc \in {"fill", "rename"}

\* The shape of every variable; and no write that returns, failed or not, leaves
\* a temp file behind: only one whose process is killed in it does.
TypeOK ==
  /\ tip \in Blocks
  /\ dir \in [Names -> Files] /\ older \in [Names -> Files]
  /\ temp \in [Procs \X Tasks \X Names -> TempFiles]
  /\ proc \in [Procs -> Processes]
  /\ write \in [Procs -> [Tasks -> Writes]]
  /\ promised \subseteq Ids
  /\ had \in [Procs -> [Blocks -> SUBSET Keys]]
  /\ starts \in 0 .. MaxStarts /\ begun \in 0 .. MaxWrites
  /\ TempsUsed

\* write_atomically: "A reader sees the whole old file or the whole new one",
\* whichever processes write the path at once, are killed at it or fail, and
\* after a loss of power.
FilesWhole == \A n \in Names : dir[n].is # "torn"

\* CacheKey: "block X's state served as block Y's is silently wrong".  A file
\* never holds another block's env, and nothing of another block unless a
\* refresh overlapped a flush; the last flush of a shutdown never is.
FilesOfTheirBlock ==
  \A n \in Blocks : dir[n].is = "whole" =>
    /\ dir[n].data.env \in {NoBlock, n}
    /\ ~dir[n].data.raced => \A k \in Keys : dir[n].data.of[k] \in {NoBlock, n}

\* persist_cache: "The merge stops a warm restart from eroding the cache": what
\* a process saves for a block has all it loaded or saved for it before, however
\* often it flushes and whatever it refreshes meanwhile.
NeverErodes ==
  \A p \in Procs :
    LET w == write[p][Flush] IN
      w.pc \in {"env", "create", "fill", "rename"} /\ ~w.data.raced =>
        had[p][w.name] \subseteq KeysOf(w.data)

\* SnapshotStore: "the id *is* the handoff": an id any process was given names a
\* whole file, although it may be one another process wrote, until power is lost.
StoredStays == \A i \in promised : Usable(dir[i])

----------------------------------------------------------------------------
(* What the documentation says and the code does not do *)

\* CacheKey, BaseSnapshot::merged_with ("Only ever called for two snapshots of
\* the same block"): a file's state is of the file's block.
FileAtOneBlock ==
  \A n \in Blocks : dir[n].is = "whole" =>
    \A k \in Keys : dir[n].data.of[k] \in {NoBlock, n}
=============================================================================
