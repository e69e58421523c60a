-------------------------------- MODULE Overlay --------------------------------
(***************************************************************************)
(* What a session holds and how it reads: its overlay over a frozen base   *)
(* over the chain at its block, the layers a branch inherits, the log that *)
(* undoes a speculative pass, and the snapshot files that state() and      *)
(* restore() carry a session through.                                      *)
(*                                                                         *)
(* Accounts and storage slots are kept in maps of the same form, so a      *)
(* layer is one map of both and the set of hashes whose code it holds.  A  *)
(* slot is an entry without code; an account's balance and nonce are one   *)
(* value.  Code is named by its hash, and an account holds it `inline` or  *)
(* only by hash.                                                           *)
(***************************************************************************)
EXTENDS Integers, FiniteSets

CONSTANTS
  Ids,        \* sessions; an id opened again stands for a fresh one
  Accounts, Slots,
  Values,     \* balances and nonces, slot values
  Zero,       \* the value of a slot upstream has not answered yet
  Hashes,     \* code hashes other than KECCAK_EMPTY
  NoCode,     \* KECCAK_EMPTY
  Nothing,    \* no entry
  Chain,      \* the state at the block, as the fallback answers it
  Bases,      \* shared bases of managers at that block
  MaxFiles    \* bound: snapshot files

Keys  == Accounts \cup Slots
Entry == [val : Values, hash : Hashes \cup {NoCode}, inline : BOOLEAN]
Layer == [at : [Keys -> Entry \cup {Nothing}], code : SUBSET Hashes]

Slot(v)  == [val |-> v, hash |-> NoCode, inline |-> FALSE]
Readable(e, codes) == e.hash = NoCode \/ e.inline \/ e.hash \in codes

\* A base holds the block's own state and the code of its accounts, inline or
\* by hash (from_parts); the fallback holds code inline only.
ASSUME OverlayAssumption ==
  /\ Accounts \cap Slots = {} /\ Zero \in Values
  /\ NoCode \notin Hashes /\ Nothing \notin Entry /\ MaxFiles \in Nat
  /\ Chain \in [Keys -> Entry]
  /\ \A k \in Keys : Chain[k].hash # NoCode => Chain[k].inline
  /\ \A k \in Slots : Chain[k] = Slot(Chain[k].val)
  /\ Bases \subseteq Layer
  /\ \A b \in Bases, k \in Keys : b.at[k] # Nothing =>
       /\ b.at[k].val = Chain[k].val /\ b.at[k].hash = Chain[k].hash
       /\ Readable(b.at[k], b.code)

VARIABLES
  live,       \* the sessions that are open
  base,       \* Session::base
  inherited,  \* Session::inherited
  overlay,    \* Session::overlay_accounts, _code and _storage
  pass,       \* the speculative pass under way: "none", "clean" or "missed"
  log,        \* Session::read_log
  files,      \* the SnapshotStore, each file with the view it was saved from
  view        \* history: what the writes of a session's lineage left in each key

vars == <<live, base, inherited, overlay, pass, log, files, view>>

Empty == [at |-> [k \in Keys |-> Nothing], code |-> {}]
Over(top, under) == [k \in Keys |-> IF top[k] = Nothing THEN under[k] ELSE top[k]]
Put(changes, layer) == [at |-> Over(changes, layer.at), code |-> layer.code]
Only(k, e) == [j \in Keys |-> IF j = k THEN e ELSE Nothing]
Fold(layer, top) == [at |-> Over(top.at, layer.at), code |-> layer.code \cup top.code]

Plain(e) == [val |-> e.val, hash |-> e.hash]
ChainView == [k \in Keys |-> Plain(Chain[k])]

Init ==
  /\ live = {}
  /\ base = [s \in Ids |-> Empty]
  /\ inherited = [s \in Ids |-> Empty]
  /\ overlay = [s \in Ids |-> Empty]
  /\ pass = [s \in Ids |-> "none"]
  /\ log = [s \in Ids |-> {}]
  /\ files = {}
  /\ view = [s \in Ids |-> ChainView]

----------------------------------------------------------------------------
(* Sessions come and go *)

\* Session `s` is new, with these layers and nothing logged.
Opens(s, b, i, o, v) ==
  /\ s \notin live
  /\ live' = live \cup {s}
  /\ base' = [base EXCEPT ![s] = b]
  /\ inherited' = [inherited EXCEPT ![s] = i]
  /\ overlay' = [overlay EXCEPT ![s] = o]
  /\ view' = [view EXCEPT ![s] = v]
  /\ UNCHANGED <<pass, log, files>>

Fork(s, b) == Opens(s, b, Empty, Empty, ChainView)

\* A job runs when no pass of its session is under way.
Idle(s) == s \in live /\ pass[s] = "none"

InheritedOnly(s) == inherited[s]  \* mutant
\* What a branch inherits.
Passed(s) == Fold(inherited[s], overlay[s])

Branch(s, t) ==
  /\ Idle(s)
  /\ Opens(t, Fold(base[s], overlay[s]), Passed(s), Empty, view[s])

\* Discarded or expired: the layers are dropped.
Drop(s) ==
  /\ Idle(s)
  /\ live' = live \ {s}
  /\ base' = [base EXCEPT ![s] = Empty]
  /\ inherited' = [inherited EXCEPT ![s] = Empty]
  /\ overlay' = [overlay EXCEPT ![s] = Empty]
  /\ view' = [view EXCEPT ![s] = ChainView]
  /\ UNCHANGED <<pass, log, files>>

----------------------------------------------------------------------------
(* Reads *)

\* Neither overlay nor base has the key: the read goes to the fallback.
Hidden(s, k) == overlay[s].at[k] = Nothing /\ base[s].at[k] = Nothing

Cache(s, k, e) ==
  /\ overlay' = [overlay EXCEPT ![s] = Put(Only(k, e), overlay[s])]
  /\ log' = IF pass[s] = "none" THEN log ELSE [log EXCEPT ![s] = log[s] \cup {k}]

\* basic, storage: the fallback answers.  If it fails, nothing is cached.
Read(s, k) ==
  /\ s \in live /\ Hidden(s, k)
  /\ Cache(s, k, Chain[k])
  /\ UNCHANGED <<live, base, inherited, pass, files, view>>

\* A speculative pass meets a key nobody fetched yet: record_miss notes it, an
\* account reads as absent and is not cached, a slot reads as zero and is.
Miss(s, k) ==
  /\ s \in live /\ pass[s] # "none" /\ Hidden(s, k)
  /\ pass' = [pass EXCEPT ![s] = "missed"]
  /\ IF k \in Slots THEN Cache(s, k, Slot(Zero)) ELSE UNCHANGED <<overlay, log>>
  /\ UNCHANGED <<live, base, inherited, files, view>>

BeginSpeculation(s) ==
  /\ Idle(s)
  /\ pass' = [pass EXCEPT ![s] = "clean"]
  /\ UNCHANGED <<live, base, inherited, overlay, log, files, view>>

AccountsOnly(s) ==  \* mutant
  [k \in Keys |-> IF k \in log[s] \cap Accounts THEN Nothing ELSE overlay[s].at[k]]
\* The overlay without what was logged.
Undone(s) == [k \in Keys |-> IF k \in log[s] THEN Nothing ELSE overlay[s].at[k]]

NotTaken(s) == log[s]  \* mutant
Taken(s) == {}

\* A pass that missed, or panicked, is undone; only a clean one may be kept.
EndSpeculation(s, keep) ==
  /\ s \in live /\ pass[s] # "none"
  /\ keep => pass[s] = "clean"
  /\ pass' = [pass EXCEPT ![s] = "none"]
  /\ log' = [log EXCEPT ![s] = Taken(s)]
  /\ IF keep THEN UNCHANGED overlay
             ELSE overlay' = [overlay EXCEPT ![s] = [at |-> Undone(s), code |-> overlay[s].code]]
  /\ UNCHANGED <<live, base, inherited, files, view>>

----------------------------------------------------------------------------
(* Writes *)

\* What a write may leave in a key: any value in a slot; in an account, which
\* was read before, any balance and nonce with its code, or new code inline.
Writable(s, k) ==
  IF k \in Slots THEN {Slot(v) : v \in Values}
  ELSE IF Hidden(s, k) THEN {}
  ELSE LET old == Over(overlay[s].at, base[s].at)[k]
       IN  {[val |-> v, hash |-> old.hash, inline |-> old.inline] : v \in Values}
             \cup {[val |-> v, hash |-> h, inline |-> TRUE] : v \in Values, h \in Hashes}

\* The entries of `changes` go into the session's own overlay.
Writes(s, changes) ==
  /\ \A k \in Keys : changes[k] # Nothing => changes[k] \in Writable(s, k)
  /\ overlay' = [overlay EXCEPT ![s] = Put(changes, overlay[s])]
  /\ view' = [view EXCEPT ![s] =
       [k \in Keys |-> IF changes[k] = Nothing THEN view[s][k] ELSE Plain(changes[k])]]
  /\ UNCHANGED <<live, base, inherited, pass, log, files>>

\* The diff of a transaction.
Commit(s) ==
  /\ Idle(s)
  /\ \E changes \in [Keys -> UNION {Writable(s, k) : k \in Keys} \cup {Nothing}] : Writes(s, changes)
\* set_account, set_storage.
Set(s, k) == Idle(s) /\ \E e \in Writable(s, k) : Writes(s, Only(k, e))

----------------------------------------------------------------------------
(* Snapshots *)

OwnEntries(s) == Over(overlay[s].at, inherited[s].at)

\* The code a session carries, and that of its accounts it can see without a
\* fallback.
OwnCode(s) ==
  inherited[s].code \cup overlay[s].code
    \cup {h \in Hashes : \E k \in Keys :
            LET e == OwnEntries(s)[k]
            IN  e # Nothing /\ e.hash = h /\ (e.inline \/ h \in base[s].code)}

\* A file holds accounts by code hash; loading puts the code back inline.
Stored(entries) ==
  [k \in Keys |-> IF entries[k] = Nothing THEN Nothing
                  ELSE [val |-> entries[k].val, hash |-> entries[k].hash, inline |-> FALSE]]
Attached(f) ==
  [k \in Keys |-> IF f.at[k] = Nothing THEN Nothing
                  ELSE [val |-> f.at[k].val, hash |-> f.at[k].hash,
                        inline |-> f.at[k].hash \in f.code]]

Snapshot(s) ==
  /\ Idle(s)
  /\ files' = files \cup {[at |-> Stored(OwnEntries(s)), code |-> OwnCode(s), view |-> view[s]]}
  /\ Cardinality(files') <= MaxFiles
  /\ UNCHANGED <<live, base, inherited, overlay, pass, log, view>>

\* SnapshotStore::load: what a file gives a session to inherit.
Loaded(f) == [at |-> Attached(f), code |-> f.code]

\* In this process or another, on any base at the same block.
Resume(t, f, b) == Opens(t, b, Empty, Loaded(f), f.view)

----------------------------------------------------------------------------
Next ==
  \E s \in Ids :
    \/ \E b \in Bases : Fork(s, b)
    \/ \E t \in Ids : Branch(s, t)
    \/ Drop(s)
    \/ \E k \in Keys : Read(s, k) \/ Miss(s, k)
    \/ BeginSpeculation(s)
    \/ \E keep \in BOOLEAN : EndSpeculation(s, keep)
    \/ Commit(s)
    \/ \E k \in Keys : Set(s, k)
    \/ Snapshot(s)
    \/ \E f \in files, b \in Bases : Resume(s, f, b)

Spec == Init /\ [][Next]_vars

----------------------------------------------------------------------------
(* Properties *)

View == [Keys -> [val : Values, hash : Hashes \cup {NoCode}]]
File == [at : [Keys -> Entry \cup {Nothing}], code : SUBSET Hashes, view : View]

\* The shape of every variable; only a pass under way has a log, of keys that
\* are in the overlay.
TypeOK ==
  /\ live \subseteq Ids
  /\ base \in [Ids -> Layer] /\ inherited \in [Ids -> Layer] /\ overlay \in [Ids -> Layer]
  /\ pass \in [Ids -> {"none", "clean", "missed"}]
  /\ log \in [Ids -> SUBSET Keys]
  /\ \A s \in Ids : pass[s] = "none" => log[s] = {}
  /\ \A s \in Ids : \A k \in log[s] : overlay[s].at[k] # Nothing
  /\ files \subseteq File /\ Cardinality(files) <= MaxFiles
  /\ view \in [Ids -> View]

\* What session s reads in a key once the fallback answers.
Reads(s, k) == Over(overlay[s].at, Over(base[s].at, Chain))[k]

\* branch: "later writes on either side stay invisible to the other";
\* end_speculation: "Exact"; restore: "it reproduces the session".  Whatever
\* was read, missed, undone, branched, dropped, saved and resumed, a session
\* reads what its own lineage wrote, else the chain, and its code is there.
ReadsItsLineage ==
  \A s \in live, k \in Keys : pass[s] = "none" =>
    /\ Plain(Reads(s, k)) = view[s][k]
    /\ Readable(Reads(s, k), base[s].code \cup overlay[s].code)

\* SessionState: "Laid over a base at the same block, it reproduces the session
\* exactly": so does every file, on every base, whoever branched or wrote since.
FilesReproduce ==
  \A f \in files, b \in Bases, k \in Keys :
    LET e == Over(Loaded(f).at, Over(b.at, Chain))[k] IN
    /\ Plain(e) = f.view[k]
    /\ Readable(e, b.code \cup Loaded(f).code)
=============================================================================
