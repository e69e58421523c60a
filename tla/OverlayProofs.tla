---------------------------- MODULE OverlayProofs ----------------------------
(***************************************************************************)
(* Proofs about Overlay, for any number of sessions, keys, values and      *)
(* branches: a session reads what its own lineage wrote, and so does       *)
(* whatever is resumed from a file of it.                                  *)
(***************************************************************************)
EXTENDS Overlay, FiniteSetTheorems, TLAPS

EntryMap == [Keys -> Entry \cup {Nothing}]

\* The part of TypeOK that types the variables.
Shape ==
  /\ live \subseteq Ids
  /\ base \in [Ids -> Layer] /\ inherited \in [Ids -> Layer] /\ overlay \in [Ids -> Layer]
  /\ pass \in [Ids -> {"none", "clean", "missed"}]
  /\ log \in [Ids -> SUBSET Keys]
  /\ files \subseteq File /\ Cardinality(files) <= MaxFiles
  /\ view \in [Ids -> View]
  /\ \A s \in Ids \ live : pass[s] = "none"

\* A base is the chain with what the session inherited laid over it.
BaseOK(s, k) ==
  /\ base[s].at[k] # Nothing => Readable(base[s].at[k], base[s].code)
  /\ inherited[s].at[k] # Nothing => base[s].at[k] = inherited[s].at[k]
  /\ inherited[s].at[k] = Nothing /\ base[s].at[k] # Nothing
       => Plain(base[s].at[k]) = Plain(Chain[k])

CodeOK(s) == inherited[s].code \subseteq base[s].code

OverlayOK(s, k) ==
  overlay[s].at[k] # Nothing =>
    Readable(overlay[s].at[k], base[s].code \cup overlay[s].code)

\* What is logged came from the fallback: nothing else holds it, and in a pass
\* that missed nothing it is the chain's.
LogOK(s, k) ==
  k \in log[s] =>
    /\ pass[s] # "none"
    /\ overlay[s].at[k] # Nothing /\ base[s].at[k] = Nothing
    /\ pass[s] = "clean" => Plain(overlay[s].at[k]) = Plain(Chain[k])
    /\ view[s][k] = Plain(Chain[k])

\* Apart from what is logged, the layers hold what the lineage wrote.
SettledOK(s, k) ==
  k \notin log[s] => Plain(Over(overlay[s].at, Over(base[s].at, Chain))[k]) = view[s][k]

KeyOK(s, k) == BaseOK(s, k) /\ OverlayOK(s, k) /\ LogOK(s, k) /\ SettledOK(s, k)
SessionOK(s) == CodeOK(s) /\ \A k \in Keys : KeyOK(s, k)

\* A file holds what the lineage wrote or read, and the code of its accounts.
FileOK(f) ==
  \A k \in Keys :
    /\ f.at[k] = Nothing => f.view[k] = Plain(Chain[k])
    /\ f.at[k] # Nothing =>
         Plain(f.at[k]) = f.view[k] /\ Readable(f.at[k], f.code) /\ ~f.at[k].inline

IInv ==
  /\ Shape
  /\ \A s \in Ids : SessionOK(s)
  /\ \A f \in files : FileOK(f)

----------------------------------------------------------------------------
(* Layers *)

LEMMA OverType ==
  ASSUME NEW top \in EntryMap, NEW under \in EntryMap
  PROVE  Over(top, under) \in EntryMap
  BY DEF Over, EntryMap

LEMMA LayerType ==
  ASSUME NEW at \in EntryMap, NEW code \in SUBSET Hashes
  PROVE  [at |-> at, code |-> code] \in Layer
  BY DEF Layer, EntryMap

LEMMA LayerParts ==
  ASSUME NEW layer \in Layer
  PROVE  layer.at \in EntryMap /\ layer.code \in SUBSET Hashes
  BY DEF Layer, EntryMap

LEMMA PutType ==
  ASSUME NEW layer \in Layer, NEW changes \in EntryMap
  PROVE  Put(changes, layer) \in Layer
  BY LayerParts, OverType, LayerType DEF Put

LEMMA FoldType ==
  ASSUME NEW layer \in Layer, NEW top \in Layer
  PROVE  Fold(layer, top) \in Layer
<1>1. Over(top.at, layer.at) \in EntryMap /\ layer.code \cup top.code \in SUBSET Hashes
  BY LayerParts, OverType
<1>. QED  BY <1>1, LayerType DEF Fold

LEMMA EmptyType == Empty \in Layer
<1>1. [k \in Keys |-> Nothing] \in EntryMap
  BY DEF EntryMap
<1>. QED  BY <1>1, LayerType DEF Empty

LEMMA OnlyType ==
  ASSUME NEW k \in Keys, NEW e \in Entry
  PROVE  Only(k, e) \in EntryMap
  BY DEF Only, EntryMap

LEMMA ChainType ==
  /\ Chain \in EntryMap /\ ChainView \in View
  /\ \A k \in Keys : Chain[k] \in Entry /\ Chain[k] # Nothing
                     /\ ChainView[k] = Plain(Chain[k]) /\ Readable(Chain[k], {})
<1>1. Chain \in [Keys -> Entry] /\ Nothing \notin Entry
  BY OverlayAssumption
<1>2. \A k \in Keys : Readable(Chain[k], {})
  BY OverlayAssumption DEF Readable
<1>3. \A k \in Keys : Plain(Chain[k]) \in [val : Values, hash : Hashes \cup {NoCode}]
  BY <1>1 DEF Plain, Entry
<1>. QED  BY <1>1, <1>2, <1>3 DEF EntryMap, View, ChainView

LEMMA SlotType == \A v \in Values : Slot(v) \in Entry /\ Readable(Slot(v), {})
  BY DEF Slot, Entry, Readable

LEMMA MoreCode ==
  ASSUME NEW e, NEW few, NEW many, few \subseteq many, Readable(e, few)
  PROVE  Readable(e, many)
  BY DEF Readable

----------------------------------------------------------------------------
(* Opening a session *)

\* A step that changes one session keeps the others as they are.
LEMMA OthersKept ==
  ASSUME NEW s \in Ids, NEW r \in Ids, SessionOK(r),
         base'[r] = base[r], inherited'[r] = inherited[r], overlay'[r] = overlay[r],
         pass'[r] = pass[r], log'[r] = log[r], view'[r] = view[r]
  PROVE  SessionOK(r)'
  BY DEF SessionOK, CodeOK, KeyOK, BaseOK, OverlayOK, LogOK, SettledOK

\* Layers that fit together and hold view `v`.
Fits(b, i, o, v) ==
  /\ i.code \subseteq b.code
  /\ \A k \in Keys :
       /\ b.at[k] # Nothing => Readable(b.at[k], b.code)
       /\ i.at[k] # Nothing => b.at[k] = i.at[k]
       /\ i.at[k] = Nothing /\ b.at[k] # Nothing => Plain(b.at[k]) = Plain(Chain[k])
       /\ o.at[k] # Nothing => Readable(o.at[k], b.code \cup o.code)
       /\ Plain(Over(o.at, Over(b.at, Chain))[k]) = v[k]

\* A session opened with layers that fit is as the invariant wants it.
LEMMA OpensKept ==
  ASSUME Shape, \A r \in Ids : SessionOK(r),
         NEW s \in Ids, NEW b \in Layer, NEW i \in Layer, NEW o \in Layer, NEW v \in View,
         Opens(s, b, i, o, v), Fits(b, i, o, v)
  PROVE  Shape' /\ \A r \in Ids : SessionOK(r)'
<1>1. Shape'
  BY DEF Shape, Opens
<1>2. base'[s] = b /\ inherited'[s] = i /\ overlay'[s] = o /\ view'[s] = v
  BY DEF Shape, Opens
<1>3. \A k \in Keys : k \notin log'[s]
  <2>1. pass[s] = "none"
    BY DEF Shape, Opens
  <2>. QED  BY <2>1 DEF SessionOK, KeyOK, LogOK, Opens
<1>4. SessionOK(s)'
  <2>1. CodeOK(s)'
    BY <1>2 DEF CodeOK, Fits
  <2>2. ASSUME NEW k \in Keys PROVE KeyOK(s, k)'
    BY <1>2, <1>3 DEF KeyOK, BaseOK, OverlayOK, LogOK, SettledOK, Fits
  <2>. QED  BY <2>1, <2>2 DEF SessionOK
<1>5. ASSUME NEW r \in Ids, r # s PROVE SessionOK(r)'
  <2>1. /\ base'[r] = base[r] /\ inherited'[r] = inherited[r] /\ overlay'[r] = overlay[r]
        /\ pass'[r] = pass[r] /\ log'[r] = log[r] /\ view'[r] = view[r]
    BY <1>5 DEF Shape, Opens
  <2>. QED  BY <2>1, OthersKept
<1>. QED  BY <1>1, <1>4, <1>5

LEMMA ForkStep ==
  ASSUME IInv, NEW s \in Ids, NEW b \in Bases, Fork(s, b)
  PROVE  IInv'
<1>1. b \in Layer /\ b.at \in EntryMap
  BY OverlayAssumption, LayerParts
<1>2. \A k \in Keys : b.at[k] # Nothing =>
        Plain(b.at[k]) = Plain(Chain[k]) /\ Readable(b.at[k], b.code)
  BY OverlayAssumption DEF Plain
<1>3. \A k \in Keys : Plain(Over(Empty.at, Over(b.at, Chain))[k]) = ChainView[k]
  BY <1>2, ChainType DEF Over, Empty
<1>4. Empty.code = {} /\ \A k \in Keys : Empty.at[k] = Nothing
  BY DEF Empty
<1>5. Fits(b, Empty, Empty, ChainView)
  BY <1>2, <1>3, <1>4 DEF Fits
<1>6. Shape' /\ \A r \in Ids : SessionOK(r)'
  BY <1>1, <1>5, EmptyType, ChainType, OpensKept DEF IInv, Fork
<1>. QED  BY <1>6 DEF IInv, FileOK, Fork, Opens

LEMMA BranchStep ==
  ASSUME IInv, NEW s \in Ids, NEW t \in Ids, Branch(s, t)
  PROVE  IInv'
<1>. DEFINE b == Fold(base[s], overlay[s])  i == Passed(s)
<1>1. /\ base[s] \in Layer /\ inherited[s] \in Layer /\ overlay[s] \in Layer
      /\ view[s] \in View
  BY DEF IInv, Shape
<1>2. b \in Layer /\ i \in Layer
  BY <1>1, FoldType DEF Passed
<1>3. SessionOK(s) /\ \A k \in Keys : k \notin log[s]
  BY DEF IInv, SessionOK, KeyOK, LogOK, Branch, Idle
<1>4. /\ b.code = base[s].code \cup overlay[s].code
      /\ i.code = inherited[s].code \cup overlay[s].code
  BY DEF Fold, Passed
<1>5. \A k \in Keys :
        /\ b.at[k] = IF overlay[s].at[k] = Nothing THEN base[s].at[k] ELSE overlay[s].at[k]
        /\ i.at[k] = IF overlay[s].at[k] = Nothing THEN inherited[s].at[k] ELSE overlay[s].at[k]
  BY DEF Fold, Passed, Over
<1>6. i.code \subseteq b.code
  BY <1>3, <1>4 DEF SessionOK, CodeOK
<1>7. ASSUME NEW k \in Keys
      PROVE  /\ b.at[k] # Nothing => Readable(b.at[k], b.code)
             /\ i.at[k] # Nothing => b.at[k] = i.at[k]
             /\ i.at[k] = Nothing /\ b.at[k] # Nothing => Plain(b.at[k]) = Plain(Chain[k])
             /\ Plain(Over(Empty.at, Over(b.at, Chain))[k]) = view[s][k]
  <2>1. KeyOK(s, k) /\ k \notin log[s]
    BY <1>3 DEF SessionOK
  <2>2. b.at[k] # Nothing => Readable(b.at[k], b.code)
    BY <2>1, <1>4, <1>5 DEF KeyOK, BaseOK, OverlayOK, Readable
  <2>3. /\ i.at[k] # Nothing => b.at[k] = i.at[k]
        /\ i.at[k] = Nothing /\ b.at[k] # Nothing => Plain(b.at[k]) = Plain(Chain[k])
    BY <2>1, <1>5 DEF KeyOK, BaseOK
  <2>4. Over(Empty.at, Over(b.at, Chain))[k] = Over(overlay[s].at, Over(base[s].at, Chain))[k]
    BY <1>5 DEF Over, Empty
  <2>. QED  BY <2>1, <2>2, <2>3, <2>4 DEF KeyOK, SettledOK
<1>8. \A k \in Keys : Empty.at[k] = Nothing
  BY DEF Empty
<1>9. Opens(t, b, i, Empty, view[s])
  BY DEF Branch
<1>. HIDE DEF b, i
<1>10. Fits(b, i, Empty, view[s])
  BY <1>6, <1>7, <1>8 DEF Fits
<1>11. Shape' /\ \A r \in Ids : SessionOK(r)'
  BY <1>1, <1>2, <1>9, <1>10, EmptyType, OpensKept DEF IInv
<1>. QED  BY <1>9, <1>11 DEF IInv, FileOK, Opens

LEMMA ResumeStep ==
  ASSUME IInv, NEW s \in Ids, NEW f \in files, NEW b \in Bases, Resume(s, f, b)
  PROVE  IInv'
<1>. DEFINE o == [at |-> Attached(f), code |-> f.code]
<1>1. b \in Layer /\ b.at \in EntryMap
  BY OverlayAssumption, LayerParts
<1>2. f \in File /\ f.at \in EntryMap /\ f.code \in SUBSET Hashes /\ f.view \in View
  BY DEF IInv, Shape, File, EntryMap
<1>3. \A k \in Keys : b.at[k] # Nothing =>
        Plain(b.at[k]) = Plain(Chain[k]) /\ Readable(b.at[k], b.code)
  BY OverlayAssumption DEF Plain
<1>4. FileOK(f)
  BY DEF IInv
<1>5. ASSUME NEW k \in Keys
      PROVE  /\ Attached(f)[k] \in Entry \cup {Nothing}
             /\ Attached(f)[k] = Nothing <=> f.at[k] = Nothing
             /\ f.at[k] # Nothing => Plain(Attached(f)[k]) = Plain(f.at[k])
             /\ f.at[k] # Nothing => Readable(Attached(f)[k], f.code)
  <2>1. CASE f.at[k] = Nothing
    BY <2>1 DEF Attached
  <2>2. CASE f.at[k] # Nothing
    <3>. DEFINE e == [val |-> f.at[k].val, hash |-> f.at[k].hash,
                      inline |-> f.at[k].hash \in f.code]
    <3>1. Attached(f)[k] = e
      BY <2>2 DEF Attached
    <3>2. f.at[k] \in Entry
      BY <1>2, <2>2 DEF EntryMap
    <3>3. e \in Entry
      BY <3>2 DEF Entry
    <3>4. e # Nothing
      BY <3>3, OverlayAssumption
    <3>5. Plain(e) = Plain(f.at[k])
      BY DEF Plain
    <3>6. Readable(e, f.code)
      BY <1>4, <2>2 DEF FileOK, Readable
    <3>. QED  BY <2>2, <3>1, <3>3, <3>4, <3>5, <3>6
  <2>. QED  BY <2>1, <2>2
<1>6. o \in Layer
  <2>1. Attached(f) \in EntryMap
    BY <1>5 DEF EntryMap, Attached
  <2>. QED  BY <2>1, <1>2, LayerType
<1>7. ASSUME NEW k \in Keys
      PROVE  /\ o.at[k] # Nothing => Readable(o.at[k], b.code \cup o.code)
             /\ Plain(Over(o.at, Over(b.at, Chain))[k]) = f.view[k]
  <2>1. o.at[k] # Nothing => Readable(o.at[k], b.code \cup o.code)
    BY <1>5 DEF Readable
  <2>2. Plain(Over(o.at, Over(b.at, Chain))[k]) = f.view[k]
    BY <1>3, <1>4, <1>5, ChainType DEF FileOK, Over
  <2>. QED  BY <2>1, <2>2
<1>8. Empty.code = {} /\ \A k \in Keys : Empty.at[k] = Nothing
  BY DEF Empty
<1>9. Opens(s, b, Empty, o, f.view)
  BY DEF Resume, Loaded
<1>. HIDE DEF o
<1>10. Fits(b, Empty, o, f.view)
  BY <1>3, <1>7, <1>8 DEF Fits
<1>11. Shape' /\ \A r \in Ids : SessionOK(r)'
  BY <1>1, <1>2, <1>6, <1>9, <1>10, EmptyType, OpensKept DEF IInv
<1>. QED  BY <1>9, <1>11 DEF IInv, FileOK, Opens

LEMMA DropStep ==
  ASSUME IInv, NEW s \in Ids, Drop(s)
  PROVE  IInv'
<1>1. Shape'
  BY EmptyType, ChainType DEF IInv, Shape, Drop, Idle
<1>2. /\ base'[s] = Empty /\ inherited'[s] = Empty /\ overlay'[s] = Empty
      /\ view'[s] = ChainView /\ log'[s] = log[s]
  BY DEF IInv, Shape, Drop
<1>3. \A k \in Keys : k \notin log[s]
  BY DEF IInv, SessionOK, KeyOK, LogOK, Drop, Idle
<1>4. SessionOK(s)'
  <2>1. CodeOK(s)'
    BY <1>2 DEF CodeOK
  <2>2. ASSUME NEW k \in Keys PROVE KeyOK(s, k)'
    <3>1. base'[s].at[k] = Nothing /\ inherited'[s].at[k] = Nothing /\ overlay'[s].at[k] = Nothing
      BY <1>2 DEF Empty
    <3>2. Plain(Over(overlay'[s].at, Over(base'[s].at, Chain))[k]) = view'[s][k]
      BY <1>2, <3>1, ChainType DEF Over
    <3>. QED  BY <1>2, <1>3, <3>1, <3>2 DEF KeyOK, BaseOK, OverlayOK, LogOK, SettledOK
  <2>. QED  BY <2>1, <2>2 DEF SessionOK
<1>5. ASSUME NEW r \in Ids, r # s PROVE SessionOK(r)'
  <2>1. /\ base'[r] = base[r] /\ inherited'[r] = inherited[r] /\ overlay'[r] = overlay[r]
        /\ pass'[r] = pass[r] /\ log'[r] = log[r] /\ view'[r] = view[r]
    BY <1>5 DEF IInv, Shape, Drop
  <2>. QED  BY <2>1, OthersKept DEF IInv
<1>. QED  BY <1>1, <1>4, <1>5 DEF IInv, FileOK, Drop

----------------------------------------------------------------------------
(* Reading, writing and saving *)

\* A step that changes what one session has read or written, and no layer below.
LEMMA OneChanged ==
  ASSUME IInv, NEW s \in Ids, SessionOK(s)', Shape',
         UNCHANGED <<base, inherited, files>>,
         \A r \in Ids \ {s} : /\ overlay'[r] = overlay[r] /\ pass'[r] = pass[r]
                              /\ log'[r] = log[r] /\ view'[r] = view[r]
  PROVE  IInv'
<1>1. ASSUME NEW r \in Ids, r # s PROVE SessionOK(r)'
  BY <1>1, OthersKept DEF IInv
<1>. QED  BY <1>1 DEF IInv, FileOK

LEMMA CacheType ==
  ASSUME Shape, NEW s \in Ids, NEW k \in Keys, NEW e \in Entry, Cache(s, k, e)
  PROVE  /\ overlay' \in [Ids -> Layer] /\ log' \in [Ids -> SUBSET Keys]
         /\ \A r \in Ids \ {s} : overlay'[r] = overlay[r] /\ log'[r] = log[r]
         /\ overlay'[s] = Put(Only(k, e), overlay[s])
         /\ log'[s] = IF pass[s] = "none" THEN log[s] ELSE log[s] \cup {k}
<1>1. Put(Only(k, e), overlay[s]) \in Layer
  BY OnlyType, PutType DEF Shape
<1>. QED  BY <1>1 DEF Shape, Cache

\* What a caching read leaves in each key of the overlay.
LEMMA Cached ==
  ASSUME NEW layer, NEW k \in Keys, NEW e \in Entry
  PROVE  /\ Put(Only(k, e), layer).code = layer.code
         /\ Put(Only(k, e), layer).at[k] = e
         /\ \A j \in Keys \ {k} : Put(Only(k, e), layer).at[j] = layer.at[j]
  BY OverlayAssumption DEF Put, Only, Over

LEMMA CacheKeepsSession ==
  ASSUME IInv, NEW s \in Ids, NEW k \in Keys, NEW e \in Entry,
         Hidden(s, k), Cache(s, k, e), Readable(e, {}),
         UNCHANGED <<base, inherited, view>>,
         pass'[s] = "none" <=> pass[s] = "none",
         pass'[s] = "clean" => pass[s] = "clean",
         pass'[s] # "missed" => Plain(e) = Plain(Chain[k])
  PROVE  SessionOK(s)'
<1>1. /\ overlay'[s] = Put(Only(k, e), overlay[s])
      /\ log'[s] = IF pass[s] = "none" THEN log[s] ELSE log[s] \cup {k}
  BY CacheType DEF IInv
<1>2. SessionOK(s)
  BY DEF IInv
<1>3. CodeOK(s)'
  BY <1>2 DEF SessionOK, CodeOK
<1>4. /\ overlay'[s].code = overlay[s].code /\ overlay'[s].at[k] = e
      /\ \A j \in Keys \ {k} : overlay'[s].at[j] = overlay[s].at[j]
  BY <1>1, Cached
<1>5. e # Nothing
  BY OverlayAssumption
<1>6. KeyOK(s, k)'
  <2>1. KeyOK(s, k) /\ overlay[s].at[k] = Nothing /\ base[s].at[k] = Nothing
    BY <1>2 DEF SessionOK, Hidden
  <2>2. view[s][k] = Plain(Chain[k])
    BY <2>1, ChainType DEF KeyOK, LogOK, SettledOK, Over
  <2>3. BaseOK(s, k)'
    BY <2>1 DEF KeyOK, BaseOK
  <2>4. OverlayOK(s, k)'
    BY <1>4 DEF OverlayOK, Readable
  <2>5. LogOK(s, k)'
    <3>1. pass[s] = "none" => k \notin log'[s]
      BY <1>1, <2>1 DEF KeyOK, LogOK
    <3>. QED  BY <3>1, <1>4, <1>5, <2>1, <2>2 DEF LogOK
  <2>6. SettledOK(s, k)'
    BY <1>1, <1>4, <1>5, <2>1, <2>2 DEF SettledOK, Over
  <2>. QED  BY <2>3, <2>4, <2>5, <2>6 DEF KeyOK
<1>7. ASSUME NEW j \in Keys, j # k PROVE KeyOK(s, j)'
  <2>1. KeyOK(s, j) /\ overlay'[s].at[j] = overlay[s].at[j] /\ (j \in log'[s] <=> j \in log[s])
    BY <1>1, <1>2, <1>4, <1>7 DEF SessionOK
  <2>2. BaseOK(s, j)' /\ OverlayOK(s, j)'
    BY <1>4, <2>1 DEF KeyOK, BaseOK, OverlayOK
  <2>3. LogOK(s, j)'
    BY <2>1 DEF KeyOK, LogOK
  <2>4. SettledOK(s, j)'
    BY <2>1 DEF KeyOK, SettledOK, Over
  <2>. QED  BY <2>2, <2>3, <2>4 DEF KeyOK
<1>. QED  BY <1>3, <1>6, <1>7 DEF SessionOK

LEMMA ReadStep ==
  ASSUME IInv, NEW s \in Ids, NEW k \in Keys, Read(s, k)
  PROVE  IInv'
<1>1. Chain[k] \in Entry /\ Readable(Chain[k], {})
  BY ChainType
<1>2. /\ overlay' \in [Ids -> Layer] /\ log' \in [Ids -> SUBSET Keys]
      /\ \A r \in Ids \ {s} : overlay'[r] = overlay[r] /\ log'[r] = log[r]
  BY <1>1, CacheType DEF IInv, Read
<1>3. SessionOK(s)'
  BY <1>1, CacheKeepsSession DEF Read
<1>4. Shape'
  BY <1>2 DEF IInv, Shape, Read
<1>. QED  BY <1>2, <1>3, <1>4, OneChanged DEF Read

LEMMA MissStep ==
  ASSUME IInv, NEW s \in Ids, NEW k \in Keys, Miss(s, k)
  PROVE  IInv'
<1>1. /\ pass[s] # "none" /\ pass'[s] = "missed" /\ pass' \in [Ids -> {"none", "clean", "missed"}]
      /\ \A r \in Ids \ {s} : pass'[r] = pass[r]
      /\ \A r \in Ids \ live' : pass'[r] = "none"
  BY DEF IInv, Shape, Miss
<1>2. CASE k \in Slots
  <2>1. Slot(Zero) \in Entry /\ Readable(Slot(Zero), {})
    BY SlotType, OverlayAssumption
  <2>2. Cache(s, k, Slot(Zero))
    BY <1>2 DEF Miss
  <2>3. /\ overlay' \in [Ids -> Layer] /\ log' \in [Ids -> SUBSET Keys]
        /\ \A r \in Ids \ {s} : overlay'[r] = overlay[r] /\ log'[r] = log[r]
    BY <2>1, <2>2, CacheType DEF IInv
  <2>4. SessionOK(s)'
    BY <1>1, <2>1, <2>2, CacheKeepsSession DEF Miss
  <2>5. Shape'
    BY <1>1, <2>3 DEF IInv, Shape, Miss
  <2>. QED  BY <1>1, <2>3, <2>4, <2>5, OneChanged DEF Miss
<1>3. CASE k \notin Slots
  <2>1. UNCHANGED <<overlay, log>>
    BY <1>3 DEF Miss
  <2>2. SessionOK(s)'
    BY <1>1, <2>1 DEF IInv, SessionOK, CodeOK, KeyOK, BaseOK, OverlayOK, LogOK, SettledOK, Miss
  <2>3. Shape'
    BY <1>1, <2>1 DEF IInv, Shape, Miss
  <2>. QED  BY <1>1, <2>1, <2>2, <2>3, OneChanged DEF Miss
<1>. QED  BY <1>2, <1>3

LEMMA BeginStep ==
  ASSUME IInv, NEW s \in Ids, BeginSpeculation(s)
  PROVE  IInv'
<1>1. /\ pass[s] = "none" /\ pass' \in [Ids -> {"none", "clean", "missed"}]
      /\ \A r \in Ids \ {s} : pass'[r] = pass[r]
      /\ \A r \in Ids \ live' : pass'[r] = "none"
  BY DEF IInv, Shape, BeginSpeculation, Idle
<1>2. SessionOK(s)'
  BY <1>1 DEF IInv, SessionOK, CodeOK, KeyOK, BaseOK, OverlayOK, LogOK, SettledOK, BeginSpeculation
<1>3. Shape'
  BY <1>1 DEF IInv, Shape, BeginSpeculation
<1>. QED  BY <1>1, <1>2, <1>3, OneChanged DEF BeginSpeculation

LEMMA EndStep ==
  ASSUME IInv, NEW s \in Ids, NEW keep \in BOOLEAN, EndSpeculation(s, keep)
  PROVE  IInv'
<1>. DEFINE undone == [at |-> Undone(s), code |-> overlay[s].code]
<1>1. /\ pass[s] # "none" /\ pass'[s] = "none" /\ pass' \in [Ids -> {"none", "clean", "missed"}]
      /\ \A r \in Ids \ {s} : pass'[r] = pass[r]
      /\ \A r \in Ids \ live' : pass'[r] = "none"
  BY DEF IInv, Shape, EndSpeculation
<1>2. /\ log' \in [Ids -> SUBSET Keys] /\ log'[s] = {}
      /\ \A r \in Ids \ {s} : log'[r] = log[r]
  BY DEF IInv, Shape, EndSpeculation, Taken
<1>3. /\ overlay' \in [Ids -> Layer]
      /\ \A r \in Ids \ {s} : overlay'[r] = overlay[r]
      /\ keep => overlay'[s] = overlay[s]
      /\ ~keep => overlay'[s] = undone
  <2>1. undone \in Layer
    <3>1. overlay[s] \in Layer
      BY DEF IInv, Shape
    <3>2. Undone(s) \in EntryMap
      BY <3>1, LayerParts DEF Undone, EntryMap
    <3>. QED  BY <3>1, <3>2, LayerParts, LayerType
  <2>. QED  BY <2>1 DEF IInv, Shape, EndSpeculation
<1>4. \A k \in Keys : undone.at[k] = IF k \in log[s] THEN Nothing ELSE overlay[s].at[k]
  BY DEF Undone
<1>5. undone.code = overlay[s].code
  OBVIOUS
<1>. HIDE DEF undone
<1>6. SessionOK(s)'
  <2>1. SessionOK(s)
    BY DEF IInv
  <2>2. CodeOK(s)'
    BY <2>1 DEF SessionOK, CodeOK, EndSpeculation
  <2>3. ASSUME NEW k \in Keys PROVE KeyOK(s, k)'
    <3>1. KeyOK(s, k)
      BY <2>1 DEF SessionOK
    <3>2. BaseOK(s, k)' /\ LogOK(s, k)'
      BY <1>2, <3>1 DEF KeyOK, BaseOK, LogOK, EndSpeculation
    <3>3. OverlayOK(s, k)'
      BY <1>3, <1>4, <1>5, <3>1 DEF KeyOK, OverlayOK, EndSpeculation
    <3>4. SettledOK(s, k)'
      <4>1. CASE k \notin log[s]
        <5>1. overlay'[s].at[k] = overlay[s].at[k] /\ base' = base /\ view' = view
          BY <1>3, <1>4, <4>1 DEF EndSpeculation
        <5>. QED  BY <3>1, <4>1, <5>1 DEF KeyOK, SettledOK, Over
      <4>2. CASE k \in log[s] /\ keep
        <5>1. /\ overlay'[s].at[k] # Nothing /\ view'[s][k] = Plain(Chain[k])
              /\ Plain(overlay'[s].at[k]) = Plain(Chain[k])
          BY <1>3, <3>1, <4>2 DEF KeyOK, LogOK, EndSpeculation
        <5>. QED  BY <5>1 DEF SettledOK, Over
      <4>3. CASE k \in log[s] /\ ~keep
        <5>1. /\ overlay'[s].at[k] = Nothing /\ base'[s].at[k] = Nothing
              /\ view'[s][k] = Plain(Chain[k])
          BY <1>3, <1>4, <3>1, <4>3 DEF KeyOK, LogOK, EndSpeculation
        <5>. QED  BY <5>1 DEF SettledOK, Over
      <4>. QED  BY <4>1, <4>2, <4>3
    <3>. QED  BY <3>2, <3>3, <3>4 DEF KeyOK
  <2>. QED  BY <2>2, <2>3 DEF SessionOK
<1>7. Shape'
  BY <1>1, <1>2, <1>3 DEF IInv, Shape, EndSpeculation
<1>. QED  BY <1>1, <1>2, <1>3, <1>6, <1>7, OneChanged DEF EndSpeculation

\* What may be written in a key is an entry whose code the session can see.
LEMMA WritableOK ==
  ASSUME Shape, NEW s \in Ids, SessionOK(s), NEW k \in Keys, NEW e \in Writable(s, k)
  PROVE  e \in Entry /\ Readable(e, base[s].code \cup overlay[s].code)
<1>1. CASE k \in Slots
  BY <1>1, SlotType DEF Writable, Readable
<1>2. CASE k \notin Slots
  <2>. DEFINE old == Over(overlay[s].at, base[s].at)[k]
  <2>1. /\ ~Hidden(s, k)
        /\ \/ \E v \in Values : e = [val |-> v, hash |-> old.hash, inline |-> old.inline]
           \/ \E v \in Values, h \in Hashes : e = [val |-> v, hash |-> h, inline |-> TRUE]
    BY <1>2 DEF Writable
  <2>2. overlay[s] \in Layer /\ base[s] \in Layer
    BY DEF Shape
  <2>3. old \in Entry /\ Readable(old, base[s].code \cup overlay[s].code)
    <3>1. old = IF overlay[s].at[k] = Nothing THEN base[s].at[k] ELSE overlay[s].at[k]
      BY DEF Over
    <3>2. KeyOK(s, k)
      BY DEF SessionOK
    <3>3. CASE overlay[s].at[k] = Nothing
      BY <2>1, <2>2, <3>1, <3>2, <3>3, LayerParts DEF Hidden, KeyOK, BaseOK, Readable, EntryMap
    <3>4. CASE overlay[s].at[k] # Nothing
      BY <2>2, <3>1, <3>2, <3>4, LayerParts DEF KeyOK, OverlayOK, EntryMap
    <3>. QED  BY <3>3, <3>4
  <2>. HIDE DEF old
  <2>4. CASE \E v \in Values : e = [val |-> v, hash |-> old.hash, inline |-> old.inline]
    <3>1. PICK v \in Values : e = [val |-> v, hash |-> old.hash, inline |-> old.inline]
      BY <2>4
    <3>. QED  BY <2>3, <3>1 DEF Entry, Readable
  <2>5. CASE \E v \in Values, h \in Hashes : e = [val |-> v, hash |-> h, inline |-> TRUE]
    <3>1. PICK v \in Values, h \in Hashes : e = [val |-> v, hash |-> h, inline |-> TRUE]
      BY <2>5
    <3>. QED  BY <3>1 DEF Entry, Readable
  <2>. QED  BY <2>1, <2>4, <2>5
<1>. QED  BY <1>1, <1>2

LEMMA WritesStep ==
  ASSUME IInv, NEW s \in Ids, NEW changes, changes \in EntryMap, Idle(s), Writes(s, changes)
  PROVE  IInv'
<1>1. Shape /\ SessionOK(s) /\ overlay[s] \in Layer /\ \A k \in Keys : k \notin log[s]
  BY DEF IInv, Shape, SessionOK, KeyOK, LogOK, Idle
<1>2. \A k \in Keys : changes[k] # Nothing =>
        changes[k] \in Entry /\ Readable(changes[k], base[s].code \cup overlay[s].code)
  BY <1>1, WritableOK DEF Writes
<1>. DEFINE seen == [k \in Keys |-> IF changes[k] = Nothing THEN view[s][k] ELSE Plain(changes[k])]
<1>3. seen \in View
  <2>1. ASSUME NEW k \in Keys PROVE seen[k] \in [val : Values, hash : Hashes \cup {NoCode}]
    BY <1>2 DEF IInv, Shape, View, Plain, Entry
  <2>. QED  BY <2>1 DEF View
<1>4. Put(changes, overlay[s]) \in Layer
  BY <1>1, PutType
<1>5. /\ overlay' \in [Ids -> Layer] /\ view' \in [Ids -> View]
      /\ overlay'[s] = Put(changes, overlay[s]) /\ view'[s] = seen
      /\ \A r \in Ids \ {s} : overlay'[r] = overlay[r] /\ view'[r] = view[r]
  BY <1>1, <1>3, <1>4 DEF Shape, Writes
<1>6. /\ overlay'[s].code = overlay[s].code
      /\ \A k \in Keys : overlay'[s].at[k] = IF changes[k] = Nothing THEN overlay[s].at[k] ELSE changes[k]
  BY <1>5 DEF Put, Over
<1>7. SessionOK(s)'
  <2>1. CodeOK(s)'
    BY <1>1 DEF SessionOK, CodeOK, Writes
  <2>2. ASSUME NEW k \in Keys PROVE KeyOK(s, k)'
    <3>1. KeyOK(s, k) /\ k \notin log[s]
      BY <1>1 DEF SessionOK
    <3>2. BaseOK(s, k)' /\ LogOK(s, k)'
      BY <3>1 DEF KeyOK, BaseOK, LogOK, Writes
    <3>3. OverlayOK(s, k)'
      BY <1>2, <1>6, <3>1 DEF KeyOK, OverlayOK, Writes
    <3>4. SettledOK(s, k)'
      <4>1. CASE changes[k] = Nothing
        <5>1. overlay'[s].at[k] = overlay[s].at[k] /\ base' = base /\ view'[s][k] = view[s][k]
          BY <1>5, <1>6, <4>1 DEF Writes
        <5>. QED  BY <3>1, <5>1 DEF KeyOK, SettledOK, Over
      <4>2. CASE changes[k] # Nothing
        <5>1. overlay'[s].at[k] = changes[k] /\ view'[s][k] = Plain(changes[k])
          BY <1>5, <1>6, <4>2
        <5>. QED  BY <4>2, <5>1 DEF SettledOK, Over
      <4>. QED  BY <4>1, <4>2
    <3>. QED  BY <3>2, <3>3, <3>4 DEF KeyOK
  <2>. QED  BY <2>1, <2>2 DEF SessionOK
<1>8. Shape'
  BY <1>1, <1>5 DEF Shape, Writes
<1>. QED  BY <1>5, <1>7, <1>8, OneChanged DEF Writes

LEMMA SnapshotStep ==
  ASSUME IInv, NEW s \in Ids, Snapshot(s)
  PROVE  IInv'
<1>. DEFINE own == OwnEntries(s)
            f == [at |-> Stored(OwnEntries(s)), code |-> OwnCode(s), view |-> view[s]]
<1>1. /\ Shape /\ SessionOK(s) /\ \A k \in Keys : k \notin log[s]
      /\ overlay[s] \in Layer /\ inherited[s] \in Layer /\ view[s] \in View
  BY DEF IInv, Shape, SessionOK, KeyOK, LogOK, Snapshot, Idle
<1>2. own \in EntryMap
  BY <1>1, LayerParts, OverType DEF OwnEntries
<1>3. \A k \in Keys : own[k] = IF overlay[s].at[k] = Nothing THEN inherited[s].at[k]
                                                         ELSE overlay[s].at[k]
  BY DEF OwnEntries, Over
<1>4. OwnCode(s) \in SUBSET Hashes
  BY <1>1, LayerParts DEF OwnCode
<1>5. /\ inherited[s].code \cup overlay[s].code \subseteq OwnCode(s)
      /\ \A k \in Keys : own[k] # Nothing /\ own[k].hash \in Hashes
                          /\ (own[k].inline \/ own[k].hash \in base[s].code)
                          => own[k].hash \in OwnCode(s)
  BY DEF OwnCode
<1>. HIDE DEF own
<1>6. ASSUME NEW k \in Keys
      PROVE  /\ f.at[k] \in Entry \cup {Nothing}
             /\ f.at[k] = Nothing => own[k] = Nothing
             /\ f.at[k] # Nothing => Plain(f.at[k]) = Plain(own[k]) /\ own[k] # Nothing
                                     /\ ~f.at[k].inline /\ f.at[k].hash = own[k].hash
  <2>1. f.at[k] = IF own[k] = Nothing THEN Nothing
                  ELSE [val |-> own[k].val, hash |-> own[k].hash, inline |-> FALSE]
    BY DEF Stored, own
  <2>2. CASE own[k] = Nothing
    BY <2>1, <2>2
  <2>3. CASE own[k] # Nothing
    <3>. DEFINE e == [val |-> own[k].val, hash |-> own[k].hash, inline |-> FALSE]
    <3>1. own[k] \in Entry
      BY <1>2, <2>3 DEF EntryMap
    <3>2. e \in Entry /\ Plain(e) = Plain(own[k]) /\ ~e.inline /\ e.hash = own[k].hash
      BY <3>1 DEF Entry, Plain
    <3>3. e # Nothing
      BY <3>2, OverlayAssumption
    <3>4. f.at[k] = e
      BY <2>1, <2>3
    <3>. QED  BY <2>3, <3>2, <3>3, <3>4
  <2>. QED  BY <2>2, <2>3
<1>7. f \in File
  <2>1. f.at \in EntryMap
    BY <1>6 DEF EntryMap, Stored
  <2>. QED  BY <1>1, <1>4, <2>1 DEF File, EntryMap
<1>8. FileOK(f)
  <2>1. ASSUME NEW k \in Keys
        PROVE  /\ f.at[k] = Nothing => f.view[k] = Plain(Chain[k])
               /\ f.at[k] # Nothing =>
                    Plain(f.at[k]) = f.view[k] /\ Readable(f.at[k], f.code) /\ ~f.at[k].inline
    <3>1. KeyOK(s, k) /\ k \notin log[s] /\ f.view[k] = view[s][k] /\ f.code = OwnCode(s)
      BY <1>1 DEF SessionOK
    <3>2. f.at[k] = Nothing => f.view[k] = Plain(Chain[k])
      BY <1>3, <1>6, <3>1 DEF KeyOK, BaseOK, SettledOK, Over
    <3>3. own[k] # Nothing => Plain(own[k]) = view[s][k]
      BY <1>3, <3>1 DEF KeyOK, BaseOK, SettledOK, Over
    <3>4. own[k] # Nothing => Readable(own[k], base[s].code \cup overlay[s].code)
      BY <1>3, <3>1 DEF KeyOK, BaseOK, OverlayOK, Readable
    <3>5. own[k] # Nothing => own[k].hash = NoCode \/ own[k].hash \in Hashes
      BY <1>2 DEF EntryMap, Entry
    <3>6. own[k] # Nothing => own[k].hash = NoCode \/ own[k].hash \in OwnCode(s)
      BY <1>5, <3>4, <3>5 DEF Readable
    <3>7. f.at[k] # Nothing => Readable(f.at[k], f.code)
      BY <1>6, <3>1, <3>6 DEF Readable
    <3>. QED  BY <1>6, <3>1, <3>2, <3>3, <3>7
  <2>. QED  BY <2>1 DEF FileOK
<1>9. files' = files \cup {f}
  BY DEF Snapshot
<1>. HIDE DEF f
<1>10. Shape'
  BY <1>1, <1>7, <1>9 DEF Shape, Snapshot
<1>11. ASSUME NEW r \in Ids PROVE SessionOK(r)'
  BY OthersKept DEF IInv, Snapshot
<1>12. ASSUME NEW g \in files' PROVE FileOK(g)'
  BY <1>8, <1>9 DEF IInv, FileOK
<1>. QED  BY <1>10, <1>11, <1>12 DEF IInv

----------------------------------------------------------------------------
LEMMA InvStep == IInv /\ [Next]_vars => IInv'
<1>. SUFFICES ASSUME IInv, [Next]_vars PROVE IInv'
  OBVIOUS
<1>1. CASE UNCHANGED vars
  <2>1. Shape'
    BY <1>1 DEF IInv, Shape, vars
  <2>2. ASSUME NEW r \in Ids PROVE SessionOK(r)'
    BY <1>1, OthersKept DEF IInv, vars
  <2>. QED  BY <1>1, <2>1, <2>2 DEF IInv, FileOK, vars
<1>2. CASE Next
  <2>1. PICK s \in Ids :
          \/ \E b \in Bases : Fork(s, b)
          \/ \E t \in Ids : Branch(s, t)
          \/ Drop(s)
          \/ \E k \in Keys : Read(s, k) \/ Miss(s, k)
          \/ BeginSpeculation(s)
          \/ \E keep \in BOOLEAN : EndSpeculation(s, keep)
          \/ Commit(s)
          \/ \E k \in Keys : Set(s, k)
          \/ Snapshot(s)
          \/ \E f \in files, b \in Bases : Resume(s, f, b)
    BY <1>2 DEF Next
  <2>2. CASE Commit(s)
    <3>1. PICK changes \in [Keys -> UNION {Writable(s, k) : k \in Keys} \cup {Nothing}] :
            Writes(s, changes)
      BY <2>2 DEF Commit
    <3>2. Shape /\ SessionOK(s) /\ Idle(s)
      BY <2>2 DEF IInv, Commit
    <3>3. \A k \in Keys : changes[k] \in Entry \cup {Nothing}
      BY <3>1, <3>2, WritableOK DEF Writes
    <3>4. changes \in EntryMap
      BY <3>1, <3>3 DEF EntryMap
    <3>. QED  BY <3>1, <3>2, <3>4, WritesStep
  <2>3. ASSUME NEW k \in Keys, Set(s, k) PROVE IInv'
    <3>1. PICK e \in Writable(s, k) : Writes(s, Only(k, e))
      BY <2>3 DEF Set
    <3>2. Shape /\ SessionOK(s) /\ Idle(s)
      BY <2>3 DEF IInv, Set
    <3>3. Only(k, e) \in EntryMap
      BY <3>2, WritableOK, OnlyType
    <3>. QED  BY <3>1, <3>2, <3>3, WritesStep
  <2>. QED  BY <2>1, <2>2, <2>3, ForkStep, BranchStep, DropStep, ReadStep, MissStep, BeginStep,
               EndStep, SnapshotStep, ResumeStep
<1>. QED  BY <1>1, <1>2

LEMMA InvInit == Init => IInv
<1>. SUFFICES ASSUME Init PROVE IInv
  OBVIOUS
<1>1. Shape
  BY EmptyType, ChainType, FS_EmptySet, OverlayAssumption DEF Init, Shape
<1>2. ASSUME NEW s \in Ids, NEW k \in Keys PROVE KeyOK(s, k)
  <2>1. base[s] = Empty /\ inherited[s] = Empty /\ overlay[s] = Empty /\ log[s] = {}
        /\ view[s] = ChainView
    BY DEF Init
  <2>2. Empty.at[k] = Nothing
    BY DEF Empty
  <2>3. Over(Empty.at, Over(Empty.at, Chain))[k] = Chain[k]
    BY <2>2 DEF Over
  <2>. QED  BY <2>1, <2>2, <2>3, ChainType DEF KeyOK, BaseOK, OverlayOK, LogOK, SettledOK
<1>3. \A s \in Ids : CodeOK(s)
  BY DEF Init, CodeOK, Empty
<1>4. \A f \in files : FileOK(f)
  BY DEF Init
<1>. QED  BY <1>1, <1>2, <1>3, <1>4 DEF IInv, SessionOK

\* The invariant holds in every state.
THEOREM Inductive == Spec => []IInv
  BY InvInit, InvStep, PTL DEF Spec

\* Every variable keeps its shape, and a log outlives no pass.
THEOREM TypeCorrect == Spec => []TypeOK
<1>1. IInv => TypeOK
  BY DEF IInv, Shape, SessionOK, KeyOK, LogOK, TypeOK
<1>. QED  BY <1>1, Inductive, PTL

\* A session reads what its own lineage wrote, else the chain, and its code is
\* there, however its layers came to be.
THEOREM Lineage == Spec => []ReadsItsLineage
<1>1. IInv => ReadsItsLineage
  <2>. SUFFICES ASSUME IInv, NEW s \in live, NEW k \in Keys, pass[s] = "none"
                PROVE  /\ Plain(Reads(s, k)) = view[s][k]
                       /\ Readable(Reads(s, k), base[s].code \cup overlay[s].code)
    BY DEF ReadsItsLineage
  <2>1. KeyOK(s, k)
    BY DEF IInv, Shape, SessionOK
  <2>2. Plain(Reads(s, k)) = view[s][k]
    BY <2>1 DEF KeyOK, LogOK, SettledOK, Reads
  <2>3. Readable(Reads(s, k), base[s].code \cup overlay[s].code)
    BY <2>1, ChainType DEF KeyOK, BaseOK, OverlayOK, Reads, Over, Readable
  <2>. QED  BY <2>2, <2>3
<1>. QED  BY <1>1, Inductive, PTL

\* Laid over any base at the block, a file reproduces the session it was saved
\* from.
THEOREM Reproduces == Spec => []FilesReproduce
<1>1. IInv => FilesReproduce
  <2>. SUFFICES ASSUME IInv, NEW f \in files, NEW b \in Bases, NEW k \in Keys
                PROVE  LET e == Over(Attached(f), Over(b.at, Chain))[k]
                       IN  Plain(e) = f.view[k] /\ Readable(e, b.code \cup f.code)
    BY DEF FilesReproduce, Loaded
  <2>1. FileOK(f) /\ f.at \in EntryMap
    BY DEF IInv, Shape, File, EntryMap
  <2>2. b.at[k] # Nothing => Plain(b.at[k]) = Plain(Chain[k]) /\ Readable(b.at[k], b.code)
    BY OverlayAssumption DEF Plain
  <2>3. CASE f.at[k] = Nothing
    <3>1. Attached(f)[k] = Nothing
      BY <2>3 DEF Attached
    <3>. QED  BY <2>1, <2>2, <2>3, <3>1, ChainType DEF FileOK, Over, Readable
  <2>4. CASE f.at[k] # Nothing
    <3>. DEFINE e == [val |-> f.at[k].val, hash |-> f.at[k].hash,
                      inline |-> f.at[k].hash \in f.code]
    <3>1. Attached(f)[k] = e
      BY <2>4 DEF Attached
    <3>2. f.at[k] \in Entry
      BY <2>1, <2>4 DEF EntryMap
    <3>3. e # Nothing
      <4>1. e \in Entry
        BY <3>2 DEF Entry
      <4>. QED  BY <4>1, OverlayAssumption
    <3>4. Plain(e) = Plain(f.at[k]) /\ Readable(e, f.code)
      BY <2>1, <2>4 DEF FileOK, Plain, Readable
    <3>. QED  BY <2>1, <2>4, <3>1, <3>3, <3>4 DEF FileOK, Over, Readable
  <2>. QED  BY <2>3, <2>4
<1>. QED  BY <1>1, Inductive, PTL
=============================================================================
