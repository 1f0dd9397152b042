-------------------------- MODULE ShadowPlanProofs --------------------------
(***************************************************************************)
(* The theorem about ShadowPlan, for any number of layers and ranks and    *)
(* for every layout of sources and cuts that the model accepts.            *)
(***************************************************************************)
EXTENDS ShadowPlan, WellFoundedInduction, TLAPS

-----------------------------------------------------------------------------
(***************************************************************************)
(* The inductive invariant                                                 *)
(***************************************************************************)
ConfigOk == config \in Configs /\ Loads(config)

PassTypeOK ==
    /\ ConfigOk
    /\ rank \in Rank /\ layer \in 0..NumLayers
    /\ pc \in {"begin", "shadows", "layers", "done"}
    /\ wire \subseteq Layer /\ candWire \in BOOLEAN /\ shadows \subseteq Layer
    /\ kvCache \subseteq Layer /\ topk \in Layer \cup {None} /\ cand \in BOOLEAN

\* What is on the wire is what the rank expects, neither more nor less: the first
\* rank expects nothing.
Received ==
    pc # "done" =>
        /\ wire = RecvIds(rank)
        /\ RecvCand(rank) => candWire

\* The shadows run in ascending order.  Those that have run left their caches, and
\* the one that had to run its indexer left its top-k.
ShadowsRun ==
    pc = "shadows" =>
        /\ layer = Start(rank)
        /\ shadows \subseteq ShadowIds(rank)
        /\ \A s \in ShadowIds(rank) \ shadows :
              /\ s \in config.kv => s \in kvCache
              /\ s \in ShadowTopk(rank) => topk = s
              /\ \A t \in shadows : s < t
        /\ RecvCand(rank) => cand

\* Behind the shadows the caches of every source that a layer may want are filled, and
\* the top-k is that of the last index source at or below the layer that just ran.
LayersRun ==
    pc = "layers" =>
        /\ Start(rank) <= layer /\ layer <= Finish(rank)
        /\ \A s \in config.kv :
              (Start(rank) <= s /\ s < layer) \/ s \in ShadowIds(rank) => s \in kvCache
        /\ \A s \in config.idx :
              /\ Start(rank) <= s /\ s < layer
              /\ \A t \in config.idx : t < layer => t <= s
              => topk = s
        /\ (\A s \in config.idx : Start(rank) <= s => layer <= s)
              => \A s \in ShadowTopk(rank) : topk = s
        /\ HasCand /\ config.cand < layer => cand

PassInv == PassTypeOK /\ Received /\ ShadowsRun /\ LayersRun
-----------------------------------------------------------------------------
(***************************************************************************)
(* Numbers, cuts and sources                                               *)
(***************************************************************************)
\* A non-empty set of layers has a least and a greatest element.
LEMMA NatLeast ==
    ASSUME NEW T \in SUBSET Nat, T # {}
    PROVE  \E x \in T : \A y \in T : x <= y
<1> DEFINE R == {p \in Nat \X Nat : p[1] < p[2]}
<1>1. IsWellFoundedOn(R, Nat)
  BY NatLessThanWellFounded DEF OpToRel
<1>2. PICK x \in T : \A y \in T : ~ (<<y, x>> \in R)
  BY <1>1, WFMin
<1>3. \A y \in T : ~(y < x)
  <2> TAKE y \in T
  <2>1. <<y, x>> \in Nat \X Nat
    OBVIOUS
  <2> QED
    BY <2>1, <1>2
<1>4. \A y \in T : x <= y
  BY <1>3
<1> QED
  BY <1>4

LEMMA MinOfSet ==
    ASSUME NEW S \in SUBSET Nat, S # {}
    PROVE  SetMin(S) \in S /\ \A y \in S : SetMin(S) <= y
BY NatLeast DEF SetMin

LEMMA MaxOfSet ==
    ASSUME NEW b \in Nat, NEW S \in SUBSET (0..b), S # {}
    PROVE  SetMax(S) \in S /\ \A y \in S : y <= SetMax(S)
<1> DEFINE T == {n \in Nat : \A y \in S : y <= n}
<1>1. b \in T
  OBVIOUS
<1>2. PICK m \in T : \A n \in T : m <= n
  BY <1>1, NatLeast
<1>3. m \in S
  <2> SUFFICES ASSUME m \notin S PROVE FALSE
    OBVIOUS
  <2>1. PICK y \in S : TRUE
    OBVIOUS
  <2>2. y \in Nat /\ y <= m /\ y # m
    OBVIOUS
  <2>3. m - 1 \in T
    <3>1. m - 1 \in Nat
      BY <2>2
    <3>2. \A z \in S : z <= m - 1
      OBVIOUS
    <3> QED
      BY <3>1, <3>2
  <2> QED
    BY <2>3, <1>2
<1>4. \E x \in S : \A y \in S : y <= x
  BY <1>3
<1> QED
  BY <1>4 DEF SetMax

\* The ranks cut the layers into intervals that follow each other, none empty.
LEMMA Cuts ==
    ASSUME ConfigOk, NEW r \in Rank
    PROVE  /\ Start(r) \in Layer /\ Finish(r) \in 1..NumLayers
           /\ Start(r) < Finish(r)
           /\ r = 0 => Start(r) = 0
           /\ r < Ranks - 1 => r + 1 \in Rank /\ Finish(r) = Start(r + 1)
<1>1. config.cut \in [Rank -> Layer] /\ config.cut[0] = 0
  BY DEF ConfigOk, Configs, Loads
<1>2. Start(r) \in Layer
  BY <1>1 DEF Start
<1>3. CASE r = Ranks - 1
  BY <1>1, <1>2, <1>3, SizeAssumption DEF Start, Finish, Layer, Rank
<1>4. CASE r # Ranks - 1
  <2>1. r + 1 \in Rank /\ r + 1 # 0 /\ (r + 1) - 1 = r
    BY <1>4, SizeAssumption DEF Rank
  <2>2. config.cut[r] < config.cut[r + 1]
    <3>1. \A q \in Rank \ {0} : config.cut[q - 1] < config.cut[q]
      BY DEF ConfigOk, Loads
    <3> QED
      BY <3>1, <2>1
  <2>3. config.cut[r + 1] \in Layer
    BY <1>1, <2>1
  <2> QED
    BY <1>1, <1>2, <1>4, <2>1, <2>2, <2>3, SizeAssumption DEF Start, Finish, Layer
<1> QED
  BY <1>3, <1>4

\* The sources of a compressed layer are the last ones at or below it.
LEMMA Sources ==
    ASSUME ConfigOk, NEW l \in config.comp
    PROVE  /\ l \in Layer
           /\ KvSource(l) \in config.kv /\ KvSource(l) <= l
           /\ \A s \in config.kv : s <= l => s <= KvSource(l)
           /\ IndexSource(l) \in config.idx /\ IndexSource(l) <= l
           /\ \A s \in config.idx : s <= l => s <= IndexSource(l)
<1> DEFINE K == {s \in config.kv : s <= l}
           I == {s \in config.idx : s <= l}
<1>1. config.kv \subseteq config.idx /\ config.idx \subseteq Layer /\ config.comp \subseteq Layer
  BY DEF ConfigOk, Configs, Loads
<1>2. K # {} /\ I # {}
  BY <1>1 DEF ConfigOk, Loads
<1>3. K \in SUBSET (0..l) /\ I \in SUBSET (0..l) /\ l \in Nat
  BY <1>1, SizeAssumption DEF Layer
<1>4. SetMax(K) \in K /\ \A y \in K : y <= SetMax(K)
  BY <1>2, <1>3, MaxOfSet
<1>5. SetMax(I) \in I /\ \A y \in I : y <= SetMax(I)
  BY <1>2, <1>3, MaxOfSet
<1> QED
  BY <1>1, <1>4, <1>5 DEF KvSource, IndexSource

LEMMA ConfigSets ==
    ASSUME ConfigOk
    PROVE  /\ config.kv \subseteq config.idx /\ config.idx \subseteq config.comp
           /\ config.comp \subseteq Layer
           /\ HasCand => config.cand \in config.idx
BY DEF ConfigOk, Configs, Loads, HasCand

\* A shadow stands for a source below the rank; for the top-k, for the last one.
LEMMA ShadowsBelow ==
    ASSUME ConfigOk, NEW r \in Rank, NEW s \in ShadowIds(r)
    PROVE  s \in config.idx /\ s < Start(r)
<1>1. CASE s \in ShadowTopk(r)
  <2>1. PICK m \in Compressed(r) : s = IndexSource(m) /\ IndexSource(m) < Start(r)
    BY <1>1 DEF ShadowTopk
  <2>2. m \in config.comp
    BY DEF Compressed
  <2> QED
    BY <2>1, <2>2, Sources
<1>2. CASE s \notin ShadowTopk(r)
  <2>1. PICK m \in Compressed(r) : s = KvSource(m) /\ KvSource(m) < Start(r)
    BY <1>2 DEF ShadowIds
  <2>2. m \in config.comp
    BY DEF Compressed
  <2> QED
    BY <2>1, <2>2, Sources, ConfigSets
<1> QED
  BY <1>1, <1>2

LEMMA TopkBelow ==
    ASSUME ConfigOk, NEW r \in Rank, NEW s \in ShadowTopk(r)
    PROVE  /\ s \in ShadowIds(r) /\ s \in config.idx /\ s < Start(r)
           /\ \A t \in config.idx : t < Start(r) => t <= s
           /\ s \notin config.kv =>
                KvSource(s) \in ShadowIds(r) /\ KvSource(s) \in config.kv /\ KvSource(s) < s
<1>1. PICK m \in Compressed(r) : s = IndexSource(m) /\ IndexSource(m) < Start(r)
  BY DEF ShadowTopk
<1>2. m \in config.comp /\ Start(r) <= m
  BY DEF Compressed
<1>3. Start(r) \in Layer
  BY Cuts
<1>4. /\ m \in Layer /\ s \in config.idx /\ s < Start(r) /\ KvSource(m) \in config.kv
      /\ \A t \in config.idx : t <= m => t <= s
  BY <1>1, <1>2, Sources
<1>5. config.idx \subseteq Layer
  BY ConfigSets
<1>6. \A t \in config.idx : t < Start(r) => t <= s
  BY <1>2, <1>3, <1>4, <1>5 DEF Layer
<1>7. s \in ShadowIds(r)
  BY DEF ShadowIds
<1>8. s \notin config.kv =>
        KvSource(s) \in ShadowIds(r) /\ KvSource(s) \in config.kv /\ KvSource(s) < s
  <2> HAVE s \notin config.kv
  <2>1. s \in config.comp
    BY <1>4, ConfigSets
  <2>2. /\ KvSource(s) \in config.kv /\ KvSource(s) <= s
        /\ \A t \in config.kv : t <= s => t <= KvSource(s)
    BY <2>1, Sources
  <2>3. /\ KvSource(m) \in config.kv /\ KvSource(m) <= m
        /\ \A t \in config.kv : t <= m => t <= KvSource(m)
    BY <1>2, Sources
  <2>4. config.kv \subseteq config.idx
    BY ConfigSets
  <2>5. KvSource(m) <= s
    BY <1>4, <2>3, <2>4
  <2>6. KvSource(s) <= m
    BY <1>2, <1>3, <1>4, <1>5, <2>2, <2>4 DEF Layer
  <2>7. KvSource(s) = KvSource(m)
    BY <1>5, <2>2, <2>3, <2>4, <2>5, <2>6 DEF Layer
  <2>8. KvSource(s) < s
    BY <1>4, <1>5, <2>2, <2>4 DEF Layer
  <2>9. KvSource(m) < Start(r)
    BY <1>3, <1>4, <1>5, <2>2, <2>7, <2>4 DEF Layer
  <2>10. KvSource(m) \in ShadowIds(r)
    BY <2>9 DEF ShadowIds
  <2> QED
    BY <2>2, <2>7, <2>8, <2>10
<1> QED
  BY <1>4, <1>6, <1>7, <1>8

\* What a rank ships is what the next one expects, and nothing of it is missing on the
\* rank: it is the input of an own layer or was received.
LEMMA ShipIsReceived ==
    ASSUME ConfigOk, NEW r \in Rank, r < Ranks - 1
    PROVE  ShipIds(r) = RecvIds(r + 1)
<1>1. r + 1 \in Rank /\ Finish(r) = Start(r + 1) /\ Start(r + 1) < Finish(r + 1)
  BY Cuts
<1>2. Start(r + 1) \in Nat /\ Finish(r + 1) \in Nat
  BY <1>1, Cuts DEF Layer
<1>3. ASSUME NEW s \in ShipIds(r) PROVE s \in RecvIds(r + 1)
  <2>1. PICK q \in (r+1)..(Ranks-1) : s \in ShadowIds(q)
    BY DEF ShipIds
  <2>2. s < Start(r + 1)
    BY <1>1 DEF ShipIds
  <2>3. q \in Rank
    BY <2>1 DEF Rank
  <2>4. CASE q = r + 1
    BY <2>1, <2>4 DEF RecvIds
  <2>5. CASE q # r + 1
    <3>1. q \in ((r+1)+1)..(Ranks-1)
      BY <2>5 DEF Rank
    <3>2. s \in config.idx
      BY <2>1, <2>3, ShadowsBelow
    <3>3. s \in Nat
      BY <3>2, ConfigSets DEF Layer
    <3>4. s < Finish(r + 1)
      BY <1>1, <1>2, <2>2, <3>3
    <3>5. s \in ShipIds(r + 1)
      BY <2>1, <3>1, <3>4 DEF ShipIds
    <3> QED
      BY <3>5, <2>2 DEF RecvIds
  <2> QED
    BY <2>4, <2>5
<1>4. ASSUME NEW s \in RecvIds(r + 1) PROVE s \in ShipIds(r)
  <2>1. CASE s \in ShadowIds(r + 1)
    <3>1. s < Finish(r)
      BY <1>1, <2>1, ShadowsBelow
    <3>2. r + 1 \in (r+1)..(Ranks-1)
      BY SizeAssumption DEF Rank
    <3> QED
      BY <2>1, <3>1, <3>2 DEF ShipIds
  <2>2. CASE s \notin ShadowIds(r + 1)
    <3>1. s \in ShipIds(r + 1) /\ s < Start(r + 1)
      BY <2>2 DEF RecvIds
    <3>2. PICK q \in ((r+1)+1)..(Ranks-1) : s \in ShadowIds(q)
      BY <3>1 DEF ShipIds
    <3>3. q \in (r+1)..(Ranks-1)
      BY <3>2 DEF Rank
    <3> QED
      BY <1>1, <3>1, <3>2, <3>3 DEF ShipIds
  <2> QED
    BY <2>1, <2>2
<1> QED
  BY <1>3, <1>4

LEMMA ShipsLayers ==
    ASSUME ConfigOk, NEW r \in Rank
    PROVE  ShipIds(r) \subseteq Layer
<1> SUFFICES ASSUME NEW s \in ShipIds(r) PROVE s \in Layer
  OBVIOUS
<1>1. PICK q \in (r+1)..(Ranks-1) : s \in ShadowIds(q)
  BY DEF ShipIds
<1>2. q \in Rank
  BY <1>1 DEF Rank
<1> QED
  BY <1>1, <1>2, ShadowsBelow, ConfigSets

LEMMA ShipComplete ==
    ASSUME ConfigOk, NEW r \in Rank, wire = RecvIds(r)
    PROVE  OwnedShipIds(r) \cup (ShipIds(r) \cap wire) = ShipIds(r)
<1>1. Start(r) \in Nat
  BY Cuts DEF Layer
<1>2. ASSUME NEW s \in ShipIds(r) PROVE s \in Nat
  <2>1. PICK q \in (r+1)..(Ranks-1) : s \in ShadowIds(q)
    BY DEF ShipIds
  <2>2. q \in Rank
    BY <2>1 DEF Rank
  <2> QED
    BY <2>1, <2>2, ShadowsBelow, ConfigSets DEF Layer
<1>3. ASSUME NEW s \in ShipIds(r), s < Start(r) PROVE s \in wire
  BY <1>3 DEF RecvIds
<1>4. ASSUME NEW s \in ShipIds(r), s \notin wire PROVE s \in OwnedShipIds(r)
  BY <1>1, <1>2, <1>3, <1>4 DEF OwnedShipIds
<1> QED
  BY <1>4 DEF OwnedShipIds

\* The first rank has no shadows and expects nothing.
LEMMA FirstRank ==
    ASSUME ConfigOk
    PROVE  /\ 0 \in Rank /\ ShadowIds(0) = {} /\ RecvIds(0) = {}
           /\ ~RecvCand(0)
<1>1. 0 \in Rank
  BY SizeAssumption DEF Rank
<1>2. Start(0) = 0
  BY <1>1, Cuts
<1>3. ShadowIds(0) = {}
  <2> SUFFICES ASSUME NEW s \in ShadowIds(0) PROVE FALSE
    OBVIOUS
  <2>1. s \in config.idx /\ s < Start(0)
    BY <1>1, ShadowsBelow
  <2> QED
    BY <1>2, <2>1, ConfigSets DEF Layer
<1>4. \A s \in ShipIds(0) : ~(s < Start(0))
  <2> TAKE s \in ShipIds(0)
  <2>1. PICK q \in (0+1)..(Ranks-1) : s \in ShadowIds(q)
    BY DEF ShipIds
  <2>2. q \in Rank
    BY <2>1, SizeAssumption DEF Rank
  <2> QED
    BY <1>2, <2>1, <2>2, ShadowsBelow, ConfigSets DEF Layer
<1>5. ~RecvCand(0)
  BY <1>2, ConfigSets DEF RecvCand, Layer
<1> QED
  BY <1>1, <1>3, <1>4, <1>5 DEF RecvIds
-----------------------------------------------------------------------------
(***************************************************************************)
(* The steps                                                               *)
(***************************************************************************)
\* No step changes the layout, so what is derived from it stays.
LEMMA SameLayout ==
    ASSUME config' = config
    PROVE  /\ \A r : Start(r)' = Start(r) /\ Finish(r)' = Finish(r)
           /\ \A r : ShadowIds(r)' = ShadowIds(r) /\ ShadowTopk(r)' = ShadowTopk(r)
           /\ \A r : RecvIds(r)' = RecvIds(r) /\ RecvCand(r)' = RecvCand(r)
           /\ HasCand' = HasCand /\ ConfigOk' = ConfigOk
BY DEF Start, Finish, ShadowIds, ShadowTopk, RecvIds, ShipIds, RecvCand, HasCand, KvSource,
       IndexSource, Compressed, ConfigOk, Loads

LEMMA PassInit == Init => PassInv
<1> SUFFICES ASSUME Init PROVE PassInv
  OBVIOUS
<1>1. ConfigOk
  BY DEF Init, ConfigOk
<1>2. PassTypeOK
  <2>1. rank \in Rank /\ layer \in 0..NumLayers
    BY <1>1, FirstRank, SizeAssumption DEF Init
  <2>2. pc \in {"begin", "shadows", "layers", "done"} /\ topk \in Layer \cup {None}
    BY DEF Init
  <2> QED
    BY <1>1, <2>1, <2>2 DEF Init, PassTypeOK
<1>3. Received
  BY <1>1, FirstRank DEF Init, Received
<1> QED
  BY <1>2, <1>3 DEF PassInv, ShadowsRun, LayersRun, Init

LEMMA BeginStep == PassInv /\ Begin => PassInv'
<1> SUFFICES ASSUME PassInv, Begin PROVE PassInv'
  OBVIOUS
<1> USE SameLayout
<1>1. config' = config /\ rank' = rank /\ ConfigOk /\ rank \in Rank /\ pc = "begin"
  BY DEF Begin, PassInv, PassTypeOK
<1>2. shadows' = ShadowIds(rank)
  BY <1>1, FirstRank DEF Begin, Rank
<1>3. RecvCand(rank) => cand'
  <2> HAVE RecvCand(rank)
  <2>1. candWire
    BY <1>1 DEF PassInv, Received
  <2>2. rank # 0
    BY <1>1, FirstRank
  <2>3. rank > 0
    BY <1>1, <2>2 DEF Rank
  <2>4. cand' = (rank > 0 /\ RecvCand(rank) /\ candWire)
    BY DEF Begin
  <2> QED
    BY <2>1, <2>3, <2>4
<1>4. PassTypeOK'
  <2>1. layer' \in 0..NumLayers
    <3>1. Start(rank) \in Layer
      BY <1>1, Cuts
    <3> QED
      BY <3>1, SizeAssumption DEF Begin, Layer
  <2>2. shadows' \subseteq Layer
    BY <1>1, <1>2, ShadowsBelow, ConfigSets
  <2>3. cand' \in BOOLEAN
    BY Zenon DEF Begin
  <2> QED
    BY <1>1, <2>1, <2>2, <2>3 DEF PassInv, PassTypeOK, Begin
<1>5. Received'
  BY <1>1 DEF PassInv, Received, Begin
<1>6. ShadowsRun'
  BY <1>1, <1>2, <1>3 DEF ShadowsRun, Begin
<1>7. LayersRun'
  BY DEF LayersRun, Begin
<1> QED
  BY <1>4, <1>5, <1>6, <1>7 DEF PassInv

LEMMA RunShadowStep == PassInv /\ RunShadow => PassInv'
<1> SUFFICES ASSUME PassInv, RunShadow PROVE PassInv'
  OBVIOUS
<1> USE SameLayout
<1> DEFINE s == NextShadow
<1>1. /\ config' = config /\ rank' = rank /\ ConfigOk /\ rank \in Rank /\ pc = "shadows"
      /\ pc' = "shadows" /\ layer' = layer /\ wire' = wire /\ candWire' = candWire
      /\ shadows' = shadows \ {s} /\ shadows # {} /\ shadows \subseteq Layer
  BY DEF RunShadow, PassInv, PassTypeOK
<1>2. s \in shadows /\ \A t \in shadows : s <= t
  BY <1>1, MinOfSet DEF NextShadow, Layer
<1>3. s \in ShadowIds(rank)
  BY <1>1, <1>2 DEF PassInv, ShadowsRun
<1>4. s \in wire
  BY <1>1, <1>3 DEF PassInv, Received, RecvIds
<1>5. s \in Layer
  BY <1>1, <1>2
<1>6. PassTypeOK'
  <2>1. kvCache' \subseteq Layer
    BY <1>5 DEF PassInv, PassTypeOK, RunShadow
  <2>2. topk' \in Layer \cup {None} /\ cand' \in BOOLEAN
    BY <1>5 DEF PassInv, PassTypeOK, RunShadow, RunIndexer
  <2> QED
    BY <1>1, <2>1, <2>2 DEF PassInv, PassTypeOK
<1>7. Received'
  BY <1>1 DEF PassInv, Received
<1>8. ShadowsRun'
  <2>1. /\ layer = Start(rank) /\ shadows \subseteq ShadowIds(rank)
        /\ RecvCand(rank) => cand'
    BY <1>1 DEF PassInv, ShadowsRun, RunShadow, RunIndexer
  <2>2. ASSUME NEW u \in ShadowIds(rank) \ shadows'
        PROVE  /\ u \in config.kv => u \in kvCache'
               /\ u \in ShadowTopk(rank) => topk' = u
               /\ \A t \in shadows' : u < t
    <3>1. CASE u = s
      BY <1>1, <1>2, <1>4, <3>1 DEF RunShadow, RunIndexer, Layer
    <3>2. CASE u # s
      <4>1. u \in ShadowIds(rank) \ shadows
        BY <1>1, <2>2, <3>2
      <4>2. /\ u \in config.kv => u \in kvCache
            /\ u \in ShadowTopk(rank) => topk = u
            /\ \A t \in shadows : u < t
        BY <1>1, <4>1 DEF PassInv, ShadowsRun
      <4>3. u \in config.kv => u \in kvCache'
        BY <4>2 DEF RunShadow
      <4>4. ASSUME u \in ShadowTopk(rank) PROVE topk' = u
        <5>1. s \notin ShadowTopk(rank)
          BY <1>1, <1>2, <1>5, <3>2, <4>4, <4>2, TopkBelow, ConfigSets DEF Layer
        <5> QED
          BY <4>2, <4>4, <5>1 DEF RunShadow
      <4> QED
        BY <1>1, <4>2, <4>3, <4>4
    <3> QED
      BY <3>1, <3>2
  <2> QED
    BY <1>1, <2>1, <2>2 DEF ShadowsRun
<1>9. LayersRun'
  BY <1>1 DEF LayersRun
<1> QED
  BY <1>6, <1>7, <1>8, <1>9 DEF PassInv

LEMMA EndShadowsStep == PassInv /\ EndShadows => PassInv'
<1> SUFFICES ASSUME PassInv, EndShadows PROVE PassInv'
  OBVIOUS
<1> USE SameLayout
<1>1. /\ config' = config /\ rank' = rank /\ ConfigOk /\ rank \in Rank /\ pc = "shadows"
      /\ pc' = "layers" /\ shadows = {} /\ layer = Start(rank)
      /\ layer' = layer /\ kvCache' = kvCache /\ topk' = topk /\ cand' = cand
  BY DEF EndShadows, PassInv, PassTypeOK, ShadowsRun
<1>2. /\ \A s \in ShadowIds(rank) : (s \in config.kv => s \in kvCache) /\ (s \in ShadowTopk(rank) => topk = s)
      /\ RecvCand(rank) => cand
  BY <1>1 DEF PassInv, ShadowsRun
<1>3. PassTypeOK'
  BY <1>1 DEF PassInv, PassTypeOK, EndShadows
<1>4. Received'
  BY <1>1 DEF PassInv, Received, EndShadows
<1>5. ShadowsRun'
  BY <1>1 DEF ShadowsRun
<1>6. LayersRun'
  <2>1. Start(rank) \in Nat /\ Start(rank) <= Finish(rank)
    BY <1>1, Cuts DEF Layer
  <2>2. config.kv \subseteq Nat /\ config.idx \subseteq Nat
    BY <1>1, ConfigSets DEF Layer
  <2>3. \A s \in config.kv : (Start(rank) <= s /\ s < layer) \/ s \in ShadowIds(rank) => s \in kvCache
    BY <1>1, <1>2, <2>1, <2>2
  <2>4. \A s \in config.idx : ~(Start(rank) <= s /\ s < layer)
    BY <1>1, <2>1, <2>2
  <2>5. \A s \in ShadowTopk(rank) : topk = s
    BY <1>1, <1>2, TopkBelow
  <2>6. HasCand /\ config.cand < layer => cand
    BY <1>1, <1>2, <2>1, <2>2, ConfigSets DEF RecvCand
  <2> QED
    BY <1>1, <2>1, <2>3, <2>4, <2>5, <2>6 DEF LayersRun
<1> QED
  BY <1>3, <1>4, <1>5, <1>6 DEF PassInv

LEMMA RunLayerStep == PassInv /\ RunLayer => PassInv'
<1> SUFFICES ASSUME PassInv, RunLayer PROVE PassInv'
  OBVIOUS
<1> USE SameLayout
<1>1. /\ config' = config /\ rank' = rank /\ ConfigOk /\ rank \in Rank /\ pc = "layers"
      /\ pc' = "layers" /\ layer < Finish(rank) /\ layer' = layer + 1
      /\ shadows' = shadows /\ wire' = wire /\ candWire' = candWire
  BY DEF RunLayer, PassInv, PassTypeOK
<1>2. /\ Start(rank) <= layer
      /\ \A s \in config.kv :
            (Start(rank) <= s /\ s < layer) \/ s \in ShadowIds(rank) => s \in kvCache
      /\ \A s \in config.idx :
            /\ Start(rank) <= s /\ s < layer
            /\ \A t \in config.idx : t < layer => t <= s
            => topk = s
      /\ (\A s \in config.idx : Start(rank) <= s => layer <= s)
            => \A s \in ShadowTopk(rank) : topk = s
      /\ HasCand /\ config.cand < layer => cand
  BY <1>1 DEF PassInv, LayersRun
<1>3. Start(rank) \in Nat /\ Finish(rank) \in 1..NumLayers /\ Start(rank) < Finish(rank)
  BY <1>1, Cuts DEF Layer
<1>4. config.kv \subseteq config.idx /\ config.idx \subseteq Nat /\ layer \in Layer
  <2>1. config.kv \subseteq config.idx /\ config.idx \subseteq Nat
    BY <1>1, ConfigSets DEF Layer
  <2>2. layer \in Nat
    BY SizeAssumption DEF PassInv, PassTypeOK
  <2> QED
    BY <1>1, <1>3, <2>1, <2>2, SizeAssumption DEF Layer
<1>5. layer \in Nat
  BY <1>4 DEF Layer
<1>6. PassTypeOK'
  <2>1. kvCache' \subseteq Layer
    BY <1>4 DEF RunLayer, PassInv, PassTypeOK
  <2>2. topk' \in Layer \cup {None} /\ cand' \in BOOLEAN
    BY <1>4 DEF RunLayer, RunIndexer, PassInv, PassTypeOK
  <2>3. layer' \in 0..NumLayers
    BY <1>1, <1>3, <1>4, SizeAssumption DEF Layer
  <2> QED
    BY <1>1, <2>1, <2>2, <2>3 DEF PassInv, PassTypeOK
<1>7. Received'
  BY <1>1 DEF PassInv, Received
<1>8. ShadowsRun'
  BY <1>1 DEF ShadowsRun
<1>9. LayersRun'
  <2>1. Start(rank) <= layer' /\ layer' <= Finish(rank)
    BY <1>1, <1>2, <1>3, <1>5
  <2>2. ASSUME NEW s \in config.kv, (Start(rank) <= s /\ s < layer') \/ s \in ShadowIds(rank)
        PROVE  s \in kvCache'
    <3>1. CASE s = layer
      BY <3>1, <2>2 DEF RunLayer
    <3>2. CASE s # layer
      <4>1. (Start(rank) <= s /\ s < layer) \/ s \in ShadowIds(rank)
        BY <1>1, <1>4, <1>5, <2>2, <3>2
      <4> QED
        BY <1>2, <4>1 DEF RunLayer
    <3> QED
      BY <3>1, <3>2
  <2>3. ASSUME NEW s \in config.idx, Start(rank) <= s, s < layer',
               \A t \in config.idx : t < layer' => t <= s
        PROVE  topk' = s
    <3>1. CASE layer \in config.idx
      <4>1. layer <= s
        BY <1>1, <1>5, <2>3, <3>1
      <4>2. s = layer
        BY <1>1, <1>4, <1>5, <2>3, <4>1
      <4> QED
        BY <3>1, <4>2 DEF RunLayer, RunIndexer
    <3>2. CASE layer \notin config.idx
      <4>1. s < layer
        BY <1>1, <1>4, <1>5, <2>3, <3>2
      <4>2. \A t \in config.idx : t < layer => t <= s
        BY <1>1, <1>4, <1>5, <2>3
      <4>3. topk = s
        BY <1>2, <2>3, <4>1, <4>2
      <4> QED
        BY <3>2, <4>3 DEF RunLayer
    <3> QED
      BY <3>1, <3>2
  <2>4. ASSUME \A s \in config.idx : Start(rank) <= s => layer' <= s,
               NEW s \in ShadowTopk(rank)
        PROVE  topk' = s
    <3>1. layer \notin config.idx
      BY <1>1, <1>2, <1>5, <2>4
    <3>2. \A u \in config.idx : Start(rank) <= u => layer <= u
      BY <1>1, <1>4, <1>5, <2>4
    <3>3. topk = s
      BY <1>2, <3>2
    <3> QED
      BY <3>1, <3>3 DEF RunLayer
  <2>5. ASSUME HasCand, config.cand < layer' PROVE cand'
    <3>1. config.cand \in config.idx
      BY <1>1, <2>5, ConfigSets
    <3>2. CASE config.cand = layer
      BY <3>1, <3>2 DEF RunLayer, RunIndexer
    <3>3. CASE config.cand # layer
      <4>1. config.cand < layer
        BY <1>1, <1>4, <1>5, <2>5, <3>1, <3>3
      <4>2. cand
        BY <1>2, <2>5, <4>1
      <4> QED
        BY <4>2 DEF RunLayer, RunIndexer
    <3> QED
      BY <3>2, <3>3
  <2> QED
    BY <1>1, <2>1, <2>2, <2>3, <2>4, <2>5 DEF LayersRun
<1> QED
  BY <1>6, <1>7, <1>8, <1>9 DEF PassInv

LEMMA ShipStep == PassInv /\ Ship => PassInv'
<1> SUFFICES ASSUME PassInv, Ship PROVE PassInv'
  OBVIOUS
<1> USE SameLayout
<1>1. /\ config' = config /\ ConfigOk /\ rank \in Rank /\ pc = "layers" /\ layer = Finish(rank)
      /\ layer' = layer /\ shadows' = shadows /\ kvCache' = kvCache /\ topk' = topk /\ cand' = cand
  BY DEF Ship, PassInv, PassTypeOK
<1>2. CASE rank < Ranks - 1
  <2>1. /\ rank' = rank + 1 /\ pc' = "begin"
        /\ wire' = OwnedShipIds(rank) \cup (ShipIds(rank) \cap wire)
        /\ candWire' = (ShipCand(rank) /\ cand)
    BY <1>2 DEF Ship
  <2>2. /\ rank + 1 \in Rank /\ Finish(rank) = Start(rank + 1) /\ Start(rank + 1) < Finish(rank + 1)
        /\ Start(rank + 1) \in Nat /\ Finish(rank + 1) \in Nat
    BY <1>1, <1>2, Cuts DEF Layer
  <2>3. wire = RecvIds(rank)
    BY <1>1 DEF PassInv, Received
  <2>4. wire' = RecvIds(rank + 1)
    BY <1>1, <1>2, <2>1, <2>3, ShipComplete, ShipIsReceived
  <2>5. RecvIds(rank)' = RecvIds(rank + 1) /\ RecvCand(rank)' = RecvCand(rank + 1)
    BY <1>1, <2>1 DEF RecvIds, ShadowIds, ShadowTopk, ShipIds, RecvCand, HasCand, Start, Finish,
       KvSource, IndexSource, Compressed
  <2>6. ASSUME RecvCand(rank + 1) PROVE candWire'
    <3>1. HasCand /\ config.cand < Start(rank + 1) /\ config.cand \in Nat
      BY <1>1, <2>2, <2>6, ConfigSets DEF RecvCand, Layer
    <3>2. cand
      BY <1>1, <2>2, <3>1 DEF PassInv, LayersRun
    <3>3. rank + 1 \in (rank+1)..(Ranks-1) /\ Finish(rank + 1) > config.cand + 1
      BY <1>1, <1>2, <2>2, <3>1 DEF Rank
    <3>4. ShipCand(rank)
      BY <2>2, <3>1, <3>3 DEF ShipCand
    <3> QED
      BY <2>1, <3>2, <3>4
  <2>7. PassTypeOK'
    <3>1. wire' \subseteq Layer
      BY <1>1, <2>1, <2>3, ShipComplete, ShipsLayers DEF PassInv, PassTypeOK
    <3>2. candWire' \in BOOLEAN
      BY <2>1, Zenon
    <3> QED
      BY <1>1, <2>1, <2>2, <3>1, <3>2 DEF PassInv, PassTypeOK
  <2>8. Received'
    BY <2>4, <2>5, <2>6 DEF Received
  <2> QED
    BY <2>1, <2>7, <2>8 DEF PassInv, ShadowsRun, LayersRun
<1>3. CASE ~(rank < Ranks - 1)
  <2>1. pc' = "done" /\ rank' = rank /\ wire' = wire /\ candWire' = candWire
    BY <1>3 DEF Ship
  <2> QED
    BY <1>1, <2>1 DEF PassInv, PassTypeOK, Received, ShadowsRun, LayersRun
<1> QED
  BY <1>2, <1>3

LEMMA PassStep == PassInv /\ [Next]_vars => PassInv'
<1> SUFFICES ASSUME PassInv, [Next]_vars PROVE PassInv'
  OBVIOUS
<1>1. CASE UNCHANGED vars
  <2>1. config' = config
    BY <1>1 DEF vars
  <2> QED
    BY <1>1, <2>1, SameLayout DEF vars, PassInv, PassTypeOK, Received, ShadowsRun, LayersRun
<1>2. CASE Begin
  BY <1>2, BeginStep
<1>3. CASE RunShadow
  BY <1>3, RunShadowStep
<1>4. CASE EndShadows
  BY <1>4, EndShadowsStep
<1>5. CASE RunLayer
  BY <1>5, RunLayerStep
<1>6. CASE Ship
  BY <1>6, ShipStep
<1> QED
  BY <1>1, <1>2, <1>3, <1>4, <1>5, <1>6 DEF Next, Done
-----------------------------------------------------------------------------
(***************************************************************************)
(* What the invariant gives                                                *)
(***************************************************************************)
LEMMA InvFeeds == PassInv => LayersFed
<1> SUFFICES ASSUME PassInv PROVE LayersFed
  OBVIOUS
<1>1. ConfigOk /\ rank \in Rank /\ layer \in Nat /\ config.idx \subseteq Nat /\ config.kv \subseteq config.idx
  BY SizeAssumption, ConfigSets DEF PassInv, PassTypeOK, Layer
<1>2. Start(rank) \in Nat /\ Finish(rank) \in Nat
  BY <1>1, Cuts DEF Layer
<1>3. ReadsArrive
  BY DEF ReadsArrive, PassInv, Received
\* A source that a layer of the rank wants is own and has run, or has a shadow.
<1>4. ASSUME pc = "layers", NEW l \in config.comp, Start(rank) <= l, l < Finish(rank),
             KvSource(l) < layer \/ KvSource(l) < Start(rank)
      PROVE  KvSource(l) \in kvCache
  <2>1. KvSource(l) \in config.kv /\ KvSource(l) \in Nat
    BY <1>1, Sources
  <2>2. CASE KvSource(l) < Start(rank)
    <3>1. l \in Compressed(rank)
      BY <1>4 DEF Compressed
    <3>2. KvSource(l) \in ShadowIds(rank)
      BY <2>2, <3>1 DEF ShadowIds
    <3> QED
      BY <1>4, <2>1, <3>2 DEF PassInv, LayersRun
  <2>3. CASE ~(KvSource(l) < Start(rank))
    <3>1. Start(rank) <= KvSource(l) /\ KvSource(l) < layer
      BY <1>2, <1>4, <2>1, <2>3
    <3> QED
      BY <1>4, <2>1, <3>1 DEF PassInv, LayersRun
  <2> QED
    BY <2>2, <2>3
<1>5. AttentionFed
  <2> SUFFICES ASSUME pc = "layers", layer > Start(rank), (layer - 1) \in config.comp
               PROVE  KvSource(layer - 1) \in kvCache /\ topk = IndexSource(layer - 1)
    BY DEF AttentionFed
  <2> DEFINE l == layer - 1
  <2>1. l \in Nat /\ Start(rank) <= l /\ l < layer /\ layer <= Finish(rank) /\ l < Finish(rank)
    BY <1>1, <1>2 DEF PassInv, LayersRun
  <2>2. /\ KvSource(l) \in config.kv /\ KvSource(l) <= l
        /\ IndexSource(l) \in config.idx /\ IndexSource(l) <= l
        /\ \A s \in config.idx : s <= l => s <= IndexSource(l)
    BY <1>1, Sources
  <2>3. KvSource(l) < layer
    BY <1>1, <2>1, <2>2
  <2>4. KvSource(l) \in kvCache
    BY <1>4, <2>1, <2>3
  <2>5. CASE Start(rank) <= IndexSource(l)
    <3>1. IndexSource(l) < layer
      BY <1>1, <2>1, <2>2
    <3>2. \A t \in config.idx : t < layer => t <= IndexSource(l)
      BY <1>1, <2>1, <2>2
    <3> QED
      BY <2>2, <2>4, <2>5, <3>1, <3>2 DEF PassInv, LayersRun
  <2>6. CASE ~(Start(rank) <= IndexSource(l))
    <3>1. IndexSource(l) < Start(rank)
      BY <1>1, <1>2, <2>2, <2>6
    <3>2. IndexSource(l) \in ShadowTopk(rank)
      BY <2>1, <3>1 DEF ShadowTopk, Compressed
    <3>3. \A s \in config.idx : Start(rank) <= s => layer <= s
      BY <1>1, <1>2, <2>1, <2>2, <3>1
    <3> QED
      BY <2>4, <3>2, <3>3 DEF PassInv, LayersRun
  <2> QED
    BY <2>5, <2>6
<1>6. ASSUME pc = "layers", layer < Finish(rank), layer \in config.idx
      PROVE  /\ layer \in config.kv \/ KvSource(layer) \in kvCache
             /\ HasCand /\ layer > config.cand => cand
  <2>1. Start(rank) <= layer /\ (HasCand /\ config.cand < layer => cand)
    BY <1>6 DEF PassInv, LayersRun
  <2>2. layer \in config.comp
    BY <1>1, <1>6, ConfigSets
  <2>3. KvSource(layer) \in config.kv /\ KvSource(layer) <= layer
    BY <1>1, <2>2, Sources
  <2>4. CASE KvSource(layer) = layer
    BY <2>1, <2>3, <2>4
  <2>5. CASE KvSource(layer) # layer
    <3>1. KvSource(layer) < layer
      BY <1>1, <2>3, <2>5
    <3>2. KvSource(layer) \in kvCache
      BY <1>4, <1>6, <2>1, <2>2, <3>1
    <3> QED
      BY <2>1, <3>2
  <2> QED
    BY <2>4, <2>5
<1>7. ASSUME pc = "shadows", shadows # {}, NextShadow \in ShadowTopk(rank)
      PROVE  /\ NextShadow \in config.kv \/ KvSource(NextShadow) \in kvCache
             /\ HasCand /\ NextShadow > config.cand => cand
  <2> DEFINE s == NextShadow
  <2>1. s \in shadows /\ \A t \in shadows : s <= t
    BY <1>7, MinOfSet DEF NextShadow, PassInv, PassTypeOK, Layer
  <2>2. /\ s \in config.idx /\ s < Start(rank)
        /\ s \notin config.kv =>
             KvSource(s) \in ShadowIds(rank) /\ KvSource(s) \in config.kv /\ KvSource(s) < s
    BY <1>1, <1>7, TopkBelow
  <2>3. s \notin config.kv => KvSource(s) \in kvCache
    <3> HAVE s \notin config.kv
    <3>1. KvSource(s) \notin shadows
      BY <1>1, <2>1, <2>2
    <3>2. KvSource(s) \in ShadowIds(rank) \ shadows
      BY <2>2, <3>1
    <3> QED
      BY <1>7, <2>2, <3>2 DEF PassInv, ShadowsRun
  <2>4. ASSUME HasCand, s > config.cand PROVE cand
    <3>1. config.cand \in Nat
      BY <1>1, <2>4, ConfigSets
    <3>2. RecvCand(rank)
      BY <1>1, <1>2, <2>2, <2>4, <3>1 DEF RecvCand
    <3> QED
      BY <1>7, <3>2 DEF PassInv, ShadowsRun
  <2> QED
    BY <2>3, <2>4
<1>8. IndexerFed
  BY <1>6, <1>7 DEF IndexerFed
<1> QED
  BY <1>3, <1>5, <1>8 DEF LayersFed

\* For any number of layers and ranks, wherever the ranks are cut: a rank finds every
\* attention input it expects among those the rank before it sent, every indexer runs on
\* the keys and the candidate blocks of this pass, and every compressed layer reads the
\* caches and the top-k of its own sources.
THEOREM EveryLayerIsFed == Spec => []LayersFed
<1>1. Spec => []PassInv
  BY PassInit, PassStep, PTL DEF Spec
<1>2. QED
  BY <1>1, InvFeeds, PTL
=============================================================================
