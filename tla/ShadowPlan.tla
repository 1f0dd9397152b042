----------------------------- MODULE ShadowPlan -----------------------------
(***************************************************************************)
(* Pipeline cuts inside the model's sharing groups                         *)
(* (overlay/hybrid/pp_shadow.py and the forward pass that uses it,         *)
(* models/deepseek_v4_1/nvidia/model.py).                                  *)
(*                                                                         *)
(* A compressed layer reads the KV cache of the nearest kv source below it *)
(* and the top-k written by the nearest index source below it, both on its *)
(* own rank.  If such a source lies on an earlier rank, the rank runs a    *)
(* shadow of it on the source's attention input, which travels with the    *)
(* activations from rank to rank.  So do the candidate blocks.             *)
(*                                                                         *)
(* A behaviour is one forward pass over the ranks.  Buffers of a rank that *)
(* were not written in this pass count as empty: what they hold is stale.  *)
(***************************************************************************)
EXTENDS Integers, FiniteSets

CONSTANTS NumLayers,    \* num_hidden_layers
          Ranks         \* pipeline_parallel_size

ASSUME SizeAssumption ==
    /\ NumLayers \in Nat /\ Ranks \in Nat
    /\ 1 < Ranks /\ Ranks <= NumLayers

Layer == 0..(NumLayers - 1)
Rank  == 0..(Ranks - 1)
None  == -1

VARIABLES
    config,   \* the model: compressed layers, kv sources, index sources and the
              \* candidate source, and cut: the first layer of every rank
    rank,     \* the rank running its part of the pass
    layer,    \* its next layer
    pc,       \* "begin", "shadows", "layers" or "done"
    wire,     \* IntermediateTensors: sources whose attention input was sent
    candWire, \* and whether the candidate blocks were
    shadows,  \* shadows still to run
    kvCache,  \* sources whose caches were filled on this rank in this pass
    topk,     \* the index source whose top-k the rank's buffer holds
    cand      \* whether its candidate_block_buffer is filled

vars == <<config, rank, layer, pc, wire, candWire, shadows, kvCache, topk, cand>>
-----------------------------------------------------------------------------
SetMax(S) == CHOOSE x \in S : \A y \in S : y <= x
SetMin(S) == CHOOSE x \in S : \A y \in S : x <= y

\* The layouts the attention modules accept: kv sources own the keys of an
\* indexer, so they are index sources; index sources are compressed, and every
\* compressed layer has a kv source at or below it.
Loads(c) ==
    /\ c.kv \subseteq c.idx /\ c.idx \subseteq c.comp
    /\ \A l \in c.comp : \E s \in c.kv : s <= l
    /\ c.cand \in c.idx \cup {None}
    /\ c.cut[0] = 0
    /\ \A r \in Rank \ {0} : c.cut[r - 1] < c.cut[r]

Configs == [comp : SUBSET Layer, kv : SUBSET Layer, idx : SUBSET Layer,
            cand : Layer \cup {None}, cut : [Rank -> Layer]]

\* get_pp_indices: the layers of rank r are those from start to end - 1.
Start(r) == config.cut[r]
Finish(r) == IF r = Ranks - 1 THEN NumLayers ELSE config.cut[r + 1]

KvSource(l)    == SetMax({s \in config.kv : s <= l})
IndexSource(l) == SetMax({s \in config.idx : s <= l})
Compressed(r)  == {l \in config.comp : Start(r) <= l /\ l < Finish(r)}

\* Fault: the first entry of a source, made for its caches, is kept.
ShadowTopkKept(r) ==
    {IndexSource(l) : l \in {m \in Compressed(r) : IndexSource(m) < Start(r)}}
    \ {KvSource(l) : l \in Compressed(r)}

\* shadow_needs_for: the sources on earlier ranks that layers of rank r use, and
\* those of them whose top-k is needed too.
ShadowTopk(r) == {IndexSource(l) : l \in {m \in Compressed(r) : IndexSource(m) < Start(r)}}

ShadowIds(r) ==
    {KvSource(l) : l \in {m \in Compressed(r) : KvSource(m) < Start(r)}}
    \cup ShadowTopk(r)

\* PPShadowPlan: what rank r sends on, own or received, and what it expects.
ShipIds(r) == {s \in UNION {ShadowIds(q) : q \in (r+1)..(Ranks-1)} : s < Finish(r)}
OwnedShipIds(r) == {s \in ShipIds(r) : Start(r) <= s}
RecvIds(r) == ShadowIds(r) \cup {s \in ShipIds(r) : s < Start(r)}

HasCand == config.cand # None

ShipCand(r) ==
    /\ HasCand /\ config.cand < Finish(r)
    /\ \E q \in (r+1)..(Ranks-1) : Finish(q) > config.cand + 1
RecvCand(r) == HasCand /\ Start(r) > config.cand
-----------------------------------------------------------------------------
Init ==
    /\ config \in {c \in Configs : Loads(c)}
    /\ rank = 0 /\ layer = 0 /\ pc = "begin"
    /\ wire = {} /\ candWire = FALSE /\ shadows = {}
    /\ kvCache = {} /\ topk = None /\ cand = FALSE

\* A rank takes the tensors; the candidates are copied before the shadows run.
Begin ==
    /\ pc = "begin"
    /\ pc' = "shadows"
    /\ layer' = Start(rank)
    /\ shadows' = IF rank > 0 THEN ShadowIds(rank) ELSE {}
    /\ cand' = (rank > 0 /\ RecvCand(rank) /\ candWire)
    /\ kvCache' = {} /\ topk' = None
    /\ UNCHANGED <<config, rank, wire, candWire>>

\* shadow_ids is sorted.
NextShadow == SetMin(shadows)

\* An indexer runs: it reads the keys of its kv source and, behind the candidate
\* source, the candidate blocks.
RunIndexer(s) ==
    /\ topk' = s
    /\ cand' = (cand \/ s = config.cand)

\* ShadowSource.run: fill the caches of a kv source; with need_topk the indexer.
RunShadow ==
    /\ pc = "shadows" /\ shadows # {}
    /\ LET s == NextShadow IN
       /\ shadows' = shadows \ {s}
       /\ kvCache' = IF s \in config.kv /\ s \in wire THEN kvCache \cup {s} ELSE kvCache
       /\ IF s \in ShadowTopk(rank) THEN RunIndexer(s) ELSE UNCHANGED <<topk, cand>>
    /\ UNCHANGED <<config, rank, layer, pc, wire, candWire>>

EndShadows ==
    /\ pc = "shadows" /\ shadows = {}
    /\ pc' = "layers"
    /\ UNCHANGED <<config, rank, layer, wire, candWire, shadows, kvCache, topk, cand>>

\* A decoder layer: a source fills its caches, an index source writes the top-k,
\* and the attention of a compressed layer reads both.
RunLayer ==
    /\ pc = "layers" /\ layer < Finish(rank)
    /\ kvCache' = IF layer \in config.kv THEN kvCache \cup {layer} ELSE kvCache
    /\ IF layer \in config.idx THEN RunIndexer(layer) ELSE UNCHANGED <<topk, cand>>
    /\ layer' = layer + 1
    /\ UNCHANGED <<config, rank, pc, wire, candWire, shadows>>

\* The end of forward(): what the next rank gets, from own layers or passed on.
Ship ==
    /\ pc = "layers" /\ layer = Finish(rank)
    /\ IF rank < Ranks - 1
       THEN /\ rank' = rank + 1
            /\ pc' = "begin"
            /\ wire' = OwnedShipIds(rank) \cup (ShipIds(rank) \cap wire)
            /\ candWire' = (ShipCand(rank) /\ cand)
       ELSE pc' = "done" /\ UNCHANGED <<rank, wire, candWire>>
    /\ UNCHANGED <<config, layer, shadows, kvCache, topk, cand>>

\* The pass is over.
Done == pc = "done" /\ UNCHANGED vars

Next == Begin \/ RunShadow \/ EndShadows \/ RunLayer \/ Ship \/ Done

Spec == Init /\ [][Next]_vars
-----------------------------------------------------------------------------
(***************************************************************************)
(* Properties                                                              *)
(***************************************************************************)
\* A rank finds every tensor it reads among those the rank before it sent: the
\* inputs of its shadows, the ones it has to pass on, and the candidates.
\* (forward() indexes the dictionary without a default.)
ReadsArrive ==
    pc = "begin" /\ rank > 0 =>
        /\ RecvIds(rank) = wire
        /\ RecvCand(rank) => candWire

\* The attention of a compressed layer, wherever the cut is, has read the caches
\* of its own kv source and the top-k of its own index source, both of this
\* pass, and not those a shadow or an earlier layer left there.
AttentionFed ==
    pc = "layers" /\ layer > Start(rank) /\ (layer - 1) \in config.comp =>
        /\ KvSource(layer - 1) \in kvCache
        /\ topk = IndexSource(layer - 1)

\* An indexer runs on filled inputs: the keys of its kv source are on the rank
\* and, behind the candidate source, so are this pass's candidate blocks.
IndexerFed ==
    LET Fed(s) == /\ s \in config.kv \/ KvSource(s) \in kvCache
                  /\ HasCand /\ s > config.cand => cand
    IN
    /\ pc = "layers" /\ layer < Finish(rank) /\ layer \in config.idx => Fed(layer)
    /\ pc = "shadows" /\ shadows # {} /\ NextShadow \in ShadowTopk(rank) =>
          Fed(NextShadow)

\* Every shadow finds its source's input on its rank, and every layer of the pass reads
\* what this pass computed for it.
LayersFed == ReadsArrive /\ AttentionFed /\ IndexerFed
=============================================================================
