------------------------------ MODULE KVLayout ------------------------------
(***************************************************************************)
(* How the layers of a model share the memory of a worker's KV cache       *)
(* (v1/core/kv_cache_utils.py): cache specs are unified, layers are put in *)
(* groups, and a group's layers get byte regions of one shared pool.       *)
(*                                                                         *)
(* A model is a sequence of cache specs, one per layer; a layer is its     *)
(* index.  A spec is a record: kind (the spec class), bs (block size), tok *)
(* (bytes per token; bytes per state for "mamba"), pad (padded page, 0 if  *)
(* none), win (window), tps (tokens per state), extra (tokens a window      *)
(* retains beyond its size).  All groups draw block ids from one pool: a   *)
(* block belongs to one group at a time.                                   *)
(***************************************************************************)
EXTENDS Integers, Sequences, FiniteSets, FiniteSetsExt, SequencesExt

CDiv(a, b) == (a + b - 1) \div b
SumSeq(s) == FoldLeft(LAMBDA a, b : a + b, 0, s)
Indices(s) == 1..Len(s)
Elems(s) == {s[i] : i \in Indices(s)}

\* s[i::n], i counted from 0.
Strided(s, i, n) == [j \in 1..(IF Len(s) > i THEN CDiv(Len(s) - i, n) ELSE 0) |-> s[i + (j - 1) * n + 1]]

\* Every item joins the first bucket it fits into, or starts one.
Greedy(items, Fits(_, _)) ==
    FoldLeft(LAMBDA bs, it :
                 LET k == {i \in Indices(bs) : Fits(bs[i], it)}
                 IN IF k = {} THEN Append(bs, it) ELSE [bs EXCEPT ![Min(k)] = @ \o it],
             <<>>, items)

Singletons(s) == [i \in Indices(s) |-> <<s[i]>>]
-----------------------------------------------------------------------------
(***************************************************************************)
(* Spec classes                                                            *)
(***************************************************************************)
IsFull(s)  == s.kind \in {"full", "mla", "hidden"}
IsSwa(s)   == s.kind \in {"swa", "swamla"}
IsMla(s)   == s.kind \in {"mla", "swamla"}
IsAttn(s)  == IsFull(s) \/ IsSwa(s) \/ s.kind = "chunked"
IsState(s) == s.kind \in {"mamba", "circular"}

\* real_page_size_bytes and page_size_bytes: a state does not scale with the block.
RealPage(s) == IF s.kind = "mamba" THEN s.tok ELSE s.tok * s.bs
Page(s) == IF s.pad > RealPage(s) THEN s.pad ELSE RealPage(s)

\* KVCacheSpec.merge: windows may differ under full attention only.
Mergeable(specs) ==
    \A a, b \in specs :
        IF IsFull(a) THEN [a EXCEPT !.win = 0] = [b EXCEPT !.win = 0] ELSE a = b

\* UniformTypeKVCacheSpecs.is_uniform_type: one block table serves all.
UniformType(specs) ==
    \A a, b \in specs :
        /\ a.bs = b.bs
        /\ IF IsFull(a) THEN IsFull(b) ELSE a.kind = b.kind /\ a.win = b.win

\* Blocks of one group that a request of len tokens needs: spec.max_memory_usage_bytes.
BlocksFor(s, len, batched) ==
    CASE IsSwa(s) -> CDiv(Min({s.win - 1 + s.extra + batched, len}), s.bs) + 1
      [] s.kind \in {"mamba", "circular", "tail"} -> 1
      [] OTHER -> CDiv(len, s.bs)
-----------------------------------------------------------------------------
(***************************************************************************)
(* Groups: a sequence of records.  uniform: the group keeps the spec of    *)
(* every layer (UniformTypeKVCacheSpecs); otherwise `spec` holds for all.  *)
(***************************************************************************)
Group(layers, specs, uniform) ==
    [layers |-> layers, specs |-> specs, spec |-> specs[layers[1]], uniform |-> uniform,
     eagle |-> FALSE]

\* _get_per_layer_spec.
LayerSpec(g, l) == IF g.uniform THEN g.specs[l] ELSE g.spec

SpecsOf(g) == IF g.uniform THEN {g.specs[l] : l \in Elems(g.layers)} ELSE {g.spec}

GroupBytes(g) == SumSeq([i \in Indices(g.layers) |-> Page(LayerSpec(g, g.layers[i]))])

\* Layers of m as sequence, by registration.
Layers(m) == [i \in Indices(m) |-> i]

\* Whether all layers have the same spec.
SpecUniform(m) == Mergeable(Elems(m))

\* _promote_local_kv_cache_specs: caches of local attention are allocated like
\* full attention.
PromotedSpec(m, s) ==
    LET sizes == {m[l].bs : l \in {l \in Indices(m) : IsFull(m[l])}}
        bs == IF Cardinality(sizes) = 1 THEN CHOOSE b \in sizes : TRUE ELSE s.bs
    IN IF ~IsSwa(s) /\ s.kind # "chunked" THEN s
       ELSE [s EXCEPT !.kind = IF s.kind = "swamla" THEN "mla" ELSE "full", !.bs = bs, !.extra = 0,
                      !.pad = IF s.pad = 0 THEN 0 ELSE Max({s.pad, s.tok * bs})]

Promoted(m) ==
    IF SpecUniform(m) \/ UniformType(Elems(m)) THEN m
    ELSE IF (\E l \in Indices(m) : IsFull(m[l]))
             /\ \E l \in Indices(m) : IsSwa(m[l]) \/ m[l].kind = "chunked"
    THEN [l \in Indices(m) |-> PromotedSpec(m, m[l])]
    ELSE m

Promotes(m) == LET p == Promoted(m) IN SpecUniform(p) \/ UniformType(Elems(p))
-----------------------------------------------------------------------------
(***************************************************************************)
(* Uniform pages: unify_kv_cache_spec_page_size                            *)
(***************************************************************************)
UnifiedSpec(s, page) ==
    CASE Page(s) = page -> s
      [] s.kind = "mamba" -> [s EXCEPT !.pad = page]
      [] s.kind # "mamba" /\ Page(s) # page /\ page % Page(s) = 0 ->
            [s EXCEPT !.bs = s.bs * (page \div Page(s))]
      [] OTHER -> [s EXCEPT !.pad = page]

\* Padding is for non-MLA attention only, and the result has to have the page.
Unifies(s, page) ==
    /\ \/ Page(s) = page \/ s.kind = "mamba" \/ page % Page(s) = 0
       \/ IsAttn(s) /\ ~IsMla(s)
    /\ Page(UnifiedSpec(s, page)) = page

\* The number of layers in a group: of the smallest type, or of the largest if
\* that costs little padding.
GroupSize(buckets) ==
    LET sizes == {Len(buckets[i]) : i \in Indices(buckets)}
    IN IF 2 * Max(sizes) < 3 * Min(sizes) THEN Max(sizes) ELSE Min(sizes)

\* _get_kv_cache_groups_uniform_page_size, over the layers in `names`.
UniformPageGroups(m, names) ==
    LET types == Greedy(Singletons(names), LAMBDA a, b : m[a[1]] = m[b[1]])
        buckets == Greedy(types, LAMBDA a, b : Mergeable({m[l] : l \in Elems(a) \cup Elems(b)}))
        size == GroupSize(buckets)
        split(b) == LET n == CDiv(Len(b), size)
                    IN [i \in 1..n |-> Group(Strided(b, i - 1, n), m, FALSE)]
    IN FoldLeft(LAMBDA gs, b : gs \o split(b), <<>>, buckets)
-----------------------------------------------------------------------------
(***************************************************************************)
(* Packed groups of mixed page sizes: _get_packed_kv_cache_groups          *)
(***************************************************************************)
PadTo(d, values) == SumSeq([i \in Indices(values) |-> (d - (values[i] % d)) % d])

\* _approximate_gcd: least padding, the larger on ties.
ApproximateGcd(values, lower) ==
    LET lo == Max({1, lower})
        hi == Max(Elems(values))
        best == {d \in lo..hi : \A e \in lo..hi : PadTo(d, values) <= PadTo(e, values)}
    IN IF lo > hi THEN lo ELSE Max(best)

\* A bucket: its layers, and by page size in the order the sizes appear.
Bucket(m, b) ==
    [layers |-> b, perPage |-> Greedy(Singletons(b), LAMBDA x, y : Page(m[x[1]]) = Page(m[y[1]]))]

Counts(b) == {Len(b.perPage[i]) : i \in Indices(b.perPage)}
Balanced(b) == Cardinality(Counts(b)) = 1

\* Layers (pattern repeats) per group, 0 if nothing has to be packed.
RepeatsPerGroup(balanced) ==
    LET mixed == {Max(Counts(b)) : b \in {b \in Elems(balanced) : Len(b.perPage) > 1}}
    IN IF mixed = {} THEN 0
       ELSE ApproximateGcd([i \in Indices(balanced) |-> Max(Counts(balanced[i]))], Max(mixed))

NumGroupsFor(b, repeats) ==
    IF Balanced(b) /\ repeats # 0 THEN CDiv(Max(Counts(b)), repeats) ELSE 1

\* Buckets that can go down to one state per group.
IsStateBucket(s, repeats) == IsState(s) \/ (repeats = 0 /\ IsSwa(s))

WidestGroupBytes(m, b, n) ==
    SumSeq([i \in Indices(b.perPage) |-> CDiv(Len(b.perPage[i]), n) * Page(m[b.perPage[i][1]])])

\* What a block has to hold however the state buckets are split.
AnchorBytes(m, buckets, repeats) ==
    Max({WidestGroupBytes(m, b, IF IsStateBucket(m[b.layers[1]], repeats) THEN Len(b.layers)
                                ELSE NumGroupsFor(b, repeats)) : b \in Elems(buckets)})

\* The state buckets are split to the states that fit into a block.
NumGroups(m, b, repeats, anchor) ==
    IF IsStateBucket(m[b.layers[1]], repeats)
    THEN Max({NumGroupsFor(b, repeats), CDiv(Len(b.layers), Max({anchor \div Page(m[b.layers[1]]), 1}))})
    ELSE NumGroupsFor(b, repeats)

\* Layers of one bucket, split by pattern repeats: a zip over the page sizes, so a
\* bucket with unequal numbers of layers per page size loses layers.  A group that
\* is left without a layer is an assertion: no groups.
SplitBucket(m, b, n) ==
    LET repeats == [k \in 1..Min(Counts(b)) |-> [i \in Indices(b.perPage) |-> b.perPage[i][k]]]
    IN IF n = 1 THEN <<Group(b.layers, m, TRUE)>>
       ELSE IF n > Min(Counts(b)) THEN <<>>
       ELSE [i \in 1..n |-> Group(FlattenSeq(Strided(repeats, i - 1, n)), m, TRUE)]

Joined(parts) == IF <<>> \in Elems(parts) THEN <<>> ELSE FlattenSeq(parts)

SplitAt(m, buckets, repeats, anchor) ==
    Joined([i \in Indices(buckets) |-> SplitBucket(m, buckets[i], NumGroups(m, buckets[i], repeats, anchor))])

SplitBy(m, buckets, repeats) == SplitAt(m, buckets, repeats, AnchorBytes(m, buckets, repeats))

SplitAll(m, buckets) == SplitBy(m, buckets, RepeatsPerGroup(SelectSeq(buckets, Balanced)))

PackedBuckets(m, names) ==
    Greedy(Singletons(names), LAMBDA a, b : UniformType({m[l] : l \in Elems(a) \cup Elems(b)}))

PackedGroups(m, names) ==
    LET buckets == PackedBuckets(m, names)
    IN SplitAll(m, [i \in Indices(buckets) |-> Bucket(m, buckets[i])])
-----------------------------------------------------------------------------
(***************************************************************************)
(* Mamba layers sharing slots with MLA layers, and tails with indexers:    *)
(* the GLM-5 grouping.                                                     *)
(***************************************************************************)
Where(m, names, P(_)) == SelectSeq(names, LAMBDA l : P(m[l]))
IsMamba(s)   == s.kind = "mamba"
IsTail(s)    == s.kind = "tail"
IsMlaOnly(s) == s.kind = "mla"

\* _pp_balanced_mamba_group_count; 0: some stage has mamba layers and no MLA layer.
MambaGroupCount(stages, mamba, mla) ==
    LET num(st, s) == Cardinality(Elems(s) \cap st)
        stuck == \E st \in stages : num(st, mamba) > 0 /\ num(st, mla) = 0
    IN IF Cardinality(stages) > 1 /\ stuck THEN 0
       ELSE Max({CDiv(Len(mamba), Len(mla))} \cup
                {CDiv(num(st, mamba), num(st, mla)) : st \in {st \in stages : num(st, mla) > 0}})

\* Whether _get_kv_cache_groups_glm5_next takes the model.
IsGlm5(m) ==
    LET rest == {m[l] : l \in {l \in Indices(m) : ~IsMamba(m[l]) /\ ~IsTail(m[l])}}
    IN /\ \E l \in Indices(m) : IsMamba(m[l])
       /\ \A s \in rest : IsMlaOnly(s)
       /\ \E s \in rest : s.tps > 1

\* The assertions and errors of _get_kv_cache_groups_glm5_next.
Glm5Ok(m, stages) ==
    LET mla == {m[l] : l \in {l \in Indices(m) : IsMlaOnly(m[l]) /\ m[l].tps = 1}}
        idx == {m[l] : l \in {l \in Indices(m) : IsMlaOnly(m[l]) /\ m[l].tps > 1}}
        states == {m[l] : l \in {l \in Indices(m) : IsMamba(m[l])}}
    IN /\ \A s \in mla \cup idx : s.pad = 0
       /\ Cardinality({Page(s) : s \in idx}) = 1
       /\ Cardinality({Page(s) : s \in mla}) = 1
       /\ UniformType(mla \cup idx)
       /\ Cardinality(states) = 1
       /\ \A s \in states, a \in mla : RealPage(s) <= Page(a)
       /\ MambaGroupCount(stages, Where(m, Layers(m), IsMamba),
                          SelectSeq(Layers(m), LAMBDA l : IsMlaOnly(m[l]) /\ m[l].tps = 1)) > 0

\* The groups: attention and indexers, tails padded to the indexer's page, states
\* padded to the MLA page.
Glm5Groups(m, stages) ==
    LET attn == Where(m, Layers(m), IsMlaOnly)
        mla  == SelectSeq(attn, LAMBDA l : m[l].tps = 1)
        idx  == SelectSeq(attn, LAMBDA l : m[l].tps > 1)
        mamba == Where(m, Layers(m), IsMamba)
        tail  == Where(m, Layers(m), IsTail)
        n == MambaGroupCount(stages, mamba, mla)
        padded == [l \in Indices(m) |->
                     IF IsMamba(m[l]) THEN [m[l] EXCEPT !.pad = Page(m[mla[1]])]
                     ELSE IF IsTail(m[l]) THEN [m[l] EXCEPT !.pad = Page(m[idx[1]])]
                     ELSE m[l]]
    IN <<Group(attn, padded, TRUE)>>
       \o (IF tail = <<>> THEN <<>> ELSE <<Group(tail, padded, TRUE)>>)
       \o [i \in 1..Min({n, Len(mamba)}) |-> Group(Strided(mamba, i - 1, n), padded, FALSE)]

\* _glm5_next_tensor_layout: whether the (projected) groups have that shape.
Glm5Attn(g)  == g.uniform /\ \A s \in SpecsOf(g) : IsMlaOnly(s)
Glm5Tail(g)  == g.uniform /\ \A s \in SpecsOf(g) : IsTail(s)
Glm5Mla(g)   == SelectSeq(g.layers, LAMBDA l : g.specs[l].tps = 1)
Glm5Idx(g)   == SelectSeq(g.layers, LAMBDA l : g.specs[l].tps > 1)

Glm5Layout(groups) ==
    \E i \in Indices(groups) :
        LET a == groups[i]
            pages(names) == {Page(a.specs[l]) : l \in Elems(names)}
        IN /\ Glm5Attn(a) /\ Elems(a.layers) # {}
           /\ \E j \in Indices(groups) : ~groups[j].uniform /\ IsMamba(groups[j].spec)
           /\ \A j \in Indices(groups) : groups[j].uniform \/ IsMamba(groups[j].spec)
           /\ \A s \in SpecsOf(a) : s.pad = 0
           /\ Cardinality(pages(Glm5Mla(a))) = 1
           /\ Cardinality(pages(Glm5Idx(a))) = 1
           /\ \A j \in Indices(groups) :
                 ~groups[j].uniform => {Page(groups[j].spec)} = pages(Glm5Mla(a))
           /\ \A j \in Indices(groups) : Glm5Tail(groups[j]) =>
                 /\ Len(groups[j].layers) = Len(Glm5Idx(a))
                 /\ \A s \in SpecsOf(groups[j]), p \in pages(Glm5Idx(a)) : RealPage(s) <= p

\* The slot of a layer: MLA layers first, then indexers; states and tails share.
Glm5Slot(groups, l) ==
    LET a == groups[CHOOSE i \in Indices(groups) : Glm5Attn(groups[i])]
        g == groups[CHOOSE i \in Indices(groups) : l \in Elems(groups[i].layers)]
        at(s) == (CHOOSE i \in Indices(s) : s[i] = l) - 1
        mp == Page(a.specs[Glm5Mla(a)[1]])
        ip == Page(a.specs[Glm5Idx(a)[1]])
        base == Len(Glm5Mla(a)) * mp
    IN CASE Glm5Attn(g) /\ l \in Elems(Glm5Mla(a)) -> at(Glm5Mla(a)) * mp
         [] Glm5Attn(g) /\ l \in Elems(Glm5Idx(a)) -> base + at(Glm5Idx(a)) * ip
         [] Glm5Tail(g) -> base + at(g.layers) * ip
         [] OTHER -> at(g.layers) * mp
-----------------------------------------------------------------------------
(***************************************************************************)
(* get_kv_cache_groups.  cfg: disableHybrid, blockOuter (the layout), eagle *)
(* (0: no drafter, 1: drafter, 2: drafter of a DeepSeek model), stages.    *)
(***************************************************************************)
IsHidden(s) == s.kind = "hidden"

\* Layers of the drafter: marked by their spec, or `last` (0: none), the last layer
\* registered by a DeepSeek model.
Annotated(groups, c, last) ==
    [i \in Indices(groups) |->
        [groups[i] EXCEPT !.eagle = /\ c.eagle > 0
                                    /\ \/ \E s \in SpecsOf(groups[i]) : s.draft
                                       \/ c.eagle = 2 /\ last \in Elems(groups[i].layers)]]

\* _try_get_full_allocation_fallback_groups: whether it applies.
FallsBack(m) ==
    /\ \A s \in Elems(m) : s.kind \notin {"hidden", "swamla", "chunked"}
    /\ \E s \in Elems(m) : s.kind = "mla"
    /\ \E s \in Elems(m) : s.kind = "swa"
    /\ UniformType(Elems(Promoted(m)))

\* unify_hybrid_kv_cache_specs
UnifyHybrid(m, cfg) == IF cfg.disableHybrid THEN Promoted(m) ELSE m

LargestDivisorAtMost(v, limit) ==
    Max({1} \cup {c \in 1..Min({v, limit}) : v % c = 0})

GcdOf(S) == Max({d \in 1..Min(S) : \A x \in S : x % d = 0})

\* A hidden-state layer gets a page of the common size and a block size that
\* divides the other groups'.
HiddenGroup(l, m, groups) ==
    LET page == Page(groups[1].spec)
        bs == GcdOf({groups[i].spec.bs : i \in Indices(groups)})
        s == [m[l] EXCEPT !.bs = LargestDivisorAtMost(bs, Max({page \div m[l].tok, 1})), !.pad = page]
    IN Group(<<l>>, [m EXCEPT ![l] = s], FALSE)

\* Groups in the common page size `page`, and one for each hidden-state layer.
WithHidden(paged, hidden, m) ==
    paged \o [i \in Indices(hidden) |-> HiddenGroup(hidden[i], m, paged)]

PagedGroups(m, plain, hidden, page) ==
    WithHidden(UniformPageGroups([l \in Indices(m) |-> IF IsHidden(m[l]) THEN m[l] ELSE UnifiedSpec(m[l], page)],
                                 plain),
               hidden, m)

\* Packed groups, hidden-state layers in groups of their own.
PackedWithHidden(groups, plain, hidden, m, c) ==
    IF groups = <<>> THEN <<>>
    ELSE Annotated(groups, c, Last(plain)) \o [i \in Indices(hidden) |-> Group(<<hidden[i]>>, m, FALSE)]

\* Layers of different types.
MixedGroups(m, c, plain, hidden, pages) ==
    IF c.blockOuter /\ Cardinality(pages) > 1
    THEN PackedWithHidden(PackedGroups(m, plain), plain, hidden, m, c)
    ELSE IF \A l \in Elems(plain) : Unifies(m[l], Max(pages))
    THEN Annotated(PagedGroups(m, plain, hidden, Max(pages)), c, 0)
    ELSE IF FallsBack(m) THEN <<Group(Layers(m), Promoted(m), TRUE)>> ELSE <<>>

\* An assertion or an error on the way: no groups.
GroupsOf(m, c, plain) ==
    IF SpecUniform(m) THEN <<Group(Layers(m), m, FALSE)>>
    ELSE IF UniformType(Elems(m)) THEN <<Group(Layers(m), m, TRUE)>>
    ELSE IF IsGlm5(m) THEN (IF Glm5Ok(m, c.stages) THEN Glm5Groups(m, c.stages) ELSE <<>>)
    ELSE MixedGroups(m, c, plain, Where(m, Layers(m), IsHidden), {Page(m[l]) : l \in Elems(plain)})

GetGroups(m0, c) ==
    LET m == UnifyHybrid(m0, c)
    IN IF c.disableHybrid /\ ~Promotes(m0) THEN <<>>
       ELSE GroupsOf(m, c, SelectSeq(Layers(m), LAMBDA l : ~IsHidden(m[l])))
=============================================================================
