------------------------------ MODULE MCKVPlan ------------------------------
(***************************************************************************)
(* Models and workers for KVPlan: every way of grouping, with layers that  *)
(* two workers keep (PP shadows) and workers without a layer of a group.   *)
(***************************************************************************)
EXTENDS KVPlan

S(kind, bs, tok, win) ==
    [kind |-> kind, bs |-> bs, tok |-> tok, pad |-> 0, win |-> win, tps |-> 1, extra |-> 0, draft |-> FALSE]

Full(tok) == S("full", 2, tok, 0)
Mla(tok)  == S("mla", 2, tok, 0)
Swa(tok)  == S("swa", 2, tok, 3)
SwaMla(tok) == S("swamla", 2, tok, 3)
Ring(tok) == S("circular", 2, tok, 0)
Idx(tok) == [Mla(tok) EXCEPT !.tps = 2]

Cfg == [disableHybrid |-> FALSE, blockOuter |-> FALSE, eagle |-> 0, stages |-> {}, retain |-> 0,
        override |-> 0, auto |-> TRUE, batched |-> 2]

Sc(model, owns, c) == [model |-> model, owns |-> owns, cfg |-> c, len |-> 9]

Outer == [Cfg EXCEPT !.blockOuter = TRUE]

\* compressed caches and their indexers, window caches, compressor states, drafter
DeepSeek == <<Mla(1), Idx(2), SwaMla(2), Ring(1), Ring(1), Mla(1), Idx(2), SwaMla(2), [SwaMla(1) EXCEPT !.win = 5]>>

MCScenarios == {
    Sc(<<Full(1), Full(1), Full(1)>>, <<{1, 2}, {3}>>, Cfg),
    Sc(<<Full(1), Full(2), Full(1)>>, <<{1, 2}, {2, 3}>>, Cfg),
    Sc(<<Full(2), Full(1), Full(2)>>, <<{1}, {2, 3}>>, [Outer EXCEPT !.auto = FALSE]),
    Sc(<<Full(2), Swa(1), Swa(1), Swa(1), Full(2)>>, <<{1, 2, 3}, {4, 5}>>, [Cfg EXCEPT !.retain = 1]),
    Sc(<<Full(1), Swa(1), Swa(1), Full(1), Swa(1)>>, <<{1, 2}, {3, 4, 5}>>, [Cfg EXCEPT !.override = 6]),
    Sc(<<Full(1), Swa(3), Full(1), S("mamba", 2, 5, 0)>>, <<{1, 2}, {3, 4}>>, Cfg),
    Sc(<<Mla(2), Swa(3), Mla(2)>>, <<{1, 2}, {3}>>, Cfg),
    Sc(<<Mla(2), Swa(3), SwaMla(2)>>, <<{1, 2}, {3}>>, Cfg),
    Sc(<<Full(1), Swa(1), Full(1)>>, <<{1, 2}, {3}>>, [Cfg EXCEPT !.disableHybrid = TRUE]),
    Sc(<<Full(2), Swa(2), S("hidden", 2, 1, 0)>>, <<{1}, {2, 3}>>, Cfg),
    Sc(<<Full(2), Swa(1), S("hidden", 2, 3, 0)>>, <<{1}, {2, 3}>>, Outer),
    Sc(<<Mla(2), Idx(1), S("mamba", 2, 3, 0), S("mamba", 2, 3, 0), S("tail", 2, 1, 0), Mla(2), Idx(1),
         S("mamba", 2, 3, 0), S("tail", 2, 1, 0)>>, <<{1, 2, 3, 4, 5}, {6, 7, 8, 9}>>, Cfg),
    Sc(DeepSeek, <<{1, 2, 3, 4}, {1, 5, 6, 7, 8, 9}>>, [Outer EXCEPT !.eagle = 2]),
    Sc(<<Full(3), Swa(2), Swa(2), Swa(1)>>, <<{1, 2}, {3, 4}>>, Outer) }

MCMemories == {24, 61, 90}
=============================================================================
