---------------------------- MODULE MCAttnStep ----------------------------
(***************************************************************************)
(* Small instances of AttnStep: two drafts per step with flattened rows    *)
(* and sizes that make a batch of two-token requests run in the graph of   *)
(* three-token ones, one draft with the native layout, no drafts; and      *)
(* configurations of which only the graphs are looked at, the launcher's   *)
(* among them.                                                             *)
(***************************************************************************)
EXTENDS AttnStep

MCPrompt == <<3, 2, 1>>

TwoDrafts ==
    [k |-> 2, seqs |-> 2, sizes |-> {2, 3, 6}, mode |-> "FULL_DECODE_ONLY", q1 |-> TRUE, eagerPrefill |-> TRUE,
     loras |-> 0, loraCases |-> FALSE, loraCounts |-> FALSE, parallel |-> FALSE, causal |-> FALSE, splits |-> 2, reqs |-> {1, 2}]

OneDraft ==
    [TwoDrafts EXCEPT !.k = 1, !.sizes = {2, 4}, !.mode = "FULL_AND_PIECEWISE", !.parallel = TRUE, !.causal = TRUE, !.splits = 1, !.reqs = {1, 2}]

NoDrafts == [TwoDrafts EXCEPT !.k = 0, !.sizes = {2}, !.splits = 3, !.reqs = {1, 2, 3}]

Launcher ==
    [TwoDrafts EXCEPT !.k = 5, !.seqs = 4, !.sizes = {1, 2, 3, 4, 5, 6, 8, 10, 12, 18, 24}, !.reqs = {}]

GraphConfs ==
    {[Launcher EXCEPT !.k = k, !.seqs = n, !.mode = m, !.sizes = s, !.q1 = q1] :
        k \in {0, 2, 3}, n \in 2..3, m \in {"FULL", "PIECEWISE", "FULL_AND_PIECEWISE"},
        s \in {{1, 2, 4, 8}, {3, 5, 12}}, q1 \in BOOLEAN}
    \cup {[Launcher EXCEPT !.k = 2, !.loras = 3, !.loraCases = a, !.loraCounts = b] : a \in BOOLEAN, b \in BOOLEAN}

MCConfs == {TwoDrafts, OneDraft, NoDrafts, Launcher} \cup GraphConfs
=============================================================================
