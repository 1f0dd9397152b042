----------------------------- MODULE MCPipeline -----------------------------
(***************************************************************************)
(* What crosses the ranks of a pipeline: attention inputs of the layers    *)
(* that are cut off from their sources (ShadowPlan), sampled tokens        *)
(* (TokenRing), and the n-gram lookups of the rank that holds the engram   *)
(* layers (Engram).  A behaviour is of one of them.                        *)
(***************************************************************************)
EXTENDS ShadowPlan, TokenRing, Engram

Prompts == [r \in Client |-> IF r = 1 THEN 2 ELSE 1]

\* Tokens 2 and 3 have one normal form, 5 is part of a character, 6 an image, 7 an accent.
Forms ==
    LET form(raw, text, norm, partial) == [raw |-> raw, text |-> text, norm |-> norm, partial |-> partial]
    IN <<form("pad", "pad", "pad", FALSE), form("the", "the", "the", FALSE), form("THE", "THE", "the", FALSE),
         form("cat", "cat", "cat", FALSE), form("x", "?", "?", TRUE), form("img", "img", "img", FALSE),
         form("acc", "acc", "", FALSE)>>

\* Two texts whose first three tokens hash alike; the first has an image in its prompt.
EngTexts == [r \in 1..2 |-> IF r = 1 THEN <<2, 4, 3, 6, 4, 7, 2>> ELSE <<2, 4, 3, 5, 4, 2, 7>>]
EngPrompts == [r \in 1..2 |-> IF r = 1 THEN 5 ELSE 3]

Deployment ==
    [v2 |-> FALSE, drafts |-> 0, async |-> FALSE, prefix |-> TRUE, load |-> FALSE, dbo |-> FALSE,
     tp |-> 1, dp |-> 1, sp |-> FALSE, layer |-> 1, heads |-> 1, vocab |-> 6,
     clients |-> 2, budget |-> 3, graphs |-> FALSE]

\* Three columns over two shards, and fifteen over four, leave the last one padded.
Deployments ==
    {[Deployment EXCEPT !.drafts = 1, !.async = TRUE],
     [Deployment EXCEPT !.load = TRUE, !.prefix = FALSE, !.tp = 2, !.sp = TRUE, !.budget = 2],
     [Deployment EXCEPT !.v2 = TRUE, !.drafts = 1, !.load = TRUE, !.tp = 2, !.dp = 2, !.layer = 2, !.heads = 5,
                        !.clients = 1, !.graphs = TRUE],
     [Deployment EXCEPT !.dbo = TRUE, !.dp = 2, !.layer = 2, !.budget = 2, !.graphs = TRUE],
     [Deployment EXCEPT !.vocab = 7]}

PassOff ==
    /\ config = <<>> /\ rank = 0 /\ layer = 0 /\ pc = "off" /\ wire = {} /\ candWire = FALSE
    /\ shadows = {} /\ kvCache = {} /\ topk = None /\ cand = FALSE

EngOff ==
    /\ conf = <<>> /\ kv = 0 /\ store = <<>> /\ request = <<>> /\ keys = <<>> /\ loaded = {}
    /\ shown = [at |-> "off"]

\* The machines that do not run keep their initial states.
MCInit == RingInit /\ ((Init /\ EngOff) \/ (PassOff /\ EngOff) \/ (PassOff /\ EngInit))

MCNext ==
    \/ pc # "off" /\ Next /\ UNCHANGED <<ringVars, engVars>>
    \/ pc = "off" /\ shown.at = "off" /\ RingNext /\ UNCHANGED <<vars, engVars>>
    \/ shown.at # "off" /\ EngNext /\ UNCHANGED <<vars, ringVars>>

MCSpec == MCInit /\ [][MCNext]_<<vars, ringVars, engVars>>
=============================================================================
