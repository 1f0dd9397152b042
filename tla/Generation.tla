----------------------------- MODULE Generation -----------------------------
(***************************************************************************)
(* What the serving engine promises its clients, without batches, ranks,   *)
(* drafts, preemption or KV blocks: the text of a request only grows, it   *)
(* ends exactly at the first stop token or at its length limit, nothing    *)
(* follows its end, and a request that is not cancelled does end.          *)
(***************************************************************************)
EXTENDS Naturals, Sequences

CONSTANTS
    Req,         \* request ids
    Token,       \* token values
    StopTokens,  \* tokens that end a request
    Limit        \* [Req -> the most tokens a request may produce]

VARIABLES
    state,       \* [Req -> "new" | "open" | "closed"]
    text         \* [Req -> Seq(Token)]: what the client received

gvars == <<state, text>>

Init ==
    /\ state = [r \in Req |-> "new"]
    /\ text  = [r \in Req |-> <<>>]

\* The text of r is complete.
Ended(r, t) == t # <<>> /\ (t[Len(t)] \in StopTokens \/ Len(t) >= Limit[r])

Stay(r)   == state'[r] = state[r] /\ text'[r] = text[r]
Submit(r) == state[r] = "new" /\ state'[r] = "open" /\ text'[r] = text[r]
Cancel(r) == state[r] = "open" /\ state'[r] = "closed" /\ text'[r] = text[r]

\* One or more tokens arrive; only the last of them may end the text.
Emit(r) ==
    /\ state[r] = "open"
    /\ Len(text'[r]) > Len(text[r])
    /\ SubSeq(text'[r], 1, Len(text[r])) = text[r]
    /\ \A n \in (Len(text[r]) + 1)..Len(text'[r]) :
          /\ text'[r][n] \in Token
          /\ Ended(r, SubSeq(text'[r], 1, n)) => n = Len(text'[r])
    /\ state'[r] = IF Ended(r, text'[r]) THEN "closed" ELSE "open"

\* One engine output carries tokens of several requests.
Next ==
    \A r \in Req : Stay(r) \/ Submit(r) \/ Cancel(r) \/ Emit(r)

Spec == Init /\ [][Next]_gvars

\* Every submitted request is closed in the end.
Finishes == \A r \in Req : state[r] = "open" ~> state[r] = "closed"
=============================================================================
