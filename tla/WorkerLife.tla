----------------------------- MODULE WorkerLife -----------------------------
(***************************************************************************)
(* What a running worker's memory holds while it is put to sleep and woken *)
(* in parts, and while its weights are replaced in update sessions         *)
(* (v1/worker/gpu_worker.py).  A region's content is "good" or "junk"; a   *)
(* region that is not mapped cannot be read or written.                    *)
(***************************************************************************)
EXTENDS FiniteSets

VARIABLES
    asleep,   \* tags of the regions that are not mapped
    region,   \* weights, buffers, draft (the drafter's buffers) -> content
    saved,    \* _sleep_saved_buffers and _sleep_saved_draft_buffers: region -> content
    lost,     \* history: the weights went with a level-2 sleep and were not loaded since
    session,  \* [active, draft (_weight_update_is_draft), target, chosen (history), touched (history)]
    lora      \* whether LoRA state was made from the weights that are loaded

lifeVars == <<asleep, region, saved, lost, session, lora>>

Tags == {"weights", "kv_cache"}
Buffers == {"buffers", "draft"}

Idle == [active |-> FALSE, draft |-> FALSE, target |-> "model", chosen |-> "model", touched |-> {}]

LifeInit ==
    /\ asleep = {} /\ lost = FALSE /\ saved = <<>>
    /\ region = [r \in Buffers \cup {"weights"} |-> "good"]
    /\ session = Idle /\ lora = TRUE

Mapped == "weights" \notin asleep

\* sleep: level 1 keeps what the weights' pool holds on the host, level 2 drops it.
\* The executor does not put a sleeping worker to sleep.
Sleep(level) ==
    /\ asleep = {}
    /\ saved' = IF level = 2 THEN [r \in Buffers |-> region[r]] ELSE saved
    /\ region' = IF level = 2 THEN [r \in DOMAIN region |-> "junk"] ELSE region
    /\ lost' = (lost \/ level = 2)
    /\ asleep' = Tags
    /\ UNCHANGED <<session, lora>>

Restored == [r \in DOMAIN region |-> IF r \in DOMAIN saved THEN saved[r] ELSE region[r]]

\* Fault: the buffers are restored by whichever wake-up comes first.
WakeUpAny(tags) ==
    /\ tags # {} /\ tags \subseteq asleep
    /\ asleep' = asleep \ tags
    /\ region' = IF "weights" \in tags THEN Restored ELSE region
    /\ saved' = <<>>
    /\ UNCHANGED <<lost, session, lora>>

\* wake_up, of some tags or of all.
WakeUp(tags) ==
    /\ tags # {} /\ tags \subseteq asleep
    /\ asleep' = asleep \ tags
    /\ IF "weights" \in tags
       THEN region' = Restored /\ saved' = <<>>
       ELSE UNCHANGED <<region, saved>>
    /\ UNCHANGED <<lost, session, lora>>

\* reload_weights
Reload ==
    /\ Mapped
    /\ region' = [region EXCEPT !["weights"] = "good"]
    /\ lost' = FALSE /\ lora' = TRUE
    /\ UNCHANGED <<asleep, saved, session>>

\* _start_weight_update: refused while a session is active; when the engine fails, its
\* target is the model again.
StartUpdate(draft, ok) ==
    /\ ~session.active
    /\ session' = IF ok
                  THEN [Idle EXCEPT !.active = TRUE, !.draft = draft,
                                    !.target = IF draft THEN "draft" ELSE "model",
                                    !.chosen = IF draft THEN "draft" ELSE "model"]
                  ELSE [session EXCEPT !.target = "model"]
    /\ UNCHANGED <<asleep, region, saved, lost, lora>>

\* update_weights: a chunk that cannot be loaded ends the session.
UpdateWeights(ok) ==
    /\ session.active
    /\ ok => Mapped
    /\ session' = IF ok THEN [session EXCEPT !.touched = @ \cup {session.target}]
                  ELSE [session EXCEPT !.active = FALSE, !.target = "model"]
    /\ lora' = (lora /\ (ok => session.target # "model"))
    /\ UNCHANGED <<asleep, region, saved, lost>>

\* Fault: the engine keeps its target.
FinishUpdateKeeps(ok) ==
    /\ session.active
    /\ session' = IF ok THEN [session EXCEPT !.active = FALSE] ELSE session
    /\ lora' = (lora \/ (ok /\ ~session.draft))
    /\ UNCHANGED <<asleep, region, saved, lost>>

\* finish_weight_update: when the engine fails, the session stays and may be finished again.
FinishUpdate(ok) ==
    /\ session.active
    /\ session' = IF ok THEN [session EXCEPT !.active = FALSE, !.target = "model"] ELSE session
    /\ lora' = (lora \/ (ok /\ ~session.draft))
    /\ UNCHANGED <<asleep, region, saved, lost>>

LifeNext ==
    \/ \E level \in {1, 2} : Sleep(level)
    \/ \E tags \in SUBSET Tags : WakeUp(tags)
    \/ Reload
    \/ \E draft, ok \in BOOLEAN : StartUpdate(draft, ok)
    \/ \E ok \in BOOLEAN : UpdateWeights(ok) \/ FinishUpdate(ok)

\* The part on its own; Startup composes it with the start of the worker.
LifeSpec == LifeInit /\ [][LifeNext]_lifeVars
-----------------------------------------------------------------------------
\* Buffers that are no checkpoint's (rotary tables, caches of the drafter) are what they
\* were whenever the weights are mapped, however deep the worker slept and in which order
\* its parts were woken; weights are lost by level-2 sleeps only, until they are loaded.
\* A session's chunks go to the model that its start selected and to no other, and
\* outside of sessions the engine is aimed at the model.
WorkerKeeps ==
    /\ Mapped => \A r \in Buffers : region[r] = "good"
    /\ Mapped /\ region["weights"] = "junk" => lost
    /\ session.touched \subseteq {session.chosen}
    /\ ~session.active => session.target = "model"
=============================================================================
