-------------------------- MODULE WorkerLifeProofs --------------------------
(***************************************************************************)
(* The theorem about WorkerLife, for any sequence of sleeps, partial       *)
(* wake-ups, reloads and weight update sessions, failed calls included.    *)
(***************************************************************************)
EXTENDS WorkerLife, TLAPS

Regions == Buffers \cup {"weights"}

LifeTypeOK ==
    /\ asleep \subseteq Tags
    /\ region \in [Regions -> {"good", "junk"}]
    /\ saved = <<>> \/ saved \in [Buffers -> {"good", "junk"}]
    /\ lost \in BOOLEAN /\ lora \in BOOLEAN
    /\ session \in [active : BOOLEAN, draft : BOOLEAN, target : {"model", "draft"},
                    chosen : {"model", "draft"}, touched : SUBSET {"model", "draft"}]

\* While the weights are away a buffer is good where it is or in what was saved of it;
\* the saved copy outlives wake-ups of the KV cache alone and is gone once it is used.
BuffersKept ==
    /\ \A r \in Buffers : region[r] = "good" \/ (~Mapped /\ saved # <<>>)
    /\ saved # <<>> => ~Mapped /\ \A r \in Buffers : saved[r] = "good"

\* Junk in the weights is the work of a level-2 sleep that no load followed.
LossKnown == region["weights"] = "junk" => lost

\* A session aims at what its start chose until it ends, by a finish that succeeds or by
\* a chunk that fails.
SessionAims ==
    /\ session.active => session.target = session.chosen
    /\ ~session.active => session.target = "model"
    /\ session.touched \subseteq {session.chosen}

LifeInv == LifeTypeOK /\ BuffersKept /\ LossKnown /\ SessionAims
-----------------------------------------------------------------------------
\* A saved copy is a function on the buffers, so it is not the empty one.
LEMMA SavedDomain ==
    /\ \A f \in [Buffers -> {"good", "junk"}] : f # <<>>
    /\ DOMAIN <<>> = {}
<1>1. DOMAIN <<>> = {}
  OBVIOUS
<1>2. ASSUME NEW f \in [Buffers -> {"good", "junk"}] PROVE f # <<>>
  <2>1. DOMAIN f = Buffers /\ "draft" \in Buffers
    BY DEF Buffers
  <2> QED
    BY <1>1, <2>1
<1> QED
  BY <1>1, <1>2

LEMMA LifeStart == LifeInit => LifeInv
<1> SUFFICES ASSUME LifeInit PROVE LifeInv
  OBVIOUS
<1>1. region \in [Regions -> {"good", "junk"}] /\ \A r \in Regions : region[r] = "good"
  BY DEF LifeInit, Regions
<1>2. LifeTypeOK
  BY <1>1 DEF LifeInit, LifeTypeOK, Idle, Tags
<1>3. BuffersKept
  BY <1>1 DEF LifeInit, BuffersKept, Regions
<1>4. LossKnown
  BY <1>1 DEF LossKnown, Regions
<1>5. SessionAims
  BY DEF LifeInit, Idle, SessionAims
<1> QED
  BY <1>2, <1>3, <1>4, <1>5 DEF LifeInv

\* Only a mapped worker is put to sleep, so what a level-2 sleep saves is good.
LEMMA SleepStep ==
    ASSUME LifeInv, NEW level \in {1, 2}, Sleep(level)
    PROVE  LifeInv'
<1>1. /\ asleep = {} /\ asleep' = Tags /\ session' = session /\ lora' = lora
      /\ Mapped /\ ~Mapped' /\ lost' = (lost \/ level = 2)
  BY DEF Sleep, Mapped, Tags
<1>2. \A r \in Buffers : region[r] = "good"
  BY <1>1 DEF LifeInv, BuffersKept
<1>3. /\ region \in [Regions -> {"good", "junk"}] /\ DOMAIN region = Regions
      /\ saved = <<>>
  BY <1>1 DEF LifeInv, LifeTypeOK, BuffersKept
<1>4. CASE level = 1
  <2>1. saved' = saved /\ region' = region
    BY <1>4 DEF Sleep
  <2>2. lost \in BOOLEAN /\ lost' = (lost \/ FALSE)
    BY <1>1, <1>4 DEF LifeInv, LifeTypeOK
  <2>3. lost' = lost
    BY <2>2
  <2> QED
    BY <1>1, <1>2, <1>3, <2>1, <2>3 DEF LifeInv, LifeTypeOK, BuffersKept, LossKnown, SessionAims
<1>5. CASE level = 2
  <2>1. saved' = [r \in Buffers |-> region[r]] /\ region' = [r \in Regions |-> "junk"] /\ lost'
    BY <1>1, <1>3, <1>5 DEF Sleep
  <2>2. saved' \in [Buffers -> {"good", "junk"}] /\ \A r \in Buffers : saved'[r] = "good"
    BY <1>2, <2>1
  <2>3. saved' # <<>>
    BY <2>2, SavedDomain
  <2>4. LifeTypeOK'
    <3>1. region' \in [Regions -> {"good", "junk"}]
      BY <2>1
    <3> QED
      BY <1>1, <2>1, <2>2, <3>1 DEF LifeInv, LifeTypeOK
  <2>5. BuffersKept'
    BY <1>1, <2>2, <2>3 DEF BuffersKept
  <2> QED
    BY <1>1, <2>1, <2>4, <2>5 DEF LifeInv, LossKnown, SessionAims
<1> QED
  BY <1>4, <1>5

\* Waking the weights puts the saved buffers back; waking the cache alone leaves both.
LEMMA WakeUpStep ==
    ASSUME LifeInv, NEW tags \in SUBSET Tags, WakeUp(tags)
    PROVE  LifeInv'
<1>1. /\ asleep' = asleep \ tags /\ lost' = lost /\ session' = session /\ lora' = lora
      /\ tags \subseteq asleep
  BY DEF WakeUp
<1>2. CASE "weights" \in tags
  <2>1. region' = Restored /\ saved' = <<>> /\ ~Mapped /\ Mapped'
    BY <1>1, <1>2 DEF WakeUp, Mapped
  <2>2. region \in [Regions -> {"good", "junk"}] /\ DOMAIN region = Regions
    BY DEF LifeInv, LifeTypeOK
  <2>3. saved = <<>> \/ (saved \in [Buffers -> {"good", "junk"}] /\ DOMAIN saved = Buffers)
    BY DEF LifeInv, LifeTypeOK
  <2>4. \A r \in Regions : Restored[r] = IF r \in DOMAIN saved THEN saved[r] ELSE region[r]
    BY <2>2 DEF Restored
  <2>5. Restored \in [Regions -> {"good", "junk"}]
    BY <2>2, <2>3, SavedDomain DEF Restored
  <2>6. Restored["weights"] = region["weights"]
    BY <2>3, <2>4, SavedDomain DEF Regions, Buffers
  <2>7. \A r \in Buffers : Restored[r] = "good"
    <3> TAKE r \in Buffers
    <3>1. CASE saved = <<>>
      BY <2>4, <3>1, SavedDomain DEF LifeInv, BuffersKept, Regions
    <3>2. CASE saved # <<>>
      BY <2>3, <2>4, <3>2 DEF LifeInv, BuffersKept, Regions
    <3> QED
      BY <3>1, <3>2
  <2>8. LifeTypeOK'
    BY <1>1, <2>1, <2>5 DEF LifeInv, LifeTypeOK
  <2>9. BuffersKept'
    BY <2>1, <2>7 DEF BuffersKept
  <2> QED
    BY <1>1, <2>1, <2>6, <2>8, <2>9 DEF LifeInv, LossKnown, SessionAims
<1>3. CASE "weights" \notin tags
  <2>1. region' = region /\ saved' = saved /\ (Mapped' <=> Mapped)
    BY <1>1, <1>3 DEF WakeUp, Mapped
  <2> QED
    BY <1>1, <2>1 DEF LifeInv, LifeTypeOK, BuffersKept, LossKnown, SessionAims
<1> QED
  BY <1>2, <1>3

LEMMA ReloadStep == LifeInv /\ Reload => LifeInv'
<1> SUFFICES ASSUME LifeInv, Reload PROVE LifeInv'
  OBVIOUS
<1>1. /\ region' = [region EXCEPT !["weights"] = "good"] /\ lost' = FALSE /\ lora' = TRUE
      /\ asleep' = asleep /\ saved' = saved /\ session' = session /\ Mapped /\ Mapped'
  BY DEF Reload, Mapped
<1>2. region \in [Regions -> {"good", "junk"}]
  BY DEF LifeInv, LifeTypeOK
<1>3. /\ region' \in [Regions -> {"good", "junk"}] /\ region'["weights"] = "good"
      /\ \A r \in Buffers : region'[r] = region[r]
  BY <1>1, <1>2 DEF Regions, Buffers
<1> QED
  BY <1>1, <1>3 DEF LifeInv, LifeTypeOK, BuffersKept, LossKnown, SessionAims

\* The calls of a session leave memory alone.
LEMMA SessionStep ==
    ASSUME LifeInv, NEW draft \in BOOLEAN, NEW ok \in BOOLEAN,
           StartUpdate(draft, ok) \/ UpdateWeights(ok) \/ FinishUpdate(ok)
    PROVE  LifeInv'
<1>1. asleep' = asleep /\ region' = region /\ saved' = saved /\ lost' = lost
  BY DEF StartUpdate, UpdateWeights, FinishUpdate
<1>2. session \in [active : BOOLEAN, draft : BOOLEAN, target : {"model", "draft"},
                   chosen : {"model", "draft"}, touched : SUBSET {"model", "draft"}]
  BY DEF LifeInv, LifeTypeOK
<1>3. SessionAims /\ lora \in BOOLEAN
  BY DEF LifeInv, LifeTypeOK
<1>4. /\ SessionAims' /\ lora' \in BOOLEAN
      /\ session' \in [active : BOOLEAN, draft : BOOLEAN, target : {"model", "draft"},
                       chosen : {"model", "draft"}, touched : SUBSET {"model", "draft"}]
  <2>1. CASE StartUpdate(draft, ok)
    BY <1>2, <1>3, <2>1 DEF StartUpdate, Idle, SessionAims
  <2>2. CASE UpdateWeights(ok)
    BY <1>2, <1>3, <2>2 DEF UpdateWeights, SessionAims
  <2>3. CASE FinishUpdate(ok)
    BY <1>2, <1>3, <2>3 DEF FinishUpdate, SessionAims
  <2> QED
    BY <2>1, <2>2, <2>3
<1> QED
  BY <1>1, <1>4 DEF LifeInv, LifeTypeOK, BuffersKept, LossKnown, Mapped

LEMMA LifeStep == LifeInv /\ [LifeNext]_lifeVars => LifeInv'
<1> SUFFICES ASSUME LifeInv, [LifeNext]_lifeVars PROVE LifeInv'
  OBVIOUS
<1>1. CASE UNCHANGED lifeVars
  BY <1>1 DEF lifeVars, LifeInv, LifeTypeOK, BuffersKept, LossKnown, SessionAims, Mapped
<1>2. CASE LifeNext
  BY <1>2, SleepStep, WakeUpStep, ReloadStep, SessionStep DEF LifeNext
<1> QED
  BY <1>1, <1>2

\* However deep and how often a worker sleeps and in which parts it is woken, buffers
\* that are in no checkpoint are what they were whenever the weights are mapped, weights
\* are missing only after a level-2 sleep that no load followed, and the chunks of an
\* update session reach the model that its start selected and no other.
THEOREM WorkerKeepsAll == LifeSpec => []WorkerKeeps
<1>1. LifeInv => WorkerKeeps
  BY DEF LifeInv, LifeTypeOK, BuffersKept, LossKnown, SessionAims, WorkerKeeps
<1>2. QED
  BY <1>1, LifeStart, LifeStep, PTL DEF LifeSpec
=============================================================================
