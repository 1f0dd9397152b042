------------------------------ MODULE Startup ------------------------------
(***************************************************************************)
(* The start of an engine: the options are settled (EngineConfig), the     *)
(* workers load the model, which may resolve the configuration a second    *)
(* time, and profile the memory they have left, the KV cache is planned    *)
(* from both (KVPlan), and every worker binds its part (WorkerStart) and   *)
(* serves (WorkerLife).                                                    *)
(***************************************************************************)
EXTENDS EngineConfig, WorkerStart, WorkerLife

CONSTANT Starts    \* [conf (options), in (a scenario), devices (a worker may have; {} to stop before that), rigs,
                   \*  life (whether the workers are followed further)]

VARIABLE start

startVars == <<configVars, vars, workerVars, lifeVars, start>>

StartInit ==
    /\ start \in Starts
    /\ ConfigInit({start.conf})
    /\ in = start.in /\ mem = <<>> /\ maxLen = 0 /\ step = "config"
    /\ groups = <<>> /\ local = <<>> /\ configs = <<>>
    /\ WorkerOff /\ LifeInit

Resolve == step = "config" /\ ConfigNext /\ UNCHANGED <<vars, workerVars, lifeVars, start>>

\* What the KV cache planning reads of the configuration.
PlanConfig(c) ==
    [cfg EXCEPT !.disableHybrid = c.disableHybrid = "on",
                !.batched = MaxInFlightTokens(c),
                !.eagle = IF UseEagle(c) THEN (IF c.deepseek41 THEN 2 ELSE 1) ELSE 0,
                !.auto = asked.userLen = -1]

\* The workers are started: init_device, load_model.
StartWorkers ==
    /\ at = "done" /\ step = "config"
    /\ \E ds \in [Workers -> start.devices], r \in start.rigs, w \in Workers : InitDevices(ds, r, w)
    /\ in' = [in EXCEPT !.cfg = PlanConfig(conf), !.len = conf.maxLen]
    /\ maxLen' = conf.maxLen
    /\ step' = "devices"
    /\ UNCHANGED <<configVars, mem, groups, local, configs, lifeVars, start>>

PlanKv == Next /\ UNCHANGED <<configVars, workerVars, lifeVars, start>>

RunWorker == WorkerNext /\ UNCHANGED <<configVars, lifeVars, start>>

\* A worker that is ready is put to sleep and gets new weights.
Live == step = "ready" /\ start.life /\ LifeNext /\ UNCHANGED <<configVars, vars, workerVars, start>>

StartNext == Resolve \/ StartWorkers \/ PlanKv \/ RunWorker \/ Live

StartSpec == StartInit /\ [][StartNext]_startVars
=============================================================================
