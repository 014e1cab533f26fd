---- MODULE MCWorkerExecution ----
(***************************************************************************)
(* Plans for WorkerExecution: a replay between two adapter operations, two *)
(* replays, an idempotent plan, and a laboratory operation.                *)
(***************************************************************************)
EXTENDS WorkerExecution, TLC

Op(k, i, s) == [kind |-> k, idempotent |-> i, scratch |-> s]

MixedPlans ==
    {<<Op("adapter", FALSE, TRUE), Op("replay", FALSE, TRUE), Op("adapter", FALSE, FALSE)>>,
     <<Op("replay", FALSE, FALSE), Op("replay", FALSE, TRUE)>>,
     <<Op("inert", TRUE, FALSE), Op("adapter", TRUE, TRUE)>>,
     <<Op("lab", FALSE, FALSE)>>}

ReplayOnly == {<<Op("replay", FALSE, FALSE)>>}
====
