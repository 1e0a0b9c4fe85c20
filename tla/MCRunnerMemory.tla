--------------------------- MODULE MCRunnerMemory ---------------------------
(* Runs of two workflows on two branches: a failure that comes back on both,  *)
(* one with novel and flooding templates, one with a pipeline log, a success. *)
EXTENDS RunnerMemory

LOCAL Run(wf, br, log, art) == [wf |-> wf, br |-> br, log |-> log, art |-> art]

RunTable ==
    [r1 |-> Run("w1", "main", <<1, 1, 0, 0>>,    <<>>),
     r2 |-> Run("w1", "dev",  <<1, 0, 1, 250>>,  <<>>),
     r3 |-> Run("w1", "main", <<20, 0, 0, 20>>,  <<>>),
     r4 |-> Run("w2", "dev",  <<1, 0, 6, 0>>,
                <<[log |-> <<0, 1, 0, 0>>, base |-> NoBaseline]>>),
     r5 |-> Run("w2", "dev",  <<1, 1, 0, 0>>,    <<>>)]

MCWorkflowOf  == [r \in RunIds |-> RunTable[r].wf]
MCBranchOf    == [r \in RunIds |-> RunTable[r].br]
MCLogOf       == [r \in RunIds |-> RunTable[r].log]
MCArtifactsOf == [r \in RunIds |-> RunTable[r].art]
=============================================================================
