---------------------------- MODULE JobContract ----------------------------
(***************************************************************************)
(* What the response job store promises about a job, without leases,       *)
(* attempts, clocks or endpoints: a job is open until an agent takes it,   *)
(* it is taken at most once, it ends at most once, and only a job that was *)
(* taken can have succeeded.  ResponseStore is shown to implement this.    *)
(***************************************************************************)
CONSTANT Jobs

VARIABLES
    stage,   \* where the job is: absent, open, taken or ended
    outcome  \* how it ended, "none" before

jobVars == <<stage, outcome>>

Outcomes == {"succeeded", "failed", "cancelled"}

JobInit ==
    /\ stage = [j \in Jobs |-> "absent"]
    /\ outcome = [j \in Jobs |-> "none"]

\* Several jobs may move in one step: one heartbeat fails every job that has
\* run out of offers.  Each job makes at most one move.
Stays(j) == stage'[j] = stage[j] /\ outcome'[j] = outcome[j]

Create(j) == stage[j] = "absent" /\ stage'[j] = "open" /\ outcome'[j] = "none"

Take(j) == stage[j] = "open" /\ stage'[j] = "taken" /\ outcome'[j] = "none"

\* A job nobody took ends failed or cancelled: nothing ran, so nothing worked.
Withdraw(j) ==
    /\ stage[j] = "open" /\ stage'[j] = "ended"
    /\ outcome'[j] \in {"failed", "cancelled"}

Finish(j) ==
    /\ stage[j] = "taken" /\ stage'[j] = "ended"
    /\ outcome'[j] \in Outcomes

JobNext ==
    /\ stage' \in [Jobs -> {"absent", "open", "taken", "ended"}]
    /\ outcome' \in [Jobs -> Outcomes \cup {"none"}]
    /\ \A j \in Jobs : Stays(j) \/ Create(j) \/ Take(j) \/ Withdraw(j) \/ Finish(j)

JobSpec == JobInit /\ [][JobNext]_jobVars
=============================================================================
