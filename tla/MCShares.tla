------------------------------ MODULE MCShares ------------------------------
(***************************************************************************)
(* The shares sent to pools, for TLC: those of a stratum pool and its      *)
(* answers; that pool's connection, its lines and its retries; and those   *)
(* of a getwork pool, with its ring of curl handles. StratumShares takes   *)
(* the connection's events as they may come, so the three share no state:  *)
(* scenario says which module runs.                                        *)
(***************************************************************************)
EXTENDS StratumShares, SubmitWork, StratumClient

VARIABLE scenario   \* which of the modules runs in this behaviour

mcVars == <<scenario, vars, clientVars, submitVars>>

MCInit ==
    /\ scenario \in {"shares", "client", "getwork pool"}
    /\ Init
    /\ ClientInit
    /\ SubmitInit
    /\ scenario # "shares" => resumes

\* The others stand still.
SharesRuns ==
    /\ scenario = "shares" /\ Next
    /\ UNCHANGED <<scenario, clientVars, submitVars>>
ClientRuns ==
    /\ scenario = "client" /\ ClientNext
    /\ UNCHANGED <<scenario, vars, submitVars>>
GetworkRuns ==
    /\ scenario = "getwork pool" /\ SubmitNext
    /\ UNCHANGED <<scenario, vars, clientVars>>

MCNext ==
    \/ SharesRuns \/ ClientRuns \/ GetworkRuns

MCFairness ==
    \/ scenario = "shares" /\ ShareFairness
    \/ scenario = "client" /\ ClientFairness
    \/ scenario = "getwork pool" /\ SubmitFairness

MCSpec == MCInit /\ [][MCNext]_mcVars /\ MCFairness

----------------------------------------------------------------------------
\* A connection that was lost is made again, as long as it is needed.
Reconnects == scenario = "client" => ComesBack
=============================================================================
