------------------------------ MODULE MCStaged ------------------------------
(***************************************************************************)
(* StagedWork for TLC, with the pools it may have: a getwork and a stratum *)
(* pool, with --failover-only or without, where work is staged by both and *)
(* discarded by jobs, blocks and switches, or a getwork pool alone, with a *)
(* queue, where works are rolled and cloned as they age.  Each is run with *)
(* more of one input or of another.  Structs and miners are                *)
(* interchangeable.                                                        *)
(***************************************************************************)
EXTENDS StagedWork, TLC

VARIABLE scenario   \* which pools there are, and what they give

Jobs == INSTANCE StagedWork WITH FailOnly <- FALSE, MaxBase <- 1, MaxJob <- 3

Getwork == INSTANCE StagedWork WITH
    Pool <- Pool \ StratumPool, StratumPool <- {}, OptQueue <- 1,
    FailOnly <- FALSE, MaxJob <- 0, MaxTime <- 2

Blocks == INSTANCE StagedWork WITH
    Pool <- Pool \ StratumPool, StratumPool <- {}, OptQueue <- 1,
    FailOnly <- FALSE, MaxJob <- 0, MaxChain <- 2, MaxTime <- 1

MCInit ==
    \/ scenario \in {"failover", "jobs"} /\ Init
    \/ scenario \in {"getwork", "blocks"} /\ Getwork!Init

FailoverRuns == scenario = "failover" /\ Next /\ UNCHANGED scenario
JobsRun == scenario = "jobs" /\ Jobs!Next /\ UNCHANGED scenario
GetworkRuns == scenario = "getwork" /\ Getwork!Next /\ UNCHANGED scenario
BlocksRun == scenario = "blocks" /\ Blocks!Next /\ UNCHANGED scenario
MCNext == FailoverRuns \/ JobsRun \/ GetworkRuns \/ BlocksRun

MCSpec == MCInit /\ [][MCNext]_<<vars, scenario>>

Symmetry == Permutations(Struct) \cup Permutations(Miner)
=============================================================================
