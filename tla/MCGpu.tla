-------------------------------- MODULE MCGpu --------------------------------
(***************************************************************************)
(* The back end of the GPUs for TLC: fans, clocks and temperatures, the    *)
(* search for nonces and the memory it is given. They share no state here: *)
(* scenario says which module runs. GPU temperatures run twice: with       *)
(* orders of the operator, where a hot GPU is disabled and recovers, and   *)
(* without orders or restarts, where it is hot below the cutoff.           *)
(***************************************************************************)
EXTENDS OpenclHash, OpenclInit, AdlControl, TLC

\* A card with two GPUs, of which ADL gives the first no fan, listed for a display more.
Listed(i, b, f) == [id |-> i, bus |-> b, fan |-> f]
TwoCards == <<Listed(7, 1, FALSE), Listed(7, 1, FALSE), Listed(8, 2, TRUE)>>
MCListings == {TwoCards}
MCGpuMaps == {<<>>}
MCAutomatic == {{}, {"fan", "engine"}}

\* Two threads of the second of two devices.
MCThreadGpu == [t \in {"a", "b"} |-> 1]
MCWorksOf == [t \in {"a", "b"} |-> 1]
MCHashesOf == 8 :> 1 @@ 9 :> 2   \* the nonces a kernel covers at intensities 8 and 9

MCPlatforms == {<<>>, <<0>>, <<1, 2>>}
MCCards ==
    [global_mem_size : {6, 12, 17}, max_alloc : {1, 2, 5, 20}, amd : BOOLEAN]
MCOptions ==
    [tc : {0, 4}, reserve_vram : {0, 3}, reserve_ram : {0}, use_system_ram : BOOLEAN,
     limit_ram : BOOLEAN, split : BOOLEAN]

VARIABLE scenario   \* which of the modules runs in this behaviour

Watched == INSTANCE AdlControl WITH
    opt_restart <- FALSE, Temps <- {80, 90}, cutofftemp <- 95, MaxOrders <- 0

mcVars == <<scenario, adlVars, hashVars, initClVars>>

MCInit ==
    /\ scenario \in {"adl", "adl without restart", "hashing", "opencl init"}
    /\ IF scenario = "adl" THEN AdlInit ELSE Watched!AdlInit
    /\ HashInit
    /\ InitClInit
    /\ scenario \notin {"adl", "adl without restart"} => \A g \in DOMAIN ga : ~ga[g].autofan
    /\ scenario # "hashing" => ~thread["a"].split /\ gpu[0].intensity = 8

\* The others stand still.
AdlRuns ==
    /\ scenario = "adl" /\ AdlNext
    /\ UNCHANGED <<scenario, hashVars, initClVars>>
WatchedRuns ==
    /\ scenario = "adl without restart" /\ Watched!AdlNext
    /\ UNCHANGED <<scenario, hashVars, initClVars>>
HashRuns ==
    /\ scenario = "hashing" /\ HashNext
    /\ UNCHANGED <<scenario, adlVars, initClVars>>
StartRuns ==
    /\ scenario = "opencl init" /\ InitClNext
    /\ UNCHANGED <<scenario, adlVars, hashVars>>

MCNext ==
    \/ AdlRuns \/ WatchedRuns \/ HashRuns \/ StartRuns

MCFairness ==
    \/ scenario = "adl" /\ AdlFairness
    \/ scenario = "adl without restart" /\ Watched!AdlFairness
    \/ scenario \in {"hashing", "opencl init"}

MCSpec == MCInit /\ [][MCNext]_mcVars /\ MCFairness
=============================================================================
