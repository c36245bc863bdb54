------------------------------ MODULE MCControl ------------------------------
(***************************************************************************)
(* What the operator does with the program, for TLC: the RPC server, the   *)
(* options and the configuration file, and the end of the program; and the *)
(* lock that the threads take around what they share, as it is and with    *)
(* the works that two threads make from stratum jobs under it. The others  *)
(* share no state here: scenario says which module runs.                   *)
(***************************************************************************)
EXTENDS StratumWork, ApiServer, Config

\* --api-allow W:h1,P:h1/h2,X:h3 and --api-groups P:*:setconfig.
Allow ==
    << [from |-> {"h1"}, group |-> "W"], [from |-> {"h1", "h2"}, group |-> "P"],
       [from |-> {"h3"}, group |-> "X"] >>
Groups == << [name |-> "P", words |-> {"*", "setconfig"}] >>
Commands ==
    {"devs", "stats", "pga", "asc", "pgaenable", "pgadisable", "ascenable",
     "ascdisable", "setconfig", "failover-only", "debug", "quit", "save"}

\* What the user may give; "d" and values that are refused are among it.
DynamicIntensity == 99
Adjusted == {-1, 5}
UserGives ==
    [list |-> [vectors |-> {<<2>>}, fan |-> {<<40, 30>>, <<40, 300>>},
               kernel |-> {<<"nscrypt">>, <<"phatk", "scrypt">>}],
     intensity |-> {<<13>>, <<DynamicIntensity, 12>>, <<12, DynamicIntensity>>, <<0>>},
     positive |-> {<<3>>, <<4, 5>>},
     ranges |-> {<<<<0, 1>>>>, <<<<0, 0>>, <<2, 2>>>>, <<<<1, 0>>>>, <<<<1, 1>>, <<3, 3>>>>},
     strategy |-> {"rotate", "balance"}]

OnePga == <<"pga">>

VARIABLE scenario   \* which of the modules runs in this behaviour

VARIABLES started, life, pth, console, qrlock, apipc, killpc, carrier, ended,
          connected
Shut == INSTANCE Shutdown WITH
    Killers <- {"signal", "restart"}, Loggers <- {"watchdog", "miner"}
ShutVars == <<started, life, pth, console, qrlock, apipc, killpc, carrier,
    ended, connected>>

mcVars == <<scenario, apiVars, confVars, ShutVars, vars>>

MCInit ==
    /\ scenario \in {"api", "config", "shutdown", "lock", "stratum work"}
    /\ ApiInit
    /\ ConfInit
    /\ Shut!ShutInit
    /\ Init

\* The others stand still.
ApiRuns ==
    /\ scenario = "api" /\ ApiNext
    /\ UNCHANGED <<scenario, confVars, ShutVars, vars>>
ConfRuns ==
    /\ scenario = "config" /\ ConfNext
    /\ UNCHANGED <<scenario, apiVars, ShutVars, vars>>
ShutRuns ==
    /\ scenario = "shutdown" /\ Shut!ShutNext
    /\ UNCHANGED <<scenario, apiVars, confVars, vars>>
LockRuns ==
    /\ scenario = "lock" /\ LockNext
    /\ UNCHANGED <<scenario, apiVars, confVars, ShutVars, sworkVars, poolVars,
                   threadVars>>
WorkRuns ==
    /\ scenario = "stratum work" /\ Next
    /\ UNCHANGED <<scenario, apiVars, confVars, ShutVars>>

MCNext ==
    \/ ApiRuns \/ ConfRuns \/ ShutRuns \/ LockRuns \/ WorkRuns

MCFairness ==
    \/ scenario = "shutdown" /\ Shut!ShutFairness
    \/ scenario \in {"lock", "stratum work"} /\ LockFairness
    \/ scenario \in {"api", "config"}

MCSpec == MCInit /\ [][MCNext]_mcVars /\ MCFairness

----------------------------------------------------------------------------
\* The program ends once someone has begun to end it, but for the ways named there.
ShutdownEnds == []Shut!ShutTypeOK /\ Shut!ShutdownEnds
=============================================================================
