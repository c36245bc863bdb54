------------------------------- MODULE MCPools -------------------------------
(***************************************************************************)
(* Which pool is mined for, and which work is good, for TLC: the pools,    *)
(* their long polls and the detection of blocks. They share no state here: *)
(* scenario says which module runs. The pools run in four settings: three  *)
(* pools that die and recover while the operator chooses among them, three *)
(* that reject shares, a table that grows and shrinks, and changes of      *)
(* strategy.                                                               *)
(***************************************************************************)
EXTENDS PoolManager, LongPoll, BlockDetect

VARIABLE scenario   \* which of the modules runs in this behaviour

\* PoolManager itself runs with changes of strategy.
Dying == INSTANCE PoolManager WITH
    NPools <- 3, MaxPool <- 3, Net <- {"n1"},
    Commands <- {"screen_switch", "screen_enable", "screen_disable", "poolpriority"},
    Events <- {"died", "alive"}, Strategies <- {"failover"}

Rejecting == INSTANCE PoolManager WITH
    NPools <- 3, MaxPool <- 3, Net <- {"n1"}, Commands <- {"screen_disable"},
    Events <- {"died", "alive", "rejects", "accepts"},
    Strategies <- {"failover"}

Removing == INSTANCE PoolManager WITH
    NPools <- 2, MaxPool <- 3, Net <- {"n1"},
    Commands <- {"poolpriority", "removepool", "addpool", "enablepool", "disablepool"},
    Events <- {}, Strategies <- {"rotate"}

TheStrategies == {"failover", "rotate"}
TheCommands == {"addpool", "switchpool", "screen_remove", "screen_strategy"}
ThePools == <<"p1", "p2", "p3">>

mcVars == <<scenario, vars, longPollVars, blockVars>>

MCInit ==
    /\ scenario \in {"dying pools", "rejecting pools", "table of pools",
                     "strategies", "long polls", "blocks"}
    /\ CASE scenario = "table of pools" -> Removing!Init
         [] scenario = "strategies" -> Init
         [] OTHER -> Dying!Init
    /\ LongPollInit
    /\ BlockInit

\* The others stand still.
DyingRuns ==
    /\ scenario = "dying pools" /\ Dying!Next
    /\ UNCHANGED <<scenario, longPollVars, blockVars>>
RejectingRuns ==
    /\ scenario = "rejecting pools" /\ Rejecting!Next
    /\ UNCHANGED <<scenario, longPollVars, blockVars>>
TableRuns ==
    /\ scenario = "table of pools" /\ Removing!Next
    /\ UNCHANGED <<scenario, longPollVars, blockVars>>
StrategyRuns ==
    /\ scenario = "strategies" /\ Next
    /\ UNCHANGED <<scenario, longPollVars, blockVars>>
PollRuns ==
    /\ scenario = "long polls" /\ LongPollNext
    /\ UNCHANGED <<scenario, vars, blockVars>>
BlockRuns ==
    /\ scenario = "blocks" /\ BlockNext
    /\ UNCHANGED <<scenario, vars, longPollVars>>
MCNext ==
    \/ DyingRuns \/ RejectingRuns \/ TableRuns \/ StrategyRuns \/ PollRuns
    \/ BlockRuns

MCSpec == MCInit /\ [][MCNext]_mcVars
=============================================================================
