----------------------------- MODULE PoolManager -----------------------------
(***************************************************************************)
(* Which pool is mined for (yacminer.c, api.c).  switch_pools chooses, all *)
(* of it under control_lock; but what it chooses by (each pool's prio,     *)
(* idle and enabled, and the table pools[]) is written without that lock   *)
(* by the threads that then call it: an operator's command, the threads    *)
(* that find a pool dead or alive, the results of shares, watchpool's      *)
(* rotation.  A command or an event is a few steps of its thread; between  *)
(* two of them the other threads run.                                      *)
(*                                                                         *)
(* There is one operator at a time: the API's thread or the screen's.      *)
(***************************************************************************)
EXTENDS Integers, FiniteSets, FiniteSetsExt, SequencesExt

CONSTANTS NPools,    \* pools of the command line
          MaxPool,   \* bound: pools ever created
          Net,       \* threads that report events of the pools
          Commands,  \* what the operator does, of Command
          Events,    \* what the other threads report, of Event
          Strategies \* values of pool_strategy

Command == {"switchpool", "enablepool", "poolpriority", "disablepool",
            "removepool", "addpool", "screen_switch", "screen_enable",
            "screen_disable", "screen_remove", "screen_strategy"}
Event == {"died", "alive", "rejects", "accepts", "rotate"}
Strategy == {"failover", "roundrobin", "rotate", "loadbalance", "balance"}

Operator == "operator"

ASSUME PoolAssumption ==
    /\ NPools \in 1 .. MaxPool /\ MaxPool \in Nat
    /\ Commands \subseteq Command /\ Events \subseteq Event
    /\ Strategies \subseteq Strategy /\ Strategies # {}
    /\ Operator \notin Net

VARIABLES
    pools,         \* the table; NoPool where nothing was ever written
    total_pools,
    pool_no, prio, enabled, idle,  \* fields of each struct pool
    removed,       \* the pools with pool->removed
    created,       \* pools created so far
    currentpool,
    enabled_pools,
    pool_strategy,
    pools_active,
    testing,       \* pools whose test_pool_thread has not looked yet
    at,            \* at[t]: where thread t is in its command or event
    about,         \* about[t]: the pool it is about
    selected,      \* selected[t]: switch_pools' argument, or NoPool for NULL
    listed,        \* poolpriority's pools_changed: those that have their new prio
    pr,            \* its loop's counter
    asked, before, \* history: the order it was given, the priorities there were
    screen         \* the removal under way is the screen's

tableVars == <<pools, total_pools, pool_no, removed, created>>
poolVars == <<tableVars, prio, enabled, idle>>
choiceVars == <<currentpool, enabled_pools, pool_strategy, pools_active>>
loopVars == <<listed, pr, asked, before>>
threadVars == <<at, about, selected, loopVars, screen>>
vars == <<poolVars, choiceVars, testing, threadVars>>

Pool == 0 .. MaxPool - 1
NoPool == MaxPool
Thread == Net \cup {Operator}

Step == {"out", "switch", "compare", "resus", "current", "first", "reject",
         "unlisted", "prio0", "leave", "refuse", "disable", "renumber", "swap",
         "drop"}

TypeOK ==
    /\ pools \in [0 .. MaxPool -> Pool \cup {NoPool}]
    /\ total_pools \in 1 .. MaxPool /\ created \in NPools .. MaxPool
    /\ pool_no \in [Pool -> 0 .. MaxPool]
    /\ prio \in [Pool -> 0 .. MaxPool]
    /\ enabled \in [Pool -> {"enabled", "disabled", "rejecting"}]
    /\ idle \in [Pool -> BOOLEAN]
    /\ removed \subseteq Pool /\ testing \subseteq Pool
    /\ currentpool \in Pool \cup {NoPool}
    /\ enabled_pools \in Int
    /\ pool_strategy \in Strategies /\ pools_active \in BOOLEAN
    /\ at \in [Thread -> Step]
    /\ about \in [Thread -> Pool] /\ selected \in [Thread -> Pool \cup {NoPool}]
    /\ listed \subseteq Pool /\ pr \in 0 .. MaxPool
    /\ asked \in Seq(Pool) /\ before \in [Pool -> 0 .. MaxPool]
    /\ screen \in BOOLEAN

Init ==
    /\ pools = [i \in 0 .. MaxPool |-> IF i < NPools THEN i ELSE NoPool]
    /\ total_pools = NPools /\ created = NPools
    /\ pool_no = [p \in Pool |-> p] /\ prio = [p \in Pool |-> p]
    /\ enabled = [p \in Pool |-> IF p < NPools THEN "enabled" ELSE "disabled"]
    /\ idle = [p \in Pool |-> TRUE]
    /\ removed = {}
    /\ currentpool = 0 /\ enabled_pools = NPools
    /\ pool_strategy \in Strategies /\ pools_active = FALSE
    /\ testing = 0 .. NPools - 1
    /\ at = [t \in Thread |-> "out"]
    /\ about = [t \in Thread |-> 0] /\ selected = [t \in Thread |-> NoPool]
    /\ listed = {} /\ pr = 0 /\ screen = FALSE
    /\ asked = <<>> /\ before = [p \in Pool |-> 0]

Table == {pools[i] : i \in 0 .. total_pools - 1}

pool_unusable(p) == idle[p] \/ enabled[p] # "enabled"

\* Thread t begins, or goes on to, step s about pool p; switch_pools, if it is
\* called, will be given pool sel.
Go(t, s, p, sel) ==
    /\ at' = [at EXCEPT ![t] = s]
    /\ about' = [about EXCEPT ![t] = p]
    /\ selected' = [selected EXCEPT ![t] = sel]

Then(t, s) == IF s = "out" THEN Go(t, s, 0, NoPool)
              ELSE at' = [at EXCEPT ![t] = s] /\ UNCHANGED <<about, selected>>

----------------------------------------------------------------------------
(* switch_pools                                                            *)

\* selected is moved to priority 0, those before it one down.
Promoted(sel) ==
    IF sel = NoPool THEN prio
    ELSE [p \in Pool |-> IF p = sel THEN 0
                         ELSE IF p \in Table /\ prio[p] < prio[sel]
                              THEN prio[p] + 1 ELSE prio[p]]

\* The first pool in the table with that priority; if none has it, an entry.
priority_pool(prios, choice) ==
    LET found == {i \in 0 .. total_pools - 1 : prios[pools[i]] = choice}
    IN  IF found = {} THEN pools[choice] ELSE pools[Min(found)]

ByPriority(prios) ==
    LET usable == {i \in 0 .. total_pools - 1 : ~pool_unusable(priority_pool(prios, i))}
    IN  IF usable = {} THEN pool_no[currentpool]
        ELSE pool_no[priority_pool(prios, Min(usable))]

\* The entry k after the current pool's, round the table.
After(k) == IF pool_no[currentpool] >= total_pools THEN k - 1
            ELSE (pool_no[currentpool] + k) % total_pools

ByRotation(sel) ==
    LET usable == {k \in 1 .. total_pools - 1 : ~pool_unusable(pools[After(k)])}
    IN  IF sel # NoPool /\ ~idle[sel] THEN pool_no[sel]
        ELSE IF usable = {} THEN pool_no[currentpool] ELSE After(Min(usable))

Choice(prios, sel) ==
    IF pool_strategy \in {"roundrobin", "rotate"} THEN ByRotation(sel)
    ELSE ByPriority(prios)

Switch(t) ==
    LET prios == Promoted(selected[t]) IN
    /\ prio' = prios
    /\ currentpool' = pools[Choice(prios, selected[t])]
    /\ UNCHANGED <<tableVars, enabled, idle, enabled_pools, pool_strategy,
                   pools_active, testing, loopVars, screen>>

SwitchPools(t) == at[t] = "switch" /\ Switch(t) /\ Then(t, "out")

----------------------------------------------------------------------------
(* The tests before a switch; each is a step of its own.                   *)

Unchoosing == UNCHANGED <<poolVars, choiceVars, testing, loopVars, screen>>

\* if (pool == current_pool()) switch_pools(NULL)
IfCurrent(t) ==
    /\ at[t] = "current"
    /\ Then(t, IF about[t] = currentpool THEN "switch" ELSE "out")
    /\ Unchoosing

HigherThanCurrent(p) == prio[p] < prio[currentpool]

\* if (pool->prio < current_pool()->prio) switch_pools(pool)
IfHigher(t) ==
    /\ at[t] = "compare"
    /\ Then(t, IF HigherThanCurrent(about[t]) THEN "switch" ELSE "out")
    /\ Unchoosing

\* Bug: the place in the table is compared, not the priority.
pool_resus_by_number(t) ==
    /\ at[t] = "resus"
    /\ Then(t, IF pool_strategy = "failover" /\ pool_no[about[t]] < pool_no[currentpool]
               THEN "switch" ELSE "out")
    /\ Unchoosing

pool_resus(t) ==
    /\ at[t] = "resus"
    /\ Then(t, IF pool_strategy = "failover" /\ HigherThanCurrent(about[t])
               THEN "switch" ELSE "out")
    /\ Unchoosing

----------------------------------------------------------------------------
(* The operator's commands: a pool is named by its place in the table.     *)

Begins(commands) ==
    pools_active /\ at[Operator] = "out" /\ commands \cap Commands # {}

Enable(p) == enabled' = [enabled EXCEPT ![p] = "enabled"]

Disable(p) == enabled' = [enabled EXCEPT ![p] = "disabled"]

\* enable_pool and disable_pool keep the count; the API's commands do not.
CountEnabled(p) ==
    enabled_pools' = IF enabled[p] = "enabled" THEN enabled_pools
                     ELSE enabled_pools + 1
CountDisabled(p) ==
    enabled_pools' = IF enabled[p] = "enabled" THEN enabled_pools - 1
                     ELSE enabled_pools

SwitchCommand(p) ==
    /\ \/ Begins({"switchpool"}) /\ UNCHANGED enabled_pools
       \/ Begins({"screen_switch"}) /\ CountEnabled(p)
    /\ Enable(p)
    /\ Go(Operator, "switch", p, p)
    /\ UNCHANGED <<tableVars, prio, idle, currentpool, pool_strategy,
                   pools_active, testing, loopVars, screen>>

EnableCommand(p) ==
    /\ \/ Begins({"enablepool"}) /\ enabled[p] # "enabled" /\ UNCHANGED enabled_pools
       \/ Begins({"screen_enable"}) /\ CountEnabled(p)
    /\ Enable(p)
    /\ Go(Operator, "compare", p, p)
    /\ UNCHANGED <<tableVars, prio, idle, currentpool, pool_strategy,
                   pools_active, testing, loopVars, screen>>

DisableCommand(p) ==
    /\ enabled_pools > 1
    /\ \/ Begins({"disablepool"}) /\ enabled[p] # "disabled" /\ UNCHANGED enabled_pools
       \/ Begins({"screen_disable"}) /\ CountDisabled(p)
    /\ Disable(p)
    /\ Go(Operator, "current", p, NoPool)
    /\ UNCHANGED <<tableVars, prio, idle, currentpool, pool_strategy,
                   pools_active, testing, loopVars, screen>>

StrategyCommand ==
    /\ Begins({"screen_strategy"})
    /\ pool_strategy' \in Strategies
    /\ Go(Operator, "switch", 0, NoPool)
    /\ UNCHANGED <<poolVars, currentpool, enabled_pools, pools_active, testing,
                   loopVars, screen>>

\* add_pool and add_pool_details: a thread begins to test the pool.
AddCommand ==
    /\ Begins({"addpool"})
    /\ created < MaxPool
    /\ pools' = [pools EXCEPT ![total_pools] = created]
    /\ pool_no' = [pool_no EXCEPT ![created] = total_pools]
    /\ prio' = [prio EXCEPT ![created] = total_pools]
    /\ total_pools' = total_pools + 1
    /\ enabled' = [enabled EXCEPT ![created] = "enabled"]
    /\ enabled_pools' = enabled_pools + 1
    /\ testing' = testing \cup {created}
    /\ created' = created + 1
    /\ UNCHANGED <<removed, idle, currentpool, pool_strategy, pools_active,
                   threadVars>>

----------------------------------------------------------------------------
(* poolpriority: the pools listed, in their order, then the others, in     *)
(* theirs: a round for each priority there was, that appends the pool      *)
(* which still has it.  No lock is held, and switch_pools may be called    *)
(* between two rounds.                                                     *)

PriorityCommand(order) ==
    /\ Begins({"poolpriority"})
    /\ prio' = [p \in Pool |-> IF Contains(order, p)
                               THEN (CHOOSE n \in DOMAIN order : order[n] = p) - 1
                               ELSE prio[p]]
    /\ listed' = ToSet(order) /\ pr' = 0
    /\ asked' = order /\ before' = prio
    /\ Go(Operator, "unlisted", 0, NoPool)
    /\ UNCHANGED <<tableVars, enabled, idle, choiceVars, testing, screen>>

\* Bug: pools_changed is not looked at.
FoundAny == {i \in 0 .. total_pools - 1 : prio[pools[i]] = pr}

\* Where the round for priority pr finds a pool to append.
Found == {i \in 0 .. total_pools - 1 : pools[i] \notin listed /\ prio[pools[i]] = pr}

\* The next priority, the code's prio, is the number of pools that have theirs.
PriorityRound ==
    /\ at[Operator] = "unlisted" /\ pr < total_pools
    /\ \/ Found = {} /\ UNCHANGED <<prio, listed>>
       \/ /\ Found # {}
          /\ prio' = [prio EXCEPT ![pools[Min(Found)]] = Cardinality(listed)]
          /\ listed' = listed \cup {pools[Min(Found)]}
    /\ pr' = pr + 1
    /\ UNCHANGED <<tableVars, enabled, idle, choiceVars, testing, at, about,
                   selected, asked, before, screen>>

PriorityDone ==
    /\ at[Operator] = "unlisted" /\ pr = total_pools
    /\ listed' = {} /\ pr' = 0
    /\ Then(Operator, "prio0")
    /\ UNCHANGED <<poolVars, choiceVars, testing, asked, before, screen>>

IfNotFirst ==
    /\ at[Operator] = "prio0"
    /\ Then(Operator, IF prio[currentpool] # 0 THEN "switch" ELSE "out")
    /\ asked' = <<>> /\ before' = [p \in Pool |-> 0]
    /\ UNCHANGED <<poolVars, choiceVars, testing, listed, pr, screen>>

----------------------------------------------------------------------------
(* removepool, and the screen's: remove_pool takes no lock.                *)

RemoveCommand(p) ==
    /\ total_pools > 1
    /\ \/ Begins({"removepool"}) /\ screen' = FALSE
       \/ Begins({"screen_remove"}) /\ screen' = TRUE
    /\ Go(Operator, IF p = currentpool THEN "leave" ELSE "refuse", p, NoPool)
    /\ UNCHANGED <<poolVars, choiceVars, testing, loopVars>>

RemoveLeave ==
    at[Operator] = "leave" /\ Switch(Operator) /\ Then(Operator, "refuse")

\* The second look at the current pool: the removal is refused, or goes on.
RemoveRefused ==
    /\ at[Operator] = "refuse"
    /\ Then(Operator, IF about[Operator] = currentpool THEN "out" ELSE "disable")
    /\ Unchoosing

RemoveBegun ==
    LET p == about[Operator] IN
    /\ at[Operator] = "disable"
    /\ Disable(p)
    /\ IF screen THEN CountDisabled(p) ELSE UNCHANGED enabled_pools
    /\ Then(Operator, "renumber")
    /\ UNCHANGED <<tableVars, prio, idle, currentpool, pool_strategy,
                   pools_active, testing, loopVars, screen>>

RemoveRenumber ==
    LET p == about[Operator] IN
    /\ at[Operator] = "renumber"
    /\ prio' = [q \in Pool |-> IF q \in Table /\ prio[q] > prio[p]
                               THEN prio[q] - 1 ELSE prio[q]]
    /\ Then(Operator, "swap")
    /\ UNCHANGED <<tableVars, enabled, idle, choiceVars, testing, loopVars,
                   screen>>

\* The last pool takes the place of the one removed.
RemoveSwap ==
    LET p == about[Operator]
        last == pools[total_pools - 1] IN
    /\ at[Operator] = "swap"
    /\ IF p = last THEN UNCHANGED <<pools, pool_no>>
       ELSE /\ pool_no' = [pool_no EXCEPT ![last] = pool_no[p]]
            /\ pools' = [pools EXCEPT ![pool_no[p]] = last]
    /\ Then(Operator, "drop")
    /\ UNCHANGED <<total_pools, removed, created, prio, enabled, idle,
                   choiceVars, testing, loopVars, screen>>

RemoveDrop ==
    LET p == about[Operator] IN
    /\ at[Operator] = "drop"
    /\ pool_no' = [pool_no EXCEPT ![p] = total_pools]
    /\ removed' = removed \cup {p}
    /\ total_pools' = total_pools - 1
    /\ Then(Operator, "out")
    /\ UNCHANGED <<pools, created, prio, enabled, idle, choiceVars, testing,
                   loopVars, screen>>

RemovePool == RemoveLeave \/ RemoveRefused \/ RemoveBegun \/ RemoveRenumber
          \/ RemoveSwap \/ RemoveDrop

----------------------------------------------------------------------------
(* What the other threads find out about the pools.                        *)

Created == 0 .. created - 1

Reports(t, event) == pools_active /\ at[t] = "out" /\ event \in Events

\* pool_died
PoolDied(t, p) ==
    /\ Reports(t, "died")
    /\ ~idle[p]
    /\ idle' = [idle EXCEPT ![p] = TRUE]
    /\ Go(t, "current", p, NoPool)
    /\ UNCHANGED <<tableVars, prio, enabled, choiceVars, testing, loopVars,
                   screen>>

\* pool_tclear(idle), by watchpool_thread, stratum_resumed or the scheduler
PoolAlive(t, p) ==
    /\ Reports(t, "alive")
    /\ p \notin testing /\ idle[p]
    /\ idle' = [idle EXCEPT ![p] = FALSE]
    /\ Go(t, "resus", p, NoPool)
    /\ UNCHANGED <<tableVars, prio, enabled, choiceVars, testing, loopVars,
                   screen>>

\* test_pool_thread finds the pool alive, and first of all pools, perhaps.
TestPool(t, p) ==
    /\ at[t] = "out"
    /\ p \in testing
    /\ testing' = testing \ {p}
    /\ \/ /\ idle' = [idle EXCEPT ![p] = FALSE]
          /\ Go(t, "first", p, NoPool)
       \/ UNCHANGED <<idle, at, about, selected>>
    /\ UNCHANGED <<tableVars, prio, enabled, choiceVars, loopVars, screen>>

FirstAlive(t) ==
    /\ at[t] = "first"
    /\ pools_active' = TRUE
    /\ currentpool' = IF pools_active THEN currentpool ELSE about[t]
    /\ Then(t, "resus")
    /\ UNCHANGED <<poolVars, enabled_pools, pool_strategy, testing, loopVars,
                   screen>>

\* main tests the pools again until one is alive.
ProbePools ==
    /\ ~pools_active /\ testing = {}
    /\ \A t \in Thread : at[t] = "out"
    /\ testing' = Table
    /\ UNCHANGED <<poolVars, choiceVars, threadVars>>

\* share_result, after many rejects in a row and with --disable-rejecting
Rejects(t, p) ==
    /\ Reports(t, "rejects")
    /\ enabled_pools > 1
    /\ Go(t, "reject", p, NoPool)
    /\ Unchoosing

reject_pool(t) ==
    /\ at[t] = "reject"
    /\ enabled' = [enabled EXCEPT ![about[t]] = "rejecting"]
    /\ CountDisabled(about[t])
    /\ Then(t, "current")
    /\ UNCHANGED <<tableVars, prio, idle, currentpool, pool_strategy,
                   pools_active, testing, loopVars, screen>>

\* share_result, when a pool that is rejecting accepts a share
Accepts(t, p) ==
    /\ Reports(t, "accepts")
    /\ enabled[p] = "rejecting"
    /\ enabled' = [enabled EXCEPT ![p] = "enabled"]
    /\ CountEnabled(p)
    /\ Go(t, "switch", p, NoPool)
    /\ UNCHANGED <<tableVars, prio, idle, currentpool, pool_strategy,
                   pools_active, testing, loopVars, screen>>

\* watchpool_thread, after opt_rotate_period
Rotate(t) ==
    /\ Reports(t, "rotate")
    /\ pool_strategy = "rotate"
    /\ Go(t, "switch", 0, NoPool)
    /\ Unchoosing

----------------------------------------------------------------------------
Orders == {order \in SeqOf(Table, total_pools) : IsInjective(order) /\ order # <<>>}

Operate ==
    \/ \E p \in Table : SwitchCommand(p) \/ EnableCommand(p) \/ DisableCommand(p)
                        \/ RemoveCommand(p)
    \/ \E order \in Orders : PriorityCommand(order)
    \/ AddCommand \/ StrategyCommand
    \/ PriorityRound \/ PriorityDone \/ IfNotFirst \/ RemovePool

Report(t) ==
    \/ \E p \in Created : PoolDied(t, p) \/ PoolAlive(t, p) \/ TestPool(t, p)
                          \/ Rejects(t, p) \/ Accepts(t, p)
    \/ Rotate(t) \/ FirstAlive(t) \/ reject_pool(t)

\* A current pool that is no pool is a wild pointer: the program ends there.
Next ==
    /\ currentpool # NoPool
    /\ \/ Operate
       \/ \E t \in Net : Report(t)
       \/ \E t \in Thread : SwitchPools(t) \/ IfCurrent(t) \/ IfHigher(t)
                              \/ pool_resus(t)
       \/ ProbePools

Spec == Init /\ [][Next]_vars

----------------------------------------------------------------------------
\* No command or event is under way.
Quiet == pools_active /\ \A t \in Thread : at[t] = "out"

\* The priorities of the pools in the table are 0 to total_pools - 1, each
\* once: what priority_pool relies on, through promotion, removal, addition
\* and reordering.
PriosPermuted ==
    at[Operator] \notin {"unlisted", "swap", "drop"} =>
        {prio[p] : p \in Table} = 0 .. total_pools - 1

\* "If any of the earlier pools recover, it will move back to the higher
\* priority ones" (README.md:352): under failover no pool that could be used
\* has a higher priority than the current one, whatever raced with what, once
\* each thread that has changed something has also looked at the result.  A
\* removal gives two pools the same priority for a while, and switch_pools,
\* called meanwhile, may overlook one: so none has been removed.
FailsBack ==
    /\ TypeOK /\ PriosPermuted
    /\ Quiet /\ pool_strategy = "failover" /\ removed = {} =>
           \A p \in Table : pool_unusable(p) \/ prio[p] >= prio[currentpool]

\* The order poolpriority was asked for: the pools given to it come first, in the
\* order given, then the others in the order they had.
AskedBefore(p, q) ==
    IF q \in ToSet(asked)
    THEN \E m, n \in DOMAIN asked : m < n /\ asked[m] = p /\ asked[n] = q
    ELSE p \in ToSet(asked) \/ before[p] < before[q]

\* "Any pools not listed will be prioritised after the ones that are listed, in
\* the priority order they were originally" (API-README:403): so it is when the
\* rounds are over, whatever the other threads did between them.
OrderAsAsked ==
    at[Operator] = "prio0" =>
        \A p, q \in Table : prio[p] < prio[q] <=> AskedBefore(p, q)
=============================================================================
