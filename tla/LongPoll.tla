------------------------------ MODULE LongPoll ------------------------------
(***************************************************************************)
(* Long polling.  A getwork pool has a thread that asks for long polls, of *)
(* its own pool or of the first that supports them, while its pool is      *)
(* current; what becomes of the answer is in BlockDetect.  Of              *)
(* switch_pools, which is in PoolManager, here are the choice and the      *)
(* broadcast.                                                              *)
(***************************************************************************)
EXTENDS Integers, Sequences, FiniteSets, SequencesExt

CONSTANTS Pools,          \* the pools in the order of pools[]
          Supports,       \* those with a long poll (hdr_path)
          Stratum,        \* those with stratum
          NoSource,       \* no pool
          MaxCommands     \* bound on switches, and changes and removals of pools

PoolSet == ToSet(Pools)

ASSUME LongPollAssumption ==
    /\ Supports \union Stratum \subseteq PoolSet /\ IsInjective(Pools)
    /\ NoSource \notin PoolSet /\ Pools # <<>> /\ Pools \in Seq(PoolSet)
    /\ MaxCommands \in Nat

VARIABLES
    current,      \* currentpool
    pool_enabled, \* each pool's pool->enabled
    lp_removed,   \* pools that remove_pool has taken out of pools[]
    commands,     \* how many of these there have been
    switching,    \* switch_pools has chosen and has yet to broadcast lp_cond
    lp,           \* where a long poll thread is
    source,       \* its variable pool: whose long poll it uses
    unheard       \* history: threads whose last broadcast or enabling came
                  \* between their test and their wait, or without a broadcast

pollPoolVars == <<current, pool_enabled, lp_removed, commands, switching, unheard>>
lpVars == <<lp, source>>
longPollVars == <<current, pool_enabled, lp_removed, commands, switching, unheard, lp, source>>

LpStates == {"select", "enter", "test", "sleep", "asleep", "poll", "check", "out"}

LongPollTypeOK ==
    /\ current \in PoolSet
    /\ pool_enabled \in [PoolSet -> {"enabled", "disabled", "rejecting"}]
    /\ lp_removed \subseteq PoolSet
    /\ commands \in 0..MaxCommands /\ switching \in BOOLEAN
    /\ unheard \subseteq PoolSet
    /\ lp \in [PoolSet -> LpStates]
    /\ source \in [PoolSet -> PoolSet \union {NoSource}]

LongPollInit ==
    /\ current = Head(Pools)
    /\ pool_enabled = [p \in PoolSet |-> "enabled"]
    /\ lp_removed = {} /\ commands = 0 /\ switching = FALSE /\ unheard = {}
    /\ lp = [p \in PoolSet |-> "select"]
    /\ source = [p \in PoolSet |-> NoSource]

-----------------------------------------------------------------------------
(* The operator, the other pools' events and the network *)

Asleep(p) == lp[p] \in {"sleep", "asleep"}

LpCommand == commands < MaxCommands /\ commands' = commands + 1

LpSwitch(p) ==
    /\ LpCommand
    /\ ~switching
    /\ p \notin lp_removed /\ pool_enabled[p] = "enabled"
    /\ current' = p /\ switching' = TRUE
    /\ UNCHANGED <<pool_enabled, lp_removed, unheard>> /\ UNCHANGED lpVars

SilentSwitch ==
    /\ switching
    /\ switching' = FALSE
    /\ UNCHANGED <<current, pool_enabled, lp_removed, commands, unheard>>
    /\ UNCHANGED lpVars

(* Its end: only those that wait on lp_cond by now hear it.                *)
Broadcast ==
    /\ switching
    /\ switching' = FALSE
    /\ lp' = [p \in PoolSet |-> IF lp[p] = "asleep" THEN "test" ELSE lp[p]]
    /\ unheard' = unheard \union {p \in PoolSet : lp[p] = "sleep"}
    /\ UNCHANGED <<current, pool_enabled, lp_removed, commands, source>>

(* reject_pool by share_result, disable_pool by the operator, enable_pool  *)
(* by either: none of them broadcasts.                                     *)
SetEnabled(p, e) ==
    /\ LpCommand
    /\ p \notin lp_removed /\ pool_enabled[p] # e
    /\ pool_enabled' = [pool_enabled EXCEPT ![p] = e]
    /\ unheard' = IF Asleep(p) /\ p = current THEN unheard \union {p} ELSE unheard
    /\ UNCHANGED <<current, lp_removed, switching>> /\ UNCHANGED lpVars

LpRemove(p) ==
    /\ LpCommand
    /\ p \notin lp_removed /\ p # current /\ pool_enabled[p] = "disabled"
    /\ lp_removed' = lp_removed \union {p}
    /\ UNCHANGED <<current, pool_enabled, switching, unheard>> /\ UNCHANGED lpVars

-----------------------------------------------------------------------------
(* longpoll_thread *)

PoolNumber(p) == CHOOSE i \in DOMAIN Pools : Pools[i] = p

(* select_longpoll_pool: cp, or the first in the table that helps.         *)
LongPollPool(cp) ==
    IF cp \in Supports THEN cp
    ELSE LET can == (Supports \union Stratum) \ lp_removed
         IN  IF can = {} THEN NoSource
             ELSE CHOOSE p \in can : \A q \in can : PoolNumber(p) <= PoolNumber(q)

LpStep(p, from, to) ==
    /\ lp[p] = from
    /\ lp' = [lp EXCEPT ![p] = to]

(* retry_pool: without a pool it looks again every minute; block changes   *)
(* of a stratum pool are seen by its own thread.                           *)
Select(p) ==
    /\ LongPollPool(p) # NoSource
    /\ LpStep(p, "select", IF LongPollPool(p) \in Stratum THEN "out" ELSE "enter")
    /\ source' = [source EXCEPT ![p] = LongPollPool(p)]
    /\ UNCHANGED pollPoolVars

(* wait_lpcurrent: cnx_needed, which is not asked again.  An enabled pool  *)
(* may be needed for other reasons than being current.                     *)
Enter(p) ==
    /\ \/ pool_enabled[p] = "enabled" /\ LpStep(p, "enter", "poll")
       \/ ~(pool_enabled[p] = "enabled" /\ p = current) /\ LpStep(p, "enter", "test")
    /\ UNCHANGED source /\ UNCHANGED pollPoolVars

(* The loop's test, outside lp_lock.                                       *)
Test(p) ==
    /\ LpStep(p, "test", IF pool_enabled[p] = "disabled" \/ p # current THEN "sleep" ELSE "poll")
    /\ unheard' = unheard \ {p}
    /\ UNCHANGED source /\ UNCHANGED <<current, pool_enabled, lp_removed, commands, switching>>

Sleep(p) == LpStep(p, "sleep", "asleep") /\ UNCHANGED source /\ UNCHANGED pollPoolVars

(* json_rpc_call answers, and convert_to_work has made a work of it, or it *)
(* has failed; a failure within 30 s is followed by 30 s of sleep.         *)
Poll(p) == LpStep(p, "poll", "check") /\ UNCHANGED source /\ UNCHANGED pollPoolVars

(* The end of the loop: a thread that polls another pool looks for its     *)
(* source again, and one whose source has been removed ends.                  *)
Check(p) ==
    /\ LET s == IF source[p] # p THEN LongPollPool(p) ELSE p
       IN  /\ s # NoSource
           /\ LpStep(p, "check", IF s \in Stratum \/ s \in lp_removed THEN "out" ELSE "enter")
           /\ source' = [source EXCEPT ![p] = s]
    /\ UNCHANGED pollPoolVars

-----------------------------------------------------------------------------
LongPollNext ==
    \/ Broadcast
    \/ \E p \in PoolSet :
          \/ LpSwitch(p) \/ LpRemove(p)
          \/ \E e \in {"enabled", "disabled", "rejecting"} : SetEnabled(p, e)
          \/ Select(p) \/ Enter(p) \/ Test(p) \/ Sleep(p) \/ Poll(p) \/ Check(p)

LongPollSpec == LongPollInit /\ [][LongPollNext]_longPollVars

-----------------------------------------------------------------------------
(* wait_lpcurrent and switch_pools: the thread of a current pool that is   *)
(* not disabled sleeps only until the broadcast that is under way, or      *)
(* because it missed one: between its test and its wait, or because the    *)
(* pool was enabled, which broadcasts nothing.                             *)
AsleepForAReason ==
    /\ LongPollTypeOK
    /\ \A p \in PoolSet :
        Asleep(p) /\ p = current /\ pool_enabled[p] # "disabled" => switching \/ p \in unheard

(* The comment on wait_lpcurrent: "wait till it's the current pool, or it  *)
(* has been flagged as rejecting".  Does not hold: a rejecting pool that   *)
(* is not current sleeps like any other.                                   *)
RejectingPolls ==
    [][\A p \in PoolSet : lp[p] = "test" /\ pool_enabled[p] = "rejecting"
                              => lp'[p] # "sleep"]_longPollVars
=============================================================================
