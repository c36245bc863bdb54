------------------------------ MODULE FreshWork ------------------------------
(***************************************************************************)
(* Who waits for whom around the queue of staged work (yacminer.c):        *)
(*   - the getwork scheduler waits on gws_cond until work is wanted;       *)
(*   - miners wait on getq->cond for something to pop, and, after a scan   *)
(*     that found nonces, on fresh_work_cond for work to be staged;        *)
(*   - an accepted share sets fresh_work_requested and wakes the scheduler.*)
(* All three conditions belong to stgd_lock; what a thread does while it   *)
(* holds the lock is one step, and pthread_cond_wait ends that step.  A    *)
(* signal nobody waits for is lost.  Spurious wakeups are left out: what   *)
(* is said here is what the signals themselves do.                         *)
(*                                                                         *)
(* Of a staged work only its staleness matters here; StagedWork has the    *)
(* rest.                                                                   *)
(***************************************************************************)
EXTENDS Integers, FiniteSets

CONSTANTS Miner,       \* the mining threads
          MaxStaged,   \* max_staged: the scheduler makes work up to this many
          Benchmark,   \* opt_benchmark: no work is ever stale, no share accepted
          MaxQueue,    \* bound: works staged when a long poll adds one
          MaxShares    \* bound: shares being submitted at a time

ASSUME FreshAssumption ==
    /\ MaxStaged \in Nat /\ MaxQueue \in Nat /\ MaxShares \in Nat
    /\ Benchmark \in BOOLEAN

VARIABLES
    fresh,      \* works in staged_work that are not stale
    outdated,      \* works in staged_work that stale_work() refuses
    requested,  \* fresh_work_requested
    sched,      \* where the scheduler is
    full,       \* its local ts > max_staged
    made,       \* the work it is about to stage
    miner,      \* miner[m]: where miner m is
    held,       \* held[m]: the work miner m has
    shares,     \* shares being submitted
    answered    \* threads in share_result, between the request and wake_gws

stagedVars == <<fresh, outdated>>
schedVars == <<sched, full, made>>
minerVars == <<miner, held>>
shareVars == <<requested, shares, answered>>
freshVars == <<stagedVars, schedVars, minerVars, shareVars>>

Staleness == {"none", "fresh", "stale"}

FreshTypeOK ==
    /\ fresh \in Nat /\ outdated \in Nat
    /\ requested \in BOOLEAN
    /\ sched \in {"check", "wait", "woken", "decide", "take", "make", "push"}
    /\ full \in BOOLEAN
    /\ made \in Staleness /\ (made # "none" <=> sched = "push")
    /\ miner \in [Miner -> {"pop", "getq", "popped", "mining", "scanned",
                            "found", "wait", "woken"}]
    /\ held \in [Miner -> Staleness]
    /\ \A m \in Miner : held[m] = "none" <=> miner[m] \in {"pop", "getq"}
    /\ shares \in 0 .. MaxShares /\ answered \in Nat

FreshInit ==
    /\ fresh = 0 /\ outdated = 0
    /\ sched = "check" /\ full = FALSE /\ made = "none"
    /\ miner = [m \in Miner |-> "pop"]
    /\ held = [m \in Miner |-> "none"]
    /\ requested = FALSE /\ shares = 0 /\ answered = 0

----------------------------------------------------------------------------
(* Signals.                                                                *)

\* pthread_cond_signal(&gws_cond), as the scheduler's control point after it
SignalGws == IF sched = "wait" THEN "woken" ELSE sched

\* The miners one signal may wake, of those that wait at label.
OneOf(label) ==
    LET waiting == {m \in Miner : miner[m] = label}
    IN  IF waiting = {} THEN {{}} ELSE {{m} : m \in waiting}

\* Bug: hash_push signals one of the miners that wait to pop, not all of them.
HashPushSignals(work) ==
    /\ fresh' = IF work = "fresh" THEN fresh + 1 ELSE fresh
    /\ outdated' = 0
    /\ \E W \in OneOf("wait"), G \in OneOf("getq") :
          miner' = [m \in Miner |-> IF m \in G THEN "pop"
                                    ELSE IF m \in W THEN "woken" ELSE miner[m]]

\* hash_push of a work: the stale works are discarded, one miner waiting for
\* fresh work is signalled, and all those that wait to pop.
hash_push(work) ==
    /\ fresh' = IF work = "fresh" THEN fresh + 1 ELSE fresh
    /\ outdated' = 0
    /\ \E W \in OneOf("wait") :
          miner' = [m \in Miner |-> IF miner[m] = "getq" THEN "pop"
                                    ELSE IF m \in W THEN "woken" ELSE miner[m]]

----------------------------------------------------------------------------
(* The scheduler: main()'s loop.                                           *)

TooMany == fresh + outdated > MaxStaged

Check ==
    /\ sched = "check"
    /\ full' = TooMany
    /\ sched' = IF TooMany \/ requested THEN "wait" ELSE "decide"
    /\ UNCHANGED <<stagedVars, made, minerVars, shareVars>>

\* pthread_cond_wait returns: the works are counted again.
Woken ==
    /\ sched = "woken"
    /\ full' = TooMany
    /\ sched' = "decide"
    /\ UNCHANGED <<stagedVars, made, minerVars, shareVars>>

\* The lock is free from here on.
Decide ==
    /\ sched = "decide"
    /\ sched' = IF full /\ ~requested THEN "check" ELSE "take"
    /\ UNCHANGED <<stagedVars, full, made, minerVars, shareVars>>

TakeRequest ==
    /\ sched = "take"
    /\ requested' = FALSE
    /\ sched' = "make"
    /\ UNCHANGED <<stagedVars, full, made, minerVars, shares, answered>>

\* gen_stratum_work, gen_gbt_work, clone_available or get_upstream_work has
\* given a work; a pool that does not is retried every 5 s.
Make ==
    /\ sched = "make"
    /\ made' = "fresh"
    /\ sched' = "push"
    /\ UNCHANGED <<stagedVars, full, minerVars, shareVars>>

StageWork ==
    /\ sched = "push"
    /\ hash_push(made)
    /\ made' = "none"
    /\ sched' = "check"
    /\ UNCHANGED <<full, held, shareVars>>

Scheduler == Check \/ Woken \/ Decide \/ TakeRequest \/ Make \/ StageWork

----------------------------------------------------------------------------
(* Miners: get_work, and the loop of hash_sole_work.                       *)

HashPopWait(m) ==
    /\ miner[m] = "pop" /\ fresh + outdated = 0
    /\ miner' = [miner EXCEPT ![m] = "getq"]
    /\ UNCHANGED <<stagedVars, schedVars, held, shareVars>>

\* hash_pop signals the scheduler, and another miner that waits to pop.
HashPop(m) ==
    /\ miner[m] = "pop"
    /\ \/ fresh > 0 /\ fresh' = fresh - 1 /\ held' = [held EXCEPT ![m] = "fresh"]
          /\ UNCHANGED outdated
       \/ outdated > 0 /\ outdated' = outdated - 1 /\ held' = [held EXCEPT ![m] = "stale"]
          /\ UNCHANGED fresh
    /\ \E W \in OneOf("getq") :
          miner' = [n \in Miner |-> IF n = m THEN "popped"
                                    ELSE IF n \in W THEN "pop" ELSE miner[n]]
    /\ sched' = SignalGws
    /\ UNCHANGED <<full, made, shareVars>>

\* get_work tries again when the work it has popped is stale.
DiscardPopped(m) ==
    /\ miner[m] = "popped" /\ held[m] = "stale"
    /\ miner' = [miner EXCEPT ![m] = "pop"]
    /\ held' = [held EXCEPT ![m] = "none"]
    /\ sched' = SignalGws
    /\ UNCHANGED <<stagedVars, full, made, shareVars>>

TakeWork(m) ==
    /\ miner[m] = "popped" /\ held[m] = "fresh"
    /\ miner' = [miner EXCEPT ![m] = "mining"]
    /\ UNCHANGED <<stagedVars, schedVars, held, shareVars>>

ScanNothing(m) ==
    /\ miner[m] = "mining"
    /\ miner' = [miner EXCEPT ![m] = "scanned"]
    /\ UNCHANGED <<stagedVars, schedVars, held, shareVars>>

\* scanhash found nonces: postcalc_hash_async marks the work submitted before
\* a thread of its own looks at them.
ScanFound(m) ==
    /\ miner[m] = "mining"
    /\ shares < MaxShares
    /\ shares' = shares + 1
    /\ miner' = [miner EXCEPT ![m] = "found"]
    /\ UNCHANGED <<stagedVars, schedVars, held, requested, answered>>

\* abandon_work is true: the work is stale, old or exhausted, or
\* mythr->work_restart is set.
Abandon(m) ==
    /\ miner[m] \in {"scanned", "found"}
    /\ miner' = [miner EXCEPT ![m] = "pop"]
    /\ held' = [held EXCEPT ![m] = "none"]
    /\ UNCHANGED <<stagedVars, schedVars, shareVars>>

ScanOn(m) ==
    /\ miner[m] = "scanned" /\ held[m] = "fresh"
    /\ miner' = [miner EXCEPT ![m] = "mining"]
    /\ UNCHANGED <<stagedVars, schedVars, held, shareVars>>

\* abandon_work of a work that is submitted, and not stale or exhausted.
AwaitFresh(m) ==
    /\ miner[m] = "found" /\ held[m] = "fresh"
    /\ miner' = [miner EXCEPT ![m] = "wait"]
    /\ UNCHANGED <<stagedVars, schedVars, held, shareVars>>

FreshArrived(m) ==
    /\ miner[m] = "woken"
    /\ miner' = [miner EXCEPT ![m] = "pop"]
    /\ held' = [held EXCEPT ![m] = "none"]
    /\ UNCHANGED <<stagedVars, schedVars, shareVars>>

Mine(m) ==
    \/ HashPopWait(m) \/ HashPop(m) \/ DiscardPopped(m) \/ TakeWork(m)
    \/ ScanNothing(m) \/ ScanFound(m) \/ Abandon(m) \/ ScanOn(m)
    \/ AwaitFresh(m) \/ FreshArrived(m)

----------------------------------------------------------------------------
(* The fate of a share.                                                    *)

\* A hardware error, below target, discarded as stale, rejected or lost.
ShareDropped ==
    /\ shares > 0
    /\ shares' = shares - 1
    /\ UNCHANGED <<stagedVars, schedVars, minerVars, requested, answered>>

\* share_result, when the pool accepts: the request, under stgd_lock ...
ShareAccepted ==
    /\ ~Benchmark
    /\ shares > 0 /\ answered < MaxShares
    /\ shares' = shares - 1
    /\ requested' = TRUE
    /\ answered' = answered + 1
    /\ UNCHANGED <<stagedVars, schedVars, minerVars>>

\* ... then wake_gws, which takes the lock again.
WakeGws ==
    /\ answered > 0
    /\ answered' = answered - 1
    /\ sched' = SignalGws
    /\ UNCHANGED <<stagedVars, full, made, minerVars, requested, shares>>

----------------------------------------------------------------------------
(* Time, the other threads and the pools.                                  *)

\* A work becomes stale: it expires, or the block or the job changes.
StagedExpires ==
    /\ ~Benchmark /\ fresh > 0
    /\ fresh' = fresh - 1 /\ outdated' = outdated + 1
    /\ UNCHANGED <<schedVars, minerVars, shareVars>>

HeldExpires(m) ==
    /\ ~Benchmark /\ held[m] = "fresh"
    /\ held' = [held EXCEPT ![m] = "stale"]
    /\ UNCHANGED <<stagedVars, schedVars, miner, shareVars>>

MadeExpires ==
    /\ ~Benchmark /\ made = "fresh"
    /\ made' = "stale"
    /\ UNCHANGED <<stagedVars, sched, full, minerVars, shareVars>>

\* Bug: discard_stale does not signal the scheduler.
WatchdogSilent ==
    /\ outdated > 0
    /\ outdated' = 0
    /\ UNCHANGED <<fresh, schedVars, minerVars, shareVars>>

\* discard_stale, called by watchdog_thread every 2 s
Watchdog ==
    /\ outdated > 0 \/ sched = "wait"
    /\ outdated' = 0
    /\ sched' = SignalGws
    /\ UNCHANGED <<fresh, full, made, minerVars, shareVars>>

\* clear_pool_work tells nobody that it has emptied the queue.
ClearPoolWork ==
    /\ ~Benchmark /\ fresh + outdated > 0
    /\ fresh' = 0 /\ outdated' = 0
    /\ UNCHANGED <<schedVars, minerVars, shareVars>>

\* convert_to_work: the long poll thread stages what it was given.
LongPollPush ==
    /\ ~Benchmark /\ fresh + outdated < MaxQueue
    /\ hash_push("fresh")
    /\ sched' = SignalGws
    /\ UNCHANGED <<full, made, held, shareVars>>

----------------------------------------------------------------------------
FreshNext ==
    \/ Scheduler
    \/ \E m \in Miner : Mine(m) \/ HeldExpires(m)
    \/ ShareDropped \/ ShareAccepted \/ WakeGws
    \/ StagedExpires \/ MadeExpires
    \/ Watchdog \/ ClearPoolWork \/ LongPollPush

FreshSpec == FreshInit /\ [][FreshNext]_freshVars

\* What comes from outside: a block, a job, a switch of pools, a long poll's
\* answer, an expiry at the very moment a thread is about to use the work.
Disturbance ==
    \/ ClearPoolWork \/ LongPollPush \/ MadeExpires
    \/ \E m \in Miner : HeldExpires(m)
    \/ StagedExpires /\ \E m \in Miner : miner[m] \in {"woken", "pop", "popped"}

(* Threads run: the scheduler (a pool answers in the end), the watchdog's   *)
(* 2 s timer, a thread that has answered a share, and each miner's own      *)
(* steps.  Time passes, so what stays staged expires.  What a miner finds   *)
(* and what becomes of a share is not assumed.  A work lives for 5 s at     *)
(* least (stale_work, yacminer.c:3557), long enough to be popped and begun, *)
(* unless something outside comes between; that it does not come between    *)
(* every time is the last conjunct.                                         *)
FreshFairness ==
    /\ WF_freshVars(Scheduler)
    /\ WF_freshVars(Watchdog)
    /\ WF_freshVars(WakeGws)
    /\ WF_freshVars(StagedExpires)
    /\ \A m \in Miner : WF_freshVars(Mine(m))
    /\ <>[][~Disturbance]_freshVars
FreshFairSpec == FreshSpec /\ FreshFairness

----------------------------------------------------------------------------
\* No miner sleeps on getq->cond while something is staged: hash_push wakes
\* every one of them, and a miner only goes to sleep under the lock.
PoppersAwake ==
    FreshTypeOK /\ (fresh + outdated > 0 => \A m \in Miner : miner[m] # "getq")

\* A request for fresh work is taken up, although its signal may come before
\* the scheduler waits for it: the watchdog's discard_stale signals again.
RequestServed == requested ~> ~requested

\* Mining never stops for good: when every miner waits, for something to pop or
\* for fresh work after its nonces, some miner mines again.
MiningGoesOn == []<>(\E m \in Miner : miner[m] = "mining")
=============================================================================
