----------------------------- MODULE SubmitWork -----------------------------
(***************************************************************************)
(* A getwork pool's HTTP connections.  The scheduler, which fetches work,  *)
(* and one thread per share share a ring of curl handles; a share is sent  *)
(* again until the pool answers or the share is stale.  watchpool_thread   *)
(* reaps the handles that are idle.                                        *)
(*                                                                         *)
(* One pool is modelled.  A critical section of pool_lock is one step, and *)
(* pthread_cond_wait ends a step.  What the answers do to the pool itself  *)
(* (enabled, idle, current) is in PoolManager, and what an accepted share  *)
(* asks of the scheduler in FreshWork.                                     *)
(***************************************************************************)
EXTENDS Integers, Sequences, FiniteSets, SequencesExt

CONSTANTS Works,            \* works of this pool that can be out at a time
          Main,             \* the getwork scheduler: main() after its set-up
          NoHandle,
          curl_limit,       \* (mining_threads + opt_queue) * 2, or 5
          opt_lowmem,
          opt_submit_stale  \* stands for pool->submit_old as well

ASSUME SubmitAssumption ==
    /\ Main \notin Works
    /\ curl_limit \in Nat \ {0}
    /\ NoHandle \notin 1..curl_limit
    /\ {opt_lowmem, opt_submit_stale} \subseteq BOOLEAN

Threads == Works \union {Main}
Handles == 1..curl_limit

VARIABLES
    where,        \* where a thread is; for a work without a thread, its state
    ce,           \* the handle a thread has
    curlring,     \* the idle handles, pool->curlring
    curls,        \* pool->curls, counted by hand
    unused,       \* how many at the head of the ring have been there for over 300 s
    submit_fail,  \* pool->submit_fail
    stale,        \* works whose block or time has passed
    live,         \* copies that submit_work_async made and nobody has freed
    tally         \* history: how often a share entered the statistics

submitVars == <<where, ce, curlring, curls, unused, submit_fail, stale, live, tally>>

(* "none": no such work; "mined": a miner has it.  The rest are the steps  *)
(* of the threads.                                                         *)
WorkStates == {"none", "mined", "pop", "wait", "woken", "send", "sleep", "push"}
MainStates == {"make", "pop", "wait", "woken", "get", "sleep", "push"}

SubmitTypeOK ==
    /\ where \in [Threads -> WorkStates \union MainStates]
    /\ ce \in [Threads -> Handles \union {NoHandle}]
    /\ curlring \in Seq(Handles)
    /\ curls \in 0..curl_limit
    /\ unused \in 0..Len(curlring)
    /\ submit_fail \in BOOLEAN
    /\ stale \subseteq Works
    /\ live \subseteq Works
    /\ tally \in [Works -> 0..2]

InUse == {ce[t] : t \in Threads} \ {NoHandle}

SubmitInit ==
    /\ where = [t \in Threads |-> IF t = Main THEN "make" ELSE "none"]
    /\ ce = [t \in Threads |-> NoHandle]
    /\ curlring = <<>> /\ curls = 0 /\ unused = 0
    /\ submit_fail = FALSE
    /\ stale = {} /\ live = {}
    /\ tally = [w \in Works |-> 0]

-----------------------------------------------------------------------------
(* The ring *)

(* recruit_curl puts a new handle at the head and counts it; the caller    *)
(* takes the head.                                                         *)
Recruit(t) ==
    \E h \in Handles \ (InUse \union ToSet(curlring)) :
        /\ ce' = [ce EXCEPT ![t] = h]
        /\ curls' = curls + 1
        /\ UNCHANGED <<curlring, unused>>

TakeHead(t) ==
    /\ ce' = [ce EXCEPT ![t] = Head(curlring)]
    /\ curlring' = Tail(curlring)
    /\ unused' = IF unused = 0 THEN 0 ELSE unused - 1
    /\ UNCHANGED curls

(* pop_curl_entry, from the lock to the wait or the unlock; a thread that  *)
(* is woken starts again.                                                  *)
PopCurl(t, next) ==
    /\ where[t] \in {"pop", "woken"}
    /\ \/ /\ curlring = <<>>
          /\ curls > 0 /\ curls >= curl_limit
          /\ where' = [where EXCEPT ![t] = "wait"]
          /\ UNCHANGED <<ce, curlring, curls, unused>>
       \/ /\ curlring = <<>>
          /\ curls = 0 \/ curls < curl_limit
          /\ Recruit(t)
          /\ where' = [where EXCEPT ![t] = next]
       \/ /\ curlring # <<>>
          /\ TakeHead(t)
          /\ where' = [where EXCEPT ![t] = next]
    /\ UNCHANGED <<submit_fail, stale, live, tally>>

PushKeepsWaiters(t, next) ==
    /\ where[t] = "push"
    /\ curlring' = Append(curlring, ce[t])
    /\ ce' = [ce EXCEPT ![t] = NoHandle]
    /\ where' = [where EXCEPT ![t] = next]
    /\ UNCHANGED <<curls, unused, submit_fail>>

(* push_curl_entry: to the tail, with a new time, and a broadcast.  So the *)
(* ring is in the order of those times.                                    *)
PushCurl(t, next) ==
    /\ where[t] = "push"
    /\ curlring' = Append(curlring, ce[t])
    /\ ce' = [ce EXCEPT ![t] = NoHandle]
    /\ where' = [x \in Threads |-> IF x = t THEN next
                                ELSE IF where[x] = "wait" THEN "woken" ELSE where[x]]
    /\ UNCHANGED <<curls, unused, submit_fail>>

Age ==
    /\ curlring # <<>>
    /\ unused' = Len(curlring)
    /\ UNCHANGED <<where, ce, curlring, curls, submit_fail, stale, live, tally>>

(* reap_curl goes along the ring until one handle is left in all; the      *)
(* handles it frees are the first of the ring.                             *)
Reaped == IF curls < 2 THEN 0 ELSE IF unused < curls THEN unused ELSE curls - 1

ReapKeepsCount ==
    /\ Reaped # 0
    /\ curlring' = SubSeq(curlring, Reaped + 1, Len(curlring))
    /\ unused' = unused - Reaped
    /\ UNCHANGED <<where, ce, curls, submit_fail, stale, live, tally>>

ReapCurl ==
    /\ Reaped # 0
    /\ curlring' = SubSeq(curlring, Reaped + 1, Len(curlring))
    /\ curls' = curls - Reaped
    /\ unused' = unused - Reaped
    /\ UNCHANGED <<where, ce, submit_fail, stale, live, tally>>

-----------------------------------------------------------------------------
(* The scheduler *)

(* The selected pool is this one and no other way gives work.              *)
MakeWork ==
    /\ where[Main] = "make"
    /\ where' = [where EXCEPT ![Main] = "pop"]
    /\ UNCHANGED <<ce, curlring, curls, unused, submit_fail, stale, live, tally>>

MainPops == PopCurl(Main, "get")

(* get_upstream_work and stage_work: the pool gives a work.                *)
GetWork(w) ==
    /\ where[Main] = "get"
    /\ where[w] = "none"
    /\ where' = [where EXCEPT ![Main] = "push", ![w] = "mined"]
    /\ stale' = stale \ {w}
    /\ live' = live \ {w}
    /\ tally' = [tally EXCEPT ![w] = 0]
    /\ UNCHANGED <<ce, curlring, curls, unused, submit_fail>>

(* json_rpc_call or work_decode fails: 5 s later the handle goes back, and *)
(* select_pool says where to try again, here or at another pool.           *)
GetFails ==
    /\ where[Main] = "get"
    /\ where' = [where EXCEPT ![Main] = "sleep"]
    /\ UNCHANGED <<ce, curlring, curls, unused, submit_fail, stale, live, tally>>

MainSleeps ==
    /\ where[Main] = "sleep"
    /\ where' = [where EXCEPT ![Main] = "push"]
    /\ UNCHANGED <<ce, curlring, curls, unused, submit_fail, stale, live, tally>>

MainPushes == PushCurl(Main, "make") /\ UNCHANGED <<stale, live, tally>>

-----------------------------------------------------------------------------
(* A share *)

(* stale_work(work, TRUE): the block has changed or the time is over, for  *)
(* good.                                                                   *)
GoesStale(w) ==
    /\ where[w] # "none" /\ w \notin stale
    /\ stale' = stale \union {w}
    /\ UNCHANGED <<where, ce, curlring, curls, unused, submit_fail, live, tally>>

CountShare(w) == tally' = [tally EXCEPT ![w] = @ + 1]

(* The miner gives its work up without a share, or submit_nonce finds a    *)
(* hardware error or a share below the target.                             *)
NoShare(w) ==
    /\ where[w] = "mined"
    /\ where' = [where EXCEPT ![w] = "none"]
    /\ UNCHANGED <<ce, curlring, curls, unused, submit_fail, stale, live, tally>>

(* submit_nonce and submit_work_async: a copy gets a thread of its own,    *)
(* unless it is stale and nobody wants it.  One share per work.            *)
SubmitShare(w) ==
    /\ where[w] = "mined"
    /\ \/ /\ w \in stale /\ ~opt_submit_stale
          /\ CountShare(w)
          /\ where' = [where EXCEPT ![w] = "none"]
          /\ UNCHANGED live
       \/ /\ w \notin stale \/ opt_submit_stale
          /\ where' = [where EXCEPT ![w] = "pop"]
          /\ live' = live \union {w}
          /\ UNCHANGED tally
    /\ UNCHANGED <<ce, curlring, curls, unused, submit_fail, stale>>

SharePops(w) == where[w] \in {"pop", "woken"} /\ PopCurl(w, "send")

(* submit_upstream_work gets an answer and share_result counts it.         *)
Answered(w) ==
    /\ where[w] = "send"
    /\ submit_fail' = FALSE
    /\ CountShare(w)
    /\ where' = [where EXCEPT ![w] = "push"]
    /\ UNCHANGED <<ce, curlring, curls, unused, stale, live>>

(* json_rpc_call gives NULL: no connection, no JSON, or an error object.   *)
(* The first failure under opt_lowmem skips the 5 s.                       *)
CallFails(w) ==
    /\ where[w] = "send"
    /\ submit_fail' = TRUE
    /\ where' = [where EXCEPT ![w] = IF ~submit_fail /\ opt_lowmem THEN "push" ELSE "sleep"]
    /\ UNCHANGED <<ce, curlring, curls, unused, stale, live, tally>>

KeepsTrying(w) ==
    /\ where[w] = "sleep"
    /\ \/ /\ opt_lowmem
          /\ where' = [where EXCEPT ![w] = "push"]
          /\ UNCHANGED <<live, tally>>
       \/ /\ ~opt_lowmem /\ w \in stale
          /\ CountShare(w)
          /\ live' = live \ {w}
          /\ where' = [where EXCEPT ![w] = "send"]
       \/ /\ ~opt_lowmem /\ w \notin stale
          /\ where' = [where EXCEPT ![w] = "send"]
          /\ UNCHANGED <<live, tally>>
    /\ UNCHANGED <<ce, curlring, curls, unused, submit_fail, stale>>

(* The loop of submit_work_thread: the share is given up to save memory,   *)
(* or because it is stale, which frees it, or else sent again.             *)
Retry(w) ==
    /\ where[w] = "sleep"
    /\ \/ /\ opt_lowmem
          /\ where' = [where EXCEPT ![w] = "push"]
          /\ UNCHANGED <<live, tally>>
       \/ /\ ~opt_lowmem /\ w \in stale
          /\ CountShare(w)
          /\ live' = live \ {w}
          /\ where' = [where EXCEPT ![w] = "push"]
       \/ /\ ~opt_lowmem /\ w \notin stale
          /\ where' = [where EXCEPT ![w] = "send"]
          /\ UNCHANGED <<live, tally>>
    /\ UNCHANGED <<ce, curlring, curls, unused, submit_fail, stale>>

SharePushes(w) == PushCurl(w, "none") /\ UNCHANGED <<stale, live, tally>>

-----------------------------------------------------------------------------
SubmitNext ==
    \/ Age \/ ReapCurl
    \/ MakeWork \/ MainPops \/ GetFails \/ MainSleeps \/ MainPushes
    \/ \E w \in Works :
          \/ GetWork(w) \/ GoesStale(w) \/ NoShare(w) \/ SubmitShare(w) \/ SharePops(w)
          \/ Answered(w) \/ CallFails(w) \/ Retry(w) \/ SharePushes(w)

(* Threads run, calls end within their 60 s, works go stale.  No answer of *)
(* the pool is assumed.                                                    *)
SubmitFairness ==
    /\ WF_submitVars(MakeWork) /\ WF_submitVars(MainPops) /\ WF_submitVars(GetFails)
    /\ WF_submitVars(MainSleeps) /\ WF_submitVars(MainPushes)
    /\ \A w \in Works :
          /\ WF_submitVars(GoesStale(w))
          /\ WF_submitVars(SharePops(w)) /\ WF_submitVars(CallFails(w))
          /\ WF_submitVars(Retry(w)) /\ WF_submitVars(SharePushes(w))

SubmitSpec == SubmitInit /\ [][SubmitNext]_submitVars /\ SubmitFairness

-----------------------------------------------------------------------------
(* pop_curl_entry, push_curl_entry, recruit_curl and reap_curl: a handle   *)
(* is in the ring or has one user, and pool->curls, which decides whether  *)
(* a thread waits, counts the handles there are.                           *)
HandlesCounted ==
    /\ SubmitTypeOK
    /\ IsInjective(curlring)
    /\ InUse \cap ToSet(curlring) = {}
    /\ \A s, t \in Threads : s # t /\ ce[s] # NoHandle => ce[s] # ce[t]
    /\ curls = Len(curlring) + Cardinality(InUse)

(* submit_work_async, submit_work_thread and share_result: however often a *)
(* share is sent it is counted at most once, and a share is not given up   *)
(* uncounted but to save memory.                                           *)
CountedOnce ==
    \A w \in Works : /\ tally[w] <= 1
                     /\ where[w] = "push" /\ ~opt_lowmem => tally[w] = 1

(* submit_work_thread and free_work: "the central place all work that is   *)
(* about to be retired should be cleaned".  Does not hold: only a share    *)
(* that became stale is freed.                                             *)
SharesAreFreed ==
    [][\A w \in Works : where[w] = "push" /\ where'[w] = "none" => w \notin live]_submitVars

(* The getwork scheduler (8390-8403): though shares are kept for a pool    *)
(* that is down and hold every handle, it gets one.                        *)
FetchGoesOn == where[Main] = "pop" ~> where[Main] = "get"
=============================================================================
