---------------------------- MODULE StratumWork ----------------------------
(***************************************************************************)
(* The work a stratum pool's notifications are turned into.  Two threads   *)
(* run gen_stratum_work: the getwork scheduler (main, yacminer.c:8349) and *)
(* the pool's receive thread (stratum_rthread, after a notify that says    *)
(* "clean").  The receive thread also runs parse_notify and, when the      *)
(* connection is restarted, initiate_stratum.  They share pool->swork,     *)
(* pool->nonce1 and pool->nonce2 under pool->data_lock, a cglock: this     *)
(* module composes the three with CgLock.                                  *)
(*                                                                         *)
(* A notification is a number; job and body are the job_id and the other   *)
(* fields of swork, each as the number of the notification it came from.   *)
(* The pool gives every notification a fresh job_id.                       *)
(***************************************************************************)
EXTENDS CgLock, Naturals, FiniteSets, Sequences, SequencesExt

CONSTANTS Scheduler, Receiver,  \* the two threads that generate work
          MaxNotify,            \* bound: notifications the pool sends
          MaxSession,           \* bound: sessions (values of extranonce1)
          MaxWork               \* bound: works generated

ASSUME ThreadAssumption == {Scheduler, Receiver} \subseteq Thread /\ Scheduler # Receiver

VARIABLES job,      \* notification swork.job_id is from; 0 before the first
          body,     \* notification the rest of swork is from
          clean,    \* pool->swork.clean
          nonce1,   \* pool->nonce1: a session number, or 0 for NULL
          nonce2,   \* pool->nonce2
          active,   \* pool->stratum_active
          notify,   \* pool->stratum_notify
          sessions, \* sessions the pool has opened
          task,     \* task[t]: the function thread t runs
          local,    \* local[t]: the work struct thread t is filling
          works,    \* history: the works generated, in order
          crashed   \* a NULL nonce1 has been dereferenced

sworkVars == <<job, body, clean, nonce1, nonce2>>
poolVars == <<active, notify, sessions>>
threadVars == <<task, local, works, crashed>>
vars == <<lockVars, sworkVars, poolVars, threadVars>>

Task == {"idle", "gen", "notify", "notified", "subscribe", "resubscribe",
         "store", "stored", "forget", "forgot", "down"}

Work == [job : Nat, body : Nat, nonce1 : Nat, nonce2 : Nat]

Blank == [job |-> 0, body |-> 0, nonce1 |-> 0, nonce2 |-> 0]

\* A thread that is in a critical section of data_lock is in the lock.
StratumTypeOK ==
    /\ TypeOK
    /\ \A t \in Thread :
          pc[t] = "out" => task[t] \in {"idle", "subscribe", "resubscribe", "down"}
    /\ job \in Nat /\ body \in Nat /\ nonce2 \in Nat
    /\ clean \in BOOLEAN /\ active \in BOOLEAN /\ notify \in BOOLEAN
    /\ sessions \in Nat \ {0} /\ nonce1 \in 0 .. sessions
    /\ task \in [Thread -> Task]
    /\ local \in [Thread -> Work]
    /\ works \in Seq(Work)
    /\ crashed \in BOOLEAN

\* The pool has been initiated once (pool_active, test_pool_thread).
Init ==
    /\ LockInit
    /\ job = 0 /\ body = 0 /\ clean = FALSE
    /\ nonce1 = 1 /\ nonce2 = 0 /\ sessions = 1
    /\ active = TRUE /\ notify = FALSE
    /\ task = [t \in Thread |-> "idle"]
    /\ local = [t \in Thread |-> Blank]
    /\ works = <<>>
    /\ crashed = FALSE

Become(t, from, to) == task[t] = from /\ task' = [task EXCEPT ![t] = to]

----------------------------------------------------------------------------
(* gen_stratum_work                                                        *)

\* Works generated or being generated, for the bound.
Started == Len(works) + Cardinality({t \in Thread : task[t] = "gen"})

\* main tests stratum_active and stratum_notify without a lock, then calls.
SchedulerGen ==
    /\ active /\ notify
    /\ Started < MaxWork
    /\ Become(Scheduler, "idle", "gen")
    /\ CallIlock(Scheduler)
    /\ UNCHANGED <<sworkVars, poolVars, local, works, crashed>>

ReceiverGen ==
    /\ clean
    /\ Started < MaxWork
    /\ Become(Receiver, "idle", "gen")
    /\ clean' = FALSE
    /\ CallIlock(Receiver)
    /\ UNCHANGED <<job, body, nonce1, nonce2, poolVars, local, works, crashed>>

\* Under cg_ilock: take nonce2 and increment it; then cg_dlock.
GenNonce2(t) ==
    /\ task[t] = "gen"
    /\ CallDlock(t)
    /\ local' = [local EXCEPT ![t] = [Blank EXCEPT !.nonce2 = nonce2]]
    /\ nonce2' = nonce2 + 1
    /\ UNCHANGED <<job, body, clean, nonce1, poolVars, task, works, crashed>>

\* Under the read lock: the coinbase, merkle branch and header fields ...
GenBody(t) ==
    /\ task[t] = "gen" /\ pc[t] = "reading" /\ local[t].body = 0
    /\ nonce1 # 0
    /\ local' = [local EXCEPT ![t].body = body, ![t].nonce1 = nonce1]
    /\ UNCHANGED <<lockVars, sworkVars, poolVars, task, works, crashed>>

\* hex2bin and strdup of a NULL nonce1
GenCrash(t) ==
    /\ task[t] = "gen" /\ pc[t] = "reading" /\ local[t].body = 0
    /\ nonce1 = 0
    /\ crashed' = TRUE
    /\ UNCHANGED <<lockVars, sworkVars, poolVars, task, local, works>>

\* ... then job_id for the submission, and cg_runlock.
GenJob(t) ==
    /\ local[t].body # 0
    /\ Become(t, "gen", "idle")
    /\ cg_runlock(t)
    /\ works' = Append(works, [local[t] EXCEPT !.job = job])
    /\ local' = [local EXCEPT ![t] = Blank]
    /\ UNCHANGED <<sworkVars, poolVars, crashed>>

----------------------------------------------------------------------------
(* parse_notify, by way of parse_method                                    *)

NotifyArrives ==
    /\ active /\ job < MaxNotify
    /\ Become(Receiver, "idle", "notify")
    /\ CallWlock(Receiver)
    /\ UNCHANGED <<sworkVars, poolVars, local, works, crashed>>

\* A notification that lacks a field is refused before the lock.
NotifyRefused ==
    /\ active /\ task[Receiver] = "idle"
    /\ notify' = FALSE
    /\ UNCHANGED <<lockVars, sworkVars, active, sessions, threadVars>>

\* Bug: parse_notify stores the job_id before it takes data_lock.
NotifyJobUnlocked ==
    /\ task[Receiver] = "notify" /\ pc[Receiver] = "w_mutex" /\ job = body
    /\ job' = job + 1
    /\ UNCHANGED <<lockVars, body, clean, nonce1, nonce2, poolVars, threadVars>>

NotifyJob ==
    /\ task[Receiver] = "notify" /\ pc[Receiver] = "writing" /\ job = body
    /\ job' = job + 1
    /\ UNCHANGED <<lockVars, body, clean, nonce1, nonce2, poolVars, threadVars>>

NotifyBody ==
    /\ job # body
    /\ Become(Receiver, "notify", "notified")
    /\ WunlockWrite(Receiver)
    /\ body' = job
    /\ \E c \in BOOLEAN :
        /\ clean' = c
        /\ nonce2' = IF c THEN 0 ELSE nonce2
    /\ UNCHANGED <<job, nonce1, poolVars, local, works, crashed>>

NotifyDone ==
    /\ Become(Receiver, "notified", "idle")
    /\ WunlockMutex(Receiver)
    /\ notify' = TRUE
    /\ UNCHANGED <<sworkVars, active, sessions, local, works, crashed>>

----------------------------------------------------------------------------
(* restart_stratum: suspend_stratum, then initiate_stratum                 *)

\* The receive thread lost the connection, or tries again after 30 s.
Restart ==
    /\ \/ Become(Receiver, "idle", "subscribe")
       \/ Become(Receiver, "down", "subscribe")
    /\ active' = FALSE /\ notify' = FALSE
    /\ UNCHANGED <<lockVars, sworkVars, sessions, local, works, crashed>>

\* The pool answered mining.subscribe with an extranonce1.
Subscribed ==
    /\ \/ Become(Receiver, "subscribe", "store")
       \/ Become(Receiver, "resubscribe", "store")
    /\ CallWlock(Receiver)
    /\ UNCHANGED <<sworkVars, poolVars, local, works, crashed>>

\* A resumed session keeps its extranonce1; another one gets a new one.
StoreSession ==
    /\ Become(Receiver, "store", "stored")
    /\ WunlockWrite(Receiver)
    /\ \/ nonce1 # 0 /\ UNCHANGED <<nonce1, sessions>>
       \/ /\ sessions < MaxSession
          /\ sessions' = sessions + 1
          /\ nonce1' = sessions'
    /\ UNCHANGED <<job, body, clean, nonce2, active, notify, local, works, crashed>>

SessionOpen ==
    /\ Become(Receiver, "stored", "idle")
    /\ WunlockMutex(Receiver)
    /\ active' = TRUE
    /\ UNCHANGED <<sworkVars, notify, sessions, local, works, crashed>>

\* An answer that is an error, the first time: forget the session, resend.
SubscribeRefused ==
    /\ Become(Receiver, "subscribe", "forget")
    /\ CallWlock(Receiver)
    /\ UNCHANGED <<sworkVars, poolVars, local, works, crashed>>

ForgetSession ==
    /\ Become(Receiver, "forget", "forgot")
    /\ WunlockWrite(Receiver)
    /\ nonce1' = 0
    /\ UNCHANGED <<job, body, clean, nonce2, poolVars, local, works, crashed>>

Resend ==
    /\ Become(Receiver, "forgot", "resubscribe")
    /\ WunlockMutex(Receiver)
    /\ UNCHANGED <<sworkVars, poolVars, local, works, crashed>>

\* No answer, or a second refusal: suspend_stratum.
InitiateFailed ==
    /\ \/ Become(Receiver, "subscribe", "down")
       \/ Become(Receiver, "resubscribe", "down")
    /\ active' = FALSE /\ notify' = FALSE
    /\ UNCHANGED <<lockVars, sworkVars, sessions, local, works, crashed>>

----------------------------------------------------------------------------
\* The steps inside the lock's functions that touch nothing else.
LockStep(t) ==
    /\ \/ cg_ilock(t) \/ DlockRead(t) \/ RlockUnlock(t)
       \/ WlockMutex(t) \/ WlockWrite(t)
    /\ UNCHANGED <<sworkVars, poolVars, threadVars>>

Generate(t) == GenNonce2(t) \/ GenBody(t) \/ GenCrash(t) \/ GenJob(t)

Notify == NotifyArrives \/ NotifyRefused \/ NotifyJob \/ NotifyBody \/ NotifyDone

Reconnect ==
    \/ Restart \/ Subscribed \/ StoreSession \/ SessionOpen
    \/ SubscribeRefused \/ ForgetSession \/ Resend \/ InitiateFailed

Next ==
    /\ ~crashed
    /\ \/ SchedulerGen \/ ReceiverGen
       \/ \E t \in Thread : LockStep(t) \/ Generate(t)
       \/ Notify
       \/ Reconnect

StratumSpec == Init /\ [][Next]_vars

----------------------------------------------------------------------------
\* "Generates stratum based work based on the most recent notify information
\* from the pool" (yacminer.c:5878): the work that leaves gen_stratum_work is
\* made of one notification, and of the one that is current at that moment,
\* although its fields are read over several steps.
WorkIsSnapshot ==
    [][works' # works =>
        /\ Last(works').job = job
        /\ Last(works').body = job]_vars

\* No two works are the same search space: a miner's nonces are never tried
\* twice under the same job, extranonce1 and extranonce2.  parse_notify resets
\* nonce2 while another thread may be between taking it and using it.
NoDuplicateWork ==
    \A i, j \in DOMAIN works : i # j => works[i] # works[j]

\* gen_stratum_work: each work is made from one job, and no two are the same.
DistinctSnapshots == []StratumTypeOK /\ []NoDuplicateWork /\ WorkIsSnapshot
=============================================================================
