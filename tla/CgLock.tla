------------------------------- MODULE CgLock -------------------------------
(***************************************************************************)
(* The cglock of miner.h:799-854: a pthread mutex in front of a pthread    *)
(* rwlock.  cg_rlock takes the mutex only to take the read lock; cg_wlock  *)
(* keeps it until cg_wunlock; cg_ilock takes the mutex alone, and cg_dlock *)
(* and cg_ulock turn that into a read or a write lock.                     *)
(*                                                                         *)
(* Every pthread call is one step.  A thread whose call blocks stays at    *)
(* its program counter until the step is enabled.  The rwlock is the       *)
(* reader-preferring one: a waiting writer does not keep readers out, it   *)
(* is the mutex in front that does.                                        *)
(***************************************************************************)
CONSTANTS Thread,   \* the threads that use the lock
          None      \* "nobody"

ASSUME NoneAssumption == None \notin Thread

VARIABLES mutex,    \* the thread that owns lock->mutex, or None
          readers,  \* the threads that hold lock->rwlock for reading
          writer,   \* the thread that holds lock->rwlock for writing, or None
          pc        \* pc[t]: where thread t is in the lock's functions

lockVars == <<mutex, readers, writer, pc>>

\* The thread owns lock->mutex at these control points ...
OwnsMutex == {"r_rdlock", "r_unlock", "inter", "d_rdlock",
              "w_wrlock", "u_wrlock", "writing", "w_unlock"}
\* ... and lock->rwlock, for reading, at these.
OwnsRead == {"r_unlock", "reading"}

Control == {"out", "r_mutex", "i_mutex", "w_mutex", "reading"} \cup OwnsMutex

\* A rwlock has readers or a writer.
TypeOK ==
    /\ mutex \in Thread \cup {None}
    /\ readers \subseteq Thread
    /\ writer \in Thread \cup {None}
    /\ readers = {} \/ writer = None
    /\ pc \in [Thread -> Control]

LockInit ==
    /\ mutex = None
    /\ readers = {}
    /\ writer = None
    /\ pc = [t \in Thread |-> "out"]

----------------------------------------------------------------------------
(* The pthread calls, as effects on the lock.                              *)

Goto(t, from, to) == pc[t] = from /\ pc' = [pc EXCEPT ![t] = to]

mutex_lock(t) == mutex = None /\ mutex' = t

mutex_unlock(t) == mutex' = None

rd_lock(t) == writer = None /\ readers' = readers \cup {t}

wr_lock(t) == writer = None /\ readers = {} /\ writer' = t

----------------------------------------------------------------------------
(* The calls.  The Call actions are the caller's decision to use the lock. *)

CallRlock(t) == Goto(t, "out", "r_mutex") /\ UNCHANGED <<mutex, readers, writer>>

CallIlock(t) == Goto(t, "out", "i_mutex") /\ UNCHANGED <<mutex, readers, writer>>

CallWlock(t) == Goto(t, "out", "w_mutex") /\ UNCHANGED <<mutex, readers, writer>>

\* cg_rlock: mutex_lock; rd_lock; mutex_unlock_noyield
RlockMutex(t) ==
    /\ Goto(t, "r_mutex", "r_rdlock")
    /\ mutex_lock(t)
    /\ UNCHANGED <<readers, writer>>

RlockRead(t) ==
    /\ Goto(t, "r_rdlock", "r_unlock")
    /\ rd_lock(t)
    /\ UNCHANGED <<mutex, writer>>

RlockUnlock(t) ==
    /\ Goto(t, "r_unlock", "reading")
    /\ mutex_unlock(t)
    /\ UNCHANGED <<readers, writer>>

cg_runlock(t) ==
    /\ Goto(t, "reading", "out")
    /\ readers' = readers \ {t}
    /\ UNCHANGED <<mutex, writer>>

cg_ilock(t) ==
    /\ Goto(t, "i_mutex", "inter")
    /\ mutex_lock(t)
    /\ UNCHANGED <<readers, writer>>

\* cg_dlock: rd_lock; mutex_unlock_noyield (the second step is RlockUnlock's)
\* Bug: cg_dlock lets the mutex go before it has the read lock.
DlockUnlocksFirst(t) ==
    /\ Goto(t, "inter", "d_rdlock")
    /\ mutex_unlock(t)
    /\ UNCHANGED <<readers, writer>>

CallDlock(t) ==
    /\ Goto(t, "inter", "d_rdlock")
    /\ UNCHANGED <<mutex, readers, writer>>

DlockRead(t) ==
    /\ Goto(t, "d_rdlock", "r_unlock")
    /\ rd_lock(t)
    /\ UNCHANGED <<mutex, writer>>

\* cg_wlock: mutex_lock; wr_lock
\* Bug: cg_wlock goes for the write lock without the mutex.
WlockNoMutex(t) ==
    /\ Goto(t, "w_mutex", "w_wrlock")
    /\ UNCHANGED <<mutex, readers, writer>>

WlockMutex(t) ==
    /\ Goto(t, "w_mutex", "w_wrlock")
    /\ mutex_lock(t)
    /\ UNCHANGED <<readers, writer>>

WlockWrite(t) ==
    /\ Goto(t, "w_wrlock", "writing")
    /\ wr_lock(t)
    /\ UNCHANGED <<mutex, readers>>

\* cg_ulock: wr_lock, the mutex being already owned
CallUlock(t) ==
    /\ Goto(t, "inter", "u_wrlock")
    /\ UNCHANGED <<mutex, readers, writer>>

UlockWrite(t) ==
    /\ Goto(t, "u_wrlock", "writing")
    /\ wr_lock(t)
    /\ UNCHANGED <<mutex, readers>>

\* cg_wunlock: wr_unlock; mutex_unlock
WunlockWrite(t) ==
    /\ Goto(t, "writing", "w_unlock")
    /\ writer' = None
    /\ UNCHANGED <<mutex, readers>>

WunlockMutex(t) ==
    /\ Goto(t, "w_unlock", "out")
    /\ mutex_unlock(t)
    /\ UNCHANGED <<readers, writer>>

----------------------------------------------------------------------------
\* The steps of a thread that owns the mutex, or that leaves the lock.
Progress(t) ==
    \/ RlockRead(t) \/ RlockUnlock(t) \/ cg_runlock(t)
    \/ CallDlock(t) \/ DlockRead(t)
    \/ WlockWrite(t) \/ UlockWrite(t) \/ WunlockWrite(t) \/ WunlockMutex(t)

LockNext ==
    \E t \in Thread :
        \/ CallRlock(t) \/ CallIlock(t) \/ CallWlock(t)
        \/ RlockMutex(t) \/ cg_ilock(t) \/ WlockMutex(t)
        \/ CallUlock(t)
        \/ Progress(t)

Spec == LockInit /\ [][LockNext]_lockVars

(* A thread inside the lock keeps running: critical sections are finite and *)
(* do not wait for anything but the lock.  Nothing is assumed of the mutex: *)
(* a pthread mutex makes no promise of fairness to those waiting for it.    *)
LockFairness == \A t \in Thread : WF_lockVars(Progress(t))
FairSpec == Spec /\ LockFairness

----------------------------------------------------------------------------
(* The abstract lock this one implements.                                  *)

ModeOf(t) ==
    IF pc[t] \in OwnsRead THEN "read"
    ELSE IF pc[t] \in {"inter", "d_rdlock"} THEN "inter"
    ELSE IF pc[t] \in {"w_wrlock", "u_wrlock"} THEN "pending"
    ELSE IF pc[t] = "writing" THEN "write"
    ELSE "none"

Abstract == INSTANCE WriteBiasedLock WITH holds <- [t \in Thread |-> ModeOf(t)]

\* The two pthread locks implement the write-biased three-mode lock that the
\* callers of cg_rlock/cg_ilock/cg_dlock/cg_ulock/cg_wlock rely on: in
\* particular no writer gets between cg_ilock and the read lock of cg_dlock,
\* and no reader enters behind a writer that owns the mutex.
ImplementsWriteBiasedLock == Abstract!Spec

\* The lock's bookkeeping: the owner of each pthread lock is the thread whose
\* control point says so.  cg_wunlock and cg_runlock release what they hold.
Owners ==
    \A t \in Thread :
        /\ mutex = t <=> pc[t] \in OwnsMutex
        /\ t \in readers <=> pc[t] \in OwnsRead
        /\ writer = t <=> pc[t] = "writing"

\* Write bias, as progress: a thread that owns the mutex and waits for the
\* write lock gets it, however many readers keep calling cg_rlock.
WriterGetsIn ==
    \A t \in Thread : pc[t] \in {"w_wrlock", "u_wrlock"} ~> pc[t] = "writing"
=============================================================================
