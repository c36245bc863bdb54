------------------------- MODULE StratumWorkProofs -------------------------
(***************************************************************************)
(* Proofs about the lock of CgLock, for any set of threads, and about what *)
(* StratumWork does under it, for any bounds.                              *)
(*                                                                         *)
(* A thread has its number from GenNonce2 until it lets the read lock go:  *)
(* first it owns the mutex, then it is a reader, so no notification is     *)
(* stored meanwhile.                                                       *)
(***************************************************************************)
EXTENDS StratumWork, TLAPS

----------------------------------------------------------------------------
(* The lock.                                                               *)

\* The inductive invariant: the types, and which control points own what.
IInv == TypeOK /\ Owners

\* Only one thread at a time is at a control point that owns the mutex, and
\* whoever holds the write lock is alone in the lock.
LEMMA Exclusion ==
    ASSUME IInv, NEW t \in Thread, NEW u \in Thread, t # u
    PROVE  /\ ~(pc[t] \in OwnsMutex /\ pc[u] \in OwnsMutex)
           /\ pc[t] = "writing" => pc[u] \notin OwnsMutex
<1> QED BY DEF IInv, Owners, OwnsMutex

LEMMA InitInv == LockInit => IInv
<1> QED BY NoneAssumption
        DEF LockInit, IInv, TypeOK, Owners, Control, OwnsMutex, OwnsRead

\* Every step of the lock's functions preserves the invariant.
LEMMA StepInv == IInv /\ [LockNext]_lockVars => IInv'
<1> SUFFICES ASSUME IInv, [LockNext]_lockVars PROVE IInv'
  OBVIOUS
<1> USE NoneAssumption DEF IInv, TypeOK, Owners, Control, OwnsMutex, OwnsRead, Goto
<1>1. ASSUME NEW t \in Thread, CallRlock(t) \/ CallIlock(t) \/ CallWlock(t)
      PROVE  IInv'
  BY <1>1 DEF CallRlock, CallIlock, CallWlock
<1>2. ASSUME NEW t \in Thread, RlockMutex(t) \/ cg_ilock(t) \/ WlockMutex(t)
      PROVE  IInv'
  BY <1>2 DEF RlockMutex, cg_ilock, WlockMutex, mutex_lock
<1>3. ASSUME NEW t \in Thread, RlockRead(t) \/ DlockRead(t)
      PROVE  IInv'
  BY <1>3 DEF RlockRead, DlockRead, rd_lock
<1>4. ASSUME NEW t \in Thread, RlockUnlock(t) \/ WunlockMutex(t)
      PROVE  IInv'
  BY <1>4 DEF RlockUnlock, WunlockMutex, mutex_unlock
<1>5. ASSUME NEW t \in Thread, cg_runlock(t)
      PROVE  IInv'
  BY <1>5 DEF cg_runlock
<1>6. ASSUME NEW t \in Thread, CallDlock(t) \/ CallUlock(t)
      PROVE  IInv'
  BY <1>6 DEF CallDlock, CallUlock
<1>7. ASSUME NEW t \in Thread, WlockWrite(t) \/ UlockWrite(t)
      PROVE  IInv'
  BY <1>7 DEF WlockWrite, UlockWrite, wr_lock
<1>8. ASSUME NEW t \in Thread, WunlockWrite(t)
      PROVE  IInv'
  BY <1>8 DEF WunlockWrite
<1>9. CASE UNCHANGED lockVars
  BY <1>9 DEF lockVars
<1> QED BY <1>1, <1>2, <1>3, <1>4, <1>5, <1>6, <1>7, <1>8, <1>9 DEF LockNext, Progress

\* The types and the ownership discipline hold in every reachable state,
\* however many threads use the lock.
THEOREM LockInvariant == Spec => []IInv
<1> QED BY InitInv, StepInv, PTL DEF Spec

----------------------------------------------------------------------------
(* The refinement: each step of the two pthread locks is a step, or a      *)
(* stutter, of the write-biased three-mode lock.                           *)

\* What a mode of the abstract lock says of the thread's control point.
LEMMA Modes ==
    ASSUME IInv, NEW t \in Thread
    PROVE  /\ ModeOf(t) \in {"inter", "pending", "write"} => mutex = t
           /\ ModeOf(t) = "read" <=> t \in readers
           /\ ModeOf(t) = "write" <=> writer = t
<1> QED BY DEF IInv, Owners, ModeOf, OwnsMutex, OwnsRead

\* While nobody else owns the mutex nobody else is in an exclusive mode.
LEMMA NoRival ==
    ASSUME IInv, NEW t \in Thread, mutex \in {t, None}
    PROVE  \A u \in Thread : u # t => ModeOf(u) \notin {"inter", "pending", "write"}
<1> QED BY Modes, NoneAssumption

\* A step that moves one thread changes the mode of no other.
LEMMA OthersKeep ==
    ASSUME TypeOK, NEW t \in Thread, NEW p, pc' = [pc EXCEPT ![t] = p]
    PROVE  /\ \A u \in Thread : u # t => ModeOf(u)' = ModeOf(u)
           /\ [u \in Thread |-> ModeOf(u)'] =
                [[u \in Thread |-> ModeOf(u)] EXCEPT ![t] = ModeOf(t)']
<1>1. \A u \in Thread : u # t => ModeOf(u)' = ModeOf(u)
  BY DEF TypeOK, ModeOf
<1> QED BY <1>1

LEMMA StepRefines ==
    IInv /\ [LockNext]_lockVars => [Abstract!Next]_([t \in Thread |-> ModeOf(t)])
<1> SUFFICES ASSUME IInv, [LockNext]_lockVars
             PROVE  [Abstract!Next]_([t \in Thread |-> ModeOf(t)])
  OBVIOUS
<1> DEFINE h == [t \in Thread |-> ModeOf(t)]
<1>t. TypeOK
  BY DEF IInv
<1>u. ASSUME NEW t \in Thread, NEW p, pc' = [pc EXCEPT ![t] = p],
             ModeOf(t)' = ModeOf(t)
      PROVE  UNCHANGED h
  <2>1. h' = [h EXCEPT ![t] = h[t]]
    BY <1>t, <1>u, OthersKeep
  <2> QED BY <2>1
<1>1. ASSUME NEW t \in Thread, CallRlock(t) \/ CallIlock(t) \/ CallWlock(t)
      PROVE  UNCHANGED h
  <2>1. PICK p \in {"r_mutex", "i_mutex", "w_mutex"} :
            pc[t] = "out" /\ pc' = [pc EXCEPT ![t] = p]
    BY <1>1 DEF CallRlock, CallIlock, CallWlock, Goto
  <2>2. ModeOf(t)' = ModeOf(t)
    BY <1>t, <2>1 DEF ModeOf, OwnsRead, TypeOK
  <2> QED BY <1>u, <2>1, <2>2
<1>2. ASSUME NEW t \in Thread, RlockMutex(t)
      PROVE  UNCHANGED h
  <2>1. pc[t] = "r_mutex" /\ pc' = [pc EXCEPT ![t] = "r_rdlock"]
    BY <1>2 DEF RlockMutex, Goto
  <2>2. ModeOf(t)' = ModeOf(t)
    BY <1>t, <2>1 DEF ModeOf, OwnsRead, TypeOK
  <2> QED BY <1>u, <2>1, <2>2
<1>3. ASSUME NEW t \in Thread, cg_ilock(t)
      PROVE  Abstract!AcquireInter(t)
  <2>1. pc[t] = "i_mutex" /\ pc' = [pc EXCEPT ![t] = "inter"] /\ mutex = None
    BY <1>3 DEF cg_ilock, Goto, mutex_lock
  <2>2. ModeOf(t) = "none" /\ ModeOf(t)' = "inter"
    BY <1>t, <2>1 DEF ModeOf, OwnsRead, TypeOK
  <2>3. h' = [h EXCEPT ![t] = "inter"]
    BY <1>t, <2>1, <2>2, OthersKeep
  <2>4. \A u \in Thread : ModeOf(u) \notin {"inter", "pending", "write"}
    BY <2>1, <2>2, NoRival
  <2> QED BY <2>2, <2>3, <2>4
          DEF Abstract!AcquireInter, Abstract!NoExclusiveBut, Abstract!Exclusive
<1>4. ASSUME NEW t \in Thread, WlockMutex(t)
      PROVE  Abstract!BeginWrite(t)
  <2>1. pc[t] = "w_mutex" /\ pc' = [pc EXCEPT ![t] = "w_wrlock"] /\ mutex = None
    BY <1>4 DEF WlockMutex, Goto, mutex_lock
  <2>2. ModeOf(t) = "none" /\ ModeOf(t)' = "pending"
    BY <1>t, <2>1 DEF ModeOf, OwnsRead, TypeOK
  <2>3. h' = [h EXCEPT ![t] = "pending"]
    BY <1>t, <2>1, <2>2, OthersKeep
  <2>4. \A u \in Thread : ModeOf(u) \notin {"inter", "pending", "write"}
    BY <2>1, <2>2, NoRival
  <2> QED BY <2>2, <2>3, <2>4
          DEF Abstract!BeginWrite, Abstract!NoExclusiveBut, Abstract!Exclusive
<1>5. ASSUME NEW t \in Thread, RlockRead(t)
      PROVE  Abstract!AcquireRead(t)
  <2>1. pc[t] = "r_rdlock" /\ pc' = [pc EXCEPT ![t] = "r_unlock"]
    BY <1>5 DEF RlockRead, Goto
  <2>2. ModeOf(t) = "none" /\ ModeOf(t)' = "read"
    BY <1>t, <2>1 DEF ModeOf, OwnsRead, TypeOK
  <2>3. h' = [h EXCEPT ![t] = "read"]
    BY <1>t, <2>1, <2>2, OthersKeep
  <2>4. mutex = t
    BY <2>1 DEF IInv, Owners, OwnsMutex
  <2>5. \A u \in Thread : ModeOf(u) \notin {"inter", "pending", "write"}
    BY <2>2, <2>4, NoRival
  <2> QED BY <2>2, <2>3, <2>5
          DEF Abstract!AcquireRead, Abstract!NoExclusiveBut, Abstract!Exclusive
<1>6. ASSUME NEW t \in Thread, RlockUnlock(t)
      PROVE  UNCHANGED h
  <2>1. pc[t] = "r_unlock" /\ pc' = [pc EXCEPT ![t] = "reading"]
    BY <1>6 DEF RlockUnlock, Goto
  <2>2. ModeOf(t)' = ModeOf(t)
    BY <1>t, <2>1 DEF ModeOf, OwnsRead, TypeOK
  <2> QED BY <1>u, <2>1, <2>2
<1>7. ASSUME NEW t \in Thread, cg_runlock(t)
      PROVE  Abstract!Release(t)
  <2>1. pc[t] = "reading" /\ pc' = [pc EXCEPT ![t] = "out"]
    BY <1>7 DEF cg_runlock, Goto
  <2>2. ModeOf(t) = "read" /\ ModeOf(t)' = "none"
    BY <1>t, <2>1 DEF ModeOf, OwnsRead, TypeOK
  <2>3. h' = [h EXCEPT ![t] = "none"]
    BY <1>t, <2>1, <2>2, OthersKeep
  <2> QED BY <2>2, <2>3 DEF Abstract!Release
<1>8. ASSUME NEW t \in Thread, CallDlock(t)
      PROVE  UNCHANGED h
  <2>1. pc[t] = "inter" /\ pc' = [pc EXCEPT ![t] = "d_rdlock"]
    BY <1>8 DEF CallDlock, Goto
  <2>2. ModeOf(t)' = ModeOf(t)
    BY <1>t, <2>1 DEF ModeOf, OwnsRead, TypeOK
  <2> QED BY <1>u, <2>1, <2>2
<1>9. ASSUME NEW t \in Thread, DlockRead(t)
      PROVE  Abstract!Downgrade(t)
  <2>1. pc[t] = "d_rdlock" /\ pc' = [pc EXCEPT ![t] = "r_unlock"]
    BY <1>9 DEF DlockRead, Goto
  <2>2. ModeOf(t) = "inter" /\ ModeOf(t)' = "read"
    BY <1>t, <2>1 DEF ModeOf, OwnsRead, TypeOK
  <2>3. h' = [h EXCEPT ![t] = "read"]
    BY <1>t, <2>1, <2>2, OthersKeep
  <2> QED BY <2>2, <2>3 DEF Abstract!Downgrade
<1>10. ASSUME NEW t \in Thread, CallUlock(t)
       PROVE  Abstract!BeginWrite(t)
  <2>1. pc[t] = "inter" /\ pc' = [pc EXCEPT ![t] = "u_wrlock"]
    BY <1>10 DEF CallUlock, Goto
  <2>2. ModeOf(t) = "inter" /\ ModeOf(t)' = "pending"
    BY <1>t, <2>1 DEF ModeOf, OwnsRead, TypeOK
  <2>3. h' = [h EXCEPT ![t] = "pending"]
    BY <1>t, <2>1, <2>2, OthersKeep
  <2>4. mutex = t
    BY <2>1 DEF IInv, Owners, OwnsMutex
  <2>5. \A u \in Thread \ {t} : ModeOf(u) \notin {"inter", "pending", "write"}
    BY <2>4, NoRival
  <2> QED BY <2>2, <2>3, <2>5
          DEF Abstract!BeginWrite, Abstract!NoExclusiveBut, Abstract!Exclusive
<1>11. ASSUME NEW t \in Thread, WlockWrite(t) \/ UlockWrite(t)
       PROVE  Abstract!EnterWrite(t)
  <2>1. /\ pc[t] \in {"w_wrlock", "u_wrlock"}
        /\ pc' = [pc EXCEPT ![t] = "writing"]
        /\ readers = {}
    BY <1>11 DEF WlockWrite, UlockWrite, Goto, wr_lock
  <2>2. ModeOf(t) = "pending" /\ ModeOf(t)' = "write"
    BY <1>t, <2>1 DEF ModeOf, OwnsRead, TypeOK
  <2>3. h' = [h EXCEPT ![t] = "write"]
    BY <1>t, <2>1, <2>2, OthersKeep
  <2>4. \A u \in Thread : ModeOf(u) # "read"
    BY <2>1, Modes
  <2> QED BY <2>2, <2>3, <2>4 DEF Abstract!EnterWrite, Abstract!NoReader
<1>12. ASSUME NEW t \in Thread, WunlockWrite(t)
       PROVE  Abstract!Release(t)
  <2>1. pc[t] = "writing" /\ pc' = [pc EXCEPT ![t] = "w_unlock"]
    BY <1>12 DEF WunlockWrite, Goto
  <2>2. ModeOf(t) = "write" /\ ModeOf(t)' = "none"
    BY <1>t, <2>1 DEF ModeOf, OwnsRead, TypeOK
  <2>3. h' = [h EXCEPT ![t] = "none"]
    BY <1>t, <2>1, <2>2, OthersKeep
  <2> QED BY <2>2, <2>3 DEF Abstract!Release
<1>13. ASSUME NEW t \in Thread, WunlockMutex(t)
       PROVE  UNCHANGED h
  <2>1. pc[t] = "w_unlock" /\ pc' = [pc EXCEPT ![t] = "out"]
    BY <1>13 DEF WunlockMutex, Goto
  <2>2. ModeOf(t)' = ModeOf(t)
    BY <1>t, <2>1 DEF ModeOf, OwnsRead, TypeOK
  <2> QED BY <1>u, <2>1, <2>2
<1>14. CASE UNCHANGED lockVars
  BY <1>14 DEF lockVars, ModeOf
<1> QED BY <1>1, <1>2, <1>3, <1>4, <1>5, <1>6, <1>7, <1>8, <1>9, <1>10, <1>11,
           <1>12, <1>13, <1>14
        DEF LockNext, Progress, Abstract!Next

\* The two pthread locks implement the write-biased three-mode lock, for any
\* number of threads: what TLC checks for three.
THEOREM Implements == Spec => ImplementsWriteBiasedLock
<1>1. LockInit => Abstract!Init
  BY DEF LockInit, Abstract!Init, ModeOf, OwnsRead
<1>2. Spec => []IInv
  BY LockInvariant
<1> QED BY <1>1, <1>2, StepRefines, PTL
        DEF Spec, ImplementsWriteBiasedLock, Abstract!Spec

----------------------------------------------------------------------------
(* The work that is made under it.                                         *)

Record == [job : Nat, body : Nat, nonce1 : Nat, nonce2 : Nat]

Types ==
    /\ job \in Nat /\ body \in Nat /\ nonce1 \in Nat /\ nonce2 \in Nat /\ sessions \in Nat
    /\ local \in [Thread -> Record]
    /\ works \in Seq(Record)
    /\ task \in [Thread -> Task]

\* The thread has taken a number and uses it.
Numbered(t) == pc[t] \in {"d_rdlock", "r_unlock", "reading"}

\* A notification is stored while the receive thread has the write lock.
Stored == job # body => /\ job = body + 1
                        /\ pc[Receiver] = "writing" /\ task[Receiver] = "notify"

\* What has been read was read in this hold of the lock.
Current == \A t \in Thread :
    local[t].body # 0 => pc[t] = "reading" /\ local[t].body = body

\* Numbers of the current job go up.
Rising ==
    /\ \A i \in DOMAIN works :
          /\ works[i].job <= body
          /\ works[i].job = body => works[i].nonce2 < nonce2
    /\ \A t \in Thread : Numbered(t) =>
          /\ local[t].nonce2 < nonce2
          /\ \A i \in DOMAIN works : works[i].job = body => works[i].nonce2 # local[t].nonce2
          /\ \A u \in Thread \ {t} : Numbered(u) => local[u].nonce2 # local[t].nonce2

Distinct ==
    \A i, j \in DOMAIN works :
        i # j => works[i].job # works[j].job \/ works[i].nonce2 # works[j].nonce2

SInv == IInv /\ Types /\ Stored /\ Current /\ Rising /\ Distinct

----------------------------------------------------------------------------
(* The lock.                                                               *)

LEMMA LockSteps == ASSUME [Next]_vars PROVE [LockNext]_lockVars
<1>0. Scheduler \in Thread /\ Receiver \in Thread
  BY ThreadAssumption
<1>1. CASE UNCHANGED vars
  BY <1>1 DEF vars, lockVars
<1>2. CASE SchedulerGen \/ ReceiverGen
  BY <1>0, <1>2 DEF SchedulerGen, ReceiverGen, LockNext
<1>3. ASSUME NEW t \in Thread, LockStep(t) PROVE [LockNext]_lockVars
  BY <1>3 DEF LockStep, LockNext, Progress
<1>4. ASSUME NEW t \in Thread, Generate(t) PROVE [LockNext]_lockVars
  BY <1>4 DEF Generate, GenNonce2, GenBody, GenCrash, GenJob, LockNext, Progress, lockVars
<1>5. CASE Notify
  BY <1>0, <1>5 DEF Notify, NotifyArrives, NotifyRefused, NotifyJob, NotifyBody, NotifyDone,
                    LockNext, Progress, lockVars
<1>6. CASE Reconnect
  BY <1>0, <1>6 DEF Reconnect, Restart, Subscribed, StoreSession, SessionOpen,
                    SubscribeRefused, ForgetSession, Resend, InitiateFailed,
                    LockNext, Progress, lockVars
<1> QED BY <1>1, <1>2, <1>3, <1>4, <1>5, <1>6 DEF Next

\* Nobody uses a number while the receive thread has the write lock.
LEMMA WriterAlone ==
    ASSUME IInv, pc[Receiver] = "writing", NEW t \in Thread
    PROVE  ~Numbered(t)
<1>1. mutex = Receiver /\ writer = Receiver /\ Receiver \in Thread
  BY ThreadAssumption DEF IInv, Owners, OwnsMutex
<1>2. readers = {}
  BY <1>1, NoneAssumption DEF IInv, TypeOK
<1> QED BY <1>1, <1>2 DEF IInv, Owners, OwnsMutex, OwnsRead, Numbered

----------------------------------------------------------------------------
(* Kinds of step.                                                          *)

\* What work is made of stays as it is, and nobody new has a number.
LEMMA NothingNew ==
    ASSUME SInv, IInv',
           UNCHANGED <<job, body, nonce2, local, works>>,
           nonce1' \in Nat, sessions' \in Nat, task' \in [Thread -> Task],
           \A t \in Thread : /\ Numbered(t)' => Numbered(t)
                             /\ pc[t] = "reading" => pc'[t] = "reading",
           job # body => pc'[Receiver] = "writing" /\ task'[Receiver] = "notify"
    PROVE  SInv'
<1>1. Types'
  BY DEF SInv, Types
<1>2. Stored' /\ Current' /\ Distinct'
  BY DEF SInv, Stored, Current, Distinct
<1>3. Rising'
  BY DEF SInv, Rising
<1> QED BY <1>1, <1>2, <1>3 DEF SInv

\* A step of a thread t in the lock's functions that takes no number.
LEMMA OneMoves ==
    ASSUME SInv, IInv', NEW t \in Thread, NEW from, NEW to,
           Goto(t, from, to),
           from # "reading",
           from \in {"d_rdlock", "r_unlock"} \/ to \notin {"d_rdlock", "r_unlock", "reading"},
           from = "writing" => job = body,
           UNCHANGED <<job, body, nonce2, local, works>>,
           nonce1' \in Nat, sessions' \in Nat, task' \in [Thread -> Task],
           job # body => task' = task
    PROVE  SInv'
<1>1. pc' = [pc EXCEPT ![t] = to] /\ pc[t] = from /\ pc \in [Thread -> Control]
  BY DEF Goto, SInv, IInv, TypeOK
<1>2. ASSUME NEW u \in Thread
      PROVE  /\ Numbered(u)' => Numbered(u)
             /\ pc[u] = "reading" => pc'[u] = "reading"
  BY <1>1 DEF Numbered
<1>3. job # body => pc'[Receiver] = "writing" /\ task'[Receiver] = "notify"
  BY <1>1, ThreadAssumption DEF SInv, Stored
<1> QED BY <1>2, <1>3, NothingNew

----------------------------------------------------------------------------
LEMMA Initially == ASSUME Init PROVE SInv
<1>1. IInv
  BY InitInv DEF Init
<1>2. \A t \in Thread : local[t] = Blank /\ pc[t] = "out"
  BY DEF Init, LockInit
<1>3. Types
  BY DEF Init, Types, Record, Blank, Task
<1>4. works = <<>> /\ job = body
  BY DEF Init
<1> QED BY <1>1, <1>2, <1>3, <1>4
     DEF SInv, Stored, Current, Rising, Distinct, Numbered, Blank

LEMMA GenerateStep ==
    ASSUME SInv, IInv', NEW t \in Thread, Generate(t)
    PROVE  SInv'
<1> USE DEF sworkVars, poolVars
<1>0. /\ IInv /\ Types /\ pc \in [Thread -> Control]
      /\ Stored /\ Current /\ Rising /\ Distinct
  BY DEF SInv, IInv, TypeOK
<1>1. CASE GenNonce2(t)
  <2>1. /\ pc[t] = "inter" /\ pc' = [pc EXCEPT ![t] = "d_rdlock"]
        /\ local' = [local EXCEPT ![t] = [Blank EXCEPT !.nonce2 = nonce2]]
        /\ nonce2' = nonce2 + 1
        /\ UNCHANGED <<job, body, nonce1, sessions, task, works>>
    BY <1>1 DEF GenNonce2, CallDlock, Goto
  <2>2. /\ local'[t].nonce2 = nonce2 /\ local'[t].body = 0
        /\ \A u \in Thread \ {t} : local'[u] = local[u] /\ pc'[u] = pc[u]
        /\ local' \in [Thread -> Record] /\ pc'[t] = "d_rdlock"
    BY <1>0, <2>1 DEF Types, Record, Blank
  <2>3. Types'
    BY <1>0, <2>1, <2>2 DEF Types
  <2>4. Stored'
    BY <1>0, <2>1, <2>2, ThreadAssumption DEF Stored
  <2>5. Current'
    BY <1>0, <2>1, <2>2 DEF Current
  <2>6. Distinct'
    BY <1>0, <2>1 DEF Distinct
  <2>7. ASSUME NEW i \in DOMAIN works PROVE works[i].nonce2 \in Nat /\ works[i].job \in Nat
    <3>1. works[i] \in Record
      BY <1>0 DEF Types
    <3> QED BY <3>1 DEF Record
  <2>8. \A u \in Thread : local[u].nonce2 \in Nat
    BY <1>0 DEF Types, Record
  <2>9. nonce2 \in Nat
    BY <1>0 DEF Types
  <2>10. ASSUME NEW i \in DOMAIN works'
         PROVE  /\ works'[i].job <= body'
                /\ works'[i].job = body' => works'[i].nonce2 < nonce2'
    <3>1. /\ works[i].job <= body
          /\ works[i].job = body => works[i].nonce2 < nonce2
          /\ works[i].nonce2 \in Nat
      BY <1>0, <2>1, <2>7 DEF Rising
    <3> QED BY <2>1, <2>9, <3>1
  <2>11. ASSUME NEW u \in Thread, Numbered(u)'
         PROVE  /\ local'[u].nonce2 < nonce2'
                /\ \A i \in DOMAIN works' :
                      works'[i].job = body' => works'[i].nonce2 # local'[u].nonce2
                /\ \A v \in Thread \ {u} : Numbered(v)' => local'[v].nonce2 # local'[u].nonce2
    <3>1. CASE u = t
      <4>1. \A v \in Thread \ {t} : Numbered(v)' => local'[v].nonce2 < nonce2
        BY <1>0, <2>2 DEF Rising, Numbered
      <4>2. \A i \in DOMAIN works : works[i].job = body => works[i].nonce2 < nonce2
        BY <1>0 DEF Rising
      <4> QED BY <2>1, <2>2, <2>7, <2>8, <2>9, <3>1, <4>1, <4>2
    <3>2. CASE u # t
      <4>1. Numbered(u) /\ local'[u] = local[u]
        BY <2>2, <2>11, <3>2 DEF Numbered
      <4>2. local[u].nonce2 < nonce2
        BY <1>0, <4>1 DEF Rising
      <4>3. ASSUME NEW v \in Thread \ {u}, Numbered(v)'
            PROVE  local'[v].nonce2 # local'[u].nonce2
        <5>1. CASE v = t
          <6>1. local'[v].nonce2 = nonce2 /\ local'[u].nonce2 = local[u].nonce2
            BY <2>2, <4>1, <5>1
          <6>2. local[u].nonce2 < nonce2 /\ local[u].nonce2 \in Nat /\ nonce2 \in Nat
            BY <2>8, <2>9, <4>2
          <6> QED BY <6>1, <6>2
        <5>2. CASE v # t
          BY <1>0, <2>2, <4>1, <4>3, <5>2 DEF Rising, Numbered
        <5> QED BY <5>1, <5>2
      <4>4. \A i \in DOMAIN works : works[i].job = body => works[i].nonce2 # local[u].nonce2
        BY <1>0, <4>1 DEF Rising
      <4>5. local'[u].nonce2 < nonce2'
        <5>1. local[u].nonce2 \in Nat
          BY <2>8
        <5> QED BY <2>1, <2>9, <4>1, <4>2, <5>1
      <4> QED BY <2>1, <4>1, <4>3, <4>4, <4>5
    <3> QED BY <3>1, <3>2
  <2>12. Rising'
    BY <2>10, <2>11 DEF Rising
  <2> QED BY <2>3, <2>4, <2>5, <2>6, <2>12 DEF SInv
<1>2. CASE GenBody(t)
  <2>1. /\ pc[t] = "reading"
        /\ local' = [local EXCEPT ![t].body = body, ![t].nonce1 = nonce1]
        /\ UNCHANGED <<pc, job, body, nonce1, nonce2, sessions, task, works>>
    BY <1>2 DEF GenBody, lockVars
  <2>2. /\ local' \in [Thread -> Record]
        /\ \A u \in Thread : local'[u].nonce2 = local[u].nonce2
        /\ local'[t].body = body
        /\ \A u \in Thread \ {t} : local'[u] = local[u]
    BY <1>0, <2>1 DEF Types, Record
  <2>3. Types'
    BY <1>0, <2>1, <2>2 DEF Types
  <2>4. Stored' /\ Distinct'
    BY <1>0, <2>1 DEF Stored, Distinct
  <2>5. Current'
    BY <1>0, <2>1, <2>2 DEF Current
  <2>6. Rising'
    BY <1>0, <2>1, <2>2 DEF Rising, Numbered
  <2> QED BY <2>3, <2>4, <2>5, <2>6 DEF SInv
<1>3. CASE GenCrash(t)
  BY <1>0, <1>3, NothingNew DEF GenCrash, lockVars, Types, Stored, Numbered
<1>4. CASE GenJob(t)
  <2> DEFINE w == [local[t] EXCEPT !.job = job]
  <2>1. /\ local[t].body # 0 /\ pc[t] = "reading" /\ pc' = [pc EXCEPT ![t] = "out"]
        /\ task' = [task EXCEPT ![t] = "idle"]
        /\ works' = Append(works, w) /\ local' = [local EXCEPT ![t] = Blank]
        /\ UNCHANGED <<job, body, nonce1, nonce2, sessions>>
    BY <1>4 DEF GenJob, Become, cg_runlock, Goto
  <2>2. job = body
    BY <1>0, <2>1, WriterAlone DEF Stored, Numbered
  <2>3. w \in Record /\ w.job = body /\ w.nonce2 = local[t].nonce2
    BY <1>0, <2>2 DEF Types, Record
  <2>4. /\ works' \in Seq(Record) /\ DOMAIN works' = 1 .. Len(works) + 1
        /\ DOMAIN works = 1 .. Len(works) /\ Len(works) \in Nat
        /\ \A i \in DOMAIN works : works'[i] = works[i]
        /\ works'[Len(works) + 1] = w
    <3> HIDE DEF w
    <3> QED BY <1>0, <2>1, <2>3 DEF Types
  <2>5. /\ local' \in [Thread -> Record] /\ task' \in [Thread -> Task]
        /\ \A u \in Thread \ {t} : local'[u] = local[u] /\ pc'[u] = pc[u]
        /\ local'[t].body = 0 /\ pc'[t] = "out"
    BY <1>0, <2>1 DEF Types, Record, Blank, Task
  <2>6. Types'
    BY <1>0, <2>1, <2>4, <2>5 DEF Types
  <2>7. Stored'
    BY <2>1, <2>2 DEF Stored
  <2>8. Current'
    BY <1>0, <2>1, <2>5 DEF Current
  <2>9. /\ Numbered(t) /\ local[t].nonce2 < nonce2
        /\ \A i \in DOMAIN works : works[i].job = body => works[i].nonce2 # w.nonce2
        /\ \A u \in Thread \ {t} : Numbered(u) => local[u].nonce2 # w.nonce2
    BY <1>0, <2>1, <2>3 DEF Rising, Numbered
  <2> HIDE DEF w
  <2>10. body \in Nat /\ \A i \in DOMAIN works' : i \in DOMAIN works \/ works'[i] = w
    BY <1>0, <2>4 DEF Types
  <2>11. \A i \in DOMAIN works' :
             /\ works'[i].job <= body'
             /\ works'[i].job = body' => works'[i].nonce2 < nonce2'
    BY <1>0, <2>1, <2>3, <2>4, <2>9, <2>10 DEF Rising
  <2>12. ASSUME NEW u \in Thread, Numbered(u)'
         PROVE  /\ local'[u].nonce2 < nonce2'
                /\ \A i \in DOMAIN works' :
                      works'[i].job = body' => works'[i].nonce2 # local'[u].nonce2
                /\ \A v \in Thread \ {u} : Numbered(v)' => local'[v].nonce2 # local'[u].nonce2
    <3>1. u # t /\ Numbered(u) /\ local'[u] = local[u]
      BY <2>5, <2>12 DEF Numbered
    <3>2. \A v \in Thread \ {u} : Numbered(v)' => Numbered(v) /\ local'[v] = local[v]
      BY <2>5 DEF Numbered
    <3> QED BY <1>0, <2>1, <2>4, <2>9, <2>10, <3>1, <3>2 DEF Rising
  <2>13. Rising'
    BY <2>11, <2>12 DEF Rising
  <2>14. ASSUME NEW i \in DOMAIN works', NEW j \in DOMAIN works', i # j
         PROVE  works'[i].job # works'[j].job \/ works'[i].nonce2 # works'[j].nonce2
    <3>1. CASE i \in DOMAIN works /\ j \in DOMAIN works
      BY <1>0, <2>4, <2>14, <3>1 DEF Distinct
    <3>2. CASE i = Len(works) + 1
      <4>1. j \in DOMAIN works
        BY <2>4, <2>14, <3>2
      <4> QED BY <2>3, <2>4, <2>9, <3>2, <4>1
    <3>3. CASE j = Len(works) + 1
      <4>1. i \in DOMAIN works
        BY <2>4, <2>14, <3>3
      <4> QED BY <2>3, <2>4, <2>9, <3>3, <4>1
    <3> QED BY <2>4, <3>1, <3>2, <3>3
  <2>15. Distinct'
    BY <2>14 DEF Distinct
  <2> QED BY <2>6, <2>7, <2>8, <2>13, <2>15 DEF SInv
<1> QED BY <1>1, <1>2, <1>3, <1>4 DEF Generate

LEMMA ReceiverStep ==
    ASSUME SInv, IInv', Notify \/ Reconnect
    PROVE  SInv'
<1> USE DEF sworkVars, poolVars, threadVars
<1>0. /\ IInv /\ Types /\ Receiver \in Thread /\ pc \in [Thread -> Control]
      /\ Stored /\ Current /\ Rising /\ Distinct
  BY ThreadAssumption DEF SInv, IInv, TypeOK
<1>1. ASSUME NEW to \in Task, task' = [task EXCEPT ![Receiver] = to]
      PROVE  task' \in [Thread -> Task]
  BY <1>0, <1>1 DEF Types
<1>2. job # body => task[Receiver] = "notify" /\ pc[Receiver] = "writing"
  BY <1>0 DEF Stored
<1>3. CASE NotifyArrives
  <2>1. task' \in [Thread -> Task]
    BY <1>1, <1>3 DEF NotifyArrives, Become, Task
  <2> QED BY <1>0, <1>2, <1>3, <2>1, OneMoves DEF NotifyArrives, CallWlock, Become, Types
<1>4. CASE NotifyRefused
  BY <1>0, <1>2, <1>4, NothingNew DEF NotifyRefused, lockVars, Types, Numbered
<1>5. CASE NotifyJob
  <2>1. /\ pc[Receiver] = "writing" /\ task[Receiver] = "notify"
        /\ job = body /\ job' = job + 1
        /\ UNCHANGED <<pc, body, nonce1, nonce2, sessions, task, local, works>>
    BY <1>5 DEF NotifyJob, lockVars
  <2>2. Types'
    BY <1>0, <2>1 DEF Types
  <2>3. Stored'
    BY <2>1 DEF Stored
  <2>4. Current' /\ Rising' /\ Distinct'
    BY <1>0, <2>1 DEF Current, Rising, Distinct, Numbered
  <2> QED BY <2>2, <2>3, <2>4 DEF SInv
<1>6. CASE NotifyBody
  <2>1. /\ job # body /\ body' = job /\ nonce2' \in {0, nonce2}
        /\ pc[Receiver] = "writing" /\ pc' = [pc EXCEPT ![Receiver] = "w_unlock"]
        /\ task' = [task EXCEPT ![Receiver] = "notified"]
        /\ UNCHANGED <<job, nonce1, sessions, local, works>>
    BY <1>6 DEF NotifyBody, Become, WunlockWrite, Goto
  <2>2. \A t \in Thread : ~Numbered(t)
    BY <1>0, <2>1, WriterAlone
  <2>3. \A t \in Thread : ~Numbered(t)' /\ local[t].body = 0
    BY <1>0, <2>1, <2>2 DEF Numbered, Current
  <2>4. Types'
    BY <1>0, <1>1, <2>1 DEF Types, Task
  <2>5. job = body + 1 /\ body \in Nat
    BY <1>0, <2>1 DEF Stored, Types
  <2>6. ASSUME NEW i \in DOMAIN works PROVE works[i].job < body'
    <3>1. works[i] \in Record /\ works[i].job <= body
      BY <1>0 DEF Types, Rising
    <3> QED BY <2>1, <2>5, <3>1 DEF Record
  <2>7. ASSUME NEW i \in DOMAIN works PROVE works[i].job \in Nat
    <3>1. works[i] \in Record
      BY <1>0 DEF Types
    <3> QED BY <3>1 DEF Record
  <2>8. Rising'
    BY <2>1, <2>3, <2>4, <2>6, <2>7 DEF Rising, Types
  <2>9. Stored' /\ Current' /\ Distinct'
    BY <1>0, <2>1, <2>3 DEF Stored, Current, Distinct
  <2> QED BY <2>4, <2>8, <2>9 DEF SInv
<1>7. CASE NotifyDone
  <2>1. task' \in [Thread -> Task]
    BY <1>1, <1>7 DEF NotifyDone, Become, Task
  <2> QED BY <1>0, <1>2, <1>7, <2>1, OneMoves DEF NotifyDone, WunlockMutex, Become, Types
<1>8. CASE Restart
  <2>1. task' \in [Thread -> Task] /\ job = body
    BY <1>1, <1>2, <1>8 DEF Restart, Become, Task
  <2> QED BY <1>0, <1>8, <2>1, NothingNew DEF Restart, lockVars, Types, Numbered
<1>9. CASE Subscribed
  <2>1. task' \in [Thread -> Task] /\ job = body
    BY <1>1, <1>2, <1>9 DEF Subscribed, Become, Task
  <2> QED BY <1>0, <1>9, <2>1, OneMoves DEF Subscribed, CallWlock, Types
<1>10. CASE StoreSession
  <2>1. task' \in [Thread -> Task] /\ job = body
    BY <1>1, <1>2, <1>10 DEF StoreSession, Become, Task
  <2>2. nonce1' \in Nat /\ sessions' \in Nat
    BY <1>0, <1>10 DEF StoreSession, Types
  <2> QED BY <1>0, <1>10, <2>1, <2>2, OneMoves DEF StoreSession, WunlockWrite
<1>11. CASE SessionOpen
  <2>1. task' \in [Thread -> Task] /\ job = body
    BY <1>1, <1>2, <1>11 DEF SessionOpen, Become, Task
  <2> QED BY <1>0, <1>11, <2>1, OneMoves DEF SessionOpen, WunlockMutex, Types
<1>12. CASE SubscribeRefused
  <2>1. task' \in [Thread -> Task] /\ job = body
    BY <1>1, <1>2, <1>12 DEF SubscribeRefused, Become, Task
  <2> QED BY <1>0, <1>12, <2>1, OneMoves DEF SubscribeRefused, CallWlock, Types
<1>13. CASE ForgetSession
  <2>1. task' \in [Thread -> Task] /\ job = body
    BY <1>1, <1>2, <1>13 DEF ForgetSession, Become, Task
  <2>2. nonce1' \in Nat /\ sessions' \in Nat
    BY <1>0, <1>13 DEF ForgetSession, Types
  <2> QED BY <1>0, <1>13, <2>1, <2>2, OneMoves DEF ForgetSession, WunlockWrite
<1>14. CASE Resend
  <2>1. task' \in [Thread -> Task] /\ job = body
    BY <1>1, <1>2, <1>14 DEF Resend, Become, Task
  <2> QED BY <1>0, <1>14, <2>1, OneMoves DEF Resend, WunlockMutex, Types
<1>15. CASE InitiateFailed
  <2>1. task' \in [Thread -> Task] /\ job = body
    BY <1>1, <1>2, <1>15 DEF InitiateFailed, Become, Task
  <2> QED BY <1>0, <1>15, <2>1, NothingNew DEF InitiateFailed, lockVars, Types, Numbered
<1> QED BY <1>3, <1>4, <1>5, <1>6, <1>7, <1>8, <1>9, <1>10, <1>11, <1>12, <1>13, <1>14,
           <1>15 DEF Notify, Reconnect

LEMMA Steps == ASSUME SInv, [Next]_vars PROVE SInv'
<1> USE DEF sworkVars, poolVars, threadVars
<1>0. IInv /\ Types /\ Stored
  BY DEF SInv
<1>1. IInv'
  BY <1>0, LockSteps, StepInv
<1>2. CASE UNCHANGED vars
  BY <1>0, <1>1, <1>2, NothingNew DEF vars, lockVars, Types, Stored, Numbered
<1>3. CASE SchedulerGen
  <2>1. task' \in [Thread -> Task] /\ Scheduler \in Thread
    BY <1>0, <1>3, ThreadAssumption DEF SchedulerGen, Become, Task, Types
  <2>2. pc'[Receiver] = pc[Receiver] /\ task'[Receiver] = task[Receiver]
    BY <1>0, <1>3, ThreadAssumption DEF SchedulerGen, CallIlock, Goto, Become, Types, IInv, TypeOK
  <2>3. ASSUME NEW t \in Thread
        PROVE  /\ Numbered(t)' => Numbered(t)
               /\ pc[t] = "reading" => pc'[t] = "reading"
    BY <1>0, <1>3 DEF SchedulerGen, CallIlock, Goto, Numbered, IInv, TypeOK
  <2> QED BY <1>0, <1>1, <1>3, <2>1, <2>2, <2>3, NothingNew DEF SchedulerGen, Types, Stored
<1>4. CASE ReceiverGen
  <2>1. task' \in [Thread -> Task] /\ Receiver \in Thread /\ job = body
    BY <1>0, <1>4, ThreadAssumption DEF ReceiverGen, Become, Task, Types, Stored
  <2> QED BY <1>0, <1>1, <1>4, <2>1, OneMoves DEF ReceiverGen, CallIlock, Types
<1>5. ASSUME NEW t \in Thread, LockStep(t) PROVE SInv'
  <2> USE <1>0, <1>1, <1>5, OneMoves DEF LockStep, Types
  <2>1. CASE cg_ilock(t)
    BY <2>1 DEF cg_ilock
  <2>2. CASE DlockRead(t)
    BY <2>2 DEF DlockRead
  <2>3. CASE RlockUnlock(t)
    BY <2>3 DEF RlockUnlock
  <2>4. CASE WlockMutex(t)
    BY <2>4 DEF WlockMutex
  <2>5. CASE WlockWrite(t)
    BY <2>5 DEF WlockWrite
  <2> QED BY <2>1, <2>2, <2>3, <2>4, <2>5 DEF LockStep
<1>6. ASSUME NEW t \in Thread, Generate(t) PROVE SInv'
  BY <1>1, <1>6, GenerateStep
<1>7. CASE Notify \/ Reconnect
  BY <1>1, <1>7, ReceiverStep
<1> QED BY <1>2, <1>3, <1>4, <1>5, <1>6, <1>7 DEF Next

\* Types, and where a thread is in the lock.
InTasks ==
    \A t \in Thread : pc[t] = "out" => task[t] \in {"idle", "subscribe", "resubscribe", "down"}
Sessions == sessions \in Nat \ {0} /\ nonce1 \in 0 .. sessions
Flags == clean \in BOOLEAN /\ active \in BOOLEAN /\ notify \in BOOLEAN /\ crashed \in BOOLEAN
TInv == SInv /\ InTasks /\ Sessions /\ Flags

LEMMA MovesOn ==
    ASSUME IInv, Types, InTasks, NEW t \in Thread, NEW from, NEW to, NEW a, NEW b,
           Goto(t, from, to), Become(t, a, b),
           to = "out" => b \in {"idle", "subscribe", "resubscribe", "down"}
    PROVE  InTasks'
<1>1. /\ pc \in [Thread -> Control] /\ pc' = [pc EXCEPT ![t] = to]
      /\ task \in [Thread -> Task] /\ task' = [task EXCEPT ![t] = b]
  BY DEF IInv, TypeOK, Types, Goto, Become
<1>2. ASSUME NEW u \in Thread, pc'[u] = "out"
      PROVE  task'[u] \in {"idle", "subscribe", "resubscribe", "down"}
  <2>1. CASE u = t
    BY <1>1, <1>2, <2>1
  <2>2. CASE u # t
    <3>1. pc[u] = "out" /\ task'[u] = task[u]
      BY <1>1, <1>2, <2>2
    <3> QED BY <3>1 DEF InTasks
  <2> QED BY <2>1, <2>2
<1> QED BY <1>2 DEF InTasks

\* A step in the lock that does not leave it.
LEMMA StaysIn ==
    ASSUME IInv, InTasks, NEW t \in Thread, NEW from, NEW to,
           Goto(t, from, to), to # "out", task' = task
    PROVE  InTasks'
<1>1. pc \in [Thread -> Control] /\ pc' = [pc EXCEPT ![t] = to]
  BY DEF IInv, TypeOK, Goto
<1> QED BY <1>1 DEF InTasks

LEMMA TasksSteps == ASSUME IInv, Types, InTasks, [Next]_vars PROVE InTasks'
<1>0. Scheduler \in Thread /\ Receiver \in Thread
  BY ThreadAssumption
<1>1. CASE UNCHANGED vars
  BY <1>1 DEF vars, lockVars, threadVars, InTasks
<1>2. CASE SchedulerGen
  BY <1>0, <1>2, MovesOn DEF SchedulerGen, CallIlock
<1>3. CASE ReceiverGen
  BY <1>0, <1>3, MovesOn DEF ReceiverGen, CallIlock
<1>4. ASSUME NEW t \in Thread, LockStep(t) PROVE InTasks'
  BY <1>4, StaysIn DEF LockStep, threadVars, cg_ilock, DlockRead, RlockUnlock, WlockMutex, WlockWrite
<1>5. ASSUME NEW t \in Thread, Generate(t) PROVE InTasks'
  <2>1. CASE GenNonce2(t)
    BY <2>1, StaysIn DEF GenNonce2, CallDlock
  <2>2. CASE GenBody(t) \/ GenCrash(t)
    BY <2>2 DEF GenBody, GenCrash, lockVars, InTasks
  <2>3. CASE GenJob(t)
    BY <2>3, MovesOn DEF GenJob, cg_runlock
  <2> QED BY <1>5, <2>1, <2>2, <2>3 DEF Generate
<1>6. CASE NotifyArrives \/ NotifyBody \/ NotifyDone
  BY <1>0, <1>6, MovesOn DEF NotifyArrives, CallWlock, NotifyBody, WunlockWrite, NotifyDone, WunlockMutex
<1>7. CASE NotifyRefused \/ NotifyJob
  BY <1>7 DEF NotifyRefused, NotifyJob, lockVars, threadVars, InTasks
<1>8. CASE Restart \/ InitiateFailed
  <2>1. /\ pc' = pc
        /\ \E b \in {"subscribe", "down"} : task' = [task EXCEPT ![Receiver] = b]
    BY <1>8 DEF Restart, InitiateFailed, lockVars, Become
  <2>2. task \in [Thread -> Task]
    BY DEF Types
  <2> QED BY <1>0, <2>1, <2>2 DEF InTasks
<1>9. CASE Subscribed \/ StoreSession \/ SessionOpen
  BY <1>0, <1>9, MovesOn DEF Subscribed, StoreSession, SessionOpen, CallWlock, WunlockWrite, WunlockMutex
<1>10. CASE SubscribeRefused \/ ForgetSession \/ Resend
  BY <1>0, <1>10, MovesOn DEF SubscribeRefused, ForgetSession, Resend, CallWlock, WunlockWrite, WunlockMutex
<1> QED BY <1>1, <1>2, <1>3, <1>4, <1>5, <1>6, <1>7, <1>8, <1>9, <1>10 DEF Next, Notify, Reconnect

LEMMA SessionsSteps == ASSUME Sessions, Flags, [Next]_vars PROVE Sessions' /\ Flags'
<1> USE DEF Sessions, Flags, sworkVars, poolVars, threadVars
<1>1. CASE UNCHANGED vars
  BY <1>1 DEF vars
<1>2. CASE SchedulerGen \/ ReceiverGen
  BY <1>2 DEF SchedulerGen, ReceiverGen
<1>3. ASSUME NEW t \in Thread, LockStep(t) \/ Generate(t) PROVE Sessions' /\ Flags'
  BY <1>3 DEF LockStep, Generate, GenNonce2, GenBody, GenCrash, GenJob
<1>4. CASE Notify
  BY <1>4 DEF Notify, NotifyArrives, NotifyRefused, NotifyJob, NotifyBody, NotifyDone
<1>5. CASE StoreSession
  <2>1. (nonce1' = nonce1 /\ sessions' = sessions) \/ (sessions' = sessions + 1 /\ nonce1' = sessions')
    BY <1>5 DEF StoreSession
  <2>2. UNCHANGED <<clean, active, notify, crashed>>
    BY <1>5 DEF StoreSession
  <2> QED BY <2>1, <2>2
<1>6. CASE ForgetSession
  BY <1>6 DEF ForgetSession
<1>7. CASE Restart \/ Subscribed \/ SessionOpen \/ SubscribeRefused \/ Resend \/ InitiateFailed
  <2>1. UNCHANGED <<nonce1, sessions, clean, crashed>> /\ active' \in BOOLEAN /\ notify' \in BOOLEAN
    BY <1>7 DEF Restart, Subscribed, SessionOpen, SubscribeRefused, Resend, InitiateFailed
  <2> QED BY <2>1
<1> QED BY <1>1, <1>2, <1>3, <1>4, <1>5, <1>6, <1>7 DEF Next, Reconnect

LEMMA Invariant == StratumSpec => []TInv
<1>1. Init => TInv
  <2> SUFFICES ASSUME Init PROVE TInv
    OBVIOUS
  <2>1. InTasks
    BY DEF Init, InTasks
  <2>2. Sessions
    BY DEF Init, Sessions
  <2>3. Flags
    BY DEF Init, Flags
  <2> QED BY <2>1, <2>2, <2>3, Initially DEF TInv
<1>2. TInv /\ [Next]_vars => TInv'
  BY Steps, TasksSteps, SessionsSteps DEF TInv, SInv
<1> QED BY <1>1, <1>2, PTL DEF StratumSpec

----------------------------------------------------------------------------
\* gen_stratum_work: no two works are the same search, although parse_notify
\* sets nonce2 back and two threads take numbers from it.
THEOREM NoWorkTwice == StratumSpec => []NoDuplicateWork
<1>1. TInv => NoDuplicateWork
  BY DEF TInv, SInv, Distinct, NoDuplicateWork
<1> QED BY <1>1, Invariant, PTL

\* A work is made of one notification, that which is current when the read lock
\* is let go.
THEOREM Snapshot == StratumSpec => WorkIsSnapshot
<1>1. ASSUME TInv, [Next]_vars
      PROVE  [works' # works => Last(works').job = job /\ Last(works').body = job]_vars
  <2> SUFFICES ASSUME works' # works
               PROVE  Last(works').job = job /\ Last(works').body = job
    OBVIOUS
  <2>1. PICK t \in Thread : GenJob(t)
    BY <1>1 DEF Next, vars, threadVars, poolVars, sworkVars, SchedulerGen, ReceiverGen,
                LockStep, Generate, GenNonce2, GenBody, GenCrash, Notify, NotifyArrives,
                NotifyRefused, NotifyJob, NotifyBody, NotifyDone, Reconnect, Restart,
                Subscribed, StoreSession, SessionOpen, SubscribeRefused, ForgetSession,
                Resend, InitiateFailed
  <2> DEFINE w == [local[t] EXCEPT !.job = job]
  <2>2. local[t].body # 0 /\ pc[t] = "reading" /\ works' = Append(works, w)
    BY <2>1 DEF GenJob, cg_runlock, Goto
  <2>3. local[t].body = body
    BY <1>1, <2>2 DEF TInv, SInv, Current
  <2>4. job = body
    BY <1>1, <2>2, WriterAlone DEF TInv, SInv, Stored, Numbered
  <2>5. w \in Record /\ w.job = job /\ w.body = job
    BY <1>1, <2>3, <2>4 DEF TInv, SInv, Types, Record
  <2> HIDE DEF w
  <2>6. Last(works') = w
    BY <1>1, <2>2, <2>5 DEF TInv, SInv, Types, Last
  <2> QED BY <2>5, <2>6
<1> QED BY <1>1, Invariant, PTL DEF StratumSpec, WorkIsSnapshot

\* gen_stratum_work: the works are of the types of the module, too.
THEOREM WorksAreSound == StratumSpec => DistinctSnapshots
<1>1. TInv => StratumTypeOK
  BY DEF TInv, SInv, IInv, Types, Record, Work, InTasks, Sessions, Flags, StratumTypeOK
<1> QED BY <1>1, Invariant, NoWorkTwice, Snapshot, PTL DEF DistinctSnapshots
=============================================================================
