-------------------------- MODULE StagedWorkProofs --------------------------
(***************************************************************************)
(* Proofs about StagedWork, for any numbers of structs, pools and miners.  *)
(*                                                                         *)
(* The invariant is TypeOK /\ OneOwner /\ RollableBound.  OneOwner is what *)
(* makes RollableBound inductive: a struct that a thread rolls, clones or  *)
(* frees outside the lock is not one of those the counter speaks of.       *)
(*                                                                         *)
(* That no search is done twice needs Searches besides: how far the master *)
(* of a header is rolled, against the clones made of it and the searches   *)
(* the miners took on.                                                     *)
(***************************************************************************)
EXTENDS StagedWork, FiniteSetTheorems, TLAPS

IInv == TypeOK /\ OneOwner /\ RollableBound

----------------------------------------------------------------------------
(* Operators on works and locals.                                          *)

LEMMA BlankType == Pool # {} => Blank \in Fields
<1> SUFFICES ASSUME Pool # {} PROVE Blank \in Fields
  OBVIOUS
<1>1. SomePool \in Pool
  BY DEF SomePool
<1> QED BY <1>1 DEF Blank, Fields

LEMMA NewWorkType ==
    ASSUME TypeOK, NEW p \in Pool, NEW r \in BOOLEAN, NEW l \in BOOLEAN, NEW m \in BOOLEAN
    PROVE  NewWork(p, r, l, m) \in Fields
<1>1. Blank \in Fields
  BY BlankType
<1>2. ASSUME NEW b \in Nat
      PROVE  [Blank EXCEPT !.base = b, !.pool = p, !.rolltime = r,
                  !.longpoll = l, !.mandatory = m,
                  !.chain = chain, !.tv_staged = now, !.job = job[p]] \in Fields
  <2>1. job[p] \in Nat /\ chain \in Nat /\ now \in Int
    BY DEF TypeOK
  <2> QED BY <1>1, <2>1 DEF Fields
<1>3. bases + 1 \in Nat
  BY DEF TypeOK
<1> QED BY <1>2, <1>3 DEF NewWork

\* Rolling a work keeps it a master, or a clone, of the same rolltime.
LEMMA RollType ==
    ASSUME NEW w \in Fields
    PROVE  /\ roll_work(w) \in Fields
           /\ roll_work(w).clone = w.clone
           /\ roll_work(w).rolltime = w.rolltime
<1> QED BY DEF roll_work, Fields

LEMMA CloneType ==
    ASSUME NEW w \in Fields
    PROVE  make_clone(w) \in Fields /\ make_clone(w).clone = TRUE
<1>1. ASSUME NEW v \in Int
      PROVE  LET c == [w EXCEPT !.clone = TRUE, !.longpoll = FALSE,
                                !.mandatory = FALSE, !.tv_staged = v]
             IN  c \in Fields /\ c.clone = TRUE
  BY DEF Fields
<1>2. w.tv_staged - 1 \in Int
  BY DEF Fields
<1> QED BY <1>1, <1>2 DEF make_clone

LEMMA WipeType ==
    ASSUME TypeOK, NEW S
    PROVE  /\ Wipe(S) \in [Struct -> Fields]
           /\ \A s \in Struct \ S : Wipe(S)[s] = heap[s]
<1>1. Blank \in Fields
  BY BlankType DEF TypeOK
<1> QED BY <1>1 DEF Wipe, TypeOK

LEMMA StageType ==
    ASSUME NEW l \in Locals, NEW g \in {"work", "clone"}, NEW n \in Control
    PROVE  /\ Stage(l, g, n) \in Locals
           /\ Stage(l, g, n).pc = "stamp"
           /\ Stage(l, g, n).work = l.work
           /\ Stage(l, g, n).clone = l.clone
           /\ Stage(l, g, n).target = g
           /\ Stage(l, g, n).tested = "push"
           /\ Stage(l, g, n).next = n
<1> QED BY DEF Stage, Locals, Control

LEMMA IdleType == IdleLocals \in Locals
<1> QED BY DEF IdleLocals, Locals, Control, Pointer

LEMMA PushedType ==
    ASSUME NEW l \in Locals
    PROVE  /\ Pushed(l) \in Locals
           /\ l.next = "idle" => Pushed(l) = IdleLocals
           /\ l.next # "idle" => Pushed(l).pc = l.next
           /\ l.next # "idle" /\ l.target = "work" =>
                Pushed(l).work = Nil /\ Pushed(l).clone = l.clone
           /\ l.next # "idle" /\ l.target = "clone" =>
                Pushed(l).clone = Nil /\ Pushed(l).work = l.work
<1> QED BY IdleType DEF Pushed, Locals, Pointer

----------------------------------------------------------------------------
(* The counter.                                                            *)

LEMMA RollableFinite ==
    ASSUME TypeOK
    PROVE  IsFiniteSet(staged) /\ IsFiniteSet(Rollable) /\ Cardinality(Rollable) \in Nat
<1>1. IsFiniteSet(staged)
  BY StructAssumption, FS_Subset DEF TypeOK
<1>2. IsFiniteSet(Rollable)
  BY <1>1, FS_Subset DEF Rollable
<1> QED BY <1>1, <1>2, FS_CardinalityType

\* The bound survives when no work becomes a staged rollable master.
LEMMA BoundKept ==
    ASSUME TypeOK, RollableBound, Rollable' \subseteq Rollable,
           staged_rollable' \in Nat, staged_rollable' >= staged_rollable
    PROVE  RollableBound'
<1>1. Cardinality(Rollable') <= Cardinality(Rollable) /\ Cardinality(Rollable') \in Nat
  BY RollableFinite, FS_Subset, FS_CardinalityType
<1> QED BY <1>1, RollableFinite DEF RollableBound, TypeOK

\* It survives when one does and the counter is incremented.
LEMMA BoundIncremented ==
    ASSUME TypeOK, RollableBound, NEW s, Rollable' \subseteq Rollable \cup {s},
           staged_rollable' = staged_rollable + 1
    PROVE  RollableBound'
<1>1. /\ IsFiniteSet(Rollable \cup {s})
      /\ Cardinality(Rollable \cup {s}) <= Cardinality(Rollable) + 1
  <2>1. Cardinality(Rollable \cup {s}) = IF s \in Rollable THEN Cardinality(Rollable)
                                        ELSE Cardinality(Rollable) + 1
    BY RollableFinite, FS_AddElement
  <2> QED BY <2>1, RollableFinite, FS_AddElement
<1>2. Cardinality(Rollable \cup {s}) \in Nat
  BY <1>1, FS_CardinalityType
<1>3. Cardinality(Rollable') <= Cardinality(Rollable \cup {s}) /\ Cardinality(Rollable') \in Nat
  BY <1>1, FS_Subset, FS_CardinalityType
<1> QED BY <1>1, <1>2, <1>3, RollableFinite DEF RollableBound, TypeOK

\* It survives when a rollable master is taken and the counter decremented,
\* and the counter does not go below zero.
LEMMA BoundDecremented ==
    ASSUME TypeOK, RollableBound, NEW s \in Rollable, Rollable' = Rollable \ {s},
           staged_rollable' = staged_rollable - 1
    PROVE  RollableBound' /\ staged_rollable' \in Nat
<1>1. Cardinality(Rollable') = Cardinality(Rollable) - 1
  BY RollableFinite, FS_RemoveElement
<1>2. Cardinality(Rollable') \in Nat
  BY RollableFinite, FS_RemoveElement, FS_CardinalityType
<1> QED BY <1>1, <1>2, RollableFinite DEF RollableBound, TypeOK

----------------------------------------------------------------------------
(* Ownership.                                                              *)

\* Owners only let go: the structs staged and popped shrink, and every thread
\* keeps its locals or drops some.
LEMMA OwnersKept ==
    ASSUME TypeOK, OneOwner, staged' \subseteq staged,
           \A m \in Miner : held'[m] \in {held[m], Nil},
           \A t \in Stager : /\ stager'[t].work \in {stager[t].work, Nil}
                            /\ stager'[t].clone \in {stager[t].clone, Nil}
    PROVE  OneOwner'
<1>1. \A t \in Stager : LocalTo(t)' \subseteq LocalTo(t)
  BY DEF LocalTo
<1>2. ASSUME NEW m \in Miner, held'[m] # Nil
      PROVE  /\ held'[m] \notin staged'
             /\ \A n \in Miner \ {m} : held'[m] # held'[n]
             /\ \A t \in Stager : held'[m] \notin LocalTo(t)'
  BY <1>1, <1>2 DEF OneOwner
<1>3. ASSUME NEW t \in Stager
      PROVE  /\ LocalTo(t)' \cap staged' = {}
             /\ stager'[t].work = stager'[t].clone => stager'[t].work = Nil
             /\ \A u \in Stager \ {t} : LocalTo(t)' \cap LocalTo(u)' = {}
  BY <1>1 DEF OneOwner
<1> QED BY <1>2, <1>3 DEF OneOwner

\* A free struct becomes a local of one thread.
LEMMA OwnersNew ==
    ASSUME TypeOK, OneOwner, NEW t \in Stager, NEW new \in Free,
           staged' = staged, held' = held,
           \A u \in Stager \ {t} : stager'[u] = stager[u],
           \/ /\ stager'[t].work = new
              /\ stager'[t].clone = Nil
           \/ /\ stager'[t].work = stager[t].work
              /\ stager'[t].clone = new
    PROVE  OneOwner'
<1>0. new \in Struct /\ new \notin staged /\ new # Nil
  BY NilAssumption DEF Free
<1>1. \A u \in Stager \ {t} : LocalTo(u)' = LocalTo(u)
  BY DEF LocalTo
<1>2. LocalTo(t)' \subseteq LocalTo(t) \cup {new}
  BY DEF LocalTo
<1>3. \A u \in Stager : new \notin LocalTo(u)
  BY DEF Free
<1>4. \A m \in Miner : new # held[m]
  BY <1>0 DEF Free, Popped
<1>5. new # stager[t].work
  BY <1>0, <1>3 DEF LocalTo
<1>6. ASSUME NEW m \in Miner, held'[m] # Nil
      PROVE  /\ held'[m] \notin staged'
             /\ \A n \in Miner \ {m} : held'[m] # held'[n]
             /\ \A u \in Stager : held'[m] \notin LocalTo(u)'
  BY <1>1, <1>2, <1>4, <1>6 DEF OneOwner
<1>7. ASSUME NEW u \in Stager
      PROVE  LocalTo(u)' \cap staged' = {}
  BY <1>0, <1>1, <1>2 DEF OneOwner
<1>8. ASSUME NEW u \in Stager
      PROVE  stager'[u].work = stager'[u].clone => stager'[u].work = Nil
  BY <1>0, <1>5 DEF OneOwner
<1>9. ASSUME NEW u \in Stager, NEW v \in Stager \ {u}
      PROVE  LocalTo(u)' \cap LocalTo(v)' = {}
  <2>1. LocalTo(u) \cap LocalTo(v) = {}
    BY DEF OneOwner
  <2>2. CASE u = t
    BY <1>1, <1>2, <1>3, <2>1, <2>2
  <2>3. CASE v = t
    BY <1>1, <1>2, <1>3, <2>1, <2>3
  <2>4. CASE u # t /\ v # t
    BY <1>1, <2>1, <2>4
  <2> QED BY <2>2, <2>3, <2>4
<1> QED BY <1>6, <1>7, <1>8, <1>9 DEF OneOwner

----------------------------------------------------------------------------
(* Making work.                                                            *)

LEMMA MakeInv ==
    ASSUME IInv, NEW t \in Stager, NEW w \in Fields, NEW label, NEW tested,
           \/ label = "stamp" /\ tested = "push"
           \/ label = "look" /\ tested = "convert",
           Make(t, w, label, tested),
           UNCHANGED <<queueVars, blockVars, held, mined, poolVars, chain, now>>
    PROVE  IInv'
<1> USE DEF queueVars, blockVars, poolVars
<1>0. TypeOK /\ OneOwner /\ RollableBound
  BY DEF IInv
<1>1. PICK new \in Free :
        /\ heap' = [heap EXCEPT ![new] = w]
        /\ stager' = [stager EXCEPT ![t] = [IdleLocals EXCEPT
                          !.pc = label, !.work = new, !.tested = tested]]
        /\ bases' = bases + 1
  BY DEF Make
<1>2. new \in Struct /\ new \notin staged /\ new # Nil
  BY NilAssumption DEF Free
<1> DEFINE l == [IdleLocals EXCEPT !.pc = label, !.work = new, !.tested = tested]
<1>3. /\ l \in Locals /\ l.pc = label /\ l.work = new /\ l.clone = Nil
      /\ l.target = "work" /\ l.tested = tested /\ l.next = "idle"
  BY <1>2 DEF IdleLocals, Locals, Control, Pointer
<1>4. /\ stager' \in [Stager -> Locals]
      /\ stager'[t] = l
      /\ \A u \in Stager \ {t} : stager'[u] = stager[u]
  BY <1>0, <1>1, <1>3 DEF TypeOK
<1>5. \A u \in Stager : LocalsOK(u)'
  <2>1. LocalsOK(t)'
    BY <1>2, <1>3, <1>4 DEF LocalsOK, Target, Staging
  <2>2. \A u \in Stager \ {t} : LocalsOK(u)'
    BY <1>0, <1>4 DEF TypeOK, LocalsOK, Target
  <2> QED BY <2>1, <2>2
<1>6. TypeOK'
  BY <1>0, <1>1, <1>2, <1>4, <1>5 DEF TypeOK
<1>7. OneOwner'
  BY <1>0, <1>3, <1>4, OwnersNew
<1>8. Rollable' = Rollable
  BY <1>0, <1>1, <1>2 DEF Rollable, work_rollable, TypeOK
<1>9. RollableBound'
  BY <1>0, <1>8, BoundKept DEF TypeOK
<1> QED BY <1>6, <1>7, <1>9 DEF IInv

LEMMA CloneAvailableInv == IInv /\ CloneAvailable => IInv'
<1> SUFFICES ASSUME IInv, CloneAvailable PROVE IInv'
  OBVIOUS
<1> USE DEF queueVars, blockVars, poolVars, envVars
<1>0. TypeOK /\ OneOwner /\ RollableBound /\ Scheduler \in Stager
  BY DEF IInv, Stager
<1>1. PICK s \in Oldest(RollCandidates), new \in Free :
        /\ heap' = [heap EXCEPT ![s] = roll_work(roll_work(heap[s])),
                                ![new] = make_clone(roll_work(heap[s]))]
        /\ stager' = [stager EXCEPT ![Scheduler] = [IdleLocals EXCEPT
                          !.pc = "stamp", !.work = new]]
  BY DEF CloneAvailable
<1>2. new \in Struct /\ new \notin staged /\ new # Nil /\ s \in staged /\ s # new
  BY NilAssumption DEF Free, Oldest, RollCandidates
<1> DEFINE l == [IdleLocals EXCEPT !.pc = "stamp", !.work = new]
<1>3. /\ l \in Locals /\ l.pc = "stamp" /\ l.work = new /\ l.clone = Nil
      /\ l.target = "work" /\ l.tested = "push" /\ l.next = "idle"
  BY <1>2 DEF IdleLocals, Locals, Control, Pointer
<1>4. /\ stager' \in [Stager -> Locals]
      /\ stager'[Scheduler] = l
      /\ \A u \in Stager \ {Scheduler} : stager'[u] = stager[u]
  BY <1>0, <1>1, <1>3 DEF TypeOK
<1>5. \A u \in Stager : LocalsOK(u)'
  <2>1. LocalsOK(Scheduler)'
    BY <1>2, <1>3, <1>4 DEF LocalsOK, Target, Staging
  <2>2. \A u \in Stager \ {Scheduler} : LocalsOK(u)'
    BY <1>0, <1>4 DEF TypeOK, LocalsOK, Target
  <2> QED BY <2>1, <2>2
<1>6. heap[s] \in Fields /\ s \in Struct
  BY <1>0, <1>2 DEF TypeOK
<1>7. /\ roll_work(heap[s]) \in Fields
      /\ roll_work(roll_work(heap[s])) \in Fields
      /\ roll_work(roll_work(heap[s])).clone = heap[s].clone
      /\ roll_work(roll_work(heap[s])).rolltime = heap[s].rolltime
      /\ make_clone(roll_work(heap[s])) \in Fields
  BY <1>6, RollType, CloneType
<1>8. TypeOK'
  <2>1. heap' \in [Struct -> Fields]
    BY <1>0, <1>1, <1>7 DEF TypeOK
  <2> QED BY <1>0, <1>4, <1>5, <2>1 DEF TypeOK, CloneAvailable
<1>9. OneOwner'
  <2>1. staged' = staged /\ held' = held
    BY DEF CloneAvailable
  <2> QED BY <1>0, <1>3, <1>4, <2>1, OwnersNew
<1>10. Rollable' = Rollable
  <2>1. staged' = staged
    BY DEF CloneAvailable
  <2>2. heap'[s] = roll_work(roll_work(heap[s]))
    BY <1>0, <1>1, <1>2, <1>6 DEF TypeOK
  <2>3. \A r \in staged \ {s} : heap'[r] = heap[r]
    BY <1>0, <1>1, <1>2 DEF TypeOK
  <2>4. \A r \in staged : work_rollable(r)' <=> work_rollable(r)
    BY <1>7, <2>2, <2>3 DEF work_rollable
  <2> QED BY <2>1, <2>4 DEF Rollable
<1>11. RollableBound'
  BY <1>0, <1>10, BoundKept DEF TypeOK, CloneAvailable
<1> QED BY <1>8, <1>9, <1>11 DEF IInv

LEMMA MakeWorkInv == IInv /\ MakeWork => IInv'
<1> SUFFICES ASSUME IInv, MakeWork PROVE IInv'
  OBVIOUS
<1>0. TypeOK /\ Scheduler \in Stager /\ LongPoller \in Stager
  BY DEF IInv, Stager
<1>1. CASE GenStratum
  <2>1. PICK p \in StratumPool :
            Make(Scheduler, NewWork(p, FALSE, FALSE, FALSE), "stamp", "push")
    BY <1>1 DEF GenStratum
  <2>2. NewWork(p, FALSE, FALSE, FALSE) \in Fields
    BY <1>0, BoundAssumption, NewWorkType
  <2> QED BY <1>0, <1>1, <2>1, <2>2, MakeInv DEF GenStratum
<1>2. CASE Fetched
  <2>1. PICK p \in Pool \ StratumPool, r \in BOOLEAN :
            Make(Scheduler, NewWork(p, r, FALSE, FALSE), "stamp", "push")
    BY <1>2 DEF Fetched
  <2>2. NewWork(p, r, FALSE, FALSE) \in Fields
    BY <1>0, NewWorkType
  <2> QED BY <1>0, <1>2, <2>1, <2>2, MakeInv DEF Fetched
<1>3. CASE LongPollAnswer
  <2>1. PICK p \in Pool \ StratumPool, r \in BOOLEAN, m \in BOOLEAN :
            Make(LongPoller, NewWork(p, r, TRUE, m), "look", "convert")
    BY <1>3 DEF LongPollAnswer
  <2>2. NewWork(p, r, TRUE, m) \in Fields
    BY <1>0, NewWorkType
  <2> QED BY <1>0, <1>3, <2>1, <2>2, MakeInv DEF LongPollAnswer
<1>4. CASE CloneAvailable
  BY <1>4, CloneAvailableInv
<1>5. CASE CloneUnavailable
  <2> USE <1>5 DEF CloneUnavailable, At, Goto, queueVars, blockVars, poolVars, envVars
  <2>1. stager' \in [Stager -> Locals]
    BY <1>0 DEF TypeOK, Locals, Control
  <2>2. /\ stager'[Scheduler].work = stager[Scheduler].work
        /\ stager'[Scheduler].clone = stager[Scheduler].clone
        /\ stager'[Scheduler].pc = "fetch"
        /\ \A u \in Stager \ {Scheduler} : stager'[u] = stager[u]
    BY <1>0 DEF TypeOK, Locals, Control
  <2>3. \A u \in Stager : LocalsOK(u)'
    BY <1>0, <2>2 DEF TypeOK, LocalsOK, Target, Staging
  <2>4. TypeOK'
    BY <1>0, <2>1, <2>3 DEF TypeOK
  <2>5. OneOwner'
    BY <1>0, <2>2, OwnersKept DEF IInv
  <2>6. Rollable' = Rollable
    BY DEF Rollable, work_rollable
  <2> QED BY <1>0, <2>4, <2>5, <2>6 DEF IInv, RollableBound
<1> QED BY <1>1, <1>2, <1>3, <1>4, <1>5 DEF MakeWork

----------------------------------------------------------------------------
(* stage_work.                                                             *)

\* A step that only moves a thread to another label.
LEMMA GotoType ==
    ASSUME TypeOK, NEW t \in Stager, NEW label \in Control, Goto(t, label)
    PROVE  /\ stager' \in [Stager -> Locals]
           /\ stager'[t].pc = label
           /\ stager'[t].work = stager[t].work
           /\ stager'[t].clone = stager[t].clone
           /\ stager'[t].target = stager[t].target
           /\ stager'[t].tested = stager[t].tested
           /\ stager'[t].next = stager[t].next
           /\ stager'[t].cloned = stager[t].cloned
           /\ \A u \in Stager \ {t} : stager'[u] = stager[u]
           /\ \A u \in Stager : /\ LocalTo(u)' = LocalTo(u)
                                 /\ Target(u)' = Target(u)
                                 /\ stager'[u].work = stager[u].work
                                 /\ stager'[u].clone = stager[u].clone
<1>1. /\ stager' \in [Stager -> Locals]
      /\ stager'[t].pc = label
      /\ stager'[t].work = stager[t].work
      /\ stager'[t].clone = stager[t].clone
      /\ stager'[t].target = stager[t].target
      /\ stager'[t].tested = stager[t].tested
      /\ stager'[t].next = stager[t].next
      /\ stager'[t].cloned = stager[t].cloned
      /\ \A u \in Stager \ {t} : stager'[u] = stager[u]
  BY DEF Goto, TypeOK, Locals
<1> QED BY <1>1 DEF LocalTo, Target

\* From a label of stage_work to another, or to what follows the test of a
\* long poll's work, the locals stay in order.
LEMMA StagingLocals ==
    ASSUME TypeOK, NEW t \in Stager, stager[t].pc \in Staging,
           NEW label \in Staging \cup {stager[t].tested}, Goto(t, label)
    PROVE  /\ stager' \in [Stager -> Locals]
           /\ \A u \in Stager : LocalsOK(u)'
<1>1. LocalsOK(t) /\ label \in Control
  BY DEF TypeOK, LocalsOK, Staging, Control
<1>2. LocalsOK(t)'
  BY <1>1, GotoType DEF LocalsOK, Staging, Target
<1>3. \A u \in Stager \ {t} : LocalsOK(u)'
  BY <1>1, GotoType DEF TypeOK, LocalsOK, Target
<1> QED BY <1>1, <1>2, <1>3, GotoType

\* The struct being staged is the thread's own.
LEMMA TargetOwn ==
    ASSUME TypeOK, OneOwner, NEW t \in Stager, stager[t].pc \in Staging
    PROVE  Target(t) \in Struct /\ Target(t) \notin staged /\ Target(t) \in LocalTo(t)
<1>1. Target(t) # Nil
  BY DEF TypeOK, LocalsOK
<1>2. Target(t) \in Pointer /\ Target(t) \in {stager[t].work, stager[t].clone}
  BY DEF Target, TypeOK, Locals
<1>3. Target(t) \in LocalTo(t)
  BY <1>1, <1>2 DEF LocalTo
<1> QED BY <1>1, <1>2, <1>3 DEF OneOwner, Pointer

\* A step that changes no more than the target's fields and the label keeps
\* the queue's part of the invariant.
LEMMA QueueUntouched ==
    ASSUME IInv, TypeOK', staged' = staged, staged_rollable' = staged_rollable,
           held' = held,
           \A u \in Stager : stager'[u].work = stager[u].work /\ stager'[u].clone = stager[u].clone,
           \A r \in staged : heap'[r] = heap[r]
    PROVE  IInv'
<1>0. TypeOK /\ OneOwner /\ RollableBound
  BY DEF IInv
<1>1. OneOwner'
  BY <1>0, OwnersKept
<1>2. Rollable' = Rollable
  BY DEF Rollable, work_rollable
<1> QED BY <1>0, <1>1, <1>2 DEF IInv, RollableBound

LEMMA StampInv == ASSUME IInv, NEW t \in Stager, Stamp(t) PROVE IInv'
<1>0. TypeOK /\ OneOwner /\ stager[t].pc \in Staging /\ Goto(t, "look")
  BY DEF IInv, Stamp, At, Staging
<1>1. Target(t) \in Struct /\ Target(t) \notin staged
  BY <1>0, TargetOwn
<1>2. heap' \in [Struct -> Fields] /\ \A r \in staged : heap'[r] = heap[r]
  BY <1>0, <1>1 DEF TypeOK, Stamp, Fields
<1>3. stager' \in [Stager -> Locals] /\ \A u \in Stager : LocalsOK(u)'
  BY <1>0, StagingLocals DEF Staging
<1>4. TypeOK'
  BY <1>0, <1>2, <1>3 DEF TypeOK, Stamp, queueVars, blockVars, poolVars, envVars
<1>5. \A u \in Stager : stager'[u].work = stager[u].work /\ stager'[u].clone = stager[u].clone
  BY <1>0, GotoType DEF Control
<1> QED BY <1>2, <1>4, <1>5, QueueUntouched DEF Stamp, queueVars

LEMMA LookInv == ASSUME IInv, NEW t \in Stager, Look(t) PROVE IInv'
<1>0. /\ TypeOK /\ OneOwner /\ stager[t].pc \in Staging
      /\ UNCHANGED <<heap, queueVars, blockVars, held, mined, poolVars, envVars>>
  BY DEF IInv, Look, At, Staging
<1>1. PICK label \in Staging \cup {stager[t].tested} : Goto(t, label)
  BY DEF Look, Staging
<1>2. label \in Control
  BY <1>0, <1>1 DEF TypeOK, Locals, Control, Staging
<1>3. stager' \in [Stager -> Locals] /\ \A u \in Stager : LocalsOK(u)'
  BY <1>0, <1>1, StagingLocals
<1>4. TypeOK'
  BY <1>0, <1>3 DEF TypeOK, queueVars, blockVars, poolVars, envVars
<1>5. \A u \in Stager : stager'[u].work = stager[u].work /\ stager'[u].clone = stager[u].clone
  BY <1>0, <1>1, <1>2, GotoType
<1> QED BY <1>0, <1>4, <1>5, QueueUntouched DEF queueVars

LEMMA BumpType ==
    ASSUME TypeOK, NEW s \in Struct
    PROVE  [heap EXCEPT ![s].work_block = work_block + 1, ![s].longpoll = FALSE]
             \in [Struct -> Fields]
<1>1. work_block + 1 \in Nat
  BY DEF TypeOK
<1>2. \A w \in Fields, n \in Nat : [w EXCEPT !.work_block = n] \in Fields
  BY DEF Fields
<1>3. \A w \in Fields : [w EXCEPT !.longpoll = FALSE] \in Fields
  BY DEF Fields
<1> DEFINE h == [heap EXCEPT ![s].work_block = work_block + 1]
<1>4. h \in [Struct -> Fields]
  BY <1>1, <1>2 DEF TypeOK
<1>5. [h EXCEPT ![s].longpoll = FALSE] \in [Struct -> Fields]
  BY <1>3, <1>4
<1> QED BY <1>5

LEMMA NewBlockInv == ASSUME IInv, NEW t \in Stager, NewBlock(t) PROVE IInv'
<1>0. /\ TypeOK /\ OneOwner /\ stager[t].pc \in Staging
      /\ UNCHANGED <<queueVars, held, mined, poolVars, envVars>>
  BY DEF IInv, NewBlock, At, Staging
<1>s. Target(t) \in Struct /\ Target(t) \notin staged
  BY <1>0, TargetOwn
<1>1. PICK label \in Staging \cup {stager[t].tested} : Goto(t, label)
  BY DEF NewBlock, Staging
<1>2. label \in Control
  BY <1>0, <1>1 DEF TypeOK, Locals, Control, Staging
<1>3. stager' \in [Stager -> Locals] /\ \A u \in Stager : LocalsOK(u)'
  BY <1>0, <1>1, StagingLocals
<1>h. /\ heap' \in [Struct -> Fields]
      /\ \A r \in staged : heap'[r] = heap[r]
      /\ work_block' \in Nat /\ seen' \subseteq Nat
  <2>1. seen' \subseteq Nat
    BY <1>0, <1>s DEF NewBlock, TypeOK, Fields
  <2>2. CASE UNCHANGED <<heap, work_block>>
    BY <1>0, <2>1, <2>2 DEF TypeOK
  <2>3. CASE /\ work_block' = work_block + 1
             /\ heap' = [heap EXCEPT ![Target(t)].work_block = work_block + 1,
                                     ![Target(t)].longpoll = FALSE]
    <3>1. heap' \in [Struct -> Fields]
      BY <1>0, <1>s, <2>3, BumpType
    <3>2. \A r \in staged : heap'[r] = heap[r]
      BY <1>0, <1>s, <2>3 DEF TypeOK
    <3> QED BY <1>0, <2>1, <2>3, <3>1, <3>2 DEF TypeOK
  <2> QED BY <2>2, <2>3 DEF NewBlock
<1>4. TypeOK'
  BY <1>0, <1>3, <1>h DEF TypeOK, queueVars, poolVars, envVars
<1>5. \A u \in Stager : stager'[u].work = stager[u].work /\ stager'[u].clone = stager[u].clone
  BY <1>0, <1>1, <1>2, GotoType
<1> QED BY <1>0, <1>h, <1>4, <1>5, QueueUntouched DEF queueVars

LEMMA LongPollAgainInv == ASSUME IInv, NEW t \in Stager, LongPollAgain(t) PROVE IInv'
<1>0. /\ TypeOK /\ OneOwner /\ stager[t].pc \in Staging
      /\ UNCHANGED <<queueVars, seen, held, mined, poolVars, envVars>>
      /\ work_block' = work_block + 1
      /\ heap' = [heap EXCEPT ![Target(t)].work_block = work_block + 1,
                              ![Target(t)].longpoll = FALSE]
  BY DEF IInv, LongPollAgain, At, Staging
<1>s. Target(t) \in Struct /\ Target(t) \notin staged
  BY <1>0, TargetOwn
<1>1. PICK label \in Staging \cup {stager[t].tested} : Goto(t, label)
  BY DEF LongPollAgain, Staging
<1>2. label \in Control
  BY <1>0, <1>1 DEF TypeOK, Locals, Control, Staging
<1>3. stager' \in [Stager -> Locals] /\ \A u \in Stager : LocalsOK(u)'
  BY <1>0, <1>1, StagingLocals
<1>h. /\ heap' \in [Struct -> Fields]
      /\ \A r \in staged : heap'[r] = heap[r]
  <2>1. heap' \in [Struct -> Fields]
    BY <1>0, <1>s, BumpType
  <2>2. \A r \in staged : heap'[r] = heap[r]
    BY <1>0, <1>s DEF TypeOK
  <2> QED BY <2>1, <2>2
<1>4. TypeOK'
  BY <1>0, <1>3, <1>h DEF TypeOK, queueVars, poolVars, envVars
<1>5. \A u \in Stager : stager'[u].work = stager[u].work /\ stager'[u].clone = stager[u].clone
  BY <1>0, <1>1, <1>2, GotoType
<1> QED BY <1>0, <1>h, <1>4, <1>5, QueueUntouched DEF queueVars

\* Works leave the table and are freed; the counter stays.
LEMMA QueueShrinks ==
    ASSUME IInv, TypeOK', NEW S \in SUBSET staged,
           staged' = staged \ S, heap' = Wipe(S),
           staged_rollable' = staged_rollable, held' = held,
           \A u \in Stager : stager'[u].work = stager[u].work /\ stager'[u].clone = stager[u].clone
    PROVE  IInv'
<1>0. TypeOK /\ OneOwner /\ RollableBound
  BY DEF IInv
<1>1. OneOwner'
  BY <1>0, OwnersKept
<1>2. \A r \in staged' : heap'[r] = heap[r]
  BY <1>0, WipeType DEF TypeOK
<1>3. Rollable' \subseteq Rollable
  BY <1>2 DEF Rollable, work_rollable
<1>4. RollableBound'
  BY <1>0, <1>3, BoundKept DEF TypeOK
<1> QED BY <1>1, <1>4 DEF IInv

LEMMA RestartInv == ASSUME IInv, NEW t \in Stager, Restart(t) PROVE IInv'
<1>0. /\ TypeOK /\ OneOwner /\ stager[t].pc \in Staging
      /\ UNCHANGED <<staged_rollable, blockVars, held, mined, poolVars, envVars>>
      /\ staged' = staged \ Stale /\ heap' = Wipe(Stale) /\ Stale \subseteq staged
  BY DEF IInv, Restart, At, Staging, Stale
<1>1. PICK label \in Staging \cup {stager[t].tested} : Goto(t, label)
  BY DEF Restart, Staging
<1>2. label \in Control
  BY <1>0, <1>1 DEF TypeOK, Locals, Control, Staging
<1>3. stager' \in [Stager -> Locals] /\ \A u \in Stager : LocalsOK(u)'
  BY <1>0, <1>1, StagingLocals
<1>4. TypeOK'
  BY <1>0, <1>3, WipeType DEF TypeOK, blockVars, poolVars, envVars
<1>5. \A u \in Stager : stager'[u].work = stager[u].work /\ stager'[u].clone = stager[u].clone
  BY <1>0, <1>1, <1>2, GotoType
<1> QED BY <1>0, <1>4, <1>5, QueueShrinks

LEMMA HashPushInv == ASSUME IInv, NEW t \in Stager, HashPush(t) PROVE IInv'
<1> DEFINE s == Target(t)
           stale == {r \in staged \cup {s} : stale_work(r)}
           l == stager[t]
<1>0. /\ TypeOK /\ OneOwner /\ RollableBound /\ l.pc \in Staging /\ l.pc = "push"
      /\ UNCHANGED <<blockVars, held, mined, poolVars, envVars>>
      /\ staged_rollable' = IF work_rollable(s) THEN staged_rollable + 1 ELSE staged_rollable
      /\ staged' = (staged \cup {s}) \ stale
      /\ heap' = Wipe(stale)
      /\ stager' = [stager EXCEPT ![t] = Pushed(l)]
  BY DEF IInv, HashPush, At, Staging
<1>s. s \in Struct /\ s \notin staged /\ s \in LocalTo(t) /\ s # Nil
  BY <1>0, TargetOwn, NilAssumption
<1>l. l \in Locals /\ LocalsOK(t)
  BY <1>0 DEF TypeOK
<1>1. /\ stager' \in [Stager -> Locals]
      /\ stager'[t] = Pushed(l)
      /\ \A u \in Stager \ {t} : stager'[u] = stager[u]
  BY <1>0, <1>l, PushedType DEF TypeOK
<1>2. /\ stager'[t].work \in {stager[t].work, Nil}
      /\ stager'[t].clone \in {stager[t].clone, Nil}
      /\ s \notin {stager'[t].work, stager'[t].clone}
  <2>1. CASE l.next = "idle"
    BY <1>1, <1>l, <1>s, <2>1, PushedType DEF IdleLocals
  <2>2. CASE l.next # "idle" /\ l.target = "work"
    <3>1. stager'[t].work = Nil /\ stager'[t].clone = l.clone
      BY <1>1, <1>l, <2>2, PushedType
    <3>2. s = l.work /\ l.work # l.clone
      BY <1>0, <1>s, <2>2 DEF Target, OneOwner
    <3> QED BY <1>s, <3>1, <3>2
  <2>3. CASE l.next # "idle" /\ l.target = "clone"
    <3>1. stager'[t].clone = Nil /\ stager'[t].work = l.work
      BY <1>1, <1>l, <2>3, PushedType
    <3>2. s = l.clone /\ l.work # l.clone
      BY <1>0, <1>s, <2>3 DEF Target, OneOwner
    <3> QED BY <1>s, <3>1, <3>2
  <2> QED BY <1>l, <2>1, <2>2, <2>3 DEF Locals
<1>3. \A u \in Stager : LocalsOK(u)'
  <2>1. LocalsOK(t)'
    <3>1. CASE l.next = "idle"
      BY <1>1, <1>l, <3>1, PushedType DEF LocalsOK, IdleLocals, Staging
    <3>2. CASE l.next = "roll"
      <4>1. Pushed(l).pc = "roll" /\ Pushed(l).clone = Nil /\ Pushed(l).work # Nil
        BY <1>0, <1>l, <3>2, PushedType DEF LocalsOK
      <4> QED BY <1>1, <4>1 DEF LocalsOK, Staging
    <3>3. CASE l.next = "last"
      <4>1. Pushed(l).pc = "last" /\ Pushed(l).clone # Nil /\ Pushed(l).work = Nil
        BY <1>0, <1>l, <3>3, PushedType DEF LocalsOK
      <4> QED BY <1>1, <4>1 DEF LocalsOK, Staging
    <3> QED BY <1>0, <1>l, <3>1, <3>2, <3>3 DEF LocalsOK
  <2>2. \A u \in Stager \ {t} : LocalsOK(u)'
    BY <1>0, <1>1 DEF TypeOK, LocalsOK, Target
  <2> QED BY <2>1, <2>2
<1>4. TypeOK'
  <2>1. staged_rollable' \in Nat
    BY <1>0 DEF TypeOK
  <2>2. heap' \in [Struct -> Fields]
    BY <1>0, WipeType
  <2> QED BY <1>0, <1>1, <1>3, <1>s, <2>1, <2>2 DEF TypeOK, blockVars, poolVars, envVars
<1>5. OneOwner'
  <2>1. \A u \in Stager \ {t} : LocalTo(u)' = LocalTo(u)
    BY <1>1 DEF LocalTo
  <2>2. LocalTo(t)' \subseteq LocalTo(t) \ {s}
    BY <1>2 DEF LocalTo
  <2>3. ASSUME NEW m \in Miner, held'[m] # Nil
        PROVE  /\ held'[m] \notin staged'
               /\ \A n \in Miner \ {m} : held'[m] # held'[n]
               /\ \A u \in Stager : held'[m] \notin LocalTo(u)'
    BY <1>0, <1>s, <2>1, <2>2, <2>3 DEF OneOwner
  <2>4. ASSUME NEW u \in Stager
        PROVE  LocalTo(u)' \cap staged' = {}
    <3>1. CASE u = t
      BY <1>0, <2>2, <3>1 DEF OneOwner
    <3>2. CASE u # t
      BY <1>0, <1>s, <2>1, <3>2 DEF OneOwner
    <3> QED BY <3>1, <3>2
  <2>5. ASSUME NEW u \in Stager
        PROVE  stager'[u].work = stager'[u].clone => stager'[u].work = Nil
    BY <1>0, <1>1, <1>2 DEF OneOwner
  <2>6. ASSUME NEW u \in Stager, NEW v \in Stager \ {u}
        PROVE  LocalTo(u)' \cap LocalTo(v)' = {}
    BY <1>0, <2>1, <2>2 DEF OneOwner
  <2> QED BY <2>3, <2>4, <2>5, <2>6 DEF OneOwner
<1>6. RollableBound'
  <2>1. \A r \in staged' : heap'[r] = heap[r] /\ r \in staged \cup {s}
    BY <1>0, <1>s, WipeType DEF TypeOK
  <2>2. CASE work_rollable(s)
    <3>1. Rollable' \subseteq Rollable \cup {s}
      BY <2>1 DEF Rollable, work_rollable
    <3> QED BY <1>0, <2>2, <3>1, BoundIncremented
  <2>3. CASE ~work_rollable(s)
    <3>1. Rollable' \subseteq Rollable
      BY <2>1, <2>3 DEF Rollable, work_rollable
    <3> QED BY <1>0, <2>3, <3>1, BoundKept DEF TypeOK
  <2> QED BY <2>2, <2>3
<1> QED BY <1>4, <1>5, <1>6 DEF IInv

----------------------------------------------------------------------------
(* clone_work.                                                             *)

\* A step of one thread whose locals stay in order and that leaves the queue.
LEMMA LocalStep ==
    ASSUME TypeOK, NEW t \in Stager, NEW l \in Locals,
           stager' = [stager EXCEPT ![t] = l]
    PROVE  /\ stager' \in [Stager -> Locals]
           /\ stager'[t] = l
           /\ \A u \in Stager \ {t} : stager'[u] = stager[u] /\ (LocalsOK(u) => LocalsOK(u)')
<1> QED BY DEF TypeOK, LocalsOK, Target

LEMMA UnwantedInv == ASSUME IInv, NEW t \in Stager, Unwanted(t) PROVE IInv'
<1>0. /\ TypeOK /\ OneOwner /\ RollableBound /\ stager[t].pc = "convert" /\ LocalsOK(t)
      /\ heap' = Wipe({stager[t].work})
      /\ stager' = [stager EXCEPT ![t] = IdleLocals]
      /\ UNCHANGED <<queueVars, blockVars, held, mined, poolVars, envVars>>
  BY DEF IInv, Unwanted, At, TypeOK
<1>1. /\ stager' \in [Stager -> Locals] /\ stager'[t] = IdleLocals
      /\ \A u \in Stager \ {t} : stager'[u] = stager[u] /\ (LocalsOK(u) => LocalsOK(u)')
  BY <1>0, IdleType, LocalStep
<1>2. \A u \in Stager : LocalsOK(u)'
  <2>1. LocalsOK(t)'
    BY <1>1 DEF LocalsOK, IdleLocals, Staging
  <2> QED BY <1>0, <1>1, <2>1 DEF TypeOK
<1>3. TypeOK'
  BY <1>0, <1>1, <1>2, WipeType DEF TypeOK, queueVars, blockVars, poolVars, envVars
<1>4. \A r \in staged : heap'[r] = heap[r]
  <2>1. stager[t].work \in LocalTo(t)
    BY <1>0 DEF LocalsOK, LocalTo
  <2>2. stager[t].work \notin staged
    BY <1>0, <2>1 DEF OneOwner
  <2> QED BY <1>0, <2>2, WipeType DEF TypeOK
<1>5. OneOwner'
  <2>1. \A u \in Stager : /\ stager'[u].work \in {stager[u].work, Nil}
                          /\ stager'[u].clone \in {stager[u].clone, Nil}
    BY <1>1 DEF IdleLocals
  <2> QED BY <1>0, <2>1, OwnersKept DEF queueVars
<1>6. Rollable' = Rollable
  BY <1>0, <1>4 DEF Rollable, work_rollable, queueVars
<1> QED BY <1>0, <1>3, <1>5, <1>6 DEF IInv, RollableBound, queueVars

LEMMA StagedSize == TypeOK => Cardinality(staged) \in Nat
<1> QED BY RollableFinite, FS_CardinalityType

LEMMA ConvertInv == ASSUME IInv, NEW t \in Stager, Convert(t) PROVE IInv'
<1>0. /\ TypeOK /\ OneOwner /\ RollableBound /\ stager[t].pc = "convert" /\ LocalsOK(t)
      /\ UNCHANGED <<queueVars, blockVars, held, mined, poolVars, envVars>>
      /\ stager[t] \in Locals /\ stager[t].work # Nil /\ stager[t].clone = Nil
  BY DEF IInv, Convert, At, TypeOK, LocalsOK
<1>1. CASE /\ stager' = [stager EXCEPT ![t] = Stage(stager[t], "work", "idle")]
           /\ UNCHANGED heap
  <2> DEFINE l == Stage(stager[t], "work", "idle")
  <2>1. /\ l \in Locals /\ l.pc = "stamp" /\ l.work = stager[t].work
        /\ l.clone = stager[t].clone /\ l.target = "work" /\ l.tested = "push"
        /\ l.next = "idle"
    BY <1>0, StageType DEF Control
  <2>2. /\ stager' \in [Stager -> Locals] /\ stager'[t] = l
        /\ \A u \in Stager \ {t} : stager'[u] = stager[u] /\ (LocalsOK(u) => LocalsOK(u)')
    BY <1>0, <1>1, <2>1, LocalStep
  <2>3. LocalsOK(t)'
    BY <1>0, <2>1, <2>2 DEF LocalsOK, Staging, Target
  <2>4. TypeOK'
    BY <1>0, <1>1, <2>2, <2>3 DEF TypeOK, queueVars, blockVars, poolVars, envVars
  <2>5. \A u \in Stager : stager'[u].work = stager[u].work /\ stager'[u].clone = stager[u].clone
    BY <2>1, <2>2
  <2> QED BY <1>0, <1>1, <2>4, <2>5, QueueUntouched DEF queueVars
<1>2. ASSUME NEW new \in Free,
             heap' = [heap EXCEPT ![new] = make_clone(heap[stager[t].work])],
             stager' = [stager EXCEPT
                  ![t] = [stager[t] EXCEPT !.pc = "loop", !.clone = new,
                                   !.mrs = TotalRoom - Cardinality(staged)]],
             Cardinality(staged) < TotalRoom, TotalRoom - Cardinality(staged) \in Nat
      PROVE  IInv'
  <2>n. new \in Struct /\ new \notin staged /\ new # Nil
    BY NilAssumption DEF Free
  <2> DEFINE mrs == TotalRoom - Cardinality(staged)
             l == [stager[t] EXCEPT !.pc = "loop", !.clone = new, !.mrs = mrs]
  <2>1. /\ l \in Locals /\ l.pc = "loop" /\ l.work = stager[t].work /\ l.clone = new
    <3>1. \A n \in Nat : LET k == [stager[t] EXCEPT !.pc = "loop", !.clone = new, !.mrs = n]
                         IN  k \in Locals /\ k.pc = "loop" /\ k.work = stager[t].work /\ k.clone = new
      BY <1>0, <2>n DEF Locals, Control, Pointer
    <3> QED BY <1>2, <3>1
  <2>2. /\ stager' \in [Stager -> Locals] /\ stager'[t] = l
        /\ \A u \in Stager \ {t} : stager'[u] = stager[u] /\ (LocalsOK(u) => LocalsOK(u)')
    BY <1>0, <1>2, <2>1, LocalStep
  <2>3. LocalsOK(t)'
    BY <1>0, <2>1, <2>2, <2>n DEF LocalsOK, Staging
  <2>4. heap' \in [Struct -> Fields] /\ \A r \in staged : heap'[r] = heap[r]
    <3>1. heap[stager[t].work] \in Fields
      BY <1>0 DEF TypeOK, Locals, Pointer
    <3> QED BY <1>0, <1>2, <2>n, <3>1, CloneType DEF TypeOK
  <2>5. TypeOK'
    BY <1>0, <2>2, <2>3, <2>4 DEF TypeOK, queueVars, blockVars, poolVars, envVars
  <2>6. OneOwner'
    BY <1>0, <2>1, <2>2, OwnersNew DEF queueVars
  <2>7. Rollable' = Rollable
    BY <1>0, <2>4 DEF Rollable, work_rollable, queueVars
  <2> QED BY <1>0, <2>5, <2>6, <2>7 DEF IInv, RollableBound, queueVars
<1>3. CASE Cardinality(staged) >= TotalRoom
  BY <1>1, <1>3 DEF Convert
<1>4. CASE ~(Cardinality(staged) >= TotalRoom)
  <2>1. TotalRoom \in Nat
    BY BoundAssumption, MinerAssumption, FS_CardinalityType DEF TotalRoom
  <2>2. Cardinality(staged) < TotalRoom /\ TotalRoom - Cardinality(staged) \in Nat
    BY <1>0, <1>4, <2>1, StagedSize
  <2> QED BY <1>2, <1>4, <2>2 DEF Convert
<1> QED BY <1>3, <1>4

\* Calls of stage_work from clone_work's loop.
LEMMA StageCallInv ==
    ASSUME IInv, NEW t \in Stager, NEW l \in Locals,
           stager' = [stager EXCEPT ![t] = l], l.pc = "stamp", l.tested = "push",
           l.work = stager[t].work, l.clone = stager[t].clone,
           \/ l.target = "clone" /\ l.next = "roll" /\ l.work # Nil /\ l.clone # Nil
           \/ l.target = "work" /\ l.next = "last" /\ l.work # Nil /\ l.clone # Nil
           \/ l.target = "clone" /\ l.next = "idle" /\ l.work = Nil /\ l.clone # Nil,
           UNCHANGED <<heap, queueVars, blockVars, held, mined, poolVars, envVars>>
    PROVE  IInv'
<1>0. TypeOK
  BY DEF IInv
<1>1. /\ stager' \in [Stager -> Locals] /\ stager'[t] = l
      /\ \A u \in Stager \ {t} : stager'[u] = stager[u] /\ (LocalsOK(u) => LocalsOK(u)')
  BY <1>0, LocalStep
<1>2. LocalsOK(t)'
  BY <1>1 DEF LocalsOK, Staging, Target
<1>3. TypeOK'
  BY <1>0, <1>1, <1>2 DEF TypeOK, queueVars, blockVars, poolVars, envVars
<1>4. \A u \in Stager : stager'[u].work = stager[u].work /\ stager'[u].clone = stager[u].clone
  BY <1>1
<1> QED BY <1>0, <1>3, <1>4, QueueUntouched DEF queueVars

LEMMA LoopStageInv == ASSUME IInv, NEW t \in Stager, LoopStage(t) PROVE IInv'
<1>0. /\ TypeOK /\ LocalsOK(t) /\ stager[t] \in Locals /\ stager[t].pc = "loop"
      /\ stager[t].mrs > 0
  BY DEF IInv, LoopStage, At, TypeOK, RollsOn
<1>1. /\ stager[t].work # Nil /\ stager[t].clone # Nil
  BY <1>0 DEF LocalsOK
<1> DEFINE k == [stager[t] EXCEPT !.mrs = stager[t].mrs - 1]
           l == Stage(k, "clone", "roll")
<1>2. k \in Locals /\ k.work = stager[t].work /\ k.clone = stager[t].clone
  <2>1. stager[t].mrs - 1 \in Nat
    BY <1>0 DEF Locals
  <2>2. \A n \in Nat : LET j == [stager[t] EXCEPT !.mrs = n] IN
          j \in Locals /\ j.work = stager[t].work /\ j.clone = stager[t].clone
    BY <1>0 DEF Locals
  <2> QED BY <2>1, <2>2
<1>3. "roll" \in Control
  BY DEF Control
<1> HIDE DEF k
<1>4. /\ l \in Locals /\ l.pc = "stamp" /\ l.work = stager[t].work
      /\ l.clone = stager[t].clone /\ l.target = "clone" /\ l.tested = "push"
      /\ l.next = "roll"
  BY <1>2, <1>3, StageType
<1>5. stager' = [stager EXCEPT ![t] = l]
  BY DEF LoopStage, k
<1>6. UNCHANGED <<heap, queueVars, blockVars, held, mined, poolVars, envVars>>
  BY DEF LoopStage
<1> HIDE DEF l
<1> QED BY <1>1, <1>4, <1>5, <1>6, StageCallInv

LEMMA LoopEndClonedInv == ASSUME IInv, NEW t \in Stager, LoopEndCloned(t) PROVE IInv'
<1>0. /\ TypeOK /\ LocalsOK(t) /\ stager[t] \in Locals /\ stager[t].pc = "loop"
  BY DEF IInv, LoopEndCloned, At, TypeOK
<1>1. /\ stager[t].work # Nil /\ stager[t].clone # Nil /\ "last" \in Control
  BY <1>0 DEF LocalsOK, Control
<1> DEFINE l == Stage(stager[t], "work", "last")
<1>2. /\ l \in Locals /\ l.pc = "stamp" /\ l.work = stager[t].work
      /\ l.clone = stager[t].clone /\ l.target = "work" /\ l.tested = "push"
      /\ l.next = "last"
  BY <1>0, <1>1, StageType
<1>3. /\ stager' = [stager EXCEPT ![t] = l]
      /\ UNCHANGED <<heap, queueVars, blockVars, held, mined, poolVars, envVars>>
  BY DEF LoopEndCloned
<1> HIDE DEF l
<1> QED BY <1>1, <1>2, <1>3, StageCallInv

LEMMA StageLastInv == ASSUME IInv, NEW t \in Stager, StageLast(t) PROVE IInv'
<1>0. /\ TypeOK /\ LocalsOK(t) /\ stager[t] \in Locals /\ stager[t].pc = "last"
  BY DEF IInv, StageLast, At, TypeOK
<1>1. /\ stager[t].work = Nil /\ stager[t].clone # Nil /\ "idle" \in Control
  BY <1>0 DEF LocalsOK, Control
<1> DEFINE l == Stage(stager[t], "clone", "idle")
<1>2. /\ l \in Locals /\ l.pc = "stamp" /\ l.work = stager[t].work
      /\ l.clone = stager[t].clone /\ l.target = "clone" /\ l.tested = "push"
      /\ l.next = "idle"
  BY <1>0, <1>1, StageType
<1>3. /\ stager' = [stager EXCEPT ![t] = l]
      /\ UNCHANGED <<heap, queueVars, blockVars, held, mined, poolVars, envVars>>
  BY DEF StageLast
<1> HIDE DEF l
<1> QED BY <1>1, <1>2, <1>3, StageCallInv

\* The clone that was not needed is freed: it was nobody else's.
LEMMA LoopEndUnclonedInv == ASSUME IInv, NEW t \in Stager, LoopEndUncloned(t) PROVE IInv'
<1>0. /\ TypeOK /\ OneOwner /\ RollableBound /\ stager[t].pc = "loop" /\ LocalsOK(t)
      /\ stager[t] \in Locals /\ stager[t].work # Nil /\ stager[t].clone # Nil
      /\ heap' = Wipe({stager[t].clone})
      /\ UNCHANGED <<queueVars, blockVars, held, mined, poolVars, envVars>>
  BY DEF IInv, LoopEndUncloned, At, TypeOK, LocalsOK
<1> DEFINE k == [stager[t] EXCEPT !.clone = Nil]
           l == Stage(k, "work", "idle")
<1>1. k \in Locals /\ k.work = stager[t].work /\ k.clone = Nil /\ "idle" \in Control
  BY <1>0 DEF Locals, Pointer, Control
<1> HIDE DEF k
<1>2. /\ l \in Locals /\ l.pc = "stamp" /\ l.work = stager[t].work
      /\ l.clone = Nil /\ l.target = "work" /\ l.tested = "push" /\ l.next = "idle"
  BY <1>1, StageType
<1>3. stager' = [stager EXCEPT ![t] = l]
  BY DEF LoopEndUncloned, k
<1> HIDE DEF l
<1>4. /\ stager' \in [Stager -> Locals] /\ stager'[t] = l
      /\ \A u \in Stager \ {t} : stager'[u] = stager[u] /\ (LocalsOK(u) => LocalsOK(u)')
  BY <1>0, <1>2, <1>3, LocalStep
<1>5. LocalsOK(t)'
  BY <1>0, <1>2, <1>4 DEF LocalsOK, Staging, Target
<1>6. TypeOK'
  BY <1>0, <1>4, <1>5, WipeType DEF TypeOK, queueVars, blockVars, poolVars, envVars
<1>7. \A r \in staged : heap'[r] = heap[r]
  <2>1. stager[t].clone \notin staged
    BY <1>0 DEF OneOwner, LocalTo
  <2> QED BY <1>0, <2>1, WipeType DEF TypeOK
<1>8. OneOwner'
  <2>1. \A u \in Stager : /\ stager'[u].work \in {stager[u].work, Nil}
                          /\ stager'[u].clone \in {stager[u].clone, Nil}
    BY <1>2, <1>4
  <2> QED BY <1>0, <2>1, OwnersKept DEF queueVars
<1>9. Rollable' = Rollable
  BY <1>0, <1>7 DEF Rollable, work_rollable, queueVars
<1> QED BY <1>0, <1>6, <1>8, <1>9 DEF IInv, RollableBound, queueVars

LEMMA LoopRollInv == ASSUME IInv, NEW t \in Stager, LoopRoll(t) PROVE IInv'
<1>0. /\ TypeOK /\ OneOwner /\ RollableBound /\ stager[t].pc = "roll" /\ LocalsOK(t)
      /\ UNCHANGED <<queueVars, blockVars, held, mined, poolVars, envVars>>
      /\ stager[t] \in Locals /\ stager[t].work # Nil /\ stager[t].clone = Nil
  BY DEF IInv, LoopRoll, At, TypeOK, LocalsOK
<1>1. PICK new \in Free :
        /\ heap' = [heap EXCEPT
              ![stager[t].work] = roll_work(roll_work(heap[stager[t].work])),
              ![new] = make_clone(roll_work(heap[stager[t].work]))]
        /\ stager' = [stager EXCEPT
              ![t] = [stager[t] EXCEPT !.pc = "loop", !.clone = new, !.cloned = TRUE]]
  BY DEF LoopRoll
<1>2. new \in Struct /\ new \notin staged /\ new # Nil
  BY NilAssumption DEF Free
<1>3. stager[t].work \in Struct \ staged
  BY <1>0 DEF OneOwner, LocalTo, Locals, Pointer
<1> DEFINE l == [stager[t] EXCEPT !.pc = "loop", !.clone = new, !.cloned = TRUE]
<1>4. /\ l \in Locals /\ l.pc = "loop" /\ l.work = stager[t].work /\ l.clone = new
  BY <1>0, <1>2 DEF Locals, Control, Pointer
<1>5. /\ stager' \in [Stager -> Locals] /\ stager'[t] = l
      /\ \A u \in Stager \ {t} : stager'[u] = stager[u] /\ (LocalsOK(u) => LocalsOK(u)')
  BY <1>0, <1>1, <1>4, LocalStep
<1>6. LocalsOK(t)'
  BY <1>0, <1>2, <1>4, <1>5 DEF LocalsOK, Staging
<1>7. heap' \in [Struct -> Fields] /\ \A r \in staged : heap'[r] = heap[r]
  <2>1. heap[stager[t].work] \in Fields
    BY <1>0, <1>3 DEF TypeOK
  <2>2. /\ roll_work(heap[stager[t].work]) \in Fields
        /\ roll_work(roll_work(heap[stager[t].work])) \in Fields
        /\ make_clone(roll_work(heap[stager[t].work])) \in Fields
    BY <2>1, RollType, CloneType
  <2> QED BY <1>0, <1>1, <1>2, <1>3, <2>2 DEF TypeOK
<1>8. TypeOK'
  BY <1>0, <1>5, <1>6, <1>7 DEF TypeOK, queueVars, blockVars, poolVars, envVars
<1>9. OneOwner'
  BY <1>0, <1>4, <1>5, OwnersNew DEF queueVars
<1>10. Rollable' = Rollable
  BY <1>0, <1>7 DEF Rollable, work_rollable, queueVars
<1> QED BY <1>0, <1>8, <1>9, <1>10 DEF IInv, RollableBound, queueVars

LEMMA CloneWorkInv == ASSUME IInv, NEW t \in Stager, CloneWork(t) PROVE IInv'
<1> QED BY UnwantedInv, ConvertInv, LoopStageInv, LoopRollInv, LoopEndClonedInv,
           StageLastInv, LoopEndUnclonedInv DEF CloneWork

LEMMA StageWorkInv == ASSUME IInv, NEW t \in Stager, StageWork(t) PROVE IInv'
<1> QED BY StampInv, LookInv, NewBlockInv, LongPollAgainInv, RestartInv, HashPushInv
        DEF StageWork

----------------------------------------------------------------------------
(* get_work.                                                               *)

LEMMA HashPopInv == ASSUME IInv, NEW m \in Miner, HashPop(m) PROVE IInv'
<1>0. /\ TypeOK /\ OneOwner /\ RollableBound /\ held[m] = Nil
      /\ UNCHANGED <<heap, blockVars, stager, mined, poolVars, envVars>>
  BY DEF IInv, HashPop
<1>1. PICK s \in PopChoices :
        /\ held' = [held EXCEPT ![m] = s]
        /\ staged' = staged \ {s}
        /\ staged_rollable' =
              IF work_rollable(s) THEN staged_rollable - 1 ELSE staged_rollable
  BY DEF HashPop
<1>2. s \in staged /\ s \in Struct /\ s # Nil
  BY <1>0, <1>1, NilAssumption DEF PopChoices, Oldest, Rollable, TypeOK
<1>3. Rollable' = Rollable \ {s}
  BY <1>0, <1>1 DEF Rollable, work_rollable
<1>4. RollableBound' /\ staged_rollable' \in Nat
  <2>1. CASE work_rollable(s)
    <3>1. s \in Rollable /\ staged_rollable' = staged_rollable - 1
      BY <1>1, <1>2, <2>1 DEF Rollable
    <3> QED BY <1>0, <1>3, <3>1, BoundDecremented
  <2>2. CASE ~work_rollable(s)
    <3>1. staged_rollable' = staged_rollable /\ Rollable' \subseteq Rollable
      BY <1>1, <1>3, <2>2
    <3> QED BY <1>0, <3>1, BoundKept DEF TypeOK
  <2> QED BY <2>1, <2>2
<1>5. /\ held' \in [Miner -> Pointer] /\ held'[m] = s
      /\ \A n \in Miner \ {m} : held'[n] = held[n]
  BY <1>0, <1>1, <1>2 DEF TypeOK, Pointer
<1>6. TypeOK'
  BY <1>0, <1>1, <1>4, <1>5 DEF TypeOK, LocalsOK, Target, blockVars, poolVars, envVars
<1>7. OneOwner'
  <2>1. \A u \in Stager : LocalTo(u)' = LocalTo(u) /\ s \notin LocalTo(u)
    BY <1>0, <1>2 DEF LocalTo, OneOwner
  <2>2. \A n \in Miner : held[n] # s
    BY <1>0, <1>2 DEF OneOwner
  <2>3. ASSUME NEW n \in Miner, held'[n] # Nil
        PROVE  /\ held'[n] \notin staged'
               /\ \A o \in Miner \ {n} : held'[n] # held'[o]
               /\ \A u \in Stager : held'[n] \notin LocalTo(u)'
    BY <1>0, <1>1, <1>5, <2>1, <2>2, <2>3 DEF OneOwner
  <2>4. ASSUME NEW u \in Stager
        PROVE  /\ LocalTo(u)' \cap staged' = {}
               /\ stager'[u].work = stager'[u].clone => stager'[u].work = Nil
               /\ \A v \in Stager \ {u} : LocalTo(u)' \cap LocalTo(v)' = {}
    BY <1>0, <1>1, <2>1 DEF OneOwner
  <2> QED BY <2>3, <2>4 DEF OneOwner
<1> QED BY <1>4, <1>6, <1>7 DEF IInv

\* A miner frees the work it popped, mined or not.
LEMMA ReleaseInv ==
    ASSUME IInv, NEW m \in Miner, held[m] # Nil,
           heap' = Wipe({held[m]}), held' = [held EXCEPT ![m] = Nil],
           mined' \subseteq Nat \X Nat,
           UNCHANGED <<queueVars, blockVars, stager, poolVars, envVars>>
    PROVE  IInv'
<1>0. TypeOK /\ OneOwner /\ RollableBound
  BY DEF IInv
<1>1. \A r \in staged : heap'[r] = heap[r]
  BY <1>0, WipeType DEF OneOwner, TypeOK
<1>2. held' \in [Miner -> Pointer] /\ \A n \in Miner : held'[n] \in {held[n], Nil}
  BY <1>0 DEF TypeOK, Pointer
<1>3. TypeOK'
  BY <1>0, <1>2, WipeType DEF TypeOK, LocalsOK, Target, queueVars, blockVars, poolVars, envVars
<1>4. OneOwner'
  BY <1>0, <1>2, OwnersKept DEF queueVars
<1>5. Rollable' = Rollable
  BY <1>1 DEF Rollable, work_rollable, queueVars
<1> QED BY <1>0, <1>3, <1>4, <1>5 DEF IInv, RollableBound, queueVars

LEMMA GetWorkInv == ASSUME IInv, NEW m \in Miner, GetWork(m) PROVE IInv'
<1>1. CASE HashPop(m)
  BY <1>1, HashPopInv
<1>2. CASE DiscardPopped(m)
  <2>1. mined' \subseteq Nat \X Nat
    BY <1>2 DEF DiscardPopped, IInv, TypeOK
  <2> QED BY <1>2, <2>1, ReleaseInv DEF DiscardPopped
<1>3. CASE TakeWork(m)
  <2>1. held[m] \in Struct
    BY <1>3 DEF TakeWork, IInv, TypeOK, Pointer
  <2>2. Search(held[m]) \in Nat \X Nat
    BY <2>1 DEF Search, IInv, TypeOK, Fields
  <2>3. mined' \subseteq Nat \X Nat
    BY <1>3, <2>2 DEF TakeWork, IInv, TypeOK
  <2> QED BY <1>3, <2>3, ReleaseInv DEF TakeWork
<1> QED BY <1>1, <1>2, <1>3 DEF GetWork

----------------------------------------------------------------------------
(* The rest of the steps.                                                  *)

LEMMA DiscardStaleInv == ASSUME IInv, DiscardStale PROVE IInv'
<1>1. TypeOK /\ Stale \in SUBSET staged
  BY DEF IInv, Stale
<1>2. TypeOK'
  BY <1>1, WipeType DEF TypeOK, DiscardStale, LocalsOK, Target, blockVars, poolVars, envVars
<1> QED BY <1>1, <1>2, QueueShrinks DEF DiscardStale

LEMMA ClearPoolWorkInv == ASSUME IInv, NEW p \in Pool, ClearPoolWork(p) PROVE IInv'
<1> DEFINE gone == {s \in staged : heap[s].pool = p}
<1>1. TypeOK /\ gone \in SUBSET staged
  BY DEF IInv
<1>2. TypeOK'
  BY <1>1, WipeType DEF TypeOK, ClearPoolWork, LocalsOK, Target, blockVars, envVars
<1>3. /\ staged' = staged \ gone /\ heap' = Wipe(gone)
      /\ UNCHANGED <<staged_rollable, held, stager>>
  BY DEF ClearPoolWork
<1> HIDE DEF gone
<1> QED BY <1>1, <1>2, <1>3, QueueShrinks

LEMMA EnvironmentInv == ASSUME IInv, Environment PROVE IInv'
<1>0. TypeOK
  BY DEF IInv
<1>1. /\ UNCHANGED <<heap, queueVars, stager, held>>
      /\ TypeOK'
  <2>1. ASSUME NEW p \in Pool, SwitchPool(p)
        PROVE  UNCHANGED <<heap, queueVars, stager, held>> /\ TypeOK'
    BY <1>0, <2>1 DEF SwitchPool, TypeOK, LocalsOK, Target, queueVars, blockVars, envVars
  <2>2. ASSUME NEW p \in Pool, StratumNotify(p)
        PROVE  UNCHANGED <<heap, queueVars, stager, held>> /\ TypeOK'
    BY <1>0, <2>2 DEF StratumNotify, TypeOK, LocalsOK, Target, queueVars, blockVars, envVars
  <2>3. ASSUME NEW p \in Pool, StratumLost(p)
        PROVE  UNCHANGED <<heap, queueVars, stager, held>> /\ TypeOK'
    BY <1>0, <2>3 DEF StratumLost, TypeOK, LocalsOK, Target, queueVars, blockVars, envVars
  <2>4. ASSUME NetworkBlock \/ Tick
        PROVE  UNCHANGED <<heap, queueVars, stager, held>> /\ TypeOK'
    <3>1. chain' \in Nat /\ now' \in Nat /\ bases' \in Nat
      BY <1>0, <2>4 DEF NetworkBlock, Tick, TypeOK
    <3>2. UNCHANGED <<heap, queueVars, blockVars, stager, held, mined, poolVars>>
      BY <2>4 DEF NetworkBlock, Tick
    <3> QED BY <1>0, <3>1, <3>2 DEF TypeOK, LocalsOK, Target, queueVars, blockVars, poolVars
  <2> QED BY <2>1, <2>2, <2>3, <2>4 DEF Environment
<1> QED BY <1>1, QueueUntouched DEF queueVars

LEMMA InitInv == Init => IInv
<1> SUFFICES ASSUME Init PROVE IInv
  OBVIOUS
<1> USE DEF Init
<1>1. TypeOK
  BY BlankType, IdleType, BoundAssumption
  DEF TypeOK, LocalsOK, IdleLocals, Staging, Pointer
<1>2. OneOwner
  BY DEF OneOwner, LocalTo, IdleLocals
<1>3. Rollable = {} /\ Cardinality(Rollable) = 0
  BY FS_EmptySet DEF Rollable
<1> QED BY <1>1, <1>2, <1>3 DEF IInv, RollableBound

LEMMA NextInv == IInv /\ [Next]_vars => IInv'
<1> SUFFICES ASSUME IInv, [Next]_vars PROVE IInv'
  OBVIOUS
<1>1. CASE MakeWork
  BY <1>1, MakeWorkInv
<1>2. CASE \E t \in Stager : StageWork(t) \/ CloneWork(t)
  BY <1>2, StageWorkInv, CloneWorkInv
<1>3. CASE \E m \in Miner : GetWork(m)
  BY <1>3, GetWorkInv
<1>4. CASE DiscardStale
  BY <1>4, DiscardStaleInv
<1>5. CASE \E p \in Pool : ClearPoolWork(p)
  BY <1>5, ClearPoolWorkInv
<1>6. CASE Environment
  BY <1>6, EnvironmentInv
<1>7. CASE UNCHANGED vars
  <2>1. TypeOK'
    BY <1>7 DEF IInv, TypeOK, LocalsOK, Target, vars, queueVars, blockVars, poolVars, envVars
  <2> QED BY <1>7, <2>1, QueueUntouched DEF vars, queueVars
<1> QED BY <1>1, <1>2, <1>3, <1>4, <1>5, <1>6, <1>7 DEF Next

----------------------------------------------------------------------------
(* The table has an oldest work.                                           *)

\* By induction on finite sets: of the sets that have no oldest work, one
\* would be smallest; without one of its works it has an oldest one, and of
\* these two one is the oldest.
LEMMA OldestExists ==
    ASSUME TypeOK, NEW S \in SUBSET Struct, S # {}
    PROVE  Oldest(S) # {}
<1> DEFINE Bad == {T \in SUBSET Struct : T # {} /\ Oldest(T) = {}}
<1>1. SUFFICES ASSUME Bad # {} PROVE FALSE
  BY <1>1
<1>2. PICK T \in Bad : \A U \in Bad : <<U, T>> \notin StrictSubsetOrdering(Struct)
  <2>1. IsWellFoundedOn(StrictSubsetOrdering(Struct), SUBSET Struct)
    BY StructAssumption, FS_StrictSubsetOrderingWellFounded, FS_FiniteSubsetsOfFinite
  <2>2. Bad \subseteq SUBSET Struct
    OBVIOUS
  <2> HIDE DEF Bad
  <2> QED BY <1>1, <2>1, <2>2, WFMin
<1>3. PICK s \in T : TRUE
  OBVIOUS
<1>4. \A r \in T : heap[r].tv_staged \in Int
  BY DEF TypeOK, Fields
<1>5. CASE T = {s}
  <2>1. s \in Oldest(T)
    BY <1>4, <1>5 DEF Oldest
  <2> QED BY <2>1
<1>6. CASE T # {s}
  <2> DEFINE U == T \ {s}
  <2>1. U \in SUBSET Struct /\ U # {} /\ U \subseteq T /\ U # T
    BY <1>3, <1>6
  <2>2. U \notin Bad
    BY <1>2, <2>1 DEF StrictSubsetOrdering
  <2>3. PICK r \in Oldest(U) : TRUE
    BY <2>1, <2>2
  <2>4. r \in T /\ \A q \in T \ {s} : heap[r].tv_staged <= heap[q].tv_staged
    BY <2>3 DEF Oldest
  <2>5. CASE heap[r].tv_staged <= heap[s].tv_staged
    <3>1. r \in Oldest(T)
      BY <2>4, <2>5 DEF Oldest
    <3> QED BY <3>1
  <2>6. CASE heap[s].tv_staged < heap[r].tv_staged
    <3>1. \A q \in T : heap[s].tv_staged <= heap[q].tv_staged
      BY <1>4, <2>4, <2>6
    <3>2. s \in Oldest(T)
      BY <3>1 DEF Oldest
    <3> QED BY <3>2
  <2> QED BY <1>4, <2>4, <2>5, <2>6
<1> QED BY <1>5, <1>6

LEMMA PopFinds == IInv => PopFindsWork
<1> SUFFICES ASSUME IInv, staged # {} PROVE PopChoices # {}
  BY DEF PopFindsWork
<1>0. TypeOK /\ RollableBound /\ staged \in SUBSET Struct
  BY DEF IInv, TypeOK
<1>1. CASE Cardinality(staged) > staged_rollable
  <2>1. Rollable # staged
    BY <1>0, <1>1, RollableFinite, StagedSize DEF RollableBound, TypeOK
  <2>2. staged \ Rollable # {} /\ staged \ Rollable \in SUBSET Struct
    BY <1>0, <2>1 DEF Rollable
  <2> QED BY <1>0, <1>1, <2>2, OldestExists DEF PopChoices
<1>2. CASE ~(Cardinality(staged) > staged_rollable)
  BY <1>0, <1>2, OldestExists DEF PopChoices
<1> QED BY <1>1, <1>2

----------------------------------------------------------------------------
(* No search twice.  The works of one header are a master and its clones.  *)
(* The master is ahead of the clones, queued, mined or lost, by the rolls  *)
(* done on it; it is level with one of them only while a thread has them   *)
(* both, or has the master and is about to roll it.                        *)

Owned == staged \cup Popped \cup UNION {LocalTo(t) : t \in Stager}

\* The thread t stages, or has staged, a clone of its master and will then roll
\* the master.
Rerolls(t) == \/ stager[t].pc = "roll"
              \/ stager[t].pc \in Staging /\ stager[t].next = "roll"

Late(s) == \E t \in Stager : stager[t].work = s /\ Rerolls(t)

\* The first clone convert_to_work makes is as its master is.
FirstClone(t) == stager[t].pc = "loop" /\ ~stager[t].cloned

Twin(s, r) == \E t \in Stager :
    stager[t].work = s /\ stager[t].clone = r /\ FirstClone(t)

\* The thread may come to roll its work.
Roller(t) ==
    \/ stager[t].pc \in {"convert", "loop", "roll"}
    \/ stager[t].pc \in Staging /\ (stager[t].tested = "convert" \/ stager[t].next = "roll")

\* The thread will come to convert_to_work's loop; it has cloned nothing yet.
Starts(t) == \/ stager[t].pc = "convert"
             \/ stager[t].pc \in Staging /\ stager[t].tested = "convert"

StartsUncloned == \A t \in Stager : Starts(t) => ~stager[t].cloned

RollsMaster == \A t \in Stager : Roller(t) => ~heap[stager[t].work].clone

Ahead(s) ==
    /\ \A r \in Owned \ {s} : heap[r].base = heap[s].base =>
          /\ heap[r].clone
          /\ \/ heap[r].rolls < heap[s].rolls
             \/ heap[r].rolls = heap[s].rolls /\ (Late(s) \/ Twin(s, r))
    /\ \A x \in mined : x[1] = heap[s].base =>
          x[2] < heap[s].rolls \/ (x[2] = heap[s].rolls /\ Late(s))

MasterAhead == \A s \in Owned : ~heap[s].clone => Ahead(s)

ClonesDiffer ==
    \A s \in Owned : heap[s].clone =>
        /\ Search(s) \notin mined
        /\ \A r \in Owned \ {s} : heap[r].clone => Search(r) # Search(s)

KnownBases ==
    /\ \A s \in Owned : heap[s].base <= bases
    /\ \A x \in mined : x[1] <= bases

Searches == StartsUncloned /\ RollsMaster /\ MasterAhead /\ ClonesDiffer /\ KnownBases

LEMMA OwnedIs ==
    \A s : s \in Owned <=> \/ s \in staged
                           \/ s # Nil /\ \E m \in Miner : held[m] = s
                           \/ s # Nil /\ \E t \in Stager : s \in {stager[t].work, stager[t].clone}
<1> QED BY DEF Owned, Popped, LocalTo

LEMMA OwnedType ==
    ASSUME TypeOK
    PROVE  /\ Owned \subseteq Struct /\ Free = Struct \ Owned
           /\ \A s \in Owned : /\ heap[s].base \in Nat /\ heap[s].rolls \in Nat
                               /\ heap[s].clone \in BOOLEAN
           /\ \A x \in mined : x[1] \in Nat /\ x[2] \in Nat /\ x = <<x[1], x[2]>>
<1>1. Owned \subseteq Struct
  BY OwnedIs DEF TypeOK, Locals, Pointer
<1>2. Free = Struct \ Owned
  BY DEF Free, Owned
<1>3. \A s \in Owned : heap[s] \in Fields
  BY <1>1 DEF TypeOK
<1>4. \A x \in mined : x[1] \in Nat /\ x[2] \in Nat /\ x = <<x[1], x[2]>>
  BY DEF TypeOK
<1> QED BY <1>1, <1>2, <1>3, <1>4 DEF Fields

\* What nobody took up has no owner.
LEMMA OwnedWithin ==
    ASSUME NEW X, staged' \subseteq X, \A m \in Miner : held'[m] \in X \cup {Nil},
           \A t \in Stager : {stager'[t].work, stager'[t].clone} \subseteq X \cup {Nil}
    PROVE  Owned' \subseteq X
<1> QED BY DEF Owned, Popped, LocalTo

\* A thread goes on with the master it is about to roll.
ThreadKeeps(t) ==
    /\ Rerolls(t) => Rerolls(t)' /\ stager'[t].work = stager[t].work
    /\ FirstClone(t) =>
          \/ stager'[t].work = stager[t].work /\ Rerolls(t)'
          \/ /\ stager'[t].work = stager[t].work /\ stager'[t].clone = stager[t].clone
             /\ FirstClone(t)'
          \/ stager[t].clone \notin Owned'
    /\ Roller(t)' => Roller(t) /\ stager'[t].work = stager[t].work
    /\ Starts(t)' => Starts(t) /\ stager'[t].cloned = stager[t].cloned

LEMMA RollerWork == TypeOK => \A t \in Stager : Roller(t) => stager[t].work \in Owned
<1> SUFFICES ASSUME TypeOK, NEW t \in Stager, Roller(t) PROVE stager[t].work \in Owned
  OBVIOUS
<1>1. LocalsOK(t) /\ stager[t] \in Locals
  BY DEF TypeOK
<1>2. stager[t].work # Nil
  BY <1>1 DEF LocalsOK, Roller, Target, Staging
<1> QED BY <1>2, OwnedIs

LEMMA RollerWorkNext == TypeOK' => (\A t \in Stager : Roller(t) => stager[t].work \in Owned)'
<1>1. (TypeOK => \A t \in Stager : Roller(t) => stager[t].work \in Owned)'
  BY RollerWork, PTL
<1> QED BY <1>1

\* Works stay as they are, or go.
LEMMA SearchesKept ==
    ASSUME TypeOK, TypeOK', Searches, Owned' \subseteq Owned,
           \A s \in Owned' : /\ heap'[s].base = heap[s].base
                             /\ heap'[s].rolls = heap[s].rolls
                             /\ heap'[s].clone = heap[s].clone,
           \A t \in Stager : ThreadKeeps(t),
           mined' = mined, bases' = bases
    PROVE  Searches'
<1>1. RollsMaster'
  <2> SUFFICES ASSUME NEW t \in Stager, Roller(t)' PROVE ~heap'[stager'[t].work].clone
    BY DEF RollsMaster
  <2>2. stager'[t].work \in Owned'
    BY RollerWorkNext
  <2> QED BY <2>2 DEF ThreadKeeps, Searches, RollsMaster
<1>2. \A s : Late(s) => Late(s)'
  BY DEF Late, ThreadKeeps
<1>3. \A s, r : r \in Owned' /\ Twin(s, r) => Twin(s, r)' \/ Late(s)'
  BY DEF Late, Twin, ThreadKeeps
<1>4. MasterAhead'
  <2> SUFFICES ASSUME NEW s \in Owned', ~heap'[s].clone PROVE Ahead(s)'
    BY DEF MasterAhead
  <2>1. Ahead(s)
    BY DEF Searches, MasterAhead
  <2> QED BY <1>2, <1>3, <2>1 DEF Ahead
<1>5. ClonesDiffer'
  BY DEF Searches, ClonesDiffer, Search
<1>6. KnownBases'
  BY DEF Searches, KnownBases
<1>7. StartsUncloned'
  BY DEF Searches, StartsUncloned, ThreadKeeps
<1> QED BY <1>1, <1>4, <1>5, <1>6, <1>7 DEF Searches

\* A work of a new header, which its thread has.
LEMMA SearchesNew ==
    ASSUME TypeOK, TypeOK', Searches, NEW new \in Struct \ Owned,
           Owned' \subseteq Owned \cup {new},
           \A s \in Owned : heap'[s] = heap[s],
           heap'[new].base = bases + 1, ~heap'[new].clone,
           NEW t \in Stager, stager[t].pc \in {"idle", "fetch"}, stager'[t].work = new,
           stager'[t].pc \in Staging, stager'[t].next = "idle", ~stager'[t].cloned,
           \A u \in Stager \ {t} : stager'[u] = stager[u],
           mined' = mined, bases' = bases + 1
    PROVE  Searches'
<1>0. /\ bases \in Nat /\ new \in Struct
      /\ \A s \in Owned : heap[s].base \in Nat /\ heap[s].base <= bases
      /\ \A x \in mined : x[1] \in Nat /\ x[1] <= bases
  BY OwnedType DEF TypeOK, Searches, KnownBases
<1>1. RollsMaster'
  <2> SUFFICES ASSUME NEW u \in Stager, Roller(u)' PROVE ~heap'[stager'[u].work].clone
    BY DEF RollsMaster
  <2>1. CASE u = t
    BY <2>1
  <2>2. CASE u # t
    <3>1. Roller(u) /\ stager'[u].work = stager[u].work
      BY <2>2 DEF Roller
    <3>2. stager[u].work \in Owned
      BY <3>1, RollerWork
    <3> QED BY <3>1, <3>2 DEF Searches, RollsMaster
  <2> QED BY <2>1, <2>2
<1>2. \A s : Late(s) => Late(s)'
  BY DEF Late, Rerolls, Staging
<1>3. \A s, r : Twin(s, r) => Twin(s, r)'
  BY DEF Twin, FirstClone
<1>4. MasterAhead'
  <2> SUFFICES ASSUME NEW s \in Owned', ~heap'[s].clone PROVE Ahead(s)'
    BY DEF MasterAhead
  <2>1. CASE s = new
    BY <1>0, <2>1 DEF Ahead
  <2>2. CASE s # new
    <3>1. s \in Owned /\ Ahead(s) /\ heap'[s] = heap[s] /\ heap[s].base # bases + 1
      BY <1>0, <2>2 DEF Searches, MasterAhead
    <3> QED BY <1>0, <1>2, <1>3, <3>1 DEF Ahead
  <2> QED BY <2>1, <2>2
<1>5. ClonesDiffer'
  BY DEF Searches, ClonesDiffer, Search
<1>6. KnownBases'
  BY <1>0 DEF Searches, KnownBases
<1>7. StartsUncloned'
  BY DEF Searches, StartsUncloned, Starts
<1> QED BY <1>1, <1>4, <1>5, <1>6, <1>7 DEF Searches

\* clone_work: a master is rolled, copied, and rolled again.
LEMMA SearchesRolled ==
    ASSUME TypeOK, TypeOK', Searches, NEW new \in Struct \ Owned, NEW m \in Owned,
           ~heap[m].clone, \A r \in Owned : ~Twin(m, r),
           Owned' \subseteq Owned \cup {new},
           \A s \in Owned \ {m} : heap'[s] = heap[s],
           heap'[m].base = heap[m].base, ~heap'[m].clone, heap'[m].rolls = heap[m].rolls + 2,
           heap'[new].base = heap[m].base, heap'[new].clone,
           heap'[new].rolls = heap[m].rolls + 1,
           \A s \in Owned \ {m} : Late(s) => Late(s)',
           \A s \in Owned \ {m}, r \in Owned : Twin(s, r) => Twin(s, r)',
           \A u \in Stager : Roller(u)' => Roller(u) /\ stager'[u].work = stager[u].work,
           \A u \in Stager : Starts(u)' => Starts(u) /\ stager'[u].cloned = stager[u].cloned,
           mined' = mined, bases' = bases
    PROVE  Searches'
<1>0. /\ \A s \in Owned : /\ heap[s].base \in Nat /\ heap[s].rolls \in Nat
                          /\ heap[s].clone \in BOOLEAN
      /\ \A x \in mined : x[1] \in Nat /\ x[2] \in Nat
  BY OwnedType
<1>1. RollsMaster'
  <2> SUFFICES ASSUME NEW u \in Stager, Roller(u)' PROVE ~heap'[stager'[u].work].clone
    BY DEF RollsMaster
  <2>1. stager[u].work \in Owned
    BY RollerWork
  <2> QED BY <2>1 DEF Searches, RollsMaster
<1>2. Ahead(m)
  BY DEF Searches, MasterAhead
<1>3. /\ \A r \in Owned \ {m} : heap[r].base = heap[m].base =>
            heap[r].clone /\ heap[r].rolls <= heap[m].rolls
      /\ \A x \in mined : x[1] = heap[m].base => x[2] <= heap[m].rolls
  BY <1>0, <1>2 DEF Ahead
<1>4. MasterAhead'
  <2> SUFFICES ASSUME NEW s \in Owned', ~heap'[s].clone PROVE Ahead(s)'
    BY DEF MasterAhead
  <2>1. CASE s = m
    BY <1>0, <1>3, <2>1 DEF Ahead
  <2>2. CASE s # m
    <3>1. s \in Owned /\ Ahead(s) /\ heap'[s] = heap[s] /\ heap[s].base # heap[m].base
      BY <1>3, <2>2 DEF Searches, MasterAhead
    <3> QED BY <1>0, <2>2, <3>1 DEF Ahead
  <2> QED BY <2>1, <2>2
<1>5. ClonesDiffer'
  <2> SUFFICES ASSUME NEW s \in Owned', heap'[s].clone
               PROVE  /\ Search(s)' \notin mined'
                      /\ \A r \in Owned' \ {s} : heap'[r].clone => Search(r)' # Search(s)'
    BY DEF ClonesDiffer
  <2>1. CASE s = new
    <3>1. <<heap[m].base, heap[m].rolls + 1>> \notin mined
      BY <1>0, <1>3
    <3>2. \A r \in Owned \ {m} : heap[r].base = heap[m].base => heap[r].rolls # heap[m].rolls + 1
      BY <1>0, <1>3
    <3> QED BY <2>1, <3>1, <3>2 DEF Search
  <2>2. CASE s # new
    <3>1. s \in Owned \ {m} /\ heap'[s] = heap[s] /\ Search(s)' = Search(s)
      BY <2>2 DEF Search
    <3>2. heap[s].base = heap[m].base => heap[s].rolls # heap[m].rolls + 1
      BY <1>0, <1>3, <3>1
    <3> QED BY <3>1, <3>2 DEF Searches, ClonesDiffer, Search
  <2> QED BY <2>1, <2>2
<1>6. KnownBases'
  BY DEF Searches, KnownBases
<1>7. StartsUncloned'
  BY DEF Searches, StartsUncloned
<1> QED BY <1>1, <1>4, <1>5, <1>6, <1>7 DEF Searches

\* convert_to_work's first clone, level with its master.
LEMMA SearchesCopied ==
    ASSUME TypeOK, TypeOK', Searches, NEW new \in Struct \ Owned, NEW t \in Stager,
           stager[t].work \in Owned, Roller(t), ~Rerolls(t), stager[t].clone = Nil,
           \A s : ~Twin(stager[t].work, s),
           ~Late(stager[t].work),
           Owned' \subseteq Owned \cup {new},
           \A s \in Owned : heap'[s] = heap[s],
           heap'[new].base = heap[stager[t].work].base, heap'[new].clone,
           heap'[new].rolls = heap[stager[t].work].rolls,
           stager'[t].work = stager[t].work, stager'[t].clone = new, FirstClone(t)',
           \A u \in Stager \ {t} : stager'[u] = stager[u],
           mined' = mined, bases' = bases
    PROVE  Searches'
<1> DEFINE m == stager[t].work
<1>0. /\ \A s \in Owned : /\ heap[s].base \in Nat /\ heap[s].rolls \in Nat
                          /\ heap[s].clone \in BOOLEAN
      /\ \A x \in mined : x[1] \in Nat /\ x[2] \in Nat
  BY OwnedType
<1>1. ~heap[m].clone /\ Ahead(m)
  BY DEF Searches, RollsMaster, MasterAhead
<1>2. /\ \A r \in Owned \ {m} : heap[r].base = heap[m].base =>
            heap[r].clone /\ heap[r].rolls < heap[m].rolls
      /\ \A x \in mined : x[1] = heap[m].base => x[2] < heap[m].rolls
  BY <1>0, <1>1 DEF Ahead
<1>3. RollsMaster'
  <2> SUFFICES ASSUME NEW u \in Stager, Roller(u)' PROVE ~heap'[stager'[u].work].clone
    BY DEF RollsMaster
  <2>1. Roller(u) /\ stager'[u].work = stager[u].work
    BY DEF Roller
  <2>2. stager[u].work \in Owned
    BY <2>1, RollerWork
  <2> QED BY <2>1, <2>2 DEF Searches, RollsMaster
<1>4. \A s : Late(s) => Late(s)'
  BY DEF Late, Rerolls
<1>5. (\A s, r \in Owned : Twin(s, r) => Twin(s, r)') /\ Twin(m, new)'
  <2>1. Nil \notin Owned
    BY OwnedType, NilAssumption
  <2>2. Twin(m, new)'
    BY DEF Twin
  <2>3. ASSUME NEW s \in Owned, NEW r \in Owned, Twin(s, r) PROVE Twin(s, r)'
    <3>1. PICK u \in Stager : stager[u].work = s /\ stager[u].clone = r /\ FirstClone(u)
      BY <2>3 DEF Twin
    <3>2. u # t /\ stager'[u] = stager[u]
      BY <2>1, <3>1
    <3> QED BY <3>1, <3>2 DEF Twin, FirstClone
  <2> QED BY <2>2, <2>3
<1>6. MasterAhead'
  <2> SUFFICES ASSUME NEW s \in Owned', ~heap'[s].clone PROVE Ahead(s)'
    BY DEF MasterAhead
  <2>1. s \in Owned /\ Ahead(s) /\ heap'[s] = heap[s]
    BY DEF Searches, MasterAhead
  <2>2. CASE s = m
    BY <1>0, <1>2, <1>5, <2>1, <2>2 DEF Ahead
  <2>3. CASE s # m
    <3>1. heap[s].base # heap[m].base
      BY <1>2, <2>1, <2>3
    <3> QED BY <1>0, <1>4, <1>5, <2>1, <3>1 DEF Ahead
  <2> QED BY <2>2, <2>3
<1>7. ClonesDiffer'
  <2> SUFFICES ASSUME NEW s \in Owned', heap'[s].clone
               PROVE  /\ Search(s)' \notin mined'
                      /\ \A r \in Owned' \ {s} : heap'[r].clone => Search(r)' # Search(s)'
    BY DEF ClonesDiffer
  <2>1. <<heap[m].base, heap[m].rolls>> \notin mined
    BY <1>0, <1>2
  <2>2. \A r \in Owned \ {m} : heap[r].base = heap[m].base => heap[r].rolls # heap[m].rolls
    BY <1>0, <1>2
  <2>3. CASE s = new
    BY <1>1, <2>1, <2>2, <2>3 DEF Search
  <2>4. CASE s # new
    <3>1. s \in Owned \ {m} /\ heap'[s] = heap[s] /\ Search(s)' = Search(s)
      BY <1>1, <2>4 DEF Search
    <3> QED BY <1>1, <2>2, <3>1 DEF Searches, ClonesDiffer, Search
  <2> QED BY <2>3, <2>4
<1>8. KnownBases'
  BY DEF Searches, KnownBases
<1>9. StartsUncloned'
  BY DEF Searches, StartsUncloned, Starts, FirstClone, Staging
<1> QED BY <1>3, <1>6, <1>7, <1>8, <1>9 DEF Searches
\* What is left of Owned, and of each work there, is as it was.
SearchStays ==
    /\ Owned' \subseteq Owned
    /\ \A s \in Owned' : /\ heap'[s].base = heap[s].base
                         /\ heap'[s].rolls = heap[s].rolls
                         /\ heap'[s].clone = heap[s].clone
    /\ mined' = mined /\ bases' = bases

\* Only thread t moves, and keeps the master it is about to roll.
LEMMA ThreadSearches ==
    ASSUME IInv, IInv', Searches, NEW t \in Stager, SearchStays, ThreadKeeps(t),
           \A u \in Stager \ {t} : stager'[u] = stager[u]
    PROVE  Searches'
<1>1. \A u \in Stager : ThreadKeeps(u)
  BY DEF ThreadKeeps, Rerolls, FirstClone, Roller, Starts
<1> QED BY <1>1, SearchesKept DEF SearchStays, IInv

\* The table, the miners and the threads that go on have what they had, but
\* for the works of S, which are wiped.
LEMMA WipedStays ==
    ASSUME IInv, NEW S \in SUBSET Owned, staged' \subseteq Owned \ S,
           \A m \in Miner : held'[m] \in (Owned \ S) \cup {Nil},
           \A t \in Stager : {stager'[t].work, stager'[t].clone} \subseteq (Owned \ S) \cup {Nil},
           heap' = Wipe(S), mined' = mined, bases' = bases
    PROVE  SearchStays
<1>1. Owned' \subseteq Owned \ S
  BY OwnedWithin
<1>2. \A s \in Owned' : heap'[s] = heap[s]
  BY <1>1, OwnedType, WipeType DEF IInv
<1> QED BY <1>1, <1>2 DEF SearchStays

\* Nobody else has what a thread has, and no thread or miner what is staged.
LEMMA OthersHave ==
    ASSUME IInv
    PROVE  /\ staged \subseteq Owned /\ Nil \notin Owned
           /\ \A m \in Miner : held[m] \in (Owned \ staged) \cup {Nil}
           /\ \A u \in Stager :
                {stager[u].work, stager[u].clone} \subseteq (Owned \ staged) \cup {Nil}
           /\ \A m, n \in Miner : m # n => held[m] # held[n] \/ held[m] = Nil
           /\ \A u \in Stager, m \in Miner :
                held[m] = Nil \/ held[m] \notin {stager[u].work, stager[u].clone}
           /\ \A t, u \in Stager : \A s : s # Nil /\ s \in {stager[t].work, stager[t].clone} =>
                u = t \/ s \notin {stager[u].work, stager[u].clone}
<1>0. TypeOK /\ OneOwner /\ Nil \notin Struct
  BY NilAssumption DEF IInv
<1>1. staged \subseteq Owned /\ Nil \notin Owned
  BY <1>0, OwnedType, OwnedIs
<1>2. \A u \in Stager : \A s \in {stager[u].work, stager[u].clone} :
         s # Nil => s \in LocalTo(u)
  BY DEF LocalTo
<1>3. \A m \in Miner : held[m] \in (Owned \ staged) \cup {Nil}
  BY <1>0, OwnedIs DEF OneOwner
<1>4. \A u \in Stager :
         {stager[u].work, stager[u].clone} \subseteq (Owned \ staged) \cup {Nil}
  <2> SUFFICES ASSUME NEW u \in Stager, NEW s \in {stager[u].work, stager[u].clone}, s # Nil
               PROVE  s \in Owned /\ s \notin staged
    OBVIOUS
  <2> QED BY <1>0, <1>2, OwnedIs DEF OneOwner
<1>5. \A m, n \in Miner : m # n => held[m] # held[n] \/ held[m] = Nil
  BY <1>0 DEF OneOwner
<1>6. \A u \in Stager, m \in Miner :
         held[m] = Nil \/ held[m] \notin {stager[u].work, stager[u].clone}
  BY <1>0, <1>2 DEF OneOwner
<1>7. \A t, u \in Stager : \A s : s # Nil /\ s \in {stager[t].work, stager[t].clone} =>
         u = t \/ s \notin {stager[u].work, stager[u].clone}
  <2> SUFFICES ASSUME NEW t \in Stager, NEW u \in Stager \ {t}, NEW s, s # Nil,
                      s \in {stager[t].work, stager[t].clone},
                      s \in {stager[u].work, stager[u].clone}
               PROVE  FALSE
    OBVIOUS
  <2>1. s \in LocalTo(t) \cap LocalTo(u)
    BY <1>2
  <2> QED BY <1>0, <2>1 DEF OneOwner
<1> QED BY <1>1, <1>3, <1>4, <1>5, <1>6, <1>7

\* Within stage_work the works only get another work_block.
LEMMA GotoSearches ==
    ASSUME IInv, IInv', Searches, NEW t \in Stager, stager[t].pc \in Staging,
           NEW label \in Staging \cup {stager[t].tested}, Goto(t, label), SearchStays
    PROVE  Searches'
<1>1. LocalsOK(t) /\ label \in Control /\ TypeOK
  BY DEF IInv, TypeOK, LocalsOK, Staging, Control
<1>2. /\ stager'[t].pc = label
      /\ stager'[t].work = stager[t].work
      /\ stager'[t].clone = stager[t].clone
      /\ stager'[t].tested = stager[t].tested
      /\ stager'[t].next = stager[t].next
      /\ stager'[t].cloned = stager[t].cloned
      /\ \A u \in Stager \ {t} : stager'[u] = stager[u]
  BY <1>1, GotoType
<1>3. stager[t].tested \in {"push", "convert"} /\ (stager[t].tested = "convert" => stager[t].next = "idle")
  BY <1>1 DEF LocalsOK
<1>4. ThreadKeeps(t)
  BY <1>2, <1>3 DEF ThreadKeeps, Rerolls, FirstClone, Roller, Starts, Staging
<1> QED BY <1>2, <1>4, ThreadSearches

LEMMA SameOwned ==
    ASSUME staged' = staged, held' = held,
           \A u \in Stager : stager'[u].work = stager[u].work /\ stager'[u].clone = stager[u].clone
    PROVE  Owned' = Owned
<1> QED BY DEF Owned, Popped, LocalTo

\* A step of stage_work that stamps the target, or does not.
LEMMA StampedSearches ==
    ASSUME IInv, IInv', Searches, NEW t \in Stager, stager[t].pc \in Staging,
           NEW label \in Staging \cup {stager[t].tested}, Goto(t, label),
           \/ heap' = heap
           \/ \E n \in Nat : heap' = [heap EXCEPT ![Target(t)].work_block = n]
           \/ \E n \in Nat : heap' = [heap EXCEPT ![Target(t)].work_block = n,
                                                  ![Target(t)].longpoll = FALSE],
           staged' = staged, held' = held, mined' = mined, bases' = bases
    PROVE  Searches'
<1>1. label \in Control /\ TypeOK
  BY DEF IInv, TypeOK, LocalsOK, Staging, Control
<1>2. Owned' = Owned
  BY <1>1, GotoType, SameOwned
<1>3. \A s \in Struct : heap[s] \in Fields
  BY <1>1 DEF TypeOK
<1>4. \A s \in Struct : /\ heap'[s].base = heap[s].base
                        /\ heap'[s].rolls = heap[s].rolls
                        /\ heap'[s].clone = heap[s].clone
  <2>1. CASE \E n \in Nat : heap' = [heap EXCEPT ![Target(t)].work_block = n]
    BY <1>1, <1>3, <2>1 DEF TypeOK, Fields
  <2>2. CASE \E n \in Nat : heap' = [heap EXCEPT ![Target(t)].work_block = n,
                                                 ![Target(t)].longpoll = FALSE]
    BY <1>1, <1>3, <2>2 DEF TypeOK, Fields
  <2> QED BY <2>1, <2>2
<1>5. SearchStays
  BY <1>1, <1>2, <1>4, OwnedType DEF SearchStays
<1> QED BY <1>5, GotoSearches

LEMMA StampSearches ==
    ASSUME IInv, IInv', Searches, NEW t \in Stager,
           Stamp(t) \/ Look(t) \/ NewBlock(t) \/ LongPollAgain(t)
    PROVE  Searches'
<1>1. TypeOK /\ work_block \in Nat /\ work_block + 1 \in Nat
  BY DEF IInv, TypeOK
<1>2. stager[t].pc \in Staging /\ staged' = staged /\ held' = held /\ mined' = mined /\ bases' = bases
  BY DEF Stamp, Look, NewBlock, LongPollAgain, At, Staging, queueVars, envVars
<1>3. \E label \in Staging \cup {stager[t].tested} : Goto(t, label)
  BY DEF Stamp, Look, NewBlock, LongPollAgain, Staging
<1>4. \/ heap' = heap
      \/ \E n \in Nat : heap' = [heap EXCEPT ![Target(t)].work_block = n]
      \/ \E n \in Nat : heap' = [heap EXCEPT ![Target(t)].work_block = n,
                                             ![Target(t)].longpoll = FALSE]
  BY <1>1 DEF Stamp, Look, NewBlock, LongPollAgain
<1> QED BY <1>2, <1>3, <1>4, StampedSearches

LEMMA RestartSearches ==
    ASSUME IInv, IInv', Searches, NEW t \in Stager, Restart(t)
    PROVE  Searches'
<1>1. TypeOK /\ stager[t].pc \in Staging /\ Stale \subseteq staged
  BY DEF IInv, Restart, At, Staging, Stale
<1>2. PICK label \in Staging \cup {stager[t].tested} : Goto(t, label)
  BY DEF Restart, Staging
<1>3. label \in Control
  BY <1>1, <1>2 DEF TypeOK, Locals, Control, Staging
<1>4. \A u \in Stager : stager'[u].work = stager[u].work /\ stager'[u].clone = stager[u].clone
  BY <1>1, <1>2, <1>3, GotoType
<1>5. SearchStays
  <2>1. /\ staged' = staged \ Stale /\ held' = held /\ heap' = Wipe(Stale)
        /\ mined' = mined /\ bases' = bases
    BY DEF Restart, envVars
  <2>2. Stale \in SUBSET Owned
    BY <1>1, OthersHave
  <2> QED BY <1>1, <1>4, <2>1, <2>2, OthersHave, WipedStays
<1> QED BY <1>1, <1>2, <1>5, GotoSearches

LEMMA HashPushSearches ==
    ASSUME IInv, IInv', Searches, NEW t \in Stager, HashPush(t)
    PROVE  Searches'
<1> DEFINE s == Target(t)
           stale == {r \in staged \cup {s} : stale_work(r)}
           l == stager[t]
<1>0. /\ TypeOK /\ OneOwner /\ l.pc \in Staging /\ l.pc = "push"
      /\ held' = held /\ mined' = mined /\ bases' = bases
      /\ staged' = (staged \cup {s}) \ stale
      /\ heap' = Wipe(stale)
      /\ stager' = [stager EXCEPT ![t] = Pushed(l)]
  BY DEF IInv, HashPush, At, Staging, envVars
<1>s. s \in Struct /\ s \notin staged /\ s \in LocalTo(t) /\ s # Nil
  BY <1>0, TargetOwn, NilAssumption
<1>l. l \in Locals /\ LocalsOK(t)
  BY <1>0 DEF TypeOK
<1>1. /\ stager'[t] = Pushed(l)
      /\ \A u \in Stager \ {t} : stager'[u] = stager[u]
  BY <1>0 DEF TypeOK
<1>2. s \in {l.work, l.clone} /\ s \in Owned
  BY <1>s, OwnedIs DEF Target
<1>3. /\ stager'[t].work \in {l.work, Nil}
      /\ stager'[t].clone \in {l.clone, Nil}
      /\ s \notin {stager'[t].work, stager'[t].clone}
      /\ stager'[t].pc \in {"idle", l.next}
      /\ l.next = "roll" => stager'[t].pc = "roll" /\ stager'[t].work = l.work
      /\ stager'[t].pc = "roll" => l.next = "roll"
  <2>1. CASE l.next = "idle"
    BY <1>1, <1>l, <1>s, <2>1, PushedType DEF IdleLocals
  <2>2. CASE l.next # "idle" /\ l.target = "work"
    <3>1. stager'[t].work = Nil /\ stager'[t].clone = l.clone /\ stager'[t].pc = l.next
      BY <1>1, <1>l, <2>2, PushedType
    <3>2. s = l.work /\ l.work # l.clone /\ l.next # "roll"
      BY <1>0, <1>l, <1>s, <2>2 DEF Target, OneOwner, LocalsOK
    <3> QED BY <1>s, <3>1, <3>2
  <2>3. CASE l.next # "idle" /\ l.target = "clone"
    <3>1. stager'[t].clone = Nil /\ stager'[t].work = l.work /\ stager'[t].pc = l.next
      BY <1>1, <1>l, <2>3, PushedType
    <3>2. s = l.clone /\ l.work # l.clone
      BY <1>0, <1>s, <2>3 DEF Target, OneOwner
    <3> QED BY <1>s, <3>1, <3>2
  <2> QED BY <1>l, <2>1, <2>2, <2>3 DEF Locals
<1>4. ThreadKeeps(t)
  BY <1>0, <1>l, <1>3 DEF ThreadKeeps, Rerolls, FirstClone, Roller, Starts, Staging, LocalsOK
<1>5. SearchStays
  <2>1. stale \in SUBSET Owned /\ staged' \subseteq Owned \ stale
    BY <1>0, <1>2, OthersHave
  <2>2. \A m \in Miner : held'[m] \in (Owned \ stale) \cup {Nil}
    BY <1>0, <1>2, <1>s, OthersHave
  <2>3. ASSUME NEW u \in Stager
        PROVE  {stager'[u].work, stager'[u].clone} \subseteq (Owned \ stale) \cup {Nil}
    <3>1. {stager'[u].work, stager'[u].clone} \subseteq {stager[u].work, stager[u].clone, Nil}
      BY <1>1, <1>3
    <3>2. s \notin {stager'[u].work, stager'[u].clone}
      <4>1. CASE u = t
        BY <1>3, <4>1
      <4>2. CASE u # t
        BY <1>1, <1>2, <1>s, <4>2, OthersHave
      <4> QED BY <4>1, <4>2
    <3> QED BY <3>1, <3>2, OthersHave
  <2> HIDE DEF stale
  <2> QED BY <1>0, <2>1, <2>2, <2>3, WipedStays
<1> QED BY <1>1, <1>4, <1>5, ThreadSearches

\* A thread that goes on with what it has, in or out of clone_work's loop.
LEMMA CallSearches ==
    ASSUME IInv, IInv', Searches, NEW t \in Stager, NEW l \in Locals,
           stager' = [stager EXCEPT ![t] = l],
           l.work = stager[t].work, l.clone = stager[t].clone,
           UNCHANGED <<heap, queueVars, held, mined, bases>>,
           \/ /\ stager[t].pc = "convert" /\ l.pc = "stamp"
              /\ l.tested = "push" /\ l.next = "idle"
           \/ /\ stager[t].pc = "loop" /\ l.pc = "stamp"
              /\ l.tested = "push" /\ l.next = "roll"
           \/ /\ stager[t].pc = "loop" /\ stager[t].cloned /\ l.pc = "stamp"
              /\ l.tested = "push" /\ l.next = "last"
           \/ stager[t].pc = "last" /\ l.pc = "stamp" /\ l.tested = "push" /\ l.next = "idle"
           \/ stager[t].pc = "idle" /\ l.pc = "fetch"
    PROVE  Searches'
<1>1. stager'[t] = l /\ \A u \in Stager \ {t} : stager'[u] = stager[u]
  BY DEF IInv, TypeOK
<1>2. ThreadKeeps(t)
  <2>1. CASE stager[t].pc = "loop"
    BY <1>1, <2>1 DEF ThreadKeeps, Rerolls, FirstClone, Roller, Starts, Staging
  <2>2. CASE stager[t].pc = "convert"
    BY <1>1, <2>2 DEF ThreadKeeps, Rerolls, FirstClone, Roller, Starts, Staging
  <2>3. CASE stager[t].pc \in {"last", "idle"}
    BY <1>1, <2>3 DEF ThreadKeeps, Rerolls, FirstClone, Roller, Starts, Staging
  <2> QED BY <2>1, <2>2, <2>3
<1>3. Owned' = Owned
  BY <1>1, SameOwned DEF queueVars
<1>4. SearchStays
  BY <1>3 DEF SearchStays
<1> QED BY <1>1, <1>2, <1>4, ThreadSearches

LEMMA UnwantedSearches ==
    ASSUME IInv, IInv', Searches, NEW t \in Stager, Unwanted(t)
    PROVE  Searches'
<1>0. /\ stager[t].pc = "convert" /\ TypeOK /\ LocalsOK(t)
      /\ heap' = Wipe({stager[t].work})
      /\ stager' = [stager EXCEPT ![t] = IdleLocals]
      /\ staged' = staged /\ held' = held /\ mined' = mined /\ bases' = bases
  BY DEF Unwanted, At, queueVars, envVars, IInv, TypeOK
<1>1. stager'[t] = IdleLocals /\ \A u \in Stager \ {t} : stager'[u] = stager[u]
  BY <1>0 DEF TypeOK
<1>2. ThreadKeeps(t)
  BY <1>0, <1>1 DEF ThreadKeeps, Rerolls, FirstClone, Roller, Starts, Staging, IdleLocals
<1>3. stager[t].work # Nil /\ stager[t].work \in Owned \ staged
  BY <1>0, OthersHave DEF LocalsOK
<1>4. SearchStays
  <2> DEFINE S == {stager[t].work}
  <2>1. S \in SUBSET Owned /\ staged' \subseteq Owned \ S
    BY <1>0, <1>3, OthersHave
  <2>2. \A m \in Miner : held'[m] \in (Owned \ S) \cup {Nil}
    BY <1>0, <1>3, OthersHave
  <2>3. \A u \in Stager : {stager'[u].work, stager'[u].clone} \subseteq (Owned \ S) \cup {Nil}
    <3>1. stager'[t].work = Nil /\ stager'[t].clone = Nil
      BY <1>1 DEF IdleLocals
    <3>2. \A u \in Stager \ {t} :
            {stager[u].work, stager[u].clone} \subseteq (Owned \ S) \cup {Nil}
      BY <1>3, OthersHave
    <3> QED BY <1>1, <3>1, <3>2
  <2> HIDE DEF S
  <2> QED BY <1>0, <2>1, <2>2, <2>3, WipedStays DEF S
<1> QED BY <1>1, <1>2, <1>4, ThreadSearches

LEMMA LoopEndUnclonedSearches ==
    ASSUME IInv, IInv', Searches, NEW t \in Stager, LoopEndUncloned(t)
    PROVE  Searches'
<1>0. /\ stager[t].pc = "loop" /\ TypeOK /\ OneOwner /\ LocalsOK(t) /\ stager[t] \in Locals
      /\ heap' = Wipe({stager[t].clone})
      /\ staged' = staged /\ held' = held /\ mined' = mined /\ bases' = bases
  BY DEF LoopEndUncloned, At, queueVars, envVars, IInv, TypeOK
<1> DEFINE k == [stager[t] EXCEPT !.clone = Nil]
           l == Stage(k, "work", "idle")
<1>1. k \in Locals /\ k.work = stager[t].work /\ k.clone = Nil /\ "idle" \in Control
  BY <1>0 DEF Locals, Pointer, Control
<1> HIDE DEF k
<1>2. /\ l \in Locals /\ l.pc = "stamp" /\ l.work = stager[t].work
      /\ l.clone = Nil /\ l.target = "work" /\ l.tested = "push" /\ l.next = "idle"
  BY <1>1, StageType
<1>3. stager' = [stager EXCEPT ![t] = l]
  BY DEF LoopEndUncloned, k
<1> HIDE DEF l
<1>4. stager'[t] = l /\ \A u \in Stager \ {t} : stager'[u] = stager[u]
  BY <1>0, <1>3 DEF TypeOK
<1>5. /\ stager[t].clone # Nil /\ stager[t].clone \in Owned \ staged
      /\ stager[t].work # Nil /\ stager[t].work # stager[t].clone
  BY <1>0, OthersHave DEF LocalsOK, OneOwner
<1> DEFINE S == {stager[t].clone}
<1>6. /\ S \in SUBSET Owned /\ staged' \subseteq Owned \ S
      /\ \A m \in Miner : held'[m] \in (Owned \ S) \cup {Nil}
      /\ \A u \in Stager : {stager'[u].work, stager'[u].clone} \subseteq (Owned \ S) \cup {Nil}
  <2>1. S \in SUBSET Owned /\ staged' \subseteq Owned \ S
    BY <1>0, <1>5, OthersHave
  <2>2. \A m \in Miner : held'[m] \in (Owned \ S) \cup {Nil}
    BY <1>0, <1>5, OthersHave
  <2>3. \A u \in Stager : {stager'[u].work, stager'[u].clone} \subseteq (Owned \ S) \cup {Nil}
    BY <1>2, <1>4, <1>5, OthersHave
  <2> QED BY <2>1, <2>2, <2>3
<1>7. Owned' \subseteq Owned \ S
  BY <1>6, OwnedWithin
<1>8. ThreadKeeps(t)
  BY <1>0, <1>2, <1>4, <1>7 DEF ThreadKeeps, Rerolls, FirstClone, Roller, Starts, Staging
<1>9. SearchStays
  <2> HIDE DEF S
  <2> QED BY <1>0, <1>6, WipedStays DEF S
<1> QED BY <1>4, <1>8, <1>9, ThreadSearches

LEMMA LoopStageSearches ==
    ASSUME IInv, IInv', Searches, NEW t \in Stager, LoopStage(t)
    PROVE  Searches'
<1>0. TypeOK /\ stager[t] \in Locals /\ stager[t].pc = "loop" /\ stager[t].mrs > 0
  BY DEF IInv, LoopStage, At, TypeOK, RollsOn
<1> DEFINE k == [stager[t] EXCEPT !.mrs = stager[t].mrs - 1]
           l == Stage(k, "clone", "roll")
<1>1. k \in Locals /\ k.work = stager[t].work /\ k.clone = stager[t].clone
  <2>1. stager[t].mrs - 1 \in Nat
    BY <1>0 DEF Locals
  <2>2. \A n \in Nat : LET j == [stager[t] EXCEPT !.mrs = n] IN
          j \in Locals /\ j.work = stager[t].work /\ j.clone = stager[t].clone
    BY <1>0 DEF Locals
  <2> QED BY <2>1, <2>2
<1>2. "roll" \in Control
  BY DEF Control
<1> HIDE DEF k
<1>3. /\ l \in Locals /\ l.pc = "stamp" /\ l.work = stager[t].work
      /\ l.clone = stager[t].clone /\ l.tested = "push" /\ l.next = "roll"

  BY <1>1, <1>2, StageType
<1>4. stager' = [stager EXCEPT ![t] = l] /\ UNCHANGED <<heap, queueVars, held, mined, bases>>
  BY DEF LoopStage, k, envVars
<1> HIDE DEF l
<1> QED BY <1>0, <1>3, <1>4, CallSearches

LEMMA LoopEndClonedSearches ==
    ASSUME IInv, IInv', Searches, NEW t \in Stager, LoopEndCloned(t)
    PROVE  Searches'
<1>0. stager[t] \in Locals /\ "last" \in Control
  BY DEF IInv, TypeOK, Control
<1> DEFINE l == Stage(stager[t], "work", "last")
<1>1. /\ l \in Locals /\ l.pc = "stamp" /\ l.work = stager[t].work
      /\ l.clone = stager[t].clone /\ l.tested = "push" /\ l.next = "last"
  BY <1>0, StageType
<1>2. /\ stager' = [stager EXCEPT ![t] = l] /\ stager[t].pc = "loop" /\ stager[t].cloned
      /\ UNCHANGED <<heap, queueVars, held, mined, bases>>
  BY DEF LoopEndCloned, At, envVars
<1> HIDE DEF l
<1> QED BY <1>1, <1>2, CallSearches

LEMMA StageLastSearches ==
    ASSUME IInv, IInv', Searches, NEW t \in Stager, StageLast(t)
    PROVE  Searches'
<1>0. stager[t] \in Locals /\ "idle" \in Control
  BY DEF IInv, TypeOK, Control
<1> DEFINE l == Stage(stager[t], "clone", "idle")
<1>1. /\ l \in Locals /\ l.pc = "stamp" /\ l.work = stager[t].work
      /\ l.clone = stager[t].clone /\ l.tested = "push" /\ l.next = "idle"
  BY <1>0, StageType
<1>2. /\ stager' = [stager EXCEPT ![t] = l] /\ stager[t].pc = "last"
      /\ UNCHANGED <<heap, queueVars, held, mined, bases>>
  BY DEF StageLast, At, envVars
<1> HIDE DEF l
<1> QED BY <1>1, <1>2, CallSearches

\* convert_to_work: its first clone, or none when the table is full.
LEMMA ConvertSearches ==
    ASSUME IInv, IInv', Searches, NEW t \in Stager, Convert(t)
    PROVE  Searches'
<1>c. /\ stager[t].pc = "convert"
      /\ UNCHANGED <<queueVars, blockVars, held, mined, poolVars, envVars>>
  BY DEF Convert, At
<1>0. /\ TypeOK /\ OneOwner /\ stager[t].pc = "convert" /\ LocalsOK(t)
      /\ stager[t] \in Locals /\ stager[t].work # Nil /\ stager[t].clone = Nil
      /\ "idle" \in Control
  BY <1>c DEF IInv, TypeOK, LocalsOK, Control
<1>h. UNCHANGED <<queueVars, held, mined, bases>>
  BY <1>c DEF envVars
<1>1. CASE /\ stager' = [stager EXCEPT ![t] = Stage(stager[t], "work", "idle")]
           /\ UNCHANGED heap
  <2> DEFINE l == Stage(stager[t], "work", "idle")
  <2>1. /\ l \in Locals /\ l.pc = "stamp" /\ l.work = stager[t].work
        /\ l.clone = stager[t].clone /\ l.tested = "push" /\ l.next = "idle"
    BY <1>0, StageType
  <2>2. stager' = [stager EXCEPT ![t] = l]
    BY <1>1
  <2> HIDE DEF l
  <2> QED BY <1>0, <1>1, <1>h, <2>1, <2>2, CallSearches
<1>2. ASSUME NEW new \in Free,
             heap' = [heap EXCEPT ![new] = make_clone(heap[stager[t].work])],
             stager' = [stager EXCEPT
                  ![t] = [stager[t] EXCEPT !.pc = "loop", !.clone = new,
                                   !.mrs = TotalRoom - Cardinality(staged)]]
      PROVE  Searches'
  <2>n. new \in Struct \ Owned /\ new # Nil /\ new \in Struct
    BY <1>0, OwnedType, NilAssumption
  <2> DEFINE m == stager[t].work
  <2>m. m \in Owned /\ m \in Struct /\ m # new /\ heap[m] \in Fields
    BY <1>0, <2>n, OwnedIs DEF TypeOK, Locals, Pointer
  <2>1. /\ stager'[t].work = m /\ stager'[t].clone = new /\ stager'[t].pc = "loop"
        /\ stager'[t].cloned = stager[t].cloned
        /\ \A u \in Stager \ {t} : stager'[u] = stager[u]
    BY <1>0, <1>2 DEF TypeOK, Locals
  <2>2. /\ heap'[new] = make_clone(heap[m])
        /\ \A s \in Owned : heap'[s] = heap[s]
    BY <1>0, <1>2, <2>n, OwnedType DEF TypeOK
  <2>3. /\ make_clone(heap[m]).clone = TRUE
        /\ make_clone(heap[m]).base = heap[m].base
        /\ make_clone(heap[m]).rolls = heap[m].rolls
    BY <2>m DEF make_clone, Fields
  <2>4. Owned' \subseteq Owned \cup {new}
    <3>1. staged' \subseteq Owned \cup {new} /\ \A n \in Miner : held'[n] \in Owned \cup {new} \cup {Nil}
      BY <1>h, OthersHave DEF queueVars
    <3>2. \A u \in Stager : {stager'[u].work, stager'[u].clone} \subseteq Owned \cup {new} \cup {Nil}
      BY <2>1, OthersHave
    <3> QED BY <3>1, <3>2, OwnedWithin
  <2>5. \A u \in Stager : stager[u].work = m => u = t
    BY <1>0, OthersHave
  <2>6. ~Late(m) /\ \A s : ~Twin(m, s)
    BY <1>0, <2>5 DEF Late, Twin, Rerolls, FirstClone, Staging
  <2>7. Roller(t) /\ ~Rerolls(t)
    BY <1>0 DEF Roller, Rerolls, Staging
  <2>8. FirstClone(t)'
    BY <1>0, <2>1 DEF FirstClone, Searches, StartsUncloned, Starts
  <2>9. TypeOK /\ TypeOK' /\ mined' = mined /\ bases' = bases
    BY <1>h DEF IInv
  <2>10. /\ heap'[new].base = heap[m].base /\ heap'[new].rolls = heap[m].rolls
         /\ heap'[new].clone
    BY <2>2, <2>3
  <2> HIDE DEF m
  <2> QED BY <1>0, <2>n, <2>m, <2>1, <2>2, <2>4, <2>6, <2>7, <2>8, <2>9, <2>10, SearchesCopied DEF m
<1> QED BY <1>1, <1>2 DEF Convert

LEMMA RolledTwice ==
    ASSUME NEW w \in Fields, ~w.clone
    PROVE  /\ roll_work(roll_work(w)).base = w.base
           /\ ~roll_work(roll_work(w)).clone
           /\ roll_work(roll_work(w)).rolls = w.rolls + 2
           /\ make_clone(roll_work(w)).base = w.base
           /\ make_clone(roll_work(w)).clone
           /\ make_clone(roll_work(w)).rolls = w.rolls + 1
<1>1. /\ roll_work(w) \in Fields /\ roll_work(w).base = w.base
      /\ roll_work(w).rolls = w.rolls + 1 /\ roll_work(w).clone = w.clone /\ w.rolls \in Nat
  BY DEF roll_work, Fields
<1>2. \A v \in Fields : /\ roll_work(v).base = v.base /\ roll_work(v).clone = v.clone
                        /\ roll_work(v).rolls = v.rolls + 1
  BY DEF roll_work, Fields
<1>3. \A v \in Fields : /\ make_clone(v).base = v.base /\ make_clone(v).clone
                        /\ make_clone(v).rolls = v.rolls
  BY DEF make_clone, Fields
<1> QED BY <1>1, <1>2, <1>3

\* clone_work: the clone its thread makes after it rolled its master.
LEMMA LoopRollSearches ==
    ASSUME IInv, IInv', Searches, NEW t \in Stager, LoopRoll(t)
    PROVE  Searches'
<1>c. /\ stager[t].pc = "roll"
      /\ UNCHANGED <<queueVars, blockVars, held, mined, poolVars, envVars>>
  BY DEF LoopRoll, At
<1>0. /\ TypeOK /\ TypeOK' /\ LocalsOK(t) /\ stager[t] \in Locals
      /\ stager[t].work # Nil /\ stager[t].clone = Nil
  BY <1>c DEF IInv, TypeOK, LocalsOK
<1>h. staged' = staged /\ held' = held /\ mined' = mined /\ bases' = bases
  BY <1>c DEF queueVars, envVars
<1> DEFINE m == stager[t].work
<1>1. PICK new \in Free :
        /\ heap' = [heap EXCEPT ![m] = roll_work(roll_work(heap[m])),
                                ![new] = make_clone(roll_work(heap[m]))]
        /\ stager' = [stager EXCEPT
              ![t] = [stager[t] EXCEPT !.pc = "loop", !.clone = new, !.cloned = TRUE]]
  BY DEF LoopRoll
<1>2. new \in Struct \ Owned /\ new # Nil /\ new \in Struct
  BY <1>0, OwnedType, NilAssumption
<1>3. m \in Owned /\ m \in Struct /\ m # new /\ heap[m] \in Fields
  BY <1>0, <1>2, OwnedIs DEF TypeOK, Locals, Pointer
<1>4. /\ stager'[t].work = m /\ stager'[t].clone = new /\ stager'[t].pc = "loop"
      /\ stager'[t].cloned = TRUE
      /\ \A u \in Stager \ {t} : stager'[u] = stager[u]
  BY <1>0, <1>1 DEF TypeOK, Locals
<1>5. /\ heap'[new] = make_clone(roll_work(heap[m]))
      /\ heap'[m] = roll_work(roll_work(heap[m]))
      /\ \A s \in Owned \ {m} : heap'[s] = heap[s]
  BY <1>0, <1>1, <1>2, <1>3, OwnedType DEF TypeOK
<1>6. /\ ~heap[m].clone /\ ~Late(m)' /\ \A s : ~Twin(m, s)
  <2>1. Roller(t)
    BY <1>c DEF Roller
  <2>2. \A u \in Stager : stager[u].work = m => u = t
    BY <1>0, OthersHave
  <2>3. \A u \in Stager : stager'[u].work = m => u = t
    BY <1>4, <2>2
  <2> QED BY <1>c, <1>4, <2>1, <2>2, <2>3
          DEF Searches, RollsMaster, Late, Twin, Rerolls, FirstClone, Staging
<1>7. /\ heap'[m].base = heap[m].base /\ ~heap'[m].clone /\ heap'[m].rolls = heap[m].rolls + 2
      /\ heap'[new].base = heap[m].base /\ heap'[new].clone
      /\ heap'[new].rolls = heap[m].rolls + 1
  BY <1>3, <1>5, <1>6, RolledTwice
<1>8. Owned' \subseteq Owned \cup {new}
  <2>1. staged' \subseteq Owned \cup {new} /\ \A n \in Miner : held'[n] \in Owned \cup {new} \cup {Nil}
    BY <1>h, OthersHave
  <2>2. \A u \in Stager : {stager'[u].work, stager'[u].clone} \subseteq Owned \cup {new} \cup {Nil}
    BY <1>4, OthersHave
  <2> QED BY <2>1, <2>2, OwnedWithin
<1>9. \A s \in Owned \ {m} : Late(s) => Late(s)'
  BY <1>4 DEF Late, Rerolls
<1>10. \A s \in Owned \ {m}, r \in Owned : Twin(s, r) => Twin(s, r)'
  BY <1>4 DEF Twin, FirstClone
<1>11. \A u \in Stager : Roller(u)' => Roller(u) /\ stager'[u].work = stager[u].work
  BY <1>c, <1>4 DEF Roller
<1>12. \A u \in Stager : Starts(u)' => Starts(u) /\ stager'[u].cloned = stager[u].cloned
  BY <1>4 DEF Starts, Staging
<1> HIDE DEF m
<1> QED BY <1>0, <1>h, <1>2, <1>3, <1>5, <1>6, <1>7, <1>8, <1>9, <1>10, <1>11, <1>12,
           SearchesRolled

\* clone_available: the clone of a staged master.
LEMMA CloneAvailableSearches ==
    ASSUME IInv, IInv', Searches, CloneAvailable
    PROVE  Searches'
<1> DEFINE t == Scheduler
<1>c. /\ stager[t].pc = "idle" /\ t \in Stager
      /\ UNCHANGED <<queueVars, blockVars, held, mined, poolVars, envVars>>
  BY DEF CloneAvailable, At, Stager
<1>0. TypeOK /\ TypeOK' /\ OneOwner
  BY DEF IInv
<1>h. staged' = staged /\ held' = held /\ mined' = mined /\ bases' = bases
  BY <1>c DEF queueVars, envVars
<1>1. PICK m \in Oldest(RollCandidates), new \in Free :
        /\ heap' = [heap EXCEPT ![m] = roll_work(roll_work(heap[m])),
                                ![new] = make_clone(roll_work(heap[m]))]
        /\ stager' = [stager EXCEPT ![t] = [IdleLocals EXCEPT !.pc = "stamp", !.work = new]]
  BY DEF CloneAvailable
<1>2. new \in Struct \ Owned /\ new # Nil /\ new \in Struct
  BY <1>0, OwnedType, NilAssumption
<1>3. m \in staged /\ m \in Owned /\ m \in Struct /\ m # new /\ heap[m] \in Fields /\ ~heap[m].clone
  <2>1. m \in staged /\ ~heap[m].clone
    BY <1>1 DEF Oldest, RollCandidates, can_roll
  <2> QED BY <1>0, <1>2, <2>1, OthersHave DEF TypeOK
<1>4. /\ stager'[t].work = new /\ stager'[t].clone = Nil /\ stager'[t].pc = "stamp"
      /\ stager'[t].tested = "push" /\ stager'[t].next = "idle"
      /\ \A u \in Stager \ {t} : stager'[u] = stager[u]
  BY <1>0, <1>c, <1>1 DEF TypeOK, IdleLocals
<1>5. /\ heap'[new] = make_clone(roll_work(heap[m]))
      /\ heap'[m] = roll_work(roll_work(heap[m]))
      /\ \A s \in Owned \ {m} : heap'[s] = heap[s]
  BY <1>0, <1>1, <1>2, <1>3, OwnedType DEF TypeOK
<1>6. \A s : ~Twin(m, s)
  BY <1>3, OthersHave DEF Twin
<1>7. /\ heap'[m].base = heap[m].base /\ ~heap'[m].clone /\ heap'[m].rolls = heap[m].rolls + 2
      /\ heap'[new].base = heap[m].base /\ heap'[new].clone
      /\ heap'[new].rolls = heap[m].rolls + 1
  BY <1>3, <1>5, RolledTwice
<1>8. Owned' \subseteq Owned \cup {new}
  <2>1. staged' \subseteq Owned \cup {new} /\ \A n \in Miner : held'[n] \in Owned \cup {new} \cup {Nil}
    BY <1>h, OthersHave
  <2>2. \A u \in Stager : {stager'[u].work, stager'[u].clone} \subseteq Owned \cup {new} \cup {Nil}
    BY <1>4, OthersHave
  <2> QED BY <2>1, <2>2, OwnedWithin
<1>9. \A s \in Owned \ {m} : Late(s) => Late(s)'
  BY <1>c, <1>4 DEF Late, Rerolls, Staging
<1>10. \A s \in Owned \ {m}, r \in Owned : Twin(s, r) => Twin(s, r)'
  BY <1>c, <1>4 DEF Twin, FirstClone
<1>11. \A u \in Stager : Roller(u)' => Roller(u) /\ stager'[u].work = stager[u].work
  BY <1>4 DEF Roller
<1>12. \A u \in Stager : Starts(u)' => Starts(u) /\ stager'[u].cloned = stager[u].cloned
  BY <1>4 DEF Starts
<1> QED BY <1>0, <1>h, <1>2, <1>3, <1>5, <1>6, <1>7, <1>8, <1>9, <1>10, <1>11, <1>12,
           SearchesRolled

\* A thread makes a struct of a header no work has.
LEMMA MakeSearches ==
    ASSUME IInv, IInv', Searches, NEW t \in Stager, stager[t].pc \in {"idle", "fetch"},
           NEW w, w.base = bases + 1, ~w.clone, NEW label \in Staging, NEW tested,
           Make(t, w, label, tested), staged' = staged, held' = held, mined' = mined
    PROVE  Searches'
<1>0. TypeOK /\ TypeOK' /\ LocalsOK(t)
  BY DEF IInv, TypeOK
<1>1. PICK new \in Free :
        /\ heap' = [heap EXCEPT ![new] = w]
        /\ stager' = [stager EXCEPT ![t] = [IdleLocals EXCEPT
                          !.pc = label, !.work = new, !.tested = tested]]
        /\ bases' = bases + 1
  BY DEF Make
<1>2. new \in Struct \ Owned /\ new \in Struct
  BY <1>0, OwnedType
<1>3. /\ stager'[t].work = new /\ stager'[t].clone = Nil /\ stager'[t].pc = label
      /\ stager'[t].next = "idle" /\ ~stager'[t].cloned
      /\ \A u \in Stager \ {t} : stager'[u] = stager[u]
  BY <1>0, <1>1 DEF TypeOK, IdleLocals
<1>4. heap'[new] = w /\ \A s \in Owned : heap'[s] = heap[s]
  BY <1>0, <1>1, <1>2, OwnedType DEF TypeOK
<1>5. Owned' \subseteq Owned \cup {new}
  <2>1. staged' \subseteq Owned \cup {new} /\ \A n \in Miner : held'[n] \in Owned \cup {new} \cup {Nil}
    BY OthersHave
  <2>2. \A u \in Stager : {stager'[u].work, stager'[u].clone} \subseteq Owned \cup {new} \cup {Nil}
    BY <1>3, OthersHave
  <2> QED BY <2>1, <2>2, OwnedWithin
<1> QED BY <1>0, <1>1, <1>2, <1>3, <1>4, <1>5, SearchesNew

LEMMA MakeWorkSearches ==
    ASSUME IInv, IInv', Searches, MakeWork
    PROVE  Searches'
<1>0. /\ Scheduler \in Stager /\ LongPoller \in Stager /\ "stamp" \in Staging
      /\ "look" \in Staging /\ TypeOK
  BY DEF Stager, Staging, IInv
<1>n. ASSUME NEW p, NEW r, NEW l, NEW m
      PROVE  NewWork(p, r, l, m).base = bases + 1 /\ ~NewWork(p, r, l, m).clone
  BY DEF NewWork, Blank
<1>1. CASE GenStratum
  <2>1. PICK p \in StratumPool :
            Make(Scheduler, NewWork(p, FALSE, FALSE, FALSE), "stamp", "push")
    BY <1>1 DEF GenStratum
  <2>2. /\ stager[Scheduler].pc = "idle"
        /\ staged' = staged /\ held' = held /\ mined' = mined
    BY <1>1 DEF GenStratum, At, queueVars
  <2> QED BY <1>0, <1>n, <2>1, <2>2, MakeSearches
<1>2. CASE Fetched
  <2>1. PICK p \in Pool \ StratumPool, r \in BOOLEAN :
            Make(Scheduler, NewWork(p, r, FALSE, FALSE), "stamp", "push")
    BY <1>2 DEF Fetched
  <2>2. /\ stager[Scheduler].pc = "fetch"
        /\ staged' = staged /\ held' = held /\ mined' = mined
    BY <1>2 DEF Fetched, At, queueVars
  <2> QED BY <1>0, <1>n, <2>1, <2>2, MakeSearches
<1>3. CASE LongPollAnswer
  <2>1. PICK p \in Pool \ StratumPool, r \in BOOLEAN, m \in BOOLEAN :
            Make(LongPoller, NewWork(p, r, TRUE, m), "look", "convert")
    BY <1>3 DEF LongPollAnswer
  <2>2. /\ stager[LongPoller].pc = "idle"
        /\ staged' = staged /\ held' = held /\ mined' = mined
    BY <1>3 DEF LongPollAnswer, At, queueVars
  <2> QED BY <1>0, <1>n, <2>1, <2>2, MakeSearches
<1>4. CASE CloneAvailable
  BY <1>4, CloneAvailableSearches
<1>5. CASE CloneUnavailable
  <2> DEFINE l == [stager[Scheduler] EXCEPT !.pc = "fetch"]
  <2>1. /\ l \in Locals /\ l.pc = "fetch" /\ l.work = stager[Scheduler].work
        /\ l.clone = stager[Scheduler].clone
    BY <1>0 DEF TypeOK, Locals, Control
  <2>2. /\ stager' = [stager EXCEPT ![Scheduler] = l] /\ stager[Scheduler].pc = "idle"
        /\ UNCHANGED <<heap, queueVars, held, mined, bases>>
    BY <1>5 DEF CloneUnavailable, Goto, At, envVars
  <2> HIDE DEF l
  <2> QED BY <1>0, <2>1, <2>2, CallSearches
<1> QED BY <1>1, <1>2, <1>3, <1>4, <1>5 DEF MakeWork

----------------------------------------------------------------------------
(* Steps no staging thread takes.                                          *)

\* Works leave the table, or a miner, or stay.
LEMMA QuietSearches ==
    ASSUME IInv, IInv', Searches, stager' = stager, SearchStays
    PROVE  Searches'
<1>1. Scheduler \in Stager
  BY DEF Stager
<1>2. ThreadKeeps(Scheduler)
  BY <1>1 DEF ThreadKeeps, Rerolls, FirstClone, Roller, Starts
<1> QED BY <1>1, <1>2, ThreadSearches

LEMMA TableSearches ==
    ASSUME IInv, IInv', Searches, NEW S \in SUBSET staged,
           staged' = staged \ S, heap' = Wipe(S),
           UNCHANGED <<stager, held, mined, bases>>
    PROVE  Searches'
<1>1. S \in SUBSET Owned
  BY OthersHave
<1>2. SearchStays
  BY <1>1, OthersHave, WipedStays
<1> QED BY <1>2, QuietSearches

LEMMA HashPopSearches ==
    ASSUME IInv, IInv', Searches, NEW m \in Miner, HashPop(m)
    PROVE  Searches'
<1>1. PICK s \in PopChoices : held' = [held EXCEPT ![m] = s] /\ staged' = staged \ {s}
  BY DEF HashPop
<1>2. s \in staged /\ s \in Owned /\ heap' = heap /\ stager' = stager /\ mined' = mined /\ bases' = bases
  BY <1>1, OthersHave DEF PopChoices, Oldest, Rollable, HashPop, envVars
<1>3. Owned' \subseteq Owned
  <2>1. staged' \subseteq Owned /\ \A n \in Miner : held'[n] \in Owned \cup {Nil}
    BY <1>1, <1>2, OthersHave DEF IInv, TypeOK
  <2>2. \A u \in Stager : {stager'[u].work, stager'[u].clone} \subseteq Owned \cup {Nil}
    BY <1>2, OthersHave
  <2> QED BY <2>1, <2>2, OwnedWithin
<1>4. SearchStays
  BY <1>2, <1>3 DEF SearchStays
<1> QED BY <1>2, <1>4, QuietSearches

\* A miner lets go of what it has popped.
LEMMA ReleasedStays ==
    ASSUME IInv, NEW m \in Miner, held[m] # Nil,
           heap' = Wipe({held[m]}), held' = [held EXCEPT ![m] = Nil],
           staged' = staged, stager' = stager
    PROVE  /\ held[m] \in Owned /\ Owned' \subseteq Owned \ {held[m]}
           /\ \A s \in Owned' : heap'[s] = heap[s]
<1> DEFINE h == held[m]
<1>1. h \in Owned \ staged
  BY OthersHave
<1>2. staged' \subseteq Owned \ {h}
  BY <1>1, OthersHave
<1>3. \A n \in Miner : held'[n] \in (Owned \ {h}) \cup {Nil}
  BY <1>1, OthersHave DEF IInv, TypeOK
<1>4. \A u \in Stager : {stager'[u].work, stager'[u].clone} \subseteq (Owned \ {h}) \cup {Nil}
  BY <1>1, OthersHave
<1>5. Owned' \subseteq Owned \ {h}
  BY <1>2, <1>3, <1>4, OwnedWithin
<1> QED BY <1>1, <1>5, OwnedType, WipeType DEF IInv

LEMMA DiscardPoppedSearches ==
    ASSUME IInv, IInv', Searches, NEW m \in Miner, DiscardPopped(m)
    PROVE  Searches'
<1>1. /\ held[m] # Nil /\ heap' = Wipe({held[m]}) /\ held' = [held EXCEPT ![m] = Nil]
      /\ staged' = staged /\ stager' = stager /\ mined' = mined /\ bases' = bases
  BY DEF DiscardPopped, queueVars, envVars
<1>2. SearchStays
  BY <1>1, ReleasedStays DEF SearchStays
<1> QED BY <1>1, <1>2, QuietSearches

\* What a miner takes on, every work that is left differs from: a clone from
\* the other works of its header, the master from the clones it made.
LEMMA TakeWorkSearches ==
    ASSUME IInv, IInv', Searches, NEW m \in Miner, TakeWork(m)
    PROVE  Searches'
<1> DEFINE h == held[m]
<1>1. /\ h # Nil /\ heap' = Wipe({h}) /\ held' = [held EXCEPT ![m] = Nil]
      /\ mined' = mined \cup {Search(h)}
      /\ staged' = staged /\ stager' = stager /\ bases' = bases
  BY DEF TakeWork, queueVars, envVars
<1>2. /\ h \in Owned /\ Owned' \subseteq Owned \ {h}
      /\ \A s \in Owned' : heap'[s] = heap[s]
  BY <1>1, ReleasedStays
<1>3. \A s : ~Twin(s, h) /\ ~Twin(h, s) /\ ~Late(h)
  BY <1>1, OthersHave DEF Twin, Late
<1>4. /\ \A s : Late(s)' <=> Late(s)
      /\ \A s, r : Twin(s, r)' <=> Twin(s, r)
      /\ \A u \in Stager : (Roller(u)' <=> Roller(u)) /\ (Starts(u)' <=> Starts(u))
  BY <1>1 DEF Late, Twin, Rerolls, FirstClone, Roller, Starts
<1>5. \A s \in Owned : /\ heap[s].base \in Nat /\ heap[s].rolls \in Nat
                       /\ heap[s].clone \in BOOLEAN
  BY OwnedType DEF IInv
<1>6. StartsUncloned'
  BY <1>1, <1>4 DEF Searches, StartsUncloned
<1>7. RollsMaster'
  <2> SUFFICES ASSUME NEW u \in Stager, Roller(u)' PROVE ~heap'[stager'[u].work].clone
    BY DEF RollsMaster
  <2>1. stager'[u].work \in Owned'
    BY RollerWorkNext DEF IInv
  <2> QED BY <1>1, <1>2, <1>4, <2>1 DEF Searches, RollsMaster
<1>8. MasterAhead'
  <2> SUFFICES ASSUME NEW s \in Owned', ~heap'[s].clone PROVE Ahead(s)'
    BY DEF MasterAhead
  <2>1. s \in Owned /\ s # h /\ heap'[s] = heap[s] /\ Ahead(s)
    BY <1>2 DEF Searches, MasterAhead
  <2>2. \A r \in Owned' \ {s} : heap'[r] = heap[r] /\ r \in Owned \ {s}
    BY <1>2
  <2>3. heap[h].base = heap[s].base =>
           heap[h].rolls < heap[s].rolls \/ (heap[h].rolls = heap[s].rolls /\ Late(s))
    BY <1>2, <1>3, <2>1 DEF Ahead
  <2>4. Search(h)[1] = heap[h].base /\ Search(h)[2] = heap[h].rolls
    BY DEF Search
  <2>5. \A r \in Owned' \ {s} : heap'[r].base = heap'[s].base =>
          /\ heap'[r].clone
          /\ \/ heap'[r].rolls < heap'[s].rolls
             \/ heap'[r].rolls = heap'[s].rolls /\ (Late(s)' \/ Twin(s, r)')
    BY <1>4, <2>1, <2>2 DEF Ahead
  <2>6. \A x \in mined' : x[1] = heap'[s].base =>
          x[2] < heap'[s].rolls \/ (x[2] = heap'[s].rolls /\ Late(s)')
    BY <1>1, <1>4, <2>1, <2>3, <2>4 DEF Ahead
  <2> QED BY <2>5, <2>6 DEF Ahead
<1>9. ClonesDiffer'
  <2> SUFFICES ASSUME NEW s \in Owned', heap'[s].clone
               PROVE  /\ Search(s)' \notin mined'
                      /\ \A r \in Owned' \ {s} : heap'[r].clone => Search(r)' # Search(s)'
    BY DEF ClonesDiffer
  <2>1. /\ s \in Owned /\ s # h /\ heap[s].clone /\ Search(s)' = Search(s)
        /\ \A r \in Owned' : Search(r)' = Search(r) /\ heap'[r] = heap[r] /\ r \in Owned
    BY <1>2 DEF Search
  <2>2. Search(s) # Search(h)
    <3>1. CASE heap[h].clone
      BY <1>2, <2>1, <3>1 DEF Searches, ClonesDiffer
    <3>2. CASE ~heap[h].clone
      <4>1. Ahead(h)
        BY <1>2, <3>2 DEF Searches, MasterAhead
      <4>2. heap[s].base = heap[h].base => heap[s].rolls # heap[h].rolls
        BY <1>2, <1>3, <1>5, <2>1, <4>1 DEF Ahead
      <4> QED BY <4>2 DEF Search
    <3> QED BY <3>1, <3>2
  <2>3. Search(s) \notin mined
    BY <2>1 DEF Searches, ClonesDiffer
  <2>4. Search(s)' \notin mined'
    BY <1>1, <2>1, <2>2, <2>3
  <2>5. \A r \in Owned \ {s} : heap[r].clone => Search(r) # Search(s)
    BY <2>1 DEF Searches, ClonesDiffer
  <2> QED BY <2>1, <2>4, <2>5
<1>10.
 KnownBases'
  <2>1. Search(h)[1] <= bases
    BY <1>2 DEF Search, Searches, KnownBases
  <2> QED BY <1>1, <1>2, <2>1 DEF Searches, KnownBases
<1> QED BY <1>6, <1>7, <1>8, <1>9, <1>10 DEF Searches

LEMMA SearchesStep == IInv /\ IInv' /\ Searches /\ [Next]_vars => Searches'
<1> SUFFICES ASSUME IInv, IInv', Searches, [Next]_vars PROVE Searches'
  OBVIOUS
<1>1. CASE MakeWork
  BY <1>1, MakeWorkSearches
<1>2. ASSUME NEW t \in Stager, StageWork(t) PROVE Searches'
  BY <1>2, StampSearches, RestartSearches, HashPushSearches DEF StageWork
<1>3. ASSUME NEW t \in Stager, CloneWork(t) PROVE Searches'
  BY <1>3, UnwantedSearches, ConvertSearches, LoopStageSearches, LoopRollSearches,
     LoopEndClonedSearches, StageLastSearches, LoopEndUnclonedSearches DEF CloneWork
<1>4. ASSUME NEW m \in Miner, GetWork(m) PROVE Searches'
  BY <1>4, HashPopSearches, DiscardPoppedSearches, TakeWorkSearches DEF GetWork
<1>5. CASE DiscardStale
  <2>1. /\ Stale \in SUBSET staged /\ staged' = staged \ Stale /\ heap' = Wipe(Stale)
        /\ UNCHANGED <<stager, held, mined, bases>>
    BY <1>5 DEF DiscardStale, Stale, envVars
  <2> QED BY <2>1, TableSearches
<1>6. ASSUME NEW p \in Pool, ClearPoolWork(p) PROVE Searches'
  <2> DEFINE gone == {s \in staged : heap[s].pool = p}
  <2>1. /\ gone \in SUBSET staged /\ staged' = staged \ gone /\ heap' = Wipe(gone)
        /\ UNCHANGED <<stager, held, mined, bases>>
    BY <1>6 DEF ClearPoolWork, envVars
  <2> HIDE DEF gone
  <2> QED BY <2>1, TableSearches
<1>7. CASE Environment \/ UNCHANGED vars
  <2>1. UNCHANGED <<heap, queueVars, stager, held, mined, bases>>
    BY <1>7 DEF Environment, SwitchPool, StratumNotify, StratumLost, NetworkBlock, Tick,
                vars, envVars
  <2>2. SearchStays
    BY <2>1, SameOwned DEF SearchStays, queueVars
  <2> QED BY <2>1, <2>2, QuietSearches
<1> QED BY <1>1, <1>2, <1>3, <1>4, <1>5, <1>6, <1>7 DEF Next

LEMMA SearchesInit == Init => Searches
<1> SUFFICES ASSUME Init PROVE Searches
  OBVIOUS
<1>1. Owned = {} /\ mined = {}
  BY DEF Init, Owned, Popped, LocalTo, IdleLocals
<1>2. \A t \in Stager : ~Roller(t) /\ ~Starts(t)
  BY DEF Init, Roller, Starts, IdleLocals, Staging
<1> QED BY <1>1, <1>2 DEF Searches, StartsUncloned, RollsMaster, MasterAhead, ClonesDiffer, KnownBases

\* What is staged or popped is no thread's, so no thread is about to roll it.
LEMMA SearchesDiffer == IInv /\ Searches => NoDuplicateSearch
<1> SUFFICES ASSUME IInv, Searches, NEW s \in staged \cup Popped
             PROVE  /\ Search(s) \notin mined
                    /\ \A r \in staged \cup Popped : r # s => Search(r) # Search(s)
  BY DEF NoDuplicateSearch
<1>1. staged \cup Popped \subseteq Owned
  BY DEF Owned
<1>2. \A r \in staged \cup Popped : \A x : ~Late(r) /\ ~Twin(r, x)
  <2> SUFFICES ASSUME NEW r \in staged \cup Popped, NEW t \in Stager, stager[t].work = r
               PROVE  FALSE
    BY DEF Late, Twin
  <2>1. r # Nil
    BY OthersHave, <1>1
  <2>2. CASE r \in staged
    BY <2>1, <2>2, OthersHave
  <2>3. CASE \E m \in Miner : r = held[m]
    BY <2>1, <2>3, OthersHave
  <2> QED BY <2>1, <2>2, <2>3 DEF Popped
<1>3. \A r \in Owned : heap[r].rolls \in Nat /\ heap[r].base \in Nat
  BY OwnedType DEF IInv
<1>4. \A x \in mined : x[1] \in Nat /\ x[2] \in Nat /\ x = <<x[1], x[2]>>
  BY OwnedType DEF IInv
<1>5. ASSUME NEW a \in staged \cup Popped, ~heap[a].clone
      PROVE  /\ Search(a) \notin mined
             /\ \A r \in staged \cup Popped : r # a => Search(r) # Search(a)
  <2>1. Ahead(a)
    BY <1>1, <1>5 DEF Searches, MasterAhead
  <2>2. \A x \in mined : x[1] = heap[a].base => x[2] < heap[a].rolls
    BY <1>2, <2>1 DEF Ahead
  <2>3. Search(a) \notin mined
    BY <1>1, <1>3, <2>2 DEF Search
  <2>4. ASSUME NEW r \in staged \cup Popped, r # a PROVE Search(r) # Search(a)
    <3>1. heap[r].base = heap[a].base => heap[r].rolls < heap[a].rolls
      BY <1>1, <1>2, <2>1, <2>4 DEF Ahead
    <3> QED BY <1>1, <1>3, <3>1 DEF Search
  <2> QED BY <2>3, <2>4
<1>6. CASE ~heap[s].clone
  BY <1>5, <1>6
<1>7. CASE heap[s].clone
  <2>1. Search(s) \notin mined
    BY <1>1, <1>7 DEF Searches, ClonesDiffer
  <2>2. ASSUME NEW r \in staged \cup Popped, r # s PROVE Search(r) # Search(s)
    <3>1. CASE heap[r].clone
      BY <1>1, <1>7, <2>2, <3>1 DEF Searches, ClonesDiffer
    <3>2. CASE ~heap[r].clone
      BY <1>5, <2>2, <3>2
    <3> QED BY <3>1, <3>2
  <2> QED BY <2>1, <2>2
<1> QED BY <1>6, <1>7

----------------------------------------------------------------------------
(* Theorems.                                                               *)

\* Every state has its types, every struct has one owner, and the counter
\* staged_rollable is never less than the rollable masters that are staged.
THEOREM Invariant == Spec => []IInv
<1> QED BY InitInv, NextInv, PTL DEF Spec

\* No thread uses or frees a struct that another thread or the table has.
THEOREM Ownership == Spec => []OneOwner
<1>1. IInv => OneOwner
  BY DEF IInv
<1> QED BY <1>1, Invariant, PTL

\* staged_rollable bounds the rollable masters in the table, whatever the
\* discards that do not decrement it do.
THEOREM CounterBound == Spec => []RollableBound
<1>1. IInv => RollableBound
  BY DEF IInv
<1> QED BY <1>1, Invariant, PTL

\* hash_pop's search of the table never runs off its end.
THEOREM PopIsSafe == Spec => []PopFindsWork
<1> QED BY PopFinds, Invariant, PTL

\* No search is staged, popped or mined twice: a master stays ahead of the
\* clones made of it, and no thread stages or rolls it in another order.
THEOREM NoSearchTwice == Spec => []NoDuplicateSearch
<1> DEFINE Both == IInv /\ Searches
<1>1. Init => Both
  BY InitInv, SearchesInit
<1>2. Both /\ [Next]_vars => Both'
  BY NextInv, SearchesStep
<1>3. Both => NoDuplicateSearch
  BY SearchesDiffer
<1> QED BY <1>1, <1>2, <1>3, PTL DEF Spec
=============================================================================
