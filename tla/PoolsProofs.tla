----------------------------- MODULE PoolsProofs -----------------------------
(***************************************************************************)
(* Proofs about PoolManager, LongPoll and BlockDetect, for any number of   *)
(* pools, threads, commands and events.                                    *)
(***************************************************************************)
EXTENDS PoolManager, LongPoll, BlockDetect, FiniteSetTheorems,
        WellFoundedInduction, TLAPS

----------------------------------------------------------------------------
(* The invariant of PoolManager.                                           *)

Alive == 0 .. created - 1

\* How many entries of the table are in use: while a pool is dropped its last is not.
InTable == IF at[Operator] = "drop" THEN total_pools - 1 ELSE total_pools

Removing == {"leave", "refuse", "disable", "renumber", "swap"}

TableInv ==
    /\ pools \in [0 .. MaxPool -> Alive \cup {NoPool}]
    /\ \A i \in 0 .. total_pools - 1 : pools[i] \in Alive
    /\ \A i \in 0 .. InTable - 1 : pool_no[pools[i]] = i
    /\ total_pools <= created
    /\ removed \subseteq Alive
    /\ at[Operator] \in Removing => about[Operator] \in Table
    /\ at[Operator] = "drop" => \A i \in 0 .. InTable - 1 : pools[i] # about[Operator]
    /\ at[Operator] \in Removing \cup {"drop"} => total_pools > 1
    /\ removed = {} /\ at[Operator] # "drop" =>
           total_pools = created /\ \A i \in 0 .. created - 1 : pools[i] = i

\* The pools that have a priority of their own.
Ranked == IF at[Operator] = "swap" THEN Table \ {about[Operator]}
          ELSE {pools[i] : i \in 0 .. InTable - 1}
RankedSize == IF at[Operator] \in {"swap", "drop"} THEN total_pools - 1 ELSE total_pools

Injective(S) == \A p, q \in S : prio[p] = prio[q] => p = q

PrioInv ==
    IF at[Operator] = "unlisted"
    THEN /\ listed \subseteq Table
         /\ Injective(listed) /\ Injective(Table \ listed)
         /\ {prio[p] : p \in listed} = 0 .. Cardinality(listed) - 1
         /\ \A p \in Table \ listed : prio[p] \in pr .. total_pools - 1
    ELSE /\ Injective(Ranked)
         /\ {prio[p] : p \in Ranked} = 0 .. RankedSize - 1

SelectedInv ==
    /\ \A t \in Thread : selected[t] # NoPool =>
           t = Operator /\ at[t] \in {"switch", "compare"} /\ selected[t] \in Table
    /\ \A t \in Thread : about[t] \in Alive

StartInv ==
    /\ testing \subseteq Alive
    /\ \A p \in Pool : p >= created => idle[p]
    /\ ~pools_active =>
           /\ \A t \in Thread : at[t] \in {"out", "first"}
           /\ \A p \in Pool : ~idle[p] => \E t \in Thread : at[t] = "first" /\ about[t] = p

NoRemoval == removed = {} /\ at[Operator] \notin {"renumber", "swap", "drop"}

Pays(t, p) ==
    \/ at[t] \in {"switch", "leave"}
    \/ at[t] \in {"compare", "resus", "first"} /\ about[t] = p
    \/ at[t] \in {"unlisted", "prio0"}

DebtInv ==
    NoRemoval =>
        /\ currentpool \in Table
        /\ pool_strategy = "failover" /\ pools_active =>
             \A p \in Table : ~pool_unusable(p) /\ prio[p] < prio[currentpool] =>
                 \E t \in Thread : Pays(t, p)

IInv == TypeOK /\ TableInv /\ PrioInv /\ SelectedInv /\ StartInv /\ DebtInv

Base == TypeOK /\ TableInv /\ SelectedInv /\ StartInv

----------------------------------------------------------------------------
(* The least of a set, the length of an order, the size of a set.          *)

\* Of the intervals 1 .. k with k in S one is smallest, and its k is the least.
LEMMA MinFacts ==
    ASSUME NEW S \in SUBSET Nat, S # {}
    PROVE  Min(S) \in S /\ \A k \in S : Min(S) <= k
<1> DEFINE Intervals == {1 .. k : k \in S}
<1>1. Intervals \subseteq FiniteSubsetsOf(Nat) /\ Intervals # {}
  <2>1. \A k \in S : IsFiniteSet(1 .. k)
    BY FS_Interval
  <2>2. \A k \in S : (1 .. k) \in SUBSET Nat
    OBVIOUS
  <2> QED BY <2>1, <2>2 DEF FiniteSubsetsOf
<1>2. PICK T \in Intervals : \A U \in Intervals : <<U, T>> \notin StrictSubsetOrdering(Nat)
  <2> HIDE DEF Intervals
  <2> QED BY <1>1, FS_StrictSubsetOrderingWellFounded, WFMin
<1>3. PICK m \in S : T = 1 .. m
  OBVIOUS
<1>4. ASSUME NEW k \in S, k < m PROVE FALSE
  <2>1. (1 .. k) \in Intervals /\ (1 .. k) \subseteq (1 .. m) /\ m \in (1 .. m) /\ m \notin (1 .. k)
    BY <1>4
  <2>2. (1 .. k) \in SUBSET Nat /\ (1 .. m) \in SUBSET Nat /\ (1 .. k) # (1 .. m)
    BY <2>1
  <2>3. <<1 .. k, 1 .. m>> \in StrictSubsetOrdering(Nat)
    BY <2>1, <2>2, Zenon DEF StrictSubsetOrdering
  <2> QED BY <1>2, <1>3, <2>1, <2>3
<1>5. \A k \in S : m <= k
  BY <1>4
<1> QED BY <1>5 DEF Min

\* An order of a set without repetition: its length is the size of what it lists.
LEMMA OrderFacts ==
    ASSUME NEW S, NEW n \in Nat, NEW order \in SeqOf(S, n), IsInjective(order), order # <<>>
    PROVE  \E m \in 1 .. n :
              /\ order \in [1 .. m -> S] 
              /\ \A p : Contains(order, p) <=> p \in ToSet(order)
              /\ ToSet(order) = {order[i] : i \in 1 .. m}
              /\ \A i, j \in 1 .. m : order[i] = order[j] => i = j
              /\ \A i \in 1 .. m : (CHOOSE k \in DOMAIN order : order[k] = order[i]) = i
              /\ IsFiniteSet(ToSet(order)) /\ Cardinality(ToSet(order)) = m
<1>1. PICK m \in 0 .. n : order \in [1 .. m -> S]
  BY DEF SeqOf
<1>2. order \in Seq(S) /\ Len(order) = m /\ DOMAIN order = 1 .. m
  BY <1>1
<1>3. m # 0
  BY <1>2
<1>4. \A i, j \in 1 .. m : order[i] = order[j] => i = j
  BY <1>2 DEF IsInjective
<1>5. ToSet(order) = {order[i] : i \in 1 .. m}
  BY <1>2 DEF ToSet
<1>6. \A p : Contains(order, p) <=> p \in ToSet(order)
  BY <1>2, <1>5 DEF Contains
<1>7. \A i \in 1 .. m : (CHOOSE k \in DOMAIN order : order[k] = order[i]) = i
  BY <1>2, <1>4
<1>8. IsFiniteSet(ToSet(order)) /\ Cardinality(ToSet(order)) = m
  <2>1. order \in [1 .. m -> ToSet(order)]
    BY <1>1, <1>5
  <2>2. ExistsBijection(1 .. m, ToSet(order))
    <3>1. order \in Injection(1 .. m, ToSet(order))
      BY <2>1, <1>4 DEF Injection, IsInjective
    <3>2. order \in Surjection(1 .. m, ToSet(order))
      BY <2>1, <1>5 DEF Surjection
    <3> QED BY <3>1, <3>2 DEF ExistsBijection, Bijection
  <2>3. IsFiniteSet(1 .. m) /\ Cardinality(1 .. m) = m
    BY <1>3, FS_Interval
  <2> QED BY <2>2, <2>3, FS_Bijection
<1>9. m \in 1 .. n
  BY <1>1, <1>3
<1> WITNESS m \in 1 .. n
<1> QED BY <1>1, <1>4, <1>5, <1>6, <1>7, <1>8, Zenon

----------------------------------------------------------------------------
\* Where a step of thread t leaves the threads.
LEMMA GoFacts ==
    ASSUME TypeOK, NEW t \in Thread, NEW s \in Step, NEW p \in Pool,
           NEW sel \in Pool \cup {NoPool}, Go(t, s, p, sel)
    PROVE  /\ at' \in [Thread -> Step] /\ about' \in [Thread -> Pool]
           /\ selected' \in [Thread -> Pool \cup {NoPool}]
           /\ at'[t] = s /\ about'[t] = p /\ selected'[t] = sel
           /\ \A u \in Thread \ {t} : at'[u] = at[u] /\ about'[u] = about[u]
                                      /\ selected'[u] = selected[u]
BY DEF Go, TypeOK

LEMMA ThenFacts ==
    ASSUME TypeOK, NEW t \in Thread, NEW s \in Step, Then(t, s), 0 \in Pool
    PROVE  /\ at' \in [Thread -> Step] /\ about' \in [Thread -> Pool]
           /\ selected' \in [Thread -> Pool \cup {NoPool}]
           /\ at'[t] = s
           /\ s # "out" => about'[t] = about[t] /\ selected'[t] = selected[t]
           /\ s = "out" => about'[t] = 0 /\ selected'[t] = NoPool
           /\ \A u \in Thread \ {t} : at'[u] = at[u] /\ about'[u] = about[u]
                                      /\ selected'[u] = selected[u]
BY DEF Then, Go, TypeOK

LEMMA Numbers ==
    ASSUME TypeOK, TableInv
    PROVE  /\ MaxPool \in Nat \ {0} /\ total_pools \in Nat \ {0} /\ created \in Nat
           /\ total_pools <= created /\ created <= MaxPool
           /\ NoPool \notin Pool /\ 0 \in Alive /\ 0 \in Pool
           /\ Alive \subseteq Pool /\ Table \subseteq Alive
           /\ Operator \in Thread
<1>1. total_pools \in 1 .. MaxPool /\ created \in NPools .. MaxPool
  BY DEF TypeOK
<1>2. total_pools <= created /\ \A i \in 0 .. total_pools - 1 : pools[i] \in Alive
  BY DEF TableInv
<1> QED BY <1>1, <1>2, PoolAssumption DEF NoPool, Pool, Alive, Table, Thread

LEMMA TableKept ==
    ASSUME TypeOK, TableInv, UNCHANGED tableVars,
           \/ at'[Operator] = at[Operator] /\ about'[Operator] = about[Operator]
           \/ at[Operator] # "drop" /\ at'[Operator] \notin Removing \cup {"drop"}
    PROVE  TableInv'
BY DEF TableInv, Table, Alive, tableVars, InTable, NoPool, Removing

LEMMA InitBase == Init => Base
<1> SUFFICES ASSUME Init PROVE Base
  OBVIOUS
<1>1. /\ MaxPool \in Nat \ {0} /\ NPools \in 1 .. MaxPool /\ 0 \in Pool
  BY PoolAssumption DEF Pool
<1>2. /\ pools \in [0 .. MaxPool -> Pool \cup {NoPool}]
      /\ total_pools \in 1 .. MaxPool /\ created \in NPools .. MaxPool
      /\ pool_no \in [Pool -> 0 .. MaxPool] /\ prio \in [Pool -> 0 .. MaxPool]
  BY <1>1 DEF Init, Pool, NoPool
<1>3. /\ enabled \in [Pool -> {"enabled", "disabled", "rejecting"}]
      /\ idle \in [Pool -> BOOLEAN]
      /\ removed \subseteq Pool /\ testing \subseteq Pool
      /\ currentpool \in Pool \cup {NoPool} /\ enabled_pools \in Int
  BY <1>1 DEF Init, Pool
<1>4. /\ pool_strategy \in Strategies /\ pools_active \in BOOLEAN
      /\ at \in [Thread -> Step] /\ about \in [Thread -> Pool]
      /\ selected \in [Thread -> Pool \cup {NoPool}]
      /\ listed \subseteq Pool /\ screen \in BOOLEAN
  BY <1>1 DEF Init, Step
<1>8. pr \in 0 .. MaxPool /\ asked \in Seq(Pool) /\ before \in [Pool -> 0 .. MaxPool]
  BY <1>1 DEF Init
<1>5. TypeOK
  BY <1>2, <1>3, <1>4, <1>8 DEF TypeOK
<1>6. TableInv
  BY <1>1 DEF Init, TableInv, Pool, NoPool, Thread, Alive, InTable, Removing, Table
<1>7. SelectedInv /\ StartInv
  BY <1>1 DEF Init, SelectedInv, StartInv, Pool, NoPool, Thread, Alive
<1> QED BY <1>5, <1>6, <1>7 DEF Base

----------------------------------------------------------------------------
(* Each step keeps Base: the operator's commands first.                    *)

\* A step of the operator to step s about pool p, in which what is in the table
\* and what has started are as they were.
LEMMA CommandGoes ==
    ASSUME Base, NEW s \in Step, NEW p \in Alive, NEW sel \in Pool \cup {NoPool},
           at[Operator] = "out", pools_active, Go(Operator, s, p, sel),
           s \in Removing => p \in Table /\ total_pools > 1, s # "drop",
           sel # NoPool => s \in {"switch", "compare"} /\ sel \in Table,
           UNCHANGED <<tableVars, pools_active, idle, testing>>
    PROVE  /\ TableInv' /\ SelectedInv' /\ StartInv'
           /\ at' \in [Thread -> Step] /\ about' \in [Thread -> Pool]
           /\ selected' \in [Thread -> Pool \cup {NoPool}]
<1>0. TypeOK /\ TableInv /\ SelectedInv /\ StartInv
  BY DEF Base
<1>1. p \in Pool /\ Operator \in Thread
  BY <1>0, Numbers
<1>2. /\ at' \in [Thread -> Step] /\ about' \in [Thread -> Pool]
      /\ selected' \in [Thread -> Pool \cup {NoPool}]
      /\ at'[Operator] = s /\ about'[Operator] = p /\ selected'[Operator] = sel
      /\ \A u \in Thread \ {Operator} : at'[u] = at[u] /\ about'[u] = about[u]
                                 /\ selected'[u] = selected[u]
  BY <1>0, <1>1, GoFacts
<1>3. Table' = Table /\ Alive' = Alive
  BY DEF Table, Alive, tableVars
<1>4. TableInv'
  BY <1>0, <1>2, <1>3 DEF TableInv, tableVars, InTable, Removing
<1>5. SelectedInv'
  BY <1>0, <1>2, <1>3 DEF SelectedInv
<1>6. StartInv'
  BY <1>0, <1>3 DEF StartInv, tableVars
<1> QED BY <1>2, <1>4, <1>5, <1>6

LEMMA CommandBase ==
    ASSUME Base, NEW p \in Table,
           SwitchCommand(p) \/ EnableCommand(p) \/ DisableCommand(p) \/ RemoveCommand(p)
    PROVE  Base'
<1>0. TypeOK /\ TableInv
  BY DEF Base
<1>1. p \in Alive /\ p \in Pool /\ NoPool \notin Pool
  BY <1>0, Numbers
<1>2. CASE SwitchCommand(p)
  <2>1. /\ TableInv' /\ SelectedInv' /\ StartInv'
        /\ at' \in [Thread -> Step] /\ about' \in [Thread -> Pool]
        /\ selected' \in [Thread -> Pool \cup {NoPool}]
    BY <1>1, <1>2, CommandGoes DEF SwitchCommand, Begins, Step, Removing
  <2>2. TypeOK'
    BY <1>0, <1>1, <1>2, <2>1 DEF SwitchCommand, TypeOK, loopVars, Enable, CountEnabled, tableVars
  <2> QED BY <2>1, <2>2 DEF Base
<1>3. CASE EnableCommand(p)
  <2>1. /\ TableInv' /\ SelectedInv' /\ StartInv'
        /\ at' \in [Thread -> Step] /\ about' \in [Thread -> Pool]
        /\ selected' \in [Thread -> Pool \cup {NoPool}]
    BY <1>1, <1>3, CommandGoes DEF EnableCommand, Begins, Step, Removing
  <2>2. TypeOK'
    BY <1>0, <1>1, <1>3, <2>1 DEF EnableCommand, TypeOK, loopVars, Enable, CountEnabled, tableVars
  <2> QED BY <2>1, <2>2 DEF Base
<1>4. CASE DisableCommand(p)
  <2>1. /\ TableInv' /\ SelectedInv' /\ StartInv'
        /\ at' \in [Thread -> Step] /\ about' \in [Thread -> Pool]
        /\ selected' \in [Thread -> Pool \cup {NoPool}]
    BY <1>1, <1>4, CommandGoes DEF DisableCommand, Begins, Step, Removing
  <2>2. TypeOK'
    BY <1>0, <1>1, <1>4, <2>1 DEF DisableCommand, TypeOK, loopVars, Disable, CountDisabled, tableVars
  <2> QED BY <2>1, <2>2 DEF Base
<1>5. CASE RemoveCommand(p)
  <2>1. PICK s \in {"leave", "refuse"} : Go(Operator, s, p, NoPool)
    BY <1>5 DEF RemoveCommand
  <2>2. /\ TableInv' /\ SelectedInv' /\ StartInv'
        /\ at' \in [Thread -> Step] /\ about' \in [Thread -> Pool]
        /\ selected' \in [Thread -> Pool \cup {NoPool}]
    BY <1>1, <1>5, <2>1, CommandGoes
       DEF RemoveCommand, Begins, Step, Removing, poolVars, choiceVars
  <2>3. TypeOK'
    BY <1>0, <1>1, <1>5, <2>2 DEF RemoveCommand, TypeOK, loopVars, poolVars, choiceVars, tableVars
  <2> QED BY <2>2, <2>3 DEF Base
<1> QED BY <1>2, <1>3, <1>4, <1>5

LEMMA StrategyBase ==
    ASSUME Base, StrategyCommand
    PROVE  Base'
<1>0. TypeOK /\ TableInv
  BY DEF Base
<1>1. 0 \in Alive
  BY <1>0, Numbers
<1>2. /\ TableInv' /\ SelectedInv' /\ StartInv'
      /\ at' \in [Thread -> Step] /\ about' \in [Thread -> Pool]
      /\ selected' \in [Thread -> Pool \cup {NoPool}]
  BY <1>1, CommandGoes DEF StrategyCommand, Begins, Step, Removing, poolVars
<1>3. TypeOK'
  BY <1>0, <1>2 DEF StrategyCommand, TypeOK, loopVars, poolVars, tableVars
<1> QED BY <1>2, <1>3 DEF Base

LEMMA AddBase ==
    ASSUME Base, AddCommand
    PROVE  Base'
<1>0. TypeOK /\ TableInv /\ SelectedInv /\ StartInv
  BY DEF Base
<1>1. /\ MaxPool \in Nat \ {0} /\ total_pools \in Nat \ {0} /\ created \in Nat
      /\ total_pools <= created /\ created < MaxPool
      /\ created \in Pool /\ NoPool \notin Pool /\ total_pools \in 0 .. MaxPool
  BY <1>0, Numbers DEF AddCommand, Pool
<1>2. at[Operator] = "out" /\ at' = at /\ about' = about /\ selected' = selected
  BY DEF AddCommand, Begins, threadVars
<1>3. /\ pools' = [pools EXCEPT ![total_pools] = created]
      /\ total_pools' = total_pools + 1 /\ created' = created + 1 /\ removed' = removed
      /\ pool_no' = [pool_no EXCEPT ![created] = total_pools]
      /\ prio' = [prio EXCEPT ![created] = total_pools]
  BY DEF AddCommand
<1>4. TypeOK'
  <2>1. /\ pools' \in [0 .. MaxPool -> Pool \cup {NoPool}]
        /\ total_pools' \in 1 .. MaxPool /\ created' \in NPools .. MaxPool
        /\ pool_no' \in [Pool -> 0 .. MaxPool] /\ prio' \in [Pool -> 0 .. MaxPool]
    BY <1>0, <1>1, <1>3, PoolAssumption DEF TypeOK
  <2>2. /\ enabled' \in [Pool -> {"enabled", "disabled", "rejecting"}]
        /\ enabled_pools' \in Int /\ testing' \subseteq Pool
    BY <1>0, <1>1 DEF AddCommand, TypeOK
  <2> QED BY <1>0, <2>1, <2>2 DEF AddCommand, TypeOK, loopVars, threadVars
<1>5. Alive \subseteq Alive' /\ created \in Alive' /\ Table \subseteq Table'
  <2>1. Table \subseteq Table'
    BY <1>0, <1>1, <1>3 DEF Table, TypeOK
  <2> QED BY <1>1, <1>3, <2>1 DEF Alive
<1>6. \A i \in 0 .. total_pools - 1 : pools'[i] = pools[i] /\ pools[i] # created
  BY <1>0, <1>1, <1>3 DEF TypeOK, TableInv, Alive
<1>7. pools'[total_pools] = created
  BY <1>0, <1>1, <1>3 DEF TypeOK
<1>8. TableInv'
  <2>1. pools' \in [0 .. MaxPool -> Alive' \cup {NoPool}]
    BY <1>0, <1>1, <1>3, <1>5 DEF TypeOK, TableInv
  <2>2. \A i \in 0 .. total_pools' - 1 : pools'[i] \in Alive'
    <3>1. \A i \in 0 .. total_pools - 1 : pools'[i] \in Alive'
      BY <1>0, <1>5, <1>6 DEF TableInv
    <3> QED BY <1>1, <1>3, <1>5, <1>7, <3>1
  <2>3. \A i \in 0 .. InTable' - 1 : pool_no'[pools'[i]] = i
    <3>1. InTable' = total_pools + 1 /\ InTable = total_pools
      BY <1>2, <1>3 DEF InTable
    <3>2. \A i \in 0 .. total_pools - 1 : pools[i] \in Pool
      BY <1>0, <1>1 DEF TableInv, Alive, Pool
    <3>3. \A i \in 0 .. total_pools - 1 : pool_no'[pools'[i]] = i
      BY <1>0, <1>1, <1>3, <1>6, <3>1, <3>2 DEF TypeOK, TableInv
    <3>4. pool_no'[pools'[total_pools]] = total_pools
      BY <1>0, <1>1, <1>3, <1>7 DEF TypeOK
    <3> QED BY <1>1, <3>1, <3>3, <3>4
  <2>4. removed = {} => total_pools' = created' /\ \A i \in 0 .. created' - 1 : pools'[i] = i
    BY <1>0, <1>1, <1>2, <1>3, <1>6, <1>7 DEF TableInv
  <2> QED BY <1>0, <1>1, <1>2, <1>3, <1>5, <2>1, <2>2, <2>3, <2>4 DEF TableInv, Removing
<1>9. SelectedInv'
  BY <1>0, <1>2, <1>5 DEF SelectedInv
<1>10. StartInv'
  <2>1. testing' \subseteq Alive'
    BY <1>0, <1>5 DEF StartInv, AddCommand
  <2>2. \A p \in Pool : p >= created' => idle'[p]
    BY <1>0, <1>1, <1>3 DEF StartInv, AddCommand, Pool
  <2>3. pools_active'
    BY DEF AddCommand, Begins
  <2> QED BY <2>1, <2>2, <2>3 DEF StartInv

<1> QED BY <1>4, <1>8, <1>9, <1>10 DEF Base

----------------------------------------------------------------------------
(* A thread that goes on with what it has begun.                           *)

LEMMA ThenGoes ==
    ASSUME Base, NEW t \in Thread, NEW s \in Step \ {"drop"}, Then(t, s),
           at[t] \notin {"out", "first", "drop"},
           s \in Removing => at[t] \in Removing,
           s \in {"switch", "compare", "out"} \/ selected[t] = NoPool,
           UNCHANGED <<tableVars, idle, testing, pools_active>>
    PROVE  /\ TableInv' /\ SelectedInv' /\ StartInv'
           /\ at' \in [Thread -> Step] /\ about' \in [Thread -> Pool]
           /\ selected' \in [Thread -> Pool \cup {NoPool}]
<1>0. TypeOK /\ TableInv /\ SelectedInv /\ StartInv
  BY DEF Base
<1>1. 0 \in Alive /\ 0 \in Pool /\ Operator \in Thread
  BY <1>0, Numbers
<1>2. /\ at' \in [Thread -> Step] /\ about' \in [Thread -> Pool]
      /\ selected' \in [Thread -> Pool \cup {NoPool}]
      /\ at'[t] = s
      /\ s # "out" => about'[t] = about[t] /\ selected'[t] = selected[t]
      /\ s = "out" => about'[t] = 0 /\ selected'[t] = NoPool
      /\ \A u \in Thread \ {t} : at'[u] = at[u] /\ about'[u] = about[u]
                                 /\ selected'[u] = selected[u]
  BY <1>0, <1>1, ThenFacts
<1>3. Table' = Table /\ Alive' = Alive
  BY DEF Table, Alive, tableVars
<1>4. TableInv'
  <2>1. CASE t # Operator
    BY <1>0, <1>1, <1>2, <2>1, TableKept
  <2>2. CASE t = Operator /\ s \notin Removing
    BY <1>0, <1>2, <2>2, TableKept
  <2>3. CASE t = Operator /\ s \in Removing
    <3>1. /\ at[Operator] \in Removing /\ at'[Operator] \in Removing
          /\ about'[Operator] = about[Operator]
      BY <1>2, <2>3 DEF Removing
    <3> QED BY <1>0, <1>3, <3>1 DEF TableInv, tableVars, InTable, Removing
  <2> QED BY <2>1, <2>2, <2>3
<1>5. SelectedInv'
  BY <1>0, <1>1, <1>2, <1>3 DEF SelectedInv
<1>6. StartInv'
  BY <1>0, <1>3 DEF StartInv, tableVars
<1> QED BY <1>2, <1>4, <1>5, <1>6

LEMMA NoneSelected ==
    ASSUME SelectedInv, NEW t \in Thread, at[t] \notin {"switch", "compare"}
    PROVE  selected[t] = NoPool
BY DEF SelectedInv

LEMMA TestsBase ==
    ASSUME Base, NEW t \in Thread, IfCurrent(t) \/ IfHigher(t) \/ pool_resus(t)
    PROVE  Base'
<1>0. TypeOK /\ SelectedInv
  BY DEF Base
<1>1. PICK s \in {"switch", "out"} : Then(t, s)
  BY DEF IfCurrent, IfHigher, pool_resus
<1>2. at[t] \notin {"out", "first", "drop"} /\ Unchoosing
  BY DEF IfCurrent, IfHigher, pool_resus
<1>3. /\ TableInv' /\ SelectedInv' /\ StartInv'
      /\ at' \in [Thread -> Step] /\ about' \in [Thread -> Pool]
      /\ selected' \in [Thread -> Pool \cup {NoPool}]
  BY <1>1, <1>2, ThenGoes DEF Step, Removing, Unchoosing, poolVars, choiceVars
<1>4. TypeOK'
  BY <1>0, <1>2, <1>3 DEF TypeOK, loopVars, Unchoosing, poolVars, choiceVars, tableVars
<1> QED BY <1>3, <1>4 DEF Base

LEMMA IfNotFirstBase ==
    ASSUME Base, IfNotFirst
    PROVE  Base'
<1>0. TypeOK /\ TableInv /\ SelectedInv
  BY DEF Base
<1>1. PICK s \in {"switch", "out"} : Then(Operator, s)
  BY DEF IfNotFirst
<1>2. /\ at[Operator] = "prio0" /\ Operator \in Thread /\ MaxPool \in Nat
      /\ UNCHANGED <<poolVars, choiceVars, testing, listed, pr, screen>>
      /\ asked' = <<>> /\ before' = [p \in Pool |-> 0]
  BY <1>0, Numbers DEF IfNotFirst
<1>3. /\ TableInv' /\ SelectedInv' /\ StartInv'
      /\ at' \in [Thread -> Step] /\ about' \in [Thread -> Pool]
      /\ selected' \in [Thread -> Pool \cup {NoPool}]
  BY <1>1, <1>2, ThenGoes DEF Step, Removing, poolVars, choiceVars
<1>4. TypeOK'
  BY <1>0, <1>2, <1>3 DEF TypeOK, poolVars, choiceVars, tableVars
<1> QED BY <1>3, <1>4 DEF Base

LEMMA RemoveStartsBase ==
    ASSUME Base, RemoveRefused \/ RemoveBegun \/ RemoveRenumber
    PROVE  Base'
<1>0. TypeOK /\ TableInv /\ SelectedInv
  BY DEF Base
<1>1. PICK s \in {"out", "disable", "renumber", "swap"} : Then(Operator, s)
  BY DEF RemoveRefused, RemoveBegun, RemoveRenumber
<1>2. /\ at[Operator] \in {"refuse", "disable", "renumber"} /\ Operator \in Thread
      /\ about[Operator] \in Pool
  BY <1>0, Numbers DEF RemoveRefused, RemoveBegun, RemoveRenumber, TypeOK
<1>3. UNCHANGED <<tableVars, idle, currentpool, pool_strategy, pools_active, testing, loopVars, screen>>
  BY DEF RemoveRefused, RemoveBegun, RemoveRenumber, Unchoosing, poolVars, choiceVars
<1>4. selected[Operator] = NoPool
  BY <1>0, <1>2, NoneSelected
<1>5. /\ TableInv' /\ SelectedInv' /\ StartInv'
      /\ at' \in [Thread -> Step] /\ about' \in [Thread -> Pool]
      /\ selected' \in [Thread -> Pool \cup {NoPool}]
  BY <1>1, <1>2, <1>3, <1>4, ThenGoes DEF Step, Removing
<1>6. prio' \in [Pool -> 0 .. MaxPool]
  <2>1. CASE RemoveRenumber
    <3>1. /\ prio' = [q \in Pool |-> IF q \in Table /\ prio[q] > prio[about[Operator]]
                                     THEN prio[q] - 1 ELSE prio[q]]
      BY <2>1 DEF RemoveRenumber
    <3>2. \A q \in Pool : prio[q] \in 0 .. MaxPool
      BY <1>0 DEF TypeOK
    <3>3. MaxPool \in Nat
      BY <1>0, Numbers
    <3> QED BY <1>2, <3>1, <3>2, <3>3
  <2> QED BY <1>0, <2>1 DEF RemoveRefused, RemoveBegun, Unchoosing, poolVars, TypeOK
<1>7. /\ enabled' \in [Pool -> {"enabled", "disabled", "rejecting"}]
      /\ enabled_pools' \in Int
  <2>1. CASE RemoveBegun
    BY <1>0, <1>2, <2>1 DEF RemoveBegun, TypeOK, Disable, CountDisabled
  <2>2. CASE ~RemoveBegun
    BY <1>0, <2>2 DEF RemoveRefused, RemoveRenumber, Unchoosing, poolVars, choiceVars, TypeOK
  <2> QED BY <2>1, <2>2

<1>8. TypeOK'
  BY <1>0, <1>3, <1>5, <1>6, <1>7 DEF TypeOK, loopVars, tableVars
<1> QED BY <1>5, <1>8 DEF Base

LEMMA RemoveSwapBase ==
    ASSUME Base, RemoveSwap
    PROVE  Base'
<1> DEFINE p == about[Operator]
           n == pool_no[p]
           last == pools[total_pools - 1]
<1>0. TypeOK /\ TableInv /\ SelectedInv /\ StartInv
  BY DEF Base
<1>1. /\ MaxPool \in Nat \ {0} /\ total_pools \in Nat \ {0} /\ total_pools <= MaxPool
      /\ Operator \in Thread /\ 0 \in Pool /\ Alive \subseteq Pool /\ "drop" \in Step
  BY <1>0, Numbers DEF Step
<1>2. /\ at[Operator] = "swap" /\ p \in Table /\ total_pools > 1
      /\ InTable = total_pools
  BY <1>0 DEF RemoveSwap, TableInv, Removing, InTable
<1>3. /\ n \in 0 .. total_pools - 1 /\ pools[n] = p
      /\ \A i \in 0 .. total_pools - 1 : pools[i] \in Alive /\ pool_no[pools[i]] = i
  BY <1>0, <1>2 DEF TableInv, Table
<1>4. /\ at' \in [Thread -> Step] /\ about' \in [Thread -> Pool]
      /\ selected' \in [Thread -> Pool \cup {NoPool}]
      /\ at'[Operator] = "drop" /\ about'[Operator] = p
      /\ selected'[Operator] = selected[Operator]
      /\ \A u \in Thread \ {Operator} : at'[u] = at[u] /\ about'[u] = about[u]
                                 /\ selected'[u] = selected[u]
  BY <1>0, <1>1, ThenFacts DEF RemoveSwap
<1>5. /\ UNCHANGED <<total_pools, removed, created, prio, enabled, idle, choiceVars,
                     testing, loopVars, screen>>
      /\ IF p = last THEN UNCHANGED <<pools, pool_no>>
         ELSE /\ pool_no' = [pool_no EXCEPT ![last] = n]
              /\ pools' = [pools EXCEPT ![n] = last]
  BY DEF RemoveSwap
<1>6. last \in Alive /\ last \in Pool
  BY <1>1, <1>3
<1>7. \A i \in 0 .. total_pools - 2 :
          pool_no'[pools'[i]] = i /\ pools'[i] # p
  <2>1. CASE p = last
    BY <1>1, <1>3, <1>5, <2>1
  <2>2. CASE p # last
    <3>1. n # total_pools - 1 /\ n \in 0 .. MaxPool
      BY <1>1, <1>3, <2>2
    <3>2. /\ pools'[n] = last /\ pool_no'[last] = n
          /\ \A i \in 0 .. total_pools - 1 : i # n => pools'[i] = pools[i]
          /\ \A q \in Pool : q # last => pool_no'[q] = pool_no[q]
      BY <1>0, <1>1, <1>5, <1>6, <2>2, <3>1 DEF TypeOK
    <3>3. ASSUME NEW i \in 0 .. total_pools - 2, i # n
          PROVE  pool_no'[pools'[i]] = i /\ pools'[i] # p
      <4>1. i \in 0 .. total_pools - 1 /\ i # total_pools - 1
        BY <1>1
      <4>2. pools[i] # last /\ pools[i] # p /\ pools[i] \in Pool
        BY <1>1, <1>3, <3>3, <4>1
      <4> QED BY <1>3, <3>2, <3>3, <4>1, <4>2
    <3> QED BY <2>2, <3>2, <3>3
  <2> QED BY <2>1, <2>2
<1>8. Alive' = Alive /\ InTable' = total_pools - 1 /\ total_pools' = total_pools
  BY <1>4, <1>5 DEF Alive, InTable
<1>9. TableInv'
  <2>1. /\ pools' \in [0 .. MaxPool -> Alive \cup {NoPool}]
        /\ \A i \in 0 .. total_pools - 1 : pools'[i] \in Alive
    BY <1>0, <1>1, <1>3, <1>5, <1>6 DEF TableInv
  <2>2. \A i \in 0 .. InTable' - 1 : pool_no'[pools'[i]] = i /\ pools'[i] # about'[Operator]
    BY <1>1, <1>4, <1>7, <1>8
  <2> QED BY <1>0, <1>2, <1>4, <1>5, <1>8, <2>1, <2>2 DEF TableInv, Removing
<1>10. TypeOK'
  <2>1. /\ pools' \in [0 .. MaxPool -> Pool \cup {NoPool}]
        /\ pool_no' \in [Pool -> 0 .. MaxPool]
    BY <1>0, <1>1, <1>3, <1>5, <1>6 DEF TypeOK
  <2> QED BY <1>0, <1>4, <1>5, <2>1 DEF TypeOK, loopVars, choiceVars
<1>11. SelectedInv'
  BY <1>0, <1>2, <1>4, <1>8 DEF SelectedInv
<1>12. StartInv'
  <2>1. pools_active
    BY <1>0, <1>1, <1>2 DEF StartInv
  <2> QED BY <1>0, <1>5, <1>8, <2>1 DEF StartInv, choiceVars
<1> QED BY <1>9, <1>10, <1>11, <1>12 DEF Base

LEMMA RemoveDropBase ==
    ASSUME Base, RemoveDrop
    PROVE  Base'
<1> DEFINE p == about[Operator]
<1>0. TypeOK /\ TableInv /\ SelectedInv /\ StartInv
  BY DEF Base
<1>1. /\ MaxPool \in Nat \ {0} /\ total_pools \in Nat \ {0} /\ total_pools <= MaxPool
      /\ Operator \in Thread /\ 0 \in Pool /\ Alive \subseteq Pool /\ "out" \in Step
      /\ 0 \in Alive
  BY <1>0, Numbers DEF Step
<1>2. /\ at[Operator] = "drop" /\ total_pools > 1 /\ p \in Alive /\ p \in Pool
      /\ InTable = total_pools - 1 /\ selected[Operator] = NoPool
  BY <1>0, <1>1 DEF RemoveDrop, TableInv, Removing, InTable, SelectedInv
<1>3. /\ at' \in [Thread -> Step] /\ about' \in [Thread -> Pool]
      /\ selected' \in [Thread -> Pool \cup {NoPool}]
      /\ at'[Operator] = "out" /\ about'[Operator] = 0 /\ selected'[Operator] = NoPool
      /\ \A u \in Thread \ {Operator} : at'[u] = at[u] /\ about'[u] = about[u]
                                 /\ selected'[u] = selected[u]
  BY <1>0, <1>1, ThenFacts DEF RemoveDrop
<1>4. /\ UNCHANGED <<pools, created, prio, enabled, idle, choiceVars, testing, loopVars,
                     screen>>
      /\ pool_no' = [pool_no EXCEPT ![p] = total_pools]
      /\ removed' = removed \cup {p} /\ total_pools' = total_pools - 1
  BY DEF RemoveDrop
<1>5. Alive' = Alive /\ InTable' = total_pools - 1 /\ total_pools' \in 1 .. MaxPool
  BY <1>1, <1>2, <1>3, <1>4 DEF Alive, InTable
<1>6. TableInv'
  <2>1. \A i \in 0 .. InTable' - 1 : pool_no'[pools'[i]] = i
    BY <1>0, <1>1, <1>2, <1>4, <1>5 DEF TableInv, TypeOK
  <2>2. /\ pools' \in [0 .. MaxPool -> Alive \cup {NoPool}]
        /\ \A i \in 0 .. total_pools' - 1 : pools'[i] \in Alive
    BY <1>0, <1>1, <1>4 DEF TableInv
  <2>3. total_pools' <= created' /\ removed' \subseteq Alive' /\ removed' # {}
    BY <1>0, <1>1, <1>2, <1>4, <1>5, Numbers DEF TableInv
  <2> QED BY <1>3, <1>5, <2>1, <2>2, <2>3 DEF TableInv, Removing
<1>7. TypeOK'
  <2>1. pool_no' \in [Pool -> 0 .. MaxPool] /\ removed' \subseteq Pool
    BY <1>0, <1>1, <1>2, <1>4 DEF TypeOK
  <2> QED BY <1>0, <1>3, <1>4, <1>5, <2>1 DEF TypeOK, loopVars, choiceVars
<1>8. SelectedInv'
  BY <1>0, <1>1, <1>3, <1>5 DEF SelectedInv
<1>9. StartInv'
  <2>1. pools_active
    BY <1>0, <1>1, <1>2 DEF StartInv
  <2> QED BY <1>0, <1>4, <1>5, <2>1 DEF StartInv, choiceVars
<1> QED BY <1>6, <1>7, <1>8, <1>9 DEF Base

----------------------------------------------------------------------------
(* switch_pools                                                            *)

\* The priorities it leaves, and the entry it chooses.
LEMMA PromotedFacts ==
    ASSUME TypeOK, TableInv, NEW sel \in Pool \cup {NoPool}
    PROVE  Promoted(sel) \in [Pool -> 0 .. MaxPool]
<1>1. MaxPool \in Nat \ {0}
  BY Numbers
<1>2. CASE sel = NoPool
  BY <1>2 DEF Promoted, TypeOK
<1>3. CASE sel # NoPool
  <2>1. sel \in Pool
    BY <1>3
  <2>2. \A p \in Pool : prio[p] \in 0 .. MaxPool /\ prio[sel] \in 0 .. MaxPool
    BY <2>1 DEF TypeOK
  <2>3. \A p \in Pool : prio[p] < prio[sel] => prio[p] + 1 \in 0 .. MaxPool
    BY <1>1, <2>2
  <2> QED BY <1>1, <1>3, <2>2, <2>3 DEF Promoted
<1> QED BY <1>2, <1>3

LEMMA PriorityPoolFacts ==
    ASSUME TypeOK, TableInv, NEW prios, NEW choice \in 0 .. total_pools - 1
    PROVE  priority_pool(prios, choice) \in Table
<1> DEFINE found == {i \in 0 .. total_pools - 1 : prios[pools[i]] = choice}
<1>1. total_pools \in Nat
  BY Numbers
<1>2. CASE found = {}
  BY <1>2 DEF priority_pool, Table
<1>3. CASE found # {}
  <2>1. found \in SUBSET Nat
    BY <1>1
  <2>2. Min(found) \in found
    BY <1>3, <2>1, MinFacts
  <2> QED BY <1>3, <2>2 DEF priority_pool, Table
<1> QED BY <1>2, <1>3

LEMMA AfterFacts ==
    ASSUME TypeOK, TableInv, currentpool # NoPool, NEW k \in 1 .. total_pools - 1
    PROVE  After(k) \in 0 .. total_pools - 1
<1>1. pool_no[currentpool] \in Nat /\ total_pools \in Nat \ {0}
  BY Numbers DEF TypeOK
<1> QED BY <1>1 DEF After

LEMMA ChoiceFacts ==
    ASSUME TypeOK, TableInv, currentpool # NoPool, NEW prios,
           NEW sel \in Table \cup {NoPool}
    PROVE  Choice(prios, sel) \in 0 .. MaxPool
<1>1. /\ \A p \in Pool : pool_no[p] \in 0 .. MaxPool
      /\ currentpool \in Pool /\ Table \subseteq Pool
      /\ total_pools \in Nat \ {0} /\ MaxPool \in Nat /\ total_pools <= MaxPool
  BY Numbers DEF TypeOK
<1>2. ByPriority(prios) \in 0 .. MaxPool
  <2> DEFINE usable == {i \in 0 .. total_pools - 1 : ~pool_unusable(priority_pool(prios, i))}
  <2>1. CASE usable = {}
    BY <1>1, <2>1 DEF ByPriority
  <2>2. CASE usable # {}
    <3>1. usable \in SUBSET Nat
      BY <1>1
    <3>2. Min(usable) \in usable
      BY <2>2, <3>1, MinFacts
    <3>3. priority_pool(prios, Min(usable)) \in Pool
      BY <1>1, <3>2, PriorityPoolFacts
    <3>4. ByPriority(prios) = pool_no[priority_pool(prios, Min(usable))]
      BY <2>2 DEF ByPriority
    <3> QED BY <1>1, <3>3, <3>4
  <2> QED BY <2>1, <2>2
<1>3. ByRotation(sel) \in 0 .. MaxPool
  <2> DEFINE usable == {k \in 1 .. total_pools - 1 : ~pool_unusable(pools[After(k)])}
  <2>1. CASE sel # NoPool /\ ~idle[sel]
    BY <1>1, <2>1 DEF ByRotation
  <2>2. CASE ~(sel # NoPool /\ ~idle[sel]) /\ usable = {}
    BY <1>1, <2>2 DEF ByRotation
  <2>3. CASE ~(sel # NoPool /\ ~idle[sel]) /\ usable # {}
    <3>1. usable \in SUBSET Nat
      BY <1>1
    <3>2. Min(usable) \in usable
      BY <2>3, <3>1, MinFacts
    <3>3. After(Min(usable)) \in 0 .. total_pools - 1
      BY <3>2, AfterFacts
    <3>4. ByRotation(sel) = After(Min(usable))
      BY <2>3 DEF ByRotation
    <3> QED BY <1>1, <3>3, <3>4
  <2> QED BY <2>1, <2>2, <2>3
<1> QED BY <1>2, <1>3 DEF Choice

LEMMA SwitchTypes ==
    ASSUME TypeOK, TableInv, SelectedInv, currentpool # NoPool, NEW t \in Thread, Switch(t)
    PROVE  /\ prio' \in [Pool -> 0 .. MaxPool]
           /\ currentpool' \in Pool \cup {NoPool}
           /\ UNCHANGED <<tableVars, enabled, idle, enabled_pools, pool_strategy,
                          pools_active, testing, loopVars, screen>>
<1>1. /\ selected[t] \in Table \cup {NoPool} /\ selected[t] \in Pool \cup {NoPool}
  BY DEF SelectedInv, TypeOK
<1>2. prio' = Promoted(selected[t])
  BY DEF Switch
<1>3. currentpool' = pools[Choice(Promoted(selected[t]), selected[t])]
  BY DEF Switch
<1>4. Choice(Promoted(selected[t]), selected[t]) \in 0 .. MaxPool
  BY <1>1, ChoiceFacts
<1>5. currentpool' \in Pool \cup {NoPool}
  BY <1>3, <1>4 DEF TypeOK
<1> QED BY <1>1, <1>2, <1>5, PromotedFacts DEF Switch

LEMMA SwitchBase ==
    ASSUME Base, currentpool # NoPool, NEW t \in Thread,
           SwitchPools(t) \/ (t = Operator /\ RemoveLeave)
    PROVE  Base'
<1>0. TypeOK /\ TableInv /\ SelectedInv
  BY DEF Base
<1>1. Switch(t)
  BY DEF SwitchPools, RemoveLeave
<1>2. /\ prio' \in [Pool -> 0 .. MaxPool]
      /\ currentpool' \in Pool \cup {NoPool}
      /\ UNCHANGED <<tableVars, enabled, idle, enabled_pools, pool_strategy,
                     pools_active, testing, loopVars, screen>>
  BY <1>0, <1>1, SwitchTypes
<1>3. \/ at[t] = "switch" /\ Then(t, "out")
      \/ at[t] = "leave" /\ Then(t, "refuse") /\ selected[t] = NoPool
  BY <1>0, NoneSelected DEF SwitchPools, RemoveLeave
<1>4. /\ TableInv' /\ SelectedInv' /\ StartInv'
      /\ at' \in [Thread -> Step] /\ about' \in [Thread -> Pool]
      /\ selected' \in [Thread -> Pool \cup {NoPool}]
  BY <1>2, <1>3, ThenGoes DEF Step, Removing
<1>5. TypeOK'
  BY <1>0, <1>2, <1>4 DEF TypeOK, loopVars, tableVars
<1> QED BY <1>4, <1>5 DEF Base

----------------------------------------------------------------------------
(* poolpriority                                                            *)

LEMMA PriorityBase ==
    ASSUME Base, NEW order \in Orders, PriorityCommand(order)
    PROVE  Base'
<1>0. TypeOK /\ TableInv
  BY DEF Base
<1>1. /\ MaxPool \in Nat \ {0} /\ total_pools \in Nat /\ total_pools <= MaxPool
      /\ 0 \in Alive /\ Table \subseteq Pool
  BY <1>0, Numbers
<1>2. PICK m \in 1 .. total_pools :
         /\ order \in [1 .. m -> Table]
         /\ \A p : Contains(order, p) <=> p \in ToSet(order)
         /\ ToSet(order) = {order[i] : i \in 1 .. m}
         /\ \A i \in 1 .. m : (CHOOSE k \in DOMAIN order : order[k] = order[i]) = i
  BY <1>1, OrderFacts DEF Orders
<1>3. \A p \in Pool : Contains(order, p) =>
          (CHOOSE n \in DOMAIN order : order[n] = p) - 1 \in 0 .. MaxPool
  BY <1>1, <1>2
<1>4. /\ prio' \in [Pool -> 0 .. MaxPool] /\ listed' \subseteq Pool
      /\ pr' \in 0 .. MaxPool /\ before' \in [Pool -> 0 .. MaxPool]
  BY <1>0, <1>1, <1>2, <1>3 DEF PriorityCommand, TypeOK
<1>7. asked' \in Seq(Pool)
  <2>1. order \in [1 .. m -> Pool] /\ m \in Nat /\ asked' = order
    BY <1>1, <1>2 DEF PriorityCommand
  <2> QED BY <2>1
<1>5. /\ TableInv' /\ SelectedInv' /\ StartInv'
      /\ at' \in [Thread -> Step] /\ about' \in [Thread -> Pool]
      /\ selected' \in [Thread -> Pool \cup {NoPool}]
  BY <1>1, CommandGoes DEF PriorityCommand, Begins, Step, Removing, choiceVars
<1>6. TypeOK'
  BY <1>0, <1>4, <1>5, <1>7 DEF PriorityCommand, TypeOK, choiceVars, tableVars
<1> QED BY <1>5, <1>6 DEF Base

\* A round finds the first pool of the table that still has priority pr.
LEMMA FoundFacts ==
    ASSUME TypeOK, TableInv, Found # {}
    PROVE  /\ pools[Min(Found)] \in Table \ listed
           /\ prio[pools[Min(Found)]] = pr
<1>1. Found \in SUBSET Nat
  BY Numbers DEF Found
<1>2. Min(Found) \in Found
  BY <1>1, MinFacts
<1> QED BY <1>2 DEF Found, Table

LEMMA ListedSize ==
    ASSUME TypeOK, TableInv
    PROVE  IsFiniteSet(listed) /\ Cardinality(listed) \in 0 .. MaxPool
<1>1. MaxPool \in Nat \ {0} /\ listed \subseteq Pool
  BY Numbers DEF TypeOK
<1>2. IsFiniteSet(Pool) /\ Cardinality(Pool) = MaxPool
  BY <1>1, FS_Interval DEF Pool
<1>3. IsFiniteSet(listed) /\ Cardinality(listed) <= MaxPool /\ Cardinality(listed) \in Nat
  BY <1>1, <1>2, FS_Subset, FS_CardinalityType
<1> QED BY <1>1, <1>3

LEMMA RoundBase ==
    ASSUME Base, PriorityRound
    PROVE  Base'
<1>0. TypeOK /\ TableInv /\ SelectedInv /\ StartInv
  BY DEF Base
<1>1. /\ MaxPool \in Nat /\ total_pools \in Nat /\ total_pools <= MaxPool
      /\ Table \subseteq Pool
  BY <1>0, Numbers
<1>2. /\ UNCHANGED <<tableVars, enabled, idle, choiceVars, testing, at, about, selected,
                     asked, before, screen>>
      /\ pr < total_pools /\ pr' = pr + 1
  BY DEF PriorityRound
<1>3. pr' \in 0 .. MaxPool
  BY <1>0, <1>1, <1>2 DEF TypeOK
<1>4. prio' \in [Pool -> 0 .. MaxPool] /\ listed' \subseteq Pool
  <2>1. CASE Found = {}
    BY <1>0, <2>1 DEF PriorityRound, TypeOK
  <2>2. CASE Found # {}
    <3>1. pools[Min(Found)] \in Pool /\ Cardinality(listed) \in 0 .. MaxPool
      BY <1>0, <1>1, <2>2, FoundFacts, ListedSize
    <3> QED BY <1>0, <2>2, <3>1 DEF PriorityRound, TypeOK
  <2> QED BY <2>1, <2>2
<1>5. TypeOK'
  BY <1>0, <1>2, <1>3, <1>4 DEF TypeOK, choiceVars, tableVars
<1>6. Table' = Table /\ Alive' = Alive
  BY <1>2 DEF Table, Alive, tableVars
<1>7. TableInv'
  BY <1>0, <1>2, <1>6 DEF TableInv, tableVars, InTable, Removing
<1>8. SelectedInv' /\ StartInv'
  BY <1>0, <1>2, <1>6 DEF SelectedInv, StartInv, tableVars, choiceVars
<1> QED BY <1>5, <1>7, <1>8 DEF Base

LEMMA RoundsDoneBase ==
    ASSUME Base, PriorityDone
    PROVE  Base'
<1>0. TypeOK /\ TableInv /\ SelectedInv
  BY DEF Base
<1>1. Operator \in Thread /\ selected[Operator] = NoPool /\ MaxPool \in Nat
  BY <1>0, Numbers, NoneSelected DEF PriorityDone
<1>2. /\ TableInv' /\ SelectedInv' /\ StartInv'
      /\ at' \in [Thread -> Step] /\ about' \in [Thread -> Pool]
      /\ selected' \in [Thread -> Pool \cup {NoPool}]
  BY <1>1, ThenGoes DEF PriorityDone, Step, Removing, choiceVars, poolVars
<1>3. TypeOK'
  BY <1>0, <1>1, <1>2 DEF PriorityDone, TypeOK, choiceVars, poolVars, tableVars
<1> QED BY <1>2, <1>3 DEF Base

----------------------------------------------------------------------------
(* What the other threads report                                           *)

LEMMA ReportGoes ==
    ASSUME Base, NEW t \in Net, NEW s \in Step, NEW p \in Alive, Go(t, s, p, NoPool),
           UNCHANGED tableVars
    PROVE  /\ TableInv' /\ SelectedInv'
           /\ at' \in [Thread -> Step] /\ about' \in [Thread -> Pool]
           /\ selected' \in [Thread -> Pool \cup {NoPool}]
           /\ at'[t] = s /\ about'[t] = p
           /\ \A u \in Thread \ {t} : at'[u] = at[u] /\ about'[u] = about[u]
<1>0. TypeOK /\ TableInv /\ SelectedInv
  BY DEF Base
<1>1. /\ p \in Pool /\ t \in Thread /\ t # Operator /\ Operator \in Thread
  BY <1>0, Numbers, PoolAssumption DEF Thread
<1>2. /\ at' \in [Thread -> Step] /\ about' \in [Thread -> Pool]
      /\ selected' \in [Thread -> Pool \cup {NoPool}]
      /\ at'[t] = s /\ about'[t] = p /\ selected'[t] = NoPool
      /\ \A u \in Thread \ {t} : at'[u] = at[u] /\ about'[u] = about[u]
                                 /\ selected'[u] = selected[u]
  BY <1>0, <1>1, GoFacts
<1>3. TableInv'
  BY <1>0, <1>1, <1>2, TableKept
<1>4. Table' = Table /\ Alive' = Alive
  BY DEF Table, Alive, tableVars
<1>5. SelectedInv'
  BY <1>0, <1>1, <1>2, <1>4 DEF SelectedInv
<1> QED BY <1>2, <1>3, <1>5

LEMMA ReportsBase ==
    ASSUME Base, NEW t \in Net, NEW p \in Created,
           PoolDied(t, p) \/ PoolAlive(t, p) \/ Rejects(t, p) \/ Accepts(t, p) \/ Rotate(t)
    PROVE  Base'
<1>0. TypeOK /\ TableInv /\ StartInv
  BY DEF Base
<1>1. p \in Alive /\ p \in Pool /\ 0 \in Alive /\ MaxPool \in Nat
  BY <1>0, Numbers DEF Created, Alive
<1>2. PICK s \in {"current", "resus", "reject", "switch"}, r \in {p, 0} :
          Go(t, s, r, NoPool)
  BY DEF PoolDied, PoolAlive, Rejects, Accepts, Rotate
<1>3. UNCHANGED <<tableVars, prio, currentpool, pool_strategy, pools_active,
                  testing, loopVars, screen>>
  BY DEF PoolDied, PoolAlive, Rejects, Accepts, Rotate, Unchoosing, poolVars, choiceVars
<1>4. pools_active
  BY DEF PoolDied, PoolAlive, Rejects, Accepts, Rotate, Reports
<1>5. /\ TableInv' /\ SelectedInv'
      /\ at' \in [Thread -> Step] /\ about' \in [Thread -> Pool]
      /\ selected' \in [Thread -> Pool \cup {NoPool}]
  BY <1>1, <1>2, <1>3, ReportGoes DEF Step
<1>6. /\ enabled' \in [Pool -> {"enabled", "disabled", "rejecting"}]
      /\ enabled_pools' \in Int
      /\ idle' \in [Pool -> BOOLEAN]
      /\ \A q \in Pool : q >= created => idle'[q]
  <2>1. CASE PoolDied(t, p) \/ PoolAlive(t, p)
    <3>1. idle' \in [Pool -> BOOLEAN] /\ \A q \in Pool : q # p => idle'[q] = idle[q]
      BY <1>0, <1>1, <2>1 DEF PoolDied, PoolAlive, TypeOK
    <3>2. \A q \in Pool : q >= created => q # p
      BY <1>0, <1>1, Numbers DEF Alive, Pool
    <3> QED BY <1>0, <2>1, <3>1, <3>2 DEF PoolDied, PoolAlive, choiceVars, TypeOK, loopVars, StartInv
  <2>2. CASE Accepts(t, p)
    BY <1>0, <1>1, <2>2 DEF Accepts, CountEnabled, TypeOK, StartInv
  <2>3. CASE Rejects(t, p) \/ Rotate(t)
    BY <1>0, <2>3 DEF Rejects, Rotate, Unchoosing, poolVars, choiceVars, TypeOK, StartInv
  <2> QED BY <2>1, <2>2, <2>3
<1>7. TypeOK'
  BY <1>0, <1>3, <1>5, <1>6 DEF TypeOK, loopVars, tableVars
<1>8. StartInv'
  BY <1>0, <1>3, <1>4, <1>6 DEF StartInv, tableVars, Alive
<1> QED BY <1>5, <1>7, <1>8 DEF Base

LEMMA TestPoolBase ==
    ASSUME Base, NEW t \in Net, NEW p \in Created, TestPool(t, p)
    PROVE  Base'
<1>0. TypeOK /\ TableInv /\ SelectedInv /\ StartInv
  BY DEF Base
<1>1. p \in Alive /\ p \in Pool /\ t \in Thread
  BY <1>0, Numbers DEF Created, Alive, Thread
<1>2. UNCHANGED <<tableVars, prio, enabled, choiceVars, loopVars, screen>>
      /\ testing' = testing \ {p} /\ at[t] = "out"
  BY DEF TestPool
<1>3. Alive' = Alive
  BY <1>2 DEF Alive, tableVars
<1>4. CASE idle' = [idle EXCEPT ![p] = FALSE] /\ Go(t, "first", p, NoPool)
  <2>1. /\ TableInv' /\ SelectedInv'
        /\ at' \in [Thread -> Step] /\ about' \in [Thread -> Pool]
        /\ selected' \in [Thread -> Pool \cup {NoPool}]
        /\ at'[t] = "first" /\ about'[t] = p
        /\ \A u \in Thread \ {t} : at'[u] = at[u] /\ about'[u] = about[u]
    BY <1>1, <1>2, <1>4, ReportGoes DEF Step
  <2>2. /\ idle' \in [Pool -> BOOLEAN] /\ testing' \subseteq Pool
        /\ \A q \in Pool : q # p => idle'[q] = idle[q]
    BY <1>0, <1>1, <1>2, <1>4 DEF TypeOK
  <2>3. TypeOK'
    BY <1>0, <1>2, <2>1, <2>2 DEF TypeOK, loopVars, tableVars, choiceVars
  <2>4. StartInv'
    <3>1. testing' \subseteq Alive'
      BY <1>0, <1>2, <1>3 DEF StartInv
    <3>2. \A q \in Pool : q >= created' => idle'[q]
      <4>1. \A q \in Pool : q >= created => q # p
        BY <1>0, <1>1, Numbers DEF Alive, Pool
      <4> QED BY <1>0, <1>2, <2>2, <4>1 DEF StartInv, tableVars
    <3>3. ASSUME ~pools_active'
          PROVE  /\ \A u \in Thread : at'[u] \in {"out", "first"}
                 /\ \A q \in Pool : ~idle'[q] =>
                        \E u \in Thread : at'[u] = "first" /\ about'[u] = q
      <4>1. /\ \A u \in Thread : at[u] \in {"out", "first"}
            /\ \A q \in Pool : ~idle[q] =>
                   \E u \in Thread : at[u] = "first" /\ about[u] = q
        BY <1>0, <1>2, <3>3 DEF StartInv, choiceVars
      <4>2. ASSUME NEW q \in Pool, ~idle'[q]
            PROVE  \E u \in Thread : at'[u] = "first" /\ about'[u] = q
        <5>1. CASE q = p
          BY <1>1, <2>1, <5>1
        <5>2. CASE q # p
          <6>1. PICK u \in Thread : at[u] = "first" /\ about[u] = q
            BY <2>2, <4>1, <4>2, <5>2
          <6> QED BY <1>2, <2>1, <6>1
        <5> QED BY <5>1, <5>2
      <4> QED BY <2>1, <4>1, <4>2
    <3> QED BY <3>1, <3>2, <3>3 DEF StartInv
  <2> QED BY <2>1, <2>3, <2>4 DEF Base
<1>5. CASE UNCHANGED <<idle, at, about, selected>>
  <2>1. TypeOK'
    BY <1>0, <1>2, <1>5 DEF TypeOK, loopVars, tableVars, choiceVars
  <2>2. TableInv'
    BY <1>0, <1>2, <1>5, TableKept
  <2>3. SelectedInv'
    BY <1>0, <1>2, <1>3, <1>5 DEF SelectedInv, Table, tableVars
  <2>4. StartInv'
    BY <1>0, <1>2, <1>3, <1>5 DEF StartInv, tableVars, choiceVars
  <2> QED BY <2>1, <2>2, <2>3, <2>4 DEF Base
<1> QED BY <1>4, <1>5 DEF TestPool

LEMMA FirstAliveBase ==
    ASSUME Base, NEW t \in Net, FirstAlive(t)
    PROVE  Base'
<1>0. TypeOK /\ TableInv /\ SelectedInv /\ StartInv
  BY DEF Base
<1>1. /\ t \in Thread /\ 0 \in Pool /\ "resus" \in Step /\ t # Operator
      /\ Operator \in Thread
  BY <1>0, Numbers, PoolAssumption DEF Thread, Step
<1>2. /\ UNCHANGED <<poolVars, enabled_pools, pool_strategy, testing, loopVars, screen>>
      /\ pools_active' = TRUE /\ at[t] = "first" /\ selected[t] = NoPool
  BY <1>0, <1>1, NoneSelected DEF FirstAlive
<1>3. /\ at' \in [Thread -> Step] /\ about' \in [Thread -> Pool]
      /\ selected' \in [Thread -> Pool \cup {NoPool}]
      /\ at'[t] = "resus" /\ about'[t] = about[t] /\ selected'[t] = selected[t]
      /\ \A u \in Thread \ {t} : at'[u] = at[u] /\ about'[u] = about[u]
                                 /\ selected'[u] = selected[u]
  BY <1>0, <1>1, ThenFacts DEF FirstAlive
<1>4. currentpool' \in Pool \cup {NoPool}
  BY <1>0, <1>1 DEF FirstAlive, TypeOK
<1>5. TypeOK'
  BY <1>0, <1>2, <1>3, <1>4 DEF TypeOK, loopVars, poolVars, tableVars
<1>6. TableInv'
  BY <1>0, <1>1, <1>2, <1>3, TableKept DEF poolVars
<1>7. Table' = Table /\ Alive' = Alive
  BY <1>2 DEF Table, Alive, poolVars, tableVars
<1>8. SelectedInv'
  BY <1>0, <1>1, <1>2, <1>3, <1>7 DEF SelectedInv
<1>9. StartInv'
  BY <1>0, <1>2, <1>7 DEF StartInv, poolVars, tableVars
<1> QED BY <1>5, <1>6, <1>8, <1>9 DEF Base

LEMMA RejectBase ==
    ASSUME Base, NEW t \in Net, reject_pool(t)
    PROVE  Base'
<1>0. TypeOK /\ TableInv /\ SelectedInv
  BY DEF Base
<1>1. /\ t \in Thread /\ at[t] = "reject" /\ selected[t] = NoPool /\ about[t] \in Pool
  BY <1>0, NoneSelected DEF Thread, reject_pool, TypeOK
<1>2. /\ TableInv' /\ SelectedInv' /\ StartInv'
      /\ at' \in [Thread -> Step] /\ about' \in [Thread -> Pool]
      /\ selected' \in [Thread -> Pool \cup {NoPool}]
  BY <1>1, ThenGoes DEF reject_pool, Step, Removing
<1>3. TypeOK'
  BY <1>0, <1>1, <1>2 DEF reject_pool, TypeOK, loopVars, CountDisabled, tableVars
<1> QED BY <1>2, <1>3 DEF Base

LEMMA ProbeBase ==
    ASSUME Base, ProbePools
    PROVE  Base'
<1>0. TypeOK /\ TableInv /\ SelectedInv /\ StartInv
  BY DEF Base
<1>1. Table \subseteq Pool /\ Table \subseteq Alive
  BY <1>0, Numbers
<1>2. testing' = Table /\ UNCHANGED <<poolVars, choiceVars, threadVars>>
  BY DEF ProbePools
<1>3. TypeOK'
  BY <1>0, <1>1, <1>2 DEF TypeOK, loopVars, poolVars, tableVars, choiceVars, threadVars
<1>4. Table' = Table /\ Alive' = Alive
  BY <1>2 DEF Table, Alive, poolVars, tableVars
<1>5. TableInv' /\ SelectedInv'
  BY <1>0, <1>2, <1>4, TableKept DEF SelectedInv, poolVars, threadVars
<1>6. StartInv'
  BY <1>0, <1>1, <1>2, <1>4 DEF StartInv, poolVars, tableVars, choiceVars, threadVars
<1> QED BY <1>3, <1>5, <1>6 DEF Base

LEMMA BaseSteps ==
    ASSUME Base, [Next]_vars
    PROVE  Base'
<1>1. CASE Next
  <2>1. currentpool # NoPool
    BY <1>1 DEF Next
  <2>2. Operator \in Thread /\ Net \subseteq Thread /\ 0 \in Created
    BY Numbers DEF Thread, Base, Created, Alive
  <2>3. CASE Operate
    BY <2>1, <2>2, <2>3, CommandBase, PriorityBase, AddBase, StrategyBase, RoundBase,
       RoundsDoneBase,
       IfNotFirstBase, SwitchBase, RemoveStartsBase, RemoveSwapBase, RemoveDropBase
       DEF Operate, RemovePool
  <2>4. ASSUME NEW t \in Net, Report(t) PROVE Base'
    BY <2>2, <2>4, ReportsBase, TestPoolBase, FirstAliveBase, RejectBase DEF Report
  <2>5. ASSUME NEW t \in Thread,
               SwitchPools(t) \/ IfCurrent(t) \/ IfHigher(t) \/ pool_resus(t)
        PROVE  Base'
    <3>1. CASE SwitchPools(t)
      BY <2>1, <3>1, SwitchBase
    <3>2. CASE ~SwitchPools(t)
      BY <2>5, <3>2, TestsBase
    <3> QED BY <3>1, <3>2

  <2>6. CASE ProbePools
    BY <2>6, ProbeBase
  <2> QED BY <1>1, <2>3, <2>4, <2>5, <2>6 DEF Next
<1>2. CASE UNCHANGED vars
  <2>1. Table' = Table /\ Alive' = Alive
    BY <1>2 DEF Table, Alive, vars, poolVars, tableVars
  <2>2. TypeOK'
    BY <1>2 DEF Base, TypeOK, loopVars, vars, poolVars, tableVars, choiceVars, threadVars
  <2>3. TableInv'
    BY <1>2, TableKept DEF Base, vars, poolVars, threadVars
  <2>4. SelectedInv' /\ StartInv'
    BY <1>2, <2>1 DEF Base, SelectedInv, StartInv, vars, poolVars, tableVars, choiceVars, threadVars
  <2> QED BY <2>2, <2>3, <2>4 DEF Base
<1> QED BY <1>1, <1>2

----------------------------------------------------------------------------
(* Each step keeps PrioInv.                                                *)

Whole == {"out", "switch", "compare", "resus", "current", "first", "reject",
          "prio0", "leave", "refuse", "disable", "renumber"}

LEMMA WholeTable ==
    ASSUME at[Operator] \in Whole
    PROVE  /\ PrioInv <=> Injective(Table) /\ {prio[p] : p \in Table} = 0 .. total_pools - 1
           /\ at[Operator] \notin {"unlisted", "swap", "drop"}
BY DEF Whole, PrioInv, Ranked, RankedSize, InTable, Table

LEMMA WholeTablePrimed ==
    ASSUME at'[Operator] \in Whole
    PROVE  PrioInv' <=> (Injective(Table) /\ {prio[p] : p \in Table} = 0 .. total_pools - 1)'
BY DEF Whole, PrioInv, Ranked, RankedSize, InTable, Table

LEMMA PriosKept ==
    ASSUME PrioInv, UNCHANGED <<tableVars, prio>>,
           \/ at'[Operator] = at[Operator] /\ about'[Operator] = about[Operator] /\ UNCHANGED loopVars
           \/ at[Operator] \in Whole /\ at'[Operator] \in Whole
    PROVE  PrioInv'
<1>1. Table' = Table /\ \A S : Injective(S)' <=> Injective(S)
  BY DEF Table, tableVars, Injective
<1>2. CASE at'[Operator] = at[Operator] /\ about'[Operator] = about[Operator] /\ UNCHANGED loopVars
  <2>1. Ranked' = Ranked /\ RankedSize' = RankedSize
    BY <1>1, <1>2 DEF Ranked, RankedSize, InTable, tableVars
  <2>2. UNCHANGED <<listed, pr, prio, total_pools>>
    BY <1>2 DEF loopVars, tableVars
  <2> QED BY <1>1, <1>2, <2>1, <2>2 DEF PrioInv, Injective
<1>3. CASE at[Operator] \in Whole /\ at'[Operator] \in Whole
  <2>1. Injective(Table)' <=> Injective(Table)
    BY <1>1 DEF Injective
  <2> QED BY <1>1, <1>3, <2>1, WholeTable, WholeTablePrimed DEF tableVars
<1> QED BY <1>2, <1>3

\* How many pools there are in the table.
LEMMA TableSize ==
    ASSUME TypeOK, TableInv, at[Operator] # "drop"
    PROVE  IsFiniteSet(Table) /\ Cardinality(Table) = total_pools
<1> DEFINE f == [i \in 0 .. total_pools - 1 |-> pools[i]]
<1>1. total_pools \in Nat \ {0}
  BY Numbers
<1>2. \A i \in 0 .. total_pools - 1 : pool_no[pools[i]] = i
  BY DEF TableInv, InTable
<1>3. ExistsBijection(0 .. total_pools - 1, Table)
  <2>1. f \in [0 .. total_pools - 1 -> Table]
    BY DEF Table
  <2>2. f \in Injection(0 .. total_pools - 1, Table)
    BY <1>2, <2>1 DEF Injection, IsInjective
  <2>3. f \in Surjection(0 .. total_pools - 1, Table)
    BY <2>1 DEF Surjection, Table
  <2> QED BY <2>2, <2>3 DEF ExistsBijection, Bijection
<1>4. IsFiniteSet(0 .. total_pools - 1) /\ Cardinality(0 .. total_pools - 1) = total_pools
  BY <1>1, FS_Interval
<1> QED BY <1>3, <1>4, FS_Bijection

\* A pool that is selected goes to the head, those before it one down.
LEMMA PromotionPermutes ==
    ASSUME TypeOK, TableInv, Injective(Table), {prio[p] : p \in Table} = 0 .. total_pools - 1,
           NEW sel \in Table, prio' = Promoted(sel), UNCHANGED tableVars
    PROVE  Injective(Table)' /\ {prio'[p] : p \in Table'} = 0 .. total_pools' - 1
<1>1. /\ Table' = Table /\ total_pools' = total_pools
  BY DEF Table, tableVars
<1>2. /\ total_pools \in Nat \ {0} /\ sel # NoPool /\ Table \subseteq Pool
      /\ \A p \in Table : prio[p] \in 0 .. total_pools - 1
  BY Numbers
<1>3. \A p \in Table : prio'[p] = IF p = sel THEN 0
                                  ELSE IF prio[p] < prio[sel] THEN prio[p] + 1 ELSE prio[p]
  BY <1>2 DEF Promoted
<1>4. \A p \in Table : p # sel => prio[p] # prio[sel]
  BY DEF Injective
<1>5. \A p, q \in Table : prio'[p] = prio'[q] => p = q
  <2> SUFFICES ASSUME NEW p \in Table, NEW q \in Table, prio'[p] = prio'[q] PROVE p = q
    OBVIOUS
  <2>1. p = sel => q = sel
    BY <1>2, <1>3, <1>4
  <2>2. q = sel => p = sel
    BY <1>2, <1>3, <1>4
  <2>3. CASE p # sel /\ q # sel
    <3>1. prio[p] = prio[q]
      BY <1>2, <1>3, <1>4, <2>3
    <3> QED BY <3>1 DEF Injective
  <2> QED BY <2>1, <2>2, <2>3
<1>6. \A p \in Table : prio'[p] \in 0 .. total_pools - 1
  BY <1>2, <1>3
<1>7. ASSUME NEW k \in 0 .. total_pools - 1
      PROVE  \E p \in Table : prio'[p] = k
  <2>1. CASE k = 0
    BY <1>3, <2>1
  <2>2. CASE k # 0 /\ k <= prio[sel]
    <3>1. k - 1 \in 0 .. total_pools - 1
      BY <1>2, <2>2
    <3>2. PICK p \in Table : prio[p] = k - 1
      BY <3>1
    <3> QED BY <1>2, <1>3, <2>2, <3>2
  <2>3. CASE k > prio[sel]
    <3>1. PICK p \in Table : prio[p] = k
      OBVIOUS
    <3> QED BY <1>2, <1>3, <2>3, <3>1
  <2> QED BY <1>2, <2>1, <2>2, <2>3
<1> QED BY <1>1, <1>5, <1>6, <1>7 DEF Injective

LEMMA SwitchPrio ==
    ASSUME Base, PrioInv, NEW t \in Thread, Switch(t),
           t = Operator => at[Operator] \in Whole /\ at'[Operator] \in Whole,
           t # Operator => at'[Operator] = at[Operator] /\ about'[Operator] = about[Operator]
    PROVE  PrioInv'
<1>0. TypeOK /\ TableInv /\ SelectedInv
  BY DEF Base
<1>1. prio' = Promoted(selected[t]) /\ UNCHANGED <<tableVars, loopVars>>
  BY DEF Switch
<1>2. CASE selected[t] = NoPool
  <2>1. prio' = prio
    BY <1>1, <1>2 DEF Promoted
  <2> QED BY <1>1, <2>1, PriosKept
<1>3. CASE selected[t] # NoPool
  <2>1. t = Operator /\ selected[t] \in Table
    BY <1>0, <1>3 DEF SelectedInv
  <2>2. Injective(Table) /\ {prio[p] : p \in Table} = 0 .. total_pools - 1
    BY <2>1, WholeTable
  <2>3. Injective(Table)' /\ {prio'[p] : p \in Table'} = 0 .. total_pools' - 1
    BY <1>0, <1>1, <2>1, <2>2, PromotionPermutes
  <2> QED BY <2>1, <2>3, WholeTablePrimed
<1> QED BY <1>2, <1>3

LEMMA AddPrio ==
    ASSUME Base, PrioInv, AddCommand
    PROVE  PrioInv'
<1>0. TypeOK /\ TableInv
  BY DEF Base
<1>1. /\ total_pools \in Nat \ {0} /\ total_pools <= created /\ created \in Pool
      /\ total_pools \in 0 .. MaxPool /\ Table \subseteq Alive /\ Alive \subseteq Pool
      /\ created \in Nat
  BY <1>0, Numbers DEF AddCommand, Pool
<1>2. /\ pools' = [pools EXCEPT ![total_pools] = created]
      /\ prio' = [prio EXCEPT ![created] = total_pools]
      /\ total_pools' = total_pools + 1 /\ at' = at /\ at[Operator] = "out"
  BY DEF AddCommand, threadVars, Begins
<1>3. Injective(Table) /\ {prio[p] : p \in Table} = 0 .. total_pools - 1
  BY <1>2, WholeTable DEF Whole
<1>4. Table' = Table \cup {created} /\ created \notin Table
  <2>1. created \notin Table
    BY <1>1 DEF Alive
  <2>2. \A i \in 0 .. total_pools - 1 : pools'[i] = pools[i]
    BY <1>0, <1>1, <1>2 DEF TypeOK
  <2>3. pools'[total_pools] = created
    BY <1>0, <1>1, <1>2 DEF TypeOK
  <2>4. \A i \in 0 .. total_pools' - 1 : i \in 0 .. total_pools - 1 \/ i = total_pools
    BY <1>1, <1>2
  <2>5. total_pools \in 0 .. total_pools' - 1
        /\ \A i \in 0 .. total_pools - 1 : i \in 0 .. total_pools' - 1
    BY <1>1, <1>2
  <2> QED BY <2>1, <2>2, <2>3, <2>4, <2>5 DEF Table
<1>5. prio'[created] = total_pools /\ \A p \in Table : prio'[p] = prio[p]
  BY <1>0, <1>1, <1>2, <1>4 DEF TypeOK
<1>6. Injective(Table)'
  BY <1>1, <1>3, <1>4, <1>5 DEF Injective
<1>7. {prio'[p] : p \in Table'} = 0 .. total_pools' - 1
  <2>1. {prio'[p] : p \in Table'} = (0 .. total_pools - 1) \cup {total_pools}
    BY <1>3, <1>4, <1>5
  <2> QED BY <1>1, <1>2, <2>1
<1> QED BY <1>2, <1>6, <1>7, WholeTablePrimed DEF Whole

LEMMA RenumberPrio ==
    ASSUME Base, PrioInv, RemoveRenumber
    PROVE  PrioInv'
<1> DEFINE p == about[Operator]
<1>0. TypeOK /\ TableInv
  BY DEF Base
<1>1. /\ total_pools \in Nat \ {0} /\ Table \subseteq Pool /\ Operator \in Thread
      /\ 0 \in Pool /\ "swap" \in Step
  BY <1>0, Numbers DEF Step
<1>2. /\ at[Operator] = "renumber" /\ p \in Table /\ total_pools > 1
      /\ UNCHANGED tableVars
  BY <1>0 DEF RemoveRenumber, TableInv, Removing
<1>3. at'[Operator] = "swap" /\ about'[Operator] = p
  BY <1>0, <1>1, ThenFacts DEF RemoveRenumber
<1>4. Injective(Table) /\ {prio[q] : q \in Table} = 0 .. total_pools - 1
  BY <1>2, WholeTable DEF Whole
<1>5. \A q \in Table : prio'[q] = IF prio[q] > prio[p] THEN prio[q] - 1 ELSE prio[q]
  BY <1>1 DEF RemoveRenumber
<1>6. Ranked' = Table \ {p} /\ RankedSize' = total_pools - 1
  BY <1>2, <1>3 DEF Ranked, RankedSize, Table, tableVars
<1>7. \A q \in Table : prio[q] \in 0 .. total_pools - 1
  BY <1>4
<1>8. \A q \in Table : q # p => prio[q] # prio[p]
  BY <1>2, <1>4 DEF Injective
<1>9. Injective(Ranked)'
  <2> SUFFICES ASSUME NEW q \in Table \ {p}, NEW r \in Table \ {p}, prio'[q] = prio'[r]
               PROVE  q = r
    BY <1>6 DEF Injective
  <2>1. prio[q] = prio[r]
    BY <1>2, <1>5, <1>7, <1>8
  <2> QED BY <1>4, <2>1 DEF Injective
<1>10. {prio'[q] : q \in Table \ {p}} = 0 .. total_pools - 2
  <2>1. \A q \in Table \ {p} : prio'[q] \in 0 .. total_pools - 2
    BY <1>1, <1>2, <1>5, <1>7, <1>8
  <2>2. ASSUME NEW k \in 0 .. total_pools - 2
        PROVE  \E q \in Table \ {p} : prio'[q] = k
    <3>1. CASE k < prio[p]
      <4>1. PICK q \in Table : prio[q] = k
        BY <1>1, <1>4
      <4> QED BY <1>2, <1>5, <1>7, <3>1, <4>1
    <3>2. CASE k >= prio[p]
      <4>1. k + 1 \in 0 .. total_pools - 1
        BY <1>1
      <4>2. PICK q \in Table : prio[q] = k + 1
        BY <1>4, <4>1
      <4> QED BY <1>2, <1>5, <1>7, <3>2, <4>2
    <3> QED BY <1>2, <1>7, <3>1, <3>2
  <2> QED BY <2>1, <2>2
<1>11. {prio'[q] : q \in Ranked'} = 0 .. RankedSize' - 1
  BY <1>1, <1>6, <1>10
<1> QED BY <1>3, <1>9, <1>11 DEF PrioInv

\* The pools that remain are the entries but the last, before and after.
LEMMA SwapPrio ==
    ASSUME Base, PrioInv, RemoveSwap
    PROVE  PrioInv'
<1> DEFINE p == about[Operator]
           n == pool_no[p]
           last == pools[total_pools - 1]
<1>0. TypeOK /\ TableInv
  BY DEF Base
<1>1. /\ total_pools \in Nat \ {0} /\ total_pools <= MaxPool /\ MaxPool \in Nat
      /\ Operator \in Thread /\ 0 \in Pool /\ "drop" \in Step
  BY <1>0, Numbers DEF Step
<1>2. /\ at[Operator] = "swap" /\ p \in Table /\ total_pools > 1
      /\ InTable = total_pools
  BY <1>0 DEF RemoveSwap, TableInv, Removing, InTable
<1>3. /\ n \in 0 .. total_pools - 1 /\ pools[n] = p
      /\ \A i \in 0 .. total_pools - 1 : pool_no[pools[i]] = i
  BY <1>0, <1>2 DEF TableInv, Table
<1>4. at'[Operator] = "drop"
  BY <1>0, <1>1, ThenFacts DEF RemoveSwap
<1>5. /\ total_pools' = total_pools /\ prio' = prio
      /\ IF p = last THEN pools' = pools ELSE pools' = [pools EXCEPT ![n] = last]
  BY DEF RemoveSwap
<1>6. {pools'[i] : i \in 0 .. total_pools - 2} = Table \ {p}
  <2>1. \A i \in 0 .. total_pools - 1 : i # n => pools[i] # p
    BY <1>3
  <2>2. CASE p = last
    <3>1. n = total_pools - 1
      BY <1>1, <1>3, <2>2
    <3> QED BY <1>1, <1>5, <2>1, <2>2, <3>1 DEF Table
  <2>3. CASE p # last
    <3>1. n # total_pools - 1 /\ n \in 0 .. MaxPool /\ n \in 0 .. total_pools - 2
      BY <1>1, <1>3, <2>3
    <3>2. /\ pools'[n] = last
          /\ \A i \in 0 .. total_pools - 1 : i # n => pools'[i] = pools[i]
      BY <1>0, <1>1, <1>5, <2>3, <3>1 DEF TypeOK
    <3>3. last \in Table
      BY <1>1 DEF Table
    <3>4. \A i \in 0 .. total_pools - 2 : pools'[i] \in Table \ {p}
      BY <1>1, <2>1, <2>3, <3>2, <3>3 DEF Table
    <3>5. ASSUME NEW q \in Table \ {p}
          PROVE  \E i \in 0 .. total_pools - 2 : pools'[i] = q
      <4>1. PICK i \in 0 .. total_pools - 1 : pools[i] = q
        BY DEF Table
      <4>2. i # n
        BY <1>3, <4>1
      <4>3. CASE i = total_pools - 1
        BY <3>1, <3>2, <4>1, <4>3
      <4>4. CASE i # total_pools - 1
        BY <1>1, <3>2, <4>1, <4>2, <4>4
      <4> QED BY <4>3, <4>4
    <3> QED BY <3>4, <3>5
  <2> QED BY <2>2, <2>3
<1>7. Ranked' = Ranked /\ RankedSize' = RankedSize
  <2>1. Ranked' = {pools'[i] : i \in 0 .. total_pools - 2}
    BY <1>1, <1>4, <1>5 DEF Ranked, InTable
  <2> QED BY <1>2, <1>4, <1>5, <1>6, <2>1 DEF Ranked, RankedSize
<1> QED BY <1>2, <1>4, <1>5, <1>7 DEF PrioInv, Injective

LEMMA DropPrio ==
    ASSUME Base, PrioInv, RemoveDrop
    PROVE  PrioInv'
<1>0. TypeOK /\ TableInv
  BY DEF Base
<1>1. Operator \in Thread /\ 0 \in Pool /\ "out" \in Step
  BY <1>0, Numbers DEF Step
<1>2. at[Operator] = "drop" /\ at'[Operator] = "out"
  BY <1>0, <1>1, ThenFacts DEF RemoveDrop
<1>3. total_pools' = total_pools - 1 /\ pools' = pools /\ prio' = prio
  BY DEF RemoveDrop
<1>4. Ranked' = Ranked /\ RankedSize' = RankedSize
  BY <1>2, <1>3 DEF Ranked, RankedSize, InTable
<1> QED BY <1>2, <1>3, <1>4 DEF PrioInv, Injective

LEMMA PriorityPrio ==
    ASSUME Base, PrioInv, NEW order \in Orders, PriorityCommand(order)
    PROVE  PrioInv'
<1>0. TypeOK /\ TableInv
  BY DEF Base
<1>1. /\ total_pools \in Nat \ {0} /\ Table \subseteq Pool /\ Operator \in Thread
      /\ 0 \in Pool /\ "unlisted" \in Step
  BY <1>0, Numbers DEF Step
<1>2. PICK m \in 1 .. total_pools :
         /\ order \in [1 .. m -> Table]
         /\ \A p : Contains(order, p) <=> p \in ToSet(order)
         /\ ToSet(order) = {order[i] : i \in 1 .. m}
         /\ \A i, j \in 1 .. m : order[i] = order[j] => i = j
         /\ \A i \in 1 .. m : (CHOOSE k \in DOMAIN order : order[k] = order[i]) = i
         /\ IsFiniteSet(ToSet(order)) /\ Cardinality(ToSet(order)) = m
  BY <1>1, OrderFacts DEF Orders
<1>3. /\ listed' = ToSet(order) /\ pr' = 0 /\ UNCHANGED tableVars /\ at[Operator] = "out"
      /\ prio' = [p \in Pool |-> IF Contains(order, p)
                                 THEN (CHOOSE n \in DOMAIN order : order[n] = p) - 1
                                 ELSE prio[p]]
  BY DEF PriorityCommand, Begins
<1>4. at'[Operator] = "unlisted"
  BY <1>0, <1>1, GoFacts DEF PriorityCommand
<1>5. Table' = Table /\ listed' \subseteq Table
  BY <1>2, <1>3 DEF Table, tableVars
<1>6. \A i \in 1 .. m : order[i] \in Pool /\ Contains(order, order[i])
  BY <1>1, <1>2
<1>7. \A i \in 1 .. m : prio'[order[i]] = i - 1
  BY <1>2, <1>3, <1>6
<1>8. \A p \in Table \ listed' : prio'[p] = prio[p]
  BY <1>1, <1>2, <1>3
<1>9. Injective(Table) /\ {prio[p] : p \in Table} = 0 .. total_pools - 1
  BY <1>3, WholeTable DEF Whole
<1>10. (Injective(Table \ listed))'
  BY <1>5, <1>8, <1>9 DEF Injective
<1>11. \A p, q \in listed' : prio'[p] = prio'[q] => p = q
  <2> SUFFICES ASSUME NEW i \in 1 .. m, NEW j \in 1 .. m, prio'[order[i]] = prio'[order[j]]
               PROVE  order[i] = order[j]
    BY <1>2, <1>3
  <2> QED BY <1>7
<1>12. {prio'[p] : p \in listed'} = 0 .. Cardinality(listed') - 1
  <2>1. \A p \in listed' : prio'[p] \in 0 .. m - 1
    BY <1>2, <1>3, <1>7
  <2>2. \A k \in 0 .. m - 1 : \E p \in listed' : prio'[p] = k
    <3> SUFFICES ASSUME NEW k \in 0 .. m - 1 PROVE \E p \in listed' : prio'[p] = k
      OBVIOUS
    <3>1. k + 1 \in 1 .. m /\ (k + 1) - 1 = k
      OBVIOUS
    <3>2. order[k + 1] \in listed' /\ prio'[order[k + 1]] = k
      BY <1>2, <1>3, <1>7, <3>1
    <3> QED BY <3>2
  <2>3. {prio'[p] : p \in listed'} = 0 .. m - 1
    BY <2>1, <2>2
  <2>4. Cardinality(listed') = m
    BY <1>2, <1>3
  <2> QED BY <2>3, <2>4
<1>13. \A p \in Table' \ listed' : prio'[p] \in pr' .. total_pools' - 1
  BY <1>3, <1>5, <1>8, <1>9 DEF tableVars
<1> QED BY <1>4, <1>5, <1>10, <1>11, <1>12, <1>13 DEF PrioInv, Injective

LEMMA RoundPrio ==
    ASSUME Base, PrioInv, PriorityRound
    PROVE  PrioInv'
<1>0. TypeOK /\ TableInv
  BY DEF Base
<1>1. /\ total_pools \in Nat /\ Table \subseteq Pool
      /\ IsFiniteSet(listed) /\ Cardinality(listed) \in Nat
  BY <1>0, Numbers, ListedSize
<1>2. /\ at[Operator] = "unlisted" /\ at'[Operator] = "unlisted"
      /\ pr \in Nat /\ pr' = pr + 1 /\ UNCHANGED tableVars
  BY <1>0 DEF PriorityRound, TypeOK
<1>3. Table' = Table /\ total_pools' = total_pools
  BY <1>2 DEF Table, tableVars
<1>4. /\ listed \subseteq Table /\ Injective(listed) /\ Injective(Table \ listed)
      /\ {prio[p] : p \in listed} = 0 .. Cardinality(listed) - 1
      /\ \A p \in Table \ listed : prio[p] \in pr .. total_pools - 1
  BY <1>2 DEF PrioInv
<1>5. CASE Found = {}
  <2>1. prio' = prio /\ listed' = listed
    BY <1>5 DEF PriorityRound
  <2>2. \A p \in Table \ listed : prio[p] # pr
    BY <1>5 DEF Found, Table
  <2>3. \A p \in Table \ listed : prio[p] \in pr + 1 .. total_pools - 1
    BY <1>1, <1>2, <1>4, <2>2
  <2> QED BY <1>2, <1>3, <1>4, <2>1, <2>3 DEF PrioInv, Injective
<1>6. CASE Found # {}
  <2> DEFINE f == pools[Min(Found)]
             c == Cardinality(listed)
  <2>1. f \in Table \ listed /\ prio[f] = pr /\ f \in Pool
    BY <1>0, <1>1, <1>6, FoundFacts
  <2>2. /\ prio' = [prio EXCEPT ![f] = c] /\ listed' = listed \cup {f}
      BY <1>6 DEF PriorityRound
  <2>3. Cardinality(listed') = c + 1
    BY <1>1, <2>1, <2>2, FS_AddElement
  <2> HIDE DEF f, c
  <2>4. prio'[f] = c /\ \A p \in Pool : p # f => prio'[p] = prio[p]
    BY <1>0, <2>1, <2>2 DEF TypeOK
  <2>5. \A p \in listed : prio'[p] = prio[p] /\ prio[p] \in 0 .. c - 1
    BY <1>1, <1>4, <2>1, <2>4 DEF c
  <2>6. c \in Nat
    BY <1>1 DEF c
  <2>7. \A p, q \in listed' : prio'[p] = prio'[q] => p = q
    <3> SUFFICES ASSUME NEW p \in listed', NEW q \in listed', prio'[p] = prio'[q] PROVE p = q
      OBVIOUS
    <3>1. CASE p \in listed /\ q \in listed
      BY <1>4, <2>5, <3>1 DEF Injective
    <3>2. CASE p = f \/ q = f
      BY <2>2, <2>4, <2>5, <2>6, <3>2
    <3> QED BY <2>2, <3>1, <3>2
  <2>8. {prio'[p] : p \in listed'} = 0 .. c
    <3>1. \A p \in listed' : prio'[p] \in 0 .. c
      BY <2>2, <2>4, <2>5, <2>6
    <3>2. ASSUME NEW k \in 0 .. c PROVE \E p \in listed' : prio'[p] = k
      <4>1. CASE k = c
        BY <2>2, <2>4, <4>1
      <4>2. CASE k # c
        <5>1. k \in 0 .. c - 1
          BY <2>6, <4>2
        <5>2. PICK p \in listed : prio[p] = k
          BY <1>4, <5>1 DEF c
        <5> QED BY <2>2, <2>5, <5>2
      <4> QED BY <4>1, <4>2
    <3> QED BY <3>1, <3>2
  <2>9. ASSUME NEW p \in Table \ listed' PROVE prio'[p] = prio[p] /\ prio[p] \in pr + 1 .. total_pools - 1
    <3>1. p \in Table \ listed /\ p # f /\ p \in Pool
      BY <1>1, <2>2
    <3>2. prio[p] # pr
      BY <1>4, <2>1, <3>1 DEF Injective
    <3> QED BY <1>1, <1>2, <1>4, <2>4, <3>1, <3>2
  <2>10. \A p, q \in Table \ listed' : prio'[p] = prio'[q] => p = q
    BY <1>4, <2>2, <2>9 DEF Injective
  <2>11. listed' \subseteq Table
    BY <1>4, <2>1, <2>2
  <2>12. {prio'[p] : p \in listed'} = 0 .. Cardinality(listed') - 1
    BY <2>3, <2>6, <2>8
  <2> QED BY <1>2, <1>3, <2>7, <2>9, <2>10, <2>11, <2>12 DEF PrioInv, Injective
<1> QED BY <1>5, <1>6

LEMMA AllListed ==
    ASSUME TypeOK, TableInv, PrioInv, PriorityDone
    PROVE  listed = Table
<1>1. total_pools \in Nat /\ pr = total_pools /\ at[Operator] = "unlisted"
  BY Numbers DEF PriorityDone
<1> QED BY <1>1 DEF PrioInv

LEMMA RoundsDonePrio ==
    ASSUME Base, PrioInv, PriorityDone
    PROVE  PrioInv'
<1>0. TypeOK /\ TableInv
  BY DEF Base
<1>1. Operator \in Thread /\ 0 \in Pool /\ "prio0" \in Step
  BY <1>0, Numbers DEF Step
<1>2. at[Operator] = "unlisted" /\ at'[Operator] = "prio0" /\ UNCHANGED <<tableVars, prio>>
  BY <1>0, <1>1, ThenFacts DEF PriorityDone, poolVars
<1>3. listed = Table /\ Cardinality(Table) = total_pools
  BY <1>0, <1>2, AllListed, TableSize
<1>4. Injective(Table) /\ {prio[p] : p \in Table} = 0 .. total_pools - 1
  BY <1>2, <1>3 DEF PrioInv
<1>5. Table' = Table /\ total_pools' = total_pools
  BY <1>2 DEF Table, tableVars
<1> QED BY <1>2, <1>4, <1>5, WholeTablePrimed DEF Whole, Injective

\* The other threads stay where they are.
LEMMA OthersStay ==
    ASSUME TypeOK, NEW t \in Thread, NEW u \in Thread \ {t},
           \/ \E s, p, sel : Go(t, s, p, sel)
           \/ \E s : Then(t, s)
           \/ UNCHANGED <<at, about>>
    PROVE  at'[u] = at[u] /\ about'[u] = about[u]
BY DEF TypeOK, Go, Then

LEMMA ReportMoves ==
    ASSUME NEW t \in Net, Report(t)
    PROVE  /\ \/ \E s, p, sel : Go(t, s, p, sel)
              \/ \E s : Then(t, s)
              \/ UNCHANGED <<at, about>>
           /\ UNCHANGED <<tableVars, prio, loopVars>>
<1>1. CASE \E p \in Created : PoolDied(t, p) \/ PoolAlive(t, p)
  BY <1>1 DEF PoolDied, PoolAlive
<1>2. CASE \E p \in Created : TestPool(t, p)
  BY <1>2 DEF TestPool
<1>3. CASE \E p \in Created : Rejects(t, p) \/ Accepts(t, p)
  BY <1>3 DEF Rejects, Accepts, Unchoosing, poolVars
<1>4. CASE Rotate(t)
  BY <1>4 DEF Rotate, Unchoosing, poolVars
<1>5. CASE FirstAlive(t)
  BY <1>5 DEF FirstAlive, poolVars
<1>6. CASE reject_pool(t)
  BY <1>6 DEF reject_pool
<1> QED BY <1>1, <1>2, <1>3, <1>4, <1>5, <1>6 DEF Report

LEMMA TestMoves ==
    ASSUME NEW t \in Thread, IfCurrent(t) \/ IfHigher(t) \/ pool_resus(t)
    PROVE  /\ at[t] \in {"current", "compare", "resus"}
           /\ Then(t, "switch") \/ Then(t, "out")
           /\ UNCHANGED <<poolVars, choiceVars, testing, loopVars, screen>>
BY DEF IfCurrent, IfHigher, pool_resus, Unchoosing

LEMMA PrioSteps ==
    ASSUME Base, PrioInv, [Next]_vars
    PROVE  PrioInv'
<1>0. TypeOK /\ TableInv
  BY DEF Base
<1>1. Operator \in Thread /\ 0 \in Pool /\ Table \subseteq Pool /\ Operator \notin Net
  BY <1>0, Numbers, PoolAssumption
<1>2. ASSUME NEW p \in Table,
             SwitchCommand(p) \/ EnableCommand(p) \/ DisableCommand(p) \/ RemoveCommand(p)
      PROVE  PrioInv'
  <2>1. UNCHANGED <<tableVars, prio>> /\ at[Operator] = "out"
    BY <1>2 DEF SwitchCommand, EnableCommand, DisableCommand, RemoveCommand, Begins, poolVars
  <2>2. PICK s \in {"switch", "compare", "current", "leave", "refuse"}, sel \in {p, NoPool} :
            Go(Operator, s, p, sel)
    BY <1>2 DEF SwitchCommand, EnableCommand, DisableCommand, RemoveCommand
  <2>3. at'[Operator] = s
    BY <1>0, <1>1, <2>2 DEF Go, TypeOK
  <2> QED BY <2>1, <2>3, PriosKept DEF Whole
<1>3. CASE StrategyCommand
  <2>1. UNCHANGED <<tableVars, prio>> /\ at[Operator] = "out"
    BY <1>3 DEF StrategyCommand, Begins, poolVars
  <2>2. at'[Operator] = "switch"
    BY <1>0, <1>1, <1>3 DEF StrategyCommand, Go, TypeOK
  <2> QED BY <2>1, <2>2, PriosKept DEF Whole
<1>4. CASE IfNotFirst \/ RemoveRefused \/ RemoveBegun
  <2>1. UNCHANGED <<tableVars, prio>> /\ at[Operator] \in {"prio0", "refuse", "disable"}
    BY <1>4 DEF IfNotFirst, RemoveRefused, RemoveBegun, Unchoosing, poolVars, loopVars
  <2>2. PICK s \in {"switch", "out", "disable", "renumber"} : Then(Operator, s)
    BY <1>4 DEF IfNotFirst, RemoveRefused, RemoveBegun
  <2>3. at'[Operator] = s
    BY <1>0, <1>1, <2>2 DEF Then, Go, TypeOK
  <2> QED BY <2>1, <2>3, PriosKept DEF Whole
<1>5. CASE RemoveLeave
  <2>1. at[Operator] = "leave" /\ Switch(Operator) /\ at'[Operator] = "refuse"
    BY <1>0, <1>1, <1>5 DEF RemoveLeave, Then, TypeOK
  <2> QED BY <1>1, <2>1, SwitchPrio DEF Whole
<1>6. CASE Operate
  BY <1>2, <1>3, <1>4, <1>5, <1>6, AddPrio, PriorityPrio, RoundPrio, RoundsDonePrio,
     RenumberPrio,
     SwapPrio, DropPrio DEF Operate, RemovePool
<1>7. ASSUME NEW t \in Net, Report(t) PROVE PrioInv'
  <2>1. t \in Thread /\ t # Operator
    BY <1>1 DEF Thread
  <2>2. at'[Operator] = at[Operator] /\ about'[Operator] = about[Operator]
    BY <1>0, <1>1, <1>7, <2>1, ReportMoves, OthersStay
  <2> QED BY <1>7, <2>2, ReportMoves, PriosKept
<1>8. ASSUME NEW t \in Thread, IfCurrent(t) \/ IfHigher(t) \/ pool_resus(t)
      PROVE  PrioInv'
  <2>1. /\ at[t] \in {"current", "compare", "resus"}
        /\ Then(t, "switch") \/ Then(t, "out")
        /\ UNCHANGED <<tableVars, prio, loopVars>>
    BY <1>8, TestMoves DEF poolVars
  <2>2. CASE t # Operator
    <3>1. at'[Operator] = at[Operator] /\ about'[Operator] = about[Operator]
      BY <1>0, <1>1, <2>1, <2>2, OthersStay
    <3> QED BY <2>1, <3>1, PriosKept
  <2>3. CASE t = Operator
    <3>1. at'[Operator] \in {"switch", "out"}
      BY <1>0, <2>1, <2>3 DEF Then, Go, TypeOK
    <3> QED BY <2>1, <2>3, <3>1, PriosKept DEF Whole
  <2> QED BY <2>2, <2>3
<1>9. ASSUME NEW t \in Thread, SwitchPools(t) PROVE PrioInv'
  <2>1. at[t] = "switch" /\ Switch(t) /\ Then(t, "out")
    BY <1>9 DEF SwitchPools
  <2>2. t # Operator => at'[Operator] = at[Operator] /\ about'[Operator] = about[Operator]
    BY <1>0, <1>1, <2>1, OthersStay
  <2>3. t = Operator => at'[Operator] = "out"
    BY <1>0, <2>1 DEF Then, Go, TypeOK
  <2> QED BY <2>1, <2>2, <2>3, SwitchPrio DEF Whole
<1>10. CASE ProbePools
  BY <1>10, PriosKept DEF ProbePools, poolVars, threadVars
<1>11. CASE UNCHANGED vars
  BY <1>11, PriosKept DEF vars, poolVars, threadVars
<1> QED BY <1>6, <1>7, <1>8, <1>9, <1>10, <1>11 DEF Next

----------------------------------------------------------------------------
(* Each step keeps DebtInv.                                                *)

\* While no pool has been removed, the table holds every pool in its place.
LEMMA NoRemovalTable ==
    ASSUME TypeOK, TableInv, NoRemoval
    PROVE  /\ Table = Alive /\ \A i \in 0 .. total_pools - 1 : pool_no[pools[i]] = i
           /\ \A p \in Table : pool_no[p] \in 0 .. total_pools - 1 /\ pools[pool_no[p]] = p
<1>1. total_pools \in Nat \ {0} /\ total_pools = created /\ InTable = total_pools
  BY Numbers DEF TableInv, NoRemoval, InTable
<1>2. \A i \in 0 .. created - 1 : pools[i] = i
  BY DEF TableInv, NoRemoval
<1>3. \A i \in 0 .. total_pools - 1 : pool_no[pools[i]] = i
  BY <1>1 DEF TableInv
<1> QED BY <1>1, <1>2, <1>3 DEF Table, Alive

\* switch_pools chooses an entry of the table.
LEMMA ChoiceInTable ==
    ASSUME TypeOK, TableInv, NoRemoval, currentpool \in Table, NEW prios,
           NEW sel \in Table \cup {NoPool}
    PROVE  pools[Choice(prios, sel)] \in Table
<1>1. /\ \A p \in Table : pool_no[p] \in 0 .. total_pools - 1 /\ pools[pool_no[p]] = p
  BY NoRemovalTable
<1>2. total_pools \in Nat \ {0} /\ Table \subseteq Pool /\ NoPool \notin Pool
  BY Numbers
<1>3. pools[ByPriority(prios)] \in Table
  <2> DEFINE usable == {i \in 0 .. total_pools - 1 : ~pool_unusable(priority_pool(prios, i))}
  <2>1. CASE usable = {}
    BY <1>1, <2>1 DEF ByPriority
  <2>2. CASE usable # {}
    <3>1. usable \in SUBSET Nat
      BY <1>2
    <3>2. Min(usable) \in usable
      BY <2>2, <3>1, MinFacts
    <3>3. priority_pool(prios, Min(usable)) \in Table
      BY <3>2, PriorityPoolFacts
    <3>4. ByPriority(prios) = pool_no[priority_pool(prios, Min(usable))]
      BY <2>2 DEF ByPriority
    <3> QED BY <1>1, <3>3, <3>4
  <2> QED BY <2>1, <2>2
<1>4. pools[ByRotation(sel)] \in Table
  <2> DEFINE usable == {k \in 1 .. total_pools - 1 : ~pool_unusable(pools[After(k)])}
  <2>1. CASE sel # NoPool /\ ~idle[sel]
    BY <1>1, <2>1 DEF ByRotation
  <2>2. CASE ~(sel # NoPool /\ ~idle[sel]) /\ usable = {}
    BY <1>1, <2>2 DEF ByRotation
  <2>3. CASE ~(sel # NoPool /\ ~idle[sel]) /\ usable # {}
    <3>1. usable \in SUBSET Nat
      BY <1>2
    <3>2. Min(usable) \in usable
      BY <2>3, <3>1, MinFacts
    <3>3. After(Min(usable)) \in 0 .. total_pools - 1
      BY <1>2, <3>2, AfterFacts
    <3>4. ByRotation(sel) = After(Min(usable))
      BY <2>3 DEF ByRotation
    <3> QED BY <3>3, <3>4 DEF Table
  <2> QED BY <2>1, <2>2, <2>3
<1> QED BY <1>3, <1>4 DEF Choice

\* By priorities that are a permutation it is the best that can be used.
LEMMA ChoiceIsBest ==
    ASSUME TypeOK, TableInv, NoRemoval, currentpool \in Table, NEW prios,
           \A p, q \in Table : prios[p] = prios[q] => p = q,
           {prios[p] : p \in Table} = 0 .. total_pools - 1,
           NEW p \in Table, ~pool_unusable(p)
    PROVE  prios[pools[ByPriority(prios)]] <= prios[p]
<1> DEFINE usable == {i \in 0 .. total_pools - 1 : ~pool_unusable(priority_pool(prios, i))}
<1>1. /\ \A q \in Table : pool_no[q] \in 0 .. total_pools - 1 /\ pools[pool_no[q]] = q
  BY NoRemovalTable
<1>2. total_pools \in Nat \ {0}
  BY Numbers
<1>3. ASSUME NEW q \in Table
      PROVE  priority_pool(prios, prios[q]) = q
  <2> DEFINE found == {i \in 0 .. total_pools - 1 : prios[pools[i]] = prios[q]}
  <2>1. pool_no[q] \in found
    BY <1>1
  <2>2. found \in SUBSET Nat /\ found # {}
    BY <1>2, <2>1
  <2>3. Min(found) \in found
    BY <2>2, MinFacts
  <2>4. pools[Min(found)] \in Table /\ prios[pools[Min(found)]] = prios[q]
    BY <2>3 DEF Table
  <2> QED BY <2>2, <2>4 DEF priority_pool
<1>4. prios[p] \in usable
  BY <1>3
<1>5. usable \in SUBSET Nat /\ usable # {}
  BY <1>2, <1>4
<1>6. Min(usable) \in usable /\ Min(usable) <= prios[p]
  BY <1>4, <1>5, MinFacts
<1>7. PICK q \in Table : prios[q] = Min(usable)
  BY <1>6
<1>8. pools[ByPriority(prios)] = q
  BY <1>1, <1>3, <1>5, <1>7 DEF ByPriority
<1> QED BY <1>6, <1>7, <1>8

LEMMA NoRemovalBefore ==
    ASSUME Base, Next, NoRemoval'
    PROVE  NoRemoval
<1>0. TypeOK /\ TableInv /\ Operator \in Thread /\ Operator \notin Net
      /\ "swap" \in Step /\ "drop" \in Step /\ "out" \in Step /\ 0 \in Pool
  BY Numbers, PoolAssumption DEF Base, Step
<1>1. CASE Operate
  <2>1. CASE at[Operator] = "renumber"
    <3>1. RemoveRenumber
      BY <1>1, <2>1 DEF Operate, SwitchCommand, EnableCommand, DisableCommand, RemoveCommand,
         PriorityCommand, AddCommand, StrategyCommand, Begins, PriorityRound, PriorityDone,
         IfNotFirst,
         RemovePool, RemoveLeave, RemoveRefused, RemoveBegun, RemoveSwap, RemoveDrop
    <3> QED BY <1>0, <3>1 DEF RemoveRenumber, Then, TypeOK, NoRemoval
  <2>2. CASE at[Operator] = "swap"
    <3>1. RemoveSwap
      BY <1>1, <2>2 DEF Operate, SwitchCommand, EnableCommand, DisableCommand, RemoveCommand,
         PriorityCommand, AddCommand, StrategyCommand, Begins, PriorityRound, PriorityDone,
         IfNotFirst,
         RemovePool, RemoveLeave, RemoveRefused, RemoveBegun, RemoveRenumber, RemoveDrop
    <3> QED BY <1>0, <3>1 DEF RemoveSwap, Then, TypeOK, NoRemoval
  <2>3. CASE at[Operator] = "drop"
    <3>1. RemoveDrop
      BY <1>1, <2>3 DEF Operate, SwitchCommand, EnableCommand, DisableCommand, RemoveCommand,
         PriorityCommand, AddCommand, StrategyCommand, Begins, PriorityRound, PriorityDone,
         IfNotFirst,
         RemovePool, RemoveLeave, RemoveRefused, RemoveBegun, RemoveRenumber, RemoveSwap
    <3> QED BY <3>1 DEF RemoveDrop, NoRemoval
  <2>4. removed = {}
    BY <1>1, <2>1, <2>2, <2>3 DEF NoRemoval, Operate, SwitchCommand, EnableCommand,
       DisableCommand, RemoveCommand,
       PriorityCommand, AddCommand, StrategyCommand, PriorityRound, PriorityDone, IfNotFirst,
       RemovePool, RemoveLeave, RemoveRefused, RemoveBegun, RemoveRenumber, RemoveSwap,
       RemoveDrop, Switch, Unchoosing, poolVars, tableVars
  <2> QED BY <2>1, <2>2, <2>3, <2>4 DEF NoRemoval
<1>2. ASSUME NEW t \in Net, Report(t) PROVE NoRemoval
  <2>1. t \in Thread /\ t # Operator
    BY <1>0, <1>2 DEF Thread
  <2>2. at'[Operator] = at[Operator] /\ removed' = removed
    BY <1>0, <1>2, <2>1, ReportMoves, OthersStay DEF tableVars
  <2> QED BY <2>2 DEF NoRemoval
<1>3. ASSUME NEW t \in Thread,
             SwitchPools(t) \/ IfCurrent(t) \/ IfHigher(t) \/ pool_resus(t)
      PROVE  NoRemoval
  <2>1. removed' = removed /\ at[t] \in {"switch", "current", "compare", "resus"}
        /\ (Then(t, "switch") \/ Then(t, "out"))
    BY <1>3 DEF SwitchPools, Switch, IfCurrent, IfHigher, pool_resus, Unchoosing, poolVars,
       tableVars
  <2>2. at'[Operator] = at[Operator] \/ at[Operator] \in {"switch", "current", "compare", "resus"}
    BY <1>0, <2>1, OthersStay
  <2> QED BY <2>1, <2>2 DEF NoRemoval
<1>4. CASE ProbePools
  BY <1>4 DEF ProbePools, poolVars, tableVars, threadVars, NoRemoval
<1> QED BY <1>1, <1>2, <1>3, <1>4 DEF Next

\* After a switch nothing is owed, but while poolpriority is half done.
LEMMA SwitchDebt ==
    ASSUME Base, DebtInv, NoRemoval, PrioInv', NEW t \in Thread, Switch(t),
           currentpool # NoPool, at'[Operator] \notin {"swap", "drop"}
    PROVE  DebtInv'
<1> DEFINE sel == selected[t]
           prios == Promoted(sel)
<1>0. TypeOK /\ TableInv /\ SelectedInv
  BY DEF Base
<1>1. /\ prio' = prios /\ currentpool' = pools[Choice(prios, sel)]
      /\ UNCHANGED <<tableVars, enabled, idle, pool_strategy, pools_active>>
  BY DEF Switch
<1>2. currentpool \in Table /\ sel \in Table \cup {NoPool} /\ Operator \in Thread
  BY <1>0, Numbers DEF DebtInv, SelectedInv
<1>3. Table' = Table /\ \A p : pool_unusable(p)' = pool_unusable(p)
  BY <1>1 DEF Table, tableVars, pool_unusable
<1>4. currentpool' \in Table'
  BY <1>0, <1>1, <1>2, <1>3, ChoiceInTable
<1>5. CASE at'[Operator] = "unlisted"
  <2>1. \A p : Pays(Operator, p)'
    BY <1>5 DEF Pays
  <2> QED BY <1>2, <1>4, <2>1 DEF DebtInv
<1>6. CASE at'[Operator] # "unlisted"
  <2>1. /\ \A p, q \in Table : prios[p] = prios[q] => p = q
        /\ {prios[p] : p \in Table} = 0 .. total_pools - 1
    BY <1>1, <1>3, <1>6 DEF PrioInv, Ranked, RankedSize, InTable, Table, Injective, tableVars
  <2>2. ASSUME NEW p \in Table, ~pool_unusable(p), pool_strategy = "failover"
        PROVE  ~(prio'[p] < prio'[currentpool'])
    <3>1. currentpool' = pools[ByPriority(prios)]
      BY <1>1, <2>2 DEF Choice
    <3>2. prios[pools[ByPriority(prios)]] <= prios[p]
      BY <1>0, <1>2, <2>1, <2>2, ChoiceIsBest
    <3>3. prios[pools[ByPriority(prios)]] \in Int /\ prios[p] \in Int
      BY <1>1, <1>3, <1>4, <2>1, <3>1, Numbers, <1>0
    <3> QED BY <1>1, <3>1, <3>2, <3>3
  <2> QED BY <1>1, <1>3, <1>4, <2>2 DEF DebtInv
<1> QED BY <1>5, <1>6

\* Someone has yet to look at all the pools.
LEMMA AllPaid ==
    ASSUME NEW t \in Thread, at'[t] \in {"switch", "unlisted", "prio0"},
           currentpool' \in Table'
    PROVE  DebtInv'
<1>1. \A p : Pays(t, p)'
  BY DEF Pays
<1> QED BY <1>1 DEF DebtInv

\* Nothing is owed but what was, and what was is still going to be paid.
LEMMA DebtKept ==
    ASSUME DebtInv, NoRemoval,
           UNCHANGED <<tableVars, currentpool, pool_strategy, pools_active>>, prio' = prio,
           \A p \in Table : ~pool_unusable(p)' =>
               ~pool_unusable(p) \/ \E t \in Thread : Pays(t, p)',
           \A t \in Thread, p \in Table :
               Pays(t, p) /\ prio[p] < prio[currentpool] /\ pool_strategy = "failover"
                   => Pays(t, p)'
    PROVE  DebtInv'
<1>1. Table' = Table /\ currentpool' \in Table
  BY DEF Table, tableVars, DebtInv
<1>2. ASSUME NEW p \in Table', ~pool_unusable(p)', prio'[p] < prio'[currentpool'],
             (pool_strategy = "failover" /\ pools_active)'
      PROVE  \E t \in Thread : Pays(t, p)'
  <2>1. CASE ~pool_unusable(p)
    <3>1. PICK t \in Thread : Pays(t, p)
      BY <1>1, <1>2, <2>1 DEF DebtInv
    <3> QED BY <1>1, <1>2, <3>1
  <2> QED BY <1>1, <1>2, <2>1
<1> QED BY <1>1, <1>2 DEF DebtInv

LEMMA CommandDebt ==
    ASSUME Base, DebtInv, NoRemoval, NEW p \in Table,
           SwitchCommand(p) \/ EnableCommand(p) \/ DisableCommand(p) \/ RemoveCommand(p)
    PROVE  DebtInv'
<1>0. TypeOK /\ TableInv
  BY DEF Base
<1>1. Operator \in Thread /\ Table \subseteq Pool /\ currentpool \in Table
  BY <1>0, Numbers DEF DebtInv
<1>2. /\ UNCHANGED <<tableVars, prio, idle, currentpool, pool_strategy, pools_active>>
      /\ at[Operator] = "out"
  BY DEF SwitchCommand, EnableCommand, DisableCommand, RemoveCommand, Begins, poolVars,
     choiceVars
<1>3. Table' = Table
  BY <1>2 DEF Table, tableVars
<1>4. CASE SwitchCommand(p)
  <2>1. at'[Operator] = "switch"
    BY <1>0, <1>1, <1>4 DEF SwitchCommand, Go, TypeOK
  <2> QED BY <1>1, <1>2, <1>3, <2>1, AllPaid
<1>5. CASE ~SwitchCommand(p)
  <2>1. PICK s \in {"compare", "current", "leave", "refuse"}, sel \in {p, NoPool} :
            Go(Operator, s, p, sel)
    BY <1>5 DEF EnableCommand, DisableCommand, RemoveCommand
  <2>2. \A t \in Thread, q \in Table : Pays(t, q) => Pays(t, q)'
    <3>1. \A t \in Thread : t # Operator => at'[t] = at[t] /\ about'[t] = about[t]
      BY <1>0, <1>1, <2>1, OthersStay
    <3>2. \A q : ~Pays(Operator, q)
      BY <1>2 DEF Pays
    <3> QED BY <3>1, <3>2 DEF Pays
  <2>3. \A q \in Table : ~pool_unusable(q)' => ~pool_unusable(q) \/ Pays(Operator, q)'
    <3>1. CASE EnableCommand(p)
      <4>1. at'[Operator] = "compare" /\ about'[Operator] = p
        BY <1>0, <1>1, <3>1 DEF EnableCommand, Go, TypeOK
      <4>2. \A q \in Table : q # p => enabled'[q] = enabled[q]
        BY <1>0, <1>1, <3>1 DEF EnableCommand, Enable, TypeOK
      <4> QED BY <1>2, <4>1, <4>2 DEF Pays, pool_unusable
    <3>2. CASE DisableCommand(p)
      <4>1. \A q \in Table : enabled'[q] = "enabled" => enabled[q] = "enabled"
        BY <1>0, <1>1, <3>2 DEF DisableCommand, Disable, TypeOK
      <4> QED BY <1>2, <4>1 DEF pool_unusable
    <3>3. CASE RemoveCommand(p)
      BY <3>3 DEF RemoveCommand, poolVars, pool_unusable
    <3> QED BY <1>5, <3>1, <3>2, <3>3
  <2> QED BY <1>1, <1>2, <2>2, <2>3, DebtKept
<1> QED BY <1>4, <1>5

LEMMA AddDebt ==
    ASSUME Base, PrioInv, DebtInv, NoRemoval, AddCommand
    PROVE  DebtInv'
<1>0. TypeOK /\ TableInv
  BY DEF Base
<1>1. /\ total_pools \in Nat \ {0} /\ total_pools <= created /\ created \in Pool
      /\ created \in Nat /\ total_pools \in 0 .. MaxPool
      /\ Table \subseteq Alive /\ Alive \subseteq Pool /\ currentpool \in Table
  BY <1>0, Numbers DEF AddCommand, Pool, DebtInv
<1>2. /\ pools' = [pools EXCEPT ![total_pools] = created]
      /\ prio' = [prio EXCEPT ![created] = total_pools]
      /\ total_pools' = total_pools + 1 /\ at' = at /\ about' = about
      /\ UNCHANGED <<idle, currentpool, pool_strategy, pools_active>>
      /\ enabled' = [enabled EXCEPT ![created] = "enabled"]
      /\ at[Operator] = "out"
  BY DEF AddCommand, threadVars, Begins
<1>3. {prio[p] : p \in Table} = 0 .. total_pools - 1
  BY <1>2, WholeTable DEF Whole
<1>4. \A i \in 0 .. total_pools - 1 : pools'[i] = pools[i] /\ i \in 0 .. total_pools' - 1
  BY <1>0, <1>1, <1>2 DEF TypeOK
<1>5. pools'[total_pools] = created
  BY <1>0, <1>1, <1>2 DEF TypeOK
<1>6. Table \subseteq Table'
  BY <1>4 DEF Table
<1>7. \A p \in Table' : p \in Table \/ p = created
  <2>1. \A i \in 0 .. total_pools' - 1 : i \in 0 .. total_pools - 1 \/ i = total_pools
    BY <1>1, <1>2
  <2> QED BY <1>4, <1>5, <2>1 DEF Table
<1>8. created \notin Table
  BY <1>1 DEF Alive
<1>9. prio'[created] = total_pools /\ \A p \in Table : prio'[p] = prio[p]
  BY <1>0, <1>1, <1>2, <1>8 DEF TypeOK
<1>10. \A p \in Table : pool_unusable(p)' = pool_unusable(p)
  BY <1>0, <1>1, <1>2, <1>8 DEF TypeOK, pool_unusable
<1>11. ~(prio'[created] < prio'[currentpool])
  <2>1. prio[currentpool] \in 0 .. total_pools - 1
    BY <1>1, <1>3
  <2> QED BY <1>1, <1>9, <2>1
<1>12. \A t, p : Pays(t, p)' <=> Pays(t, p)
  BY <1>2 DEF Pays
<1> QED BY <1>1, <1>2, <1>6, <1>7, <1>9, <1>10, <1>11, <1>12 DEF DebtInv

\* A test that sends its thread home has found the pool to be no better.
LEMMA TestDebt ==
    ASSUME Base, PrioInv, DebtInv, NoRemoval, NEW t \in Thread,
           IfCurrent(t) \/ IfHigher(t) \/ pool_resus(t) \/ (t = Operator /\ IfNotFirst)
    PROVE  DebtInv'
<1>0. TypeOK /\ TableInv
  BY DEF Base
<1>1. /\ Table \subseteq Pool /\ currentpool \in Table
      /\ \A p \in Table : prio[p] \in Nat
  BY <1>0, Numbers DEF DebtInv, TypeOK
<1>2. UNCHANGED <<poolVars, choiceVars>> /\ (Then(t, "switch") \/ Then(t, "out"))
  BY DEF IfCurrent, IfHigher, pool_resus, IfNotFirst, Unchoosing
<1>3. Table' = Table
  BY <1>2 DEF Table, poolVars, tableVars
<1>4. CASE Then(t, "switch")
  <2>1. at'[t] = "switch"
    BY <1>0, <1>4 DEF Then, TypeOK
  <2> QED BY <1>1, <1>2, <1>3, <2>1, AllPaid DEF choiceVars
<1>5. CASE Then(t, "out") /\ ~Then(t, "switch")
  <2>1. \A u \in Thread : u # t => at'[u] = at[u] /\ about'[u] = about[u]
    BY <1>0, <1>5, OthersStay
  <2>2. ASSUME NEW p \in Table, Pays(t, p), prio[p] < prio[currentpool],
               pool_strategy = "failover"
        PROVE  FALSE
    <3>1. CASE IfCurrent(t)
      BY <2>2, <3>1 DEF IfCurrent, Pays
    <3>2. CASE IfHigher(t)
      BY <1>5, <2>2, <3>2 DEF IfHigher, Pays, HigherThanCurrent
    <3>3. CASE pool_resus(t)
      BY <1>5, <2>2, <3>3 DEF pool_resus, Pays, HigherThanCurrent
    <3>4. CASE t = Operator /\ IfNotFirst
      <4>1. prio[currentpool] = 0
        BY <1>5, <3>4 DEF IfNotFirst
      <4> QED BY <1>1, <2>2, <4>1
    <3> QED BY <3>1, <3>2, <3>3, <3>4
  <2>3. \A u \in Thread, p \in Table :
            Pays(u, p) /\ prio[p] < prio[currentpool] /\ pool_strategy = "failover"
                => Pays(u, p)'
    <3> SUFFICES ASSUME NEW u \in Thread, NEW p \in Table, Pays(u, p),
                        prio[p] < prio[currentpool], pool_strategy = "failover"
                 PROVE  Pays(u, p)'
      OBVIOUS
    <3>1. u # t
      BY <2>2
    <3> QED BY <2>1, <3>1 DEF Pays
  <2> QED BY <1>2, <2>3, DebtKept DEF poolVars, choiceVars, pool_unusable
<1> QED BY <1>2, <1>4, <1>5

LEMMA ReportDebt ==
    ASSUME Base, DebtInv, NoRemoval, NEW t \in Net, Report(t)
    PROVE  DebtInv'
<1>0. TypeOK /\ TableInv /\ StartInv
  BY DEF Base
<1>1. /\ t \in Thread /\ Table \subseteq Pool /\ currentpool \in Table /\ Table = Alive
  BY <1>0, Numbers, NoRemovalTable DEF DebtInv, Thread
<1>2. /\ UNCHANGED <<tableVars, prio>> /\ Table' = Table
      /\ \A u \in Thread : u # t => at'[u] = at[u] /\ about'[u] = about[u]
  BY <1>0, <1>1, ReportMoves, OthersStay DEF Table, tableVars
<1>3. ASSUME NEW p \in Created, PoolDied(t, p) \/ PoolAlive(t, p)
      PROVE  DebtInv'
  <2>1. /\ at[t] = "out" /\ UNCHANGED <<enabled, currentpool, pool_strategy, pools_active>>
        /\ p \in Table
    BY <1>1, <1>3 DEF PoolDied, PoolAlive, Reports, choiceVars, Created, Alive
  <2>2. \A u \in Thread, q \in Table : Pays(u, q) => Pays(u, q)'
    BY <1>2, <2>1 DEF Pays
  <2>3. \A q \in Table : ~pool_unusable(q)' => ~pool_unusable(q) \/ Pays(t, q)'
    <3>1. CASE PoolDied(t, p)
      <4>1. \A q \in Table : ~idle'[q] => ~idle[q]
        BY <1>0, <1>1, <2>1, <3>1 DEF PoolDied, TypeOK
      <4> QED BY <2>1, <4>1 DEF pool_unusable
    <3>2. CASE PoolAlive(t, p)
      <4>1. at'[t] = "resus" /\ about'[t] = p
        BY <1>0, <1>1, <3>2 DEF PoolAlive, Go, TypeOK
      <4>2. \A q \in Table : q # p => idle'[q] = idle[q]
        BY <1>0, <1>1, <2>1, <3>2 DEF PoolAlive, TypeOK
      <4> QED BY <2>1, <4>1, <4>2 DEF pool_unusable, Pays
    <3> QED BY <1>3, <3>1, <3>2
  <2> QED BY <1>1, <1>2, <2>1, <2>2, <2>3, DebtKept
<1>4. ASSUME NEW p \in Created, TestPool(t, p)
      PROVE  DebtInv'
  <2>1. /\ at[t] = "out" /\ UNCHANGED <<enabled, currentpool, pool_strategy, pools_active>>
        /\ p \in Table
    BY <1>1, <1>4 DEF TestPool, choiceVars, Created, Alive
  <2>2. \A u \in Thread, q \in Table : Pays(u, q) => Pays(u, q)'
    BY <1>2, <2>1 DEF Pays
  <2>3. \A q \in Table : ~pool_unusable(q)' => ~pool_unusable(q) \/ Pays(t, q)'
    <3>1. CASE UNCHANGED idle
      BY <2>1, <3>1 DEF pool_unusable
    <3>2. CASE ~UNCHANGED idle
      <4>0. idle' = [idle EXCEPT ![p] = FALSE] /\ Go(t, "first", p, NoPool)
        BY <1>4, <3>2 DEF TestPool
      <4>1. at'[t] = "first" /\ about'[t] = p
        BY <1>0, <1>1, <4>0 DEF Go, TypeOK
      <4>2. \A q \in Table : q # p => idle'[q] = idle[q]
        BY <1>0, <1>1, <2>1, <4>0 DEF TypeOK
      <4> QED BY <2>1, <4>1, <4>2 DEF pool_unusable, Pays
    <3> QED BY <3>1, <3>2
  <2> QED BY <1>1, <1>2, <2>1, <2>2, <2>3, DebtKept
<1>5. ASSUME NEW p \in Created, Rejects(t, p)
      PROVE  DebtInv'
  <2>1. at[t] = "out" /\ UNCHANGED <<poolVars, choiceVars>>
    BY <1>5 DEF Rejects, Reports, Unchoosing
  <2>2. \A u \in Thread, q \in Table : Pays(u, q) => Pays(u, q)'
    BY <1>2, <2>1 DEF Pays
  <2> QED BY <1>2, <2>1, <2>2, DebtKept DEF poolVars, choiceVars, pool_unusable
<1>6. CASE Rotate(t) \/ \E p \in Created : Accepts(t, p)
  <2>1. PICK q \in Pool \cup {0} : Go(t, "switch", q, NoPool)
    BY <1>0, <1>1, <1>6 DEF Rotate, Accepts, Created, Alive
  <2>2. at'[t] = "switch" /\ currentpool' = currentpool
    BY <1>0, <1>1, <1>6, <2>1 DEF Go, TypeOK, Rotate, Accepts, Unchoosing, choiceVars
  <2> QED BY <1>1, <1>2, <2>2, AllPaid
<1>7. CASE reject_pool(t)
  <2>1. /\ at[t] = "reject" /\ UNCHANGED <<idle, currentpool, pool_strategy, pools_active>>
        /\ enabled' = [enabled EXCEPT ![about[t]] = "rejecting"]
    BY <1>7 DEF reject_pool
  <2>2. \A u \in Thread, q \in Table : Pays(u, q) => Pays(u, q)'
    BY <1>2, <2>1 DEF Pays
  <2>3. \A q \in Table : enabled'[q] = "enabled" => enabled[q] = "enabled"
    BY <1>0, <1>1, <2>1 DEF TypeOK
  <2> QED BY <1>2, <2>1, <2>2, <2>3, DebtKept DEF pool_unusable
<1>8. CASE FirstAlive(t)
  <2>1. /\ at[t] = "first" /\ UNCHANGED <<enabled, idle, pool_strategy>>
        /\ pools_active' = TRUE
        /\ currentpool' = IF pools_active THEN currentpool ELSE about[t]
    BY <1>8 DEF FirstAlive, poolVars
  <2>2. at'[t] = "resus" /\ about'[t] = about[t]
    BY <1>0, <1>1, <1>8 DEF FirstAlive, Then, TypeOK
  <2>3. \A u \in Thread, q \in Table : Pays(u, q) => Pays(u, q)'
    BY <1>2, <2>1, <2>2 DEF Pays
  <2>4. CASE pools_active
    BY <1>2, <2>1, <2>3, <2>4, DebtKept DEF pool_unusable
  <2>5. CASE ~pools_active
    <3>1. currentpool' \in Table
      BY <1>0, <1>1, <2>1, <2>5 DEF Base, SelectedInv
    <3>2. ASSUME NEW p \in Table, ~pool_unusable(p), prio'[p] < prio'[currentpool']
          PROVE  \E u \in Thread : Pays(u, p)'
      <4>1. ~idle[p] /\ p \in Pool
        BY <1>1, <3>2 DEF pool_unusable
      <4>2. PICK u \in Thread : at[u] = "first" /\ about[u] = p
        BY <1>0, <2>5, <4>1 DEF StartInv
      <4> QED BY <2>3, <4>2 DEF Pays
    <3>3. \A p : pool_unusable(p)' = pool_unusable(p)
      BY <2>1 DEF pool_unusable
    <3> QED BY <1>2, <3>1, <3>2, <3>3 DEF DebtInv
  <2> QED BY <2>4, <2>5
<1> QED BY <1>3, <1>4, <1>5, <1>6, <1>7, <1>8 DEF Report

LEMMA DebtSteps ==
    ASSUME Base, PrioInv, DebtInv, [Next]_vars, PrioInv'
    PROVE  DebtInv'
<1>0. TypeOK /\ TableInv /\ SelectedInv /\ StartInv
  BY DEF Base
<1>1. /\ Operator \in Thread /\ 0 \in Pool /\ Operator \notin Net
      /\ "refuse" \in Step /\ "out" \in Step
  BY <1>0, Numbers, PoolAssumption DEF Step
<1>2. CASE ~NoRemoval'
  BY <1>2 DEF DebtInv
<1>3. CASE Next /\ NoRemoval'
  <2>1. NoRemoval /\ currentpool \in Table /\ currentpool # NoPool
    BY <1>3, NoRemovalBefore DEF DebtInv, Next
  <2>2. CASE StrategyCommand
    <3>1. at'[Operator] = "switch" /\ currentpool' = currentpool /\ Table' = Table
      BY <1>0, <1>1, <2>2 DEF StrategyCommand, Go, TypeOK, poolVars, tableVars, Table
    <3> QED BY <1>1, <2>1, <3>1, AllPaid
  <2>3. ASSUME NEW order \in Orders, PriorityCommand(order) PROVE DebtInv'
    <3>1. at'[Operator] = "unlisted" /\ currentpool' = currentpool /\ Table' = Table
      BY <1>0, <1>1, <2>3 DEF PriorityCommand, Go, TypeOK, choiceVars, tableVars, Table
    <3> QED BY <1>1, <2>1, <3>1, AllPaid
  <2>4. CASE PriorityRound \/ PriorityDone
    <3>1. at'[Operator] \in {"unlisted", "prio0"} /\ currentpool' = currentpool /\ Table' = Table
      <4>1. UNCHANGED <<tableVars, choiceVars>>
        BY <2>4 DEF PriorityRound, PriorityDone, poolVars
      <4>2. at'[Operator] \in {"unlisted", "prio0"}
        BY <1>0, <1>1, <2>4 DEF PriorityRound, PriorityDone, Then, TypeOK
      <4> QED BY <4>1, <4>2 DEF choiceVars, tableVars, Table
    <3> QED BY <1>1, <2>1, <3>1, AllPaid
  <2>5. CASE RemoveLeave
    <3>1. Switch(Operator) /\ at'[Operator] = "refuse"
      BY <1>0, <1>1, <2>5 DEF RemoveLeave, Then, TypeOK
    <3> QED BY <1>1, <2>1, <3>1, SwitchDebt
  <2>6. CASE RemoveRefused
    <3>1. UNCHANGED <<poolVars, choiceVars>> /\ at[Operator] = "refuse"
          /\ (Then(Operator, "out") \/ Then(Operator, "disable"))
      BY <2>6 DEF RemoveRefused, Unchoosing
    <3>2. \A u \in Thread : u # Operator => at'[u] = at[u] /\ about'[u] = about[u]
      BY <1>0, <1>1, <3>1, OthersStay
    <3>3. \A u \in Thread, q \in Table : Pays(u, q) => Pays(u, q)'
      BY <3>1, <3>2 DEF Pays
    <3> QED BY <2>1, <3>1, <3>3, DebtKept DEF poolVars, choiceVars, pool_unusable
  <2>7. CASE RemoveBegun \/ RemoveRenumber \/ RemoveSwap
    <3>1. at'[Operator] \in {"renumber", "swap", "drop"}
      BY <1>0, <1>1, <2>7 DEF RemoveBegun, RemoveRenumber, RemoveSwap, Then, TypeOK
    <3> QED BY <1>3, <3>1 DEF NoRemoval
  <2>8. CASE RemoveDrop
    BY <1>3, <2>8 DEF RemoveDrop, NoRemoval
  <2>9. CASE IfNotFirst
    BY <1>1, <2>1, <2>9, TestDebt
  <2>10. CASE Operate
    BY <2>1, <2>2, <2>3, <2>4, <2>5, <2>6, <2>7, <2>8, <2>9, <2>10, CommandDebt, AddDebt
       DEF Operate, RemovePool
  <2>11. ASSUME NEW t \in Net, Report(t) PROVE DebtInv'
    BY <2>1, <2>11, ReportDebt
  <2>12. ASSUME NEW t \in Thread, SwitchPools(t) PROVE DebtInv'
    <3>1. Switch(t) /\ Then(t, "out") /\ at[t] = "switch"
      BY <2>12 DEF SwitchPools
    <3>2. at'[Operator] \notin {"swap", "drop"}
      BY <1>3 DEF NoRemoval
    <3> QED BY <2>1, <3>1, <3>2, SwitchDebt
  <2>13. ASSUME NEW t \in Thread, IfCurrent(t) \/ IfHigher(t) \/ pool_resus(t) PROVE DebtInv'
    BY <2>1, <2>13, TestDebt
  <2>14. CASE ProbePools
    <3>1. /\ UNCHANGED <<poolVars, choiceVars, threadVars>>
      BY <2>14 DEF ProbePools
    <3>2. \A u \in Thread, q \in Table : Pays(u, q) => Pays(u, q)'
      BY <3>1 DEF Pays, threadVars
    <3> QED BY <2>1, <3>1, <3>2, DebtKept DEF poolVars, choiceVars, pool_unusable
  <2> QED BY <1>3, <2>10, <2>11, <2>12, <2>13, <2>14 DEF Next
<1>4. CASE UNCHANGED vars /\ NoRemoval'
  <2>1. UNCHANGED <<poolVars, choiceVars, threadVars>> /\ NoRemoval
    BY <1>4 DEF vars, NoRemoval, poolVars, tableVars, threadVars
  <2>2. \A u \in Thread, q \in Table : Pays(u, q) => Pays(u, q)'
    BY <2>1 DEF Pays, threadVars
  <2> QED BY <2>1, <2>2, DebtKept DEF poolVars, choiceVars, pool_unusable
<1> QED BY <1>2, <1>3, <1>4

----------------------------------------------------------------------------
(* Theorems about PoolManager.                                             *)

LEMMA InitIInv == Init => IInv
<1> SUFFICES ASSUME Init PROVE IInv
  OBVIOUS
<1>1. Base
  BY InitBase
<1>2. Table = 0 .. NPools - 1 /\ NPools \in Nat \ {0} /\ NPools <= MaxPool
  BY PoolAssumption DEF Init, Table
<1>3. at[Operator] \in Whole /\ pools_active = FALSE /\ currentpool = 0
  BY <1>1, Numbers DEF Init, Whole, Base
<1>4. \A p \in Table : prio[p] = p
  BY <1>2, PoolAssumption DEF Init, Pool
<1>5. PrioInv
  <2>1. Injective(Table) /\ {prio[p] : p \in Table} = 0 .. total_pools - 1
    BY <1>2, <1>4 DEF Injective, Init
  <2> QED BY <1>3, <2>1, WholeTable
<1>6. DebtInv
  BY <1>2, <1>3 DEF DebtInv
<1> QED BY <1>1, <1>5, <1>6 DEF IInv, Base

LEMMA StepIInv == IInv /\ [Next]_vars => IInv'
<1> SUFFICES ASSUME IInv, [Next]_vars PROVE IInv'
  OBVIOUS
<1>1. Base /\ PrioInv /\ DebtInv
  BY DEF IInv, Base
<1>2. Base' /\ PrioInv'
  BY <1>1, BaseSteps, PrioSteps
<1>3. DebtInv'
  BY <1>1, <1>2, DebtSteps
<1> QED BY <1>2, <1>3 DEF IInv, Base

LEMMA QuietFailsBack == IInv => FailsBack
<1> SUFFICES ASSUME IInv PROVE FailsBack
  OBVIOUS
<1>0. TypeOK /\ TableInv /\ PrioInv /\ DebtInv
  BY DEF IInv
<1>1. Operator \in Thread /\ Table \subseteq Pool /\ \A p \in Table : prio[p] \in Int
  BY <1>0, Numbers DEF TypeOK
<1>2. PriosPermuted
  BY <1>0 DEF PriosPermuted, PrioInv, Ranked, RankedSize, InTable, Table
<1>3. ASSUME Quiet, pool_strategy = "failover", removed = {}, NEW p \in Table
      PROVE  pool_unusable(p) \/ prio[p] >= prio[currentpool]
  <2>1. \A t \in Thread : ~Pays(t, p)
    BY <1>3 DEF Quiet, Pays
  <2>2. NoRemoval /\ pools_active
    BY <1>1, <1>3 DEF Quiet, NoRemoval
  <2>3. currentpool \in Table /\ (pool_unusable(p) \/ ~(prio[p] < prio[currentpool]))
    BY <1>0, <1>3, <2>1, <2>2 DEF DebtInv
  <2> QED BY <1>1, <2>3
<1> QED BY <1>0, <1>2, <1>3 DEF FailsBack

\* switch_pools and its callers: with any pools, commands and events, the
\* priorities are a permutation and, under failover and until a pool is removed,
\* when nothing is under way no pool that could be used is better than the
\* current one.
THEOREM BestPoolIsCurrent == Spec => []FailsBack
BY InitIInv, StepIInv, QuietFailsBack, PTL DEF Spec

\* The pools that have their new priority are in the order asked for; the others
\* were not listed, still have the one they had, and the rounds have not come to it.
Ordered ==
    /\ \A p, q \in listed : prio[p] < prio[q] <=> AskedBefore(p, q)
    /\ \A p \in Table \ listed : p \notin ToSet(asked) /\ prio[p] = before[p]
    /\ \A p \in listed \ ToSet(asked) : before[p] < pr

OrderInv == (at[Operator] = "unlisted" => Ordered) /\ OrderAsAsked

LEMMA CommandOrder ==
    ASSUME Base, PrioInv, NEW order \in Orders, PriorityCommand(order)
    PROVE  Ordered'
<1>0. TypeOK /\ TableInv
  BY DEF Base
<1>1. total_pools \in Nat \ {0} /\ Table \subseteq Pool
  BY <1>0, Numbers
<1>2. PICK m \in 1 .. total_pools :
         /\ order \in [1 .. m -> Table]
         /\ \A p : Contains(order, p) <=> p \in ToSet(order)
         /\ ToSet(order) = {order[i] : i \in 1 .. m}
         /\ \A i, j \in 1 .. m : order[i] = order[j] => i = j
         /\ \A i \in 1 .. m : (CHOOSE k \in DOMAIN order : order[k] = order[i]) = i
  BY <1>1, OrderFacts DEF Orders
<1>3. /\ listed' = ToSet(order) /\ asked' = order /\ before' = prio /\ UNCHANGED tableVars
      /\ prio' = [p \in Pool |-> IF Contains(order, p)
                                 THEN (CHOOSE n \in DOMAIN order : order[n] = p) - 1
                                 ELSE prio[p]]
  BY DEF PriorityCommand
<1>4. \A i \in 1 .. m : order[i] \in Pool /\ Contains(order, order[i])
  BY <1>1, <1>2
<1>5. \A i \in 1 .. m : prio'[order[i]] = i - 1
  BY <1>2, <1>3, <1>4
<1>6. \A p \in Table \ listed' : p \notin ToSet(asked') /\ prio'[p] = before'[p]
  BY <1>1, <1>2, <1>3
<1>7. ASSUME NEW i \in 1 .. m, NEW j \in 1 .. m
      PROVE  prio'[order[i]] < prio'[order[j]] <=> AskedBefore(order[i], order[j])'
  <2>1. AskedBefore(order[i], order[j])' <=>
            \E k, n \in 1 .. m : k < n /\ order[k] = order[i] /\ order[n] = order[j]
    BY <1>2, <1>3 DEF AskedBefore
  <2>2. (\E k, n \in 1 .. m : k < n /\ order[k] = order[i] /\ order[n] = order[j]) <=> i < j
    BY <1>2
  <2> QED BY <1>5, <2>1, <2>2
<1>8. \A p, q \in listed' : prio'[p] < prio'[q] <=> AskedBefore(p, q)'
  <2> SUFFICES ASSUME NEW p \in listed', NEW q \in listed'
               PROVE  prio'[p] < prio'[q] <=> AskedBefore(p, q)'
    OBVIOUS
  <2>1. PICK i \in 1 .. m, j \in 1 .. m : p = order[i] /\ q = order[j]
    BY <1>2, <1>3
  <2> QED BY <1>7, <2>1
<1>9. Table' = Table /\ listed' \ ToSet(asked') = {}
  BY <1>3 DEF Table, tableVars
<1> QED BY <1>6, <1>8, <1>9 DEF Ordered

\* A round appends a pool after all that are listed: it was behind them, or they
\* were listed and it was not.
LEMMA RoundOrder ==
    ASSUME Base, PrioInv, Ordered, PriorityRound
    PROVE  Ordered'
<1>0. TypeOK /\ TableInv
  BY DEF Base
<1>1. /\ Table \subseteq Pool /\ Cardinality(listed) \in Nat
      /\ pr \in Nat /\ pr' = pr + 1
      /\ \A p \in Pool : prio[p] \in Nat /\ before[p] \in Nat
  BY <1>0, Numbers, ListedSize DEF TypeOK, PriorityRound
<1>2. UNCHANGED <<asked, before>> /\ Table' = Table /\ at[Operator] = "unlisted"
  BY DEF PriorityRound, Table, tableVars
<1>3. \A p, q : AskedBefore(p, q)' <=> AskedBefore(p, q)
  BY <1>2 DEF AskedBefore
<1>4. listed \subseteq Table
  BY <1>2 DEF PrioInv
<1>5. CASE Found = {}
  <2>1. prio' = prio /\ listed' = listed
    BY <1>5 DEF PriorityRound
  <2>2. \A p \in listed \ ToSet(asked) : before[p] < pr'
    BY <1>1, <1>4 DEF Ordered
  <2> QED BY <1>2, <1>3, <2>1, <2>2 DEF Ordered
<1>6. CASE Found # {}
  <2> DEFINE f == pools[Min(Found)]
             c == Cardinality(listed)
  <2>1. f \in Table \ listed /\ prio[f] = pr /\ f \in Pool
    BY <1>0, <1>1, <1>6, FoundFacts
  <2>2. prio' = [prio EXCEPT ![f] = c] /\ listed' = listed \cup {f}
    BY <1>6 DEF PriorityRound
  <2>3. c \in Nat /\ \A p \in listed : prio[p] < c
    BY <1>1, <1>2 DEF PrioInv
  <2> HIDE DEF f, c
  <2>4. prio'[f] = c /\ \A p \in Pool : p # f => prio'[p] = prio[p]
    BY <1>0, <2>1, <2>2 DEF TypeOK
  <2>5. f \notin ToSet(asked) /\ before[f] = pr
    BY <2>1 DEF Ordered
  <2>6. ASSUME NEW p \in listed
        PROVE  p # f /\ prio'[p] = prio[p] /\ AskedBefore(p, f) /\ ~AskedBefore(f, p)
    <3>1. p # f /\ prio'[p] = prio[p]
      BY <1>1, <1>4, <2>1, <2>4
    <3>2. p \notin ToSet(asked) => before[p] < before[f]
      BY <2>5 DEF Ordered
    <3>3. \A n \in DOMAIN asked : asked[n] # f
      BY <1>0, <2>5 DEF TypeOK, ToSet
    <3>4. p \notin ToSet(asked) => ~(before[f] < before[p])
      BY <1>1, <1>4, <2>1, <3>2
    <3> QED BY <2>5, <3>1, <3>2, <3>3, <3>4 DEF AskedBefore
  <2>7. ~AskedBefore(f, f)
    BY <1>1, <2>1, <2>5 DEF AskedBefore
  <2>8. ASSUME NEW p \in listed', NEW q \in listed'
        PROVE  prio'[p] < prio'[q] <=> AskedBefore(p, q)
    <3>1. CASE p \in listed /\ q \in listed
      BY <2>6, <3>1 DEF Ordered
    <3>2. CASE p \in listed /\ q = f
      BY <2>3, <2>4, <2>6, <3>2
    <3>3. CASE p = f /\ q \in listed
      <4>1. prio[q] \in Nat /\ prio[q] < c /\ prio'[q] = prio[q]
        BY <1>1, <1>4, <2>3, <2>6, <3>3
      <4> QED BY <2>3, <2>4, <2>6, <3>3, <4>1
    <3>4. CASE p = f /\ q = f
      BY <2>3, <2>4, <2>7, <3>4
    <3> QED BY <2>2, <3>1, <3>2, <3>3, <3>4
  <2>9. ASSUME NEW p \in Table \ listed' PROVE p \notin ToSet(asked) /\ prio'[p] = before[p]
    BY <1>1, <2>2, <2>4, <2>9 DEF Ordered
  <2>10. ASSUME NEW p \in listed' \ ToSet(asked) PROVE before[p] < pr'
    BY <1>1, <1>4, <2>1, <2>2, <2>5, <2>10 DEF Ordered
  <2> QED BY <1>2, <1>3, <2>8, <2>9, <2>10 DEF Ordered
<1> QED BY <1>5, <1>6

\* Of the steps that do not begin, make or end the rounds none touches what is
\* ordered: another thread's switch promotes no pool.
LEMMA OrderKept ==
    ASSUME OrderInv, UNCHANGED <<prio, pools, total_pools, loopVars>>,
           at'[Operator] = at[Operator] \/ at'[Operator] \notin {"unlisted", "prio0"}
    PROVE  OrderInv'
<1>1. Table' = Table
  BY DEF Table
<1>2. \A p, q : AskedBefore(p, q)' <=> AskedBefore(p, q)
  BY DEF AskedBefore, loopVars
<1> QED BY <1>1, <1>2 DEF OrderInv, Ordered, OrderAsAsked, loopVars

LEMMA OrderSteps ==
    ASSUME Base, PrioInv, OrderInv, [Next]_vars
    PROVE  OrderInv'
<1>0. TypeOK /\ TableInv /\ SelectedInv
  BY DEF Base
<1>1. Operator \in Thread /\ 0 \in Pool /\ Operator \notin Net /\ Net \subseteq Thread
  BY <1>0, Numbers, PoolAssumption DEF Thread
<1>2. ASSUME at'[Operator] \in Step \ {"unlisted", "prio0"} PROVE OrderInv'
  BY <1>2 DEF OrderInv, OrderAsAsked
<1>3. ASSUME NEW order \in Orders, PriorityCommand(order) PROVE OrderInv'
  <2>1. at'[Operator] = "unlisted"
    BY <1>0, <1>1, <1>3 DEF PriorityCommand, Go, TypeOK
  <2> QED BY <1>3, <2>1, CommandOrder DEF OrderInv, OrderAsAsked
<1>4. CASE PriorityRound
  <2>1. at[Operator] = "unlisted" /\ at' = at
    BY <1>4 DEF PriorityRound
  <2> QED BY <1>4, <2>1, RoundOrder DEF OrderInv, OrderAsAsked
<1>5. CASE PriorityDone
  <2>1. at[Operator] = "unlisted" /\ at'[Operator] = "prio0"
    BY <1>0, <1>1, <1>5 DEF PriorityDone, Then, TypeOK
  <2>2. listed = Table /\ Ordered
    BY <1>0, <1>5, <2>1, AllListed DEF OrderInv
  <2>3. UNCHANGED <<prio, asked, before>> /\ Table' = Table
    BY <1>5 DEF PriorityDone, poolVars, tableVars, Table
  <2>4. \A p, q : AskedBefore(p, q)' <=> AskedBefore(p, q)
    BY <2>3 DEF AskedBefore
  <2>5. OrderAsAsked'
    BY <2>2, <2>3, <2>4 DEF Ordered, OrderAsAsked
  <2> QED BY <2>1, <2>5 DEF OrderInv
<1>6. CASE IfNotFirst
  <2>1. Then(Operator, "switch") \/ Then(Operator, "out")
    BY <1>6 DEF IfNotFirst
  <2>2. at'[Operator] \in {"switch", "out"}
    BY <1>0, <1>1, <2>1 DEF Then, Go, TypeOK
  <2> QED BY <1>2, <2>2 DEF Step
<1>7. CASE AddCommand
  <2>1. at' = at /\ at[Operator] = "out"
    BY <1>7 DEF AddCommand, Begins, threadVars
  <2> QED BY <1>2, <2>1 DEF Step
<1>8. ASSUME \/ \E p \in Table : \/ SwitchCommand(p) \/ EnableCommand(p)
                                 \/ DisableCommand(p) \/ RemoveCommand(p)
             \/ StrategyCommand
      PROVE  OrderInv'
  <2>1. PICK s \in Step \ {"unlisted", "prio0"}, p \in Pool, sel \in Pool \cup {NoPool} :
            Go(Operator, s, p, sel)
    BY <1>0, <1>1, <1>8, Numbers DEF SwitchCommand, EnableCommand, DisableCommand, RemoveCommand,
       StrategyCommand, Step
  <2> QED BY <1>0, <1>1, <1>2, <2>1, GoFacts
<1>9. CASE RemovePool
  <2>1. PICK s \in {"refuse", "out", "disable", "renumber", "swap", "drop"} : Then(Operator, s)
    BY <1>9 DEF RemovePool, RemoveLeave, RemoveRefused, RemoveBegun, RemoveRenumber, RemoveSwap,
       RemoveDrop
  <2>2. s \in Step \ {"unlisted", "prio0"}
    BY DEF Step
  <2> QED BY <1>0, <1>1, <1>2, <2>1, <2>2, ThenFacts
<1>10. CASE Operate
  BY <1>3, <1>4, <1>5, <1>6, <1>7, <1>8, <1>9, <1>10 DEF Operate
<1>11. ASSUME NEW t \in Net, Report(t) PROVE OrderInv'
  <2>1. t \in Thread /\ t # Operator
    BY <1>1
  <2>2. at'[Operator] = at[Operator]
    BY <1>0, <1>1, <1>11, <2>1, ReportMoves, OthersStay
  <2> QED BY <1>11, <2>2, ReportMoves, OrderKept DEF tableVars
<1>12. ASSUME NEW t \in Thread, IfCurrent(t) \/ IfHigher(t) \/ pool_resus(t) PROVE OrderInv'
  <2>1. /\ Then(t, "switch") \/ Then(t, "out")
        /\ UNCHANGED <<poolVars, loopVars>>
    BY <1>12, TestMoves
  <2>2. at'[Operator] = at[Operator] \/ at'[Operator] \in {"switch", "out"}
    BY <1>0, <1>1, <2>1, OthersStay DEF Then, Go, TypeOK
  <2> QED BY <2>1, <2>2, OrderKept DEF poolVars, tableVars
<1>13. ASSUME NEW t \in Thread, SwitchPools(t) PROVE OrderInv'
  <2>1. Switch(t) /\ Then(t, "out") /\ at[t] = "switch"
    BY <1>13 DEF SwitchPools
  <2>2. CASE t = Operator
    <3>1. at'[Operator] = "out"
      BY <1>0, <1>1, <2>1, <2>2, ThenFacts DEF Step
    <3> QED BY <1>2, <3>1 DEF Step
  <2>3. CASE t # Operator
    <3>1. selected[t] = NoPool
      BY <1>0, <2>3 DEF SelectedInv
    <3>2. UNCHANGED <<prio, tableVars, loopVars>>
      BY <2>1, <3>1 DEF Switch, Promoted
    <3>3. at'[Operator] = at[Operator]
      BY <1>0, <1>1, <2>1, <2>3, OthersStay
    <3> QED BY <3>2, <3>3, OrderKept DEF tableVars
  <2> QED BY <2>2, <2>3
<1>14. CASE ProbePools
  BY <1>14, OrderKept DEF ProbePools, poolVars, tableVars, threadVars
<1>15. CASE UNCHANGED vars
  BY <1>15, OrderKept DEF vars, poolVars, tableVars, threadVars
<1> QED BY <1>10, <1>11, <1>12, <1>13, <1>14, <1>15 DEF Next

\* api.c's poolpriority: whatever the other threads do between the rounds of its
\* loop, when they are over the pools listed come first, in the order given, and
\* the others after them, in the order they had.
THEOREM ReorderedAsAsked == Spec => []OrderAsAsked
<1>1. Init => OrderInv
  <2> SUFFICES ASSUME Init PROVE OrderInv
    OBVIOUS
  <2>1. at[Operator] = "out"
    BY DEF Init, Thread
  <2> QED BY <2>1 DEF OrderInv, OrderAsAsked
<1>2. IInv /\ OrderInv /\ [Next]_vars => OrderInv'
  BY OrderSteps DEF IInv, Base
<1>3. OrderInv => OrderAsAsked
  BY DEF OrderInv
<1> QED BY <1>1, <1>2, <1>3, InitIInv, StepIInv, PTL DEF Spec

----------------------------------------------------------------------------
(* LongPoll: whatever makes a sleeping pool current has a broadcast to     *)
(* come, and whatever makes a current one useful again, or a broadcast     *)
(* that comes too early, leaves the pool in unheard.                       *)

\* Where a step of the thread of p leaves the threads.
LEMMA OneThreadMoves ==
    ASSUME AsleepForAReason, NEW p \in PoolSet, NEW from, NEW to \in LpStates, LpStep(p, from, to)
    PROVE  /\ lp[p] = from /\ lp'[p] = to /\ lp' \in [PoolSet -> LpStates]
           /\ \A q \in PoolSet \ {p} : lp'[q] = lp[q]
BY DEF LpStep, AsleepForAReason, LongPollTypeOK

\* A thread that moves without falling asleep, the pools as they were.
LEMMA AwakeSteps ==
    ASSUME AsleepForAReason, NEW p \in PoolSet, NEW from, NEW to \in LpStates, LpStep(p, from, to),
           to \in {"sleep", "asleep"} => from = "sleep",
           source' \in [PoolSet -> PoolSet \union {NoSource}], UNCHANGED pollPoolVars
    PROVE  AsleepForAReason'
<1>1. /\ lp[p] = from /\ lp'[p] = to /\ lp' \in [PoolSet -> LpStates]
      /\ \A q \in PoolSet \ {p} : lp'[q] = lp[q]
  BY OneThreadMoves
<1>2. \A q \in PoolSet : Asleep(q)' => Asleep(q)
  BY <1>1 DEF Asleep
<1>3. LongPollTypeOK'
  BY <1>1 DEF AsleepForAReason, LongPollTypeOK, pollPoolVars
<1> QED BY <1>2, <1>3 DEF AsleepForAReason, pollPoolVars

LEMMA LpInitially == LongPollInit => AsleepForAReason
<1> SUFFICES ASSUME LongPollInit PROVE AsleepForAReason
  OBVIOUS
<1>1. current \in PoolSet
  BY LongPollAssumption DEF LongPollAssumption, LongPollInit
<1>2. LongPollTypeOK
  <2>1. commands \in 0 .. MaxCommands
    BY LongPollAssumption DEF LongPollAssumption, LongPollInit
  <2> QED BY <1>1, <2>1 DEF LongPollInit, LongPollTypeOK, LpStates
<1>3. \A p \in PoolSet : ~Asleep(p)
  BY DEF LongPollInit, Asleep
<1> QED BY <1>2, <1>3 DEF AsleepForAReason

LEMMA CommandCounted ==
    ASSUME LongPollTypeOK, LpCommand
    PROVE  commands' \in 0 .. MaxCommands
BY LongPollAssumption DEF LongPollAssumption, LongPollTypeOK, LpCommand

LEMMA PoolSteps ==
    ASSUME AsleepForAReason, NEW p \in PoolSet,
           \/ Broadcast \/ LpSwitch(p) \/ LpRemove(p)
           \/ \E e \in {"enabled", "disabled", "rejecting"} : SetEnabled(p, e)
    PROVE  AsleepForAReason'
<1>1. CASE Broadcast
  <2>1. LongPollTypeOK'
    BY <1>1 DEF AsleepForAReason, LongPollTypeOK, Broadcast, LpStates
  <2>2. \A q \in PoolSet : Asleep(q)' => q \in unheard'
    BY <1>1 DEF AsleepForAReason, LongPollTypeOK, Broadcast, Asleep, LpStates
  <2> QED BY <2>1, <2>2 DEF AsleepForAReason
<1>2. CASE LpSwitch(p)
  <2>1. commands' \in 0 .. MaxCommands
    BY <1>2, CommandCounted DEF AsleepForAReason, LpSwitch
  <2>2. LongPollTypeOK'
    BY <1>2, <2>1 DEF AsleepForAReason, LongPollTypeOK, LpSwitch, lpVars
  <2> QED BY <1>2, <2>2 DEF AsleepForAReason, LpSwitch
<1>3. CASE LpRemove(p)
  <2>1. commands' \in 0 .. MaxCommands
    BY <1>3, CommandCounted DEF AsleepForAReason, LpRemove
  <2>2. LongPollTypeOK'
    BY <1>3, <2>1 DEF AsleepForAReason, LongPollTypeOK, LpRemove, lpVars
  <2> QED BY <1>3, <2>2 DEF AsleepForAReason, Asleep, LpRemove, lpVars
<1>4. ASSUME NEW e \in {"enabled", "disabled", "rejecting"}, SetEnabled(p, e)
      PROVE  AsleepForAReason'
  <2>1. LongPollTypeOK'
    <3>1. commands' \in 0 .. MaxCommands
      BY <1>4, CommandCounted DEF AsleepForAReason, SetEnabled
    <3> QED BY <1>4, <3>1 DEF AsleepForAReason, LongPollTypeOK, SetEnabled, lpVars

  <2>2. ASSUME NEW q \in PoolSet, Asleep(q), q = current, pool_enabled'[q] # "disabled"
        PROVE  switching \/ q \in unheard'
    BY <1>4, <2>2 DEF AsleepForAReason, LongPollTypeOK, SetEnabled
  <2> QED BY <1>4, <2>1, <2>2 DEF AsleepForAReason, Asleep, SetEnabled, lpVars
<1> QED BY <1>1, <1>2, <1>3, <1>4

LEMMA TestSteps ==
    ASSUME AsleepForAReason, NEW p \in PoolSet, Test(p)
    PROVE  AsleepForAReason'
<1> DEFINE to == IF pool_enabled[p] = "disabled" \/ p # current THEN "sleep" ELSE "poll"
<1>1. /\ lp[p] = "test" /\ lp'[p] = to /\ lp' \in [PoolSet -> LpStates]
      /\ \A q \in PoolSet \ {p} : lp'[q] = lp[q]
  BY OneThreadMoves DEF Test, LpStates
<1>2. LongPollTypeOK'
  BY <1>1 DEF AsleepForAReason, LongPollTypeOK, Test
<1>3. ASSUME NEW q \in PoolSet, Asleep(q)', q = current', pool_enabled'[q] # "disabled"
      PROVE  switching' \/ q \in unheard'
  <2>1. CASE q = p
    BY <1>1, <1>3, <2>1 DEF Test, Asleep
  <2>2. CASE q # p
    BY <1>1, <1>3, <2>2 DEF Test, Asleep, AsleepForAReason
  <2> QED BY <2>1, <2>2
<1> QED BY <1>2, <1>3 DEF AsleepForAReason

\* select_longpoll_pool gives a pool of the table, or none.
LEMMA LongPollPoolFacts ==
    ASSUME NEW p \in PoolSet
    PROVE  LongPollPool(p) \in PoolSet \union {NoSource}
<1> DEFINE can == (Supports \union Stratum) \ lp_removed
           numbers == {PoolNumber(q) : q \in can}
<1>1. can \subseteq PoolSet
  BY LongPollAssumption DEF LongPollAssumption
<1>2. CASE p \in Supports \/ can = {}
  BY <1>2 DEF LongPollPool
<1>3. CASE p \notin Supports /\ can # {}
  <2>1. \A q \in PoolSet : PoolNumber(q) \in Nat
    <3>1. DOMAIN Pools \subseteq Nat
      BY LongPollAssumption DEF LongPollAssumption
    <3>2. \A q \in PoolSet : \E i \in DOMAIN Pools : Pools[i] = q
      BY DEF PoolSet, ToSet
    <3> QED BY <3>1, <3>2 DEF PoolNumber
  <2>2. numbers \in SUBSET Nat /\ numbers # {}
    BY <1>1, <1>3, <2>1
  <2>3. \E n \in numbers : \A m \in numbers : n <= m
    BY <2>2, MinFacts
  <2>4. \E q \in can : \A r \in can : PoolNumber(q) <= PoolNumber(r)
    BY <2>3
  <2>5. LongPollPool(p) \in can
    BY <1>3, <2>4 DEF LongPollPool
  <2> QED BY <1>1, <2>5
<1> QED BY <1>2, <1>3

LEMMA ThreadSteps ==
    ASSUME AsleepForAReason, NEW p \in PoolSet,
           Select(p) \/ Enter(p) \/ Test(p) \/ Sleep(p) \/ Poll(p) \/ Check(p)
    PROVE  AsleepForAReason'
<1>1. CASE Select(p)
  <2>1. source' \in [PoolSet -> PoolSet \union {NoSource}]
    BY <1>1, LongPollPoolFacts DEF Select, AsleepForAReason, LongPollTypeOK
  <2>2. PICK to \in {"out", "enter"} : LpStep(p, "select", to) /\ UNCHANGED pollPoolVars
    BY <1>1 DEF Select
  <2> QED BY <2>1, <2>2, AwakeSteps DEF LpStates
<1>2. CASE Enter(p)
  <2>1. UNCHANGED pollPoolVars /\ (LpStep(p, "enter", "poll") \/ LpStep(p, "enter", "test"))
    BY <1>2 DEF Enter
  <2>2. source' \in [PoolSet -> PoolSet \union {NoSource}]
    BY <1>2 DEF Enter, AsleepForAReason, LongPollTypeOK
  <2> QED BY <2>1, <2>2, AwakeSteps DEF LpStates
<1>3. CASE Test(p)
  BY <1>3, TestSteps
<1>4. CASE Sleep(p)
  <2>1. source' \in [PoolSet -> PoolSet \union {NoSource}]
    BY <1>4 DEF Sleep, AsleepForAReason, LongPollTypeOK
  <2> QED BY <1>4, <2>1, AwakeSteps DEF Sleep, LpStates
<1>5. CASE Poll(p)
  <2>1. source' \in [PoolSet -> PoolSet \union {NoSource}]
    BY <1>5 DEF Poll, AsleepForAReason, LongPollTypeOK
  <2> QED BY <1>5, <2>1, AwakeSteps DEF Poll, LpStates
<1>6. CASE Check(p)
  <2>1. PICK to \in {"out", "enter"} : LpStep(p, "check", to) /\ UNCHANGED pollPoolVars
    BY <1>6 DEF Check
  <2>2. source' \in [PoolSet -> PoolSet \union {NoSource}]
    BY <1>6, LongPollPoolFacts DEF Check, AsleepForAReason, LongPollTypeOK
  <2> QED BY <2>1, <2>2, AwakeSteps DEF LpStates
<1> QED BY <1>1, <1>2, <1>3, <1>4, <1>5, <1>6

LEMMA LpSteps == AsleepForAReason /\ [LongPollNext]_longPollVars => AsleepForAReason'
<1> SUFFICES ASSUME AsleepForAReason, [LongPollNext]_longPollVars PROVE AsleepForAReason'
  OBVIOUS
<1>1. CASE LongPollNext
  <2>1. current \in PoolSet
    BY DEF AsleepForAReason, LongPollTypeOK
  <2> QED BY <1>1, <2>1, PoolSteps, ThreadSteps DEF LongPollNext
<1>2. CASE UNCHANGED longPollVars
  BY <1>2 DEF AsleepForAReason, LongPollTypeOK, Asleep, longPollVars
<1> QED BY <1>1, <1>2

\* wait_lpcurrent and switch_pools: with any pools, the thread of a current pool
\* that is not disabled sleeps only until a broadcast under way, or because it
\* missed one.
THEOREM SleepIsJustified == LongPollSpec => []AsleepForAReason
BY LpInitially, LpSteps, PTL DEF LongPollSpec

----------------------------------------------------------------------------
(* BlockDetect: a work that was stamped before the last block was added    *)
(* has the present work_block only while a detection is going to count.    *)
(* Increments that do not meet all count, and the first block of all needs *)
(* no counting.                                                            *)

Adding == {t \in Detectors : det[t].step = "add"}

\* The blocks that were numbered are those that were added and those about to be.
Counting ==
    /\ IsFiniteSet(Adding) /\ new_blocks = added + Cardinality(Adding)
    /\ blocks # {} => added >= 1
    /\ \A t \in Detectors :
          /\ det[t].step \in {"first", "read", "write"} => added >= 1
          /\ det[t].step = "add" => det[t].no \in 0 .. new_blocks
          /\ det[t].at \in 1 .. added + 1

OneIncrement ==
    ~overlapped =>
        \A t \in Detectors : det[t].step = "write" =>
            /\ det[t].wb = work_block
            /\ \A s \in Detectors : det[s].step = "write" => s = t

Pending == \E t \in Detectors : det[t].step \in {"first", "read", "write"}
Fresh(w) == w.wb <= work_block /\ (w.at < added /\ w.wb = work_block => Pending)

\* A work that will be staged as it is.
Carries(t) == ~det[t].first /\ det[t].step \notin {"idle", "stamp"}

StaleInv ==
    ~overlapped =>
        /\ \A w \in staged : Fresh(w)
        /\ \A t \in Detectors : Carries(t) => Fresh(det[t])

BlkInv == BlockTypeOK /\ Counting /\ OneIncrement /\ StaleInv

LEMMA BlkInitially == BlockInit => BlkInv
<1> SUFFICES ASSUME BlockInit PROVE BlkInv
  OBVIOUS
<1>1. /\ Tips \in Nat \ {0} /\ MaxWorkBlock \in Nat
  BY BlockDetectAssumption DEF BlockDetectAssumption
<1>2. \A t \in Detectors : det[t] = NoWork
  BY DEF BlockInit
<1>3. NoWork \in PassingWork
  BY <1>1 DEF NoWork, PassingWork, DetSteps
<1>4. BlockTypeOK
  <2>1. det \in [Detectors -> PassingWork]
    BY <1>3 DEF BlockInit
  <2>2. tip \in 1 .. Tips /\ work_block \in 0 .. MaxWorkBlock
    BY <1>1 DEF BlockInit
  <2> QED BY <2>1, <2>2 DEF BlockInit, BlockTypeOK
<1>5. \A t \in Detectors : det[t].step = "idle" /\ det[t].at = 1
  BY <1>2 DEF NoWork
<1>6. Adding = {}
  BY <1>5 DEF Adding
<1>7. Counting
  BY <1>5, <1>6, FS_EmptySet DEF Counting, BlockInit
<1>8. OneIncrement /\ StaleInv
  BY <1>5 DEF OneIncrement, StaleInv, BlockInit, Carries
<1> QED BY <1>4, <1>7, <1>8 DEF BlkInv

----------------------------------------------------------------------------
\* A thread that does not add a block.
LEMMA CountingKept ==
    ASSUME BlkInv, NEW t \in Detectors, \A s \in Detectors \ {t} : det'[s] = det[s],
           det[t].step # "add", det'[t].step # "add", det'[t].at \in 1 .. added + 1,
           det'[t].step \in {"first", "read", "write"} => added >= 1,
           UNCHANGED <<new_blocks, added, blocks>>
    PROVE  Counting'
<1>1. Adding' = Adding
  BY DEF Adding
<1> QED BY <1>1 DEF BlkInv, Counting

\* A thread that is not going to write work_block.
LEMMA OneKept ==
    ASSUME BlkInv, NEW t \in Detectors, \A s \in Detectors \ {t} : det'[s] = det[s],
           det'[t].step # "write", UNCHANGED <<work_block, overlapped>>
    PROVE  OneIncrement'
BY DEF BlkInv, OneIncrement

\* A detection that goes on, or that had not begun.
LEMMA StaleKept ==
    ASSUME BlkInv, NEW t \in Detectors, \A s \in Detectors \ {t} : det'[s] = det[s],
           staged' \subseteq staged, UNCHANGED <<added, work_block>>, overlapped' => overlapped,
           overlapped => overlapped',
           det[t].step \in {"first", "read", "write"} =>
               det'[t].step \in {"first", "read", "write"},
           Carries(t)' => /\ det'[t].wb <= work_block
                          /\ det'[t].at < added /\ det'[t].wb = work_block => Pending'
    PROVE  StaleInv'
<1>1. Pending => Pending'
  BY DEF Pending
<1>2. \A w \in staged : ~overlapped => w.wb <= work_block
                       /\ (w.at < added /\ w.wb = work_block => Pending')
  BY <1>1 DEF BlkInv, StaleInv, Fresh
<1>3. \A s \in Detectors \ {t} : ~overlapped /\ Carries(s) =>
          det[s].wb <= work_block /\ (det[s].at < added /\ det[s].wb = work_block => Pending')
  BY <1>1 DEF BlkInv, StaleInv, Fresh
<1>4. \A s \in Detectors \ {t} : Carries(s)' <=> Carries(s)
  BY DEF Carries
<1> QED BY <1>2, <1>3, <1>4 DEF StaleInv, Fresh

LEMMA GotoFacts ==
    ASSUME BlockTypeOK, NEW t \in Detectors, NEW s \in DetSteps, det' = Goto(t, s)
    PROVE  /\ det' \in [Detectors -> PassingWork]
           /\ det'[t].step = s /\ det'[t].wb = det[t].wb /\ det'[t].at = det[t].at
           /\ det'[t].first = det[t].first /\ det'[t].no = det[t].no
           /\ \A u \in Detectors \ {t} : det'[u] = det[u]
BY DEF BlockTypeOK, Goto, PassingWork

\* A thread takes a new work, or is done with one.
LEMMA BlkTakes ==
    ASSUME BlkInv, NEW t \in Detectors, NEW r \in PassingWork,
           det' = [det EXCEPT ![t] = r], r.at = 1,
           det[t].step \in {"idle", "done"}, r.step \in {"idle", "stamp", "look"},
           r.step = "look" => r.first,
           UNCHANGED <<tip, blocks, new_blocks, work_block, added, overlapped>>
    PROVE  /\ det' \in [Detectors -> PassingWork] /\ Counting' /\ OneIncrement'
           /\ staged' \subseteq staged => StaleInv'
<1>1. /\ det' \in [Detectors -> PassingWork] /\ det'[t] = r
      /\ \A s \in Detectors \ {t} : det'[s] = det[s]
  BY DEF BlkInv, BlockTypeOK
<1>2. r.at \in 1 .. added + 1
  BY DEF BlkInv, BlockTypeOK
<1>3. Counting'
  BY <1>1, <1>2, CountingKept
<1>4. OneIncrement'
  BY <1>1, OneKept
<1>5. ~Carries(t)'
  BY <1>1 DEF Carries
<1>6. staged' \subseteq staged => StaleInv'
  BY <1>1, <1>5, StaleKept
<1> QED BY <1>1, <1>3, <1>4, <1>6

LEMMA NoWorkFacts ==
    /\ NoWork \in PassingWork /\ NoWork.at = 1 /\ NoWork.step = "idle"
    /\ "stamp" \in DetSteps /\ "look" \in DetSteps
<1>1. Tips \in Nat \ {0} /\ MaxWorkBlock \in Nat
  BY BlockDetectAssumption DEF BlockDetectAssumption
<1> QED BY <1>1 DEF NoWork, PassingWork, DetSteps

LEMMA BlkOutside ==
    ASSUME BlkInv,
           \/ NewTip
           \/ \E h \in 1 .. Tips : Fetch(h)
           \/ \E w \in staged : Mined(w)
           \/ \E t \in Pollers : \/ \E h \in 1..Tips, r, c \in BOOLEAN : PollAnswer(t, h, r, c)
                                 \/ DropBackup(t)
    PROVE  BlkInv'
<1>0. /\ BlockTypeOK /\ Scheduler \in Detectors /\ Pollers \subseteq Detectors
      /\ Tips \in Nat \ {0} /\ MaxWorkBlock \in Nat
  BY BlockDetectAssumption DEF BlkInv, Detectors, BlockDetectAssumption
<1>1. CASE NewTip
  <2>1. BlockTypeOK'
    BY <1>0, <1>1 DEF NewTip, BlockTypeOK
  <2>2. Adding' = Adding /\ (Pending' <=> Pending) /\ \A t : Carries(t)' <=> Carries(t)
    BY <1>1 DEF NewTip, Adding, Pending, Carries
  <2>3. Counting' /\ OneIncrement' /\ StaleInv'
    BY <1>1, <2>2 DEF NewTip, BlkInv, Counting, OneIncrement, StaleInv, Fresh
  <2> QED BY <2>1, <2>3 DEF BlkInv
<1>2. ASSUME NEW h \in 1 .. Tips, Fetch(h) PROVE BlkInv'
  <2> DEFINE r == [NoWork EXCEPT !.step = "stamp", !.hash = h]
  <2>1. r \in PassingWork /\ r.at = 1 /\ r.step = "stamp"
    BY NoWorkFacts DEF PassingWork
  <2>2. /\ det' = [det EXCEPT ![Scheduler] = r] /\ det[Scheduler].step = "idle"
        /\ UNCHANGED <<tip, blocks, new_blocks, work_block, staged, added, overlapped>>
    BY <1>2 DEF Fetch
  <2>3. det' \in [Detectors -> PassingWork] /\ Counting' /\ OneIncrement' /\ StaleInv'
    <3> HIDE DEF r
    <3> QED BY <1>0, <2>1, <2>2, BlkTakes
  <2> QED BY <1>0, <2>2, <2>3 DEF BlkInv, BlockTypeOK
<1>3. ASSUME NEW w \in staged, Mined(w) PROVE BlkInv'
  <2>1. BlockTypeOK'
    BY <1>0, <1>3 DEF Mined, BlockTypeOK
  <2>2. Adding' = Adding /\ (Pending' <=> Pending) /\ \A t : Carries(t)' <=> Carries(t)
    BY <1>3 DEF Mined, Adding, Pending, Carries
  <2>3. Counting' /\ OneIncrement' /\ StaleInv'
    BY <1>3, <2>2 DEF Mined, BlkInv, Counting, OneIncrement, StaleInv, Fresh
  <2> QED BY <2>1, <2>3 DEF BlkInv
<1>4. ASSUME NEW t \in Pollers, NEW h \in 1 .. Tips, NEW rej \in BOOLEAN, NEW cur \in BOOLEAN,
             PollAnswer(t, h, rej, cur)
      PROVE  BlkInv'
  <2> DEFINE r == [NoWork EXCEPT !.step = "look", !.hash = h, !.longpoll = TRUE,
                                 !.mandatory = rej, !.current = cur, !.first = TRUE]
  <2>1. r \in PassingWork /\ r.at = 1 /\ r.step = "look" /\ r.first
    BY NoWorkFacts DEF PassingWork

  <2>2. /\ det' = [det EXCEPT ![t] = r] /\ det[t].step = "idle"
        /\ UNCHANGED <<tip, blocks, new_blocks, work_block, staged, added, overlapped>>
    BY <1>4 DEF PollAnswer
  <2>3. det' \in [Detectors -> PassingWork] /\ Counting' /\ OneIncrement' /\ StaleInv'
    <3> HIDE DEF r
    <3> QED BY <1>0, <2>1, <2>2, BlkTakes
  <2> QED BY <1>0, <2>2, <2>3 DEF BlkInv, BlockTypeOK
<1>5. ASSUME NEW t \in Pollers, DropBackup(t) PROVE BlkInv'
  <2>1. NoWork \in PassingWork /\ NoWork.at = 1 /\ NoWork.step = "idle"
    BY <1>0 DEF NoWork, PassingWork, DetSteps
  <2>2. /\ det' = [det EXCEPT ![t] = NoWork] /\ det[t].step = "done"
        /\ UNCHANGED <<tip, blocks, new_blocks, work_block, staged, added, overlapped>>
    BY <1>5 DEF DropBackup
  <2>3. det' \in [Detectors -> PassingWork] /\ Counting' /\ OneIncrement' /\ StaleInv'
    BY <1>0, <2>1, <2>2, BlkTakes
  <2> QED BY <1>0, <2>2, <2>3 DEF BlkInv, BlockTypeOK
<1> QED BY <1>1, <1>2, <1>3, <1>4, <1>5

\* Steps of a work on its way that leave the blocks and the count alone.
LEMMA BlkWaits ==
    ASSUME BlkInv, NEW t \in Detectors,
           \/ Stamp(t) \/ Look(t) \/ FirstBlock(t) \/ RestartThreads(t) \/ Push(t) \/ StageAgain(t)
    PROVE  BlkInv'
<1>0. BlockTypeOK /\ Counting /\ OneIncrement /\ StaleInv
  BY DEF BlkInv
<1>1. /\ added \in Nat /\ work_block \in 0 .. MaxWorkBlock /\ det[t] \in PassingWork
      /\ det[t].at \in 1 .. added + 1 /\ new_blocks \in Nat /\ overlapped \in BOOLEAN
      /\ MaxWorkBlock \in Nat
  BY <1>0, BlockDetectAssumption DEF BlockTypeOK, Counting, BlockDetectAssumption
<1>2. CASE Stamp(t)
  <2> DEFINE a == IF added = 0 THEN 1 ELSE added
  <2>1. /\ UNCHANGED <<tip, blocks, new_blocks, work_block, staged, added, overlapped>>
        /\ det[t].step = "stamp" /\ a \in 1 .. added + 1
        /\ det' = [det EXCEPT ![t].wb = work_block, ![t].step = "look", ![t].at = a]
    BY <1>1, <1>2 DEF Stamp
  <2> HIDE DEF a
  <2>2. det' \in [Detectors -> PassingWork]
    BY <1>0, <1>1, <2>1 DEF BlockTypeOK, PassingWork, DetSteps
  <2>3. /\ det'[t].step = "look" /\ det'[t].wb = work_block /\ det'[t].at = a
        /\ \A s \in Detectors \ {t} : det'[s] = det[s]
    BY <1>0, <1>1, <2>1 DEF BlockTypeOK, PassingWork
  <2>4. BlockTypeOK'
    BY <1>0, <2>1, <2>2 DEF BlockTypeOK
  <2>5. Counting' /\ OneIncrement'
    BY <2>1, <2>3, CountingKept, OneKept
  <2>6. det'[t].wb <= work_block /\ ~(det'[t].at < added)
    BY <1>1, <2>1, <2>3 DEF a
  <2>7. StaleInv'
    BY <2>1, <2>3, <2>6, StaleKept
  <2> QED BY <2>4, <2>5, <2>7 DEF BlkInv
<1>3. CASE Look(t)
  <2>1. PICK s \in {"done", "number", "read"} : det' = Goto(t, s) /\ (s = "read" => Known(det[t].hash))
    BY <1>3 DEF Look
  <2>2. UNCHANGED <<tip, blocks, new_blocks, work_block, staged, added, overlapped>>
        /\ det[t].step = "look"
    BY <1>3 DEF Look
  <2>3. /\ det' \in [Detectors -> PassingWork]
        /\ det'[t].step = s /\ det'[t].wb = det[t].wb /\ det'[t].at = det[t].at
        /\ det'[t].first = det[t].first
        /\ \A u \in Detectors \ {t} : det'[u] = det[u]
    BY <1>0, <2>1, GotoFacts DEF DetSteps
  <2>4. BlockTypeOK'
    BY <1>0, <2>2, <2>3 DEF BlockTypeOK
  <2>5. s = "read" => added >= 1
    BY <1>0, <2>1 DEF Counting, Known
  <2>6. Counting' /\ OneIncrement'
    BY <1>1, <2>2, <2>3, <2>5, CountingKept, OneKept
  <2>7. Carries(t)' => Carries(t)
    BY <2>2, <2>3 DEF Carries
  <2>8. Pending => Pending'
    BY <2>2, <2>3 DEF Pending
  <2>9. CASE ~overlapped
    <3>1. Carries(t)' => /\ det'[t].wb <= work_block
                         /\ det'[t].at < added /\ det'[t].wb = work_block => Pending'
      BY <1>0, <2>3, <2>7, <2>8, <2>9 DEF StaleInv, Fresh
    <3> QED BY <2>2, <2>3, <2>4, <2>6, <3>1, StaleKept DEF BlkInv
  <2> QED BY <2>2, <2>4, <2>6, <2>9 DEF BlkInv, StaleInv
<1>4. CASE FirstBlock(t)
  <2>1. /\ det' = Goto(t, IF new_blocks = 1 THEN "done" ELSE "read")
        /\ UNCHANGED <<tip, blocks, new_blocks, work_block, staged, added, overlapped>>
        /\ det[t].step = "first"
    BY <1>4 DEF FirstBlock
  <2> DEFINE s == IF new_blocks = 1 THEN "done" ELSE "read"
  <2>2. s \in DetSteps /\ s \in {"done", "read"}
    BY DEF DetSteps
  <2>3. /\ det' \in [Detectors -> PassingWork]
        /\ det'[t].step = s /\ det'[t].wb = det[t].wb /\ det'[t].at = det[t].at
        /\ det'[t].first = det[t].first
        /\ \A u \in Detectors \ {t} : det'[u] = det[u]
    BY <1>0, <2>1, <2>2, GotoFacts
  <2>4. BlockTypeOK'
    BY <1>0, <2>1, <2>3 DEF BlockTypeOK
  <2>5. added >= 1
    BY <1>0, <2>1 DEF Counting
  <2>6. Counting' /\ OneIncrement'
    BY <1>1, <2>1, <2>2, <2>3, <2>5, CountingKept, OneKept
  <2>7. Carries(t)' => Carries(t)
    BY <2>1, <2>3 DEF Carries
  <2>8. CASE ~overlapped /\ new_blocks # 1
    <3>1. Pending'
      BY <2>3, <2>8 DEF Pending
    <3>2. Carries(t)' => det'[t].wb <= work_block
      BY <1>0, <2>3, <2>7, <2>8 DEF StaleInv, Fresh
    <3> QED BY <2>1, <2>3, <2>4, <2>6, <2>8, <3>1, <3>2, StaleKept DEF BlkInv
  <2>9. CASE ~overlapped /\ new_blocks = 1
    <3>1. added = 1
      <4>1. Cardinality(Adding) \in Nat /\ new_blocks = added + Cardinality(Adding)
        BY <1>0, FS_CardinalityType DEF Counting
      <4> QED BY <1>1, <2>5, <2>9, <4>1
    <3>2. \A w \in staged : w.at \in 1 .. added + 1
      BY <1>0 DEF BlockTypeOK
    <3>3. \A w \in staged : ~(w.at < added)
      BY <3>1, <3>2
    <3>4. \A u \in Detectors : det[u].at \in 1 .. added + 1
      BY <1>0 DEF Counting
    <3>5. \A u \in Detectors : ~(det'[u].at < added) /\ det'[u].wb = det[u].wb
      BY <2>3, <3>1, <3>4
    <3>6. \A u \in Detectors : Carries(u)' => Carries(u)
      BY <2>3, <2>7 DEF Carries
    <3>7. StaleInv'
      BY <1>0, <2>1, <2>9, <3>3, <3>5, <3>6 DEF StaleInv, Fresh
    <3> QED BY <2>4, <2>6, <3>7 DEF BlkInv
  <2> QED BY <1>1, <2>1, <2>4, <2>6, <2>8, <2>9 DEF BlkInv, StaleInv
<1>5. CASE RestartThreads(t)
  <2>1. /\ det' = Goto(t, "done") /\ det[t].step = "restart" /\ staged' \subseteq staged
        /\ UNCHANGED <<tip, blocks, new_blocks, work_block, added, overlapped>>
    BY <1>5 DEF RestartThreads
  <2>3. /\ det' \in [Detectors -> PassingWork]
        /\ det'[t].step = "done" /\ det'[t].wb = det[t].wb /\ det'[t].at = det[t].at
        /\ det'[t].first = det[t].first
        /\ \A u \in Detectors \ {t} : det'[u] = det[u]
    BY <1>0, <2>1, GotoFacts DEF DetSteps
  <2>4. BlockTypeOK'
    BY <1>0, <2>1, <2>3 DEF BlockTypeOK
  <2>6. Counting' /\ OneIncrement'
    BY <1>1, <2>1, <2>3, CountingKept, OneKept
  <2>7. Carries(t)' => Carries(t)
    BY <2>1, <2>3 DEF Carries
  <2>8. Pending => Pending'
    BY <2>1, <2>3 DEF Pending
  <2>9. CASE ~overlapped
    <3>1. Carries(t)' => /\ det'[t].wb <= work_block
                         /\ det'[t].at < added /\ det'[t].wb = work_block => Pending'
      BY <1>0, <2>3, <2>7, <2>8, <2>9 DEF StaleInv, Fresh
    <3> QED BY <2>1, <2>3, <2>4, <2>6, <3>1, StaleKept DEF BlkInv
  <2> QED BY <2>1, <2>4, <2>6, <2>9 DEF BlkInv, StaleInv
<1>6. CASE Push(t)
  <2>1. /\ det' = [det EXCEPT ![t] = NoWork] /\ det[t].step = "done" /\ ~det[t].first
        /\ staged' = staged \union {[wb |-> det[t].wb, at |-> det[t].at]}
        /\ UNCHANGED <<tip, blocks, new_blocks, work_block, added, overlapped>>
    BY <1>6 DEF Push, HashPush
  <2>2. det' \in [Detectors -> PassingWork] /\ Counting' /\ OneIncrement'
    BY <2>1, NoWorkFacts, BlkTakes
  <2>3. det[t].wb \in 0 .. MaxWorkBlock
    BY <1>1 DEF PassingWork
  <2>4. BlockTypeOK'
    BY <1>0, <1>1, <2>1, <2>2, <2>3 DEF BlockTypeOK
  <2>5. det'[t] = NoWork /\ \A s \in Detectors \ {t} : det'[s] = det[s]
    BY <1>0, <2>1 DEF BlockTypeOK
  <2>6. Pending => Pending'
    BY <2>1, <2>5 DEF Pending
  <2>7. ~Carries(t)' /\ \A s \in Detectors \ {t} : Carries(s)' <=> Carries(s)
    BY <2>5, NoWorkFacts DEF Carries
  <2>8. CASE ~overlapped
    <3>1. Carries(t)
      BY <2>1 DEF Carries
    <3>2. det[t].wb <= work_block /\ (det[t].at < added /\ det[t].wb = work_block => Pending)
      BY <1>0, <2>8, <3>1 DEF StaleInv, Fresh
    <3>3. \A w \in staged' : w.wb <= work_block /\ (w.at < added /\ w.wb = work_block => Pending')
      BY <1>0, <2>1, <2>6, <2>8, <3>2 DEF StaleInv, Fresh
    <3>4. \A s \in Detectors : Carries(s)' =>
              det'[s].wb <= work_block /\ (det'[s].at < added /\ det'[s].wb = work_block => Pending')
      BY <1>0, <2>5, <2>6, <2>7, <2>8 DEF StaleInv, Fresh
    <3>5. StaleInv'
      BY <2>1, <3>3, <3>4 DEF StaleInv, Fresh
    <3> QED BY <2>2, <2>4, <3>5 DEF BlkInv
  <2> QED BY <1>1, <2>1, <2>2, <2>4, <2>8 DEF BlkInv, StaleInv
<1>7. CASE StageAgain(t)
  <2>1. /\ UNCHANGED <<tip, blocks, new_blocks, work_block, staged, added, overlapped>>
        /\ det[t].step = "done"
        /\ det' = [det EXCEPT ![t].step = "stamp", ![t].first = FALSE]
    BY <1>7 DEF StageAgain
  <2>2. det' \in [Detectors -> PassingWork]
    BY <1>0, <1>1, <2>1 DEF BlockTypeOK, PassingWork, DetSteps
  <2>3. /\ det'[t].step = "stamp" /\ det'[t].at = det[t].at
        /\ \A s \in Detectors \ {t} : det'[s] = det[s]
    BY <1>0, <1>1, <2>1 DEF BlockTypeOK, PassingWork
  <2>4. BlockTypeOK'
    BY <1>0, <2>1, <2>2 DEF BlockTypeOK
  <2>5. Counting' /\ OneIncrement'
    BY <1>1, <2>1, <2>3, CountingKept, OneKept
  <2>6. ~Carries(t)'
    BY <2>3 DEF Carries
  <2>7. StaleInv'
    BY <2>1, <2>3, <2>6, StaleKept
  <2> QED BY <2>4, <2>5, <2>7 DEF BlkInv
<1> QED BY <1>2, <1>3, <1>4, <1>5, <1>6, <1>7

LEMMA BlkAdds ==
    ASSUME BlkInv, NEW t \in Detectors, Number(t) \/ AddBlock(t)
    PROVE  BlkInv'
<1>0. BlockTypeOK /\ Counting /\ OneIncrement /\ StaleInv
  BY DEF BlkInv
<1>1. /\ added \in Nat /\ work_block \in 0 .. MaxWorkBlock /\ det[t] \in PassingWork
      /\ new_blocks \in Nat /\ overlapped \in BOOLEAN
      /\ IsFiniteSet(Adding) /\ Cardinality(Adding) \in Nat
      /\ new_blocks = added + Cardinality(Adding)
      /\ \A s \in Detectors : det[s].at \in 1 .. added + 1
  BY <1>0, FS_CardinalityType DEF BlockTypeOK, Counting
<1>2. CASE Number(t)
  <2>1. /\ det' = [det EXCEPT ![t].step = "add", ![t].no = new_blocks, ![t].known = FALSE]
        /\ new_blocks' = new_blocks + 1 /\ det[t].step = "number"
        /\ UNCHANGED <<tip, blocks, work_block, staged, added, overlapped>>
    BY <1>2 DEF Number
  <2>2. det' \in [Detectors -> PassingWork]
    BY <1>0, <1>1, <2>1 DEF BlockTypeOK, PassingWork, DetSteps
  <2>3. /\ det'[t].step = "add" /\ det'[t].at = det[t].at /\ det'[t].wb = det[t].wb
        /\ det'[t].no = new_blocks /\ det'[t].first = det[t].first
        /\ \A s \in Detectors \ {t} : det'[s] = det[s]
    BY <1>0, <1>1, <2>1 DEF BlockTypeOK, PassingWork
  <2>4. BlockTypeOK'
    <3>1. \A b \in blocks : b.no \in 0 .. new_blocks'
      BY <1>0, <1>1, <2>1 DEF BlockTypeOK
    <3> QED BY <1>0, <1>1, <2>1, <2>2, <3>1 DEF BlockTypeOK
  <2>5. Counting'
    <3>1. Adding' = Adding \cup {t} /\ t \notin Adding
      BY <2>1, <2>3 DEF Adding
    <3>2. IsFiniteSet(Adding') /\ new_blocks' = added + Cardinality(Adding')
      <4>1. IsFiniteSet(Adding) /\ Cardinality(Adding) \in Nat
            /\ new_blocks = added + Cardinality(Adding) /\ added \in Nat
        BY <1>1
      <4>2. IsFiniteSet(Adding') /\ Cardinality(Adding') = Cardinality(Adding) + 1
        BY <3>1, <4>1, FS_AddElement, Zenon
      <4>3. new_blocks' = new_blocks + 1
        BY <2>1
      <4> QED BY <4>1, <4>2, <4>3
    <3>3. \A s \in Detectors :
             /\ det'[s].step \in {"first", "read", "write"} => added >= 1
             /\ det'[s].step = "add" => det'[s].no \in 0 .. new_blocks'
             /\ det'[s].at \in 1 .. added + 1
      <4> SUFFICES ASSUME NEW s \in Detectors
                   PROVE  /\ det'[s].step \in {"first", "read", "write"} => added >= 1
                          /\ det'[s].step = "add" => det'[s].no \in 0 .. new_blocks'
                          /\ det'[s].at \in 1 .. added + 1
        OBVIOUS
      <4>1. CASE s = t
        BY <1>1, <2>1, <2>3, <4>1
      <4>2. CASE s # t
        <5>1. det'[s] = det[s]
          BY <2>3, <4>2
        <5>2. /\ det[s].step \in {"first", "read", "write"} => added >= 1
              /\ det[s].step = "add" => det[s].no \in 0 .. new_blocks
              /\ det[s].at \in 1 .. added + 1
          BY <1>0 DEF Counting
        <5> QED BY <1>1, <2>1, <5>1, <5>2
      <4> QED BY <4>1, <4>2
    <3> QED BY <1>0, <2>1, <3>2, <3>3 DEF Counting
  <2>6. OneIncrement'
    BY <2>1, <2>3, OneKept
  <2>7. Carries(t)' => Carries(t)
    BY <2>1, <2>3 DEF Carries
  <2>8. Pending => Pending'
    BY <2>1, <2>3 DEF Pending
  <2>9. CASE ~overlapped
    <3>1. Carries(t)' => /\ det'[t].wb <= work_block
                         /\ det'[t].at < added /\ det'[t].wb = work_block => Pending'
      BY <1>0, <2>3, <2>7, <2>8, <2>9 DEF StaleInv, Fresh
    <3> QED BY <2>1, <2>3, <2>4, <2>5, <2>6, <3>1, StaleKept DEF BlkInv
  <2> QED BY <2>1, <2>4, <2>5, <2>6, <2>9 DEF BlkInv, StaleInv
<1>3. CASE AddBlock(t)
  <2> DEFINE b == [hash |-> det[t].hash, no |-> det[t].no]
  <2>1. /\ det' = Goto(t, "first") /\ det[t].step = "add" /\ added' = added + 1
        /\ UNCHANGED <<tip, new_blocks, work_block, staged, overlapped>>
        /\ blocks' \subseteq blocks \union {b}
    BY <1>3 DEF AddBlock
  <2>2. /\ det' \in [Detectors -> PassingWork]
        /\ det'[t].step = "first" /\ det'[t].wb = det[t].wb /\ det'[t].at = det[t].at
        /\ det'[t].first = det[t].first
        /\ \A u \in Detectors \ {t} : det'[u] = det[u]
    BY <1>0, <2>1, GotoFacts DEF DetSteps
  <2>3. b.hash \in 1 .. Tips /\ b.no \in 0 .. new_blocks
    BY <1>0, <1>1, <2>1 DEF PassingWork, Counting
  <2>4. BlockTypeOK'
    <3>1. \A c \in blocks' : c.hash \in 1 .. Tips /\ c.no \in 0 .. new_blocks
      <4> HIDE DEF b
      <4> QED BY <1>0, <2>1, <2>3 DEF BlockTypeOK
    <3>2. \A w \in staged : w.wb \in 0 .. MaxWorkBlock /\ w.at \in 1 .. added + 1
      BY <1>0 DEF BlockTypeOK
    <3>3. \A w \in staged : w.at \in 1 .. (added' + 1)
      BY <1>1, <2>1, <3>2
    <3> QED BY <1>0, <1>1, <2>1, <2>2, <3>1, <3>2, <3>3 DEF BlockTypeOK
  <2>5. Counting'
    <3>1. Adding' = Adding \ {t} /\ t \in Adding
      BY <2>1, <2>2 DEF Adding
    <3>2. IsFiniteSet(Adding') /\ new_blocks' = added' + Cardinality(Adding')
      <4>1. IsFiniteSet(Adding) /\ Cardinality(Adding) \in Nat
            /\ new_blocks = added + Cardinality(Adding) /\ added \in Nat
        BY <1>1
      <4>2. IsFiniteSet(Adding') /\ Cardinality(Adding') = Cardinality(Adding) - 1
        BY <3>1, <4>1, FS_RemoveElement, Zenon
      <4>3. new_blocks' = new_blocks /\ added' = added + 1
        BY <2>1
      <4> QED BY <4>1, <4>2, <4>3
    <3>3. \A s \in Detectors :
             /\ det'[s].step \in {"first", "read", "write"} => added' >= 1
             /\ det'[s].step = "add" => det'[s].no \in 0 .. new_blocks'
             /\ det'[s].at \in 1 .. added' + 1
      <4> SUFFICES ASSUME NEW s \in Detectors
                   PROVE  /\ det'[s].step \in {"first", "read", "write"} => added' >= 1
                          /\ det'[s].step = "add" => det'[s].no \in 0 .. new_blocks'
                          /\ det'[s].at \in 1 .. added' + 1
        OBVIOUS
      <4>1. CASE s = t
        BY <1>1, <2>1, <2>2, <4>1
      <4>2. CASE s # t
        <5>1. det'[s] = det[s]
          BY <2>2, <4>2
        <5>2. /\ det[s].step = "add" => det[s].no \in 0 .. new_blocks
              /\ det[s].at \in 1 .. added + 1
          BY <1>0 DEF Counting
        <5> QED BY <1>1, <2>1, <5>1, <5>2
      <4> QED BY <4>1, <4>2
    <3> QED BY <1>1, <2>1, <3>2, <3>3 DEF Counting
  <2>6. OneIncrement'
    BY <2>1, <2>2, OneKept
  <2>7. Carries(t)' => Carries(t)
    BY <2>1, <2>2 DEF Carries
  <2>8. Pending'
    BY <2>2 DEF Pending
  <2>9. CASE ~overlapped
    <3>1. \A w \in staged : w.wb <= work_block
      BY <1>0, <2>9 DEF StaleInv, Fresh
    <3>2. \A s \in Detectors : Carries(s)' => det'[s].wb <= work_block
      BY <1>0, <2>2, <2>7, <2>9 DEF StaleInv, Fresh, Carries
    <3>3. StaleInv'
      BY <2>1, <2>8, <3>1, <3>2 DEF StaleInv, Fresh
    <3> QED BY <2>4, <2>5, <2>6, <3>3 DEF BlkInv
  <2> QED BY <2>1, <2>4, <2>5, <2>6, <2>9 DEF BlkInv, StaleInv
<1> QED BY <1>2, <1>3

\* ++work_block, in two steps.
LEMMA BlkCounts ==
    ASSUME BlkInv, NEW t \in Detectors, ReadCount(t) \/ WriteCount(t)
    PROVE  BlkInv'
<1>0. BlockTypeOK /\ Counting /\ OneIncrement /\ StaleInv
  BY DEF BlkInv
<1>1. /\ added \in Nat /\ work_block \in 0 .. MaxWorkBlock /\ det[t] \in PassingWork
      /\ MaxWorkBlock \in Nat /\ overlapped \in BOOLEAN
      /\ det[t].at \in 1 .. added + 1
  BY <1>0, BlockDetectAssumption DEF BlockTypeOK, Counting, BlockDetectAssumption
<1>2. CASE ReadCount(t)
  <2>1. /\ det' = [det EXCEPT ![t].step = "write", ![t].wb = work_block]
        /\ det[t].step = "read"
        /\ overlapped' = (overlapped \/ \E s \in Detectors : det[s].step = "write")
        /\ UNCHANGED <<tip, blocks, new_blocks, work_block, staged, added>>
    BY <1>2 DEF ReadCount
  <2>2. det' \in [Detectors -> PassingWork]
    BY <1>0, <1>1, <2>1 DEF BlockTypeOK, PassingWork, DetSteps
  <2>3. /\ det'[t].step = "write" /\ det'[t].at = det[t].at /\ det'[t].wb = work_block
        /\ det'[t].first = det[t].first
        /\ \A s \in Detectors \ {t} : det'[s] = det[s]
    BY <1>0, <1>1, <2>1 DEF BlockTypeOK, PassingWork
  <2>4. BlockTypeOK'
    BY <1>0, <2>1, <2>2 DEF BlockTypeOK
  <2>5. added >= 1
    BY <1>0, <2>1 DEF Counting
  <2>6. Counting'
    BY <1>1, <2>1, <2>3, <2>5, CountingKept
  <2>7. OneIncrement'
    <3> SUFFICES ASSUME ~overlapped', NEW s \in Detectors, det'[s].step = "write"
                 PROVE  /\ det'[s].wb = work_block'
                        /\ \A u \in Detectors : det'[u].step = "write" => u = s
      BY DEF OneIncrement
    <3>1. \A u \in Detectors : det[u].step # "write"
      BY <2>1
    <3>2. \A u \in Detectors : det'[u].step = "write" => u = t
      BY <2>3, <3>1
    <3>3. s = t
      BY <3>2
    <3>4. work_block' = work_block
      BY <2>1
    <3> QED BY <2>3, <3>2, <3>3, <3>4
  <2>8. Pending'
    BY <2>3 DEF Pending
  <2>9. CASE ~overlapped
    <3>1. \A w \in staged : w.wb <= work_block
      BY <1>0, <2>9 DEF StaleInv, Fresh
    <3>2. \A s \in Detectors : Carries(s)' => det'[s].wb <= work_block
      <4>1. det'[t].wb <= work_block
        BY <1>1, <2>3
      <4> QED BY <1>0, <2>3, <2>9, <4>1 DEF StaleInv, Fresh, Carries
    <3>3. StaleInv'
      BY <2>1, <2>8, <3>1, <3>2 DEF StaleInv, Fresh
    <3> QED BY <2>4, <2>6, <2>7, <3>3 DEF BlkInv
  <2> QED BY <2>1, <2>4, <2>6, <2>7, <2>9 DEF BlkInv, StaleInv
<1>3. CASE WriteCount(t)
  <2>1. PICK s \in {"restart", "done"} :
           det' = [det EXCEPT ![t].wb = work_block', ![t].at = added, ![t].longpoll = FALSE,
                              ![t].step = s]
    BY <1>3 DEF WriteCount
  <2>2. /\ det[t].step = "write" /\ det[t].wb < MaxWorkBlock /\ work_block' = det[t].wb + 1
        /\ UNCHANGED <<tip, blocks, new_blocks, staged, added, overlapped>>
    BY <1>3 DEF WriteCount
  <2>3. work_block' \in 0 .. MaxWorkBlock /\ added \in 1 .. added + 1
    BY <1>0, <1>1, <2>2 DEF PassingWork, Counting
  <2>4. det' \in [Detectors -> PassingWork]
    BY <1>0, <1>1, <2>1, <2>3 DEF BlockTypeOK, PassingWork, DetSteps
  <2>5. /\ det'[t].step = s /\ det'[t].at = added /\ det'[t].wb = work_block'
        /\ \A u \in Detectors \ {t} : det'[u] = det[u]
    BY <1>0, <1>1, <2>1 DEF BlockTypeOK, PassingWork
  <2>6. BlockTypeOK'
    BY <1>0, <2>2, <2>3, <2>4 DEF BlockTypeOK
  <2>7. Counting'
    BY <1>1, <2>2, <2>3, <2>5, CountingKept
  <2>8. CASE ~overlapped
    <3>1. /\ det[t].wb = work_block /\ work_block' = work_block + 1
          /\ \A u \in Detectors \ {t} : det[u].step # "write"
      BY <1>0, <2>2, <2>8 DEF OneIncrement
    <3>2. OneIncrement'
      BY <2>5, <3>1 DEF OneIncrement
    <3>3. \A w \in staged : w.wb <= work_block /\ w.wb \in Nat
      BY <1>0, <1>1, <2>8 DEF StaleInv, Fresh, BlockTypeOK
    <3>4. \A w \in staged : w.wb <= work_block' /\ w.wb # work_block'
      BY <1>1, <3>1, <3>3
    <3>5. \A u \in Detectors \ {t} : Carries(u)' => det'[u].wb <= work_block' /\ det'[u].wb # work_block'
      <4> SUFFICES ASSUME NEW u \in Detectors \ {t}, Carries(u)'
                   PROVE  det'[u].wb <= work_block' /\ det'[u].wb # work_block'
        OBVIOUS
      <4>1. det'[u] = det[u] /\ Carries(u)
        BY <2>5 DEF Carries
      <4>2. det[u].wb <= work_block /\ det[u].wb \in 0 .. MaxWorkBlock
        BY <1>0, <2>8, <4>1 DEF StaleInv, Fresh, BlockTypeOK, PassingWork
      <4> QED BY <1>1, <3>1, <4>1, <4>2
    <3>6. det'[t].wb <= work_block' /\ ~(det'[t].at < added')
      BY <1>1, <2>2, <2>3, <2>5
    <3>7. StaleInv'
      BY <2>2, <3>4, <3>5, <3>6 DEF StaleInv, Fresh
    <3> QED BY <2>6, <2>7, <3>2, <3>7 DEF BlkInv
  <2> QED BY <2>2, <2>6, <2>7, <2>8 DEF BlkInv, StaleInv, OneIncrement
<1> QED BY <1>2, <1>3

LEMMA BlkSteps == BlkInv /\ [BlockNext]_blockVars => BlkInv'
<1> SUFFICES ASSUME BlkInv, [BlockNext]_blockVars PROVE BlkInv'
  OBVIOUS
<1>1. CASE BlockNext
  <2>1. Pollers \subseteq Detectors
    BY DEF Detectors
  <2> QED BY <1>1, <2>1, BlkOutside, BlkWaits, BlkAdds, BlkCounts DEF BlockNext
<1>2. CASE UNCHANGED blockVars
  <2>1. Adding' = Adding /\ (Pending' <=> Pending) /\ \A t : Carries(t)' <=> Carries(t)
    BY <1>2 DEF blockVars, Adding, Pending, Carries
  <2> QED BY <1>2, <2>1
      DEF blockVars, BlkInv, BlockTypeOK, Counting, OneIncrement, StaleInv, Fresh
<1> QED BY <1>1, <1>2

\* test_work_current, stage_work and stale_work: with any threads, blocks and
\* works, what was stamped before the last block was added is stale when no
\* detection is under way, unless increments of work_block have met.
THEOREM OldWorkGoesStale == BlockSpec => []OldWorkIsStale
<1>1. BlkInv => OldWorkIsStale
  <2> SUFFICES ASSUME BlkInv PROVE OldWorkIsStale
    OBVIOUS
  <2>1. NoDetection => ~Pending
    BY DEF NoDetection, Pending
  <2> QED BY <2>1 DEF BlkInv, StaleInv, Fresh, OldWorkIsStale
<1> QED BY <1>1, BlkInitially, BlkSteps, PTL DEF BlockSpec
=============================================================================
