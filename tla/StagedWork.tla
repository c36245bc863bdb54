----------------------------- MODULE StagedWork -----------------------------
(***************************************************************************)
(* The queue of staged work (yacminer.c): the hash table staged_work and   *)
(* the counter staged_rollable, both under stgd_lock; the threads that     *)
(* make work and stage it (the getwork scheduler main() has become, and    *)
(* the long poll thread); the miners that pop it; and everything that      *)
(* takes work out again: staleness, a pool switched away from, a lost      *)
(* stratum connection.                                                     *)
(*                                                                         *)
(* A work struct is an element of Struct, its fields heap[s].  Rolling a   *)
(* work increments the ntime of its header, so what a miner searches is    *)
(* the pair of the header the pool gave (base) and the rolls done on it.   *)
(* A critical section of stgd_lock is one step.                            *)
(***************************************************************************)
EXTENDS Integers, FiniteSets

CONSTANTS
    Struct,       \* the work structs memory has room for
    Nil,          \* the null pointer
    Pool,         \* the pools
    StratumPool,  \* those with has_stratum
    Scheduler,    \* the thread of main's getwork scheduler
    LongPoller,   \* the longpoll thread
    Miner,        \* the mining threads
    OptQueue,     \* opt_queue
    RollLimit,    \* rolls a work may take (7000 in can_roll)
    RollWindow,   \* age up to which should_roll rolls a work
    Expiry,       \* age from which stale_work calls a work expired
    FailOnly,     \* opt_fail_only
    MaxBase,      \* bound: headers the pools give
    MaxChain,     \* bound: blocks of the network
    MaxJob,       \* bound: jobs a stratum pool announces
    MaxTime       \* bound: the clock

ASSUME NilAssumption == Nil \notin Struct
ASSUME StructAssumption == IsFiniteSet(Struct)
ASSUME MinerAssumption == IsFiniteSet(Miner)
ASSUME StagerAssumption == Scheduler # LongPoller
ASSUME BoundAssumption ==
    /\ {OptQueue, RollLimit, RollWindow, Expiry} \subseteq Nat
    /\ {MaxBase, MaxChain, MaxJob, MaxTime} \subseteq Nat
    /\ FailOnly \in BOOLEAN
    /\ StratumPool \subseteq Pool /\ Pool # {}

VARIABLES
    heap,             \* heap[s]: the fields of struct s
    staged,           \* the structs in staged_work
    staged_rollable,  \* the counter
    work_block,       \* the number of the block being worked on
    seen,             \* the blocks in the block database
    stager,           \* stager[t]: the locals of a thread that stages work
    held,             \* held[m]: the struct miner m has popped, or Nil
    mined,            \* history: the searches miners took on
    cp,               \* current_pool()
    clearing,         \* pools whose work is about to be cleared
    up,               \* up[p]: stratum_active and stratum_notify
    job,              \* job[p]: the number of p's current job
    bases,            \* headers given so far
    chain,            \* the network's current block
    now               \* the clock

queueVars == <<staged, staged_rollable>>
blockVars == <<work_block, seen>>
poolVars == <<cp, clearing, up, job>>
envVars == <<bases, chain, now>>
vars == <<heap, queueVars, blockVars, stager, held, mined, poolVars, envVars>>

Stager == {Scheduler, LongPoller}

Fields == [base : Nat, rolls : Nat, pool : Pool, rolltime : BOOLEAN,
           clone : BOOLEAN, longpoll : BOOLEAN, mandatory : BOOLEAN,
           chain : Nat, work_block : Nat, tv_staged : Int, job : Nat]

Pointer == Struct \cup {Nil}

\* Where a staging thread is: in stage_work ("stamp" to "push"), in the
\* test_work_current within it or within convert_to_work ("look" to "restart"),
\* or in convert_to_work and clone_work ("convert", "loop", "roll", "last").
Control == {"idle", "fetch", "stamp", "look", "new", "again", "restart",
            "push", "convert", "loop", "roll", "last"}

Locals == [pc : Control, work : Pointer, clone : Pointer,
           target : {"work", "clone"},  \* which of the two is being staged
           tested : Control,            \* what follows test_work_current
           next : Control,              \* what follows stage_work
           mrs : Nat, cloned : BOOLEAN]

IdleLocals == [pc |-> "idle", work |-> Nil, clone |-> Nil, target |-> "work",
               tested |-> "push", next |-> "idle", mrs |-> 0, cloned |-> FALSE]

Target(t) == IF stager[t].target = "work" THEN stager[t].work ELSE stager[t].clone

Staging == {"stamp", "look", "new", "again", "restart", "push"}

\* The locals a control point uses are not null; the others are.
LocalsOK(t) ==
    LET l == stager[t] IN
    /\ l.pc \in {"idle", "fetch"} => l.work = Nil /\ l.clone = Nil
    /\ l.pc \in Staging =>
          /\ l.next = "idle" => IF l.target = "work" THEN l.clone = Nil ELSE l.work = Nil
          /\ l.next = "roll" => l.target = "clone" /\ l.work # Nil
          /\ l.next = "last" => l.target = "work" /\ l.clone # Nil
          /\ l.next \in {"idle", "roll", "last"}
          /\ l.tested = "convert" => l.target = "work" /\ l.next = "idle"
          /\ l.tested \in {"push", "convert"}
          /\ Target(t) # Nil
    /\ l.pc \in {"convert", "loop", "roll"} => l.work # Nil
    /\ l.pc \in {"convert", "roll"} => l.clone = Nil
    /\ l.pc \in {"loop", "last"} => l.clone # Nil
    /\ l.pc = "last" => l.work = Nil

TypeOK ==
    /\ heap \in [Struct -> Fields]
    /\ staged \subseteq Struct
    /\ staged_rollable \in Nat
    /\ work_block \in Nat
    /\ seen \subseteq Nat
    /\ stager \in [Stager -> Locals]
    /\ \A t \in Stager : LocalsOK(t)
    /\ held \in [Miner -> Pointer]
    /\ mined \subseteq Nat \X Nat
    /\ cp \in Pool
    /\ clearing \subseteq Pool
    /\ up \in [Pool -> BOOLEAN]
    /\ job \in [Pool -> Nat]
    /\ bases \in Nat /\ chain \in Nat /\ now \in Nat

----------------------------------------------------------------------------
(* Structs: who owns which, and what a work is.                            *)

LocalTo(t) == {stager[t].work, stager[t].clone} \ {Nil}

Popped == {held[m] : m \in Miner} \ {Nil}

Free == Struct \ (staged \cup Popped \cup UNION {LocalTo(t) : t \in Stager})

work_rollable(s) == ~heap[s].clone /\ heap[s].rolltime

\* What HASH_ITER may meet first: hash_push keeps the table sorted by the second
\* a work was staged in.
Oldest(S) == {s \in S : \A r \in S : heap[s].tv_staged <= heap[r].tv_staged}

Rollable == {s \in staged : work_rollable(s)}

Search(s) == <<heap[s].base, heap[s].rolls>>

\* stale_work(work, share = false)
stale_work(s) ==
    LET w == heap[s] IN
    \/ w.work_block # work_block
    \/ w.pool \in StratumPool /\ (~up[w.pool] \/ w.job # job[w.pool])
    \/ now >= w.tv_staged + Expiry
    \/ FailOnly /\ w.pool # cp /\ ~w.mandatory

Stale == {s \in staged : stale_work(s)}

can_roll(s) ==
    /\ heap[s].rolltime /\ ~heap[s].clone
    /\ heap[s].rolls < RollLimit
    /\ ~stale_work(s)

should_roll(s) ==
    /\ heap[s].pool = cp
    /\ now <= heap[s].tv_staged + RollWindow

roll_work(w) == [w EXCEPT !.rolls = @ + 1]

\* make_clone: a copy made to look one second older than the original
make_clone(w) == [w EXCEPT !.clone = TRUE, !.longpoll = FALSE, !.mandatory = FALSE,
                           !.tv_staged = w.tv_staged - 1]

pool_localgen(p) == p \in StratumPool

----------------------------------------------------------------------------
SomePool == CHOOSE p \in Pool : TRUE

Blank == [base |-> 0, rolls |-> 0, pool |-> SomePool, rolltime |-> FALSE,
          clone |-> FALSE, longpoll |-> FALSE, mandatory |-> FALSE,
          chain |-> 0, work_block |-> 0, tv_staged |-> 0, job |-> 0]

Init ==
    /\ heap = [s \in Struct |-> Blank]
    /\ staged = {} /\ staged_rollable = 0
    /\ work_block = 0 /\ seen = {}
    /\ stager = [t \in Stager |-> IdleLocals]
    /\ held = [m \in Miner |-> Nil]
    /\ mined = {}
    /\ cp \in Pool
    /\ clearing = {}
    /\ up = [p \in Pool |-> FALSE]
    /\ job = [p \in Pool |-> 0]
    /\ bases = 0 /\ chain = 1 /\ now = 1

At(t, label) == stager[t].pc = label

Goto(t, label) == stager' = [stager EXCEPT ![t].pc = label]

\* free_work
Wipe(S) == [s \in Struct |-> IF s \in S THEN Blank ELSE heap[s]]

----------------------------------------------------------------------------
(* Making work.                                                            *)

\* A header from pool p: what getwork, gen_stratum_work or a long poll answer
\* fill a fresh struct with.
NewWork(p, rolltime, longpoll, mandatory) ==
    [Blank EXCEPT !.base = bases + 1, !.pool = p, !.rolltime = rolltime,
                  !.longpoll = longpoll, !.mandatory = mandatory,
                  !.chain = chain, !.tv_staged = now, !.job = job[p]]

Make(t, w, label, tested) ==
    \E new \in Free :
        /\ bases < MaxBase
        /\ heap' = [heap EXCEPT ![new] = w]
        /\ stager' = [stager EXCEPT ![t] = [IdleLocals EXCEPT
                          !.pc = label, !.work = new, !.tested = tested]]
        /\ bases' = bases + 1

\* The scheduler goes on while no more than max_staged works are staged.
MaxStaged ==
    IF ~pool_localgen(cp) /\ staged_rollable = 0
    THEN OptQueue + Cardinality(Miner)
    ELSE OptQueue

Wanted == Cardinality(staged) <= MaxStaged

\* A stratum pool: gen_stratum_work, then stage_work.
GenStratum ==
    /\ At(Scheduler, "idle") /\ Wanted
    /\ \E p \in StratumPool :
        /\ up[p]
        /\ Make(Scheduler, NewWork(p, FALSE, FALSE, FALSE), "stamp", "push")
    /\ UNCHANGED <<queueVars, blockVars, held, mined, poolVars, chain, now>>

RollCandidates == {s \in staged : can_roll(s) /\ should_roll(s)}

\* Bug: the master is not rolled again after the clone was made.
CloneRolledOnce ==
    /\ At(Scheduler, "idle") /\ Wanted
    /\ staged_rollable # 0
    /\ \E s \in Oldest(RollCandidates), new \in Free :
        /\ heap' = [heap EXCEPT ![s] = roll_work(heap[s]),
                                ![new] = make_clone(roll_work(heap[s]))]
        /\ stager' = [stager EXCEPT ![Scheduler] = [IdleLocals EXCEPT
                          !.pc = "stamp", !.work = new]]
    /\ UNCHANGED <<queueVars, blockVars, held, mined, poolVars, envVars>>

\* clone_available, when it finds a master to roll: the first in the table,
\* which is sorted by the second it was staged in.
CloneAvailable ==
    /\ At(Scheduler, "idle") /\ Wanted
    /\ staged_rollable # 0
    /\ \E s \in Oldest(RollCandidates), new \in Free :
        /\ heap' = [heap EXCEPT
                      ![s] = roll_work(roll_work(heap[s])),
                      ![new] = make_clone(roll_work(heap[s]))]
        /\ stager' = [stager EXCEPT ![Scheduler] = [IdleLocals EXCEPT
                          !.pc = "stamp", !.work = new]]
    /\ UNCHANGED <<queueVars, blockVars, held, mined, poolVars, envVars>>

\* clone_available found none: ask a pool for work ...
CloneUnavailable ==
    /\ At(Scheduler, "idle") /\ Wanted
    /\ staged_rollable = 0 \/ RollCandidates = {}
    /\ Goto(Scheduler, "fetch")
    /\ UNCHANGED <<heap, queueVars, blockVars, held, mined, poolVars, envVars>>

\* ... and get_upstream_work answers.
Fetched ==
    /\ At(Scheduler, "fetch")
    /\ \E p \in Pool \ StratumPool, rolltime \in BOOLEAN :
        Make(Scheduler, NewWork(p, rolltime, FALSE, FALSE), "stamp", "push")
    /\ UNCHANGED <<queueVars, blockVars, held, mined, poolVars, chain, now>>

\* convert_to_work: a long poll answer is tested for a new block before it is
\* cloned and staged.  It is mandatory when its pool is POOL_REJECTING.
LongPollAnswer ==
    /\ At(LongPoller, "idle")
    /\ \E p \in Pool \ StratumPool, rolltime \in BOOLEAN, mandatory \in BOOLEAN :
        Make(LongPoller, NewWork(p, rolltime, TRUE, mandatory), "look", "convert")
    /\ UNCHANGED <<queueVars, blockVars, held, mined, poolVars, chain, now>>

----------------------------------------------------------------------------
(* stage_work: the stamp, test_work_current, hash_push.                    *)

\* Have t call stage_work on one of its structs and go on at label after it.
Stage(l, target, label) ==
    [l EXCEPT !.pc = "stamp", !.target = target, !.tested = "push", !.next = label]

Stamp(t) ==
    /\ At(t, "stamp")
    /\ heap' = [heap EXCEPT ![Target(t)].work_block = work_block]
    /\ Goto(t, "look")
    /\ UNCHANGED <<queueVars, blockVars, held, mined, poolVars, envVars>>

\* test_work_current: block_exists, under blk_lock.  The verdict is acted on
\* after the lock is let go.
Look(t) ==
    LET w == heap[Target(t)] IN
    /\ At(t, "look")
    /\ Goto(t, IF w.mandatory THEN stager[t].tested
               ELSE IF w.chain \notin seen THEN "new"
               ELSE IF w.longpoll THEN "again"
               ELSE stager[t].tested)
    /\ UNCHANGED <<heap, queueVars, blockVars, held, mined, poolVars, envVars>>

\* Enter the block; the first one of all changes nothing else.
NewBlock(t) ==
    /\ At(t, "new")
    /\ seen' = seen \cup {heap[Target(t)].chain}
    /\ IF seen = {}
       THEN Goto(t, stager[t].tested) /\ UNCHANGED <<heap, work_block>>
       ELSE /\ Goto(t, "restart")
            /\ work_block' = work_block + 1
            /\ heap' = [heap EXCEPT ![Target(t)].work_block = work_block + 1,
                                    ![Target(t)].longpoll = FALSE]
    /\ UNCHANGED <<queueVars, held, mined, poolVars, envVars>>

\* A long poll for a block already known: a restart if it is for our pool.
LongPollAgain(t) ==
    /\ At(t, "again")
    /\ work_block' = work_block + 1
    /\ heap' = [heap EXCEPT ![Target(t)].work_block = work_block + 1,
                            ![Target(t)].longpoll = FALSE]
    /\ Goto(t, IF heap[Target(t)].pool = cp THEN "restart" ELSE stager[t].tested)
    /\ UNCHANGED <<queueVars, seen, held, mined, poolVars, envVars>>

\* restart_threads: discard_stale, under stgd_lock
Restart(t) ==
    /\ At(t, "restart")
    /\ staged' = staged \ Stale
    /\ heap' = Wipe(Stale)
    /\ Goto(t, stager[t].tested)
    /\ UNCHANGED <<staged_rollable, blockVars, held, mined, poolVars, envVars>>

\* Bug: the thread keeps its pointer to the struct it has staged.
PushedKept(l) == [l EXCEPT !.pc = l.next]

\* A struct that has been pushed is no longer the thread's.
Pushed(l) ==
    IF l.next = "idle" THEN IdleLocals
    ELSE IF l.target = "work" THEN [l EXCEPT !.pc = l.next, !.work = Nil]
    ELSE [l EXCEPT !.pc = l.next, !.clone = Nil]

\* Bug: a rollable master is pushed without being counted.
HashPushUncounted(t) ==
    LET s == Target(t)
        stale == {r \in staged \cup {s} : stale_work(r)}
    IN
    /\ At(t, "push")
    /\ staged' = (staged \cup {s}) \ stale
    /\ heap' = Wipe(stale)
    /\ stager' = [stager EXCEPT ![t] = Pushed(stager[t])]
    /\ UNCHANGED <<staged_rollable, blockVars, held, mined, poolVars, envVars>>

\* hash_push, with the discard_stale_locked it ends in
HashPush(t) ==
    LET s == Target(t)
        stale == {r \in staged \cup {s} : stale_work(r)}
    IN
    /\ At(t, "push")
    /\ staged_rollable' = IF work_rollable(s) THEN staged_rollable + 1 ELSE staged_rollable
    /\ staged' = (staged \cup {s}) \ stale
    /\ heap' = Wipe(stale)
    /\ stager' = [stager EXCEPT ![t] = Pushed(stager[t])]
    /\ UNCHANGED <<blockVars, held, mined, poolVars, envVars>>

----------------------------------------------------------------------------
(* The rest of convert_to_work: clone_work on the long poll's work.        *)

TotalRoom == Cardinality(Miner) + OptQueue

\* With fail_only, a backup pool's work is only good for the block it showed.
Unwanted(t) ==
    /\ At(t, "convert")
    /\ heap[stager[t].work].pool # cp /\ FailOnly /\ ~heap[stager[t].work].mandatory
    /\ heap' = Wipe({stager[t].work})
    /\ stager' = [stager EXCEPT ![t] = IdleLocals]
    /\ UNCHANGED <<queueVars, blockVars, held, mined, poolVars, envVars>>

Convert(t) ==
    LET w == heap[stager[t].work] IN
    /\ At(t, "convert")
    /\ w.pool = cp \/ ~FailOnly \/ w.mandatory
    /\ IF Cardinality(staged) >= TotalRoom
       THEN /\ stager' = [stager EXCEPT ![t] = Stage(stager[t], "work", "idle")]
            /\ UNCHANGED heap
       ELSE \E new \in Free :
            /\ heap' = [heap EXCEPT ![new] = make_clone(w)]
            /\ stager' = [stager EXCEPT
                  ![t] = [@ EXCEPT !.pc = "loop", !.clone = new,
                                   !.mrs = TotalRoom - Cardinality(staged)]]
    /\ UNCHANGED <<queueVars, blockVars, held, mined, poolVars, envVars>>

RollsOn(t) ==
    stager[t].mrs > 0 /\ can_roll(stager[t].work) /\ should_roll(stager[t].work)

LoopStage(t) ==
    /\ At(t, "loop") /\ RollsOn(t)
    /\ stager' = [stager EXCEPT
          ![t] = Stage([stager[t] EXCEPT !.mrs = stager[t].mrs - 1], "clone", "roll")]
    /\ UNCHANGED <<heap, queueVars, blockVars, held, mined, poolVars, envVars>>

LoopRoll(t) ==
    LET w == heap[stager[t].work] IN
    /\ At(t, "roll")
    /\ \E new \in Free :
        /\ heap' = [heap EXCEPT ![stager[t].work] = roll_work(roll_work(w)),
                                ![new] = make_clone(roll_work(w))]
        /\ stager' = [stager EXCEPT
              ![t] = [@ EXCEPT !.pc = "loop", !.clone = new, !.cloned = TRUE]]
    /\ UNCHANGED <<queueVars, blockVars, held, mined, poolVars, envVars>>

\* The master goes back to the queue and its last clone is what is staged ...
LoopEndCloned(t) ==
    /\ At(t, "loop") /\ ~RollsOn(t) /\ stager[t].cloned
    /\ stager' = [stager EXCEPT ![t] = Stage(stager[t], "work", "last")]
    /\ UNCHANGED <<heap, queueVars, blockVars, held, mined, poolVars, envVars>>

StageLast(t) ==
    /\ At(t, "last")
    /\ stager' = [stager EXCEPT ![t] = Stage(stager[t], "clone", "idle")]
    /\ UNCHANGED <<heap, queueVars, blockVars, held, mined, poolVars, envVars>>

\* ... or the clone was not needed.
LoopEndUncloned(t) ==
    /\ At(t, "loop") /\ ~RollsOn(t) /\ ~stager[t].cloned
    /\ heap' = Wipe({stager[t].clone})
    /\ stager' = [stager EXCEPT
          ![t] = Stage([stager[t] EXCEPT !.clone = Nil], "work", "idle")]
    /\ UNCHANGED <<queueVars, blockVars, held, mined, poolVars, envVars>>

----------------------------------------------------------------------------
(* Miners: get_work.                                                       *)

\* Bug: >= for >.
PopChoicesOffByOne ==
    IF Cardinality(staged) >= staged_rollable
    THEN Oldest(staged \ Rollable)
    ELSE Oldest(staged)

\* hash_pop looks for a work that is no rollable master when the counter says
\* that there is one, and takes the first of the table otherwise.
PopChoices ==
    IF Cardinality(staged) > staged_rollable
    THEN Oldest(staged \ Rollable)
    ELSE Oldest(staged)

HashPop(m) ==
    /\ held[m] = Nil
    /\ staged # {}
    /\ \E s \in PopChoices :
        /\ held' = [held EXCEPT ![m] = s]
        /\ staged' = staged \ {s}
        /\ staged_rollable' =
              IF work_rollable(s) THEN staged_rollable - 1 ELSE staged_rollable
    /\ UNCHANGED <<heap, blockVars, stager, mined, poolVars, envVars>>

\* get_work tests the work it has popped after the lock is let go.
DiscardPopped(m) ==
    /\ held[m] # Nil /\ stale_work(held[m])
    /\ heap' = Wipe({held[m]})
    /\ held' = [held EXCEPT ![m] = Nil]
    /\ UNCHANGED <<queueVars, blockVars, stager, mined, poolVars, envVars>>

\* The work is mined (and freed when the miner is done with it).
TakeWork(m) ==
    /\ held[m] # Nil /\ ~stale_work(held[m])
    /\ mined' = mined \cup {Search(held[m])}
    /\ heap' = Wipe({held[m]})
    /\ held' = [held EXCEPT ![m] = Nil]
    /\ UNCHANGED <<queueVars, blockVars, stager, poolVars, envVars>>

----------------------------------------------------------------------------
(* What else takes work out of the queue.                                  *)

\* watchdog_thread, every 2 s; stratum_rthread's restart_threads
DiscardStale ==
    /\ Stale # {}
    /\ staged' = staged \ Stale
    /\ heap' = Wipe(Stale)
    /\ UNCHANGED <<staged_rollable, blockVars, stager, held, mined, poolVars, envVars>>

ClearPoolWork(p) ==
    LET gone == {s \in staged : heap[s].pool = p} IN
    /\ p \in clearing
    /\ clearing' = clearing \ {p}
    /\ staged' = staged \ gone
    /\ heap' = Wipe(gone)
    /\ UNCHANGED <<staged_rollable, blockVars, stager, held, mined, cp, up, job, envVars>>

\* switch_pools clears the work of the pool it leaves once it has switched, if
\* the pool it switches to makes its own work; unless pools are balanced.
SwitchPool(p) ==
    /\ p # cp
    /\ cp' = p
    /\ \/ UNCHANGED clearing
       \/ (pool_localgen(p) \/ FailOnly) /\ clearing' = clearing \cup {cp}
    /\ UNCHANGED <<heap, queueVars, blockVars, stager, held, mined, up, job, envVars>>

----------------------------------------------------------------------------
(* The pools, the network and the clock.                                   *)

\* parse_notify
StratumNotify(p) ==
    /\ p \in StratumPool /\ job[p] < MaxJob
    /\ job' = [job EXCEPT ![p] = @ + 1]
    /\ up' = [up EXCEPT ![p] = TRUE]
    /\ UNCHANGED <<heap, queueVars, blockVars, stager, held, mined, cp, clearing, envVars>>

\* stratum_rthread on a lost connection: the flags, then clear_pool_work
StratumLost(p) ==
    /\ p \in StratumPool /\ up[p]
    /\ up' = [up EXCEPT ![p] = FALSE]
    /\ clearing' = clearing \cup {p}
    /\ UNCHANGED <<heap, queueVars, blockVars, stager, held, mined, cp, job, envVars>>

NetworkBlock ==
    /\ chain < MaxChain
    /\ chain' = chain + 1
    /\ UNCHANGED <<heap, queueVars, blockVars, stager, held, mined, poolVars, bases, now>>

Tick ==
    /\ now < MaxTime
    /\ now' = now + 1
    /\ UNCHANGED <<heap, queueVars, blockVars, stager, held, mined, poolVars, bases, chain>>

----------------------------------------------------------------------------
MakeWork ==
    GenStratum \/ CloneAvailable \/ CloneUnavailable \/ Fetched \/ LongPollAnswer

StageWork(t) ==
    Stamp(t) \/ Look(t) \/ NewBlock(t) \/ LongPollAgain(t) \/ Restart(t) \/ HashPush(t)

CloneWork(t) ==
    \/ Unwanted(t) \/ Convert(t) \/ LoopStage(t) \/ LoopRoll(t)
    \/ LoopEndCloned(t) \/ StageLast(t) \/ LoopEndUncloned(t)

GetWork(m) == HashPop(m) \/ DiscardPopped(m) \/ TakeWork(m)

Environment ==
    \/ \E p \in Pool : SwitchPool(p) \/ StratumNotify(p) \/ StratumLost(p)
    \/ NetworkBlock \/ Tick

Next ==
    \/ MakeWork
    \/ \E t \in Stager : StageWork(t) \/ CloneWork(t)
    \/ \E m \in Miner : GetWork(m)
    \/ DiscardStale
    \/ \E p \in Pool : ClearPoolWork(p)
    \/ Environment

Spec == Init /\ [][Next]_vars

----------------------------------------------------------------------------
\* hash_pop relies on staged_rollable: it is never less than the number of
\* rollable masters that are staged, although discard_stale, clear_pool_work
\* and a push that is at once discarded leave it as it was.
RollableBound == Cardinality(Rollable) <= staged_rollable

\* The loop of hash_pop that looks for a work it may take always ends on one:
\* HASH_DEL is never given the null pointer the loop would end with.
PopFindsWork == staged # {} => PopChoices # {}

\* A struct has one owner: the queue, one miner, or one local variable of one
\* staging thread.  It is never used by a thread after another freed it.
OneOwner ==
    /\ \A m \in Miner : held[m] # Nil =>
          /\ held[m] \notin staged
          /\ \A n \in Miner \ {m} : held[m] # held[n]
          /\ \A t \in Stager : held[m] \notin LocalTo(t)
    /\ \A t \in Stager :
          /\ LocalTo(t) \cap staged = {}
          /\ stager[t].work = stager[t].clone => stager[t].work = Nil
          /\ \A u \in Stager \ {t} : LocalTo(t) \cap LocalTo(u) = {}

\* No two works of the queue or the miners are the same search, and none is
\* one a miner has already had: a clone and its master always differ in the
\* rolls done on them ("Roll it again to prevent duplicates", clone_work).
NoDuplicateSearch ==
    \A s \in staged \cup Popped :
        /\ Search(s) \notin mined
        /\ \A r \in staged \cup Popped : r # s => Search(r) # Search(s)
=============================================================================
