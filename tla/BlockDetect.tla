---------------------------- MODULE BlockDetect ----------------------------
(***************************************************************************)
(* The detection of new blocks.  The header of each work, from a long poll *)
(* or from the scheduler, is looked up in a small database of blocks: a    *)
(* new one makes all the work staged before stale and restarts the miners. *)
(*                                                                         *)
(* The database is guarded by blk_lock; work_block is guarded by nothing,  *)
(* and its increment is a read and a write.                                *)
(***************************************************************************)
EXTENDS Integers, FiniteSets

CONSTANTS Pollers,        \* long poll threads
          Scheduler,      \* main(), which stages fetched works
          Tips,           \* bound: the network finds the blocks 1..Tips
          MaxBlocks,      \* with that many blocks (7) the oldest makes room
          MaxWorkBlock,   \* bound on work_block
          MaxStaged       \* bound on the works in the queue and with the miners

Detectors == Pollers \union {Scheduler}

ASSUME BlockDetectAssumption ==
    /\ Scheduler \notin Pollers
    /\ {Tips, MaxBlocks, MaxWorkBlock, MaxStaged} \subseteq Nat \ {0}

VARIABLES
    tip,          \* the network's newest block
    blocks,       \* the database, as pairs of a hash and a block_no
    new_blocks, work_block,
    det,          \* a thread's work on its way through test_work_current
    staged,       \* works in the queue or with a miner
    added,        \* history: blocks added to the database
    overlapped    \* history: two threads were at ++work_block at once

blockVars == <<tip, blocks, new_blocks, work_block, det, staged, added, overlapped>>

DetSteps == {"idle", "stamp", "look", "number", "add", "first", "read", "write", "restart",
             "done"}

(* first: a long poll's work before it is staged; current: its pool is the *)
(* current one; at: how many blocks had been added when wb was set.        *)
PassingWork == [step : DetSteps, hash : 1..Tips, longpoll : BOOLEAN, mandatory : BOOLEAN,
                current : BOOLEAN, known : BOOLEAN, first : BOOLEAN,
                wb : 0..MaxWorkBlock, at : Nat, no : Nat]
NoWork == [step |-> "idle", hash |-> 1, longpoll |-> FALSE, mandatory |-> FALSE,
           current |-> FALSE, known |-> TRUE, first |-> FALSE, wb |-> 0, at |-> 1, no |-> 0]

BlockTypeOK ==
    /\ tip \in 1..Tips
    /\ \A b \in blocks : b.hash \in 1..Tips /\ b.no \in 0..new_blocks
    /\ new_blocks \in Nat /\ work_block \in 0..MaxWorkBlock
    /\ det \in [Detectors -> PassingWork]
    /\ \A w \in staged : w.wb \in 0..MaxWorkBlock /\ w.at \in 1..(added + 1)
    /\ added \in Nat /\ overlapped \in BOOLEAN

BlockInit ==
    /\ tip = 1 /\ blocks = {} /\ new_blocks = 0 /\ work_block = 0
    /\ det = [t \in Detectors |-> NoWork]
    /\ staged = {} /\ added = 0 /\ overlapped = FALSE

NewTip ==
    /\ tip < Tips
    /\ tip' = tip + 1
    /\ UNCHANGED <<blocks, new_blocks, work_block, det, staged, added, overlapped>>

-----------------------------------------------------------------------------
(* test_work_current, by the scheduler's stage_work and, for a long poll,  *)
(* by convert_to_work and then by stage_work.                              *)

Known(h) == \E b \in blocks : b.hash = h
Goto(t, s) == [det EXCEPT ![t].step = s]

(* stage_work: the work gets the present work_block, whatever its header.  *)
Stamp(t) ==
    /\ det[t].step = "stamp"
    /\ det' = [det EXCEPT ![t].wb = work_block, ![t].step = "look",
                          ![t].at = IF added = 0 THEN 1 ELSE added]
    /\ UNCHANGED <<tip, blocks, new_blocks, work_block, staged, added, overlapped>>

(* block_exists; its answer is used after its lock has been released.      *)
Look(t) ==
    /\ det[t].step = "look"
    /\ det' = Goto(t, IF det[t].mandatory THEN "done"
                    ELSE IF ~Known(det[t].hash) THEN "number"
                    ELSE IF det[t].longpoll THEN "read" ELSE "done")
    /\ UNCHANGED <<tip, blocks, new_blocks, work_block, staged, added, overlapped>>

Number(t) ==
    /\ det[t].step = "number"
    /\ det' = [det EXCEPT ![t].step = "add", ![t].no = new_blocks,
                          ![t].known = FALSE]
    /\ new_blocks' = new_blocks + 1
    /\ UNCHANGED <<tip, blocks, work_block, staged, added, overlapped>>

Oldest == CHOOSE b \in blocks : \A c \in blocks : b.no <= c.no

(* The critical section of blk_lock, and set_curblock.                     *)
AddBlock(t) ==
    /\ det[t].step = "add"
    /\ blocks' = (IF Cardinality(blocks) >= MaxBlocks THEN blocks \ {Oldest} ELSE blocks)
                     \union {[hash |-> det[t].hash, no |-> det[t].no]}
    /\ added' = added + 1
    /\ det' = Goto(t, "first")
    /\ UNCHANGED <<tip, new_blocks, work_block, staged, overlapped>>

OnlyPollsCount(t) ==
    /\ det[t].step = "first"
    /\ det' = Goto(t, IF new_blocks = 1 \/ ~det[t].longpoll THEN "done" ELSE "read")
    /\ UNCHANGED <<tip, blocks, new_blocks, work_block, staged, added, overlapped>>

(* The very first block is no news; longpoll stays set.                    *)
FirstBlock(t) ==
    /\ det[t].step = "first"
    /\ det' = Goto(t, IF new_blocks = 1 THEN "done" ELSE "read")
    /\ UNCHANGED <<tip, blocks, new_blocks, work_block, staged, added, overlapped>>

ReadCount(t) ==
    /\ det[t].step = "read"
    /\ det' = [det EXCEPT ![t].step = "write", ![t].wb = work_block]
    /\ overlapped' = (overlapped \/ \E s \in Detectors : det[s].step = "write")
    /\ UNCHANGED <<tip, blocks, new_blocks, work_block, staged, added>>

(* work->work_block = ++work_block.  A known block of a pool that is not   *)
(* current ends here; longpoll is reset.                                   *)
WriteCount(t) ==
    /\ det[t].step = "write" /\ det[t].wb < MaxWorkBlock
    /\ work_block' = det[t].wb + 1
    /\ det' = [det EXCEPT ![t].wb = work_block', ![t].at = added, ![t].longpoll = FALSE,
                          ![t].step = IF ~det[t].known \/ det[t].current
                                      THEN "restart" ELSE "done"]
    /\ UNCHANGED <<tip, blocks, new_blocks, staged, added, overlapped>>

(* restart_threads: discard_stale empties the queue of stale work, and     *)
(* the miners give theirs up.                                              *)
RestartThreads(t) ==
    /\ det[t].step = "restart"
    /\ staged' = {w \in staged : w.wb = work_block}
    /\ det' = Goto(t, "done")
    /\ UNCHANGED <<tip, blocks, new_blocks, work_block, added, overlapped>>

-----------------------------------------------------------------------------
(* The scheduler *)

HashPush(w) ==
    /\ Cardinality(staged) < MaxStaged
    /\ staged' = staged \union {[wb |-> w.wb, at |-> w.at]}

Fetch(h) ==
    /\ det[Scheduler].step = "idle" /\ h <= tip
    /\ det' = [det EXCEPT ![Scheduler] = [NoWork EXCEPT !.step = "stamp", !.hash = h]]
    /\ UNCHANGED <<tip, blocks, new_blocks, work_block, staged, added, overlapped>>

(* hash_push *)
Push(t) ==
    /\ det[t].step = "done" /\ ~det[t].first
    /\ HashPush(det[t])
    /\ det' = [det EXCEPT ![t] = NoWork]
    /\ UNCHANGED <<tip, blocks, new_blocks, work_block, added, overlapped>>

(* A work is mined to its end.                                             *)
Mined(w) ==
    /\ w \in staged /\ staged' = staged \ {w}
    /\ UNCHANGED <<tip, blocks, new_blocks, work_block, det, added, overlapped>>

-----------------------------------------------------------------------------
(* A long poll's work: convert_to_work *)

PollAnswer(t, h, rejecting, cur) ==
    /\ det[t].step = "idle" /\ h <= tip
    /\ det' = [det EXCEPT ![t] = [NoWork EXCEPT !.step = "look", !.hash = h, !.longpoll = TRUE,
                                      !.mandatory = rejecting, !.current = cur, !.first = TRUE]]
    /\ UNCHANGED <<tip, blocks, new_blocks, work_block, staged, added, overlapped>>

(* "Don't use backup LPs as work if we have failover-only enabled."        *)
DropBackup(t) ==
    /\ det[t].step = "done" /\ det[t].first /\ ~det[t].current /\ ~det[t].mandatory
    /\ det' = [det EXCEPT ![t] = NoWork]
    /\ UNCHANGED <<tip, blocks, new_blocks, work_block, staged, added, overlapped>>

(* clone_work and stage_work, which tests the work a second time.          *)
StageAgain(t) ==
    /\ det[t].step = "done" /\ det[t].first
    /\ det' = [det EXCEPT ![t].step = "stamp", ![t].first = FALSE]
    /\ UNCHANGED <<tip, blocks, new_blocks, work_block, staged, added, overlapped>>

-----------------------------------------------------------------------------
BlockNext ==
    \/ NewTip
    \/ \E h \in 1..Tips : Fetch(h)
    \/ \E w \in staged : Mined(w)
    \/ \E t \in Pollers : \/ \E h \in 1..Tips, r, c \in BOOLEAN : PollAnswer(t, h, r, c)
                          \/ DropBackup(t) \/ StageAgain(t)
    \/ \E t \in Detectors :
          \/ Stamp(t) \/ Look(t) \/ Number(t) \/ AddBlock(t) \/ FirstBlock(t)
          \/ ReadCount(t) \/ WriteCount(t) \/ RestartThreads(t) \/ Push(t)

BlockSpec == BlockInit /\ [][BlockNext]_blockVars

-----------------------------------------------------------------------------
NoDetection == \A t \in Detectors : det[t].step \in {"idle", "stamp"}

(* test_work_current, stage_work and stale_work: when no detection is      *)
(* under way, work that was stamped before the last block was added is     *)
(* stale, although two threads may have found the block at once; unless    *)
(* their increments of work_block have met.                                *)
OldWorkIsStale ==
    /\ BlockTypeOK
    /\ NoDetection /\ ~overlapped => \A w \in staged : w.at < added => w.wb # work_block
=============================================================================
