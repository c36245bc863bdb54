---------------------------- MODULE AvalonQueue ----------------------------
(***************************************************************************)
(* The Avalon driver: the miner thread fills an array with works, the      *)
(* writing thread sends it and goes to the next of a ring of arrays, the   *)
(* reading thread takes nonces (AvalonStream).  Fill, send and flush go    *)
(* under info->qlock, each in one step.                                    *)
(***************************************************************************)
EXTENDS Integers, Sequences, FiniteSets

CONSTANTS miner_count,
          ARRAY_SIZE,      \* AVALON_ARRAY_SIZE
          MaxAvWorks,      \* bound on works got
          MaxSendErrors    \* bound on tasks that cannot be sent

ASSUME AvalonAssumption ==
    /\ miner_count \in Nat \ {0} /\ ARRAY_SIZE \in Nat \ {0, 1}
    /\ MaxAvWorks \in Nat /\ MaxSendErrors \in Nat

AvWorks == 1..MaxAvWorks
Slots == (0..(ARRAY_SIZE - 1)) \X (0..(miner_count - 1))

VARIABLES
    av_made, av_table,   \* works got, those in cgpu->queued_work
    av_works, work_array, av_queued, \* the ring, the array in use, works in it
    apc,                 \* "miner", "write", "read": where each thread is
    recent,              \* history: what was sent of the other arrays, the latest first
    buffer_full,         \* external: the device does not take more
    nonces, av_results,  \* info->nonces, avalon->results
    av_idle, av_reset, av_overheat,
    write_sem,
    av_nodev, av_shutdown, av_errors

avRing == <<av_made, av_table, av_works, work_array, av_queued, recent>>
avVars == <<avRing, apc, buffer_full, nonces, av_results, av_idle, av_reset, av_overheat, write_sem,
            av_nodev, av_shutdown, av_errors>>

AvTypeOK ==
    /\ av_made \in 0..MaxAvWorks /\ av_table \subseteq AvWorks
    /\ av_works \in [Slots -> AvWorks \union {0}]
    /\ work_array \in 0..(ARRAY_SIZE - 1) /\ av_queued \in 0..miner_count
    /\ nonces \in 0..miner_count /\ av_results \in Int /\ write_sem \in 0..1
    /\ {buffer_full, av_idle, av_reset, av_overheat, av_nodev, av_shutdown} \subseteq BOOLEAN
    /\ av_errors \in 0..MaxSendErrors

AvalonInit ==
    /\ av_made = 0 /\ av_table = {} /\ av_works = [s \in Slots |-> 0]
    /\ work_array = 0 /\ av_queued = 0 /\ recent = [i \in 1..(ARRAY_SIZE - 1) |-> {}]
    /\ apc = [miner |-> "fill", write |-> "full", read |-> "loop"]
    /\ buffer_full = FALSE /\ nonces = 0 /\ av_results = 0
    /\ av_idle = TRUE /\ av_reset = FALSE /\ av_overheat = FALSE
    /\ write_sem = 0 /\ av_nodev = FALSE /\ av_shutdown = FALSE /\ av_errors = 0

At(t, s) == apc[t] = s
AvGo(t, s) == apc' = [apc EXCEPT ![t] = s]
Least(a, b) == IF a < b THEN a ELSE b

-----------------------------------------------------------------------------
(* The device: its buffer, whose state usb_ftdi_cts asks, or gone, and     *)
(* usb_ftdi_cts is always true.                                            *)

DeviceBuffer ==
    /\ ~av_nodev
    /\ buffer_full' = ~buffer_full
    /\ UNCHANGED <<avRing, apc, nonces, av_results, av_idle, av_reset, av_overheat, write_sem, av_nodev,
                   av_shutdown, av_errors>>

DeviceGone ==
    /\ ~av_nodev
    /\ av_nodev' = TRUE /\ buffer_full' = FALSE
    /\ UNCHANGED <<avRing, apc, nonces, av_results, av_idle, av_reset, av_overheat, write_sem,
                   av_shutdown, av_errors>>

-----------------------------------------------------------------------------
(* The miner: fill_queue and avalon_fill.  The work that is in the slot,   *)
(* sent when the ring was here last, is completed.                         *)

AvalonFill ==
    /\ At("miner", "fill") /\ av_queued < miner_count /\ av_made < MaxAvWorks
    /\ LET s == <<work_array, av_queued>>
       IN  /\ av_works' = [av_works EXCEPT ![s] = av_made + 1]
           /\ av_table' = (av_table \ {av_works[s]}) \union {av_made + 1}
    /\ av_made' = av_made + 1 /\ av_queued' = av_queued + 1
    /\ AvGo("miner", IF av_queued' < miner_count THEN "fill" ELSE "scan")
    /\ UNCHANGED <<work_array, recent, buffer_full, nonces, av_results, av_idle, av_reset, av_overheat,
                   write_sem, av_nodev, av_shutdown, av_errors>>

AvalonFull ==
    /\ At("miner", "fill") /\ av_queued = miner_count
    /\ AvGo("miner", "scan")
    /\ UNCHANGED <<avRing, buffer_full, nonces, av_results, av_idle, av_reset, av_overheat, write_sem,
                   av_nodev, av_shutdown, av_errors>>

(* avalon_scanhash, once the writing thread has signalled or its time is   *)
(* up: with too few results the device is to be reset; with the device     *)
(* gone the threads are to end.  Then perhaps avalon_flush_work.           *)
AvalonScanhash(restart) ==
    /\ At("miner", "scan")
    /\ nonces' = 0
    /\ av_results' = IF av_idle \/ av_reset THEN miner_count
                     ELSE Least(av_results + nonces, miner_count) - miner_count \div 3
    /\ av_reset' = (av_reset \/ av_results' < -miner_count)
    /\ av_shutdown' = av_nodev
    /\ av_queued' = IF restart THEN 0 ELSE av_queued
    /\ AvGo("miner", IF av_nodev THEN "close" ELSE "fill")
    /\ UNCHANGED <<av_made, av_table, av_works, work_array, recent, buffer_full, av_idle, av_overheat,
                   write_sem, av_nodev, av_errors>>

(* do_avalon_close joins both threads and resets.                          *)
AvalonClose ==
    /\ At("miner", "close") /\ At("read", "ended") /\ At("write", "ended")
    /\ AvGo("miner", "closed")
    /\ av_reset' = FALSE /\ av_idle' = TRUE /\ av_results' = 0
    /\ UNCHANGED <<avRing, buffer_full, nonces, av_overheat, write_sem, av_nodev, av_shutdown, av_errors>>

-----------------------------------------------------------------------------
(* avalon_send_tasks *)

SendTasksLoop ==
    /\ At("write", "full")
    /\ AvGo("write", IF av_shutdown THEN "ended" ELSE IF buffer_full THEN "wait" ELSE "send")
    /\ UNCHANGED <<avRing, buffer_full, nonces, av_results, av_idle, av_reset, av_overheat, write_sem,
                   av_nodev, av_shutdown, av_errors>>

(* Back from cgsem_wait, the thread looks at the buffer again, and at      *)
(* nothing else.                                                           *)
WriteSemWait ==
    /\ At("write", "wait") /\ write_sem > 0
    /\ write_sem' = write_sem - 1
    /\ AvGo("write", IF buffer_full THEN "wait" ELSE "send")
    /\ UNCHANGED <<avRing, buffer_full, nonces, av_results, av_idle, av_reset, av_overheat, av_nodev,
                   av_shutdown, av_errors>>

(* The first n tasks of the array go out, idle ones where there is no work *)
(* or the device is too hot, until its buffer is full or one cannot be     *)
(* sent; then the next array, whatever was sent of this one.               *)
Sent(n) == {av_works[<<work_array, j>>] : j \in {i \in 0..(n - 1) : i < av_queued /\ ~av_overheat}}

SendKeepsArray(n, error) ==
    /\ At("write", "send")
    /\ error => (n > 0 /\ av_errors < MaxSendErrors)
    /\ recent' = <<Sent(n)>> \o SubSeq(recent, 1, ARRAY_SIZE - 2)
    /\ av_idle' = (Cardinality(Sent(n)) < n \/ (av_idle /\ Sent(n) = {}))
    /\ av_reset' = (av_reset \/ error)
    /\ av_errors' = IF error THEN av_errors + 1 ELSE av_errors
    /\ work_array' = IF n < miner_count THEN work_array ELSE (work_array + 1) % ARRAY_SIZE
    /\ av_queued' = 0
    /\ AvGo("write", "full")
    /\ UNCHANGED <<av_made, av_table, av_works, buffer_full, nonces, av_results, av_overheat, write_sem,
                   av_nodev, av_shutdown>>

SendTasks(n, error) ==
    /\ At("write", "send")
    /\ error => (n > 0 /\ av_errors < MaxSendErrors)
    /\ recent' = <<Sent(n)>> \o SubSeq(recent, 1, ARRAY_SIZE - 2)
    /\ av_idle' = (Cardinality(Sent(n)) < n \/ (av_idle /\ Sent(n) = {}))
    /\ av_reset' = (av_reset \/ error)
    /\ av_errors' = IF error THEN av_errors + 1 ELSE av_errors
    /\ av_queued' = 0 /\ work_array' = (work_array + 1) % ARRAY_SIZE
    /\ AvGo("write", "full")
    /\ UNCHANGED <<av_made, av_table, av_works, buffer_full, nonces, av_results, av_overheat, write_sem,
                   av_nodev, av_shutdown>>

-----------------------------------------------------------------------------
(* avalon_get_results: perhaps a nonce; the first good one since the miner *)
(* looked brings the temperatures.                                         *)
TakeNonce(good) ==
    /\ At("read", "loop") /\ ~av_shutdown
    /\ nonces' = IF good THEN Least(nonces + 1, miner_count) ELSE nonces
    /\ IF good /\ nonces = 0 THEN av_overheat' \in BOOLEAN ELSE UNCHANGED av_overheat
    /\ AvGo("read", "check")
    /\ UNCHANGED <<avRing, buffer_full, av_results, av_idle, av_reset, write_sem, av_nodev, av_shutdown,
                   av_errors>>

ReaderEnds ==
    /\ At("read", "loop") /\ av_shutdown
    /\ AvGo("read", "ended")
    /\ UNCHANGED <<avRing, buffer_full, nonces, av_results, av_idle, av_reset, av_overheat, write_sem,
                   av_nodev, av_shutdown, av_errors>>

(* avalon_running_reset waits until the device is ready.                   *)
RunningReset ==
    /\ At("read", "check")
    /\ av_reset => ~buffer_full
    /\ av_reset' = FALSE
    /\ av_idle' = (av_idle \/ av_reset)
    /\ av_results' = IF av_reset THEN 0 ELSE av_results
    /\ AvGo("read", "read")
    /\ UNCHANGED <<avRing, buffer_full, nonces, av_overheat, write_sem, av_nodev, av_shutdown, av_errors>>

(* avalon_read: what it takes for the device's status is a byte of the     *)
(* caller's uninitialised buffer, so it posts write_sem or not; nothing    *)
(* comes from a device that has gone.  One post in hand is all that counts.*)
AvalonRead(posts) ==
    /\ At("read", "read")
    /\ posts => ~av_nodev
    /\ write_sem' = IF posts THEN 1 ELSE write_sem
    /\ AvGo("read", "loop")
    /\ UNCHANGED <<avRing, buffer_full, nonces, av_results, av_idle, av_reset, av_overheat, av_nodev,
                   av_shutdown, av_errors>>

AvalonNext ==
    \/ DeviceBuffer \/ DeviceGone
    \/ AvalonFill \/ AvalonFull \/ AvalonClose
    \/ \E restart \in BOOLEAN : AvalonScanhash(restart)
    \/ SendTasksLoop \/ WriteSemWait
    \/ \E n \in 0..miner_count, error \in BOOLEAN : SendTasks(n, error)
    \/ ReaderEnds \/ RunningReset
    \/ \E b \in BOOLEAN : TakeNonce(b) \/ AvalonRead(b)

(* The three threads go on.                                                *)
AvalonSpec ==
    /\ AvalonInit /\ [][AvalonNext]_avVars
    /\ WF_avVars(AvalonFill \/ AvalonFull \/ AvalonClose)
    /\ WF_avVars(\E restart \in BOOLEAN : AvalonScanhash(restart))
    /\ WF_avVars(SendTasksLoop \/ WriteSemWait \/ SendTasks(miner_count, FALSE))
    /\ WF_avVars(ReaderEnds \/ RunningReset \/ \E b \in BOOLEAN : TakeNonce(b) \/ AvalonRead(b))

-----------------------------------------------------------------------------
(* avalon_fill ("only remove references to work done from the buffer when  *)
(* we need the extra space"): what the last sendings sent is in the table, *)
(* so that its nonces can be matched, until the ring comes round.          *)
SentIsKept == \A i \in DOMAIN recent : recent[i] \subseteq av_table

(* usb_ftdi_cts ("We return true in case drivers are waiting indefinitely  *)
(* to try and write to something that's not there"): the threads of a      *)
(* device that has gone end.  Does not hold: the writing thread waits for  *)
(* write_sem, which the reading thread no longer posts.                    *)
GoneCloses == av_shutdown ~> At("miner", "closed")
=============================================================================
