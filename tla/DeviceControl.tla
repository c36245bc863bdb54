---------------------------- MODULE DeviceControl ----------------------------
(***************************************************************************)
(* Starting and stopping the threads that mine on GPUs (yacminer.c,        *)
(* driver-opencl.c, api.c, adl.c).  A thread that finds itself paused, or  *)
(* its GPU not enabled, waits on its semaphore (mt_disable); whoever       *)
(* enables the GPU again must also post the semaphore.  Those who do       *)
(* either are the operator, the watchdog (schedule, temperature, health)   *)
(* and the thread that restarts GPUs (reinit_gpu), which cancels a GPU's   *)
(* threads and creates new ones in their place.                            *)
(*                                                                         *)
(* A thread is <<g, j>>, the j-th of GPU g; in the program's table of all  *)
(* threads it is number g * PerGpu + j.  There is one operator at a time:  *)
(* the API's thread or the screen's.                                       *)
(***************************************************************************)
EXTENDS Integers, Sequences, FiniteSets

CONSTANTS NGpus,     \* nDevs
          PerGpu,    \* threads of a GPU (gpu_threads)
          Features,  \* what may happen, of Feature
          MaxSem,    \* bound: tokens a semaphore may hold before another post
          MaxQueue   \* bound: restarts waiting

Feature == {"enable", "screen_enable", "dynamic", "restart",
            "schedule", "thermal", "scanfail", "hang", "initfail"}

ASSUME DeviceAssumption ==
    /\ NGpus \in Nat \ {0} /\ PerGpu \in Nat \ {0}
    /\ Features \subseteq Feature
    /\ MaxSem \in Nat /\ MaxQueue \in Nat

VARIABLES
    deven, status, dynamic,  \* fields of each GPU's cgpu_info
    pause, sem, getwork,     \* fields of each thread's thr_info
    late,          \* how long ago thr->last is: 1, over SICK_TIME; 2, DEAD_TIME
    pc,            \* where each thread is
    zombie,        \* threads with a cancelled predecessor still in the driver
    operator,      \* what the operator does
    sched_paused,
    watchdog,      \* the loop of the watchdog's schedule
    reinit,        \* what reinit_gpu does
    reinitq,       \* its queue
    lock_lost      \* a thread was cancelled while it held stgd_lock

gpuVars == <<deven, status, dynamic>>
reportVars == <<status, getwork, late>>
threadVars == <<pause, sem, getwork, late, pc, zombie>>
reinitVars == <<reinit, reinitq, lock_lost>>
scheduleVars == <<sched_paused, watchdog>>
vars == <<gpuVars, threadVars, operator, scheduleVars, reinitVars>>

Gpu == 0 .. NGpus - 1
Thread == Gpu \X (0 .. PerGpu - 1)

gpu(t) == t[1]
First(g) == <<g, 0>>

\* The threads with numbers 1 to PerGpu - 1, which are those of GPU 0 but one.
Extra == {0} \X (1 .. PerGpu - 1)

\* A loop over threads: what for, of which GPU, and the next thread of it.
Loop == [job : {"idle", "enable", "screen_enable", "dynamic", "pause",
                "resume", "suspect", "cancel", "create", "post", "quit"},
         gpu : Gpu, next : 0 .. PerGpu - 1]
Idle == [job |-> "idle", gpu |-> 0, next |-> 0]

NextOf(loop) == <<loop.gpu, loop.next>>

Advance(loop, then) == IF loop.next < PerGpu - 1 THEN [loop EXCEPT !.next = loop.next + 1]
                       ELSE then

TypeOK ==
    /\ deven \in [Gpu -> {"enabled", "disabled", "recover"}]
    /\ status \in [Gpu -> {"well", "sick", "dead"}]
    /\ dynamic \in [Gpu -> BOOLEAN]
    /\ pause \in [Thread -> BOOLEAN] /\ sem \in [Thread -> Nat]
    /\ getwork \in [Thread -> BOOLEAN] /\ late \in [Thread -> 0 .. 2]
    /\ pc \in [Thread -> {"init", "start", "getwork", "scan", "check",
                          "disabled", "failed", "dead"}]
    /\ zombie \in [Thread -> BOOLEAN]
    /\ operator \in Loop /\ watchdog \in Loop /\ reinit \in Loop
    /\ sched_paused \in BOOLEAN /\ lock_lost \in BOOLEAN
    /\ reinitq \in Seq(Gpu)

\* main has posted each thread of an enabled GPU; pause_dynamic_threads, called
\* for each GPU in turn, has then posted or paused the Extra threads.
Init ==
    /\ deven \in [Gpu -> {"enabled", "disabled"}]
    /\ status = [g \in Gpu |-> "well"]
    /\ dynamic \in [Gpu -> BOOLEAN]
    /\ pause = [t \in Thread |-> t \in Extra /\ dynamic[NGpus - 1]]
    /\ sem = [t \in Thread |->
                 (IF deven[gpu(t)] # "disabled" THEN 1 ELSE 0)
                 + (IF t \in Extra THEN Cardinality({g \in Gpu : ~dynamic[g] /\ deven[g] # "disabled"})
                    ELSE 0)]
    /\ getwork = [t \in Thread |-> FALSE] /\ late = [t \in Thread |-> 0]
    /\ pc = [t \in Thread |-> "init"] /\ zombie = [t \in Thread |-> FALSE]
    /\ operator = Idle /\ watchdog = Idle /\ reinit = Idle
    /\ sched_paused = FALSE /\ reinitq = <<>> /\ lock_lost = FALSE

----------------------------------------------------------------------------
(* The threads: miner_thread and hash_sole_work.                           *)

\* thread_reportin, and thread_reportout (waits)
Report(t, waits) ==
    /\ getwork' = [getwork EXCEPT ![t] = waits]
    /\ late' = [late EXCEPT ![t] = 0]
    /\ status' = [status EXCEPT ![gpu(t)] = "well"]

At(t, from, to) == pc[t] = from /\ pc' = [pc EXCEPT ![t] = to]

ThreadOnly == UNCHANGED <<dynamic, pause, zombie, operator, scheduleVars, reinitVars>>

Started(t) ==
    /\ At(t, "init", "start")
    /\ Report(t, TRUE)
    /\ UNCHANGED <<deven, sem>> /\ ThreadOnly

\* thread_init fails and the thread exits.
InitFails(t) ==
    /\ "initfail" \in Features
    /\ At(t, "init", "dead")
    /\ UNCHANGED <<deven, sem, reportVars>> /\ ThreadOnly

cgsem_wait(t, from, to) ==
    /\ sem[t] > 0
    /\ At(t, from, to)
    /\ sem' = [sem EXCEPT ![t] = sem[t] - 1]

StartHashing(t) ==
    /\ cgsem_wait(t, "start", "getwork")
    /\ UNCHANGED <<deven, reportVars>> /\ ThreadOnly

GetWork(t) ==
    /\ ~lock_lost
    /\ At(t, "getwork", "scan")
    /\ Report(t, FALSE)
    /\ UNCHANGED <<deven, sem>> /\ ThreadOnly

ScanDone(t) ==
    /\ At(t, "scan", "check")
    /\ Report(t, TRUE)
    /\ UNCHANGED <<deven, sem>> /\ ThreadOnly

\* scanhash returns -1.
ScanFailed(t) ==
    /\ "scanfail" \in Features
    /\ At(t, "scan", "failed")
    /\ Report(t, TRUE)
    /\ deven' = [deven EXCEPT ![gpu(t)] = "disabled"]
    /\ UNCHANGED sem /\ ThreadOnly

FailedEnabled(t) ==
    /\ cgsem_wait(t, "failed", "check")
    /\ UNCHANGED <<deven, reportVars>> /\ ThreadOnly

\* abandon_work: the same work once more, or another.
GoOn(t, from) ==
    \/ At(t, from, "scan") /\ Report(t, FALSE)
    \/ At(t, from, "getwork") /\ UNCHANGED reportVars

\* A short scan, or one that work_restart ended: no look at pause and deven.
CheckSkipped(t) ==
    /\ GoOn(t, "check")
    /\ UNCHANGED <<deven, sem>> /\ ThreadOnly

\* Bug: only the pause is looked at.
CheckPauseOnly(t) ==
    /\ IF pause[t] THEN At(t, "check", "disabled") /\ UNCHANGED reportVars
       ELSE GoOn(t, "check")
    /\ UNCHANGED <<deven, sem>> /\ ThreadOnly

Check(t) ==
    /\ IF pause[t] \/ deven[gpu(t)] # "enabled"
       THEN At(t, "check", "disabled") /\ UNCHANGED reportVars
       ELSE GoOn(t, "check")
    /\ UNCHANGED <<deven, sem>> /\ ThreadOnly

\* mt_disable returns.
ReEnabled(t) ==
    /\ \/ cgsem_wait(t, "disabled", "scan") /\ Report(t, FALSE)
       \/ cgsem_wait(t, "disabled", "getwork") /\ UNCHANGED reportVars
    /\ UNCHANGED deven /\ ThreadOnly

\* A cancelled thread returns from the driver, reports out, and ends.
ZombieReturns(t) ==
    /\ zombie[t]
    /\ zombie' = [zombie EXCEPT ![t] = FALSE]
    /\ Report(t, TRUE)
    /\ UNCHANGED <<deven, dynamic, pause, sem, pc, operator, scheduleVars, reinitVars>>

\* The driver does not return for long.
Hangs(t) ==
    /\ "hang" \in Features
    /\ pc[t] = "scan" /\ late[t] < 2
    /\ late' = [late EXCEPT ![t] = late[t] + 1]
    /\ UNCHANGED <<gpuVars, pause, sem, getwork, pc, zombie, operator,
                   scheduleVars, reinitVars>>

MinerThread(t) ==
    \/ Started(t) \/ InitFails(t) \/ StartHashing(t) \/ GetWork(t) \/ ScanDone(t)
    \/ ScanFailed(t) \/ FailedEnabled(t) \/ CheckSkipped(t) \/ Check(t)
    \/ ReEnabled(t) \/ ZombieReturns(t) \/ Hangs(t)

----------------------------------------------------------------------------
(* The operator.                                                           *)

CanPost == \A t \in Thread : sem[t] < MaxSem

cgsem_post(t) == sem' = [sem EXCEPT ![t] = sem[t] + 1]

Begin(job, g, next) ==
    /\ operator = Idle /\ CanPost
    /\ operator' = [job |-> job, gpu |-> g, next |-> next]

OperatorOnly == UNCHANGED <<status, pause, getwork, late, pc, zombie, scheduleVars, reinitVars>>

\* gpuenable
EnableCommand(g) ==
    /\ "enable" \in Features
    /\ deven[g] = "disabled"
    /\ Begin("enable", g, 0)
    /\ UNCHANGED <<deven, dynamic, sem>> /\ OperatorOnly

\* manage_gpu, [E]nable
ScreenEnable(g) ==
    /\ "screen_enable" \in Features
    /\ deven[g] = "disabled"
    /\ deven' = [deven EXCEPT ![g] = "enabled"]
    /\ Begin("screen_enable", g, 0)
    /\ UNCHANGED <<dynamic, sem>> /\ OperatorOnly

\* Bug: only a thread that waits is posted, lest tokens be left over.
EnableWaiting ==
    LET g == operator.gpu
        t == NextOf(operator) IN
    /\ operator.job \in {"enable", "screen_enable"}
    /\ deven' = [deven EXCEPT ![g] = "enabled"]
    /\ IF getwork[t] /\ pc[t] \in {"start", "disabled", "failed"} THEN cgsem_post(t)
       ELSE UNCHANGED sem
    /\ operator' = Advance(operator, Idle)
    /\ UNCHANGED dynamic /\ OperatorOnly

\* Either refuses to go on unless the GPU is well.
EnableThread ==
    LET g == operator.gpu
        t == NextOf(operator) IN
    /\ operator.job \in {"enable", "screen_enable"}
    /\ IF status[g] # "well" THEN operator' = Idle /\ UNCHANGED <<deven, sem>>
       ELSE /\ deven' = IF operator.job = "enable" THEN [deven EXCEPT ![g] = "enabled"]
                        ELSE deven
            /\ cgsem_post(t)
            /\ operator' = Advance(operator, Idle)
    /\ UNCHANGED dynamic /\ OperatorOnly

DisableCommand(g) ==
    /\ operator = Idle
    /\ deven[g] # "disabled"
    /\ deven' = [deven EXCEPT ![g] = "disabled"]
    /\ UNCHANGED <<dynamic, sem, operator>> /\ OperatorOnly

\* [I]ntensity: dynamic, or not
IntensityCommand(g) ==
    /\ "dynamic" \in Features
    /\ dynamic' \in {[dynamic EXCEPT ![g] = b] : b \in BOOLEAN}
    /\ IF PerGpu > 1 THEN Begin("dynamic", g, 1) ELSE operator = Idle /\ UNCHANGED operator
    /\ UNCHANGED <<deven, sem>> /\ OperatorOnly

\* The loop is over get_thread(1) and so on, whichever the GPU.
pause_dynamic_threads ==
    LET g == operator.gpu
        t == <<0, operator.next>> IN
    /\ operator.job = "dynamic"
    /\ pause' = [pause EXCEPT ![t] = dynamic[g]]
    /\ IF ~dynamic[g] /\ deven[g] # "disabled" THEN cgsem_post(t) ELSE UNCHANGED sem
    /\ operator' = Advance(operator, Idle)
    /\ UNCHANGED <<gpuVars, getwork, late, pc, zombie, scheduleVars, reinitVars>>

reinit_device(g) ==
    /\ "restart" \in Features /\ Len(reinitq) < MaxQueue
    /\ reinitq' = Append(reinitq, g)

RestartCommand(g) ==
    /\ operator = Idle
    /\ reinit_device(g)
    /\ UNCHANGED <<gpuVars, threadVars, operator, scheduleVars, reinit, lock_lost>>

OperatorLoop == EnableThread \/ pause_dynamic_threads

Operator ==
    \/ \E g \in Gpu : EnableCommand(g) \/ ScreenEnable(g) \/ DisableCommand(g)
                      \/ IntensityCommand(g) \/ RestartCommand(g)
    \/ OperatorLoop

----------------------------------------------------------------------------
(* The watchdog.                                                           *)

WatchOnly == UNCHANGED <<dynamic, getwork, late, pc, zombie, operator>>

\* !should_run()
SchedulePause ==
    /\ "schedule" \in Features
    /\ watchdog = Idle /\ ~sched_paused
    /\ sched_paused' = TRUE
    /\ watchdog' = [Idle EXCEPT !.job = "pause"]
    /\ UNCHANGED <<deven, status, pause, sem, reinitVars>> /\ WatchOnly

\* should_run()
ScheduleResume ==
    /\ watchdog = Idle /\ sched_paused /\ CanPost
    /\ sched_paused' = FALSE
    /\ watchdog' = [Idle EXCEPT !.job = "resume"]
    /\ UNCHANGED <<deven, status, pause, sem, reinitVars>> /\ WatchOnly

NextGpu == IF watchdog.gpu = NGpus - 1 THEN Idle
           ELSE [watchdog EXCEPT !.gpu = watchdog.gpu + 1, !.next = 0]

PauseThread ==
    /\ watchdog.job = "pause"
    /\ pause' = [pause EXCEPT ![NextOf(watchdog)] = TRUE]
    /\ watchdog' = Advance(watchdog, NextGpu)
    /\ UNCHANGED <<deven, status, sem, sched_paused, reinitVars>> /\ WatchOnly

\* "Don't touch disabled devices"
ResumeThread ==
    LET t == NextOf(watchdog) IN
    /\ watchdog.job = "resume"
    /\ IF deven[gpu(t)] = "disabled" THEN UNCHANGED <<pause, sem>>
       ELSE pause' = [pause EXCEPT ![t] = FALSE] /\ cgsem_post(t)
    /\ watchdog' = Advance(watchdog, NextGpu)
    /\ UNCHANGED <<deven, status, sched_paused, reinitVars>> /\ WatchOnly

\* gpu_autotune: above the cutoff temperature, and below the target again
Cutoff(g) ==
    /\ "thermal" \in Features
    /\ watchdog = Idle
    /\ deven' = [deven EXCEPT ![g] = "recover"]
    /\ UNCHANGED <<status, pause, sem, scheduleVars, reinitVars>> /\ WatchOnly

Recovered(g) ==
    /\ watchdog = Idle
    /\ deven[g] = "recover"
    /\ deven' = [deven EXCEPT ![g] = "enabled"]
    /\ UNCHANGED <<status, pause, sem, scheduleVars, reinitVars>> /\ WatchOnly

\* The first thread of a GPU is looked at, unless it reported out.
Watched(g) ==
    watchdog = Idle /\ ~getwork[First(g)] /\ deven[g] # "disabled"

DeclareWell(g) ==
    /\ Watched(g) /\ status[g] # "well" /\ late[First(g)] = 0
    /\ status' = [status EXCEPT ![g] = "well"]
    /\ UNCHANGED <<deven, pause, sem, scheduleVars, reinitVars>> /\ WatchOnly

Suspect(g) ==
    /\ Watched(g) /\ status[g] = "well" /\ late[First(g)] > 0
    /\ watchdog' = [job |-> "suspect", gpu |-> g, next |-> 0]
    /\ UNCHANGED <<deven, status, pause, sem, sched_paused, reinitVars>> /\ WatchOnly

\* The thread may have reported in meanwhile.  With ADL, a GPU that seems busy is
\* not restarted.
DeclareSick ==
    LET g == watchdog.gpu IN
    /\ watchdog.job = "suspect"
    /\ status' = [status EXCEPT ![g] = "sick"]
    /\ reinit_device(g) \/ UNCHANGED reinitq
    /\ watchdog' = Idle
    /\ UNCHANGED <<deven, pause, sem, sched_paused, reinit, lock_lost>> /\ WatchOnly

DeclareDead(g) ==
    /\ Watched(g) /\ status[g] = "sick" /\ late[First(g)] = 2
    /\ status' = [status EXCEPT ![g] = "dead"]
    /\ UNCHANGED <<deven, pause, sem, scheduleVars, reinitVars>> /\ WatchOnly

\* Once every minute.
RestartSick(g) ==
    /\ Watched(g) /\ late[First(g)] > 0
    /\ status[g] = "dead" \/ (status[g] = "sick" /\ late[First(g)] < 2)
    /\ reinit_device(g)
    /\ UNCHANGED <<deven, status, pause, sem, scheduleVars, reinit, lock_lost>> /\ WatchOnly

WatchdogLoop == PauseThread \/ ResumeThread \/ DeclareSick

Watchdog ==
    \/ SchedulePause \/ ScheduleResume \/ WatchdogLoop
    \/ \E g \in Gpu : Cutoff(g) \/ Recovered(g) \/ DeclareWell(g) \/ Suspect(g)
                      \/ DeclareDead(g) \/ RestartSick(g)

----------------------------------------------------------------------------
(* reinit_gpu                                                              *)

ReinitOnly == UNCHANGED <<gpuVars, pause, getwork, late, operator, scheduleVars>>

ReinitPop ==
    /\ reinit = Idle /\ reinitq # <<>>
    /\ reinitq' = Tail(reinitq)
    /\ reinit' = [job |-> "cancel", gpu |-> Head(reinitq), next |-> 0]
    /\ UNCHANGED <<sem, pc, zombie, lock_lost>> /\ ReinitOnly

\* The hardware does not report all devices any more.
ReinitQuits ==
    /\ "initfail" \in Features
    /\ reinit = Idle /\ reinitq # <<>>
    /\ reinitq' = Tail(reinitq)
    /\ reinit' = [Idle EXCEPT !.job = "quit"]
    /\ UNCHANGED <<sem, pc, zombie, lock_lost>> /\ ReinitOnly

Following(job) == Advance(reinit, [reinit EXCEPT !.job = job, !.next = 0])

\* pthread_cancel: the thread ends where it waits, with stgd_lock if it waits for
\* work; in the driver it cannot be cancelled.
CancelThread ==
    LET t == NextOf(reinit) IN
    /\ reinit.job = "cancel"
    /\ pc' = [pc EXCEPT ![t] = "dead"]
    /\ zombie' = [zombie EXCEPT ![t] = zombie[t] \/ pc[t] = "scan"]
    /\ lock_lost' \in {lock_lost, lock_lost \/ pc[t] \in {"getwork", "check"}}
    /\ reinit' = Following("create")
    /\ UNCHANGED <<sem, reinitq>> /\ ReinitOnly

\* initCl and thr_info_create, which makes the semaphore anew
CreateThread ==
    LET t == NextOf(reinit) IN
    /\ reinit.job = "create"
    /\ pc' = [pc EXCEPT ![t] = "init"]
    /\ sem' = [sem EXCEPT ![t] = 0]
    /\ reinit' = Following("post")
    /\ UNCHANGED <<zombie, reinitq, lock_lost>> /\ ReinitOnly

\* initCl fails: the next restart
CreateFails ==
    /\ "initfail" \in Features
    /\ reinit.job = "create"
    /\ reinit' = Idle
    /\ UNCHANGED <<sem, pc, zombie, reinitq, lock_lost>> /\ ReinitOnly

PostThread ==
    /\ reinit.job = "post"
    /\ cgsem_post(NextOf(reinit))
    /\ reinit' = Advance(reinit, Idle)
    /\ UNCHANGED <<pc, zombie, reinitq, lock_lost>> /\ ReinitOnly

ReinitLoop == CancelThread \/ CreateThread \/ PostThread

Reinit == ReinitPop \/ ReinitQuits \/ ReinitLoop \/ CreateFails

----------------------------------------------------------------------------
Next ==
    \/ \E t \in Thread : MinerThread(t)
    \/ Operator \/ Watchdog \/ Reinit

Spec == Init /\ [][Next]_vars

\* Every thread runs, the driver returns, work comes, and a second's worth of
\* scans is reached, so that pause and deven are looked at again and again.
DeviceFairness ==
    /\ \A t \in Thread :
        /\ WF_vars(Started(t)) /\ WF_vars(GetWork(t))
        /\ WF_vars(ScanDone(t)) /\ SF_vars(Check(t))
        /\ WF_vars(StartHashing(t) \/ FailedEnabled(t) \/ ReEnabled(t))
    /\ WF_vars(OperatorLoop) /\ WF_vars(WatchdogLoop)
    /\ WF_vars(ReinitPop) /\ WF_vars(ReinitLoop)
FairSpec == Spec /\ DeviceFairness

----------------------------------------------------------------------------
Waiting(t) == pc[t] \in {"start", "disabled", "failed"} /\ sem[t] = 0

\* The operator's loop, or the restart, has yet to come to thread t.
ToBePosted(t) ==
    \/ operator.job \in {"enable", "screen_enable"} /\ operator.gpu = gpu(t)
       /\ operator.next <= t[2]
    \/ operator.job = "dynamic" /\ t \in Extra /\ operator.next <= t[2]
    \/ reinit.job \in {"cancel", "create"} /\ reinit.gpu = gpu(t)
    \/ reinit.job = "post" /\ reinit.gpu = gpu(t) /\ reinit.next <= t[2]

\* A thread waits for a reason: unless it is paused, or its GPU disabled, or it
\* is about to be posted, there is a token in its semaphore.  No order of
\* commands, failures and checks leaves a thread asleep on an enabled GPU.
WaitJustified ==
    \A t \in Thread :
        Waiting(t) => pause[t] \/ deven[gpu(t)] # "enabled" \/ ToBePosted(t)

\* A GPU that is disabled for good stops: the tokens commands left in the
\* semaphores of its threads do not keep them scanning.
DisabledStops ==
    \A t \in Thread :
        <>[](deven[gpu(t)] = "disabled" /\ reinit.job \in {"idle", "quit"})
            => <>[](pc[t] # "scan")

\* A thread that stays enabled and not paused keeps mining.
EnabledMines ==
    \A t \in Thread :
        <>[](deven[gpu(t)] = "enabled" /\ ~pause[t] /\ reinit = Idle /\ ~lock_lost)
            => []<>(pc[t] = "scan")
=============================================================================
