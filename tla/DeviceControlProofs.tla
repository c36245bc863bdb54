------------------------- MODULE DeviceControlProofs -------------------------
(***************************************************************************)
(* Proofs about DeviceControl, for any number of GPUs and threads.         *)
(***************************************************************************)
EXTENDS DeviceControl, FiniteSetTheorems, TLAPS

LEMMA ThreadFields ==
    ASSUME NEW t \in Thread
    PROVE  /\ t[1] \in Gpu /\ t[2] \in 0 .. PerGpu - 1
           /\ t = <<t[1], t[2]>>
    BY DEF Thread

LEMMA GpuThread ==
    /\ 0 \in Gpu
    /\ \A g \in Gpu, j \in 0 .. PerGpu - 1 : <<g, j>> \in Thread
    /\ \A g \in Gpu : First(g) \in Thread
    /\ Extra \subseteq Thread
    BY DeviceAssumption DEF Gpu, Thread, First, Extra

LEMMA LoopFields ==
    ASSUME NEW loop \in Loop
    PROVE  /\ NextOf(loop) \in Thread /\ <<0, loop.next>> \in Thread
           /\ loop.gpu \in Gpu /\ loop.next \in 0 .. PerGpu - 1
    BY GpuThread DEF Loop, NextOf

LEMMA IdleLoop == Idle \in Loop
    BY DeviceAssumption DEF Idle, Loop, Gpu

LEMMA AdvanceLoop ==
    ASSUME NEW loop \in Loop, NEW then \in Loop
    PROVE  Advance(loop, then) \in Loop
    BY DeviceAssumption DEF Advance, Loop

LEMMA FollowingLoop ==
    ASSUME reinit \in Loop, NEW job \in {"create", "post"}
    PROVE  Following(job) \in Loop
<1>1. 0 \in 0 .. PerGpu - 1
    BY DeviceAssumption
<1>2. \A n \in 0 .. PerGpu - 1 : [reinit EXCEPT !.job = job, !.next = n] \in Loop
    BY DEF Loop
<1>3. [reinit EXCEPT !.job = job, !.next = 0] \in Loop
    BY <1>1, <1>2
<1> QED BY <1>3, AdvanceLoop DEF Following

LEMMA NextGpuLoop ==
    ASSUME watchdog \in Loop
    PROVE  NextGpu \in Loop
<1>1. 0 \in 0 .. PerGpu - 1
    BY DeviceAssumption
<1>2. \A g \in Gpu, n \in 0 .. PerGpu - 1 : [watchdog EXCEPT !.gpu = g, !.next = n] \in Loop
    BY DEF Loop
<1>3. watchdog.gpu \in Gpu
    BY LoopFields
<1>4. watchdog.gpu # NGpus - 1 => watchdog.gpu + 1 \in Gpu
    BY <1>3, DeviceAssumption DEF Gpu
<1> QED BY <1>1, <1>2, <1>4, IdleLoop DEF NextGpu

----------------------------------------------------------------------------
(* Types, one lemma for each actor.                                        *)

LEMMA ReportTypes ==
    ASSUME TypeOK, NEW t \in Thread, NEW b \in BOOLEAN, Report(t, b)
    PROVE  /\ getwork' \in [Thread -> BOOLEAN] /\ late' \in [Thread -> 0 .. 2]
           /\ status' \in [Gpu -> {"well", "sick", "dead"}]
<1> gpu(t) \in Gpu
    BY ThreadFields DEF gpu
<1> QED BY DEF TypeOK, Report

LEMMA PostTypes ==
    ASSUME TypeOK, NEW t \in Thread, cgsem_post(t)
    PROVE  sem' \in [Thread -> Nat]
<1> sem[t] + 1 \in Nat
    BY DEF TypeOK
<1> QED BY DEF TypeOK, cgsem_post

LEMMA GoOnTypes ==
    ASSUME TypeOK, NEW t \in Thread, NEW from, GoOn(t, from)
    PROVE  /\ getwork' \in [Thread -> BOOLEAN] /\ late' \in [Thread -> 0 .. 2]
           /\ status' \in [Gpu -> {"well", "sick", "dead"}]
           /\ pc' = [pc EXCEPT ![t] = "scan"] \/ pc' = [pc EXCEPT ![t] = "getwork"]
<1>1. CASE At(t, from, "scan") /\ Report(t, FALSE)
    BY <1>1, ReportTypes DEF At
<1>2. CASE At(t, from, "getwork") /\ UNCHANGED reportVars
    BY <1>2 DEF At, reportVars, TypeOK
<1> QED BY <1>1, <1>2 DEF GoOn

LEMMA ThreadTypes ==
    ASSUME TypeOK, NEW t \in Thread, MinerThread(t)
    PROVE  TypeOK'
<1> gpu(t) \in Gpu
    BY ThreadFields DEF gpu
<1> USE DEF TypeOK
<1>1. CASE Started(t)
    BY <1>1 DEF Started, At, Report, ThreadOnly, scheduleVars, reinitVars
<1>2. CASE InitFails(t)
    BY <1>2 DEF InitFails, At, reportVars, ThreadOnly, scheduleVars, reinitVars
<1>3. CASE StartHashing(t)
    BY <1>3 DEF StartHashing, cgsem_wait, At, reportVars, ThreadOnly, scheduleVars, reinitVars
<1>4. CASE GetWork(t)
    BY <1>4 DEF GetWork, At, Report, ThreadOnly, scheduleVars, reinitVars
<1>5. CASE ScanDone(t)
    BY <1>5 DEF ScanDone, At, Report, ThreadOnly, scheduleVars, reinitVars
<1>6. CASE ScanFailed(t)
    BY <1>6 DEF ScanFailed, At, Report, ThreadOnly, scheduleVars, reinitVars
<1>7. CASE FailedEnabled(t)
    BY <1>7 DEF FailedEnabled, cgsem_wait, At, reportVars, ThreadOnly, scheduleVars, reinitVars
<1>8. CASE CheckSkipped(t)
    BY <1>8, GoOnTypes DEF CheckSkipped, ThreadOnly, scheduleVars, reinitVars
<1>9. CASE Check(t)
  <2>1. CASE pause[t] \/ deven[gpu(t)] # "enabled"
    BY <1>9, <2>1 DEF Check, At, reportVars, ThreadOnly, scheduleVars, reinitVars
  <2>2. CASE ~(pause[t] \/ deven[gpu(t)] # "enabled")
    BY <1>9, <2>2, GoOnTypes DEF Check, ThreadOnly, scheduleVars, reinitVars
  <2> QED BY <2>1, <2>2
<1>10. CASE ReEnabled(t)
  <2>1. CASE cgsem_wait(t, "disabled", "scan") /\ Report(t, FALSE)
    <3>1. sem' \in [Thread -> Nat] /\ pc' = [pc EXCEPT ![t] = "scan"]
        BY <2>1 DEF cgsem_wait, At
    <3> QED BY <1>10, <2>1, <3>1, ReportTypes DEF ReEnabled, ThreadOnly, scheduleVars, reinitVars
  <2>2. CASE cgsem_wait(t, "disabled", "getwork") /\ UNCHANGED reportVars
    <3>1. sem' \in [Thread -> Nat] /\ pc' = [pc EXCEPT ![t] = "getwork"]
        BY <2>2 DEF cgsem_wait, At
    <3> QED BY <1>10, <2>2, <3>1 DEF ReEnabled, reportVars, ThreadOnly, scheduleVars, reinitVars
  <2> QED BY <1>10, <2>1, <2>2 DEF ReEnabled
<1>11. CASE ZombieReturns(t)
    BY <1>11 DEF ZombieReturns, Report, scheduleVars, reinitVars
<1>12. CASE Hangs(t)
  <2>1. late[t] \in 0 .. 2 /\ late[t] < 2
    BY <1>12 DEF Hangs
  <2>2. late[t] + 1 \in 0 .. 2
    BY <2>1
  <2>3. late' \in [Thread -> 0 .. 2]
    BY <1>12, <2>2 DEF Hangs
  <2> QED BY <1>12, <2>3 DEF Hangs, gpuVars, scheduleVars, reinitVars
<1> QED BY <1>1, <1>2, <1>3, <1>4, <1>5, <1>6, <1>7, <1>8, <1>9, <1>10, <1>11, <1>12
        DEF MinerThread

LEMMA OperatorTypes ==
    ASSUME TypeOK, Operator
    PROVE  TypeOK'
<1> USE DEF TypeOK
<1>1. ASSUME NEW g \in Gpu, EnableCommand(g) PROVE TypeOK'
    BY <1>1, DeviceAssumption DEF EnableCommand, Begin, Loop, OperatorOnly, scheduleVars, reinitVars
<1>2. ASSUME NEW g \in Gpu, ScreenEnable(g) PROVE TypeOK'
    BY <1>2, DeviceAssumption DEF ScreenEnable, Begin, Loop, OperatorOnly, scheduleVars, reinitVars
<1>3. ASSUME NEW g \in Gpu, DisableCommand(g) PROVE TypeOK'
    BY <1>3 DEF DisableCommand, OperatorOnly, scheduleVars, reinitVars
<1>4. ASSUME NEW g \in Gpu, IntensityCommand(g) PROVE TypeOK'
  <2>1. PerGpu > 1 => 1 \in 0 .. PerGpu - 1
    BY DeviceAssumption
  <2>2. operator' \in Loop
    BY <1>4, <2>1 DEF IntensityCommand, Begin, Loop
  <2> QED BY <1>4, <2>2 DEF IntensityCommand, OperatorOnly, scheduleVars, reinitVars
<1>5. ASSUME NEW g \in Gpu, RestartCommand(g) PROVE TypeOK'
    BY <1>5 DEF RestartCommand, reinit_device, gpuVars, threadVars, scheduleVars
<1>6. CASE EnableThread
  <2>1. operator.gpu \in Gpu /\ NextOf(operator) \in Thread
    BY LoopFields
  <2>2. Advance(operator, Idle) \in Loop
    BY AdvanceLoop, IdleLoop
  <2>3. operator' \in Loop
    BY <1>6, <2>2, IdleLoop DEF EnableThread
  <2>4. sem' \in [Thread -> Nat]
    BY <1>6, <2>1, PostTypes DEF EnableThread
  <2>5. deven' \in [Gpu -> {"enabled", "disabled", "recover"}]
    BY <1>6, <2>1 DEF EnableThread
  <2> QED BY <1>6, <2>3, <2>4, <2>5 DEF EnableThread, OperatorOnly, scheduleVars, reinitVars
<1>7. CASE pause_dynamic_threads
  <2>1. operator.gpu \in Gpu /\ <<0, operator.next>> \in Thread
    BY LoopFields
  <2>2. operator' \in Loop
    BY <1>7, AdvanceLoop, IdleLoop DEF pause_dynamic_threads
  <2>3. pause' \in [Thread -> BOOLEAN]
    BY <1>7, <2>1 DEF pause_dynamic_threads
  <2>4. sem' \in [Thread -> Nat]
    BY <1>7, <2>1, PostTypes DEF pause_dynamic_threads
  <2> QED BY <1>7, <2>2, <2>3, <2>4 DEF pause_dynamic_threads, gpuVars, scheduleVars, reinitVars
<1> QED BY <1>1, <1>2, <1>3, <1>4, <1>5, <1>6, <1>7 DEF Operator, OperatorLoop

LEMMA WatchdogTypes ==
    ASSUME TypeOK, Watchdog
    PROVE  TypeOK'
<1> USE DEF TypeOK, WatchOnly, reinitVars
<1>1. CASE SchedulePause
    BY <1>1, DeviceAssumption DEF SchedulePause, Idle, Loop, Gpu
<1>2. CASE ScheduleResume
    BY <1>2, DeviceAssumption DEF ScheduleResume, Idle, Loop, Gpu
<1>3. CASE PauseThread
  <2>1. NextOf(watchdog) \in Thread /\ Advance(watchdog, NextGpu) \in Loop
    BY LoopFields, AdvanceLoop, NextGpuLoop
  <2> QED BY <1>3, <2>1 DEF PauseThread
<1>4. CASE ResumeThread
  <2>1. NextOf(watchdog) \in Thread /\ Advance(watchdog, NextGpu) \in Loop
    BY LoopFields, AdvanceLoop, NextGpuLoop
  <2>2. pause' \in [Thread -> BOOLEAN] /\ watchdog' \in Loop
    BY <1>4, <2>1 DEF ResumeThread
  <2>3. sem' \in [Thread -> Nat]
    BY <1>4, <2>1, PostTypes DEF ResumeThread
  <2> QED BY <1>4, <2>2, <2>3 DEF ResumeThread
<1>5. ASSUME NEW g \in Gpu, Cutoff(g) PROVE TypeOK'
    BY <1>5 DEF Cutoff, scheduleVars
<1>6. ASSUME NEW g \in Gpu, Recovered(g) PROVE TypeOK'
    BY <1>6 DEF Recovered, scheduleVars
<1>7. ASSUME NEW g \in Gpu, DeclareWell(g) PROVE TypeOK'
    BY <1>7 DEF DeclareWell, scheduleVars
<1>8. CASE DeclareSick
  <2> DEFINE g == watchdog.gpu
  <2>0. g \in Gpu
    BY LoopFields
  <2>1. status' \in [Gpu -> {"well", "sick", "dead"}]
    BY <1>8, <2>0 DEF DeclareSick
  <2>2. reinit_device(g) => reinitq' \in Seq(Gpu)
    BY <2>0 DEF reinit_device
  <2> QED BY <1>8, <2>1, <2>2, IdleLoop DEF DeclareSick
<1>11. ASSUME NEW g \in Gpu, Suspect(g) PROVE TypeOK'
    BY <1>11, DeviceAssumption DEF Suspect, Loop
<1>9. ASSUME NEW g \in Gpu, DeclareDead(g) PROVE TypeOK'
    BY <1>9 DEF DeclareDead, scheduleVars
<1>10. ASSUME NEW g \in Gpu, RestartSick(g) PROVE TypeOK'
    BY <1>10 DEF RestartSick, reinit_device, scheduleVars
<1> QED BY <1>1, <1>2, <1>3, <1>4, <1>5, <1>6, <1>7, <1>8, <1>9, <1>10, <1>11
        DEF Watchdog, WatchdogLoop

LEMMA ReinitTypes ==
    ASSUME TypeOK, Reinit
    PROVE  TypeOK'
<1> USE DEF TypeOK, ReinitOnly, gpuVars, scheduleVars
<1>1. CASE ReinitPop
  <2>1. Head(reinitq) \in Gpu /\ Tail(reinitq) \in Seq(Gpu)
    BY <1>1 DEF ReinitPop
  <2>2. reinit' \in Loop
    BY <1>1, <2>1, DeviceAssumption DEF ReinitPop, Loop
  <2> QED BY <1>1, <2>1, <2>2 DEF ReinitPop
<1>2. CASE ReinitQuits
  <2>1. reinit' \in Loop
    BY <1>2, DeviceAssumption DEF ReinitQuits, Idle, Loop, Gpu
  <2> QED BY <1>2, <2>1 DEF ReinitQuits
<1>3. CASE CancelThread
  <2>1. NextOf(reinit) \in Thread /\ Following("create") \in Loop
    BY LoopFields, FollowingLoop
  <2>2. zombie' \in [Thread -> BOOLEAN]
    BY <1>3, <2>1 DEF CancelThread
  <2>3. lock_lost' \in BOOLEAN
    BY <1>3 DEF CancelThread
  <2> QED BY <1>3, <2>1, <2>2, <2>3 DEF CancelThread
<1>4. CASE CreateThread
  <2>1. NextOf(reinit) \in Thread /\ Following("post") \in Loop
    BY LoopFields, FollowingLoop
  <2> QED BY <1>4, <2>1 DEF CreateThread
<1>5. CASE PostThread
  <2>1. NextOf(reinit) \in Thread /\ Advance(reinit, Idle) \in Loop
    BY LoopFields, AdvanceLoop, IdleLoop
  <2> QED BY <1>5, <2>1 DEF PostThread, cgsem_post
<1>6. CASE CreateFails
    BY <1>6, IdleLoop DEF CreateFails
<1> QED BY <1>1, <1>2, <1>3, <1>4, <1>5, <1>6 DEF Reinit, ReinitLoop

LEMMA InitTypes == Init => TypeOK
<1> SUFFICES ASSUME Init PROVE TypeOK
    OBVIOUS
<1>1. deven \in [Gpu -> {"enabled", "disabled", "recover"}]
    BY DEF Init
<1>2. pause \in [Thread -> BOOLEAN]
    BY DeviceAssumption DEF Init, Gpu
<1>3. IsFiniteSet(Gpu)
    BY FS_Interval, DeviceAssumption DEF Gpu
<1>4. Cardinality({g \in Gpu : ~dynamic[g] /\ deven[g] # "disabled"}) \in Nat
    BY <1>3, FS_Subset, FS_CardinalityType
<1>5. sem \in [Thread -> Nat]
  <2> DEFINE n == Cardinality({g \in Gpu : ~dynamic[g] /\ deven[g] # "disabled"})
  <2>1. sem = [t \in Thread |-> (IF deven[gpu(t)] # "disabled" THEN 1 ELSE 0)
                                + (IF t \in Extra THEN n ELSE 0)]
    BY DEF Init
  <2>2. n \in Nat
    BY <1>4
  <2> HIDE DEF n
  <2> QED BY <2>1, <2>2
<1>6. /\ status \in [Gpu -> {"well", "sick", "dead"}] /\ dynamic \in [Gpu -> BOOLEAN]
      /\ getwork \in [Thread -> BOOLEAN] /\ late \in [Thread -> 0 .. 2]
      /\ pc \in [Thread -> {"init", "start", "getwork", "scan", "check",
                            "disabled", "failed", "dead"}]
      /\ zombie \in [Thread -> BOOLEAN]
    BY DEF Init
<1>7. /\ operator \in Loop /\ watchdog \in Loop /\ reinit \in Loop
      /\ sched_paused \in BOOLEAN /\ lock_lost \in BOOLEAN
    BY IdleLoop DEF Init
<1>8. reinitq \in Seq(Gpu)
    BY DEF Init
<1> QED BY <1>1, <1>2, <1>5, <1>6, <1>7, <1>8 DEF TypeOK

\* Every variable keeps its type, whatever the operator, the watchdog, the
\* restarts and the driver do, in any number of GPUs and threads.
THEOREM TypeCorrect == Spec => []TypeOK
<1>1. TypeOK /\ [Next]_vars => TypeOK'
  <2> SUFFICES ASSUME TypeOK, [Next]_vars PROVE TypeOK'
    OBVIOUS
  <2>1. CASE Next
    BY <2>1, ThreadTypes, OperatorTypes, WatchdogTypes, ReinitTypes DEF Next
  <2>2. CASE UNCHANGED vars
    BY <2>2 DEF vars, gpuVars, threadVars, scheduleVars, reinitVars, TypeOK
  <2> QED BY <2>1, <2>2
<1> QED BY <1>1, InitTypes, PTL DEF Spec

----------------------------------------------------------------------------
(* Why a thread waits.  WaitJustified does not hold of every history: the  *)
(* temperature, the schedule, a hang and a failed restart each leave a     *)
(* thread asleep on an enabled GPU, and so do a scan that fails between    *)
(* two steps of gpuenable, and pause_dynamic_threads, which takes GPU 0's  *)
(* threads for another GPU's.  Without those, it does.                     *)

CalmFeatures ==
    /\ Features \subseteq {"enable", "screen_enable", "dynamic", "restart", "scanfail"}
    /\ ~("enable" \in Features /\ "scanfail" \in Features)
    /\ "dynamic" \in Features => NGpus = 1

\* Nothing but the operator and a failed scan disables a GPU.
Calm ==
    /\ \A g \in Gpu : status[g] = "well" /\ deven[g] # "recover"
    /\ \A t \in Thread : late[t] = 0
    /\ watchdog = Idle /\ ~sched_paused

Jobs ==
    /\ operator.job \in {"idle", "enable", "screen_enable", "dynamic"}
    /\ operator.job \in {"enable", "screen_enable", "dynamic"} => operator.job \in Features
    /\ operator.job = "enable" /\ operator.next > 0 => deven[operator.gpu] = "enabled"
    /\ reinit.job \in {"idle", "cancel", "create", "post"}

\* A thread that waits, or will when it has started.
Asleep(t) == pc[t] \in {"init", "start", "disabled", "failed"} /\ sem[t] = 0

Reason(t) == pause[t] \/ deven[gpu(t)] # "enabled" \/ ToBePosted(t)

Justified == \A t \in Thread : Asleep(t) => Reason(t)

IInv == TypeOK /\ Calm /\ Jobs /\ Justified

LEMMA SameReason ==
    ASSUME NEW u \in Thread, Reason(u), UNCHANGED <<pause, deven, operator, reinit>>
    PROVE  Reason(u)'
    BY DEF Reason, ToBePosted

\* No step of a thread puts one to sleep without a reason.
LEMMA ThreadSleeps ==
    ASSUME CalmFeatures, IInv, NEW t \in Thread, MinerThread(t), NEW u \in Thread
    PROVE  Asleep(u)' => Asleep(u) \/ Reason(u)'
<1> gpu(t) \in Gpu
    BY ThreadFields DEF gpu
<1> /\ pc \in [Thread -> {"init", "start", "getwork", "scan", "check",
                          "disabled", "failed", "dead"}]
    /\ sem \in [Thread -> Nat] /\ deven \in [Gpu -> {"enabled", "disabled", "recover"}]
    BY DEF IInv, TypeOK
<1> USE DEF Asleep, At
<1>1. CASE Started(t)
    BY <1>1 DEF Started
<1>2. CASE InitFails(t)
    BY <1>2 DEF InitFails
<1>3. CASE StartHashing(t)
    BY <1>3 DEF StartHashing, cgsem_wait
<1>4. CASE GetWork(t)
    BY <1>4 DEF GetWork
<1>5. CASE ScanDone(t)
    BY <1>5 DEF ScanDone
<1>6. CASE ScanFailed(t)
  <2>1. Asleep(u)' => Asleep(u) \/ u = t
    BY <1>6 DEF ScanFailed
  <2>2. u = t => deven'[gpu(u)] # "enabled"
    BY <1>6 DEF ScanFailed
  <2>3. deven'[gpu(u)] # "enabled" => Reason(u)'
    BY DEF Reason, gpu
  <2> QED BY <2>1, <2>2, <2>3
<1>7. CASE FailedEnabled(t)
    BY <1>7 DEF FailedEnabled, cgsem_wait
<1>8. CASE CheckSkipped(t)
    BY <1>8 DEF CheckSkipped, GoOn
<1>9. CASE Check(t)
  <2>1. CASE pause[t] \/ deven[gpu(t)] # "enabled"
    <3>1. Asleep(u)' => Asleep(u) \/ u = t
        BY <1>9, <2>1 DEF Check
    <3>2. pause' = pause /\ deven' = deven
        BY <1>9 DEF Check, ThreadOnly
    <3>3. Reason(t)'
        BY <2>1, <3>2 DEF Reason, gpu
    <3> QED BY <3>1, <3>3
  <2>2. CASE ~(pause[t] \/ deven[gpu(t)] # "enabled")
    BY <1>9, <2>2 DEF Check, GoOn
  <2> QED BY <2>1, <2>2
<1>10. CASE ReEnabled(t)
    BY <1>10 DEF ReEnabled, cgsem_wait
<1>11. CASE ZombieReturns(t)
    BY <1>11 DEF ZombieReturns
<1>12. CASE Hangs(t)
    BY <1>12 DEF Hangs
<1> QED BY <1>1, <1>2, <1>3, <1>4, <1>5, <1>6, <1>7, <1>8, <1>9, <1>10, <1>11, <1>12
        DEF MinerThread

\* What a step of a thread leaves alone, and what it may do to a GPU.
LEMMA ThreadFrame ==
    ASSUME CalmFeatures, IInv, NEW t \in Thread, MinerThread(t)
    PROVE  /\ UNCHANGED <<pause, operator, reinit, watchdog, sched_paused>>
           /\ deven' = deven \/ ("scanfail" \in Features /\ deven' = [deven EXCEPT ![gpu(t)] = "disabled"])
           /\ Calm'
<1> gpu(t) \in Gpu
    BY ThreadFields DEF gpu
<1> Calm /\ status \in [Gpu -> {"well", "sick", "dead"}] /\ late \in [Thread -> 0 .. 2]
    /\ deven \in [Gpu -> {"enabled", "disabled", "recover"}]
    BY DEF IInv, TypeOK
<1>1. "hang" \notin Features
    BY DEF CalmFeatures
<1>2. ~Hangs(t)
    BY <1>1 DEF Hangs
<1>3. UNCHANGED <<pause, operator, reinit, watchdog, sched_paused>>
    BY <1>2 DEF MinerThread, Started, InitFails, StartHashing, GetWork, ScanDone, ScanFailed,
                FailedEnabled, CheckSkipped, Check, ReEnabled, ZombieReturns,
                ThreadOnly, scheduleVars, reinitVars
<1>4. deven' = deven \/ ("scanfail" \in Features /\ deven' = [deven EXCEPT ![gpu(t)] = "disabled"])
    BY <1>2 DEF MinerThread, Started, InitFails, StartHashing, GetWork, ScanDone, ScanFailed,
                FailedEnabled, CheckSkipped, Check, ReEnabled, ZombieReturns
<1>5. \A g \in Gpu : deven'[g] # "recover"
    BY <1>4 DEF Calm
<1>6. UNCHANGED reportVars \/ Report(t, TRUE) \/ Report(t, FALSE)
    BY <1>2 DEF MinerThread, Started, InitFails, StartHashing, GetWork, ScanDone, ScanFailed,
                FailedEnabled, CheckSkipped, Check, GoOn, ReEnabled, ZombieReturns, reportVars
<1>7. (\A g \in Gpu : status'[g] = "well") /\ (\A u \in Thread : late'[u] = 0)
    BY <1>6 DEF Calm, Report, reportVars
<1> QED BY <1>3, <1>4, <1>5, <1>7 DEF Calm

LEMMA ThreadInv ==
    ASSUME CalmFeatures, IInv, NEW t \in Thread, MinerThread(t)
    PROVE  IInv'
<1> USE DEF IInv
<1>1. TypeOK'
    BY ThreadTypes
<1>2. Jobs'
    BY ThreadFrame DEF Jobs, CalmFeatures
<1>3. ASSUME NEW u \in Thread, Reason(u) PROVE Reason(u)'
  <2>1. gpu(u) \in Gpu /\ gpu(t) \in Gpu
    BY ThreadFields DEF gpu
  <2>2. deven[gpu(u)] # "enabled" => deven'[gpu(u)] # "enabled"
    BY <2>1, ThreadFrame DEF TypeOK
  <2>3. ToBePosted(u) => ToBePosted(u)'
    BY ThreadFrame DEF ToBePosted
  <2>4. pause' = pause
    BY ThreadFrame
  <2> QED BY <1>3, <2>2, <2>3, <2>4 DEF Reason, gpu
<1>4. Justified'
    BY <1>3, ThreadSleeps DEF Justified
<1> QED BY <1>1, <1>2, <1>4, ThreadFrame

\* The watchdog finds nothing to do.
LEMMA WatchdogRests ==
    ASSUME CalmFeatures, IInv
    PROVE  ~Watchdog
<1> USE DEF IInv, Calm
<1>1. ~SchedulePause /\ ~ScheduleResume
    BY DEF CalmFeatures, SchedulePause, ScheduleResume
<1>2. ~WatchdogLoop
    BY DEF WatchdogLoop, PauseThread, ResumeThread, DeclareSick, Idle
<1>3. ASSUME NEW g \in Gpu
      PROVE  ~Cutoff(g) /\ ~Recovered(g) /\ ~DeclareWell(g) /\ ~Suspect(g)
             /\ ~DeclareDead(g) /\ ~RestartSick(g)
  <2>1. late[First(g)] = 0
    BY GpuThread
  <2> QED BY <2>1 DEF CalmFeatures, Cutoff, Recovered, DeclareWell, Suspect, DeclareDead,
             RestartSick
<1> QED BY <1>1, <1>2, <1>3 DEF Watchdog

\* A post gives no thread a reason to sleep less.
LEMMA PostWakes ==
    ASSUME TypeOK, NEW t \in Thread, cgsem_post(t), pc' = pc, NEW u \in Thread
    PROVE  Asleep(u)' => Asleep(u) /\ u # t
<1> sem[t] \in Nat /\ sem[t] + 1 # 0
    BY DEF TypeOK
<1> QED BY DEF TypeOK, cgsem_post, Asleep

\* A loop over the threads of a GPU leaves behind the one it is at, no other.
LEMMA LoopProgress ==
    ASSUME NEW loop \in Loop, NEW then, NEW u \in Thread, u # NextOf(loop),
           loop.gpu = gpu(u), loop.next <= u[2]
    PROVE  /\ Advance(loop, then) = [loop EXCEPT !.next = loop.next + 1]
           /\ loop.next + 1 <= u[2]
<1>1. u[2] \in 0 .. PerGpu - 1 /\ u = <<u[1], u[2]>> /\ loop.next \in 0 .. PerGpu - 1
    BY ThreadFields, LoopFields
<1>2. u[2] # loop.next
    BY <1>1 DEF NextOf, gpu
<1>3. loop.next + 1 <= u[2] /\ loop.next < PerGpu - 1
    BY <1>1, <1>2, DeviceAssumption
<1> QED BY <1>3 DEF Advance

LEMMA OperatorCalm ==
    ASSUME CalmFeatures, IInv, Operator
    PROVE  Calm'
<1> USE DEF IInv, Calm, TypeOK
<1>1. ASSUME NEW g \in Gpu,
             EnableCommand(g) \/ ScreenEnable(g) \/ DisableCommand(g) \/ IntensityCommand(g)
      PROVE  Calm'
    BY <1>1 DEF EnableCommand, ScreenEnable, DisableCommand, IntensityCommand, OperatorOnly,
                scheduleVars
<1>2. ASSUME NEW g \in Gpu, RestartCommand(g) PROVE Calm'
    BY <1>2 DEF RestartCommand, gpuVars, threadVars, scheduleVars
<1>3. CASE EnableThread
    BY <1>3 DEF EnableThread, OperatorOnly, scheduleVars
<1>4. CASE pause_dynamic_threads
    BY <1>4 DEF pause_dynamic_threads, gpuVars, scheduleVars
<1> QED BY <1>1, <1>2, <1>3, <1>4 DEF Operator, OperatorLoop

LEMMA OperatorJobs ==
    ASSUME CalmFeatures, IInv, Operator
    PROVE  Jobs'
<1> USE DEF IInv, Jobs, Idle
<1>1. ASSUME NEW g \in Gpu, EnableCommand(g) \/ ScreenEnable(g) PROVE Jobs'
    BY <1>1 DEF EnableCommand, ScreenEnable, Begin, OperatorOnly, reinitVars
<1>2. ASSUME NEW g \in Gpu, DisableCommand(g) PROVE Jobs'
    BY <1>2 DEF DisableCommand, OperatorOnly, reinitVars
<1>3. ASSUME NEW g \in Gpu, IntensityCommand(g) PROVE Jobs'
    BY <1>3 DEF IntensityCommand, Begin, OperatorOnly, reinitVars
<1>4. ASSUME NEW g \in Gpu, RestartCommand(g) PROVE Jobs'
    BY <1>4 DEF RestartCommand, gpuVars
<1>5. CASE EnableThread
  <2>1. operator \in Loop /\ operator.gpu \in Gpu
    BY LoopFields DEF TypeOK
  <2>2. operator' = Idle \/ (operator'.job = operator.job /\ operator'.gpu = operator.gpu)
    BY <1>5, <2>1 DEF EnableThread, Advance, Loop
  <2>3. operator' # Idle /\ operator.job = "enable" => deven'[operator.gpu] = "enabled"
    BY <1>5, <2>1 DEF EnableThread, TypeOK
  <2>4. reinit' = reinit
    BY <1>5 DEF EnableThread, OperatorOnly, reinitVars
  <2> QED BY <2>2, <2>3, <2>4
<1>6. CASE pause_dynamic_threads
  <2>1. operator' = Idle \/ operator'.job = operator.job
    BY <1>6 DEF pause_dynamic_threads, Advance, Loop, TypeOK
  <2>2. reinit' = reinit /\ operator.job = "dynamic"
    BY <1>6 DEF pause_dynamic_threads, reinitVars
  <2> QED BY <2>1, <2>2
<1> QED BY <1>1, <1>2, <1>3, <1>4, <1>5, <1>6 DEF Operator, OperatorLoop

LEMMA OperatorJustified ==
    ASSUME CalmFeatures, IInv, Operator
    PROVE  Justified'
<1> USE DEF IInv
<1> SUFFICES ASSUME NEW u \in Thread, Asleep(u)' PROVE Reason(u)'
    BY DEF Justified
<1>0. gpu(u) \in Gpu /\ u[2] \in 0 .. PerGpu - 1 /\ u = <<gpu(u), u[2]>>
      /\ (Asleep(u) => Reason(u))
    BY ThreadFields DEF gpu, Justified
<1>1. ASSUME NEW g \in Gpu, EnableCommand(g) PROVE Reason(u)'
  <2>1. Asleep(u) /\ pause' = pause /\ deven' = deven /\ reinit' = reinit /\ operator = Idle
    BY <1>1 DEF EnableCommand, Begin, OperatorOnly, reinitVars, Asleep
  <2> QED BY <1>0, <2>1 DEF Reason, ToBePosted, Idle
<1>2. ASSUME NEW g \in Gpu, ScreenEnable(g) PROVE Reason(u)'
  <2>1. Asleep(u) /\ pause' = pause /\ reinit' = reinit /\ operator = Idle
        /\ operator' = [job |-> "screen_enable", gpu |-> g, next |-> 0]
        /\ deven' = [deven EXCEPT ![g] = "enabled"]
    BY <1>2 DEF ScreenEnable, Begin, OperatorOnly, reinitVars, Asleep
  <2>2. CASE gpu(u) = g
    BY <1>0, <2>1, <2>2 DEF Reason, ToBePosted
  <2>3. CASE gpu(u) # g
    BY <1>0, <2>1, <2>3 DEF Reason, ToBePosted, Idle, TypeOK
  <2> QED BY <2>2, <2>3
<1>3. ASSUME NEW g \in Gpu, DisableCommand(g) PROVE Reason(u)'
  <2>1. Asleep(u) /\ pause' = pause /\ reinit' = reinit /\ operator' = operator
        /\ deven' = [deven EXCEPT ![g] = "disabled"]
    BY <1>3 DEF DisableCommand, OperatorOnly, reinitVars, Asleep
  <2>2. deven[gpu(u)] # "enabled" => deven'[gpu(u)] # "enabled"
    BY <1>0, <2>1 DEF TypeOK
  <2> QED BY <1>0, <2>1, <2>2 DEF Reason, ToBePosted, gpu
<1>4. ASSUME NEW g \in Gpu, IntensityCommand(g) PROVE Reason(u)'
  <2>1. Asleep(u) /\ pause' = pause /\ deven' = deven /\ reinit' = reinit /\ operator = Idle
    BY <1>4 DEF IntensityCommand, Begin, OperatorOnly, reinitVars, Asleep
  <2> QED BY <1>0, <2>1 DEF Reason, ToBePosted, Idle
<1>5. ASSUME NEW g \in Gpu, RestartCommand(g) PROVE Reason(u)'
    BY <1>0, <1>5, SameReason DEF RestartCommand, gpuVars, threadVars, Asleep
<1>6. CASE EnableThread
  <2> DEFINE t == NextOf(operator)
  <2>1. operator \in Loop /\ operator.gpu \in Gpu /\ t \in Thread /\ gpu(t) = operator.gpu
    BY LoopFields DEF TypeOK, NextOf, gpu
  <2>2. status[operator.gpu] = "well"
    BY <2>1 DEF Calm
  <2>3. cgsem_post(t) /\ pc' = pc /\ pause' = pause /\ reinit' = reinit
        /\ operator' = Advance(operator, Idle)
    BY <1>6, <2>2 DEF EnableThread, OperatorOnly, reinitVars
  <2>4. Asleep(u) /\ u # t
    BY <2>1, <2>3, PostWakes
  <2>5. deven[gpu(u)] # "enabled" => deven'[gpu(u)] # "enabled" \/ ToBePosted(u)'
    <3>1. CASE gpu(u) # operator.gpu \/ deven' = deven
        BY <1>0, <1>6, <2>1, <3>1 DEF EnableThread, TypeOK
    <3>2. CASE gpu(u) = operator.gpu /\ deven' # deven
      <4>1. operator.job = "enable" /\ deven' = [deven EXCEPT ![operator.gpu] = "enabled"]
        BY <1>6, <2>2, <3>2 DEF EnableThread
      <4>2. deven[operator.gpu] # "enabled"
        BY <4>1, <3>2, <2>1 DEF TypeOK
      <4>3. operator.next = 0
        BY <4>1, <4>2, <2>1 DEF Jobs, Loop
      <4>4. operator' = [operator EXCEPT !.next = operator.next + 1] /\ operator.next + 1 <= u[2]
        BY <1>0, <2>1, <2>3, <2>4, <3>2, <4>3, LoopProgress
      <4> QED BY <3>2, <4>1, <4>4, <2>1 DEF ToBePosted, Loop
    <3> QED BY <3>1, <3>2
  <2>6. ToBePosted(u) => ToBePosted(u)'
    <3>1. CASE operator.gpu = gpu(u) /\ operator.next <= u[2]
      <4>1. operator' = [operator EXCEPT !.next = operator.next + 1] /\ operator.next + 1 <= u[2]
        BY <2>1, <2>3, <2>4, <3>1, LoopProgress
      <4> QED BY <1>6, <3>1, <4>1, <2>1 DEF EnableThread, ToBePosted, Loop
    <3>2. CASE ~(operator.gpu = gpu(u) /\ operator.next <= u[2])
        BY <1>6, <2>3, <3>2 DEF EnableThread, ToBePosted, gpu
    <3> QED BY <3>1, <3>2
  <2> QED BY <1>0, <2>3, <2>4, <2>5, <2>6 DEF Reason, gpu
<1>7. CASE pause_dynamic_threads
  <2> DEFINE t == <<0, operator.next>>
  <2>1. operator \in Loop /\ operator.gpu \in Gpu /\ t \in Thread
    BY LoopFields DEF TypeOK
  <2>2. NGpus = 1 /\ Gpu = {0}
    BY <1>7, DeviceAssumption DEF pause_dynamic_threads, Jobs, CalmFeatures, Gpu
  <2>3. deven' = deven /\ pc' = pc /\ reinit' = reinit /\ operator' = Advance(operator, Idle)
        /\ pause' = [pause EXCEPT ![t] = dynamic[operator.gpu]]
    BY <1>7 DEF pause_dynamic_threads, gpuVars, reinitVars
  <2>4. CASE u = t
    <3>1. CASE dynamic[operator.gpu]
        BY <2>1, <2>3, <2>4, <3>1 DEF Reason, TypeOK
    <3>2. CASE deven[operator.gpu] = "disabled"
        BY <1>0, <2>1, <2>2, <2>3, <3>2 DEF Reason, gpu
    <3>3. CASE ~dynamic[operator.gpu] /\ deven[operator.gpu] # "disabled"
      <4>1. cgsem_post(t)
        BY <1>7, <3>3 DEF pause_dynamic_threads
      <4> QED BY <2>1, <2>3, <2>4, <4>1, PostWakes
    <3> QED BY <3>1, <3>2, <3>3
  <2>5. CASE u # t
    <3>1. Asleep(u)
        BY <1>7, <2>1, <2>3, <2>5 DEF pause_dynamic_threads, cgsem_post, Asleep, TypeOK
    <3>2. pause[u] => pause'[u]
        BY <2>1, <2>3, <2>5 DEF TypeOK
    <3>3. ToBePosted(u) => ToBePosted(u)'
      <4>1. CASE u \in Extra /\ operator.next <= u[2]
        <5>1. operator.gpu = gpu(u) /\ u # NextOf(operator)
            BY <1>0, <2>1, <2>2, <2>5 DEF NextOf
        <5>2. operator' = [operator EXCEPT !.next = operator.next + 1] /\ operator.next + 1 <= u[2]
            BY <2>1, <2>3, <4>1, <5>1, LoopProgress
        <5> QED BY <1>7, <2>1, <4>1, <5>2 DEF pause_dynamic_threads, ToBePosted, Loop
      <4>2. CASE ~(u \in Extra /\ operator.next <= u[2])
        BY <1>7, <2>3, <4>2 DEF pause_dynamic_threads, ToBePosted, gpu
      <4> QED BY <4>1, <4>2
    <3> QED BY <1>0, <2>3, <3>1, <3>2, <3>3 DEF Reason, gpu
  <2> QED BY <2>4, <2>5
<1> QED BY <1>1, <1>2, <1>3, <1>4, <1>5, <1>6, <1>7 DEF Operator, OperatorLoop

LEMMA ReinitFrame ==
    ASSUME CalmFeatures, IInv, Reinit
    PROVE  Calm' /\ Jobs'
<1> USE DEF IInv, Jobs, Idle, ReinitOnly, gpuVars, scheduleVars
<1>1. "initfail" \notin Features
    BY DEF CalmFeatures
<1>2. UNCHANGED <<deven, status, late, operator, watchdog, sched_paused>>
    BY <1>1 DEF Reinit, ReinitPop, ReinitQuits, ReinitLoop, CancelThread, CreateThread,
                PostThread, CreateFails
<1>3. reinit'.job \in {"idle", "cancel", "create", "post"}
  <2>1. reinit \in Loop
    BY DEF TypeOK
  <2>2. CASE ReinitPop
    BY <2>2 DEF ReinitPop
  <2>3. CASE CancelThread
    BY <2>1, <2>3 DEF CancelThread, Following, Advance, Loop
  <2>4. CASE CreateThread
    BY <2>1, <2>4 DEF CreateThread, Following, Advance, Loop
  <2>5. CASE PostThread
    BY <2>1, <2>5 DEF PostThread, Advance, Loop
  <2> QED BY <1>1, <2>2, <2>3, <2>4, <2>5 DEF Reinit, ReinitLoop, ReinitQuits, CreateFails
<1> QED BY <1>2, <1>3 DEF Calm

LEMMA ReinitJustified ==
    ASSUME CalmFeatures, IInv, Reinit
    PROVE  Justified'
<1> USE DEF IInv
<1> SUFFICES ASSUME NEW u \in Thread, Asleep(u)' PROVE Reason(u)'
    BY DEF Justified
<1>0. gpu(u) \in Gpu /\ u[2] \in 0 .. PerGpu - 1 /\ u = <<gpu(u), u[2]>>
      /\ (Asleep(u) => Reason(u))
    BY ThreadFields DEF gpu, Justified
<1>1. reinit \in Loop /\ reinit.gpu \in Gpu /\ NextOf(reinit) \in Thread
      /\ gpu(NextOf(reinit)) = reinit.gpu /\ reinit.next \in 0 .. PerGpu - 1
    BY LoopFields DEF TypeOK, NextOf, gpu
<1>2. "initfail" \notin Features
    BY DEF CalmFeatures
<1>3. UNCHANGED <<deven, pause, operator>>
    BY <1>2 DEF Reinit, ReinitPop, ReinitQuits, ReinitLoop, CancelThread, CreateThread,
                PostThread, CreateFails, ReinitOnly, gpuVars
<1>4. ASSUME ToBePosted(u) => ToBePosted(u)', Reason(u) PROVE Reason(u)'
    BY <1>3, <1>4 DEF Reason
<1>5. CASE ReinitPop
  <2>1. Asleep(u) /\ reinit = Idle /\ reinit'.job = "cancel"
    BY <1>5 DEF ReinitPop, Asleep
  <2>2. ToBePosted(u) => ToBePosted(u)'
    BY <1>3, <2>1 DEF ToBePosted, Idle
  <2> QED BY <1>0, <1>4, <2>1, <2>2
<1>6. CASE CancelThread
  <2>1. reinit' = Following("create") /\ reinit.job = "cancel"
    BY <1>6 DEF CancelThread
  <2>2. reinit'.job \in {"cancel", "create"} /\ reinit'.gpu = reinit.gpu
    BY <1>1, <2>1 DEF Following, Advance, Loop
  <2>3. Asleep(u)
    BY <1>1, <1>6 DEF CancelThread, Asleep, TypeOK
  <2>4. ToBePosted(u) => ToBePosted(u)'
    BY <1>3, <2>1, <2>2 DEF ToBePosted
  <2> QED BY <1>0, <1>4, <2>3, <2>4
<1>7. CASE CreateThread
  <2>1. reinit' = Following("post") /\ reinit.job = "create"
    BY <1>7 DEF CreateThread
  <2>2. reinit'.gpu = reinit.gpu
        /\ (reinit'.job = "create" \/ (reinit'.job = "post" /\ reinit'.next = 0))
    BY <1>1, <2>1 DEF Following, Advance, Loop
  <2>3. CASE gpu(u) = reinit.gpu
    <3>1. ToBePosted(u)'
        BY <1>0, <2>2, <2>3 DEF ToBePosted, gpu
    <3> QED BY <3>1 DEF Reason
  <2>4. CASE gpu(u) # reinit.gpu
    <3>1. Asleep(u)
        BY <1>1, <1>7, <2>4 DEF CreateThread, Asleep, TypeOK
    <3>2. ToBePosted(u) => ToBePosted(u)'
        BY <1>3, <2>4 DEF ToBePosted
    <3> QED BY <1>0, <1>4, <3>1, <3>2
  <2> QED BY <2>3, <2>4
<1>8. CASE PostThread
  <2>1. reinit' = Advance(reinit, Idle) /\ reinit.job = "post"
        /\ cgsem_post(NextOf(reinit)) /\ pc' = pc
    BY <1>8 DEF PostThread
  <2>2. Asleep(u) /\ u # NextOf(reinit)
    BY <1>1, <2>1, PostWakes
  <2>3. ToBePosted(u) => ToBePosted(u)'
    <3>1. CASE reinit.gpu = gpu(u) /\ reinit.next <= u[2]
      <4>1. reinit' = [reinit EXCEPT !.next = reinit.next + 1] /\ reinit.next + 1 <= u[2]
        BY <1>1, <2>1, <2>2, <3>1, LoopProgress
      <4> QED BY <1>1, <2>1, <3>1, <4>1 DEF ToBePosted, Loop
    <3>2. CASE ~(reinit.gpu = gpu(u) /\ reinit.next <= u[2])
        BY <1>3, <2>1, <3>2 DEF ToBePosted
    <3> QED BY <3>1, <3>2
  <2> QED BY <1>0, <1>4, <2>2, <2>3
<1> QED BY <1>2, <1>5, <1>6, <1>7, <1>8 DEF Reinit, ReinitLoop, ReinitQuits, CreateFails

LEMMA InitInv ==
    ASSUME CalmFeatures, Init
    PROVE  IInv
<1>1. TypeOK
    BY InitTypes
<1>2. Calm /\ Jobs
    BY DEF Init, Calm, Jobs, Idle
<1>3. ASSUME NEW u \in Thread, deven[gpu(u)] = "enabled" PROVE sem[u] # 0
  <2> DEFINE n == Cardinality({g \in Gpu : ~dynamic[g] /\ deven[g] # "disabled"})
  <2>1. IsFiniteSet(Gpu)
    BY FS_Interval, DeviceAssumption DEF Gpu
  <2>2. n \in Nat
    BY <2>1, FS_Subset, FS_CardinalityType
  <2>3. sem[u] = (IF deven[gpu(u)] # "disabled" THEN 1 ELSE 0) + (IF u \in Extra THEN n ELSE 0)
    BY DEF Init
  <2> HIDE DEF n
  <2> QED BY <1>3, <2>2, <2>3
<1>4. Justified
    BY <1>3 DEF Justified, Asleep, Reason
<1> QED BY <1>1, <1>2, <1>4 DEF IInv

\* A thread waits on its semaphore only while it is paused, its GPU is disabled,
\* or someone is about to post it: whatever the order in which commands, failed
\* scans and restarts meet the checks of any number of threads.
THEOREM WaitsAreJustified ==
    ASSUME CalmFeatures
    PROVE  Spec => []WaitJustified
<1>1. Init => IInv
    BY InitInv
<1>2. IInv /\ [Next]_vars => IInv'
  <2> SUFFICES ASSUME IInv, [Next]_vars PROVE IInv'
    OBVIOUS
  <2>1. ASSUME NEW t \in Thread, MinerThread(t) PROVE IInv'
    BY <2>1, ThreadInv
  <2>2. CASE Operator
    BY <2>2, OperatorTypes, OperatorCalm, OperatorJobs, OperatorJustified DEF IInv
  <2>3. CASE Watchdog
    BY <2>3, WatchdogRests
  <2>4. CASE Reinit
    BY <2>4, ReinitTypes, ReinitFrame, ReinitJustified DEF IInv
  <2>5. CASE UNCHANGED vars
    BY <2>5 DEF vars, gpuVars, threadVars, scheduleVars, reinitVars, IInv, TypeOK, Calm, Jobs,
                Justified, Asleep, Reason, ToBePosted
  <2> QED BY <2>1, <2>2, <2>3, <2>4, <2>5 DEF Next
<1>3. IInv => WaitJustified
    BY DEF IInv, Justified, Asleep, Reason, Waiting, WaitJustified
<1> QED BY <1>1, <1>2, <1>3, PTL DEF Spec

=============================================================================
