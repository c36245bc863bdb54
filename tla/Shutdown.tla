------------------------------ MODULE Shutdown ------------------------------
(***************************************************************************)
(* How the program starts its threads and how it ends: main creates them   *)
(* one after another, and a signal, the operator's q, the API's quit or    *)
(* restart, or the last of the shares that were asked for, make some       *)
(* thread cancel them in turn, clean up and leave.  Threads take the       *)
(* console lock to log at any moment; a cancelled thread ends where it is, *)
(* with what it holds.                                                     *)
(***************************************************************************)
EXTENDS Naturals, Sequences

CONSTANTS
    Loggers,  \* bound: the threads that log in the model
    Killers   \* who may end the program: a subset of {"signal", "quit", "restart", "input", "shares"}

VARIABLES
    started,    \* how far main has come through the threads it creates
    life,       \* each thread: "none", "live", "cancelled" or "dead"
    pth,        \* the thread table still holds the thread's handle
    console,    \* who holds console_lock
    qrlock,     \* who holds quit_restart_lock
    apipc,      \* where the API thread is
    killpc,     \* how far each killer has come
    carrier,    \* the thread each killer runs in
    ended,      \* "no", "exit", "exec", or "exec failed"
    connected   \* successful_connect

shutVars == <<started, life, pth, console, qrlock, apipc, killpc, carrier, ended, connected>>

(* The threads in the order main creates them.  "bye" is the thread the    *)
(* API makes for a quit or a restart, "submit" stands for the threads that *)
(* are never cancelled.                                                    *)
Started == <<"stage", "miner", "watchpool", "watchdog", "api", "input">>
Tabled == {Started[i] : i \in 1 .. 6}
ShutThreads == Tabled \union {"main", "submit", "bye"}
Asynchronous == {"stage", "watchpool", "watchdog", "api", "input"}
Nobody1 == "nobody"

ShutInit ==
    /\ started = 0
    /\ life = [t \in ShutThreads |-> IF t \in {"main", "submit"} THEN "live" ELSE "none"]
    /\ pth = [t \in ShutThreads |-> FALSE]
    /\ console = Nobody1
    /\ qrlock = Nobody1
    /\ apipc = "serve"
    /\ killpc = [k \in Killers |-> "idle"]
    /\ carrier = [k \in Killers |-> Nobody1]
    /\ ended = "no"
    /\ connected = FALSE

Running(t) == life[t] \in {"live", "cancelled"} /\ ended \notin {"exit", "exec"}
(* A thread in a signal handler, or ending the program, does nothing else. *)
Occupied(t) == \E k \in Killers : carrier[k] = t /\ killpc[k] # "idle"

(* main: thread_create, in order; a pool has answered before the miners.   *)
Connect ==
    /\ Running("main") /\ ~Occupied("main")
    /\ ~connected
    /\ connected' = TRUE
    /\ UNCHANGED <<started, life, pth, console, qrlock, apipc, killpc, carrier, ended>>
StartThread ==
    /\ Running("main") /\ ~Occupied("main")
    /\ console # "main"
    /\ started < Len(Started)
    /\ Started[started + 1] = "miner" => connected
    /\ started' = started + 1
    /\ life' = [life EXCEPT ![Started[started + 1]] = "live"]
    /\ pth' = [pth EXCEPT ![Started[started + 1]] = TRUE]
    /\ UNCHANGED <<console, qrlock, apipc, killpc, carrier, ended, connected>>

(* Any thread logs, or draws: lock_curses and unlock_curses.               *)
LockConsole(t) ==
    /\ Running(t) /\ ~Occupied(t)
    /\ t \in Loggers
    /\ console = Nobody1
    /\ qrlock # t
    /\ console' = t
    /\ UNCHANGED <<started, life, pth, qrlock, apipc, killpc, carrier, ended, connected>>
UnlockConsole(t) ==
    /\ Running(t) /\ ~Occupied(t)
    /\ console = t
    /\ console' = Nobody1
    /\ UNCHANGED <<started, life, pth, qrlock, apipc, killpc, carrier, ended, connected>>

(* A cancelled thread ends, at any of its cancellation points; its         *)
(* handlers run, what it holds otherwise stays held.                       *)
Ends(t) ==
    /\ life[t] = "cancelled"
    /\ ended \notin {"exit", "exec"}
    /\ t = "api" => qrlock \in {Nobody1, "api"}
    /\ life' = [life EXCEPT ![t] = "dead"]
    /\ UNCHANGED <<started, pth, console, qrlock, apipc, killpc, carrier, ended, connected>>

----------------------------------------------------------------------------
(* api(): the loop ends after a quit or a restart; tidyup and then the     *)
(* creation of the thread that ends the program happen under               *)
(* quit_restart_lock.                                                      *)
ApiStep(from, to) ==
    /\ Running("api") /\ ~Occupied("api")
    /\ console # "api"
    /\ apipc = from
    /\ apipc' = to
ApiBye ==
    /\ ApiStep("serve", "bye")
    /\ Killers \intersect {"quit", "restart"} # {}
    /\ UNCHANGED <<started, life, pth, console, qrlock, killpc, carrier, ended, connected>>
TidyUp ==
    /\ ApiStep("bye", "tidied")
    /\ qrlock = Nobody1
    /\ UNCHANGED <<started, life, pth, console, qrlock, killpc, carrier, ended, connected>>
ApiLockUnheld ==
    /\ ApiStep("tidied", "create")
    /\ qrlock = Nobody1
    /\ qrlock' = qrlock
    /\ UNCHANGED <<started, life, pth, console, killpc, carrier, ended, connected>>
ApiLock ==
    /\ ApiStep("tidied", "create")
    /\ qrlock = Nobody1
    /\ qrlock' = "api"
    /\ UNCHANGED <<started, life, pth, console, killpc, carrier, ended, connected>>
CreateBye(k) ==
    /\ ApiStep("create", "created")
    /\ k \in {"quit", "restart"}
    /\ killpc[k] = "idle"
    /\ life' = [life EXCEPT !["bye"] = "live"]
    /\ killpc' = [killpc EXCEPT ![k] = "wait"]
    /\ carrier' = [carrier EXCEPT ![k] = "bye"]
    /\ UNCHANGED <<started, pth, console, qrlock, ended, connected>>
ApiUnlockForgets ==
    /\ ApiStep("created", "left")
    /\ pth' = [pth EXCEPT !["api"] = FALSE]
    /\ life' = [life EXCEPT !["api"] = "dead"]
    /\ UNCHANGED <<started, console, qrlock, killpc, carrier, ended, connected>>
ApiUnlock ==
    /\ ApiStep("created", "left")
    /\ qrlock' = Nobody1
    /\ pth' = [pth EXCEPT !["api"] = FALSE]
    /\ life' = [life EXCEPT !["api"] = "dead"]
    /\ UNCHANGED <<started, console, killpc, carrier, ended, connected>>
(* quit_thread, restart_thread: wait until the creator has finished.       *)
ByeProceeds(k) ==
    /\ killpc[k] = "wait"
    /\ Running("bye")
    /\ qrlock = Nobody1
    /\ killpc' = [killpc EXCEPT ![k] = "begin"]
    /\ UNCHANGED <<started, life, pth, console, qrlock, apipc, carrier, ended, connected>>

(* The other killers: a signal interrupts whichever thread it finds, q is  *)
(* the input thread's, the shares are counted by a submitting thread.      *)
Kill(k, t) ==
    /\ killpc[k] = "idle"
    /\ Running(t) /\ ~Occupied(t)
    /\ \/ k = "signal"
       \/ k = "input" /\ t = "input" /\ console # t
       \/ k = "shares" /\ t = "submit" /\ console # t /\ connected
    /\ killpc' = [killpc EXCEPT ![k] = "begin"]
    /\ carrier' = [carrier EXCEPT ![k] = t]
    /\ UNCHANGED <<started, life, pth, console, qrlock, apipc, ended, connected>>

(* The same signal again, whose handler was restored: the system ends it.  *)
SignalAgain ==
    /\ "signal" \in Killers
    /\ killpc["signal"] # "idle"
    /\ ended \notin {"exit", "exec"}
    /\ ended' = "exit"
    /\ UNCHANGED <<started, life, pth, console, qrlock, apipc, killpc, carrier, connected>>

----------------------------------------------------------------------------
(* thr_info_cancel: the handle is forgotten with the cancellation, so that *)
(* the pthread_join behind it in __kill_work is never made.                *)
Cancels(k, t) ==
    /\ life' = IF pth[t] /\ life[t] = "live" THEN
                   [life EXCEPT ![t] = IF t \in Asynchronous /\ carrier[k] # t THEN "dead" ELSE "cancelled"]
               ELSE life
    /\ pth' = [pth EXCEPT ![t] = FALSE]

KillStep(k, from, to) ==
    /\ killpc[k] = from
    /\ Running(carrier[k])
    /\ killpc' = [killpc EXCEPT ![k] = to]
(* __kill_work; before it a restart logs a warning.                        *)
KillBegin(k) ==
    /\ KillStep(k, "begin", IF connected THEN "watchpool" ELSE "quit")
    /\ k = "restart" => console = Nobody1
    /\ UNCHANGED <<started, life, pth, console, qrlock, apipc, carrier, ended, connected>>
CancelOne(k, t, to) ==
    /\ KillStep(k, t, to)
    /\ Cancels(k, t)
    /\ UNCHANGED <<started, console, qrlock, apipc, carrier, ended, connected>>
JoinFirst(k) ==
    /\ KillStep(k, "miner", "stage")
    /\ life["miner"] \in {"none", "dead"}
    /\ UNCHANGED <<started, life, pth, console, qrlock, apipc, carrier, ended, connected>>
CancelMiners(k) == CancelOne(k, "miner", "stage")
(* quit logs an error and disable_curses takes the lock once more; a       *)
(* restart logs no more.                                                   *)
QuitLogs(k) ==
    /\ k # "restart"
    /\ KillStep(k, "quit", "clean_up")
    /\ console = Nobody1
    /\ UNCHANGED <<started, life, pth, console, qrlock, apipc, carrier, ended, connected>>
RestartCleans(k) ==
    /\ k = "restart"
    /\ KillStep(k, "quit", "clean_up")
    /\ UNCHANGED <<started, life, pth, console, qrlock, apipc, carrier, ended, connected>>
CleanUp(k) ==
    /\ KillStep(k, "clean_up", "leave")
    /\ console = Nobody1
    /\ UNCHANGED <<started, life, pth, console, qrlock, apipc, carrier, ended, connected>>
Leave(k) ==
    /\ KillStep(k, "leave", "done")
    /\ \/ k # "restart" /\ ended' = "exit"
       \/ k = "restart" /\ ended' \in {"exec", "exec failed"}
    /\ UNCHANGED <<started, life, pth, console, qrlock, apipc, carrier, connected>>

KillWork(k) ==
    \/ KillBegin(k)
    \/ CancelOne(k, "watchpool", "watchdog")
    \/ CancelOne(k, "watchdog", "miner")
    \/ CancelMiners(k)
    \/ CancelOne(k, "stage", "api")
    \/ CancelOne(k, "api", "quit")
    \/ QuitLogs(k) \/ RestartCleans(k)
    \/ CleanUp(k)
    \/ Leave(k)

ApiLeaves == TidyUp \/ ApiLock \/ (\E k \in Killers : CreateBye(k)) \/ ApiUnlock
ShutNext ==
    \/ Connect \/ StartThread
    \/ \E t \in ShutThreads : LockConsole(t) \/ UnlockConsole(t) \/ Ends(t)
    \/ ApiBye \/ ApiLeaves
    \/ \E k \in Killers : ByeProceeds(k) \/ KillWork(k) \/ (\E t \in ShutThreads : Kill(k, t))
    \/ SignalAgain

(* Threads that can run do; no second signal comes of itself.              *)
ShutFairness ==
    /\ \A k \in Killers : SF_shutVars(KillWork(k)) /\ WF_shutVars(ByeProceeds(k))
    /\ \A t \in ShutThreads : WF_shutVars(UnlockConsole(t))
    /\ WF_shutVars(ApiLeaves)
ShutSpec == ShutInit /\ [][ShutNext]_shutVars /\ ShutFairness

----------------------------------------------------------------------------
ShutTypeOK ==
    /\ console # Nobody1 => life[console] # "none"
    /\ qrlock \in {Nobody1, "api"}
    /\ \A k \in Killers : killpc[k] # "idle" => carrier[k] \in {t \in ShutThreads : life[t] # "none"}
    /\ \A t \in ShutThreads : pth[t] => life[t] = "live"

(* Once someone has begun to end the program it ends, unless the console   *)
(* lock stays with a thread that will never release it, the thread that    *)
(* is ending it was itself cancelled, or the program cannot be executed    *)
(* again.                                                                  *)
ConsoleLost ==
    console # Nobody1 /\ (life[console] \in {"cancelled", "dead"} \/ Occupied(console))
ByeLost == qrlock = "api" /\ life["api"] \in {"cancelled", "dead"} /\ apipc # "left"
CancelledThreads == {t \in ShutThreads : life[t] \in {"cancelled", "dead"}}
ShutdownEnds ==
    \A k \in Killers :
        killpc[k] # "idle" ~>
            \/ ended # "no"
            \/ ConsoleLost
            \/ ByeLost
            \/ carrier[k] \in CancelledThreads
=============================================================================
