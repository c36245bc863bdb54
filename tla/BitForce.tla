------------------------------ MODULE BitForce ------------------------------
(***************************************************************************)
(* The BitForce driver: the mining thread sends work and asks for its      *)
(* result, the watchdog thread asks for the temperature or flashes the     *)
(* LED.  Commands and replies share one serial line; a reply says nothing  *)
(* of the command it answers, and the one that is read next is taken for   *)
(* one's own.  device_mutex keeps a command and its reply together; a      *)
(* reply that comes after its reader gave up stays in the line.            *)
(*                                                                         *)
(* A work is searched in parts (a fifth of the nonces each) if the device  *)
(* supports nonce ranges, else as a whole.                                 *)
(***************************************************************************)
EXTENDS Integers, Sequences

CONSTANTS Parts,        \* the parts of a work
          BITFORCE_SLEEP_MS, WORK_CHECK_INTERVAL_MS, BITFORCE_CHECK_INTERVAL_MS,
          MaxSleep,     \* bound of sleep_ms
          MaxPolls,     \* the times a result is asked for before the timeout
          MaxInits,     \* the tries to initialise the device within REINIT_TIME_MAX
          MaxBfWorks, MaxTimeouts  \* bounds: works; reads given up although a reply is due

ASSUME BitForceAssumption ==
    /\ {Parts, BITFORCE_SLEEP_MS, WORK_CHECK_INTERVAL_MS, BITFORCE_CHECK_INTERVAL_MS,
        MaxPolls, MaxInits} \subseteq Nat \ {0}
    /\ {MaxBfWorks, MaxTimeouts} \subseteq Nat
    /\ BITFORCE_CHECK_INTERVAL_MS < WORK_CHECK_INTERVAL_MS

VARIABLES
    bf_mutex,               \* "free", or the thread that holds it
    mine, watch,            \* where the mining and the watchdog threads are
    todo,                   \* commands the device has still to answer
    line,                   \* replies that wait to be read
    searching,              \* the work the device searches, 0 if none
    work, part,             \* the mining thread's work, and work->blk.nonce in parts
    nonce_range, polling, deven, flash_led,
    sleep_ms, wait_ms,
    inits, ident_first,     \* of bitforce_detect_one
    handed,                 \* history: the parts of the work sent to the device
    late,                   \* history: a reply may be somebody else's
    timeouts                \* counts towards MaxTimeouts

serial == <<todo, line, searching, late, timeouts>>
bfMining == <<work, part, nonce_range, sleep_ms, wait_ms, handed>>
detection == <<inits, ident_first>>
bitforceVars == <<bf_mutex, mine, watch, serial, bfMining, polling, deven, flash_led, detection>>

BitForceTypeOK ==
    /\ bf_mutex \in {"free", "miner", "watchdog"}
    /\ searching \in 0..MaxBfWorks /\ work \in 0..MaxBfWorks /\ part \in 0..Parts
    /\ nonce_range \in BOOLEAN /\ polling \in BOOLEAN /\ flash_led \in BOOLEAN
    /\ handed \subseteq 0..(Parts - 1)

BitForceInit ==
    /\ bf_mutex = "free" /\ mine = "detect" /\ watch = "idle"
    /\ todo = <<>> /\ line = <<>> /\ searching = 0
    /\ work = 0 /\ part = 0 /\ handed = {}
    /\ nonce_range \in BOOLEAN  \* --bfl-range
    /\ sleep_ms = (IF nonce_range THEN BITFORCE_SLEEP_MS ELSE BITFORCE_SLEEP_MS * 5)
    /\ wait_ms = 0 /\ polling = FALSE /\ deven = "enabled" /\ flash_led = FALSE
    /\ inits = 0 /\ ident_first = TRUE /\ late = FALSE /\ timeouts = 0

-----------------------------------------------------------------------------
(* The line *)

usb_write(cmd, of) ==
    /\ todo' = Append(todo, [to |-> cmd, of |-> of])
    /\ UNCHANGED <<line, searching, late, timeouts>>
WriteFails == UNCHANGED serial

(* usb_read_nl that gets a reply, the first in the line.                   *)
Reads(reply) ==
    /\ line # <<>> /\ reply = Head(line)
    /\ line' = Tail(line)
    /\ UNCHANGED <<todo, searching, late, timeouts>>
(* One that gets none in time.                                             *)
ReadsNothing ==
    /\ line = <<>>
    /\ IF todo = <<>> THEN UNCHANGED <<late, timeouts>>
       ELSE timeouts < MaxTimeouts /\ timeouts' = timeouts + 1 /\ late' = TRUE
    /\ UNCHANGED <<todo, line, searching>>

(* bitforce_initialise, without the lock: what is in the line is purged,   *)
(* commands that are still on the way to the device perhaps.               *)
Initialise ==
    /\ line' = <<>> /\ todo' \in {todo, <<>>}
    /\ late' = (todo' # <<>>)
    /\ UNCHANGED <<searching, timeouts>>

Says(c) ==
    CASE c.to = "identify" -> {"SHA256", "SHA256 SC", "garbled"}
      [] c.to = "temp" -> {"TEMP", "hot", "garbled"}
      [] c.to = "range" -> {"OK", "ERR"} \union (IF searching # 0 THEN {"BUSY"} ELSE {})
      [] c.to = "full" -> {"OK"} \union (IF searching # 0 THEN {"BUSY"} ELSE {})
      [] c.to = "data" -> {"OK", "ERR"}
      [] c.to = "status" -> IF searching = 0 THEN {"IDLE"} ELSE {"BUSY", "NO-NONCE", "NONCE"}

(* The device answers its commands in order; a nonce is of what it         *)
(* searched.                                                               *)
DeviceAnswers ==
    /\ todo # <<>>
    /\ \E says \in Says(Head(todo)) :
         LET c == Head(todo)
         IN  /\ line' = Append(line, [to |-> c.to, says |-> says, of |-> searching])
             /\ searching' = CASE c.to = "data" /\ says = "OK" -> c.of
                               [] says \in {"NO-NONCE", "NONCE"} -> 0
                               [] OTHER -> searching
    /\ todo' = Tail(todo)
    /\ UNCHANGED <<bf_mutex, mine, watch, late, timeouts, bfMining, polling, deven, flash_led,
                   detection>>

-----------------------------------------------------------------------------
(* bitforce_detect_one *)

AskIdentity ==
    /\ mine = "detect"
    /\ \/ \E left \in {todo, <<>>} :
            /\ line' = <<>> /\ late' = (left # <<>>)
            /\ todo' = Append(left, [to |-> "identify", of |-> 0])
            /\ mine' = "identify"
       \/ mine' = "gone" /\ UNCHANGED <<line, late, todo>>
    /\ UNCHANGED <<bf_mutex, watch, searching, timeouts, bfMining, polling, deven, flash_led,
                   detection>>
IdentifyAgain ==
    /\ mine = "identify" /\ ReadsNothing
    /\ inits' = inits + 1
    /\ mine' = IF inits < MaxInits THEN "detect" ELSE "gone"
    /\ UNCHANGED <<bf_mutex, watch, bfMining, polling, deven, flash_led, ident_first>>
Identified ==
    /\ mine = "identify"
    /\ \E reply \in {line[i] : i \in DOMAIN line} :
         /\ Reads(reply)
         /\ mine' = CASE reply.says = "SHA256" -> "next"
                      [] reply.says = "SHA256 SC" -> "gone"
                      [] OTHER -> IF ident_first THEN "detect" ELSE "gone"
         /\ ident_first' = (ident_first /\ reply.says \in {"SHA256", "SHA256 SC"})
    /\ inits' = 0
    /\ UNCHANGED <<bf_mutex, watch, bfMining, polling, deven, flash_led>>

-----------------------------------------------------------------------------
(* The mining thread *)

othersOfMiner == <<watch, deven, flash_led, detection>>

(* hash_sole_work: a new work, or another part of this one; the only       *)
(* device starts at the first nonce.                                       *)
NextWork ==
    /\ mine = "next" /\ deven = "enabled" /\ work < MaxBfWorks
    /\ work' = work + 1 /\ part' = 0 /\ handed' = {}
    /\ mine' = "send"
    /\ UNCHANGED <<bf_mutex, serial, nonce_range, sleep_ms, wait_ms, polling, othersOfMiner>>
NextPart ==
    /\ mine = "next" /\ deven = "enabled" /\ work > 0 /\ part < Parts
    /\ mine' = "send"
    /\ UNCHANGED <<bf_mutex, serial, bfMining, polling, othersOfMiner>>
(* mt_disable has waited until the device has cooled down.                 *)
ThreadEnable ==
    /\ mine = "next" /\ deven = "recover"
    /\ deven' = "enabled" /\ mine' = "initialise"
    /\ UNCHANGED <<bf_mutex, serial, bfMining, polling, watch, flash_led, detection>>

(* bitforce_send_work asks for permission first.                           *)
RequestWork ==
    /\ mine = "send" /\ bf_mutex = "free"
    /\ \/ /\ usb_write(IF nonce_range THEN "range" ELSE "full", 0)
          /\ bf_mutex' = "miner" /\ mine' = "requested"
       \/ WriteFails /\ mine' = "not sent" /\ UNCHANGED bf_mutex
    /\ UNCHANGED <<bfMining, polling, othersOfMiner>>

DisableRange(sleep) ==
    /\ nonce_range' = FALSE /\ sleep_ms' = sleep * 5
    /\ wait_ms' = 0 /\ UNCHANGED <<work, handed>>

Requested ==
    /\ mine = "requested"
    /\ \/ /\ ReadsNothing
          /\ mine' \in {"send", "not sent"}  \* an empty reply, or an error
          /\ bf_mutex' = "free" /\ UNCHANGED bfMining
       \/ \E reply \in {line[i] : i \in DOMAIN line} :
            /\ Reads(reply)
            /\ bf_mutex' = IF reply.says = "OK" THEN "miner" ELSE "free"
            /\ \/ reply.says = "OK" /\ mine' = "granted" /\ UNCHANGED bfMining
               \/ reply.says = "BUSY" /\ mine' = "send" /\ UNCHANGED bfMining
               \/ /\ reply.says \notin {"OK", "BUSY"} /\ nonce_range
                  /\ DisableRange(sleep_ms) /\ mine' = "send" /\ UNCHANGED part
               \/ /\ reply.says \notin {"OK", "BUSY"} /\ ~nonce_range
                  /\ mine' = "not sent" /\ UNCHANGED bfMining
    /\ UNCHANGED <<polling, othersOfMiner>>

(* work->blk.nonce moves on before the data is written: a part whose       *)
(* writing fails is left out.                                              *)
PartTaken == part' = IF nonce_range THEN part + 1 ELSE Parts

SendData ==
    /\ mine = "granted"
    /\ PartTaken
    /\ \/ /\ usb_write("data", work) /\ mine' = "sent"
          /\ handed' = (IF nonce_range THEN handed \union {part} ELSE 0..(Parts - 1))
          /\ UNCHANGED bf_mutex
       \/ WriteFails /\ mine' = "not sent" /\ bf_mutex' = "free" /\ UNCHANGED handed
    /\ UNCHANGED <<work, nonce_range, sleep_ms, wait_ms, polling, othersOfMiner>>
DataRead ==
    /\ mine = "sent"
    /\ bf_mutex' = "free"
    /\ \/ ReadsNothing /\ mine' = "not sent"
       \/ \E reply \in {line[i] : i \in DOMAIN line} :
            Reads(reply) /\ mine' = IF reply.says = "OK" THEN "sleep" ELSE "not sent"
    /\ UNCHANGED <<bfMining, polling, othersOfMiner>>

(* bitforce_scanhash sleeps, whether the work was sent or not.             *)
Restarted ==
    /\ mine \in {"sleep", "not sent"}
    /\ mine' = "next"
    /\ UNCHANGED <<bf_mutex, serial, bfMining, polling, othersOfMiner>>
Slept ==
    /\ mine \in {"sleep", "not sent"}
    /\ wait_ms' = IF mine = "sleep" THEN sleep_ms ELSE 0
    /\ mine' = IF mine = "sleep" THEN "poll" ELSE "initialise"
    /\ polling' = (mine = "sleep")
    /\ UNCHANGED <<bf_mutex, serial, work, part, nonce_range, sleep_ms, handed, othersOfMiner>>

(* bitforce_get_result.  wait_ms, which nobody reads before it is set for  *)
(* the next work, is 0 in the meantime.                                    *)
PollRestarts ==
    /\ mine = "poll"
    /\ mine' = "next" /\ polling' = FALSE /\ wait_ms' = 0
    /\ UNCHANGED <<bf_mutex, serial, work, part, nonce_range, sleep_ms, handed, othersOfMiner>>
Poll ==
    /\ mine = "poll" /\ bf_mutex = "free"
    /\ usb_write("status", 0) \/ WriteFails
    /\ bf_mutex' = "miner" /\ mine' = "polled"
    /\ UNCHANGED <<bfMining, polling, othersOfMiner>>

(* The wait is adapted so that a few polls are enough.                     *)
Adapted ==
    IF wait_ms > sleep_ms + 2 * WORK_CHECK_INTERVAL_MS /\ sleep_ms < MaxSleep
    THEN sleep_ms + (wait_ms - sleep_ms) \div 2
    ELSE IF wait_ms # sleep_ms THEN sleep_ms
    ELSE IF sleep_ms > WORK_CHECK_INTERVAL_MS THEN sleep_ms - WORK_CHECK_INTERVAL_MS
    ELSE IF sleep_ms > BITFORCE_CHECK_INTERVAL_MS THEN sleep_ms - BITFORCE_CHECK_INTERVAL_MS
    ELSE sleep_ms

TooLong == wait_ms >= sleep_ms + MaxPolls * BITFORCE_CHECK_INTERVAL_MS

PollAgain(says) ==
    /\ IF TooLong THEN mine' = "next" /\ polling' = FALSE /\ wait_ms' = 0
       ELSE /\ mine' = "poll" /\ UNCHANGED polling
            /\ wait_ms' = wait_ms + (IF says = "" THEN 2 * WORK_CHECK_INTERVAL_MS
                                     ELSE BITFORCE_CHECK_INTERVAL_MS)
    /\ UNCHANGED <<work, part, nonce_range, sleep_ms, handed>>

(* The result of the work, or something that is none.  A nonce that is not *)
(* of the part disables nonce ranges, and ends the work.                   *)
Result(reply) ==
    /\ polling' = FALSE
    /\ sleep_ms' \in {sleep_ms, IF reply.says \in {"NONCE", "NO-NONCE"} THEN Adapted ELSE sleep_ms}
    /\ mine' = IF reply.says \in {"NONCE", "NO-NONCE", "IDLE"} THEN "next" ELSE "initialise"
    /\ wait_ms' = 0
    /\ UNCHANGED <<work, part, nonce_range, handed>>
BrokenRange(reply) ==
    /\ reply.says = "NONCE" /\ nonce_range
    /\ polling' = FALSE /\ mine' = "next"
    /\ \E sleep \in {sleep_ms, Adapted} : DisableRange(sleep)
    /\ part' = Parts

Polled ==
    /\ mine = "polled"
    /\ bf_mutex' = "free"
    /\ \/ ReadsNothing /\ PollAgain("")
       \/ \E reply \in {line[i] : i \in DOMAIN line} :
            /\ Reads(reply)
            /\ \/ reply.says = "BUSY" /\ PollAgain("BUSY")
               \/ reply.says # "BUSY" /\ Result(reply)
               \/ BrokenRange(reply)
    /\ UNCHANGED othersOfMiner

MinerInitialises ==
    /\ mine = "initialise" /\ bf_mutex = "free"
    /\ Initialise
    /\ mine' = "next"
    /\ UNCHANGED <<bf_mutex, bfMining, polling, othersOfMiner>>

-----------------------------------------------------------------------------
(* The watchdog thread: bitforce_get_temp, if the line is free             *)

othersOfWatch == <<mine, bfMining, polling, detection>>
BfDetected == mine \notin {"detect", "identify", "gone"}

GetTemp ==
    /\ watch = "idle" /\ BfDetected /\ ~polling /\ ~flash_led /\ bf_mutex = "free"
    /\ \/ usb_write("temp", 0) /\ bf_mutex' = "watchdog" /\ watch' = "asked"
       \/ WriteFails /\ UNCHANGED <<bf_mutex, watch>>
    /\ UNCHANGED <<deven, flash_led, othersOfWatch>>
TempRead ==
    /\ watch = "asked"
    /\ bf_mutex' = "free"
    /\ \/ ReadsNothing /\ watch' = "idle" /\ UNCHANGED deven
       \/ \E reply \in {line[i] : i \in DOMAIN line} :
            /\ Reads(reply)
            /\ watch' = IF reply.says \in {"TEMP", "hot"} THEN "idle" ELSE "initialise"
            /\ deven' = IF reply.says = "hot" THEN "recover" ELSE deven
    /\ UNCHANGED <<flash_led, othersOfWatch>>

WatchInitialises ==
    /\ watch = "initialise" /\ bf_mutex = "free"
    /\ Initialise
    /\ watch' = "idle"
    /\ UNCHANGED <<bf_mutex, deven, flash_led, othersOfWatch>>

(* bitforce_identify, of the API, and bitforce_flash_led: no reply comes,  *)
(* and nobody talks to the device for four seconds.                        *)
AskFlash ==
    /\ BfDetected /\ ~flash_led
    /\ flash_led' = TRUE
    /\ UNCHANGED <<bf_mutex, watch, serial, deven, othersOfWatch>>
Flash ==
    /\ watch = "idle" /\ ~polling /\ flash_led /\ bf_mutex = "free"
    /\ bf_mutex' = "watchdog" /\ watch' = "flashing"
    /\ UNCHANGED <<serial, deven, flash_led, othersOfWatch>>
Flashed ==
    /\ watch = "flashing"
    /\ bf_mutex' = "free" /\ watch' = "idle" /\ flash_led' = FALSE
    /\ UNCHANGED <<serial, deven, othersOfWatch>>

BitForceNext ==
    \/ DeviceAnswers \/ AskIdentity \/ IdentifyAgain \/ Identified
    \/ NextWork \/ NextPart \/ ThreadEnable \/ RequestWork \/ Requested \/ SendData \/ DataRead
    \/ Restarted \/ Slept \/ PollRestarts \/ Poll \/ Polled \/ MinerInitialises
    \/ GetTemp \/ TempRead \/ WatchInitialises \/ AskFlash \/ Flash \/ Flashed

BitForceSpec == BitForceInit /\ [][BitForceNext]_bitforceVars

-----------------------------------------------------------------------------
BfAsked ==
    CASE mine = "requested" -> {"range", "full"} [] mine = "sent" -> {"data"}
      [] mine = "polled" -> {"status"} [] watch = "asked" -> {"temp"} [] OTHER -> {}

(* device_mutex: as long as no read was given up, what is in the line is   *)
(* the reply to the command of the thread that is reading, and there is    *)
(* nothing in it when nobody is.                                           *)
InSync ==
    BfDetected /\ ~late =>
        /\ Len(line) + Len(todo) <= 1
        /\ \A i \in DOMAIN line : line[i].to \in BfAsked
        /\ \A i \in DOMAIN todo : todo[i].to \in BfAsked

(* "Split work up into 1/5th nonce ranges": each part of a work is sent to *)
(* the device once, whatever fails in between, and in order.               *)
PartsOnce == nonce_range => \A p \in handed : p < part

(* A nonce is submitted with the work the device found it for, as long as  *)
(* no reply was late: one that is makes the next command fail, or its      *)
(* result be that of the work before.                                      *)
NonceOfWork ==
    [][mine = "polled" /\ mine' = "next" /\ line # <<>> /\ Head(line).says = "NONCE"
       /\ timeouts = 0
         => Head(line).of = work]_bitforceVars

(* The wait for a result never becomes zero.                               *)
Sleeps == sleep_ms > 0
=============================================================================
