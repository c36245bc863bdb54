----------------------------- MODULE BflscQueue -----------------------------
(***************************************************************************)
(* A device with a queue of its own: hash_queued_work and its table of     *)
(* works (cgpu->queued_work, under qlock), and the BFLSC driver, whose     *)
(* miner thread sends jobs, whose results thread asks for results, and     *)
(* which the watchdog asks for temperatures.  A request and its answer go  *)
(* under device_mutex; what a device does with a job is external.          *)
(*                                                                         *)
(* A work may be freed while another thread has it in its hands: what that *)
(* one then reads of it is anything, and see Dangling for what it does.    *)
(***************************************************************************)
EXTENDS Integers, Sequences, FiniteSets, SequencesExt

CONSTANTS ScDevs,      \* 0..(sc_count - 1), the devices of an x-link chain
          ScChips,     \* jobs a device works on at a time
          que_full_enough, que_low,
          MaxWorks, MaxHeat \* bounds on works made, on devices getting hot

ASSUME BflscAssumption ==
    /\ IsFiniteSet(ScDevs) /\ ScDevs = 0..(Cardinality(ScDevs) - 1) /\ ScDevs # {}
    /\ {ScChips, que_full_enough, que_low, MaxWorks, MaxHeat} \subseteq Nat

NoWork == 0
NoDev == -1
BWorks == 1..MaxWorks
BThreads == {"miner", "results", "watchdog"}

VARIABLES
    detect_sc,    \* bflsc_detect_one: its step, ident_first and tries
    bpc,          \* a control point for each thread
    bdev,         \* the device each is busy with
    fill,         \* bflsc_queue_full: work, tried, tries, mandatory, resent
    made,         \* works the scheduler has made
    queued_work, queued, queued_count,  \* the table, those with work->queued, their number
    devflag, subid,
    bfreed,       \* works given to free_work
    dropped,      \* history: completing one of those has emptied the table
    sc_devs,      \* for each device: work_queued, flushed, result_id - flush_id, overheat
    device,       \* external, for each device: its jobs and its results, oldest first
    answers,      \* results the results thread has read and not processed
    device_mutex, \* who holds it
    talking,      \* threads between a request and its answer
    brestart,     \* mythr->work_restart
    heats

tableVars == <<made, queued_work, queued, queued_count, devflag, subid, bfreed, dropped>>
bflscVars == <<detect_sc, bpc, bdev, fill, made, queued_work, queued, queued_count, devflag, subid,
               bfreed, dropped, sc_devs, device, answers, device_mutex, talking, brestart, heats>>

BTypeOK ==
    /\ bdev \in [BThreads -> ScDevs \union {NoDev}]
    /\ fill.work \in BWorks \union {NoWork} /\ fill.tries \in 0..3
    /\ {queued_work, queued, devflag, bfreed} \subseteq SUBSET BWorks
    /\ made \in 0..MaxWorks /\ queued_count \in Int /\ subid \in [BWorks -> ScDevs]
    /\ dropped \in BOOLEAN
    /\ \A d \in ScDevs : /\ sc_devs[d].work_queued \in Int /\ sc_devs[d].since \in 0..2
                         /\ {sc_devs[d].flushed, sc_devs[d].overheat} \subseteq BOOLEAN
                         /\ device[d].jobs \in Seq(BWorks)
    /\ device_mutex \in BThreads \union {"none"} /\ talking \subseteq BThreads
    /\ brestart \in BOOLEAN /\ heats \in 0..MaxHeat

NoFill == [work |-> NoWork, tried |-> NoDev, tries |-> 0, mandatory |-> FALSE, resent |-> FALSE]

BflscInit ==
    /\ detect_sc = [step |-> "identify", first |-> TRUE, tries |-> 0]
    /\ bpc = [t \in BThreads |-> "none"] /\ bdev = [t \in BThreads |-> NoDev]
    /\ fill = NoFill /\ made = 0
    /\ queued_work = {} /\ queued = {} /\ queued_count = 0 /\ devflag = {}
    /\ subid = [w \in BWorks |-> 0] /\ bfreed = {} /\ dropped = FALSE
    /\ sc_devs = [d \in ScDevs |-> [work_queued |-> 0, flushed |-> FALSE, since |-> 0,
                                    overheat |-> FALSE]]
    /\ device = [d \in ScDevs |-> [jobs |-> <<>>, out |-> <<>>]]
    /\ answers = <<>> /\ device_mutex = "none" /\ talking = {} /\ brestart = FALSE /\ heats = 0

Go(t, s) == bpc' = [bpc EXCEPT ![t] = s]

-----------------------------------------------------------------------------
(* bflsc_detect_one: what it says it is, twice if that is not understood,  *)
(* again and again if there is no answer and time is left; then its        *)
(* details, three times.                                                   *)

Identify(reply, late) ==
    /\ detect_sc.step = "identify"
    /\ detect_sc' =
         CASE reply = "SHA256 SC" -> [detect_sc EXCEPT !.step = "getinfo"]
           [] reply = "none" /\ ~late -> detect_sc
           [] reply = "BitFORCE SC" /\ detect_sc.first -> [detect_sc EXCEPT !.first = FALSE]
           [] OTHER -> [detect_sc EXCEPT !.step = "freed"]
    /\ UNCHANGED <<bpc, bdev, fill, sc_devs, device, answers, device_mutex, talking, brestart, heats>>
    /\ UNCHANGED tableVars

Getinfo(ok) ==
    /\ detect_sc.step = "getinfo"
    /\ detect_sc' = IF ok THEN [step |-> "ready", first |-> TRUE, tries |-> 0]
                    ELSE [detect_sc EXCEPT !.tries = @ + 1,
                                           !.step = IF detect_sc.tries = 2 THEN "freed" ELSE @]
    /\ bpc' = IF ok THEN [miner |-> "top", results |-> "look", watchdog |-> "rest"] ELSE bpc
    /\ UNCHANGED <<bdev, fill, sc_devs, device, answers, device_mutex, talking, brestart, heats>>
    /\ UNCHANGED tableVars

-----------------------------------------------------------------------------
(* The devices: a device works on its first ScChips jobs, and may lose     *)
(* one.                                                                    *)

InProcess(d) == 1..(IF Len(device[d].jobs) < ScChips THEN Len(device[d].jobs) ELSE ScChips)

DeviceFinishes(d) ==
    /\ \E i \in InProcess(d), nonces \in BOOLEAN :
         device' = [device EXCEPT ![d].jobs = RemoveAt(@, i),
                                  ![d].out = Append(@, [work |-> device[d].jobs[i], nonces |-> nonces])]
    /\ UNCHANGED <<detect_sc, bpc, bdev, fill, sc_devs, answers, device_mutex, talking, brestart, heats>>
    /\ UNCHANGED tableVars

(* Flushed, it drops what it does not work on.                             *)
FlushedDevice(d) == [device EXCEPT ![d].jobs = SubSeq(@, 1, Cardinality(InProcess(d)))]

RestartThread ==
    /\ bpc["miner"] # "none" /\ ~brestart
    /\ brestart' = TRUE
    /\ UNCHANGED <<detect_sc, bpc, bdev, fill, sc_devs, device, answers, device_mutex, talking, heats>>
    /\ UNCHANGED tableVars

-----------------------------------------------------------------------------
(* send_recv_ss: request and answer, both under device_mutex.              *)

Lock(t, next) ==
    /\ device_mutex = "none"
    /\ device_mutex' = t /\ talking' = talking \union {t}
    /\ Go(t, next)

Unlock(t) == device_mutex' = "none" /\ talking' = talking \ {t}

-----------------------------------------------------------------------------
(* The miner: fill_queue, get_queued *)

(* The restart flag is cleared at the top of the loop, whenever it was     *)
(* set; a work is got only when all in the table are queued.               *)
LoopTop ==
    /\ bpc["miner"] = "top"
    /\ brestart' = FALSE
    /\ Go("miner", "fill")
    /\ UNCHANGED <<detect_sc, bdev, fill, sc_devs, device, answers, device_mutex, talking, heats>>
    /\ UNCHANGED tableVars

FillQueue ==
    /\ bpc["miner"] = "fill"
    /\ IF Cardinality(queued_work) = queued_count
         THEN /\ made < MaxWorks
              /\ made' = made + 1 /\ queued_work' = queued_work \union {made + 1}
         ELSE UNCHANGED <<made, queued_work>>
    /\ fill' = NoFill
    /\ Go("miner", "choose")
    /\ UNCHANGED <<detect_sc, bdev, queued, queued_count, devflag, subid, bfreed, dropped, sc_devs,
                   device, answers, device_mutex, talking, brestart, heats>>

(* Who has nothing comes first, then who has least.                        *)
Usable == {d \in ScDevs : d # fill.tried /\ ~sc_devs[d].overheat}
Fewest(S) == CHOOSE d \in S : \A e \in S :
                \/ sc_devs[d].work_queued < sc_devs[e].work_queued
                \/ sc_devs[d].work_queued = sc_devs[e].work_queued /\ d <= e
NeedsWork ==
    LET idle == {d \in Usable : sc_devs[d].work_queued = 0}
    IN  IF idle # {} THEN Fewest(idle)
        ELSE IF Usable # {} /\ sc_devs[Fewest(Usable)].work_queued <= que_full_enough
               THEN Fewest(Usable) ELSE NoDev

(* work_completed of a work that is not freed.                             *)
Removed(w) ==
    /\ queued_work' = queued_work \ {w} /\ queued' = queued \ {w}
    /\ queued_count' = queued_count - (IF w \in queued THEN 1 ELSE 0)
    /\ bfreed' = bfreed \union {w}
    /\ UNCHANGED dropped

(* work_completed of a work that another thread has freed meanwhile.       *)
(* free_work has zeroed the struct: HASH_DEL finds no neighbours, takes it *)
(* for the only element and frees the table, whatever is in it; the memory *)
(* may also be a work again, queued or not, of this table or of none.      *)
(* With an empty table it crashes: there is no next step.  (That works     *)
(* which are no longer in a table may still have neighbours is left out.)  *)
Dangling ==
    \/ /\ queued_work # {} /\ queued_work' = {} /\ dropped' = TRUE
       /\ queued_count' \in {queued_count, queued_count - 1}
       /\ UNCHANGED <<queued, bfreed>>
    \/ \E x \in queued_work : Removed(x)

CompletedUncounted(w) ==
    /\ queued_work' = queued_work \ {w} /\ queued' = queued \ {w}
    /\ bfreed' = bfreed \union {w}
    /\ UNCHANGED <<queued_count, dropped>>

(* get_queued; a queued work that no device got is given up as completed.  *)
Completed(w) == IF w \in bfreed THEN Dangling ELSE Removed(w)

GiveUp(next) ==
    /\ IF fill.work # NoWork THEN Completed(fill.work)
       ELSE UNCHANGED <<queued_work, queued, queued_count, bfreed, dropped>>
    /\ fill' = NoFill
    /\ Go("miner", next)
    /\ UNCHANGED <<bdev>>

ChooseDevice ==
    /\ bpc["miner"] = "choose"
    /\ LET d == NeedsWork
           unqueued == queued_work \ queued
           w == IF fill.work # NoWork THEN fill.work
                ELSE IF unqueued = {} THEN NoWork
                ELSE CHOOSE x \in unqueued : \A y \in unqueued : x <= y
       IN  \/ fill.tries = 2 /\ GiveUp("fill")
           \/ fill.tries < 2 /\ d = NoDev /\ GiveUp("scan")
           \/ fill.tries < 2 /\ d # NoDev /\ w = NoWork /\ GiveUp("fill")
           \/ /\ fill.tries < 2 /\ d # NoDev /\ w # NoWork
              /\ queued' = IF fill.work = NoWork THEN queued \union {w} ELSE queued
              /\ queued_count' = IF fill.work = NoWork THEN queued_count + 1 ELSE queued_count
              /\ fill' = [fill EXCEPT !.work = w, !.tries = @ + 1, !.resent = FALSE,
                            !.mandatory = /\ sc_devs[d].work_queued # 0
                                          /\ sc_devs[d].work_queued < que_low]
              /\ bdev' = [bdev EXCEPT !["miner"] = d]
              /\ Go("miner", "send")
              /\ UNCHANGED <<queued_work, bfreed, dropped>>
    /\ UNCHANGED <<detect_sc, made, devflag, subid, sc_devs, device, answers, device_mutex, talking,
                   brestart, heats>>

-----------------------------------------------------------------------------
(* bflsc_send_work *)

NotSent ==
    /\ fill' = [fill EXCEPT !.tried = bdev["miner"]]
    /\ Go("miner", "choose")

SendWork ==
    /\ bpc["miner"] = "send"
    /\ IF sc_devs[bdev["miner"]].overheat \/ (device_mutex # "none" /\ ~fill.mandatory)
         THEN NotSent /\ UNCHANGED <<device_mutex, talking>>
         ELSE Lock("miner", "job") /\ UNCHANGED fill
    /\ UNCHANGED <<detect_sc, bdev, sc_devs, device, answers, brestart, heats>>
    /\ UNCHANGED tableVars

(* Both stages.  The job may be in the device's queue though its answer    *)
(* does not say so, and if the device answers that it has timed out it is  *)
(* sent again, without the lock.                                           *)
SendAnswered(outcome) ==
    /\ bpc["miner"] = "job"
    /\ LET d == bdev["miner"]
       IN  device' = IF outcome \in {"queued", "lost"}
                       THEN [device EXCEPT ![d].jobs = Append(@, fill.work)] ELSE device
    /\ Unlock("miner")
    /\ \/ /\ outcome = "queued" /\ Go("miner", "count") /\ UNCHANGED fill
       \/ /\ outcome = "timeout" /\ ~fill.resent
          /\ fill' = [fill EXCEPT !.resent = TRUE] /\ Go("miner", "resend")
       \/ /\ outcome \in {"failed", "lost"} \/ (outcome = "timeout" /\ fill.resent)
          /\ NotSent
    /\ UNCHANGED <<detect_sc, bdev, sc_devs, answers, brestart, heats>>
    /\ UNCHANGED tableVars

Resend ==
    /\ bpc["miner"] = "resend"
    /\ talking' = talking \union {"miner"}
    /\ Go("miner", "job")
    /\ UNCHANGED <<detect_sc, bdev, fill, sc_devs, device, answers, device_mutex, brestart, heats>>
    /\ UNCHANGED tableVars

CountQueued ==
    /\ bpc["miner"] = "count"
    /\ sc_devs' = [sc_devs EXCEPT ![bdev["miner"]].work_queued = @ + 1]
    /\ Go("miner", "subid")
    /\ UNCHANGED <<detect_sc, bdev, fill, device, answers, device_mutex, talking, brestart, heats>>
    /\ UNCHANGED tableVars

SetSubid ==
    /\ bpc["miner"] = "subid"
    /\ subid' = [subid EXCEPT ![fill.work] = bdev["miner"]]
    /\ fill' = NoFill
    /\ Go("miner", "fill")
    /\ UNCHANGED <<detect_sc, bdev, made, queued_work, queued, queued_count, devflag, bfreed, dropped,
                   sc_devs, device, answers, device_mutex, talking, brestart, heats>>

-----------------------------------------------------------------------------
(* bflsc_scanwork: works flagged at a flush go when two results have come  *)
(* since.                                                                  *)

ScanWork ==
    /\ bpc["miner"] = "scan"
    /\ \/ \E d \in ScDevs : /\ sc_devs[d].flushed /\ sc_devs[d].since > 1
                            /\ bdev' = [bdev EXCEPT !["miner"] = d]
                            /\ Go("miner", "remove")
       \/ /\ \A d \in ScDevs : ~(sc_devs[d].flushed /\ sc_devs[d].since > 1)
          /\ Go("miner", "waited")
          /\ UNCHANGED bdev
    /\ UNCHANGED <<detect_sc, fill, sc_devs, device, answers, device_mutex, talking, brestart, heats>>
    /\ UNCHANGED tableVars

RemoveFlushed ==
    /\ bpc["miner"] = "remove"
    /\ LET gone == {w \in queued_work : w \in devflag /\ subid[w] = bdev["miner"]}
       IN  /\ queued_work' = queued_work \ gone /\ queued' = queued \ gone
           /\ queued_count' = queued_count - Cardinality(gone)
           /\ bfreed' = bfreed \union gone
    /\ Go("miner", "removed")
    /\ UNCHANGED <<detect_sc, bdev, fill, made, devflag, subid, dropped, sc_devs, device, answers,
                   device_mutex, talking, brestart, heats>>

ClearFlushed ==
    /\ bpc["miner"] = "removed"
    /\ sc_devs' = [sc_devs EXCEPT ![bdev["miner"]].flushed = FALSE]
    /\ Go("miner", "scan")
    /\ UNCHANGED <<detect_sc, bdev, fill, device, answers, device_mutex, talking, brestart, heats>>
    /\ UNCHANGED tableVars

(* After restart_wait: a restart discards what is not queued (flush_queue) *)
(* and flushes the devices in turn.                                        *)
FlushQueue ==
    /\ bpc["miner"] = "waited"
    /\ IF brestart
         THEN /\ queued_work' = queued_work \intersect queued
              /\ bfreed' = bfreed \union (queued_work \ queued)
              /\ bdev' = [bdev EXCEPT !["miner"] = 0]
              /\ Go("miner", "flush")
         ELSE /\ Go("miner", "top")
              /\ UNCHANGED <<bdev, queued_work, bfreed>>
    /\ UNCHANGED <<detect_sc, fill, made, queued, queued_count, devflag, subid, dropped, sc_devs, device,
                   answers, device_mutex, talking, brestart, heats>>

-----------------------------------------------------------------------------
(* flush_one_dev, of the miner for each device and of the watchdog for one *)
(* that is hot: the command, the flags, and the counters if any was        *)
(* flagged.                                                                *)

FlushSent(t) ==
    /\ t \in {"miner", "watchdog"} /\ bpc[t] = "flush"
    /\ device_mutex = "none"
    /\ device' = FlushedDevice(bdev[t])
    /\ Go(t, "flag")
    /\ UNCHANGED <<detect_sc, bdev, fill, sc_devs, answers, device_mutex, talking, brestart, heats>>
    /\ UNCHANGED tableVars

OfDevice(d) == {w \in queued_work : w \in queued /\ subid[w] = d}

AfterFlush(t) ==
    IF t = "watchdog" THEN Go(t, "rest") /\ UNCHANGED bdev
    ELSE IF bdev[t] + 1 \in ScDevs THEN bdev' = [bdev EXCEPT ![t] = @ + 1] /\ Go(t, "flush")
    ELSE Go(t, "top") /\ UNCHANGED bdev

FlagWork(t) ==
    /\ t \in {"miner", "watchdog"} /\ bpc[t] = "flag"
    /\ devflag' = devflag \union OfDevice(bdev[t])
    /\ IF OfDevice(bdev[t]) # {} THEN Go(t, "reset") /\ UNCHANGED bdev ELSE AfterFlush(t)
    /\ UNCHANGED <<detect_sc, fill, made, queued_work, queued, queued_count, subid, bfreed, dropped,
                   sc_devs, device, answers, device_mutex, talking, brestart, heats>>

ResetCounters(t) ==
    /\ bpc[t] = "reset"
    /\ sc_devs' = [sc_devs EXCEPT ![bdev[t]].flushed = TRUE, ![bdev[t]].since = 0,
                                  ![bdev[t]].work_queued = 0]
    /\ AfterFlush(t)
    /\ UNCHANGED <<detect_sc, fill, device, answers, device_mutex, talking, brestart, heats>>
    /\ UNCHANGED tableVars

-----------------------------------------------------------------------------
(* bflsc_get_temp, which gives up if the mutex is taken; hot, the device   *)
(* gets no work and is flushed, and cool again it gets work.               *)

AskTemp(d) ==
    /\ bpc["watchdog"] = "rest"
    /\ Lock("watchdog", "temp")
    /\ bdev' = [bdev EXCEPT !["watchdog"] = d]
    /\ UNCHANGED <<detect_sc, fill, sc_devs, device, answers, brestart, heats>>
    /\ UNCHANGED tableVars

Temp(t) ==
    /\ bpc["watchdog"] = "temp"
    /\ t = "hot" => heats < MaxHeat
    /\ Unlock("watchdog")
    /\ heats' = IF t = "hot" THEN heats + 1 ELSE heats
    /\ sc_devs' = [sc_devs EXCEPT ![bdev["watchdog"]].overheat =
                     CASE t = "hot" -> TRUE [] t = "cool" -> FALSE [] OTHER -> @]
    /\ Go("watchdog", IF t = "hot" THEN "flush" ELSE "rest")
    /\ UNCHANGED <<detect_sc, bdev, fill, device, answers, brestart>>
    /\ UNCHANGED tableVars

-----------------------------------------------------------------------------
(* bflsc_get_results: of one device at a time, all the results it has.     *)

AskResults(d) ==
    /\ bpc["results"] = "look"
    /\ Lock("results", "answer")
    /\ bdev' = [bdev EXCEPT !["results"] = d]
    /\ UNCHANGED <<detect_sc, fill, sc_devs, device, answers, brestart, heats>>
    /\ UNCHANGED tableVars

(* Read, or lost.                                                          *)
ReadResults(ok) ==
    /\ bpc["results"] = "answer"
    /\ Unlock("results")
    /\ device' = [device EXCEPT ![bdev["results"]].out = <<>>]
    /\ answers' = IF ok THEN device[bdev["results"]].out ELSE <<>>
    /\ Go("results", "find")
    /\ UNCHANGED <<detect_sc, bdev, fill, sc_devs, brestart, heats>>
    /\ UNCHANGED tableVars

(* process_nonces: a result that is garbled, or of a work that is not in   *)
(* the table, is a hardware error.                                         *)
FindWork ==
    /\ bpc["results"] = "find"
    /\ \/ /\ answers = <<>>
          /\ Go("results", "look") /\ UNCHANGED answers
       \/ /\ answers # <<>>
          /\ answers' = Tail(answers) /\ UNCHANGED bpc
       \/ /\ answers # <<>> /\ Head(answers).work \in queued_work \intersect queued
          /\ Go("results", "submit") /\ UNCHANGED answers
    /\ UNCHANGED <<detect_sc, bdev, fill, sc_devs, device, device_mutex, talking, brestart, heats>>
    /\ UNCHANGED tableVars

(* After submit_nonce for each nonce, the counters; work_queued is that of *)
(* the device only if the work was not flushed.                            *)
CountResult ==
    /\ bpc["results"] = "submit"
    /\ \E flagged \in BOOLEAN :
         LET d == bdev["results"]
             r == Head(answers)
         IN  /\ r.work \notin bfreed => (flagged <=> r.work \in devflag)
             /\ sc_devs' = [sc_devs EXCEPT
                              ![d].since = IF r.nonces /\ @ < 2 THEN @ + 1 ELSE @,
                              ![d].work_queued = IF flagged THEN @ ELSE @ - 1]
    /\ Go("results", "complete")
    /\ UNCHANGED <<detect_sc, bdev, fill, device, answers, device_mutex, talking, brestart, heats>>
    /\ UNCHANGED tableVars

WorkCompleted ==
    /\ bpc["results"] = "complete"
    /\ Completed(Head(answers).work)
    /\ answers' = Tail(answers)
    /\ Go("results", "find")
    /\ UNCHANGED <<detect_sc, bdev, fill, made, devflag, subid, sc_devs, device, device_mutex, talking,
                   brestart, heats>>

BflscNext ==
    \/ \E reply \in {"SHA256 SC", "BitFORCE SC", "none", "other"}, late \in BOOLEAN :
         Identify(reply, late)
    \/ \E ok \in BOOLEAN : Getinfo(ok) \/ ReadResults(ok)
    \/ \E d \in ScDevs : DeviceFinishes(d) \/ AskTemp(d) \/ AskResults(d)
    \/ RestartThread
    \/ LoopTop \/ FillQueue \/ ChooseDevice \/ SendWork \/ Resend \/ CountQueued \/ SetSubid
    \/ \E o \in {"queued", "lost", "failed", "timeout"} : SendAnswered(o)
    \/ ScanWork \/ RemoveFlushed \/ ClearFlushed \/ FlushQueue
    \/ \E t \in {"miner", "watchdog"} : FlushSent(t) \/ FlagWork(t) \/ ResetCounters(t)
    \/ \E t \in {"hot", "cool", "same"} : Temp(t)
    \/ FindWork \/ CountResult \/ WorkCompleted

BflscSpec == BflscInit /\ [][BflscNext]_bflscVars

-----------------------------------------------------------------------------
(* fill_queue compares the size of the table with queued_count: the count  *)
(* is that of the works with the queued flag, whoever removes them, or the *)
(* driver would get work without end or never again.  Unless a work that   *)
(* had been freed was completed and the table went with it.                *)
QueuedCounted == ~dropped => queued_count = Cardinality(queued_work \intersect queued)

(* The same of the program as it is.  Does not hold: scanwork frees a work *)
(* the results thread has found, or that one frees a work whose sending    *)
(* seemed to fail, and the other thread completes it again (NotFreedInUse).*)
AlwaysCounted == queued_count = Cardinality(queued_work \intersect queued)

(* write_to_dev ("The protocol is syncronous"): no other request goes out  *)
(* between a request and its answer.  Does not hold: after ERR:TIMEOUT the *)
(* second try is made, and the mutex unlocked, without it having been      *)
(* locked again.                                                           *)
OneConversation == Cardinality(talking) <= 1

(* yacminer.c ("Work items should not be removed from this hashtable until *)
(* they are no longer in use anywhere"): a work that the results thread    *)
(* has found, or whose sending has not ended, is not freed.  Does not      *)
(* hold: scanwork removes flushed works after two results, whoever has     *)
(* found one of them.                                                      *)
NotFreedInUse ==
    /\ bpc["results"] \in {"submit", "complete"} => Head(answers).work \notin bfreed
    /\ bpc["miner"] \in {"send", "job", "resend", "count", "subid"} => fill.work \notin bfreed
=============================================================================
