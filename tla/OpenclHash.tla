----------------------------- MODULE OpenclHash -----------------------------
(***************************************************************************)
(* How a GPU thread searches the nonces of a work: hash_sole_work and      *)
(* abandon_work (yacminer.c) around opencl_scanhash (driver-opencl.c).     *)
(* The nonces are divided among the devices; one call of scanhash runs one *)
(* kernel (or three, the split kernels) over as many nonces as the         *)
(* intensity says, reads the output buffer back, moves the nonce on by     *)
(* cgpu->max_hashes, which all threads of a GPU share, and hands what was  *)
(* found to a thread of its own (postcalc_hash_async).                     *)
(*                                                                         *)
(* The nonces a device finds are those of Golden.  Time only decides when  *)
(* a work is given up (scantime, staleness) and is left to chance.         *)
(***************************************************************************)
EXTENDS Naturals, FiniteSets

CONSTANTS NumDevices,     \* total_devices
          ThreadGpu,      \* the GPU of each mining thread
          NonceSpace,     \* the number of nonces, 0xffffffff in the code
          HashesOf,       \* the nonces one kernel covers, by intensity
          Golden,         \* the nonces that solve a work
          UseSplit,       \* use_split_kernels, one value or both
          WorksOf,        \* bound: the works each thread takes
          MaxFaults       \* bound: OpenCL calls that fail

ASSUME HashAssumption ==
  /\ NumDevices \in Nat \ {0} /\ NonceSpace \in Nat
  /\ ThreadGpu \in [DOMAIN ThreadGpu -> 0..NumDevices - 1]
  /\ HashesOf \in [DOMAIN HashesOf -> 1..(NonceSpace \div NumDevices) - 1]
  /\ Golden \subseteq Nat /\ UseSplit \subseteq BOOLEAN
  /\ WorksOf \in [DOMAIN ThreadGpu -> Nat] /\ MaxFaults \in Nat

VARIABLES gpu,      \* struct cgpu_info: intensity, max_hashes, deven
          thread,   \* the threads: step, work, nonce, hashes, split
          buffer,   \* what CLbuffer0, temp_X, temp_X2, and outputBuffer hold
          history,  \* what became of the work a thread has
          faults

hashVars == <<gpu, thread, buffer, history, faults>>

HashThreads == DOMAIN ThreadGpu
HashGpus == 0..NumDevices - 1
Intensity == DOMAIN HashesOf
WorkIds == Nat
Nothing == 0     \* a buffer that no work was written to
Nonces == 0..NonceSpace
ScanSteps == {"get", "scan", "part1", "part2", "part3", "search",
              "advance", "found", "report", "waiting", "abandon"}

\* Type invariant of the threads and of what the card holds for each of them.
HashTypeOK ==
  /\ gpu \in [HashGpus -> [intensity: Intensity, max_hashes: Nat, enabled: BOOLEAN]]
  /\ thread \in [HashThreads ->
        [step: ScanSteps, work: WorkIds, nonce: Nonces, hashes: Nat, split: BOOLEAN]]
  /\ buffer \in [HashThreads ->
        [input: WorkIds, temp_X: WorkIds, temp_X2: WorkIds,
         output: SUBSET (WorkIds \X Golden)]]
  /\ history \in [HashThreads ->
        [scanned: SUBSET Nonces, again: SUBSET Nonces,
         posted: SUBSET (WorkIds \X Golden), disturbed: BOOLEAN, failed: BOOLEAN]]
  /\ faults \in 0..MaxFaults

----------------------------------------------------------------------------
(* The division of the nonces, which are numbers of 32 bits *)

Wrapped(n) == n % (NonceSpace + 1)

NonceRange == NonceSpace \div NumDevices

\* The first nonce of device g, and the last.
RangeStart(g) == IF NumDevices > 1 THEN g * NonceRange ELSE 0
RangeEnd(g) == (g + 1) * NonceRange - 1

\* What abandon_work takes for the last nonce, max_nonce.
LastNonce(g) == IF NumDevices > 1 THEN RangeEnd(g) ELSE NonceSpace - 1

----------------------------------------------------------------------------

HashInit ==
  /\ \E i \in Intensity :
       gpu = [g \in HashGpus |-> [intensity |-> i, max_hashes |-> 0, enabled |-> TRUE]]
  /\ \E s \in UseSplit :
       thread = [t \in HashThreads |->
         [step |-> "get", work |-> 0, nonce |-> 0, hashes |-> 0, split |-> s]]
  /\ buffer = [t \in HashThreads |->
        [input |-> Nothing, temp_X |-> Nothing, temp_X2 |-> Nothing, output |-> {}]]
  /\ history = [t \in HashThreads |->
        [scanned |-> {}, again |-> {}, posted |-> {}, disturbed |-> FALSE, failed |-> FALSE]]
  /\ faults = 0

GoesTo(t, s) == thread' = [thread EXCEPT ![t].step = s]
OnDevice(t) == ThreadGpu[t]
Siblings(t) == {u \in HashThreads \ {t} : ThreadGpu[u] = ThreadGpu[t]}

\* get_work, then the start of the device's range.  max_hashes belongs to the
\* GPU: the other threads of it lose theirs.
TakeWork(t) ==
  /\ thread[t].step = "get"
  /\ thread[t].work < WorksOf[t]
  /\ thread' = [thread EXCEPT ![t].step = "scan", ![t].work = @ + 1,
                              ![t].nonce = RangeStart(OnDevice(t))]
  /\ gpu' = [gpu EXCEPT ![OnDevice(t)].max_hashes = 0]
  /\ history' = [u \in HashThreads |->
        IF u = t THEN [scanned |-> {}, again |-> {}, posted |-> {}, disturbed |-> FALSE,
                       failed |-> history[u].failed]
        ELSE IF u \in Siblings(t) THEN [history[u] EXCEPT !.disturbed = TRUE]
        ELSE history[u]]
  /\ UNCHANGED <<buffer, faults>>

\* Dynamic intensity goes up or down by one, inside its limits; the operator
\* changes it too.
Retuned(i) == {i - 1, i, i + 1} \cap Intensity

\* set_threads_hashes: how many nonces one kernel covers.
KernelHashes(i) == HashesOf[i]

\* The max_hashes of g grows, if m was not just reset and h is more, under the
\* threads of g among these.
Grows(threads, g, m, h) ==
  history' = [u \in HashThreads |->
    [history[u] EXCEPT !.disturbed =
       @ \/ (u \in threads /\ ThreadGpu[u] = g /\ m > 0 /\ h > m)]]

\* scanhash begins: the hashes of this call, and the largest of the GPU.
SetHashes(t) ==
  LET g == OnDevice(t)
      m == gpu[g].max_hashes
  IN  /\ thread[t].step = "scan"
      /\ \E i \in Retuned(gpu[g].intensity) :
           LET h == KernelHashes(i)
           IN  /\ gpu' = [gpu EXCEPT ![g].intensity = i, ![g].max_hashes = IF h > m THEN h ELSE m]
               /\ Grows(HashThreads, g, m, h)
               /\ thread' = [thread EXCEPT ![t].hashes = h,
                               ![t].step = IF thread[t].split THEN "part1" ELSE "search"]
      /\ UNCHANGED <<buffer, faults>>

Covered(t) == {Wrapped(thread[t].nonce + i) : i \in 0..thread[t].hashes - 1}

Scans(t) == history' = [history EXCEPT ![t].scanned = @ \union Covered(t),
                                       ![t].again = @ \union (history[t].scanned \cap Covered(t))]

\* Part 1: the header goes to CLbuffer0 and its hash to temp_X.
Part1(t) ==
  /\ thread[t].step = "part1"
  /\ buffer' = [buffer EXCEPT ![t].input = thread[t].work, ![t].temp_X = thread[t].work]
  /\ GoesTo(t, "part2")
  /\ UNCHANGED <<gpu, history, faults>>

\* Part 2: ROMix, from temp_X to temp_X2.
Part2(t) ==
  /\ thread[t].step = "part2"
  /\ buffer' = [buffer EXCEPT ![t].temp_X2 = buffer[t].temp_X]
  /\ GoesTo(t, "part3")
  /\ UNCHANGED <<gpu, history, faults>>

\* Part 3: the last hash and the comparison with the target.
Part3(t) ==
  /\ thread[t].step = "part3"
  /\ buffer' = [buffer EXCEPT ![t].output = @ \union
                  {<<buffer[t].temp_X2, n>> : n \in Golden \cap Covered(t)}]
  /\ Scans(t)
  /\ GoesTo(t, "advance")
  /\ UNCHANGED <<gpu, faults>>

\* Leaves the header on the card that it finds there.
NotQueued(t) == buffer[t]

\* queue_scrypt_kernel writes the header of the work to CLbuffer0.
Queued(t) == [buffer[t] EXCEPT !.input = thread[t].work]

\* The search adds what it finds to the output buffer.
Found(t) ==
  LET q == Queued(t)
  IN  [q EXCEPT !.output = @ \union {<<q.input, n>> : n \in Golden \cap Covered(t)}]

\* The one kernel: queue_kernel_parameters writes the header, then the search.
Search(t) ==
  /\ thread[t].step = "search"
  /\ buffer' = [buffer EXCEPT ![t] = Found(t)]
  /\ Scans(t)
  /\ GoesTo(t, "advance")
  /\ UNCHANGED <<gpu, faults>>

\* Where the next call starts: past what was scanned, back at the start of the
\* device's range when that is behind its end.
NextNonce(t, h) ==
  LET n == Wrapped(thread[t].nonce + h)
  IN  IF NumDevices > 1 /\ n > RangeEnd(OnDevice(t)) THEN RangeStart(OnDevice(t)) ELSE n

MoveOn(t) ==
  /\ thread[t].step = "advance"
  /\ thread' = [thread EXCEPT ![t].step = "found",
                              ![t].nonce = NextNonce(t, gpu[OnDevice(t)].max_hashes)]
  /\ UNCHANGED <<gpu, buffer, history, faults>>

\* clFinish ends the read begun before MoveOn.  If something was found the
\* output buffer is cleared for the next call and the results go, with a copy
\* of the work, to a thread of their own: postcalc_hash_async.
Finish(t) ==
  /\ thread[t].step = "found"
  /\ history' = [history EXCEPT ![t].posted = @ \union buffer[t].output]
  /\ buffer' = [buffer EXCEPT ![t].output = {}]
  /\ GoesTo(t, "report")
  /\ UNCHANGED <<gpu, faults>>

\* An OpenCL call of scanhash fails: it returns -1, the device is disabled and
\* the thread waits.  A kernel whose event could not be waited for may have run.
CallFails(t) ==
  /\ faults < MaxFaults
  /\ thread[t].step \in {"part1", "part2", "part3", "search", "advance", "found"}
  /\ thread[t].step = "found" => buffer[t].output # {}
  /\ faults' = faults + 1
  /\ gpu' = [gpu EXCEPT ![OnDevice(t)].enabled = FALSE]
  /\ history' = [history EXCEPT ![t].disturbed = TRUE, ![t].failed = TRUE]
  /\ \/ UNCHANGED buffer
     \/ /\ thread[t].step = "search"
        /\ buffer' = [buffer EXCEPT ![t] = Found(t)]
  /\ GoesTo(t, "waiting")

\* The other threads of a disabled GPU stop at the end of a call, if the cycle
\* (a fifth of the log interval) is over: before that "continue" skips the test.
Report(t) ==
  /\ thread[t].step = "report"
  /\ LET g == OnDevice(t)
         h == thread[t].hashes
         m == gpu[g].max_hashes
     IN  /\ gpu' = [gpu EXCEPT ![g].max_hashes = IF h > m THEN h ELSE m]
         /\ Grows(Siblings(t), g, m, h)
  /\ \/ GoesTo(t, "abandon")
     \/ /\ ~gpu[OnDevice(t)].enabled
        /\ GoesTo(t, "waiting")
     \/ \* work_restart
        GoesTo(t, "get")
  /\ UNCHANGED <<buffer, faults>>

\* The GPU is enabled again and its threads are posted.
Enable(g) ==
  /\ ~gpu[g].enabled
  /\ gpu' = [gpu EXCEPT ![g].enabled = TRUE]
  /\ thread' = [t \in HashThreads |->
        IF thread[t].step = "waiting" /\ OnDevice(t) = g
        THEN [thread[t] EXCEPT !.step = "abandon"] ELSE thread[t]]
  /\ UNCHANGED <<buffer, history, faults>>

\* The test at the very end of the range, the last call left out.
ExhaustedAtEnd(t) ==
  thread[t].nonce >= LastNonce(OnDevice(t))

\* abandon_work: the range is used up (the subtraction is unsigned and of 64
\* bits), or it is time, or the work is stale or solved.
Exhausted(t) ==
  LET m == gpu[OnDevice(t)].max_hashes
      last == LastNonce(OnDevice(t))
  IN  \/ m <= last /\ thread[t].nonce >= last - m
      \/ m >= NonceSpace - 1

Abandon(t) ==
  /\ thread[t].step = "abandon"
  /\ GoesTo(t, "get")
  /\ UNCHANGED <<gpu, buffer, history, faults>>

KeepOn(t) ==
  /\ thread[t].step = "abandon"
  /\ ~Exhausted(t)
  /\ GoesTo(t, "scan")
  /\ UNCHANGED <<gpu, buffer, history, faults>>

HashStep(t) ==
  \/ TakeWork(t) \/ SetHashes(t) \/ Part1(t) \/ Part2(t) \/ Part3(t) \/ Search(t)
  \/ MoveOn(t) \/ Finish(t) \/ CallFails(t) \/ Report(t)
  \/ Abandon(t) \/ KeepOn(t)

HashNext == (\E t \in HashThreads : HashStep(t)) \/ (\E g \in HashGpus : Enable(g))

HashSpec == HashInit /\ [][HashNext]_hashVars

----------------------------------------------------------------------------

\* No thread scans a nonce of its work twice, and none leaves the range of its
\* device (where the threads of another device search, of the same work if the
\* pool gave it twice), as long as no call failed, the intensity of the GPU did
\* not grow and no other thread of it took a work meanwhile: each of these makes
\* max_hashes other than what the nonce has to move on by.
NoncesOnce ==
  /\ HashTypeOK
  /\ \A t \in HashThreads : ~history[t].disturbed =>
       /\ history[t].again = {}
       /\ NumDevices > 1 => \A n \in history[t].scanned : n \div NonceRange = OnDevice(t)

\* What a kernel found is handed on with the work it was found in, and nothing
\* is left on the card for the next call, unless a call of the thread failed.
FoundIsPosted ==
  \A t \in HashThreads :
    ~history[t].failed /\ thread[t].step \in {"get", "scan", "report", "abandon"} =>
      history[t].posted = {<<thread[t].work, n>> : n \in Golden \cap history[t].scanned}

\* "we increment the work more than enough to prevent repeating work"
\* (driver-opencl.c:2189-2191), while the OpenCL calls succeed.
WorkNotRepeated ==
  \A t \in HashThreads : ~history[t].failed => history[t].again = {}
=============================================================================
