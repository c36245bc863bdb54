------------------------------ MODULE GpuProofs ------------------------------
(***************************************************************************)
(* Proofs about OpenclHash, for any devices, threads, intensities and      *)
(* works: which nonces a thread searches and where its finds go; about     *)
(* AdlControl, for any cards, listings and orders: that each card is given *)
(* back as it was found; and about OpenclInit, for any cards and memories: *)
(* that every group of work items has a place in a buffer.                 *)
(*                                                                         *)
(* NoncesOnce rests on the nonces below a work's next one: only they have  *)
(* been searched.  RestoredAtExit rests on the cards: what is not as it    *)
(* was found belongs to a GPU that is managed, which the end gives back.   *)
(* GroupsHaveRoom rests on what is left of the card after each buffer: the *)
(* buffers created so far take what was there before them less what is     *)
(* left after them, so that no sum over the buffers is needed.             *)
(***************************************************************************)
EXTENDS OpenclHash, AdlControl, OpenclInit, FiniteSetTheorems, WellFoundedInduction, TLAPS

----------------------------------------------------------------------------
(* The division of the nonces *)

GpuRec == [intensity : Intensity, max_hashes : Nat, enabled : BOOLEAN]
ThreadRec == [step : ScanSteps, work : Nat, nonce : Nonces, hashes : Nat, split : BOOLEAN]
BufferRec == [input : Nat, temp_X : Nat, temp_X2 : Nat, output : SUBSET (Nat \X Golden)]
HistoryRec == [scanned : SUBSET Nonces, again : SUBSET Nonces,
               posted : SUBSET (Nat \X Golden), disturbed : BOOLEAN, failed : BOOLEAN]

LEMMA ProductNat ==
  ASSUME NEW a \in Nat, NEW b \in Nat
  PROVE  a * b \in Nat
  OBVIOUS

LEMMA Distributes ==
  ASSUME NEW a \in Nat, NEW b \in Nat, NEW c \in Nat
  PROVE  (a + b) * c = a * c + b * c
  OBVIOUS

LEMMA ProductBounds ==
  ASSUME NEW d \in Nat \ {0}, NEW r \in Nat, NEW s \in Nat, r = s \div d, NEW g \in 0 .. d - 1
  PROVE  /\ g * r \in Nat
         /\ (g + 1) * r - 1 = g * r + r - 1
         /\ (g + 1) * r <= s
<1>1. g * r \in Nat /\ (g + 1) * r = g * r + r
  <2>1. g \in Nat /\ 1 \in Nat
    OBVIOUS
  <2>2. g * r \in Nat
    BY <2>1, ProductNat, Zenon
  <2>3. (g + 1) * r = g * r + 1 * r
    BY ONLY <2>1, r \in Nat, Distributes, Zenon
  <2>4. 1 * r = r
    OBVIOUS
  <2> QED BY <2>2, <2>3, <2>4
<1>2. d * r <= s
  <2> DEFINE m == s % d
  <2>1. s = d * (s \div d) + m /\ m \in 0 .. d - 1
    OBVIOUS
  <2>2. s = d * r + m
    BY <2>1
  <2>3. d * r \in Nat
    OBVIOUS
  <2> HIDE DEF m
  <2> QED BY <2>1, <2>2, <2>3
<1>3. (g + 1) * r <= d * r
  <2>1. PICK k \in Nat : d = g + 1 + k
    <3>1. d - (g + 1) \in Nat /\ d = g + 1 + (d - (g + 1))
      OBVIOUS
    <3> QED BY <3>1
  <2>2. g + 1 \in Nat /\ k \in Nat
    BY <2>1
  <2>3. k * r \in Nat /\ (g + 1) * r \in Nat
    BY <2>2, ProductNat, Zenon
  <2>5. (g + 1 + k) * r = (g + 1) * r + k * r
    BY <2>2, Distributes, Zenon
  <2>4. d * r = (g + 1) * r + k * r
    BY <2>1, <2>5, Zenon
  <2> QED BY <2>3, <2>4
<1>4. (g + 1) * r \in Nat /\ d * r \in Nat
  <2>1. g + 1 \in Nat /\ d \in Nat
    OBVIOUS
  <2> QED BY <2>1, ProductNat, Zenon
<1> QED BY <1>1, <1>2, <1>3, <1>4

LEMMA RangeBounds ==
  ASSUME NEW g \in HashGpus, Intensity # {}
  PROVE  /\ NonceRange \in Nat /\ NonceRange >= 2
         /\ RangeStart(g) \in Nat
         /\ LastNonce(g) = RangeStart(g) + NonceRange - 1
         /\ LastNonce(g) <= NonceSpace - 1
<1>1. NonceRange = NonceSpace \div NumDevices /\ NonceSpace \in Nat
      /\ NumDevices \in Nat \ {0} /\ g \in 0 .. NumDevices - 1
  BY HashAssumption DEF HashAssumption, NonceRange, HashGpus
<1>2. NonceRange \in Nat
  BY <1>1
<1>3. NonceRange >= 2
  <2>1. PICK i \in DOMAIN HashesOf : TRUE
    BY DEF Intensity
  <2>2. HashesOf[i] \in 1 .. NonceRange - 1
    BY <2>1, HashAssumption DEF HashAssumption, NonceRange
  <2> QED BY <1>2, <2>2
<1>4. /\ g * NonceRange \in Nat
      /\ (g + 1) * NonceRange - 1 = g * NonceRange + NonceRange - 1
      /\ (g + 1) * NonceRange <= NonceSpace
  BY <1>1, <1>2, ProductBounds
<1>5. CASE NumDevices > 1
  <2>1. RangeStart(g) = g * NonceRange /\ LastNonce(g) = (g + 1) * NonceRange - 1
    BY <1>5 DEF RangeStart, LastNonce, RangeEnd
  <2> HIDE DEF NonceRange
  <2>2. (g + 1) * NonceRange \in Nat
    BY <1>1, <1>2
  <2> QED BY <1>1, <1>2, <1>3, <1>4, <2>1, <2>2
<1>6. CASE ~(NumDevices > 1)
  <2>1. NumDevices = 1
    BY <1>1, <1>6
  <2>2. NonceRange = NonceSpace
    BY <1>1, <2>1
  <2>3. RangeStart(g) = 0 /\ LastNonce(g) = NonceSpace - 1
    BY <1>6 DEF RangeStart, LastNonce
  <2> QED BY <1>1, <1>2, <1>3, <2>2, <2>3
<1> QED BY <1>5, <1>6

(* A nonce of a device's range, divided by the size of a range, gives the  *)
(* device.                                                                 *)
LEMMA Quotient ==
  ASSUME NEW g \in Nat, NEW r \in Nat, r > 0, NEW n \in Nat,
         g * r <= n, n <= g * r + r - 1
  PROVE  n \div r = g
<1> DEFINE q == n \div r
           m == n % r
<1>1. q \in Nat /\ m \in 0 .. r - 1 /\ n = q * r + m
  OBVIOUS
<1> HIDE DEF q, m
<1>2. CASE q = g
  BY <1>2 DEF q
<1>3. CASE q < g
  <2>1. PICK k \in Nat : g = q + 1 + k
    <3>1. g - (q + 1) \in Nat /\ g = q + 1 + (g - (q + 1))
      BY <1>1, <1>3
    <3> QED BY <3>1
  <2>2. g * r = q * r + r + k * r /\ k * r \in Nat /\ q * r \in Nat
    BY <1>1, <2>1
  <2> QED BY <1>1, <2>2
<1>4. CASE q > g
  <2>1. PICK k \in Nat : q = g + 1 + k
    <3>1. q - (g + 1) \in Nat /\ q = g + 1 + (q - (g + 1))
      BY <1>1, <1>4
    <3> QED BY <3>1
  <2>2. q * r = g * r + r + k * r /\ k * r \in Nat /\ g * r \in Nat
    BY <1>1, <2>1
  <2> QED BY <1>1, <2>2
<1> QED BY <1>1, <1>2, <1>3, <1>4

----------------------------------------------------------------------------
(* The inductive invariant.  A thread that was not disturbed has scanned   *)
(* nonces of its device's range only, all of them behind where its next    *)
(* call starts; and what the next call moves on by, max_hashes, is as much *)
(* as it covers and stays inside of the range.                             *)

MaxBounded ==
  /\ \A g \in HashGpus : gpu[g].max_hashes \in 0 .. NonceRange - 1
  /\ \A t \in HashThreads : thread[t].hashes \in 0 .. NonceRange - 1

Ahead == {"scan", "part1", "part2", "part3", "search"}
Called == {"part1", "part2", "part3", "search", "advance", "found", "report"}
Behind == {"found", "report", "waiting", "abandon"}

Undisturbed(t) ==
  LET n == thread[t].nonce
      h == thread[t].hashes
      m == gpu[OnDevice(t)].max_hashes
      s == thread[t].step
      first == RangeStart(OnDevice(t))
      last == LastNonce(OnDevice(t))
  IN  /\ history[t].again = {}
      /\ history[t].scanned \subseteq first .. last
      /\ s \in Ahead \union {"advance"} => first <= n /\ n + m <= last
      /\ s \in Behind => first <= n
      /\ s \in Ahead \union Behind => \A x \in history[t].scanned : x < n
      /\ s = "advance" => \A x \in history[t].scanned : x < n + h
      /\ s \in Called => h <= m
      /\ s \in {"scan", "get"} \/ m > 0
      /\ s = "scan" /\ m = 0 => n = first /\ history[t].scanned = {}

ScanInv == \A t \in HashThreads : ~history[t].disturbed => Undisturbed(t)

(* What a thread has found is in the output buffer of the card or was      *)
(* posted, and the header follows the work through the three kernels.      *)
Traced(t) ==
  /\ thread[t].step = "part2" => buffer[t].temp_X = thread[t].work
  /\ thread[t].step = "part3" => buffer[t].temp_X2 = thread[t].work
  /\ ~history[t].failed =>
       /\ history[t].posted \union buffer[t].output =
             {<<thread[t].work, n>> : n \in Golden \cap history[t].scanned}
       /\ thread[t].step \notin {"advance", "found"} => buffer[t].output = {}

FoundInv == \A t \in HashThreads : Traced(t)

HashInv == HashTypeOK /\ MaxBounded /\ ScanInv /\ FoundInv

LEMMA HashTypes ==
  ASSUME HashTypeOK
  PROVE  /\ gpu \in [HashGpus -> GpuRec] /\ thread \in [HashThreads -> ThreadRec]
         /\ buffer \in [HashThreads -> BufferRec] /\ history \in [HashThreads -> HistoryRec]
         /\ faults \in 0 .. MaxFaults
         /\ \A t \in HashThreads :
              /\ OnDevice(t) \in HashGpus
              /\ gpu[OnDevice(t)].max_hashes \in Nat /\ gpu[OnDevice(t)].intensity \in Intensity
              /\ gpu[OnDevice(t)].enabled \in BOOLEAN
              /\ thread[t] \in ThreadRec /\ buffer[t] \in BufferRec /\ history[t] \in HistoryRec
              /\ thread[t].nonce \in Nonces /\ thread[t].hashes \in Nat /\ thread[t].work \in Nat
              /\ thread[t].step \in ScanSteps /\ thread[t].split \in BOOLEAN
              /\ buffer[t].input \in Nat /\ buffer[t].temp_X \in Nat /\ buffer[t].temp_X2 \in Nat
              /\ buffer[t].output \subseteq Nat \X Golden
              /\ history[t].scanned \subseteq Nonces /\ history[t].again \subseteq Nonces
              /\ history[t].posted \subseteq Nat \X Golden
              /\ history[t].disturbed \in BOOLEAN /\ history[t].failed \in BOOLEAN
<1>1. /\ gpu \in [HashGpus -> GpuRec] /\ thread \in [HashThreads -> ThreadRec]
      /\ buffer \in [HashThreads -> BufferRec] /\ history \in [HashThreads -> HistoryRec]
      /\ faults \in 0 .. MaxFaults
  BY DEF HashTypeOK, GpuRec, ThreadRec, BufferRec, HistoryRec, WorkIds
<1>2. \A t \in HashThreads : OnDevice(t) \in HashGpus
  BY HashAssumption DEF HashAssumption, OnDevice, HashGpus, HashThreads
<1>3. \A t \in HashThreads :
        /\ gpu[OnDevice(t)] \in GpuRec
        /\ thread[t] \in ThreadRec /\ buffer[t] \in BufferRec /\ history[t] \in HistoryRec
  BY <1>1, <1>2
<1>4. \A r \in GpuRec : /\ r.max_hashes \in Nat /\ r.intensity \in Intensity
                        /\ r.enabled \in BOOLEAN
  BY DEF GpuRec
<1>5. \A r \in ThreadRec : /\ r.nonce \in Nonces /\ r.hashes \in Nat /\ r.work \in Nat
                           /\ r.step \in ScanSteps /\ r.split \in BOOLEAN
  BY DEF ThreadRec
<1>6. \A r \in BufferRec : /\ r.input \in Nat /\ r.temp_X \in Nat /\ r.temp_X2 \in Nat
                           /\ r.output \subseteq Nat \X Golden
  BY DEF BufferRec
<1>7. \A r \in HistoryRec : /\ r.scanned \subseteq Nonces /\ r.again \subseteq Nonces
                            /\ r.posted \subseteq Nat \X Golden
                            /\ r.disturbed \in BOOLEAN /\ r.failed \in BOOLEAN
  BY DEF HistoryRec
<1> QED BY <1>1, <1>2, <1>3, <1>4, <1>5, <1>6, <1>7

LEMMA TypesHash ==
  ASSUME gpu \in [HashGpus -> GpuRec], thread \in [HashThreads -> ThreadRec],
         buffer \in [HashThreads -> BufferRec], history \in [HashThreads -> HistoryRec],
         faults \in 0 .. MaxFaults
  PROVE  HashTypeOK
BY DEF HashTypeOK, GpuRec, ThreadRec, BufferRec, HistoryRec, WorkIds

LEMMA Updated ==
  ASSUME NEW S, NEW T, NEW f \in [S -> T], NEW x \in S, NEW v \in T
  PROVE  /\ [f EXCEPT ![x] = v] \in [S -> T] /\ [f EXCEPT ![x] = v][x] = v
         /\ \A y \in S \ {x} : [f EXCEPT ![x] = v][y] = f[y]
  OBVIOUS

LEMMA ThreadUpdated ==
  ASSUME NEW r \in ThreadRec, NEW s \in ScanSteps, NEW w \in Nat, NEW n \in Nonces, NEW h \in Nat
  PROVE  /\ [r EXCEPT !.step = s] \in ThreadRec
         /\ [r EXCEPT !.step = s, !.nonce = n] \in ThreadRec
         /\ [r EXCEPT !.hashes = h, !.step = s] \in ThreadRec
         /\ [r EXCEPT !.step = s, !.work = w, !.nonce = n] \in ThreadRec
  BY DEF ThreadRec

LEMMA HistoryUpdated ==
  ASSUME NEW r \in HistoryRec
  PROVE  /\ \A b \in BOOLEAN : [r EXCEPT !.disturbed = b] \in HistoryRec
         /\ \A b, c \in BOOLEAN : [r EXCEPT !.disturbed = b, !.failed = c] \in HistoryRec
         /\ \A x, y \in SUBSET Nonces : [r EXCEPT !.scanned = x, !.again = y] \in HistoryRec
         /\ \A x \in SUBSET (Nat \X Golden) : [r EXCEPT !.posted = x] \in HistoryRec
         /\ [scanned |-> {}, again |-> {}, posted |-> {}, disturbed |-> FALSE,
             failed |-> r.failed] \in HistoryRec
  BY DEF HistoryRec

(* What the invariant says of a thread stays true while others take their  *)
(* steps, unless they disturb it.                                          *)
LEMMA StaysUndisturbed ==
  ASSUME HashTypeOK, ScanInv, MaxBounded', NEW t \in HashThreads,
         thread'[t] = thread[t],
         history'[t].scanned = history[t].scanned, history'[t].again = history[t].again,
         ~history'[t].disturbed,
         ~history[t].disturbed,
         \/ gpu'[OnDevice(t)].max_hashes = gpu[OnDevice(t)].max_hashes
         \/ gpu[OnDevice(t)].max_hashes = 0
  PROVE  Undisturbed(t)'
<1> DEFINE g == OnDevice(t)
           m == gpu[g].max_hashes
           k == gpu'[g].max_hashes
<1>1. g \in HashGpus /\ Intensity # {}
  BY HashTypes
<1>2. /\ NonceRange \in Nat /\ NonceRange >= 2 /\ RangeStart(g) \in Nat
      /\ LastNonce(g) = RangeStart(g) + NonceRange - 1
  BY <1>1, RangeBounds
<1>3. k \in 0 .. NonceRange - 1
  BY <1>1 DEF MaxBounded
<1>4. Undisturbed(t)
  BY DEF ScanInv
<1>5. thread[t].nonce \in Nat /\ thread[t].hashes \in Nat /\ m \in Nat
  BY HashTypes, HashAssumption DEF Nonces, HashAssumption
<1>6. CASE k = m
  BY <1>4, <1>6 DEF Undisturbed, OnDevice
<1>7. CASE m = 0 /\ k # m
  <2>1. thread[t].step \in {"scan", "get"}
    BY <1>4, <1>7 DEF Undisturbed
  <2>2. k > 0
    BY <1>2, <1>3, <1>7
  <2>3. thread[t].step = "scan" =>
          thread[t].nonce = RangeStart(g) /\ history[t].scanned = {}
    BY <1>4, <1>7 DEF Undisturbed
  <2>4. history[t].again = {} /\ history[t].scanned \subseteq RangeStart(g) .. LastNonce(g)
    BY <1>4 DEF Undisturbed
  <2>5. thread[t].step = "scan" => thread[t].nonce + k <= LastNonce(g)
    BY <1>2, <1>3, <2>3
  <2> HIDE DEF k, m
  <2> QED BY <1>2, <2>1, <2>2, <2>3, <2>4, <2>5
          DEF Undisturbed, OnDevice, Ahead, Called, Behind, k, g
<1> QED BY <1>6, <1>7

LEMMA StaysTraced ==
  ASSUME FoundInv, NEW t \in HashThreads, thread'[t] = thread[t], buffer'[t] = buffer[t],
         history'[t].scanned = history[t].scanned, history'[t].posted = history[t].posted,
         history'[t].failed = history[t].failed
  PROVE  Traced(t)'
BY DEF FoundInv, Traced

(* A step of one thread keeps the invariant if it does for the thread, and *)
(* disturbs the others of the GPU when it makes max_hashes grow.           *)
LEMMA OneThreadSteps ==
  ASSUME HashInv, HashTypeOK', MaxBounded', NEW t \in HashThreads,
         ~history'[t].disturbed => Undisturbed(t)', Traced(t)',
         \A u \in HashThreads \ {t} :
           /\ thread'[u] = thread[u] /\ buffer'[u] = buffer[u]
           /\ history'[u].scanned = history[u].scanned
           /\ history'[u].again = history[u].again
           /\ history'[u].posted = history[u].posted
           /\ history'[u].failed = history[u].failed
           /\ history[u].disturbed => history'[u].disturbed
           /\ \/ history'[u].disturbed
              \/ gpu'[OnDevice(u)].max_hashes = gpu[OnDevice(u)].max_hashes
              \/ gpu[OnDevice(u)].max_hashes = 0
  PROVE  HashInv'
<1>1. ScanInv'
  <2> SUFFICES ASSUME NEW u \in HashThreads, ~history'[u].disturbed PROVE Undisturbed(u)'
    BY DEF ScanInv
  <2>1. CASE u = t
    BY <2>1
  <2>2. CASE u # t
    <3>1. ~history[u].disturbed
      BY <2>2
    <3> QED BY <2>2, <3>1, StaysUndisturbed DEF HashInv
  <2> QED BY <2>1, <2>2
<1>2. FoundInv'
  <2> SUFFICES ASSUME NEW u \in HashThreads PROVE Traced(u)'
    BY DEF FoundInv
  <2>1. CASE u # t
    BY <2>1, StaysTraced DEF HashInv
  <2> QED BY <2>1
<1> QED BY <1>1, <1>2 DEF HashInv

LEMMA HashInitially == HashInit => HashInv
<1> SUFFICES ASSUME HashInit PROVE HashInv
  OBVIOUS
<1>1. PICK i \in Intensity :
        gpu = [g \in HashGpus |-> [intensity |-> i, max_hashes |-> 0, enabled |-> TRUE]]
  BY DEF HashInit
<1>2. PICK s \in UseSplit : thread = [t \in HashThreads |->
        [step |-> "get", work |-> 0, nonce |-> 0, hashes |-> 0, split |-> s]]
  BY DEF HashInit
<1>3. /\ buffer = [t \in HashThreads |->
            [input |-> 0, temp_X |-> 0, temp_X2 |-> 0, output |-> {}]]
      /\ history = [t \in HashThreads |->
            [scanned |-> {}, again |-> {}, posted |-> {}, disturbed |-> FALSE, failed |-> FALSE]]
      /\ faults = 0
  BY DEF HashInit, Nothing
<1>4. HashTypeOK
  <2>1. gpu \in [HashGpus -> GpuRec]
    BY <1>1 DEF GpuRec
  <2>2. thread \in [HashThreads -> ThreadRec]
    <3>1. s \in BOOLEAN /\ 0 \in Nonces
      BY HashAssumption DEF HashAssumption, Nonces
    <3> QED BY <1>2, <3>1 DEF ThreadRec, ScanSteps
  <2>3. buffer \in [HashThreads -> BufferRec]
    BY <1>3 DEF BufferRec
  <2>4. history \in [HashThreads -> HistoryRec]
    BY <1>3 DEF HistoryRec
  <2>5. faults \in 0 .. MaxFaults
    BY <1>3, HashAssumption DEF HashAssumption
  <2> QED BY <2>1, <2>2, <2>3, <2>4, <2>5, TypesHash
<1>5. MaxBounded
  <2> SUFFICES ASSUME HashGpus # {} \/ HashThreads # {} PROVE MaxBounded
    BY DEF MaxBounded
  <2>1. \E g \in HashGpus : TRUE
    BY <1>4, HashTypes
  <2>2. NonceRange \in Nat /\ NonceRange >= 2
    BY <2>1, RangeBounds
  <2>3. 0 \in 0 .. NonceRange - 1
    BY <2>2
  <2> QED BY <1>1, <1>2, <2>3 DEF MaxBounded
<1>6. ScanInv
  BY <1>2, <1>3 DEF ScanInv, Undisturbed, Ahead, Behind, Called
<1>7. FoundInv
  BY <1>2, <1>3 DEF FoundInv, Traced
<1> QED BY <1>4, <1>5, <1>6, <1>7 DEF HashInv

(* What follows from the invariant about a thread and its device.          *)
LEMMA ThreadFacts ==
  ASSUME HashInv, NEW t \in HashThreads
  PROVE  LET g == OnDevice(t) IN
         /\ g \in HashGpus /\ Intensity # {}
         /\ NonceRange \in Nat /\ NonceRange >= 2
         /\ RangeStart(g) \in Nat /\ LastNonce(g) = RangeStart(g) + NonceRange - 1
         /\ LastNonce(g) <= NonceSpace - 1 /\ NonceSpace \in Nat
         /\ gpu[g].max_hashes \in Nat /\ gpu[g].max_hashes <= NonceRange - 1
         /\ thread[t].hashes \in Nat /\ thread[t].hashes <= NonceRange - 1
         /\ thread[t].nonce \in Nat /\ thread[t].nonce <= NonceSpace
<1> DEFINE g == OnDevice(t)
<1>1. /\ g \in HashGpus /\ Intensity # {} /\ thread[t].nonce \in Nonces
      /\ gpu[g].max_hashes \in Nat /\ thread[t].hashes \in Nat
  BY HashTypes DEF HashInv
<1>2. /\ NonceRange \in Nat /\ NonceRange >= 2 /\ RangeStart(g) \in Nat
      /\ LastNonce(g) = RangeStart(g) + NonceRange - 1 /\ LastNonce(g) <= NonceSpace - 1
  BY <1>1, RangeBounds
<1>3. gpu[g].max_hashes \in 0 .. NonceRange - 1 /\ thread[t].hashes \in 0 .. NonceRange - 1
  BY <1>1 DEF HashInv, MaxBounded
<1>4. NonceSpace \in Nat
  BY HashAssumption DEF HashAssumption
<1> HIDE DEF g
<1>5. gpu[g].max_hashes <= NonceRange - 1 /\ thread[t].hashes <= NonceRange - 1
  BY <1>2, <1>3
<1>6. thread[t].nonce \in Nat /\ thread[t].nonce <= NonceSpace
  BY <1>1, <1>4 DEF Nonces
<1> QED BY <1>1, <1>2, <1>4, <1>5, <1>6 DEF g

----------------------------------------------------------------------------
(* The steps *)

LEMMA TakeWorkKeeps == ASSUME HashInv, NEW t \in HashThreads, TakeWork(t) PROVE HashInv'
<1> DEFINE g == OnDevice(t)
           first == RangeStart(g)
<1>0. HashTypeOK
  BY DEF HashInv
<1>1. /\ thread[t].step = "get"
      /\ thread' = [thread EXCEPT ![t] = [thread[t] EXCEPT !.step = "scan",
                      !.work = thread[t].work + 1, !.nonce = first]]
      /\ gpu' = [gpu EXCEPT ![g] = [gpu[g] EXCEPT !.max_hashes = 0]]
      /\ UNCHANGED <<buffer, faults>>
      /\ DOMAIN history' = HashThreads
      /\ history'[t] = [scanned |-> {}, again |-> {}, posted |-> {}, disturbed |-> FALSE,
                        failed |-> history[t].failed]
      /\ \A u \in HashThreads \ {t} :
           \/ u \in Siblings(t) /\ history'[u] = [history[u] EXCEPT !.disturbed = TRUE]
           \/ u \notin Siblings(t) /\ history'[u] = history[u]
      /\ history' = [u \in HashThreads |-> history'[u]]
  BY <1>0, HashTypes DEF TakeWork
<1>2. /\ NonceRange \in Nat /\ NonceRange >= 2 /\ first \in Nat /\ g \in HashGpus
      /\ LastNonce(g) = first + NonceRange - 1 /\ LastNonce(g) <= NonceSpace - 1
      /\ NonceSpace \in Nat
  BY ThreadFacts
<1> HIDE DEF first, g
<1>3. /\ thread'[t].step = "scan" /\ thread'[t].nonce = first
      /\ thread'[t].work = thread[t].work + 1 /\ thread'[t].hashes = thread[t].hashes
      /\ \A u \in HashThreads \ {t} : thread'[u] = thread[u]
  BY <1>0, <1>1, HashTypes DEF ThreadRec
<1>4. /\ gpu'[g].max_hashes = 0 /\ \A d \in HashGpus \ {g} : gpu'[d] = gpu[d]
  BY <1>0, <1>1, <1>2, HashTypes DEF GpuRec
<1>5. HashTypeOK'
  <2>1. gpu' \in [HashGpus -> GpuRec]
    BY <1>0, <1>1, <1>2, HashTypes DEF GpuRec
  <2>2. first \in Nonces
    BY <1>2 DEF Nonces
  <2>3. thread' \in [HashThreads -> ThreadRec]
    <3>1. /\ thread \in [HashThreads -> ThreadRec] /\ thread[t] \in ThreadRec
          /\ thread[t].work + 1 \in Nat /\ "scan" \in ScanSteps /\ 0 \in Nat
      BY <1>0, HashTypes DEF ScanSteps
    <3>2. [thread[t] EXCEPT !.step = "scan", !.work = thread[t].work + 1, !.nonce = first]
             \in ThreadRec
      BY <2>2, <3>1, ThreadUpdated
    <3> QED BY <1>1, <3>1, <3>2, Updated
  <2>4. history' \in [HashThreads -> HistoryRec]
    <3> SUFFICES ASSUME NEW u \in HashThreads PROVE history'[u] \in HistoryRec
      BY <1>1
    <3>1. history[u] \in HistoryRec
      BY <1>0, HashTypes
    <3>2. CASE u = t
      BY <1>1, <3>1, <3>2, HistoryUpdated
    <3>3. CASE u # t
      BY <1>1, <3>1, <3>3, HistoryUpdated
    <3> QED BY <3>2, <3>3
  <2>5. buffer' \in [HashThreads -> BufferRec] /\ faults' \in 0 .. MaxFaults
    BY <1>0, <1>1, HashTypes
  <2> QED BY <2>1, <2>3, <2>4, <2>5 DEF HashTypeOK, GpuRec, ThreadRec, BufferRec, HistoryRec, WorkIds
<1>6. MaxBounded'
  <2>1. 0 \in 0 .. NonceRange - 1
    BY <1>2
  <2>2. \A d \in HashGpus : gpu'[d].max_hashes \in 0 .. NonceRange - 1
    BY <1>4, <2>1 DEF HashInv, MaxBounded
  <2>3. \A u \in HashThreads : thread'[u].hashes \in 0 .. NonceRange - 1
    BY <1>3 DEF HashInv, MaxBounded
  <2> QED BY <2>2, <2>3 DEF MaxBounded
<1>7. Undisturbed(t)'
  <2>1. history'[t].again = {} /\ history'[t].scanned = {}
    BY <1>1
  <2>2. first <= first /\ first + 0 <= LastNonce(g)
    BY <1>2
  <2> QED BY <1>3, <1>4, <2>1, <2>2 DEF Undisturbed, OnDevice, Ahead, Behind, Called, g, first
<1>8. Traced(t)'
  <2>1. buffer'[t] = buffer[t] /\ (~history[t].failed => buffer[t].output = {})
    BY <1>1 DEF HashInv, FoundInv, Traced
  <2>2. history'[t].posted = {} /\ history'[t].scanned = {} /\ history'[t].failed = history[t].failed
    BY <1>1
  <2> QED BY <1>3, <2>1, <2>2 DEF Traced
<1>9. \A u \in HashThreads \ {t} :
        /\ thread'[u] = thread[u] /\ buffer'[u] = buffer[u]
        /\ history'[u].scanned = history[u].scanned
        /\ history'[u].again = history[u].again
        /\ history'[u].posted = history[u].posted
        /\ history'[u].failed = history[u].failed
        /\ history[u].disturbed => history'[u].disturbed
        /\ \/ history'[u].disturbed
           \/ gpu'[OnDevice(u)].max_hashes = gpu[OnDevice(u)].max_hashes
  <2> SUFFICES ASSUME NEW u \in HashThreads \ {t}
               PROVE  /\ history'[u].scanned = history[u].scanned
                      /\ history'[u].again = history[u].again
                      /\ history'[u].posted = history[u].posted
                      /\ history'[u].failed = history[u].failed
                      /\ history[u].disturbed => history'[u].disturbed
                      /\ \/ history'[u].disturbed
                         \/ gpu'[OnDevice(u)].max_hashes = gpu[OnDevice(u)].max_hashes
    BY <1>1, <1>3
  <2>1. CASE u \in Siblings(t)
    BY <1>0, <1>1, <2>1, HashTypes DEF HistoryRec
  <2>2. CASE u \notin Siblings(t)
    <3>1. OnDevice(u) # g /\ OnDevice(u) \in HashGpus
      BY <1>0, <2>2, HashTypes DEF Siblings, OnDevice, g
    <3> QED BY <1>1, <1>4, <2>2, <3>1
  <2> QED BY <2>1, <2>2
<1> QED BY <1>5, <1>6, <1>7, <1>8, <1>9, OneThreadSteps

LEMMA GrowsFacts ==
  ASSUME HashTypeOK, NEW threads, NEW g, NEW m \in Nat, NEW h \in Nat, Grows(threads, g, m, h)
  PROVE  /\ history' \in [HashThreads -> HistoryRec]
         /\ \A u \in HashThreads :
              /\ history'[u].scanned = history[u].scanned
              /\ history'[u].again = history[u].again
              /\ history'[u].posted = history[u].posted
              /\ history'[u].failed = history[u].failed
              /\ history'[u].disturbed <=>
                   \/ history[u].disturbed
                   \/ u \in threads /\ ThreadGpu[u] = g /\ m > 0 /\ h > m
<1> DEFINE b(u) == history[u].disturbed \/ (u \in threads /\ ThreadGpu[u] = g /\ m > 0 /\ h > m)
<1>1. history' = [u \in HashThreads |-> [history[u] EXCEPT !.disturbed = b(u)]]
  BY DEF Grows
<1>2. \A u \in HashThreads : history[u] \in HistoryRec /\ b(u) \in BOOLEAN
  BY HashTypes
<1>3. \A u \in HashThreads : b(u) <=>
        history[u].disturbed \/ (u \in threads /\ ThreadGpu[u] = g /\ m > 0 /\ h > m)
  OBVIOUS
<1> HIDE DEF b
<1>4. history' \in [HashThreads -> HistoryRec]
  BY <1>1, <1>2, HistoryUpdated
<1>5. \A u \in HashThreads :
        /\ history'[u].scanned = history[u].scanned
        /\ history'[u].again = history[u].again
        /\ history'[u].posted = history[u].posted
        /\ history'[u].failed = history[u].failed
        /\ history'[u].disturbed = b(u)
  BY <1>1, <1>2 DEF HistoryRec
<1> QED BY <1>3, <1>4, <1>5

LEMMA SetHashesKeeps == ASSUME HashInv, NEW t \in HashThreads, SetHashes(t) PROVE HashInv'
<1> DEFINE g == OnDevice(t)
           m == gpu[g].max_hashes
<1>0. HashTypeOK
  BY DEF HashInv
<1>1. PICK i \in Retuned(gpu[g].intensity) :
        /\ gpu' = [gpu EXCEPT ![g] = [gpu[g] EXCEPT !.intensity = i,
                     !.max_hashes = IF KernelHashes(i) > m THEN KernelHashes(i) ELSE m]]
        /\ Grows(HashThreads, g, m, KernelHashes(i))
        /\ thread' = [thread EXCEPT ![t] = [thread[t] EXCEPT !.hashes = KernelHashes(i),
                        !.step = IF thread[t].split THEN "part1" ELSE "search"]]
  BY <1>0, HashTypes DEF SetHashes
<1>2. thread[t].step = "scan" /\ UNCHANGED <<buffer, faults>>
  BY DEF SetHashes
<1> DEFINE h == KernelHashes(i)
           k == IF h > m THEN h ELSE m
           s == IF thread[t].split THEN "part1" ELSE "search"
<1>3. /\ NonceRange \in Nat /\ NonceRange >= 2 /\ g \in HashGpus
      /\ m \in Nat /\ m <= NonceRange - 1
      /\ RangeStart(g) \in Nat /\ LastNonce(g) = RangeStart(g) + NonceRange - 1
      /\ thread[t].nonce \in Nat
  BY ThreadFacts
<1>4. i \in Intensity /\ h \in 1 .. NonceRange - 1
  BY HashAssumption DEF Retuned, KernelHashes, HashAssumption, NonceRange, Intensity
<1>5. s \in ScanSteps /\ s \in {"part1", "search"}
  BY DEF ScanSteps
<1>6. k \in Nat /\ k \in 0 .. NonceRange - 1 /\ k > 0 /\ h <= k /\ h \in Nat
      /\ (k # m => k = h /\ h > m) /\ h \in 0 .. NonceRange - 1
  BY <1>3, <1>4
<1>7. /\ gpu' = [gpu EXCEPT ![g] = [gpu[g] EXCEPT !.intensity = i, !.max_hashes = k]]
      /\ Grows(HashThreads, g, m, h)
      /\ thread' = [thread EXCEPT ![t] = [thread[t] EXCEPT !.hashes = h, !.step = s]]
  BY <1>1
<1> HIDE DEF g, m, h, k, s
<1>c. /\ history' \in [HashThreads -> HistoryRec]
      /\ \A u \in HashThreads :
           /\ history'[u].scanned = history[u].scanned
           /\ history'[u].again = history[u].again
           /\ history'[u].posted = history[u].posted
           /\ history'[u].failed = history[u].failed
           /\ history'[u].disturbed <=>
                history[u].disturbed \/ (OnDevice(u) = g /\ m > 0 /\ h > m)
  <2>1. \A u : OnDevice(u) = ThreadGpu[u]
    BY DEF OnDevice
  <2>2. m \in Nat /\ h \in Nat /\ Grows(HashThreads, g, m, h)
    BY <1>3, <1>6, <1>7
  <2> QED BY <1>0, <2>1, <2>2, GrowsFacts
<1>8. gpu' \in [HashGpus -> GpuRec] /\ gpu'[g].max_hashes = k
      /\ \A d \in HashGpus \ {g} : gpu'[d] = gpu[d]
  <2>1. gpu \in [HashGpus -> GpuRec] /\ gpu[g] \in GpuRec
    BY <1>0, <1>3, HashTypes
  <2>2. [gpu[g] EXCEPT !.intensity = i, !.max_hashes = k] \in GpuRec
        /\ [gpu[g] EXCEPT !.intensity = i, !.max_hashes = k].max_hashes = k
    BY <1>4, <1>6, <2>1 DEF GpuRec
  <2> HIDE DEF GpuRec
  <2> QED BY <1>3, <1>7, <2>1, <2>2
<1>9. thread' \in [HashThreads -> ThreadRec]
      /\ thread'[t] = [thread[t] EXCEPT !.hashes = h, !.step = s]
      /\ \A u \in HashThreads \ {t} : thread'[u] = thread[u]
  <2>1. thread \in [HashThreads -> ThreadRec] /\ thread[t] \in ThreadRec
        /\ 0 \in Nat /\ thread[t].nonce \in Nonces
    BY <1>0, HashTypes
  <2>2. [thread[t] EXCEPT !.hashes = h, !.step = s] \in ThreadRec
    BY <1>5, <1>6, <2>1, ThreadUpdated
  <2> QED BY <1>7, <2>1, <2>2
<1>10. /\ thread'[t].hashes = h /\ thread'[t].step = s /\ thread'[t].nonce = thread[t].nonce
       /\ thread'[t].work = thread[t].work
  <2>1. thread[t] \in ThreadRec
    BY <1>0, HashTypes
  <2> QED BY <1>9, <2>1 DEF ThreadRec
<1>11. HashTypeOK'
  <2>1. buffer' \in [HashThreads -> BufferRec] /\ faults' \in 0 .. MaxFaults
    BY <1>0, <1>2, HashTypes
  <2> QED BY <1>c, <1>8, <1>9, <2>1 DEF HashTypeOK, GpuRec, ThreadRec, BufferRec, HistoryRec, WorkIds
<1>12. MaxBounded'
  <2>1. \A d \in HashGpus : gpu'[d].max_hashes \in 0 .. NonceRange - 1
    BY <1>6, <1>8 DEF HashInv, MaxBounded
  <2>2. \A u \in HashThreads : thread'[u].hashes \in 0 .. NonceRange - 1
    BY <1>6, <1>9, <1>10 DEF HashInv, MaxBounded
  <2> QED BY <2>1, <2>2 DEF MaxBounded
<1>13. ASSUME ~history'[t].disturbed PROVE Undisturbed(t)'
  <2>1. ~history[t].disturbed /\ ~(m > 0 /\ h > m)
    BY <1>c, <1>13 DEF g
  <2>2. Undisturbed(t)
    BY <2>1 DEF HashInv, ScanInv
  <2>3. /\ history[t].again = {} /\ history[t].scanned \subseteq RangeStart(g) .. LastNonce(g)
        /\ RangeStart(g) <= thread[t].nonce /\ thread[t].nonce + m <= LastNonce(g)
        /\ \A x \in history[t].scanned : x < thread[t].nonce
        /\ m = 0 => thread[t].nonce = RangeStart(g) /\ history[t].scanned = {}
    BY <1>2, <2>2 DEF Undisturbed, Ahead, g, m
  <2>4. thread[t].nonce + k <= LastNonce(g)
    <3>1. CASE k = m
      BY <2>3, <3>1
    <3>2. CASE k # m
      <4>1. m = 0 /\ k = h
        BY <1>3, <1>6, <2>1, <3>2
      <4> QED BY <1>3, <1>6, <2>3, <4>1
    <3> QED BY <3>1, <3>2
  <2>5. history'[t].scanned = history[t].scanned /\ history'[t].again = history[t].again
    BY <1>c
  <2> QED BY <1>5, <1>6, <1>8, <1>10, <2>3, <2>4, <2>5
          DEF Undisturbed, Ahead, Behind, Called, g, OnDevice
<1>14. Traced(t)'
  <2>1. Traced(t)
    BY DEF HashInv, FoundInv
  <2> QED BY <1>2, <1>c, <1>5, <1>10, <2>1 DEF Traced
<1>15. \A u \in HashThreads \ {t} :
        \/ history'[u].disturbed
        \/ gpu'[OnDevice(u)].max_hashes = gpu[OnDevice(u)].max_hashes
        \/ gpu[OnDevice(u)].max_hashes = 0
  <2> SUFFICES ASSUME NEW u \in HashThreads \ {t}
               PROVE  \/ history'[u].disturbed
                      \/ gpu'[OnDevice(u)].max_hashes = gpu[OnDevice(u)].max_hashes
                      \/ gpu[OnDevice(u)].max_hashes = 0
    OBVIOUS
  <2>1. OnDevice(u) \in HashGpus
    BY <1>0, HashTypes
  <2>2. CASE OnDevice(u) # g
    BY <1>8, <2>1, <2>2
  <2>3. CASE OnDevice(u) = g
    <3>1. CASE k = m
      BY <1>8, <2>3, <3>1 DEF m
    <3>2. CASE k # m
      <4>1. h > m
        BY <1>6, <3>2
      <4>2. CASE m = 0
        BY <2>3, <4>2 DEF m
      <4>3. CASE m # 0
        <5>1. m > 0
          BY <1>3, <4>3
        <5> QED BY <1>c, <2>3, <4>1, <5>1
      <4> QED BY <4>2, <4>3
    <3> QED BY <3>1, <3>2
  <2> QED BY <2>2, <2>3
<1> QED BY <1>2, <1>c, <1>9, <1>11, <1>12, <1>13, <1>14, <1>15, OneThreadSteps

LEMMA GoesToFacts ==
  ASSUME HashTypeOK, NEW t \in HashThreads, NEW s \in ScanSteps, GoesTo(t, s)
  PROVE  /\ thread' \in [HashThreads -> ThreadRec]
         /\ thread'[t].step = s /\ thread'[t].work = thread[t].work
         /\ thread'[t].nonce = thread[t].nonce /\ thread'[t].hashes = thread[t].hashes
         /\ \A u \in HashThreads \ {t} : thread'[u] = thread[u]
<1>1. thread \in [HashThreads -> ThreadRec] /\ thread[t] \in ThreadRec
      /\ 0 \in Nat /\ thread[t].nonce \in Nonces
  BY HashTypes
<1>2. thread' = [thread EXCEPT ![t] = [thread[t] EXCEPT !.step = s]]
  BY DEF GoesTo
<1>3. [thread[t] EXCEPT !.step = s] \in ThreadRec
  BY <1>1, ThreadUpdated
<1>4. thread' \in [HashThreads -> ThreadRec] /\ thread'[t] = [thread[t] EXCEPT !.step = s]
      /\ \A u \in HashThreads \ {t} : thread'[u] = thread[u]
  BY <1>1, <1>2, <1>3
<1> QED BY <1>1, <1>4 DEF ThreadRec

LEMMA BufferUpdated ==
  ASSUME NEW r \in BufferRec, NEW x \in Nat, NEW o \in SUBSET (Nat \X Golden)
  PROVE  /\ [r EXCEPT !.input = x, !.temp_X = x] \in BufferRec
         /\ [r EXCEPT !.temp_X2 = x] \in BufferRec
         /\ [r EXCEPT !.output = o] \in BufferRec
         /\ [r EXCEPT !.input = x, !.output = o] \in BufferRec
         /\ [r EXCEPT !.output = o].output = o
  BY DEF BufferRec

(* A step of one thread that leaves max_hashes and history alone.          *)
LEMMA QuietStep ==
  ASSUME HashInv, NEW t \in HashThreads, NEW s \in ScanSteps, GoesTo(t, s),
         UNCHANGED <<history, faults>>, gpu' \in [HashGpus -> GpuRec],
         \A g \in HashGpus : gpu'[g].max_hashes = gpu[g].max_hashes,
         buffer' \in [HashThreads -> BufferRec],
         \A u \in HashThreads \ {t} : buffer'[u] = buffer[u],
         Undisturbed(t) => Undisturbed(t)', Traced(t)'
  PROVE  HashInv'
<1>0. HashTypeOK
  BY DEF HashInv
<1>1. /\ thread' \in [HashThreads -> ThreadRec]
      /\ thread'[t].hashes = thread[t].hashes
      /\ \A u \in HashThreads \ {t} : thread'[u] = thread[u]
  BY <1>0, GoesToFacts
<1>2. HashTypeOK'
  <2>1. history' \in [HashThreads -> HistoryRec] /\ faults' \in 0 .. MaxFaults
    BY <1>0, HashTypes
  <2> QED BY <1>1, <2>1 DEF HashTypeOK, GpuRec, ThreadRec, BufferRec, HistoryRec, WorkIds
<1>3. MaxBounded'
  <2>1. \A g \in HashGpus : gpu'[g].max_hashes \in 0 .. NonceRange - 1
    BY DEF HashInv, MaxBounded
  <2>2. \A u \in HashThreads : thread'[u].hashes \in 0 .. NonceRange - 1
    BY <1>1 DEF HashInv, MaxBounded
  <2> QED BY <2>1, <2>2 DEF MaxBounded
<1>4. ~history'[t].disturbed => Undisturbed(t)'
  BY DEF HashInv, ScanInv
<1>5. \A u \in HashThreads : gpu'[OnDevice(u)].max_hashes = gpu[OnDevice(u)].max_hashes
  BY <1>0, HashTypes
<1> QED BY <1>1, <1>2, <1>3, <1>4, <1>5, OneThreadSteps

LEMMA Part1Keeps == ASSUME HashInv, NEW t \in HashThreads, Part1(t) PROVE HashInv'
<1>0. HashTypeOK /\ Traced(t)
  BY DEF HashInv, FoundInv
<1>1. /\ thread[t].step = "part1" /\ GoesTo(t, "part2") /\ "part2" \in ScanSteps
      /\ UNCHANGED <<gpu, history, faults>>
      /\ buffer' = [buffer EXCEPT ![t] = [buffer[t] EXCEPT !.input = thread[t].work,
                                                           !.temp_X = thread[t].work]]
  BY DEF Part1, ScanSteps
<1>2. gpu' \in [HashGpus -> GpuRec] /\ \A g \in HashGpus : gpu'[g].max_hashes = gpu[g].max_hashes
  BY <1>0, <1>1, HashTypes
<1>3. /\ thread'[t].step = "part2" /\ thread'[t].work = thread[t].work
      /\ thread'[t].nonce = thread[t].nonce /\ thread'[t].hashes = thread[t].hashes
  BY <1>0, <1>1, GoesToFacts
<1>4. /\ buffer \in [HashThreads -> BufferRec] /\ buffer[t] \in BufferRec
      /\ thread[t].work \in Nat /\ {} \in SUBSET (Nat \X Golden)
  BY <1>0, HashTypes
<1>5. [buffer[t] EXCEPT !.input = thread[t].work, !.temp_X = thread[t].work] \in BufferRec
  BY <1>4, BufferUpdated
<1>6. /\ buffer' \in [HashThreads -> BufferRec]
      /\ \A u \in HashThreads \ {t} : buffer'[u] = buffer[u]
      /\ buffer'[t] = [buffer[t] EXCEPT !.input = thread[t].work, !.temp_X = thread[t].work]
  BY <1>1, <1>4, <1>5
<1>7. buffer'[t].temp_X = thread[t].work /\ buffer'[t].output = buffer[t].output
  BY <1>4, <1>6 DEF BufferRec
<1>8. Undisturbed(t) => Undisturbed(t)'
  BY <1>1, <1>3 DEF Undisturbed, Ahead, Behind, Called, OnDevice
<1>9. Traced(t)'
  BY <1>0, <1>1, <1>3, <1>7 DEF Traced
<1> QED BY <1>1, <1>2, <1>6, <1>8, <1>9, QuietStep

LEMMA Part2Keeps == ASSUME HashInv, NEW t \in HashThreads, Part2(t) PROVE HashInv'
<1>0. HashTypeOK /\ Traced(t)
  BY DEF HashInv, FoundInv
<1>1. /\ thread[t].step = "part2" /\ GoesTo(t, "part3") /\ "part3" \in ScanSteps
      /\ UNCHANGED <<gpu, history, faults>>
      /\ buffer' = [buffer EXCEPT ![t] = [buffer[t] EXCEPT !.temp_X2 = buffer[t].temp_X]]
  BY DEF Part2, ScanSteps
<1>2. gpu' \in [HashGpus -> GpuRec] /\ \A g \in HashGpus : gpu'[g].max_hashes = gpu[g].max_hashes
  BY <1>0, <1>1, HashTypes
<1>3. /\ thread'[t].step = "part3" /\ thread'[t].work = thread[t].work
      /\ thread'[t].nonce = thread[t].nonce /\ thread'[t].hashes = thread[t].hashes
  BY <1>0, <1>1, GoesToFacts
<1>4. /\ buffer \in [HashThreads -> BufferRec] /\ buffer[t] \in BufferRec
      /\ buffer[t].temp_X \in Nat /\ {} \in SUBSET (Nat \X Golden)
  BY <1>0, HashTypes
<1>5. [buffer[t] EXCEPT !.temp_X2 = buffer[t].temp_X] \in BufferRec
  BY <1>4, BufferUpdated
<1>6. /\ buffer' \in [HashThreads -> BufferRec]
      /\ \A u \in HashThreads \ {t} : buffer'[u] = buffer[u]
      /\ buffer'[t] = [buffer[t] EXCEPT !.temp_X2 = buffer[t].temp_X]
  BY <1>1, <1>4, <1>5
<1>7. buffer'[t].temp_X2 = buffer[t].temp_X /\ buffer'[t].output = buffer[t].output
  BY <1>4, <1>6 DEF BufferRec
<1>8. Undisturbed(t) => Undisturbed(t)'
  BY <1>1, <1>3 DEF Undisturbed, Ahead, Behind, Called, OnDevice
<1>9. Traced(t)'
  BY <1>0, <1>1, <1>3, <1>7 DEF Traced
<1> QED BY <1>1, <1>2, <1>6, <1>8, <1>9, QuietStep

LEMMA MoveOnKeeps == ASSUME HashInv, NEW t \in HashThreads, MoveOn(t) PROVE HashInv'
<1> DEFINE g == OnDevice(t)
           m == gpu[g].max_hashes
           n == NextNonce(t, m)
<1>0. HashTypeOK /\ Traced(t)
  BY DEF HashInv, FoundInv
<1>1. /\ thread[t].step = "advance" /\ UNCHANGED <<gpu, buffer, history, faults>>
      /\ thread' = [thread EXCEPT ![t] = [thread[t] EXCEPT !.step = "found", !.nonce = n]]
  BY DEF MoveOn
<1>2. /\ NonceRange \in Nat /\ NonceRange >= 2 /\ g \in HashGpus
      /\ m \in Nat /\ m <= NonceRange - 1 /\ thread[t].hashes \in Nat
      /\ RangeStart(g) \in Nat /\ LastNonce(g) = RangeStart(g) + NonceRange - 1
      /\ LastNonce(g) <= NonceSpace - 1 /\ NonceSpace \in Nat
      /\ thread[t].nonce \in Nat
  BY ThreadFacts
<1>3. \A x \in Nat : Wrapped(x) \in Nonces /\ (x <= NonceSpace => Wrapped(x) = x)
  BY <1>2 DEF Wrapped, Nonces
<1>4. n \in Nonces
  <2>1. RangeStart(g) \in Nonces
    BY <1>2 DEF Nonces
  <2>2. thread[t].nonce + m \in Nat
    BY <1>2
  <2> HIDE DEF m, g
  <2> QED BY <1>3, <2>1, <2>2 DEF NextNonce, g
<1>5. thread[t].nonce + m <= LastNonce(g) => n = thread[t].nonce + m
  <2> SUFFICES ASSUME thread[t].nonce + m <= LastNonce(g) PROVE n = thread[t].nonce + m
    OBVIOUS
  <2> DEFINE x == thread[t].nonce + m
  <2>1. x \in Nat /\ x <= NonceSpace
    BY <1>2
  <2>2. Wrapped(x) = x
    BY <1>3, <2>1
  <2>3. NumDevices > 1 => ~(x > RangeEnd(g))
    <3>1. NumDevices > 1 => RangeEnd(g) = LastNonce(g)
      BY DEF LastNonce
    <3> QED BY <1>2, <2>1, <3>1
  <2>4. n = IF NumDevices > 1 /\ Wrapped(x) > RangeEnd(g) THEN RangeStart(g) ELSE Wrapped(x)
    BY DEF NextNonce
  <2> HIDE DEF x, n, g, m
  <2> QED BY <2>2, <2>3, <2>4 DEF x
<1> HIDE DEF g, m, n
<1>6. /\ thread' \in [HashThreads -> ThreadRec]
      /\ thread'[t] = [thread[t] EXCEPT !.step = "found", !.nonce = n]
      /\ \A u \in HashThreads \ {t} : thread'[u] = thread[u]
  <2>1. thread \in [HashThreads -> ThreadRec] /\ thread[t] \in ThreadRec
        /\ 0 \in Nat /\ "found" \in ScanSteps
    BY <1>0, HashTypes DEF ScanSteps
  <2>2. [thread[t] EXCEPT !.step = "found", !.nonce = n] \in ThreadRec
    BY <1>4, <2>1, ThreadUpdated
  <2> QED BY <1>1, <2>1, <2>2
<1>7. /\ thread'[t].hashes = thread[t].hashes /\ thread'[t].step = "found"
      /\ thread'[t].nonce = n /\ thread'[t].work = thread[t].work
  <2>1. thread[t] \in ThreadRec
    BY <1>0, HashTypes
  <2> QED BY <1>6, <2>1 DEF ThreadRec
<1>8. HashTypeOK'
  BY <1>0, <1>1, <1>6 DEF HashTypeOK, ThreadRec, WorkIds
<1>9. MaxBounded'
  <2>1. \A u \in HashThreads : thread'[u].hashes \in 0 .. NonceRange - 1
    BY <1>6, <1>7 DEF HashInv, MaxBounded
  <2> QED BY <1>1, <2>1 DEF HashInv, MaxBounded
<1>10. ASSUME ~history'[t].disturbed PROVE Undisturbed(t)'
  <2>1. Undisturbed(t)
    BY <1>1, <1>10 DEF HashInv, ScanInv
  <2>2. /\ history[t].again = {} /\ history[t].scanned \subseteq RangeStart(g) .. LastNonce(g)
        /\ RangeStart(g) <= thread[t].nonce /\ thread[t].nonce + m <= LastNonce(g)
        /\ \A x \in history[t].scanned : x < thread[t].nonce + thread[t].hashes
        /\ thread[t].hashes <= m /\ m > 0
    BY <1>1, <2>1 DEF Undisturbed, Ahead, Called, g, m
  <2>3. n = thread[t].nonce + m
    BY <1>5, <2>2
  <2>4. RangeStart(g) <= n /\ \A x \in history[t].scanned : x < n
    BY <1>2, <2>2, <2>3
  <2>5. gpu'[g].max_hashes = m
    BY <1>1 DEF m
  <2> QED BY <1>1, <1>7, <2>2, <2>4, <2>5 DEF Undisturbed, Ahead, Behind, Called, g, OnDevice
<1>11. Traced(t)'
  BY <1>0, <1>1, <1>7 DEF Traced
<1> QED BY <1>1, <1>6, <1>8, <1>9, <1>10, <1>11, OneThreadSteps

LEMMA AbandonKeeps == ASSUME HashInv, NEW t \in HashThreads, Abandon(t) PROVE HashInv'
<1>0. HashTypeOK /\ Traced(t)
  BY DEF HashInv, FoundInv
<1>1. /\ thread[t].step = "abandon" /\ GoesTo(t, "get") /\ "get" \in ScanSteps
      /\ UNCHANGED <<gpu, buffer, history, faults>>
  BY DEF Abandon, ScanSteps
<1>2. gpu' \in [HashGpus -> GpuRec] /\ buffer' \in [HashThreads -> BufferRec]
  BY <1>0, <1>1, HashTypes
<1>3. /\ thread'[t].step = "get" /\ thread'[t].work = thread[t].work
      /\ thread'[t].nonce = thread[t].nonce /\ thread'[t].hashes = thread[t].hashes
  BY <1>0, <1>1, GoesToFacts
<1>4. Undisturbed(t) => Undisturbed(t)'
  BY <1>1, <1>3 DEF Undisturbed, Ahead, Behind, Called, OnDevice
<1>5. Traced(t)'
  BY <1>0, <1>1, <1>3 DEF Traced
<1> QED BY <1>1, <1>2, <1>4, <1>5, QuietStep

LEMMA KeepOnKeeps == ASSUME HashInv, NEW t \in HashThreads, KeepOn(t) PROVE HashInv'
<1> DEFINE g == OnDevice(t)
           m == gpu[g].max_hashes
<1>0. HashTypeOK /\ Traced(t)
  BY DEF HashInv, FoundInv
<1>1. /\ thread[t].step = "abandon" /\ GoesTo(t, "scan") /\ "scan" \in ScanSteps
      /\ UNCHANGED <<gpu, buffer, history, faults>>
      /\ ~(m <= LastNonce(g) /\ thread[t].nonce >= LastNonce(g) - m)
  BY DEF KeepOn, ScanSteps, Exhausted
<1>2. gpu' \in [HashGpus -> GpuRec] /\ buffer' \in [HashThreads -> BufferRec]
  BY <1>0, <1>1, HashTypes
<1>3. /\ thread'[t].step = "scan" /\ thread'[t].work = thread[t].work
      /\ thread'[t].nonce = thread[t].nonce /\ thread'[t].hashes = thread[t].hashes
  BY <1>0, <1>1, GoesToFacts
<1>4. /\ NonceRange \in Nat /\ m \in Nat /\ m <= NonceRange - 1
      /\ RangeStart(g) \in Nat /\ LastNonce(g) = RangeStart(g) + NonceRange - 1
      /\ thread[t].nonce \in Nat
  BY ThreadFacts
<1> HIDE DEF g, m
<1>5. thread[t].nonce + m <= LastNonce(g)
  BY <1>1, <1>4
<1>6. ASSUME Undisturbed(t) PROVE Undisturbed(t)'
  <2>1. /\ history[t].again = {} /\ history[t].scanned \subseteq RangeStart(g) .. LastNonce(g)
        /\ RangeStart(g) <= thread[t].nonce /\ m > 0
        /\ \A x \in history[t].scanned : x < thread[t].nonce
    BY <1>1, <1>6 DEF Undisturbed, Behind, g, m
  <2>2. gpu'[g].max_hashes = m /\ ~(m = 0)
    BY <1>1, <1>4, <2>1 DEF m
  <2> QED BY <1>1, <1>3, <1>5, <2>1, <2>2 DEF Undisturbed, Ahead, Behind, Called, g, OnDevice
<1>7. Traced(t)'
  BY <1>0, <1>1, <1>3 DEF Traced
<1> QED BY <1>1, <1>2, <1>6, <1>7, QuietStep

LEMMA FinishKeeps == ASSUME HashInv, NEW t \in HashThreads, Finish(t) PROVE HashInv'
<1> DEFINE o == history[t].posted \union buffer[t].output
<1>0. HashTypeOK /\ Traced(t)
  BY DEF HashInv, FoundInv
<1>1. /\ thread[t].step = "found" /\ GoesTo(t, "report") /\ "report" \in ScanSteps
      /\ UNCHANGED <<gpu, faults>>
      /\ history' = [history EXCEPT ![t] = [history[t] EXCEPT !.posted = o]]
      /\ buffer' = [buffer EXCEPT ![t] = [buffer[t] EXCEPT !.output = {}]]
  BY DEF Finish, ScanSteps
<1>2. /\ thread' \in [HashThreads -> ThreadRec]
      /\ thread'[t].step = "report" /\ thread'[t].work = thread[t].work
      /\ thread'[t].nonce = thread[t].nonce /\ thread'[t].hashes = thread[t].hashes
      /\ \A u \in HashThreads \ {t} : thread'[u] = thread[u]
  BY <1>0, <1>1, GoesToFacts
<1>3. /\ buffer \in [HashThreads -> BufferRec] /\ buffer[t] \in BufferRec
      /\ history \in [HashThreads -> HistoryRec] /\ history[t] \in HistoryRec
      /\ o \in SUBSET (Nat \X Golden) /\ 0 \in Nat /\ {} \in SUBSET (Nat \X Golden)
  BY <1>0, HashTypes
<1> HIDE DEF o
<1>4. /\ buffer' \in [HashThreads -> BufferRec] /\ buffer'[t].output = {}
      /\ \A u \in HashThreads \ {t} : buffer'[u] = buffer[u]
  <2>1. [buffer[t] EXCEPT !.output = {}] \in BufferRec
        /\ [buffer[t] EXCEPT !.output = {}].output = {}
    BY <1>3, BufferUpdated
  <2> QED BY <1>1, <1>3, <2>1
<1>5. /\ history' \in [HashThreads -> HistoryRec]
      /\ history'[t] = [history[t] EXCEPT !.posted = o]
      /\ \A u \in HashThreads \ {t} : history'[u] = history[u]
  <2>1. [history[t] EXCEPT !.posted = o] \in HistoryRec
    BY <1>3, HistoryUpdated
  <2> QED BY <1>1, <1>3, <2>1
<1>6. /\ history'[t].posted = o /\ history'[t].scanned = history[t].scanned
      /\ history'[t].again = history[t].again /\ history'[t].failed = history[t].failed
      /\ history'[t].disturbed = history[t].disturbed
  BY <1>3, <1>5 DEF HistoryRec
<1>7. HashTypeOK'
  BY <1>0, <1>1, <1>2, <1>4, <1>5 DEF HashTypeOK, ThreadRec, BufferRec, HistoryRec, WorkIds
<1>8. MaxBounded'
  <2>1. \A u \in HashThreads : thread'[u].hashes \in 0 .. NonceRange - 1
    BY <1>2 DEF HashInv, MaxBounded
  <2> QED BY <1>1, <2>1 DEF HashInv, MaxBounded
<1>9. ASSUME ~history'[t].disturbed PROVE Undisturbed(t)'
  <2>1. Undisturbed(t)
    BY <1>6, <1>9 DEF HashInv, ScanInv
  <2> QED BY <1>1, <1>2, <1>6, <2>1 DEF Undisturbed, Ahead, Behind, Called, OnDevice
<1>10. Traced(t)'
  <2>1. ~history[t].failed => o =
          {<<thread[t].work, n>> : n \in Golden \cap history[t].scanned}
    BY <1>0, <1>1 DEF Traced, o
  <2> QED BY <1>2, <1>4, <1>6, <2>1 DEF Traced
<1> QED BY <1>1, <1>2, <1>4, <1>5, <1>7, <1>8, <1>9, <1>10, OneThreadSteps

LEMMA ReportKeeps == ASSUME HashInv, NEW t \in HashThreads, Report(t) PROVE HashInv'
<1> DEFINE g == OnDevice(t)
           m == gpu[g].max_hashes
           h == thread[t].hashes
           k == IF h > m THEN h ELSE m
<1>0. HashTypeOK /\ Traced(t)
  BY DEF HashInv, FoundInv
<1>1. PICK s \in {"abandon", "waiting", "get"} : GoesTo(t, s)
  BY DEF Report
<1>2. /\ thread[t].step = "report" /\ s \in ScanSteps /\ UNCHANGED <<buffer, faults>>
      /\ gpu' = [gpu EXCEPT ![g] = [gpu[g] EXCEPT !.max_hashes = k]]
      /\ Grows(Siblings(t), g, m, h)
  BY <1>1 DEF Report, ScanSteps
<1>3. /\ NonceRange \in Nat /\ g \in HashGpus
      /\ m \in Nat /\ m <= NonceRange - 1 /\ h \in Nat /\ h <= NonceRange - 1
  BY ThreadFacts
<1>4. k \in Nat /\ k \in 0 .. NonceRange - 1 /\ (k # m => h > m) /\ (k = m \/ k > 0)
      /\ (h <= m => k = m)
  BY <1>3
<1> HIDE DEF g, m, h, k
<1>5. /\ thread' \in [HashThreads -> ThreadRec]
      /\ thread'[t].step = s /\ thread'[t].work = thread[t].work
      /\ thread'[t].nonce = thread[t].nonce /\ thread'[t].hashes = thread[t].hashes
      /\ \A u \in HashThreads \ {t} : thread'[u] = thread[u]
  BY <1>0, <1>1, <1>2, GoesToFacts
<1>6. /\ history' \in [HashThreads -> HistoryRec]
      /\ \A u \in HashThreads :
           /\ history'[u].scanned = history[u].scanned
           /\ history'[u].again = history[u].again
           /\ history'[u].posted = history[u].posted
           /\ history'[u].failed = history[u].failed
           /\ history'[u].disturbed <=>
                history[u].disturbed \/ (u \in Siblings(t) /\ OnDevice(u) = g /\ m > 0 /\ h > m)
  <2> DEFINE siblings == Siblings(t)
  <2>1. \A u : OnDevice(u) = ThreadGpu[u]
    BY DEF OnDevice
  <2>2. Grows(siblings, g, m, h) /\ m \in Nat /\ h \in Nat
    BY <1>2, <1>3
  <2> HIDE DEF siblings
  <2>3. /\ history' \in [HashThreads -> HistoryRec]
        /\ \A u \in HashThreads :
             /\ history'[u].scanned = history[u].scanned
             /\ history'[u].again = history[u].again
             /\ history'[u].posted = history[u].posted
             /\ history'[u].failed = history[u].failed
             /\ history'[u].disturbed <=>
                  history[u].disturbed \/ (u \in siblings /\ ThreadGpu[u] = g /\ m > 0 /\ h > m)
    BY <1>0, <2>2, GrowsFacts
  <2> QED BY <2>1, <2>3 DEF siblings
<1>7. gpu' \in [HashGpus -> GpuRec] /\ gpu'[g].max_hashes = k
      /\ \A d \in HashGpus \ {g} : gpu'[d] = gpu[d]
  <2>1. gpu \in [HashGpus -> GpuRec] /\ gpu[g] \in GpuRec
    BY <1>0, <1>3, HashTypes
  <2>2. [gpu[g] EXCEPT !.max_hashes = k] \in GpuRec
        /\ [gpu[g] EXCEPT !.max_hashes = k].max_hashes = k
    BY <1>4, <2>1 DEF GpuRec
  <2> HIDE DEF GpuRec
  <2> QED BY <1>2, <1>3, <2>1, <2>2
<1>8. HashTypeOK'
  <2>1. buffer' \in [HashThreads -> BufferRec] /\ faults' \in 0 .. MaxFaults
    BY <1>0, <1>2, HashTypes
  <2> QED BY <1>5, <1>6, <1>7, <2>1 DEF HashTypeOK, GpuRec, ThreadRec, BufferRec, HistoryRec, WorkIds
<1>9. MaxBounded'
  <2>1. \A d \in HashGpus : gpu'[d].max_hashes \in 0 .. NonceRange - 1
    BY <1>4, <1>7 DEF HashInv, MaxBounded
  <2>2. \A u \in HashThreads : thread'[u].hashes \in 0 .. NonceRange - 1
    BY <1>5 DEF HashInv, MaxBounded
  <2> QED BY <2>1, <2>2 DEF MaxBounded
<1>10. ASSUME ~history'[t].disturbed PROVE Undisturbed(t)'
  <2>1. Undisturbed(t)
    BY <1>6, <1>10 DEF HashInv, ScanInv
  <2>2. h <= m
    BY <1>2, <2>1 DEF Undisturbed, Called, g, m, h
  <2>3. gpu'[g].max_hashes = m
    BY <1>4, <1>7, <2>2
  <2> QED BY <1>1, <1>2, <1>5, <1>6, <2>1, <2>3
          DEF Undisturbed, Ahead, Behind, Called, OnDevice, g, m
<1>11. Traced(t)'
  BY <1>0, <1>1, <1>2, <1>5, <1>6 DEF Traced
<1>12. \A u \in HashThreads \ {t} :
        \/ history'[u].disturbed
        \/ gpu'[OnDevice(u)].max_hashes = gpu[OnDevice(u)].max_hashes
        \/ gpu[OnDevice(u)].max_hashes = 0
  <2> SUFFICES ASSUME NEW u \in HashThreads \ {t}
               PROVE  \/ history'[u].disturbed
                      \/ gpu'[OnDevice(u)].max_hashes = gpu[OnDevice(u)].max_hashes
                      \/ gpu[OnDevice(u)].max_hashes = 0
    OBVIOUS
  <2>1. OnDevice(u) \in HashGpus
    BY <1>0, HashTypes
  <2>2. CASE OnDevice(u) # g
    BY <1>7, <2>1, <2>2
  <2>3. CASE OnDevice(u) = g
    <3>1. CASE k = m
      BY <1>7, <2>3, <3>1 DEF m
    <3>2. CASE k # m
      <4>1. h > m
        BY <1>4, <3>2
      <4>2. CASE m = 0
        BY <2>3, <4>2 DEF m
      <4>3. CASE m # 0
        <5>1. m > 0
          BY <1>3, <4>3
        <5>2. u \in Siblings(t)
          BY <2>3 DEF Siblings, OnDevice, g
        <5> QED BY <1>6, <2>3, <4>1, <5>1, <5>2
      <4> QED BY <4>2, <4>3
    <3> QED BY <3>1, <3>2
  <2> QED BY <2>2, <2>3
<1> QED BY <1>2, <1>5, <1>6, <1>8, <1>9, <1>10, <1>11, <1>12, OneThreadSteps

LEMMA EnableKeeps == ASSUME HashInv, NEW g \in HashGpus, Enable(g) PROVE HashInv'
<1> DEFINE woken(t) == thread[t].step = "waiting" /\ OnDevice(t) = g
<1>0. HashTypeOK
  BY DEF HashInv
<1>1. /\ UNCHANGED <<buffer, history, faults>>
      /\ gpu' = [gpu EXCEPT ![g] = [gpu[g] EXCEPT !.enabled = TRUE]]
      /\ thread' = [t \in HashThreads |->
            IF woken(t) THEN [thread[t] EXCEPT !.step = "abandon"] ELSE thread[t]]
  BY <1>0, HashTypes DEF Enable
<1>2. /\ gpu' \in [HashGpus -> GpuRec]
      /\ \A d \in HashGpus : gpu'[d].max_hashes = gpu[d].max_hashes
  <2>1. gpu \in [HashGpus -> GpuRec] /\ gpu[g] \in GpuRec
    BY <1>0, HashTypes
  <2>2. [gpu[g] EXCEPT !.enabled = TRUE] \in GpuRec
        /\ [gpu[g] EXCEPT !.enabled = TRUE].max_hashes = gpu[g].max_hashes
    BY <2>1 DEF GpuRec
  <2> HIDE DEF GpuRec
  <2> QED BY <1>1, <2>1, <2>2
<1>3. \A t \in HashThreads :
        /\ thread'[t] \in ThreadRec
        /\ thread'[t].nonce = thread[t].nonce /\ thread'[t].hashes = thread[t].hashes
        /\ thread'[t].work = thread[t].work
        /\ \/ thread'[t].step = thread[t].step
           \/ thread[t].step = "waiting" /\ thread'[t].step = "abandon"
  <2> SUFFICES ASSUME NEW t \in HashThreads
               PROVE  /\ thread'[t] \in ThreadRec
                      /\ thread'[t].nonce = thread[t].nonce /\ thread'[t].hashes = thread[t].hashes
                      /\ thread'[t].work = thread[t].work
                      /\ \/ thread'[t].step = thread[t].step
                         \/ thread[t].step = "waiting" /\ thread'[t].step = "abandon"
    OBVIOUS
  <2>1. /\ thread[t] \in ThreadRec /\ "abandon" \in ScanSteps /\ 0 \in Nat
        /\ thread[t].nonce \in Nonces
    BY <1>0, HashTypes DEF ScanSteps
  <2>2. CASE woken(t)
    <3>1. thread'[t] = [thread[t] EXCEPT !.step = "abandon"]
      BY <1>1, <2>2
    <3>2. thread'[t] \in ThreadRec
      BY <2>1, <3>1, ThreadUpdated
    <3> QED BY <2>1, <2>2, <3>1, <3>2 DEF ThreadRec
  <2>3. CASE ~woken(t)
    <3>1. thread'[t] = thread[t]
      BY <1>1, <2>3
    <3> QED BY <2>1, <3>1
  <2> QED BY <2>2, <2>3
<1>4. HashTypeOK'
  <2>1. thread' \in [HashThreads -> ThreadRec]
    BY <1>1, <1>3
  <2> QED BY <1>0, <1>1, <1>2, <2>1 DEF HashTypeOK, GpuRec, ThreadRec, WorkIds
<1>5. MaxBounded'
  BY <1>2, <1>3 DEF HashInv, MaxBounded
<1>6. ScanInv'
  <2> SUFFICES ASSUME NEW t \in HashThreads, ~history'[t].disturbed PROVE Undisturbed(t)'
    BY DEF ScanInv
  <2>1. Undisturbed(t)
    BY <1>1 DEF HashInv, ScanInv
  <2>2. gpu'[OnDevice(t)].max_hashes = gpu[OnDevice(t)].max_hashes
    BY <1>0, <1>2, HashTypes
  <2>3. /\ thread'[t].nonce = thread[t].nonce /\ thread'[t].hashes = thread[t].hashes
        /\ \/ thread'[t].step = thread[t].step
           \/ thread[t].step = "waiting" /\ thread'[t].step = "abandon"
        /\ history' = history
    BY <1>1, <1>3
  <2> QED BY <2>1, <2>2, <2>3 DEF Undisturbed, Ahead, Behind, Called, OnDevice
<1>7. FoundInv'
  <2> SUFFICES ASSUME NEW t \in HashThreads PROVE Traced(t)'
    BY DEF FoundInv
  <2>1. Traced(t)
    BY DEF HashInv, FoundInv
  <2> QED BY <1>1, <1>3, <2>1 DEF Traced
<1> QED BY <1>4, <1>5, <1>6, <1>7 DEF HashInv

LEMMA Foundings ==
  ASSUME HashTypeOK, NEW t \in HashThreads
  PROVE  LET F == {<<thread[t].work, n>> : n \in Golden \cap Covered(t)} IN
         /\ Found(t) \in BufferRec
         /\ Found(t).output = buffer[t].output \union F
         /\ F \subseteq Nat \X Golden
<1> DEFINE F == {<<thread[t].work, n>> : n \in Golden \cap Covered(t)}
           o == buffer[t].output \union F
<1>1. /\ thread[t].work \in Nat /\ buffer[t] \in BufferRec
      /\ buffer[t].output \subseteq Nat \X Golden
  BY HashTypes
<1>2. F \subseteq Nat \X Golden
  BY <1>1
<1>3. o \in SUBSET (Nat \X Golden)
  BY <1>1, <1>2
<1>4. /\ Queued(t).input = thread[t].work /\ Queued(t).output = buffer[t].output
      /\ Queued(t) = [buffer[t] EXCEPT !.input = thread[t].work]
  BY <1>1 DEF Queued, BufferRec
<1>5. Found(t) = [[buffer[t] EXCEPT !.input = thread[t].work] EXCEPT !.output = o]
  BY <1>4 DEF Found
<1> HIDE DEF o, F
<1>6. Found(t) \in BufferRec /\ Found(t).output = o
  BY <1>1, <1>3, <1>5 DEF BufferRec
<1> QED BY <1>2, <1>6 DEF o, F

(* A kernel runs over the nonces of the call: what it covers was not       *)
(* scanned before and lies in the device's range, if the thread was not    *)
(* disturbed.                                                              *)
LEMMA ScansFacts ==
  ASSUME HashInv, NEW t \in HashThreads, thread[t].step \in {"part3", "search"}, Scans(t)
  PROVE  /\ history' \in [HashThreads -> HistoryRec]
         /\ \A u \in HashThreads \ {t} : history'[u] = history[u]
         /\ history'[t].scanned = history[t].scanned \union Covered(t)
         /\ history'[t].again = history[t].again \union (history[t].scanned \cap Covered(t))
         /\ history'[t].posted = history[t].posted
         /\ history'[t].disturbed = history[t].disturbed
         /\ history'[t].failed = history[t].failed
         /\ ~history[t].disturbed =>
              /\ history'[t].again = {}
              /\ history'[t].scanned \subseteq RangeStart(OnDevice(t)) .. LastNonce(OnDevice(t))
              /\ \A x \in history'[t].scanned : x < thread[t].nonce + thread[t].hashes
<1> DEFINE g == OnDevice(t)
           m == gpu[g].max_hashes
           n == thread[t].nonce
           h == thread[t].hashes
           S == history[t].scanned \union Covered(t)
           A == history[t].again \union (history[t].scanned \cap Covered(t))
<1>0. HashTypeOK
  BY DEF HashInv
<1>1. history' = [history EXCEPT ![t] = [history[t] EXCEPT !.scanned = S, !.again = A]]
  BY DEF Scans
<1>2. /\ NonceSpace \in Nat /\ n \in Nat /\ h \in Nat /\ m \in Nat
      /\ RangeStart(g) \in Nat /\ NonceRange \in Nat
      /\ LastNonce(g) = RangeStart(g) + NonceRange - 1 /\ LastNonce(g) <= NonceSpace - 1
  BY ThreadFacts
<1>3. \A x \in Nat : Wrapped(x) \in Nonces /\ (x <= NonceSpace => Wrapped(x) = x)
  BY <1>2 DEF Wrapped, Nonces
<1>4. Covered(t) \subseteq Nonces
  BY <1>2, <1>3 DEF Covered
<1>5. /\ history \in [HashThreads -> HistoryRec] /\ history[t] \in HistoryRec
      /\ S \in SUBSET Nonces /\ A \in SUBSET Nonces
  BY <1>0, <1>4, HashTypes
<1> HIDE DEF S, A, g, m, n, h
<1>6. /\ history' \in [HashThreads -> HistoryRec]
      /\ \A u \in HashThreads \ {t} : history'[u] = history[u]
      /\ history'[t] = [history[t] EXCEPT !.scanned = S, !.again = A]
  <2>1. [history[t] EXCEPT !.scanned = S, !.again = A] \in HistoryRec
    BY <1>5, HistoryUpdated
  <2> QED BY <1>1, <1>5, <2>1
<1>7. /\ history'[t].scanned = S /\ history'[t].again = A
      /\ history'[t].posted = history[t].posted
      /\ history'[t].disturbed = history[t].disturbed
      /\ history'[t].failed = history[t].failed
  BY <1>5, <1>6 DEF HistoryRec
<1>8. ASSUME ~history[t].disturbed
      PROVE  A = {} /\ S \subseteq RangeStart(g) .. LastNonce(g) /\ \A x \in S : x < n + h
  <2>1. Undisturbed(t)
    BY <1>8 DEF HashInv, ScanInv
  <2>2. /\ history[t].again = {} /\ history[t].scanned \subseteq RangeStart(g) .. LastNonce(g)
        /\ RangeStart(g) <= n /\ n + m <= LastNonce(g) /\ h <= m
        /\ \A x \in history[t].scanned : x < n
    BY <2>1 DEF Undisturbed, Ahead, Called, g, m, n, h
  <2>3. \A x \in Covered(t) : x \in n .. n + h - 1
    <3> SUFFICES ASSUME NEW i \in 0 .. h - 1 PROVE Wrapped(n + i) \in n .. n + h - 1
      BY DEF Covered, n, h
    <3>1. n + i \in Nat /\ n + i <= NonceSpace /\ n + i \in n .. n + h - 1
      BY <1>2, <2>2
    <3> QED BY <1>3, <3>1
  <2>4. \A x \in Covered(t) : x \in RangeStart(g) .. LastNonce(g) /\ x >= n /\ x < n + h
    BY <1>2, <2>2, <2>3
  <2>5. \A x \in history[t].scanned : x \in Int /\ x < n
    BY <1>2, <2>2
  <2>6. A = {}
    BY <1>2, <2>2, <2>4, <2>5 DEF A
  <2>7. S \subseteq RangeStart(g) .. LastNonce(g)
    BY <2>2, <2>4 DEF S
  <2>8. \A x \in S : x < n + h
    BY <1>2, <2>4, <2>5 DEF S
  <2> QED BY <2>6, <2>7, <2>8
<1> QED BY <1>6, <1>7, <1>8 DEF S, A, g, n, h

LEMMA ScanKeeps ==
  ASSUME HashInv, NEW t \in HashThreads, thread[t].step \in {"part3", "search"}, Scans(t),
         GoesTo(t, "advance"), UNCHANGED <<gpu, faults>>,
         buffer' \in [HashThreads -> BufferRec],
         \A u \in HashThreads \ {t} : buffer'[u] = buffer[u],
         buffer'[t].output = buffer[t].output \union
                               {<<thread[t].work, n>> : n \in Golden \cap Covered(t)}
  PROVE  HashInv'
<1>0. HashTypeOK /\ Traced(t)
  BY DEF HashInv, FoundInv
<1>1. /\ thread' \in [HashThreads -> ThreadRec]
      /\ thread'[t].step = "advance" /\ thread'[t].work = thread[t].work
      /\ thread'[t].nonce = thread[t].nonce /\ thread'[t].hashes = thread[t].hashes
      /\ \A u \in HashThreads \ {t} : thread'[u] = thread[u]
  <2>1. "advance" \in ScanSteps
    BY DEF ScanSteps
  <2> QED BY <1>0, <2>1, GoesToFacts
<1>2. /\ history' \in [HashThreads -> HistoryRec]
      /\ \A u \in HashThreads \ {t} : history'[u] = history[u]
      /\ history'[t].scanned = history[t].scanned \union Covered(t)
      /\ history'[t].posted = history[t].posted
      /\ history'[t].disturbed = history[t].disturbed
      /\ history'[t].failed = history[t].failed
      /\ ~history[t].disturbed =>
           /\ history'[t].again = {}
           /\ history'[t].scanned \subseteq RangeStart(OnDevice(t)) .. LastNonce(OnDevice(t))
           /\ \A x \in history'[t].scanned : x < thread[t].nonce + thread[t].hashes
  BY ScansFacts
<1>3. HashTypeOK'
  BY <1>0, <1>1, <1>2 DEF HashTypeOK, ThreadRec, BufferRec, HistoryRec, WorkIds
<1>4. MaxBounded'
  <2>1. \A u \in HashThreads : thread'[u].hashes \in 0 .. NonceRange - 1
    BY <1>1 DEF HashInv, MaxBounded
  <2> QED BY <2>1 DEF HashInv, MaxBounded
<1>5. ASSUME ~history'[t].disturbed PROVE Undisturbed(t)'
  <2>1. Undisturbed(t)
    BY <1>2, <1>5 DEF HashInv, ScanInv
  <2>2. /\ history'[t].again = {}
        /\ history'[t].scanned \subseteq RangeStart(OnDevice(t)) .. LastNonce(OnDevice(t))
        /\ \A x \in history'[t].scanned : x < thread'[t].nonce + thread'[t].hashes
    BY <1>1, <1>2, <1>5
  <2> QED BY <1>1, <2>1, <2>2 DEF Undisturbed, Ahead, Behind, Called, OnDevice
<1>6. Traced(t)'
  <2>1. ASSUME ~history[t].failed
        PROVE  history'[t].posted \union buffer'[t].output =
                 {<<thread'[t].work, n>> : n \in Golden \cap history'[t].scanned}
    <3>1. history[t].posted \union buffer[t].output =
            {<<thread[t].work, n>> : n \in Golden \cap history[t].scanned}
      BY <1>0, <2>1 DEF Traced
    <3>2. Golden \cap history'[t].scanned =
            (Golden \cap history[t].scanned) \union (Golden \cap Covered(t))
      BY <1>2
    <3>3. {<<thread[t].work, n>> : n \in Golden \cap history'[t].scanned} =
            {<<thread[t].work, n>> : n \in Golden \cap history[t].scanned} \union
            {<<thread[t].work, n>> : n \in Golden \cap Covered(t)}
      BY <3>2
    <3> QED BY <1>1, <1>2, <3>1, <3>3
  <2> QED BY <1>1, <1>2, <2>1 DEF Traced
<1> QED BY <1>1, <1>2, <1>3, <1>4, <1>5, <1>6, OneThreadSteps

LEMMA Part3Keeps == ASSUME HashInv, NEW t \in HashThreads, Part3(t) PROVE HashInv'
<1> DEFINE F == {<<thread[t].work, n>> : n \in Golden \cap Covered(t)}
           o == buffer[t].output \union F
<1>0. HashTypeOK /\ Traced(t)
  BY DEF HashInv, FoundInv
<1>1. /\ thread[t].step = "part3" /\ GoesTo(t, "advance") /\ UNCHANGED <<gpu, faults>> /\ Scans(t)
      /\ buffer' = [buffer EXCEPT ![t] = [buffer[t] EXCEPT !.output = buffer[t].output \union
                      {<<buffer[t].temp_X2, n>> : n \in Golden \cap Covered(t)}]]
  BY DEF Part3
<1>2. buffer[t].temp_X2 = thread[t].work
  BY <1>0, <1>1 DEF Traced
<1>3. buffer' = [buffer EXCEPT ![t] = [buffer[t] EXCEPT !.output = o]]
  BY <1>1, <1>2
<1>4. /\ buffer \in [HashThreads -> BufferRec] /\ buffer[t] \in BufferRec
      /\ buffer[t].output \subseteq Nat \X Golden /\ F \subseteq Nat \X Golden /\ 0 \in Nat
  BY <1>0, HashTypes, Foundings
<1>5. o \in SUBSET (Nat \X Golden)
  BY <1>4
<1> HIDE DEF o
<1>6. /\ buffer' \in [HashThreads -> BufferRec] /\ buffer'[t].output = o
      /\ \A u \in HashThreads \ {t} : buffer'[u] = buffer[u]
  <2>1. [buffer[t] EXCEPT !.output = o] \in BufferRec
        /\ [buffer[t] EXCEPT !.output = o].output = o
    BY <1>4, <1>5, BufferUpdated
  <2> QED BY <1>3, <1>4, <2>1
<1> QED BY <1>1, <1>6, ScanKeeps DEF o

LEMMA SearchKeeps == ASSUME HashInv, NEW t \in HashThreads, Search(t) PROVE HashInv'
<1>0. HashTypeOK
  BY DEF HashInv
<1>1. /\ thread[t].step = "search" /\ GoesTo(t, "advance") /\ UNCHANGED <<gpu, faults>>
      /\ Scans(t) /\ buffer' = [buffer EXCEPT ![t] = Found(t)]
  BY DEF Search
<1>2. /\ buffer \in [HashThreads -> BufferRec] /\ Found(t) \in BufferRec
      /\ Found(t).output = buffer[t].output \union
           {<<thread[t].work, n>> : n \in Golden \cap Covered(t)}
  BY <1>0, HashTypes, Foundings
<1>3. /\ buffer' \in [HashThreads -> BufferRec] /\ buffer'[t] = Found(t)
      /\ \A u \in HashThreads \ {t} : buffer'[u] = buffer[u]
  BY <1>1, <1>2
<1> QED BY <1>1, <1>2, <1>3, ScanKeeps

LEMMA CallFailsKeeps == ASSUME HashInv, NEW t \in HashThreads, CallFails(t) PROVE HashInv'
<1> DEFINE g == OnDevice(t)
<1>0. HashTypeOK
  BY DEF HashInv
<1>1. /\ GoesTo(t, "waiting") /\ "waiting" \in ScanSteps
      /\ faults < MaxFaults /\ faults' = faults + 1
      /\ gpu' = [gpu EXCEPT ![g] = [gpu[g] EXCEPT !.enabled = FALSE]]
      /\ history' = [history EXCEPT ![t] = [history[t] EXCEPT !.disturbed = TRUE, !.failed = TRUE]]
      /\ buffer' = buffer \/ buffer' = [buffer EXCEPT ![t] = Found(t)]
  BY DEF CallFails, ScanSteps
<1>2. /\ thread' \in [HashThreads -> ThreadRec]
      /\ thread'[t].step = "waiting" /\ thread'[t].hashes = thread[t].hashes
      /\ \A u \in HashThreads \ {t} : thread'[u] = thread[u]
  BY <1>0, <1>1, GoesToFacts
<1>3. /\ buffer' \in [HashThreads -> BufferRec]
      /\ \A u \in HashThreads \ {t} : buffer'[u] = buffer[u]
  BY <1>0, <1>1, HashTypes, Foundings
<1>4. /\ gpu' \in [HashGpus -> GpuRec]
      /\ \A d \in HashGpus : gpu'[d].max_hashes = gpu[d].max_hashes
  <2>1. gpu \in [HashGpus -> GpuRec] /\ gpu[g] \in GpuRec /\ g \in HashGpus
    BY <1>0, HashTypes
  <2>2. [gpu[g] EXCEPT !.enabled = FALSE] \in GpuRec
        /\ [gpu[g] EXCEPT !.enabled = FALSE].max_hashes = gpu[g].max_hashes
    BY <2>1 DEF GpuRec
  <2> HIDE DEF GpuRec
  <2> QED BY <1>1, <2>1, <2>2
<1>5. /\ history' \in [HashThreads -> HistoryRec]
      /\ history'[t].disturbed = TRUE /\ history'[t].failed = TRUE
      /\ \A u \in HashThreads \ {t} : history'[u] = history[u]
  <2>1. history \in [HashThreads -> HistoryRec] /\ history[t] \in HistoryRec
    BY <1>0, HashTypes
  <2>2. [history[t] EXCEPT !.disturbed = TRUE, !.failed = TRUE] \in HistoryRec
    BY <2>1, HistoryUpdated
  <2>3. history'[t] = [history[t] EXCEPT !.disturbed = TRUE, !.failed = TRUE]
        /\ history' \in [HashThreads -> HistoryRec]
        /\ \A u \in HashThreads \ {t} : history'[u] = history[u]
    BY <1>1, <2>1, <2>2
  <2> QED BY <2>1, <2>3 DEF HistoryRec
<1>6. HashTypeOK'
  <2>1. faults' \in 0 .. MaxFaults
    BY <1>0, <1>1, HashTypes, HashAssumption DEF HashAssumption
  <2> QED BY <1>2, <1>3, <1>4, <1>5, <2>1
          DEF HashTypeOK, GpuRec, ThreadRec, BufferRec, HistoryRec, WorkIds
<1>7. MaxBounded'
  <2>1. \A u \in HashThreads : thread'[u].hashes \in 0 .. NonceRange - 1
    BY <1>2 DEF HashInv, MaxBounded
  <2> QED BY <1>4, <2>1 DEF HashInv, MaxBounded
<1>8. Traced(t)'
  BY <1>2, <1>5 DEF Traced
<1>9. \A u \in HashThreads : gpu'[OnDevice(u)].max_hashes = gpu[OnDevice(u)].max_hashes
  BY <1>0, <1>4, HashTypes
<1> QED BY <1>2, <1>3, <1>5, <1>6, <1>7, <1>8, <1>9, OneThreadSteps

LEMMA HashSteps == ASSUME HashInv, [HashNext]_hashVars PROVE HashInv'
<1>1. CASE UNCHANGED hashVars
  BY <1>1 DEF hashVars, HashInv, HashTypeOK, MaxBounded, ScanInv, Undisturbed, FoundInv, Traced,
              OnDevice
<1>2. CASE \E t \in HashThreads : HashStep(t)
  <2> PICK t \in HashThreads : HashStep(t)
    BY <1>2
  <2>1. \/ TakeWork(t) \/ SetHashes(t) \/ Part1(t) \/ Part2(t) \/ Part3(t) \/ Search(t)
        \/ MoveOn(t) \/ Finish(t) \/ CallFails(t) \/ Report(t)
        \/ Abandon(t) \/ KeepOn(t)
    BY DEF HashStep
  <2> QED BY <2>1, TakeWorkKeeps, SetHashesKeeps, Part1Keeps, Part2Keeps, Part3Keeps, SearchKeeps,
             MoveOnKeeps, FinishKeeps, CallFailsKeeps, ReportKeeps, AbandonKeeps, KeepOnKeeps
<1>3. CASE \E g \in HashGpus : Enable(g)
  BY <1>3, EnableKeeps
<1> QED BY <1>1, <1>2, <1>3 DEF HashNext

(* No nonce of a work is scanned twice, nor outside of the device's range. *)
THEOREM SearchedOnce == HashSpec => []NoncesOnce
<1>1. HashInv => NoncesOnce
  <2> SUFFICES ASSUME HashInv, NEW t \in HashThreads, ~history[t].disturbed, NumDevices > 1,
                      NEW n \in history[t].scanned
               PROVE  n \div NonceRange = OnDevice(t)
    BY DEF NoncesOnce, HashInv, ScanInv, Undisturbed
  <2>1. /\ NonceRange \in Nat /\ NonceRange >= 2 /\ RangeStart(OnDevice(t)) \in Nat
        /\ LastNonce(OnDevice(t)) = RangeStart(OnDevice(t)) + NonceRange - 1
        /\ OnDevice(t) \in HashGpus
    BY ThreadFacts
  <2>2. n \in RangeStart(OnDevice(t)) .. LastNonce(OnDevice(t))
    BY DEF HashInv, ScanInv, Undisturbed
  <2>3. RangeStart(OnDevice(t)) = OnDevice(t) * NonceRange
    BY DEF RangeStart
  <2>4. OnDevice(t) \in Nat
    BY <2>1, HashAssumption DEF HashGpus, HashAssumption
  <2>5. /\ n \in Nat /\ NonceRange > 0 /\ OnDevice(t) * NonceRange <= n
        /\ n <= OnDevice(t) * NonceRange + NonceRange - 1
    BY <2>1, <2>2, <2>3
  <2> QED BY <2>1, <2>4, <2>5, Quotient
<1> QED BY <1>1, HashInitially, HashSteps, PTL DEF HashSpec

(* Every nonce a kernel finds is posted, with the work it was found in.    *)
THEOREM FindsArePosted == HashSpec => []FoundIsPosted
<1>1. HashInv => FoundIsPosted
  <2> SUFFICES ASSUME HashInv, NEW t \in HashThreads, ~history[t].failed,
                      thread[t].step \in {"get", "scan", "report", "abandon"}
               PROVE  history[t].posted =
                        {<<thread[t].work, n>> : n \in Golden \cap history[t].scanned}
    BY DEF FoundIsPosted
  <2>1. Traced(t)
    BY DEF HashInv, FoundInv
  <2> QED BY <2>1 DEF Traced
<1> QED BY <1>1, HashInitially, HashSteps, PTL DEF HashSpec

----------------------------------------------------------------------------
(* Of the intervals 1 .. k with k in S one is smallest.                    *)
LEMMA MinFacts ==
  ASSUME NEW S \in SUBSET Nat, S # {}
  PROVE  Min(S) \in S /\ \A k \in S : Min(S) <= k
<1> DEFINE Intervals == {1 .. k : k \in S}
<1>1. Intervals \subseteq FiniteSubsetsOf(Nat) /\ Intervals # {}
  <2>1. \A k \in S : IsFiniteSet(1 .. k)
    BY FS_Interval
  <2>2. \A k \in S : (1 .. k) \in SUBSET Nat
    OBVIOUS
  <2> QED BY <2>1, <2>2 DEF FiniteSubsetsOf
<1>2. PICK T \in Intervals : \A U \in Intervals : <<U, T>> \notin StrictSubsetOrdering(Nat)
  <2> HIDE DEF Intervals
  <2> QED BY <1>1, FS_StrictSubsetOrderingWellFounded, WFMin
<1>3. PICK m \in S : T = 1 .. m
  OBVIOUS
<1>4. ASSUME NEW k \in S, k < m PROVE FALSE
  <2>1. (1 .. k) \in Intervals /\ (1 .. k) \subseteq (1 .. m) /\ m \in (1 .. m) /\ m \notin (1 .. k)
    BY <1>4
  <2>2. (1 .. k) \in SUBSET Nat /\ (1 .. m) \in SUBSET Nat /\ (1 .. k) # (1 .. m)
    BY <2>1
  <2>3. <<1 .. k, 1 .. m>> \in StrictSubsetOrdering(Nat)
    BY <2>1, <2>2, Zenon DEF StrictSubsetOrdering
  <2> QED BY <1>2, <1>3, <2>1, <2>3
<1>5. \A k \in S : m <= k
  BY <1>4
<1> QED BY <1>5 DEF Min

LEMMA MaxPair == ASSUME NEW a \in Int, NEW b \in Int
  PROVE  Max({a, b}) = IF a >= b THEN a ELSE b
<1> DEFINE m == IF a >= b THEN a ELSE b
<1>1. m \in {a, b} /\ \A y \in {a, b} : m >= y
  OBVIOUS
<1>2. \A x \in {a, b} : (\A y \in {a, b} : x >= y) => x = m
  OBVIOUS
<1> QED BY <1>1, <1>2 DEF Max

LEMMA MinPair == ASSUME NEW a \in Int, NEW b \in Int
  PROVE  Min({a, b}) = IF a <= b THEN a ELSE b
<1> DEFINE m == IF a <= b THEN a ELSE b
<1>1. m \in {a, b} /\ \A y \in {a, b} : m =< y
  OBVIOUS
<1>2. \A x \in {a, b} : (\A y \in {a, b} : x =< y) => x = m
  OBVIOUS
<1> QED BY <1>1, <1>2 DEF Min

(* The largest of some natural numbers that none exceeds n.                *)
LEMMA GreatestOf ==
  ASSUME NEW n \in Nat, NEW S \in SUBSET (0 .. n), S # {}
  PROVE  Max(S) \in S
<1> DEFINE T == {n - x : x \in S}
<1>1. T \in SUBSET Nat /\ T # {}
  <2>1. \A x \in S : n - x \in Nat
    OBVIOUS
  <2>2. PICK x \in S : TRUE
    OBVIOUS
  <2> QED BY <2>1, <2>2
<1>2. PICK t \in T : \A u \in T : t <= u
  <2> HIDE DEF T
  <2> QED BY <1>1, MinFacts
<1>3. PICK x \in S : t = n - x
  BY <1>2
<1>4. \A y \in S : x >= y
  <2> SUFFICES ASSUME NEW y \in S PROVE x >= y
    OBVIOUS
  <2>1. n - y \in T /\ t <= n - y
    BY <1>2
  <2> QED BY <1>3, <2>1
<1> QED BY <1>3, <1>4 DEF Max

----------------------------------------------------------------------------
(* The inductive invariant: twins both have a card, the GPU that is tuned  *)
(* has one, and what is not as the program found it belongs to a GPU that  *)
(* is marked as managed, while the control lasts.                          *)

TwinInv == \A g \in Gpus : twin[g] # NoGpu => adapter[g] # 0 /\ adapter[twin[g]] # 0

TuningInv == tuning # NoTuning => adapter[tuning.gpu] # 0

ChangedIsManaged ==
  \A c \in DOMAIN real :
    \/ fan[c] = DefaultFan /\ clock[c] = DefaultClock
    \/ adl_active /\ \E g \in Gpus : adapter[g] = c /\ ga[g].managed

AdlInv == AdlTypeOK /\ TwinInv /\ TuningInv /\ ChangedIsManaged

LEMMA Modulus == ASSUME NEW s \in Nat \ {0}, NEW p \in Nat
  PROVE  (p \div s) * s \in 0 .. p
<1> DEFINE q == p \div s
           r == p % s
<1>1. q \in Nat /\ r \in 0 .. s - 1 /\ p = s * q + r
  OBVIOUS
<1> HIDE DEF q, r
<1>2. s * q = q * s /\ q * s \in Nat
  BY <1>1
<1>3. q * s \in 0 .. p
  BY <1>1, <1>2
<1> QED BY <1>3 DEF q

LEMMA ShownInRange == ASSUME NEW p \in 0 .. iMaxPercent
  PROVE  Shown(p) \in 0 .. iMaxPercent
<1>1. FanStep \in Nat \ {0} /\ p \in Nat /\ p <= 100
  BY AdlAssumption DEF AdlAssumption, iMaxPercent
<1>2. Shown(p) \in 0 .. p
  BY <1>1, Modulus DEF Shown
<1> QED BY <1>1, <1>2 DEF iMaxPercent

LEMMA NominalInRange == Nominal \in 0 .. iMaxPercent
<1>1. gpu_fan \in 0 .. 100 /\ min_fan \in 0 .. 100
  BY AdlAssumption DEF AdlAssumption, iMaxPercent
<1>2. Min({50, gpu_fan}) \in 0 .. 100
  <2>1. 50 \in Int /\ gpu_fan \in Int
    BY <1>1
  <2>2. Min({50, gpu_fan}) = IF 50 <= gpu_fan THEN 50 ELSE gpu_fan
    BY <2>1, MinPair, Zenon
  <2> QED BY <1>1, <2>2
<1>3. Max({min_fan, Min({50, gpu_fan})}) \in 0 .. 100
  <2> DEFINE m == Min({50, gpu_fan})
  <2> HIDE DEF m
  <2>1. m \in 0 .. 100
    BY <1>2 DEF m
  <2>2. Max({min_fan, m}) \in 0 .. 100
    BY <1>1, <2>1, MaxPair
  <2> QED BY <2>2 DEF m
<1> QED BY <1>3 DEF Nominal, iMaxPercent

LEMMA AdapterInRange ==
  ASSUME NEW l \in Listings, NEW m \in GpuMaps, NEW g \in Gpus
  PROVE  AdapterOf(RealAdapters(l), m, g) \in 0 .. Len(RealAdapters(l))
<1> DEFINE cards == RealAdapters(l)
           v == VirtualAdl(m, g)
           moved == {i \in DOMAIN cards : BusRank(cards, i) = v /\ i # v + 1}
<1>1. cards \in Seq(Card) /\ (g \in DOMAIN m => m[g] \in 0 .. Len(cards) - 1)
  BY AdlAssumption DEF AdlAssumption
<1>2. Len(cards) \in Nat /\ DOMAIN cards = 1 .. Len(cards) /\ g \in Nat
  BY <1>1, AdlAssumption DEF Gpus, AdlAssumption
<1> HIDE DEF cards
<1>3. CASE SetUp(cards, g)
  <2>1. v \in 0 .. Len(cards) - 1
    BY <1>1, <1>2, <1>3 DEF SetUp, VirtualAdl
  <2>2. v + 1 \in 0 .. Len(cards)
    BY <1>2, <2>1
  <2>3. moved # {} => Max(moved) \in 0 .. Len(cards)
    <3>1. moved \in SUBSET (0 .. Len(cards))
      BY <1>2
    <3> HIDE DEF moved
    <3> QED BY <1>2, <3>1, GreatestOf
  <2>4. Vadapter(cards, v) \in 0 .. Len(cards)
    BY <2>2, <2>3 DEF Vadapter
  <2> QED BY <1>3, <2>4 DEF AdapterOf, cards
<1>4. CASE ~SetUp(cards, g)
  BY <1>2, <1>4 DEF AdapterOf, cards
<1> QED BY <1>3, <1>4

LEMMA TwinFacts ==
  ASSUME NEW cards, NEW of, NEW g \in Gpus
  PROVE  /\ TwinOf(cards, of, g) \in Gpus \union {NoGpu}
         /\ TwinOf(cards, of, g) # NoGpu => of[g] # 0 /\ of[TwinOf(cards, of, g)] # 0
<1> DEFINE pairs == {h \in Gpus : \/ fanspeed_twin(cards, of[g], of[h])
                                  \/ fanspeed_twin(cards, of[h], of[g])}
<1>1. \A h \in pairs : h \in Gpus /\ of[g] # 0 /\ of[h] # 0
  BY DEF fanspeed_twin
<1>2. pairs \in SUBSET (0 .. NumGpus) /\ NumGpus \in Nat
  BY AdlAssumption DEF Gpus, AdlAssumption
<1>3. TwinOf(cards, of, g) = IF pairs = {} THEN NoGpu ELSE Max(pairs)
  BY DEF TwinOf
<1> HIDE DEF pairs
<1>4. pairs # {} => Max(pairs) \in pairs
  BY <1>2, GreatestOf
<1> QED BY <1>1, <1>3, <1>4

LEMMA AdlInitially == AdlInit => AdlInv
<1> SUFFICES ASSUME AdlInit PROVE AdlInv
  OBVIOUS
<1>1. PICK l \in Listings : real = RealAdapters(l)
  BY DEF AdlInit
<1>2. /\ gpumap \in GpuMaps
      /\ adapter = [g \in Gpus |-> AdapterOf(real, gpumap, g)]
      /\ twin = [g \in Gpus |-> TwinOf(real, adapter, g)]
      /\ has_fanspeed = [g \in Gpus |-> adapter[g] # 0 /\ real[adapter[g]].fan]
      /\ adl_active = (\E g \in Gpus : adapter[g] # 0)
      /\ deven = [g \in Gpus |-> IF g \in Deselected THEN "disabled" ELSE "enabled"]
      /\ temp = [c \in DOMAIN real |-> Min(Temps \ {-1})]
      /\ idle = [c \in DOMAIN real |-> FALSE]
      /\ tuning = NoTuning /\ orders = 0
  BY DEF AdlInit
<1>3. clock = [c \in DOMAIN real |->
        IF gpu_engine # 0 /\ \E g \in Gpus : adapter[g] = c THEN gpu_engine ELSE DefaultClock]
  BY DEF AdlInit
<1>4. PICK auto \in Automatic :
          /\ ga = [g \in Gpus |->
                [targetfan |-> IF has_fanspeed[g] /\ "fan" \in auto THEN Nominal ELSE 0,
                 lastengine |-> 0, lasttemp |-> Min(Temps \ {-1}),
                 maxspeed |-> FirstMax, minspeed |-> FirstMin,
                 managed |-> \/ gpu_engine # 0 \/ "engine" \in auto
                             \/ has_fanspeed[g] /\ "fan" \in auto,
                 autofan |-> "fan" \in auto, autoengine |-> "engine" \in auto]]
          /\ fan = [c \in DOMAIN real |->
                IF "fan" \in auto /\ \E g \in Gpus : adapter[g] = c /\ has_fanspeed[g]
                THEN Shown(Nominal) ELSE DefaultFan]
  BY DEF AdlInit
<1>5. real \in Seq(Card)
  BY <1>1, AdlAssumption DEF AdlAssumption
<1>6. adapter \in [Gpus -> 0 .. Len(real)]
  BY <1>1, <1>2, AdapterInRange
<1>7. twin \in [Gpus -> Gpus \union {NoGpu}] /\ TwinInv
  BY <1>2, TwinFacts DEF TwinInv
<1>8. Min(Temps \ {-1}) \in Int
  <2> DEFINE S == Temps \ {-1}
  <2>1. S \in SUBSET Nat /\ S # {}
    BY AdlAssumption DEF AdlAssumption
  <2> HIDE DEF S
  <2>2. Min(S) \in S
    BY <2>1, MinFacts
  <2>3. Min(S) \in Int
    <3>1. \A k \in S : k \in Nat
      BY <2>1, Zenon
    <3>2. Min(S) \in Nat
      BY <2>2, <3>1, Zenon
    <3> QED BY <3>2

  <2> QED BY <2>3 DEF S
<1>9. /\ has_fanspeed \in [Gpus -> BOOLEAN] /\ adl_active \in BOOLEAN
      /\ deven \in [Gpus -> {"enabled", "disabled", "recover"}]
      /\ idle \in [DOMAIN real -> BOOLEAN] /\ tuning \in Readings \union {NoTuning}
      /\ temp \in [DOMAIN real -> Int]
      /\ orders \in 0 .. MaxOrders
  BY <1>2, <1>8, AdlAssumption DEF AdlAssumption
<1>10. FirstMax \in Int /\ FirstMin \in Int
  BY AdlAssumption DEF AdlAssumption, FirstMax, FirstMin
<1>11. /\ ga \in [Gpus -> Settings]
       /\ \A g \in Gpus : ga[g].maxspeed = FirstMax /\ ga[g].minspeed = FirstMin
  <2>1. Nominal \in 0 .. iMaxPercent /\ 0 \in 0 .. iMaxPercent
    BY NominalInRange DEF iMaxPercent
  <2> HIDE DEF Nominal, FirstMax, FirstMin
  <2> SUFFICES ASSUME NEW g \in Gpus
               PROVE  ga[g] \in Settings /\ ga[g].maxspeed = FirstMax /\ ga[g].minspeed = FirstMin
    BY <1>4
  <2>2. has_fanspeed[g] \in BOOLEAN
    BY <1>9
  <2> QED BY <1>4, <1>8, <1>10, <2>1, <2>2 DEF Settings
<1>12. fan \in [DOMAIN real -> 0 .. iMaxPercent]
  <2>1. Shown(Nominal) \in 0 .. iMaxPercent /\ DefaultFan \in 0 .. iMaxPercent
    BY NominalInRange, ShownInRange, AdlAssumption DEF AdlAssumption
  <2> QED BY <1>4, <2>1
<1>13. clock \in [DOMAIN real -> Int]
  BY <1>3, AdlAssumption DEF AdlAssumption
<1>14. AdlTypeOK
  BY <1>5, <1>6, <1>7, <1>9, <1>11, <1>12, <1>13 DEF AdlTypeOK
<1>15. TuningInv
  BY <1>2 DEF TuningInv
<1>16. ChangedIsManaged
  <2> SUFFICES ASSUME NEW c \in DOMAIN real, ~(fan[c] = DefaultFan /\ clock[c] = DefaultClock)
               PROVE  adl_active /\ \E g \in Gpus : adapter[g] = c /\ ga[g].managed
    BY DEF ChangedIsManaged
  <2>1. c # 0
    BY <1>5
  <2>2. PICK g \in Gpus : /\ adapter[g] = c
                          /\ gpu_engine # 0 \/ (has_fanspeed[g] /\ "fan" \in auto)
    BY <1>3, <1>4
  <2>3. ga[g].managed
    BY <1>4, <2>2
  <2> QED BY <1>2, <2>1, <2>2, <2>3
<1> QED BY <1>7, <1>14, <1>15, <1>16 DEF AdlInv

----------------------------------------------------------------------------
(* What the setters do to the settings, the fans and the clocks.           *)

SpeedsInOrder(s) == s.minspeed <= s.maxspeed

LEMMA FanAskedFacts ==
  ASSUME NEW settings \in [Gpus -> Settings], NEW g \in Gpus, NEW percent \in 0 .. iMaxPercent
  PROVE  /\ FanAsked(settings, g, percent) \in [Gpus -> Settings]
         /\ \A h \in Gpus :
              /\ SpeedsInOrder(settings[h]) => SpeedsInOrder(FanAsked(settings, g, percent)[h])
              /\ settings[h].managed => FanAsked(settings, g, percent)[h].managed
         /\ adl_active /\ real[adapter[g]].fan => FanAsked(settings, g, percent)[g].managed
<1> DEFINE new == [settings EXCEPT ![g].targetfan = percent, ![g].managed = TRUE]
<1>1. /\ new \in [Gpus -> Settings] /\ new[g].managed
      /\ \A h \in Gpus : /\ SpeedsInOrder(settings[h]) => SpeedsInOrder(new[h])
                         /\ settings[h].managed => new[h].managed
  BY DEF Settings, SpeedsInOrder
<1> HIDE DEF new
<1>2. FanAsked(settings, g, percent) =
        IF adl_active /\ real[adapter[g]].fan THEN new ELSE settings
  BY DEF FanAsked, new
<1> QED BY <1>1, <1>2

LEMMA ClockAskedFacts ==
  ASSUME NEW settings \in [Gpus -> Settings], NEW g \in Gpus, NEW speed \in Int
  PROVE  /\ ClockAsked(settings, g, speed) \in [Gpus -> Settings]
         /\ \A h \in Gpus :
              /\ SpeedsInOrder(settings[h]) => SpeedsInOrder(ClockAsked(settings, g, speed)[h])
              /\ settings[h].managed => ClockAsked(settings, g, speed)[h].managed
         /\ adl_active => ClockAsked(settings, g, speed)[g].managed
<1> DEFINE hi == Max({settings[g].maxspeed, speed})
           lo == Min({settings[g].minspeed, speed})
           new == [settings EXCEPT ![g].lastengine = speed, ![g].managed = TRUE,
                                   ![g].maxspeed = hi, ![g].minspeed = lo]
<1>1. settings[g].maxspeed \in Int /\ settings[g].minspeed \in Int
  BY DEF Settings
<1>2. /\ hi = IF settings[g].maxspeed >= speed THEN settings[g].maxspeed ELSE speed
      /\ lo = IF settings[g].minspeed <= speed THEN settings[g].minspeed ELSE speed
  BY <1>1, MaxPair, MinPair, Zenon
<1>3. ClockAsked(settings, g, speed) = IF adl_active THEN new ELSE settings
  BY DEF ClockAsked
<1> HIDE DEF hi, lo
<1>4. hi \in Int /\ lo \in Int /\ (SpeedsInOrder(settings[g]) => lo <= hi)
  BY <1>1, <1>2 DEF SpeedsInOrder
<1>5. /\ new \in [Gpus -> Settings] /\ new[g].managed
      /\ \A h \in Gpus : /\ SpeedsInOrder(settings[h]) => SpeedsInOrder(new[h])
                         /\ settings[h].managed => new[h].managed
  <2> DEFINE s1 == [settings EXCEPT ![g].lastengine = speed]
             s2 == [s1 EXCEPT ![g].managed = TRUE]
             s3 == [s2 EXCEPT ![g].maxspeed = hi]
             s4 == [s3 EXCEPT ![g].minspeed = lo]
  <2>1. /\ s1 \in [Gpus -> Settings] /\ s1[g].minspeed = settings[g].minspeed
        /\ s1[g].maxspeed = settings[g].maxspeed
        /\ \A h \in Gpus : h # g => s1[h] = settings[h]
    BY DEF Settings
  <2> HIDE DEF s1
  <2>2. /\ s2 \in [Gpus -> Settings] /\ s2[g].managed /\ s2[g].minspeed = settings[g].minspeed
        /\ s2[g].maxspeed = settings[g].maxspeed
        /\ \A h \in Gpus : h # g => s2[h] = settings[h]
    BY <2>1 DEF Settings
  <2> HIDE DEF s2
  <2>3. /\ s3 \in [Gpus -> Settings] /\ s3[g].managed /\ s3[g].minspeed = settings[g].minspeed
        /\ s3[g].maxspeed = hi
        /\ \A h \in Gpus : h # g => s3[h] = settings[h]
    BY <1>4, <2>2 DEF Settings
  <2> HIDE DEF s3
  <2>4. /\ s4 \in [Gpus -> Settings] /\ s4[g].managed /\ s4[g].minspeed = lo
        /\ s4[g].maxspeed = hi
        /\ \A h \in Gpus : h # g => s4[h] = settings[h]
    BY <1>4, <2>3 DEF Settings
  <2>5. new = s4
    BY DEF s1, s2, s3
  <2> HIDE DEF s4, new
  <2>6. \A h \in Gpus : /\ SpeedsInOrder(settings[h]) => SpeedsInOrder(new[h])
                        /\ settings[h].managed => new[h].managed
    BY <1>4, <2>4, <2>5 DEF SpeedsInOrder
  <2> QED BY <2>4, <2>5, <2>6
<1> HIDE DEF new
<1> QED BY <1>3, <1>5

LEMMA FansAtFacts ==
  ASSUME AdlTypeOK, NEW g \in Gpus, adapter[g] # 0, NEW percent \in 0 .. iMaxPercent
  PROVE  /\ FansAt(fan, g, percent) \in [DOMAIN real -> 0 .. iMaxPercent]
         /\ \A c \in DOMAIN real : FansAt(fan, g, percent)[c] # fan[c] =>
              c = adapter[g] /\ adl_active /\ real[adapter[g]].fan
<1>1. fan \in [DOMAIN real -> 0 .. iMaxPercent] /\ Shown(percent) \in 0 .. iMaxPercent
  BY ShownInRange DEF AdlTypeOK
<1> QED BY <1>1 DEF FansAt

LEMMA ClocksAtFacts ==
  ASSUME AdlTypeOK, NEW g \in Gpus, adapter[g] # 0, NEW speed \in Int
  PROVE  /\ ClocksAt(clock, g, speed) \in [DOMAIN real -> Int]
         /\ \A c \in DOMAIN real : ClocksAt(clock, g, speed)[c] # clock[c] =>
              c = adapter[g] /\ adl_active
<1>1. clock \in [DOMAIN real -> Int]
  BY DEF AdlTypeOK
<1> QED BY <1>1 DEF ClocksAt

(* A step that leaves what is managed managed, and gives a card only its   *)
(* first values unless it belongs to a GPU that is managed now.            *)
LEMMA ManagedChange ==
  ASSUME AdlInv, UNCHANGED <<real, adl_active, adapter>>,
         \A g \in Gpus : ga[g].managed => ga'[g].managed,
         \A c \in DOMAIN real :
           \/ /\ fan'[c] \in {fan[c], DefaultFan}
              /\ clock'[c] \in {clock[c], DefaultClock}
           \/ adl_active /\ \E g \in Gpus : adapter[g] = c /\ ga'[g].managed
  PROVE  ChangedIsManaged'
<1> SUFFICES ASSUME NEW c \in DOMAIN real,
                    ~(adl_active /\ \E g \in Gpus : adapter[g] = c /\ ga'[g].managed)
             PROVE  fan'[c] = DefaultFan /\ clock'[c] = DefaultClock
  BY DEF ChangedIsManaged
<1>1. fan[c] = DefaultFan /\ clock[c] = DefaultClock
  BY DEF AdlInv, ChangedIsManaged
<1> QED BY <1>1

(* A step that keeps the cards and what the GPUs have of them.             *)
LEMMA SettingsChange ==
  ASSUME AdlInv,
         UNCHANGED <<real, adl_active, adapter, twin, has_fanspeed, temp, idle>>,
         deven' \in [Gpus -> {"enabled", "disabled", "recover"}],
         ga' \in [Gpus -> Settings],
         \A g \in Gpus : SpeedsInOrder(ga[g]) => SpeedsInOrder(ga'[g]),
         fan' \in [DOMAIN real -> 0 .. iMaxPercent],
         clock' \in [DOMAIN real -> Int],
         tuning' \in {tuning, NoTuning},
         orders' \in 0 .. MaxOrders
  PROVE  AdlTypeOK' /\ TwinInv' /\ TuningInv'
<1>1. AdlTypeOK
  BY DEF AdlInv
<1>2. /\ real' \in Seq(Card)
      /\ adapter' \in [Gpus -> 0 .. Len(real')]
      /\ twin' \in [Gpus -> Gpus \union {NoGpu}]
      /\ has_fanspeed' \in [Gpus -> BOOLEAN] /\ adl_active' \in BOOLEAN
      /\ temp' \in [DOMAIN real' -> Int] /\ idle' \in [DOMAIN real' -> BOOLEAN]
      /\ tuning' \in Readings \union {NoTuning}
  BY <1>1 DEF AdlTypeOK
<1>3. FirstMin <= FirstMax => \A g \in Gpus : ga'[g].minspeed <= ga'[g].maxspeed
  BY <1>1 DEF AdlTypeOK, SpeedsInOrder
<1>4. AdlTypeOK'
  BY <1>2, <1>3 DEF AdlTypeOK
<1>5. TwinInv' /\ TuningInv'
  BY DEF AdlInv, TwinInv, TuningInv
<1> QED BY <1>4, <1>5

LEMMA OrderedOnce == AdlInv /\ Order => orders' \in 0 .. MaxOrders
  BY AdlAssumption DEF AdlInv, AdlTypeOK, Order, AdlAssumption

LEMMA OrderFanStep ==
  ASSUME AdlInv, NEW g \in Gpus, NEW p \in FanOrders, OrderFan(g, p)
  PROVE  AdlInv'
<1> USE DEF OrderFan
<1>1. p \in 0 .. iMaxPercent /\ AdlTypeOK /\ ga \in [Gpus -> Settings]
  BY AdlAssumption DEF AdlAssumption, AdlInv, AdlTypeOK
<1>2. /\ ga' \in [Gpus -> Settings]
      /\ \A h \in Gpus : /\ SpeedsInOrder(ga[h]) => SpeedsInOrder(ga'[h])
                         /\ ga[h].managed => ga'[h].managed
      /\ adl_active /\ real[adapter[g]].fan => ga'[g].managed
  BY <1>1, FanAskedFacts
<1>3. /\ fan' \in [DOMAIN real -> 0 .. iMaxPercent]
      /\ \A c \in DOMAIN real : fan'[c] # fan[c] =>
           c = adapter[g] /\ adl_active /\ real[adapter[g]].fan
  BY <1>1, FansAtFacts
<1>4. /\ clock' \in [DOMAIN real -> Int] /\ orders' \in 0 .. MaxOrders
      /\ deven' \in [Gpus -> {"enabled", "disabled", "recover"}]
  BY <1>1, OrderedOnce DEF AdlTypeOK
<1>5. AdlTypeOK' /\ TwinInv' /\ TuningInv'
  BY <1>2, <1>3, <1>4, SettingsChange
<1>6. ChangedIsManaged'
  BY <1>2, <1>3, ManagedChange
<1> QED BY <1>5, <1>6 DEF AdlInv

LEMMA OrderClockStep ==
  ASSUME AdlInv, NEW g \in Gpus, NEW s \in ClockOrders, OrderClock(g, s)
  PROVE  AdlInv'
<1> USE DEF OrderClock
<1>1. s \in Int /\ AdlTypeOK /\ ga \in [Gpus -> Settings]
  BY AdlAssumption DEF AdlAssumption, AdlInv, AdlTypeOK
<1>2. /\ ga' \in [Gpus -> Settings]
      /\ \A h \in Gpus : /\ SpeedsInOrder(ga[h]) => SpeedsInOrder(ga'[h])
                         /\ ga[h].managed => ga'[h].managed
      /\ adl_active => ga'[g].managed
  BY <1>1, ClockAskedFacts
<1>3. /\ clock' \in [DOMAIN real -> Int]
      /\ \A c \in DOMAIN real : clock'[c] # clock[c] => c = adapter[g] /\ adl_active
  BY <1>1, ClocksAtFacts
<1>4. /\ fan' \in [DOMAIN real -> 0 .. iMaxPercent] /\ orders' \in 0 .. MaxOrders
      /\ deven' \in [Gpus -> {"enabled", "disabled", "recover"}]
  BY <1>1, OrderedOnce DEF AdlTypeOK
<1>5. AdlTypeOK' /\ TwinInv' /\ TuningInv'
  BY <1>2, <1>3, <1>4, SettingsChange
<1>6. ChangedIsManaged'
  BY <1>2, <1>3, ManagedChange
<1> QED BY <1>5, <1>6 DEF AdlInv

LEMMA ToggleStep ==
  ASSUME AdlInv, NEW g \in Gpus, ToggleFan(g) \/ ToggleEngine(g)
  PROVE  AdlInv'
<1>1. AdlTypeOK /\ ga \in [Gpus -> Settings] /\ DefaultFan \in 0 .. iMaxPercent /\ DefaultClock \in Int
  BY AdlAssumption DEF AdlAssumption, AdlInv, AdlTypeOK
<1>2. /\ fan \in [DOMAIN real -> 0 .. iMaxPercent] /\ clock \in [DOMAIN real -> Int]
      /\ deven \in [Gpus -> {"enabled", "disabled", "recover"}]
  BY <1>1 DEF AdlTypeOK
<1>3. /\ UNCHANGED <<real, adl_active, adapter, twin, has_fanspeed, temp, idle, tuning, deven>>
      /\ Order
  BY DEF ToggleFan, ToggleEngine
<1>4. /\ ga' \in [Gpus -> Settings]
      /\ \A h \in Gpus : /\ SpeedsInOrder(ga[h]) => SpeedsInOrder(ga'[h])
                         /\ ga[h].managed => ga'[h].managed
  <2>1. CASE ga' = [ga EXCEPT ![g].autofan = ~@]
    <3>1. (~ga[g].autofan) \in BOOLEAN
      BY Zenon
    <3>2. PICK b \in BOOLEAN : ga' = [ga EXCEPT ![g].autofan = b]
      BY <2>1, <3>1
    <3>3. \A h \in Gpus : ga[h] \in Settings
      BY <1>1, Zenon
    <3> QED BY <1>1, <3>2, <3>3 DEF Settings, SpeedsInOrder
  <2>2. CASE ga' = [ga EXCEPT ![g].autoengine = ~@]
    <3>1. (~ga[g].autoengine) \in BOOLEAN
      BY Zenon
    <3>2. PICK b \in BOOLEAN : ga' = [ga EXCEPT ![g].autoengine = b]
      BY <2>2, <3>1
    <3>3. \A h \in Gpus : ga[h] \in Settings
      BY <1>1, Zenon
    <3> QED BY <1>1, <3>2, <3>3 DEF Settings, SpeedsInOrder
  <2> QED BY <2>1, <2>2 DEF ToggleFan, ToggleEngine

<1>5. /\ fan' \in [DOMAIN real -> 0 .. iMaxPercent] /\ clock' \in [DOMAIN real -> Int]
      /\ \A c \in DOMAIN real : /\ fan'[c] \in {fan[c], DefaultFan}
                                /\ clock'[c] \in {clock[c], DefaultClock}
  <2>1. fan' \in {fan, [fan EXCEPT ![adapter[g]] = DefaultFan]}
    BY DEF ToggleFan, ToggleEngine
  <2>2. clock' \in {clock, [clock EXCEPT ![adapter[g]] = DefaultClock]}
    BY DEF ToggleFan, ToggleEngine
  <2> QED BY <1>1, <1>2, <2>1, <2>2
<1>6. orders' \in 0 .. MaxOrders
  BY <1>3, OrderedOnce
<1>7. AdlTypeOK' /\ TwinInv' /\ TuningInv'
  BY <1>2, <1>3, <1>4, <1>5, <1>6, SettingsChange
<1>8. ChangedIsManaged'
  BY <1>3, <1>4, <1>5, ManagedChange
<1> QED BY <1>7, <1>8 DEF AdlInv

LEMMA SenseStep ==
  ASSUME AdlInv, NEW g \in Gpus, Sense(g)
  PROVE  AdlInv'
<1> USE DEF Sense, adlHardware
<1>1. AdlTypeOK /\ UNCHANGED <<real, adl_active, adapter, twin, has_fanspeed, deven, ga, fan, clock, temp, idle, orders>>
  BY DEF AdlInv
<1>2. adapter[g] \in DOMAIN real /\ temp \in [DOMAIN real -> Int]
  BY <1>1 DEF AdlTypeOK
<1>3. \A h \in Gpus : adapter[h] # 0 => adapter[h] \in DOMAIN real
  BY <1>1 DEF AdlTypeOK
<1>4. FanPercent(g) \in Int
  <2> DEFINE f == IF ~has_fanspeed[g] /\ twin[g] # NoGpu THEN twin[g] ELSE g
  <2>1. f \in Gpus /\ adapter[f] # 0
    BY <1>1 DEF AdlTypeOK, AdlInv, TwinInv
  <2>2. FanPercent(g) = IF real[adapter[f]].fan THEN fan[adapter[f]] ELSE -1
    BY DEF FanPercent
  <2> HIDE DEF f
  <2>3. fan[adapter[f]] \in 0 .. 100
    BY <1>1, <1>3, <2>1 DEF AdlTypeOK, iMaxPercent
  <2> QED BY <2>2, <2>3
<1>5. (IF twin[g] = NoGpu THEN 0 ELSE temp[adapter[twin[g]]]) \in Int
  BY <1>1, <1>2, <1>3 DEF AdlTypeOK, AdlInv, TwinInv
<1>6. tuning' \in Readings /\ tuning'.gpu = g
  <2>1. temp[adapter[g]] \in Int
    BY <1>2
  <2> QED BY <1>4, <1>5, <2>1 DEF Readings
<1>7. AdlTypeOK'
  BY <1>1, <1>6 DEF AdlTypeOK
<1>8. TwinInv' /\ TuningInv' /\ ChangedIsManaged'
  BY <1>1, <1>6 DEF AdlInv, TwinInv, TuningInv, ChangedIsManaged
<1> QED BY <1>7, <1>8 DEF AdlInv

LEMMA HardwareStep ==
  ASSUME AdlInv, NEW c \in DOMAIN real, IdleChanges(c) \/ \E t \in Temps : TempChanges(c, t)
  PROVE  AdlInv'
<1>1. AdlTypeOK /\ UNCHANGED <<real, adl_active, adapter, twin, has_fanspeed, deven, ga, fan, clock, tuning, orders>>
  BY DEF AdlInv, IdleChanges, TempChanges
<1>2. temp' \in [DOMAIN real -> Int] /\ idle' \in [DOMAIN real -> BOOLEAN]
  <2>1. CASE IdleChanges(c)
    <3>1. (~idle[c]) \in BOOLEAN
      BY Zenon
    <3>2. PICK b \in BOOLEAN : idle' = [idle EXCEPT ![c] = b]
      BY <2>1, <3>1 DEF IdleChanges
    <3> QED BY <1>1, <2>1, <3>2 DEF IdleChanges, AdlTypeOK
  <2>2. CASE \E t \in Temps : TempChanges(c, t)
    <3>1. PICK t \in Temps : TempChanges(c, t)
      BY <2>2
    <3>2. t \in Int
      BY AdlAssumption DEF AdlAssumption
    <3> QED BY <1>1, <3>1, <3>2 DEF TempChanges, AdlTypeOK
  <2> QED BY <2>1, <2>2
<1>3. AdlTypeOK'
  BY <1>1, <1>2 DEF AdlTypeOK
<1>4. TwinInv' /\ TuningInv' /\ ChangedIsManaged'
  BY <1>1 DEF AdlInv, TwinInv, TuningInv, ChangedIsManaged
<1> QED BY <1>3, <1>4 DEF AdlInv

LEMMA FanLostStep ==
  ASSUME AdlInv, NEW g \in Gpus, FanLost(g)
  PROVE  AdlInv'
<1> USE DEF FanLost, adlHardware
<1>1. AdlTypeOK /\ UNCHANGED <<real, adl_active, adapter, deven, ga, fan, clock, temp, idle, tuning, orders>>
  BY DEF AdlInv
<1>2. /\ has_fanspeed' \in [Gpus -> BOOLEAN]
      /\ twin' \in [Gpus -> Gpus \union {NoGpu}]
      /\ \A h \in Gpus : twin'[h] # NoGpu => twin'[h] = twin[h]
  BY <1>1 DEF AdlTypeOK
<1>3. AdlTypeOK'
  BY <1>1, <1>2 DEF AdlTypeOK
<1>4. TwinInv' /\ TuningInv' /\ ChangedIsManaged'
  BY <1>1, <1>2 DEF AdlInv, TwinInv, TuningInv, ChangedIsManaged
<1> QED BY <1>3, <1>4 DEF AdlInv

LEMMA ClearAdlStep ==
  ASSUME AdlInv, ClearAdl
  PROVE  AdlInv'
<1> USE DEF ClearAdl
<1>1. AdlTypeOK /\ UNCHANGED <<real, adapter, twin, has_fanspeed, deven, ga, temp, idle, tuning, orders>>
  BY DEF AdlInv
<1> DEFINE back == {adapter[g] : g \in {h \in Gpus : adapter[h] # 0 /\ ga[h].managed}}
<1>2. /\ clock' = [c \in DOMAIN real |-> IF c \in back THEN DefaultClock ELSE clock[c]]
      /\ fan' = [c \in DOMAIN real |-> IF c \in back THEN DefaultFan ELSE fan[c]]
  OBVIOUS
<1>3. \A c \in DOMAIN real : fan'[c] = DefaultFan /\ clock'[c] = DefaultClock
  <2> SUFFICES ASSUME NEW c \in DOMAIN real, c \notin back
               PROVE  fan[c] = DefaultFan /\ clock[c] = DefaultClock
    BY <1>2
  <2>1. c # 0
    BY <1>1 DEF AdlTypeOK
  <2>2. ~\E g \in Gpus : adapter[g] = c /\ ga[g].managed
    BY <2>1
  <2> QED BY <2>2 DEF AdlInv, ChangedIsManaged
<1>4. fan' \in [DOMAIN real -> 0 .. iMaxPercent] /\ clock' \in [DOMAIN real -> Int]
  <2> HIDE DEF back
  <2>1. DefaultFan \in 0 .. iMaxPercent /\ DefaultClock \in Int
    BY AdlAssumption DEF AdlAssumption
  <2> QED BY <1>2, <1>3, <2>1
<1>5. AdlTypeOK'
  BY <1>1, <1>4 DEF AdlTypeOK
<1>6. TwinInv' /\ TuningInv'
  BY <1>1 DEF AdlInv, TwinInv, TuningInv
<1>7. ChangedIsManaged'
  BY <1>1, <1>3 DEF ChangedIsManaged
<1> QED BY <1>5, <1>6, <1>7 DEF AdlInv

(* The speed that fan_autotune asks for is a percentage.                   *)
LEMMA NewPercentInRange ==
  ASSUME NEW g, NEW t, NEW p, NEW last,
         ga[g].targetfan \in Int, t \in Int, p \in Int, last \in Int
  PROVE  NewPercent(g, t, p, last) \in 0 .. iMaxPercent
<1> DEFINE tdiff == t - last
           asked == ga[g].targetfan
           more == asked + IF t > targettemp + opt_hysteresis THEN 10 ELSE 5
           new ==
            IF t > overtemp /\ p < iMaxPercent THEN iMaxPercent
            ELSE IF t > targettemp /\ p < gpu_fan /\ tdiff >= 0
                 THEN Min({gpu_fan, more})
            ELSE IF p > min_fan /\ t < targettemp - opt_hysteresis
                 THEN IF tdiff <= 0 THEN asked - 1 + Fifth(tdiff)
                      ELSE IF tdiff >= 5 THEN asked + Fifth(tdiff) ELSE p
            ELSE IF p > min_fan /\ tdiff < 0 /\ last < targettemp THEN asked + tdiff
            ELSE IF p < gpu_fan /\ tdiff > 0 /\ t > targettemp - opt_hysteresis
                 THEN asked + tdiff
            ELSE p
<1>1. NewPercent(g, t, p, last) = Max({0, Min({iMaxPercent, new})})
  BY Zenon DEF NewPercent
<1>2. gpu_fan \in Int /\ min_fan \in Int /\ targettemp \in Int /\ overtemp \in Int /\ opt_hysteresis \in Int
  BY AdlAssumption DEF AdlAssumption
<1>3. tdiff \in Int /\ more \in Int /\ asked \in Int
  BY <1>2
<1>4. Fifth(tdiff) \in Int
  <2> HIDE DEF tdiff
  <2> QED BY <1>3 DEF Fifth
<1>5. Min({gpu_fan, more}) \in Int
  <2> HIDE DEF more
  <2>1. Min({gpu_fan, more}) = IF gpu_fan <= more THEN gpu_fan ELSE more
    BY <1>2, <1>3, MinPair, Zenon
  <2> QED BY <1>2, <1>3, <2>1
<1>6. new \in Int
  <2> HIDE DEF more, asked, tdiff
  <2>1. iMaxPercent \in Int /\ asked - 1 + Fifth(tdiff) \in Int /\ asked + Fifth(tdiff) \in Int
        /\ asked + tdiff \in Int
    BY <1>3, <1>4 DEF iMaxPercent
  <2> QED BY <1>5, <2>1, Zenon
<1> HIDE DEF new
<1>7. Min({iMaxPercent, new}) = IF iMaxPercent <= new THEN iMaxPercent ELSE new
  <2>1. iMaxPercent \in Int
    BY DEF iMaxPercent
  <2> QED BY <1>6, <2>1, MinPair, Zenon
<1> DEFINE m == Min({iMaxPercent, new})
<1>8. m \in Int /\ m <= 100
  BY <1>6, <1>7 DEF iMaxPercent
<1> HIDE DEF m
<1>9. Max({0, m}) = IF 0 >= m THEN 0 ELSE m
  <2>1. 0 \in Int /\ m \in Int
    BY <1>8
  <2> QED BY <2>1, MaxPair, Zenon

<1> QED BY <1>1, <1>8, <1>9 DEF m, iMaxPercent

(* gpu_autotune sets the fan of a GPU that has a card, and a clock that    *)
(* does not pass the range of its GPU.                                     *)
LEMMA TuneStep ==
  ASSUME AdlInv, Tune
  PROVE  AdlInv'
<1> DEFINE g == tuning.gpu
           t == tuning.temp
           f == IF t # 0 /\ tuning.fanpercent >= 0 THEN FanGpu(g) ELSE NoGpu
           hot == HotterTwin(g)
           percent == NewPercent(f, hot.temp, tuning.fanpercent, hot.last)
           fan_window == f = NoGpu \/ percent <= gpu_fan
           changed == f # NoGpu /\ percent # tuning.fanpercent
           fan_optimal == changed => percent < tuning.fanpercent /\ fan_window
           engine == EngineClock(g)
           tunes == engine # 0 /\ ga[g].autoengine
           new == InRange(g, NewEngine(g, t, engine, fan_optimal, fan_window))
           sets == tunes /\ (new < engine \/ (new > engine /\ new > ga[g].lastengine))
           fanned == IF changed THEN FanAsked(ga, f, percent) ELSE ga
           clocked == IF sets THEN ClockAsked(fanned, g, new) ELSE fanned
<1>1. /\ ga' = [clocked EXCEPT ![g].lasttemp = t]
      /\ fan' = IF changed THEN FansAt(fan, f, percent) ELSE fan
      /\ clock' = IF sets THEN ClocksAt(clock, g, new) ELSE clock
      /\ deven' = [deven EXCEPT ![g] = IF tunes THEN NewEnable(g, t) ELSE @]
      /\ tuning' = NoTuning /\ tuning # NoTuning
      /\ UNCHANGED <<real, gpumap, adl_active, adapter, twin, has_fanspeed, temp, idle, orders>>
  BY Zenon DEF Tune
<1>2. AdlTypeOK /\ tuning \in Readings /\ ga \in [Gpus -> Settings]
  BY <1>1 DEF AdlInv, AdlTypeOK
<1>3. g \in Gpus /\ t \in Int /\ tuning.fanpercent \in Int /\ tuning.twintemp \in Int /\ adapter[g] # 0
  BY <1>1, <1>2 DEF Readings, AdlInv, TuningInv
<1>4. \A h \in Gpus : /\ ga[h].targetfan \in 0 .. iMaxPercent /\ ga[h].lasttemp \in Int
                      /\ ga[h].minspeed \in Int /\ ga[h].maxspeed \in Int
  BY <1>2 DEF Settings
<1>5. twin[g] # NoGpu => twin[g] \in Gpus /\ adapter[g] # 0 /\ adapter[twin[g]] # 0
  BY <1>2, <1>3 DEF AdlInv, AdlTypeOK, TwinInv
<1>6. f # NoGpu => f \in Gpus /\ adapter[f] # 0
  <2> HIDE DEF g, t
  <2> QED BY <1>3, <1>5 DEF FanGpu
<1>7. hot.temp \in Int /\ hot.last \in Int
  <2>1. CASE twin[g] # NoGpu /\ tuning.twintemp > tuning.temp
    <3>1. hot = [temp |-> tuning.twintemp, last |-> ga[twin[g]].lasttemp]
      BY <2>1, Zenon DEF HotterTwin
    <3> HIDE DEF hot, g
    <3> QED BY <1>3, <1>4, <1>5, <2>1, <3>1
  <2>2. CASE ~(twin[g] # NoGpu /\ tuning.twintemp > tuning.temp)
    <3>1. hot = [temp |-> tuning.temp, last |-> ga[g].lasttemp]
      BY <2>2, Zenon DEF HotterTwin
    <3> HIDE DEF hot, g
    <3> QED BY <1>3, <1>4, <3>1
  <2> QED BY <2>1, <2>2
<1> HIDE DEF g, t, f, hot
<1>8. f # NoGpu => percent \in 0 .. iMaxPercent
  <2> SUFFICES ASSUME f # NoGpu PROVE percent \in 0 .. iMaxPercent
    OBVIOUS
  <2>1. ga[f].targetfan \in 0 .. iMaxPercent
    BY <1>4, <1>6
  <2>2. ga[f].targetfan \in Int
    BY <2>1 DEF iMaxPercent
  <2> QED BY <1>3, <1>7, <2>2, NewPercentInRange
<1> HIDE DEF percent
<1>9. changed => f \in Gpus /\ adapter[f] # 0 /\ percent \in 0 .. iMaxPercent
  BY <1>6, <1>8
<1> HIDE DEF changed
<1>10. /\ fanned \in [Gpus -> Settings]
       /\ \A h \in Gpus : /\ SpeedsInOrder(ga[h]) => SpeedsInOrder(fanned[h])
                          /\ ga[h].managed => fanned[h].managed
       /\ changed /\ adl_active /\ real[adapter[f]].fan => fanned[f].managed
  <2>1. CASE changed
    BY <1>2, <1>9, <2>1, FanAskedFacts
  <2>2. CASE ~changed
    BY <1>2, <2>2
  <2> QED BY <2>1, <2>2
<1>11. /\ fan' \in [DOMAIN real -> 0 .. iMaxPercent]
       /\ \A c \in DOMAIN real : fan'[c] # fan[c] =>
            changed /\ c = adapter[f] /\ adl_active /\ real[adapter[f]].fan
  <2>1. CASE changed
    BY <1>1, <1>2, <1>9, <2>1, FansAtFacts
  <2>2. CASE ~changed
    BY <1>1, <1>2, <2>2 DEF AdlTypeOK
  <2> QED BY <2>1, <2>2
<1>12. new \in Int
  <2>1. engine \in Int
    <3>1. adapter[g] \in DOMAIN real
      BY <1>2, <1>3 DEF AdlTypeOK
    <3>2. clock[adapter[g]] \in Int /\ IdleClock \in Int
      BY <1>2, <3>1, AdlAssumption DEF AdlTypeOK, AdlAssumption
    <3> QED BY <3>2 DEF EngineClock
  <2> HIDE DEF engine, fan_optimal, fan_window
  <2> DEFINE wanted == NewEngine(g, t, engine, fan_optimal, fan_window)
  <2>2. wanted \in Int
    BY <1>3, <1>4, <2>1 DEF NewEngine
  <2> HIDE DEF wanted
  <2>3. InRange(g, wanted) \in Int
    BY <1>3, <1>4, <2>2 DEF InRange
  <2> QED BY <2>3 DEF wanted
<1> HIDE DEF engine, new, fanned, tunes
<1> HIDE DEF sets
<1>13. /\ clocked \in [Gpus -> Settings]
       /\ \A h \in Gpus : /\ SpeedsInOrder(fanned[h]) => SpeedsInOrder(clocked[h])
                          /\ fanned[h].managed => clocked[h].managed
       /\ sets /\ adl_active => clocked[g].managed
  <2>1. CASE sets
    BY <1>3, <1>10, <1>12, <2>1, ClockAskedFacts
  <2>2. CASE ~sets
    BY <1>10, <2>2
  <2> QED BY <2>1, <2>2
<1>14. /\ clock' \in [DOMAIN real -> Int]
       /\ \A c \in DOMAIN real : clock'[c] # clock[c] => sets /\ c = adapter[g] /\ adl_active
  <2>1. CASE sets
    BY <1>1, <1>2, <1>3, <1>12, <2>1, ClocksAtFacts
  <2>2. CASE ~sets
    BY <1>1, <1>2, <2>2 DEF AdlTypeOK
  <2> QED BY <2>1, <2>2
<1> HIDE DEF clocked
<1>15. /\ ga' \in [Gpus -> Settings]
       /\ \A h \in Gpus : /\ SpeedsInOrder(clocked[h]) => SpeedsInOrder(ga'[h])
                          /\ clocked[h].managed => ga'[h].managed
  BY <1>1, <1>3, <1>13 DEF Settings, SpeedsInOrder
<1>16. deven' \in [Gpus -> {"enabled", "disabled", "recover"}]
  <2>1. deven \in [Gpus -> {"enabled", "disabled", "recover"}]
    BY <1>2 DEF AdlTypeOK
  <2>2. NewEnable(g, t) \in {"enabled", "disabled", "recover"}
    BY <1>3, <2>1 DEF NewEnable
  <2> QED BY <1>1, <2>1, <2>2
<1>17. orders' \in 0 .. MaxOrders
  BY <1>1, <1>2 DEF AdlTypeOK
<1>18. AdlTypeOK' /\ TwinInv' /\ TuningInv'
  <2>1. \A h \in Gpus : SpeedsInOrder(ga[h]) => SpeedsInOrder(ga'[h])
    BY <1>10, <1>13, <1>15
  <2> QED BY <1>1, <1>11, <1>14, <1>15, <1>16, <1>17, <2>1, SettingsChange
<1>19. ChangedIsManaged'
  <2>1. \A h \in Gpus : ga[h].managed => ga'[h].managed
    BY <1>10, <1>13, <1>15
  <2>2. ASSUME NEW c \in DOMAIN real, fan'[c] # fan[c]
        PROVE  adl_active /\ \E h \in Gpus : adapter[h] = c /\ ga'[h].managed
    <3>1. changed /\ c = adapter[f] /\ adl_active /\ real[adapter[f]].fan /\ f \in Gpus
      BY <1>9, <1>11, <2>2
    <3> QED BY <1>10, <1>13, <1>15, <3>1
  <2>3. ASSUME NEW c \in DOMAIN real, clock'[c] # clock[c]
        PROVE  adl_active /\ \E h \in Gpus : adapter[h] = c /\ ga'[h].managed
    <3>1. sets /\ c = adapter[g] /\ adl_active
      BY <1>14, <2>3
    <3> QED BY <1>3, <1>13, <1>15, <3>1
  <2> QED BY <1>1, <2>1, <2>2, <2>3, ManagedChange
<1> QED BY <1>18, <1>19 DEF AdlInv

LEMMA AdlSteps == AdlInv /\ [AdlNext]_adlVars => AdlInv'
<1> SUFFICES ASSUME AdlInv, [AdlNext]_adlVars PROVE AdlInv'
  OBVIOUS
<1>1. ASSUME NEW c \in DOMAIN real, IdleChanges(c) \/ \E t \in Temps : TempChanges(c, t)
      PROVE  AdlInv'
  BY <1>1, HardwareStep
<1>2. ASSUME NEW g \in Gpus, Sense(g) PROVE AdlInv'
  BY <1>2, SenseStep
<1>3. ASSUME NEW g \in Gpus, FanLost(g) PROVE AdlInv'
  BY <1>3, FanLostStep
<1>4. ASSUME NEW g \in Gpus, ToggleFan(g) \/ ToggleEngine(g) PROVE AdlInv'
  BY <1>4, ToggleStep
<1>5. ASSUME NEW g \in Gpus, NEW p \in FanOrders, OrderFan(g, p) PROVE AdlInv'
  BY <1>5, OrderFanStep
<1>6. ASSUME NEW g \in Gpus, NEW s \in ClockOrders, OrderClock(g, s) PROVE AdlInv'
  BY <1>6, OrderClockStep
<1>7. CASE UNCHANGED adlVars
  <2>1. UNCHANGED <<real, gpumap, adl_active, adapter, twin, has_fanspeed, deven, ga,
                    fan, clock, temp, idle, tuning, orders>>
    BY <1>7 DEF adlVars
  <2> QED BY <2>1 DEF AdlInv, AdlTypeOK, TwinInv, TuningInv, ChangedIsManaged
<1> QED BY <1>1, <1>2, <1>3, <1>4, <1>5, <1>6, <1>7, TuneStep, ClearAdlStep DEF AdlNext

(* clear_adl: when the control has ended, with nothing half done, every    *)
(* card is as the program found it, however often the watchdog, the API    *)
(* and the console changed fans and clocks, and whichever of two twins     *)
(* they changed them through.                                              *)
THEOREM CardsAreRestored == AdlSpec => []RestoredAtExit
<1>1. AdlInv => RestoredAtExit
  BY DEF AdlInv, ChangedIsManaged, RestoredAtExit
<1> QED BY <1>1, AdlInitially, AdlSteps, PTL DEF AdlSpec

(* The types of the control of fans and clocks: among them that the range  *)
(* of a GPU's clock is never empty if it was not at first, and that a fan  *)
(* is never asked for more than 100 % or less than nothing.                *)
THEOREM AdlTypes == AdlSpec => []AdlTypeOK
<1>1. AdlInv => AdlTypeOK
  BY DEF AdlInv
<1> QED BY <1>1, AdlInitially, AdlSteps, PTL DEF AdlSpec

----------------------------------------------------------------------------
(* The pad buffers: how the groups of work items are divided among them.   *)

\* What each buffer leaves to the next ones, as a function of how many came before.
IsLeft(f, n, b, most) ==
  f = [i \in 0..b |-> IF i = 0 THEN n ELSE f[i - 1] - Share(f[i - 1], i, b, most)]

LEMMA LeftIs ==
  ASSUME NEW n \in Nat, NEW b \in 0..5, NEW most \in Nat
  PROVE  IsLeft(Left(n, b, most), n, b, most)
<1> DEFINE a1 == n - Share(n, 1, b, most)
           a2 == a1 - Share(a1, 2, b, most)
           a3 == a2 - Share(a2, 3, b, most)
           a4 == a3 - Share(a3, 4, b, most)
           a5 == a4 - Share(a4, 5, b, most)
           g == [i \in 0..b |-> IF i = 0 THEN n ELSE IF i = 1 THEN a1 ELSE IF i = 2 THEN a2
                                ELSE IF i = 3 THEN a3 ELSE IF i = 4 THEN a4 ELSE a5]
           h == [i \in 0..b |-> IF i = 0 THEN n ELSE g[i - 1] - Share(g[i - 1], i, b, most)]
<1>1. ASSUME NEW i \in 0..b PROVE g[i] = h[i]
  <2>0. i \in {0, 1, 2, 3, 4, 5} /\ (i # 0 => i - 1 \in 0..b)
    OBVIOUS
  <2>1. CASE i = 0
    BY <2>0, <2>1
  <2>2. CASE i = 1
    <3>1. g[0] = n /\ g[1] = a1 /\ h[1] = g[0] - Share(g[0], 1, b, most)
      BY <2>0, <2>2
    <3> HIDE DEF g, h
    <3> QED BY <3>1, <2>2 DEF a1
  <2>3. CASE i = 2
    <3>1. g[1] = a1 /\ g[2] = a2 /\ h[2] = g[1] - Share(g[1], 2, b, most)
      BY <2>0, <2>3
    <3> HIDE DEF g, h
    <3> QED BY <3>1, <2>3
  <2>4. CASE i = 3
    <3>1. g[2] = a2 /\ g[3] = a3 /\ h[3] = g[2] - Share(g[2], 3, b, most)
      BY <2>0, <2>4
    <3> HIDE DEF g, h
    <3> QED BY <3>1, <2>4
  <2>5. CASE i = 4
    <3>1. g[3] = a3 /\ g[4] = a4 /\ h[4] = g[3] - Share(g[3], 4, b, most)
      BY <2>0, <2>5
    <3> HIDE DEF g, h
    <3> QED BY <3>1, <2>5
  <2>6. CASE i = 5
    <3>1. g[4] = a4 /\ g[5] = a5 /\ h[5] = g[4] - Share(g[4], 5, b, most)
      BY <2>0, <2>6
    <3> HIDE DEF g, h
    <3> QED BY <3>1, <2>6
  <2> QED BY <2>0, <2>1, <2>2, <2>3, <2>4, <2>5, <2>6
<1>2. g = h
  <2>1. DOMAIN g = 0..b /\ DOMAIN h = 0..b
    OBVIOUS
  <2> QED BY <1>1
<1>3. IsLeft(g, n, b, most)
  BY <1>2, Zenon DEF IsLeft
<1> HIDE DEF g, h
<1>4. Left(n, b, most) = CHOOSE f : IsLeft(f, n, b, most)
  BY DEF Left, IsLeft
<1> QED BY <1>3, <1>4

\* What a buffer takes is no more than there is, and than one may take.
LEMMA ShareBounds ==
  ASSUME NEW left \in Nat, NEW b \in 0..5, NEW i \in 1..b, NEW most \in Nat
  PROVE  /\ Share(left, i, b, most) \in Nat
         /\ Share(left, i, b, most) <= left /\ Share(left, i, b, most) <= most
<1> DEFINE c == Ceiling(left, b - i + 1)
<1>1. c \in Nat /\ c <= left
  <2>0. b - i + 1 \in {1, 2, 3, 4, 5}
    OBVIOUS
  <2>1. CASE b - i + 1 = 1
    BY <2>1 DEF Ceiling
  <2>2. CASE b - i + 1 = 2
    BY <2>2 DEF Ceiling
  <2>3. CASE b - i + 1 = 3
    BY <2>3 DEF Ceiling
  <2>4. CASE b - i + 1 = 4
    BY <2>4 DEF Ceiling
  <2>5. CASE b - i + 1 = 5
    BY <2>5 DEF Ceiling
  <2> QED BY <2>0, <2>1, <2>2, <2>3, <2>4, <2>5
<1> HIDE DEF c
<1>2. Share(left, i, b, most) = Least(c, most)
  BY DEF Share, c
<1> QED BY <1>1, <1>2 DEF Least

\* What is left after each buffer.
Leaves(f, n, b, most) ==
  /\ f \in [0..b -> Nat] /\ f[0] = n
  /\ \A i \in 1..b : f[i] = f[i - 1] - Share(f[i - 1], i, b, most)
LEMMA LeftLeaves ==
  ASSUME NEW n \in Nat, NEW b \in 0..5, NEW most \in Nat
  PROVE  Leaves(Left(n, b, most), n, b, most)
<1> DEFINE f == Left(n, b, most)
<1>1. IsLeft(f, n, b, most)
  BY LeftIs
<1> HIDE DEF f
<1>2. f[0] = n /\ DOMAIN f = 0..b /\ \A i \in 1..b : f[i] = f[i - 1] - Share(f[i - 1], i, b, most)
  <2>1. DOMAIN f = 0..b /\ \A i \in 0..b : f[i] = IF i = 0 THEN n ELSE f[i - 1] - Share(f[i - 1], i, b, most)
    BY <1>1 DEF IsLeft
  <2> QED BY <2>1
<1>3. ASSUME NEW i \in 1..b, f[i - 1] \in Nat PROVE f[i] \in Nat
  <2>1. f[i] = f[i - 1] - Share(f[i - 1], i, b, most)
    BY <1>2
  <2>2. /\ Share(f[i - 1], i, b, most) \in Nat
        /\ Share(f[i - 1], i, b, most) <= f[i - 1]
    BY <1>3, ShareBounds
  <2> QED BY <1>3, <2>1, <2>2
<1>4. f[0] \in Nat /\ (b >= 1 => f[1] \in Nat)
  BY <1>2, <1>3
<1>5. b >= 2 => f[2] \in Nat
  BY <1>4, <1>3
<1>6. b >= 3 => f[3] \in Nat
  BY <1>5, <1>3
<1>7. b >= 4 => f[4] \in Nat
  BY <1>6, <1>3
<1>8. b >= 5 => f[5] \in Nat
  BY <1>7, <1>3
<1>9. \A i \in 0..b : f[i] \in Nat
  <2> SUFFICES ASSUME NEW i \in 0..b PROVE f[i] \in Nat
    OBVIOUS
  <2>1. i \in {0, 1, 2, 3, 4, 5}
    OBVIOUS
  <2> QED BY <1>4, <1>5, <1>6, <1>7, <1>8, <2>1
<1>10. f = [i \in 0..b |-> f[i]]
  BY <1>1 DEF IsLeft
<1>11. f \in [0..b -> Nat]
  BY <1>9, <1>10
<1> QED BY <1>2, <1>11 DEF Leaves, f

\* The groups of each buffer: what is left before it, less what is left after it.
Divided(s, f, b, most) ==
  /\ s \in Seq(Nat) /\ Len(s) = b
  /\ \A i \in 1..b : s[i] <= most /\ f[i - 1] = f[i] + s[i]
LEMMA SpreadFacts ==
  ASSUME NEW n \in Nat, NEW b \in 0..5, NEW most \in Nat
  PROVE  Divided(Spread(n, b, most), Left(n, b, most), b, most)
<1> DEFINE s == Spread(n, b, most)
           f == Left(n, b, most)
<1>0. Leaves(f, n, b, most)
  BY LeftLeaves
<1>1. s = [i \in 1..b |-> Share(f[i - 1], i, b, most)]
  BY DEF Spread
<1> HIDE DEF s, f
<1>2. ASSUME NEW i \in 1..b
      PROVE  s[i] \in Nat /\ s[i] <= most /\ f[i - 1] = f[i] + s[i]
  <2>1. f[i - 1] \in Nat /\ f[i] \in Nat /\ f[i] = f[i - 1] - Share(f[i - 1], i, b, most)
    BY <1>0 DEF Leaves
  <2>2. s[i] = Share(f[i - 1], i, b, most)
    BY <1>1
  <2>3. s[i] \in Nat /\ s[i] <= most
    BY <2>1, <2>2, ShareBounds
  <2> QED BY <2>1, <2>2, <2>3
<1>3. s \in [1..b -> Nat]
  BY <1>1, <1>2
<1>4. s \in Seq(Nat) /\ Len(s) = b
  BY <1>3
<1> QED BY <1>2, <1>4 DEF Divided, s, f

\* Their sum.
IsSum(f, s) == f = [i \in 0..Len(s) |-> IF i = 0 THEN 0 ELSE f[i - 1] + s[i]]
LEMMA TotalOfSpread ==
  ASSUME NEW n \in Nat, NEW b \in 0..5, NEW most \in Nat
  PROVE  Total(Spread(n, b, most)) \in 0..n
<1> DEFINE left == Left(n, b, most)
           s == Spread(n, b, most)
           g == [i \in 0..b |-> n - left[i]]
           h == [i \in 0..b |-> IF i = 0 THEN 0 ELSE g[i - 1] + s[i]]
           f == CHOOSE f : IsSum(f, s)
<1>1. Leaves(left, n, b, most)
  BY LeftLeaves
<1>2. s \in Seq(Nat) /\ Len(s) = b /\ \A i \in 1..b : left[i - 1] = left[i] + s[i]
  BY SpreadFacts DEF Divided
<1>3. left \in [0..b -> Nat] /\ left[0] = n
  BY <1>1 DEF Leaves
<1>4. Total(s) = f[b]
  BY <1>2 DEF Total, IsSum
<1> HIDE DEF left, s
<1>5. ASSUME NEW i \in 0..b PROVE g[i] = h[i]
  <2>1. CASE i = 0
    BY <1>3, <2>1
  <2>2. CASE i # 0
    <3>1. i - 1 \in 0..b /\ i \in 1..b
      BY <2>2
    <3>2. left[i - 1] = left[i] + s[i] /\ left[i] \in Nat /\ left[i - 1] \in Nat /\ s[i] \in Nat
      BY <1>2, <1>3, <3>1
    <3>3. g[i] = n - left[i] /\ g[i - 1] = n - left[i - 1] /\ h[i] = g[i - 1] + s[i]
      BY <2>2, <3>1
    <3> HIDE DEF g, h
    <3> QED BY <3>2, <3>3
  <2> QED BY <2>1, <2>2
<1>6. g = h
  BY <1>5
<1>7. IsSum(g, s)
  BY <1>2, <1>6, Zenon DEF IsSum
<1> HIDE DEF g, h
<1>8. IsSum(f, s)
  BY <1>7
<1> HIDE DEF f
<1>9. f[0] = 0 /\ \A i \in 1..b : f[i] = f[i - 1] + s[i]
  <2>1. \A i \in 0..b : f[i] = IF i = 0 THEN 0 ELSE f[i - 1] + s[i]
    BY <1>2, <1>8 DEF IsSum
  <2> QED BY <2>1
<1>10. ASSUME NEW i \in 1..b, f[i - 1] = n - left[i - 1] PROVE f[i] = n - left[i]
  <2>1. left[i - 1] = left[i] + s[i] /\ left[i] \in Nat /\ left[i - 1] \in Nat /\ s[i] \in Nat
    BY <1>2, <1>3
  <2> QED BY <1>9, <1>10, <2>1
<1>11. f[0] = n - left[0] /\ (b >= 1 => f[1] = n - left[1])
  BY <1>3, <1>9, <1>10
<1>12. b >= 2 => f[2] = n - left[2]
  BY <1>10, <1>11
<1>13. b >= 3 => f[3] = n - left[3]
  BY <1>10, <1>12
<1>14. b >= 4 => f[4] = n - left[4]
  BY <1>10, <1>13
<1>15. b >= 5 => f[5] = n - left[5]
  BY <1>10, <1>14
<1>16. f[b] = n - left[b]
  <2>1. b \in {0, 1, 2, 3, 4, 5}
    OBVIOUS
  <2> QED BY <1>11, <1>12, <1>13, <1>14, <1>15, <2>1
<1>17. f[b] \in Int /\ f[b] >= 0 /\ f[b] <= n
  <2>1. \A i \in 1..b : left[i] <= left[i - 1] /\ left[i] \in Nat /\ left[i - 1] \in Nat
    BY <1>2, <1>3
  <2>2. left[b] <= n /\ left[b] \in Nat
    <3>1. b \in {0, 1, 2, 3, 4, 5}
      OBVIOUS
    <3> QED BY <1>3, <2>1, <3>1
  <2> QED BY <1>16, <2>2
<1> QED BY <1>4, <1>17 DEF s

----------------------------------------------------------------------------
(* What initCl accepts *)
LayoutRec == [tc: Nat, vram: Seq(Nat), ram: Seq(Nat)]

\* What is left of the card for each of the buffers in it, and for the others.
Rooms(f, l, c) ==
  /\ f \in [0..Len(l.vram) -> Nat]
  /\ f[0] + OtherSize <= c.global_mem_size
  /\ \A i \in 1..Len(l.vram) : l.vram[i] * GroupSize \in Nat /\ f[i - 1] = f[i] + l.vram[i] * GroupSize
Fits(l, c) ==
  /\ l \in LayoutRec /\ Len(l.vram) \in 0..MaxVramBuffers /\ Len(l.ram) \in 0..MaxRamBuffers
  /\ \A i \in 1..Len(l.vram) : l.vram[i] * GroupSize <= c.max_alloc
  /\ \E f : Rooms(f, l, c)

LEMMA QuotientFits ==
  ASSUME NEW a \in Nat, NEW g \in Nat \ {0}, NEW n \in Nat, n <= a \div g
  PROVE  n * g \in Nat /\ n * g <= a
<1> DEFINE q == a \div g
<1>1. q \in Nat /\ g * q <= a
  <2> DEFINE m == a % g
  <2>1. a = g * q + m /\ m \in 0..g - 1
    OBVIOUS
  <2>2. q \in Nat /\ g * q \in Nat
    OBVIOUS
  <2> HIDE DEF m, q
  <2> QED BY <2>1, <2>2
<1> HIDE DEF q
<1>2. PICK k \in Nat : q = n + k
  <2>1. n <= q
    BY DEF q
  <2>2. q - n \in Nat /\ q = n + (q - n)
    BY <1>1, <2>1
  <2> QED BY <2>2
<1>3. q * g = n * g + k * g /\ n * g \in Nat /\ k * g \in Nat
  <2>1. n * g \in Nat /\ k * g \in Nat
    BY ProductNat
  <2>2. (n + k) * g = n * g + k * g
    BY Distributes
  <2> QED BY <1>2, <2>1, <2>2
<1>4. q * g = g * q
  BY <1>1
<1> QED BY <1>1, <1>3, <1>4
LEMMA QuotientNat ==
  ASSUME NEW a \in Nat, NEW g \in Nat \ {0} PROVE a \div g \in Nat
  OBVIOUS
LEMMA CeilingNat ==
  ASSUME NEW a \in Nat, NEW g \in Nat \ {0} PROVE Ceiling(a, g) \in Nat
<1>1. a + g - 1 \in Nat
  OBVIOUS
<1> QED BY <1>1, QuotientNat DEF Ceiling

\* Buffers for so many groups, or fewer.
BuffersFit(v, c, need) ==
  /\ v \in Seq(Nat) /\ Len(v) \in 0..5
  /\ \A i \in 1..Len(v) : v[i] * GroupSize <= c.max_alloc
  /\ Total(v) \in 0..need
  /\ \A l : l.vram = v => \E f : Rooms(f, l, c)
LEMMA VramFits ==
  ASSUME NEW c \in Cards, NEW need \in Nat, NEW remaining \in Nat,
         need <= remaining \div GroupSize,
         remaining # 0 => remaining + OtherSize <= c.global_mem_size
  PROVE  BuffersFit(VramGroups(c, need, remaining), c, need)
<1> DEFINE v == VramGroups(c, need, remaining)
           most == c.max_alloc \div GroupSize
<1>0. /\ GroupSize \in Nat \ {0} /\ OtherSize \in Nat
      /\ c.max_alloc \in Nat /\ c.global_mem_size \in Nat /\ c.global_mem_size >= OtherSize
  BY InitClAssumption
<1>1. most \in Nat
  BY <1>0, QuotientNat
<1>2. CASE ~(remaining > c.max_alloc /\ need > 0 /\ most > 0)
  <2>1. v = <<>>
    BY <1>2 DEF VramGroups
  <2> HIDE DEF v
  <2>2. v \in Seq(Nat) /\ Len(v) = 0
    BY <2>1
  <2>3. Total(v) = 0
    <3> DEFINE g == [i \in 0..0 |-> 0]
               f == CHOOSE f : IsSum(f, v)
    <3>1. Total(v) = f[0]
      BY <2>2 DEF Total, IsSum
    <3>2. g = [i \in 0..Len(v) |-> IF i = 0 THEN 0 ELSE g[i - 1] + v[i]]
      BY <2>2
    <3> HIDE DEF g
    <3>3. IsSum(g, v)
      BY <3>2, Zenon DEF IsSum
    <3>4. IsSum(f, v)
      BY <3>3
    <3> HIDE DEF f
    <3>5. f[0] = 0
      BY <2>2, <3>4 DEF IsSum
    <3> QED BY <3>1, <3>5
  <2>4. ASSUME NEW l, l.vram = v PROVE \E f : Rooms(f, l, c)
    <3> DEFINE f == [i \in 0..0 |-> 0]
    <3>1. Rooms(f, l, c)
      BY <1>0, <2>2, <2>4 DEF Rooms
    <3> QED BY <3>1
  <2> QED BY <2>2, <2>3, <2>4 DEF v, BuffersFit
<1>3. CASE remaining > c.max_alloc /\ need > 0 /\ most > 0
  <2> DEFINE b == Least(Ceiling(need, most), MaxVramBuffers)
             left == Left(need, b, most)
  <2>1. b \in 0..5
    <3>1. Ceiling(need, most) \in Nat
      BY <1>1, <1>3, CeilingNat
    <3> QED BY <3>1 DEF Least, MaxVramBuffers
  <2>2. v = Spread(need, b, most)
    BY <1>3 DEF VramGroups
  <2> HIDE DEF v, b, most, left
  <2>3. Leaves(left, need, b, most)
    BY <1>1, <2>1, LeftLeaves DEF left
  <2>4. /\ v \in Seq(Nat) /\ Len(v) = b
        /\ \A i \in 1..b : v[i] <= most /\ left[i - 1] = left[i] + v[i]
    <3>1. Divided(v, left, b, most)
      BY <1>1, <2>1, <2>2, SpreadFacts DEF left
    <3> QED BY <3>1 DEF Divided
  <2>5. Total(v) \in 0..need
    BY <1>1, <2>1, <2>2, TotalOfSpread
  <2>6. ASSUME NEW i \in 1..b PROVE v[i] * GroupSize \in Nat /\ v[i] * GroupSize <= c.max_alloc
    <3>1. v[i] \in Nat /\ v[i] <= c.max_alloc \div GroupSize
      BY <2>4 DEF most
    <3> QED BY <1>0, <3>1, QuotientFits
  <2>7. ASSUME NEW l, l.vram = v PROVE \E f : Rooms(f, l, c)
    <3> DEFINE f == [i \in 0..b |-> left[i] * GroupSize]
    <3>1. left \in [0..b -> Nat] /\ left[0] = need
      BY <2>3 DEF Leaves
    <3>2. f \in [0..b -> Nat]
      <4>1. \A i \in 0..b : left[i] * GroupSize \in Nat
        BY <1>0, <3>1, ProductNat
      <4> QED BY <4>1
    <3>3. f[0] + OtherSize <= c.global_mem_size
      <4>1. f[0] = need * GroupSize
        BY <2>1, <3>1
      <4>2. need * GroupSize \in Nat /\ need * GroupSize <= remaining
        BY <1>0, QuotientFits
      <4>3. remaining # 0
        BY <1>0, <1>3
      <4> HIDE DEF f
      <4> QED BY <1>0, <4>1, <4>2, <4>3
    <3>4. ASSUME NEW i \in 1..b
          PROVE  v[i] * GroupSize \in Nat /\ f[i - 1] = f[i] + v[i] * GroupSize
      <4>1. left[i] \in Nat /\ v[i] \in Nat /\ left[i - 1] = left[i] + v[i] /\ i \in 0..b /\ i - 1 \in 0..b
        BY <2>4, <3>1
      <4>2. (left[i] + v[i]) * GroupSize = left[i] * GroupSize + v[i] * GroupSize
        BY <1>0, <4>1, Distributes
      <4>3. f[i - 1] = left[i - 1] * GroupSize /\ f[i] = left[i] * GroupSize
        BY <4>1
      <4> HIDE DEF f
      <4> QED BY <2>6, <4>1, <4>2, <4>3
    <3> HIDE DEF f
    <3>5. Rooms(f, l, c)
      BY <2>4, <2>7, <3>2, <3>3, <3>4 DEF Rooms
    <3> QED BY <3>5
  <2> QED BY <2>1, <2>4, <2>5, <2>6, <2>7 DEF v, BuffersFit
<1> QED BY <1>2, <1>3

LEMMA RemainingFits ==
  ASSUME NEW c \in Cards, NEW o \in Options
  PROVE  /\ RemainingVram(c, o) \in Nat
         /\ RemainingVram(c, o) # 0 => RemainingVram(c, o) + OtherSize <= c.global_mem_size
<1> DEFINE reserve == IF o.reserve_vram > 0 THEN o.reserve_vram ELSE IF c.amd THEN 0 ELSE DefaultReserve
           reserved == reserve + OtherSize
<1>1. c.global_mem_size \in Nat /\ OtherSize \in Nat /\ reserve \in Nat
  BY InitClAssumption
<1>2. RemainingVram(c, o) = IF c.global_mem_size > reserved THEN c.global_mem_size - reserved ELSE 0
  BY DEF RemainingVram
<1> HIDE DEF reserve
<1> QED BY <1>1, <1>2

LEMMA RamFits ==
  ASSUME NEW c \in Cards, NEW o \in Options, NEW need \in Nat
  PROVE  RamGroups(c, o, need) \in Seq(Nat) /\ Len(RamGroups(c, o, need)) \in 0..2
<1> DEFINE most == IF o.limit_ram THEN c.max_alloc \div GroupSize ELSE need
           b == Least(Ceiling(need, most), MaxRamBuffers)
<1>1. most \in Nat
  <2>1. c.max_alloc \in Nat /\ GroupSize \in Nat \ {0}
    BY InitClAssumption
  <2> QED BY <2>1, QuotientNat
<1>2. RamGroups(c, o, need) = IF need = 0 \/ most = 0 THEN <<>> ELSE Spread(need, b, most)
  BY DEF RamGroups
<1> HIDE DEF most
<1>3. CASE need # 0 /\ most # 0
  <2>1. Ceiling(need, most) \in Nat
    BY <1>1, <1>3, CeilingNat
  <2>2. b \in 0..2 /\ b \in 0..5
    BY <2>1 DEF Least, MaxRamBuffers
  <2> HIDE DEF b
  <2>3. Divided(Spread(need, b, most), Left(need, b, most), b, most)
    BY <1>1, <2>2, SpreadFacts
  <2> QED BY <1>2, <1>3, <2>2, <2>3 DEF Divided
<1> QED BY <1>2, <1>3

LEMMA LayoutFits ==
  ASSUME NEW c \in Cards, NEW o \in Options, NEW available \in Nat,
         LayoutAccepted(c, o, available, Layout(c, o, available))
  PROVE  /\ Fits(Layout(c, o, available), c)
         /\ Total(Layout(c, o, available).vram) + Total(Layout(c, o, available).ram)
              = Layout(c, o, available).tc
<1> DEFINE remaining == RemainingVram(c, o)
           groups == IF o.tc = 0 THEN remaining \div GroupSize + available \div GroupSize ELSE o.tc
           need == Least(groups, remaining \div GroupSize)
           v == VramGroups(c, need, remaining)
           r == IF available > 0 THEN RamGroups(c, o, groups - Total(v)) ELSE <<>>
           l == Layout(c, o, available)
<1>1. l = [tc |-> groups, vram |-> v, ram |-> r]
  BY DEF Layout
<1>2. /\ remaining \in Nat
      /\ remaining # 0 => remaining + OtherSize <= c.global_mem_size
  BY RemainingFits
<1> HIDE DEF remaining
<1>3. remaining \div GroupSize \in Nat /\ available \div GroupSize \in Nat /\ o.tc \in Nat
  <2>1. GroupSize \in Nat \ {0} /\ o.tc \in Nat
    BY InitClAssumption
  <2>2. remaining \in Nat
    BY <1>2
  <2> QED BY <2>1, <2>2, QuotientNat
<1>4. groups \in Nat
  BY <1>3
<1> HIDE DEF groups
<1>5. need \in Nat /\ need <= groups /\ need <= remaining \div GroupSize
  BY <1>3, <1>4 DEF Least
<1> HIDE DEF need
<1>a. BuffersFit(v, c, need)
  BY <1>2, <1>5, VramFits
<1> HIDE DEF v
<1>6. /\ v \in Seq(Nat) /\ Len(v) \in 0..5
      /\ \A i \in 1..Len(v) : v[i] * GroupSize <= c.max_alloc
      /\ Total(v) \in 0..need
      /\ \A k : k.vram = v => \E f : Rooms(f, k, c)
  BY <1>a DEF BuffersFit
<1>7. groups - Total(v) \in Nat
  BY <1>4, <1>5, <1>6
<1>8. r \in Seq(Nat) /\ Len(r) \in 0..2
  <2>1. RamGroups(c, o, groups - Total(v)) \in Seq(Nat) /\ Len(RamGroups(c, o, groups - Total(v))) \in 0..2
    BY <1>7, RamFits
  <2> QED BY <2>1
<1> HIDE DEF r, l
<1>9. \E f : Rooms(f, l, c)
  BY <1>1, <1>6
<1>10. l \in LayoutRec /\ l.vram = v /\ l.ram = r
  BY <1>1, <1>4, <1>6, <1>8 DEF LayoutRec
<1>11. Fits(l, c)
  BY <1>6, <1>8, <1>9, <1>10 DEF Fits, MaxVramBuffers, MaxRamBuffers
<1>12. Total(l.vram) + Total(l.ram) = l.tc
  BY DEF LayoutAccepted, l
<1> QED BY <1>11, <1>12 DEF l

----------------------------------------------------------------------------
(* The steps *)

Named == {"open", "build", "save", "kernels", "pads", "others", "ready"}
HeldRec == [vram: 0..MaxVramBuffers, ram: 0..MaxRamBuffers, memory: Nat]
InitTypes ==
  /\ InitTypeOK
  /\ DOMAIN layout.vram = 1..Len(layout.vram)
  /\ \A f \in DOMAIN disk : disk[f].of \in LayoutRec
Divides ==
  step \in Named => Fits(layout, card) /\ Total(layout.vram) + Total(layout.ram) = layout.tc
HoldsPads ==
  /\ step \in {"idle", "detect", "device", "layout", "open", "build", "save", "kernels"} => held = Free
  /\ step = "pads" =>
       /\ held.vram <= Len(layout.vram) /\ held.ram <= Len(layout.ram)
       /\ \E f : Rooms(f, layout, card) /\ held.memory = f[0] - f[held.vram]
  /\ step \in {"others", "ready"} => held.vram = Len(layout.vram) /\ held.ram = Len(layout.ram)
  /\ step = "others" => held.memory + OtherSize <= card.global_mem_size
  /\ step = "ready" => held.memory - TempBuffers(option, layout) <= card.global_mem_size
InitClInv == InitTypes /\ Divides /\ HoldsPads

LEMMA TempIsNat ==
  ASSUME NEW o \in Options, NEW l \in LayoutRec PROVE TempBuffers(o, l) \in Nat
<1>1. TempSize \in Nat /\ 2 * TempSize \in Nat /\ l.tc \in Nat
  BY InitClAssumption DEF LayoutRec
<1>2. 2 * TempSize * l.tc \in Nat
  BY <1>1, ProductNat
<1> QED BY <1>2 DEF TempBuffers

LEMMA InitClInitially == InitClInit => InitClInv
<1> SUFFICES ASSUME InitClInit PROVE InitClInv
  OBVIOUS
<1>1. card \in Cards /\ option \in Options /\ ram \in Rams
  BY InitClAssumption, Zenon DEF InitClInit
<1>2. NoLayout \in LayoutRec /\ NoLayout.vram = <<>>
  BY DEF NoLayout, LayoutRec
<1>3. Free \in HeldRec
  BY DEF Free, HeldRec, MaxVramBuffers, MaxRamBuffers
<1>4. InitTypes
  BY <1>1, <1>2, <1>3, InitClAssumption
     DEF InitTypes, InitTypeOK, InitSteps, InitClInit, LayoutRec, HeldRec
<1> QED BY <1>4 DEF InitClInv, InitClInit, Divides, HoldsPads, Named

LEMMA ConfigureSteps ==
  ASSUME InitClInv, Configure PROVE InitClInv'
<1> DEFINE available == IF option.use_system_ram THEN AvailableRam(ram, option.reserve_ram) ELSE 0
           l == Layout(card, option, available)
<1>1. available \in Nat
  <2>1. ram \in Nat /\ option.reserve_ram \in Nat /\ NumEnabled \in Nat \ {0}
    BY InitClAssumption DEF InitClInv, InitTypes, InitTypeOK
  <2>2. (IF ram > option.reserve_ram THEN ram - option.reserve_ram ELSE 0) \in Nat
    BY <2>1
  <2>3. AvailableRam(ram, option.reserve_ram) \in Nat
    BY <2>1, <2>2, QuotientNat DEF AvailableRam
  <2> QED BY <2>3
<1>2. /\ step = "layout"
      /\ IF LayoutAccepted(card, option, available, l)
         THEN layout' = l /\ step' = "open"
         ELSE layout' = NoLayout /\ step' = "failed"
      /\ UNCHANGED <<card, option, ram, program, held, disk, starts>>
  BY DEF Configure
<1>3. card \in Cards /\ option \in Options
  BY DEF InitClInv, InitTypes, InitTypeOK
<1> HIDE DEF available
<1>4. CASE LayoutAccepted(card, option, available, l)
  <2>1. Fits(l, card) /\ Total(l.vram) + Total(l.ram) = l.tc
    BY <1>1, <1>3, <1>4, LayoutFits
  <2> HIDE DEF l
  <2>2. layout' \in LayoutRec /\ DOMAIN layout'.vram = 1..Len(layout'.vram)
    BY <1>2, <1>4, <2>1 DEF Fits, LayoutRec
  <2>3. InitTypes'
    BY <1>2, <1>4, <2>2 DEF InitClInv, InitTypes, InitTypeOK, InitSteps, LayoutRec
  <2>4. Divides'
    BY <1>2, <1>4, <2>1 DEF Divides, Fits, Rooms
  <2>5. HoldsPads'
    BY <1>2, <1>4 DEF InitClInv, HoldsPads
  <2> QED BY <2>3, <2>4, <2>5 DEF InitClInv
<1>5. CASE ~LayoutAccepted(card, option, available, l)
  <2> HIDE DEF l
  <2>1. layout' \in LayoutRec /\ DOMAIN layout'.vram = 1..Len(layout'.vram)
    <3>1. NoLayout \in LayoutRec /\ DOMAIN NoLayout.vram = 1..Len(NoLayout.vram)
      BY DEF NoLayout, LayoutRec
    <3> QED BY <1>2, <1>5, <3>1
  <2>2. InitTypes'
    BY <1>2, <1>5, <2>1 DEF InitClInv, InitTypes, InitTypeOK, InitSteps, LayoutRec
  <2> QED BY <1>2, <1>5, <2>2 DEF InitClInv, Divides, HoldsPads, Named
<1> QED BY <1>4, <1>5

\* The pads in the memory of the card, one by one.
LEMMA CreatePadSteps ==
  ASSUME InitClInv, CreatePad PROVE InitClInv'
<1>1. /\ layout \in LayoutRec /\ held \in HeldRec /\ Fits(layout, card)
      /\ Len(layout.vram) \in Nat /\ Len(layout.ram) \in Nat /\ step = "pads"
      /\ layout' = layout /\ card' = card /\ option' = option
  BY DEF InitClInv, InitTypes, InitTypeOK, LayoutRec, HeldRec, Divides, Named, CreatePad, Fits, MaxVramBuffers, MaxRamBuffers
<1>2. PICK f : Rooms(f, layout, card) /\ held.memory = f[0] - f[held.vram]
  BY <1>1 DEF InitClInv, HoldsPads
<1>3. held.vram <= Len(layout.vram) /\ held.ram <= Len(layout.ram)
  BY <1>1 DEF InitClInv, HoldsPads
<1>4. Divides'
  <2>1. Divides
    BY DEF InitClInv
  <2>2. step' \in Named /\ step \in Named
    BY <1>1 DEF CreatePad, Named
  <2> QED BY <1>1, <2>1, <2>2 DEF Divides, Fits, Rooms
<1>5. CASE InVram /\ step' = step
           /\ held' = [held EXCEPT !.vram = @ + 1, !.memory = @ + layout.vram[held.vram + 1] * GroupSize]
  <2> DEFINE i == held.vram + 1
  <2>1. held.vram \in Nat /\ i \in 1..Len(layout.vram) /\ i - 1 = held.vram
    BY <1>1, <1>5 DEF InVram, HeldRec
  <2>2. /\ layout.vram[i] * GroupSize \in Nat
        /\ f[i - 1] = f[i] + layout.vram[i] * GroupSize
        /\ f[0] \in Nat /\ f[i] \in Nat /\ f[i - 1] \in Nat
    BY <1>1, <1>2, <2>1 DEF Rooms
  <2>3. held'.vram = i /\ held'.ram = held.ram /\ held'.memory = held.memory + layout.vram[i] * GroupSize
    BY <1>1, <1>5 DEF HeldRec
  <2>4. held'.memory = f[0] - f[held'.vram] /\ held'.memory \in Nat
    <3>1. held.memory = f[0] - f[i - 1] /\ held.memory \in Nat
      BY <1>1, <1>2, <2>1 DEF HeldRec
    <3>2. held'.memory = f[0] - f[i] /\ held'.memory \in Nat
      BY <2>2, <2>3, <3>1
    <3> QED BY <2>3, <3>2
  <2>5. held' \in HeldRec
    <3>1. i \in 0..MaxVramBuffers
      BY <1>1, <2>1 DEF Fits, MaxVramBuffers
    <3> QED BY <1>1, <1>5, <2>3, <2>4, <3>1 DEF HeldRec
  <2>6. InitTypes'
    BY <1>1, <1>5, <2>5 DEF InitClInv, InitTypes, InitTypeOK, CreatePad, HeldRec
  <2>7. Rooms(f, layout, card)'
    BY <1>1, <1>2 DEF Rooms
  <2> HIDE DEF i
  <2>8. HoldsPads'
    <3>1. i <= Len(layout.vram) /\ step' = "pads" /\ held'.ram <= Len(layout.ram)
      BY <1>1, <1>3, <1>5, <2>1, <2>3
    <3> QED BY <1>1, <2>3, <2>4, <2>7, <3>1 DEF HoldsPads
  <2> QED BY <1>4, <2>6, <2>8 DEF InitClInv
<1>6. CASE InRam /\ held' = [held EXCEPT !.ram = @ + 1] /\ step' = step
  <2>1. held'.vram = held.vram /\ held'.ram = held.ram + 1 /\ held'.memory = held.memory
    BY <1>1, <1>6 DEF HeldRec
  <2>2. held.ram \in Nat /\ held.ram + 1 <= Len(layout.ram)
    BY <1>1, <1>6 DEF InRam, HeldRec
  <2>3. held' \in HeldRec
    <3>1. held.ram + 1 \in 0..MaxRamBuffers
      <4>1. Len(layout.ram) \in 0..MaxRamBuffers
        BY <1>1 DEF Fits
      <4>2. \A n \in 0..2, a \in Nat : a + 1 <= n => a + 1 \in 0..2
        OBVIOUS
      <4> QED BY ONLY <2>2, <4>1, <4>2 DEF MaxRamBuffers
    <3> QED BY <1>1, <1>6, <3>1 DEF HeldRec
  <2>4. InitTypes'
    BY <1>1, <1>6, <2>3 DEF InitClInv, InitTypes, InitTypeOK, CreatePad, HeldRec
  <2>5. HoldsPads'
    BY <1>1, <1>2, <1>3, <1>6, <2>1, <2>2 DEF HoldsPads, Rooms
  <2> QED BY <1>4, <2>4, <2>5 DEF InitClInv
<1>7. CASE ~InVram /\ ~InRam /\ step' = "others" /\ held' = held
  <2>1. InitTypes'
    BY <1>1, <1>7 DEF InitClInv, InitTypes, InitTypeOK, InitSteps, CreatePad
  <2>2. held.vram = Len(layout.vram) /\ held.ram = Len(layout.ram)
    BY <1>1, <1>3, <1>7 DEF InVram, InRam, HeldRec
  <2>3. held.memory + OtherSize <= card.global_mem_size
    <3>1. f[0] \in Nat /\ f[held.vram] \in Nat /\ f[0] + OtherSize <= card.global_mem_size
      BY <1>1, <1>2, <2>2 DEF Rooms
    <3>2. OtherSize \in Nat /\ card.global_mem_size \in Nat
      BY InitClAssumption DEF InitClInv, InitTypes, InitTypeOK
    <3> QED BY <1>2, <3>1, <3>2
  <2>4. HoldsPads'
    BY <1>1, <1>7, <2>2, <2>3 DEF HoldsPads
  <2> QED BY <1>4, <2>1, <2>4 DEF InitClInv
<1> QED BY <1>5, <1>6, <1>7 DEF CreatePad

LEMMA CreateOthersSteps ==
  ASSUME InitClInv, CreateOthers PROVE InitClInv'
<1>1. /\ layout \in LayoutRec /\ held \in HeldRec /\ option \in Options
      /\ step = "others" /\ layout' = layout /\ card' = card /\ option' = option
  BY DEF InitClInv, InitTypes, InitTypeOK, LayoutRec, HeldRec, CreateOthers
<1>2. TempBuffers(option, layout) \in Nat /\ OtherSize \in Nat /\ card.global_mem_size \in Nat /\ held.memory \in Nat
  BY <1>1, TempIsNat, InitClAssumption DEF InitClInv, InitTypes, InitTypeOK, HeldRec
<1>3. Divides'
  <2>1. Divides /\ step \in Named
    BY <1>1 DEF InitClInv, Named
  <2> QED BY <1>1, <2>1 DEF Divides, Fits, Rooms
<1>4. CASE step' = "ready" /\ held' = [held EXCEPT !.memory = @ + OtherSize + TempBuffers(option, layout)]
  <2>1. /\ held'.vram = held.vram /\ held'.ram = held.ram
        /\ held'.memory = held.memory + OtherSize + TempBuffers(option, layout)
    BY <1>1, <1>4 DEF HeldRec
  <2>2. held' \in HeldRec
    BY <1>1, <1>2, <1>4, <2>1 DEF HeldRec
  <2>3. InitTypes'
    BY <1>1, <1>4, <2>2 DEF InitClInv, InitTypes, InitTypeOK, InitSteps, CreateOthers, HeldRec
  <2>4. TempBuffers(option, layout)' = TempBuffers(option, layout)
    BY <1>1 DEF TempBuffers
  <2>5. held.memory + OtherSize <= card.global_mem_size
    BY <1>1 DEF InitClInv, HoldsPads
  <2>6. held'.memory - TempBuffers(option, layout) <= card.global_mem_size
    BY <1>2, <2>1, <2>5
  <2>7. HoldsPads'
    BY <1>1, <1>4, <2>1, <2>4, <2>6 DEF InitClInv, HoldsPads
  <2> QED BY <1>3, <2>3, <2>7 DEF InitClInv
<1>5. CASE step' = "failed" /\ held' = held
  <2>1. InitTypes'
    BY <1>1, <1>5 DEF InitClInv, InitTypes, InitTypeOK, InitSteps, CreateOthers
  <2> QED BY <1>3, <1>5, <2>1 DEF InitClInv, HoldsPads
<1> QED BY <1>4, <1>5 DEF CreateOthers

LEMMA PadFailsSteps ==
  ASSUME InitClInv, PadFails PROVE InitClInv'
<1>1. held \in HeldRec /\ step' \in {"failed", "quit"} /\ UNCHANGED <<card, option, ram, layout, program, disk, starts>>
  BY DEF InitClInv, InitTypes, InitTypeOK, HeldRec, PadFails
<1>2. held' \in HeldRec
  <2>1. held' = [held EXCEPT !.vram = 0, !.ram = 0, !.memory = 0]
    BY DEF PadFails
  <2>2. held' = [vram |-> 0, ram |-> 0, memory |-> 0]
    BY <1>1, <2>1 DEF HeldRec
  <2> QED BY <2>2 DEF HeldRec, MaxVramBuffers, MaxRamBuffers
<1>3. InitTypes'
  BY <1>1, <1>2 DEF InitClInv, InitTypes, InitTypeOK, InitSteps, HeldRec
<1> QED BY <1>1, <1>3 DEF InitClInv, Divides, HoldsPads, Named

LEMMA OpenBinarySteps ==
  ASSUME InitClInv, OpenBinary PROVE InitClInv'
<1> DEFINE found == OnDisk(FileName(layout))
<1>1. /\ step = "open" /\ UNCHANGED <<card, option, ram, layout, held, disk, starts>>
      /\ step' \in {"kernels", "build"} /\ program' \in {program, found.of}
  BY DEF OpenBinary
<1>2. found.of \in LayoutRec
  BY DEF OnDisk, NoFile, NoLayout, LayoutRec, InitClInv, InitTypes
<1> HIDE DEF found
<1>3. InitTypes'
  BY <1>1, <1>2 DEF InitClInv, InitTypes, InitTypeOK, InitSteps, LayoutRec
<1> QED BY <1>1, <1>3 DEF InitClInv, Divides, HoldsPads, Named, Fits, Rooms

LEMMA SaveSteps ==
  ASSUME InitClInv, Save PROVE InitClInv'
<1>1. /\ step = "save" /\ step' \in {"kernels", "failed"}
      /\ UNCHANGED <<card, option, ram, layout, program, held, starts>>
  BY DEF Save
<1>2. \A f \in DOMAIN disk' : disk'[f].of \in LayoutRec
  <2>1. ASSUME NEW n, NEW content, content.of \in LayoutRec, Writes(n, content)
        PROVE  \A f \in DOMAIN disk' : disk'[f].of \in LayoutRec
    BY <2>1 DEF Writes, InitClInv, InitTypes
  <2>2. NoFile.of \in LayoutRec
    BY DEF NoFile, NoLayout, LayoutRec
  <2>3. [whole |-> TRUE, of |-> program].of \in LayoutRec
    BY DEF InitClInv, InitTypes, InitTypeOK, LayoutRec
  <2>4. CASE disk' = disk
    BY <2>4 DEF InitClInv, InitTypes
  <2>5. CASE Writes(FileName(layout), [whole |-> TRUE, of |-> program])
    BY <2>1, <2>3, <2>5
  <2>6. CASE Writes(FileName(layout), NoFile)
    BY <2>1, <2>2, <2>6
  <2> QED BY <2>4, <2>5, <2>6 DEF Save
<1>3. InitTypes'
  BY <1>1, <1>2 DEF InitClInv, InitTypes, InitTypeOK, InitSteps
<1> QED BY <1>1, <1>3 DEF InitClInv, Divides, HoldsPads, Named, Fits, Rooms

LEMMA ReleasedSteps ==
  ASSUME InitClInv, Released PROVE InitClInv'
<1>1. NoLayout \in LayoutRec /\ NoLayout.vram = <<>>
  BY DEF NoLayout, LayoutRec
<1>2. Free \in HeldRec
  BY DEF Free, HeldRec, MaxVramBuffers, MaxRamBuffers
<1>3. InitTypes'
  BY <1>1, <1>2 DEF InitClInv, InitTypes, InitTypeOK, InitSteps, Released, LayoutRec, HeldRec
<1> QED BY <1>3 DEF InitClInv, Divides, HoldsPads, Named, Released

LEMMA InitClSteps == InitClInv /\ [InitClNext]_initClVars => InitClInv'
<1> SUFFICES ASSUME InitClInv, [InitClNext]_initClVars PROVE InitClInv'
  OBVIOUS
<1>1. CASE Start
  <2>1. InitTypes'
    <3>1. starts' \in 0..MaxStarts
      BY <1>1, InitClAssumption DEF InitClInv, InitTypes, InitTypeOK, Start
    <3>2. card' \in Cards /\ option' \in Options /\ ram' \in Rams /\ step' \in InitSteps
      BY <1>1 DEF Start, InitSteps
    <3> QED BY <1>1, <3>1, <3>2 DEF InitClInv, InitTypes, InitTypeOK, Start
  <2> QED BY <1>1, <2>1 DEF InitClInv, Divides, HoldsPads, Named, Start
<1>2. CASE Detect
  <2>1. step = "detect" /\ step' \in {"device", "failed"} /\ UNCHANGED <<card, option, ram, layout, program, held, disk, starts>>
    BY <1>2 DEF Detect
  <2>2. InitTypes'
    BY <2>1 DEF InitClInv, InitTypes, InitTypeOK, InitSteps
  <2> QED BY <2>1, <2>2 DEF InitClInv, Divides, HoldsPads, Named
<1>3. CASE Device
  <2>1. InitTypes'
    BY <1>3 DEF InitClInv, InitTypes, InitTypeOK, InitSteps, Device
  <2> QED BY <1>3, <2>1 DEF InitClInv, Divides, HoldsPads, Named, Device
<1>4. CASE Build
  <2>1. layout \in LayoutRec
    BY DEF InitClInv, InitTypes, InitTypeOK, LayoutRec
  <2>2. InitTypes'
    BY <1>4, <2>1 DEF InitClInv, InitTypes, InitTypeOK, InitSteps, Build, LayoutRec
  <2> QED BY <1>4, <2>2 DEF InitClInv, Divides, HoldsPads, Named, Build, Fits, Rooms
<1>5. CASE Kernels
  <2>1. step = "kernels" /\ step' \in {"pads", "failed"} /\ UNCHANGED <<card, option, ram, layout, program, held, disk, starts>>
    BY <1>5 DEF Kernels
  <2>2. InitTypes'
    BY <2>1 DEF InitClInv, InitTypes, InitTypeOK, InitSteps
  <2>3. Divides'
    BY <2>1 DEF InitClInv, Divides, Named, Fits, Rooms
  <2>4. HoldsPads'
    <3>1. held.vram = 0 /\ held.ram = 0 /\ held.memory = 0
      BY <2>1 DEF InitClInv, HoldsPads, Free
    <3>2. PICK f : Rooms(f, layout, card)
      BY <2>1 DEF InitClInv, Divides, Named, Fits
    <3>3. /\ Len(layout.vram) \in Nat /\ Len(layout.ram) \in Nat
      BY <2>1 DEF InitClInv, Divides, Named, Fits, MaxVramBuffers, MaxRamBuffers
    <3>4. f[0] \in Nat
      BY <3>2, <3>3 DEF Rooms
    <3>5. Rooms(f, layout, card)' /\ (held.memory)' = f[0] - f[(held.vram)']
      BY <2>1, <3>1, <3>2, <3>4 DEF Rooms
    <3> QED BY <2>1, <3>1, <3>3, <3>5 DEF HoldsPads
  <2> QED BY <2>2, <2>3, <2>4 DEF InitClInv
<1>6. CASE UNCHANGED initClVars
  BY <1>6 DEF initClVars, InitClInv, InitTypes, InitTypeOK, Divides, HoldsPads, Fits, Rooms, TempBuffers
<1> QED
  BY <1>1, <1>2, <1>3, <1>4, <1>5, <1>6, ConfigureSteps, CreatePadSteps, CreateOthersSteps, PadFailsSteps,
     OpenBinarySteps, SaveSteps, ReleasedSteps DEF InitClNext, Prepared, GivenUp, Quit

\* A GPU that is ready has a place for every group of its work items, in buffers the
\* device can allocate and that fit what was left of the card (initCl).
THEOREM GroupsFit == InitClSpec => []GroupsHaveRoom
<1>1. InitClInv => GroupsHaveRoom
  <2> SUFFICES ASSUME InitClInv, step = "ready" PROVE GroupsHaveRoom
    BY DEF InitClInv, InitTypes, GroupsHaveRoom
  <2>1. Divides /\ HoldsPads /\ step \in Named
    BY DEF InitClInv, Named
  <2> QED BY <2>1 DEF InitClInv, InitTypes, Divides, HoldsPads, Fits, GroupsHaveRoom
<1> QED BY <1>1, InitClInitially, InitClSteps, PTL DEF InitClSpec
=============================================================================
