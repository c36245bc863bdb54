--------------------------- MODULE DriversProofs ---------------------------
(***************************************************************************)
(* Proofs about the USB layer and the drivers of the FPGAs and ASICs, for  *)
(* any devices, works, nonces, clocks and limits.                          *)
(*                                                                         *)
(* UsbLayer: who has the locks of the devices.  There is at most one       *)
(* request for a lock, or one answer to it, and the detecting thread waits *)
(* for it; so whoever has a lock uses the device, is detecting it, or has  *)
(* asked for the unlock.  As long as no device failed in the middle of its *)
(* detection, an unlock is asked for once, by the thread that has just     *)
(* closed the device, and is served before the device can be looked at     *)
(* again: serving the newest request first does no harm.                   *)
(*                                                                         *)
(* UsbRead: what reads have returned, then the read that is going on or    *)
(* else what is buffered, is what has been taken from the bus.  A read     *)
(* never holds more bytes than the buffer has room for, because the loop   *)
(* asks for what is left of it.                                            *)
(*                                                                         *)
(* BflscQueue: queued_count counts the works in the table that are queued, *)
(* since whoever takes one out subtracts it under the same lock.           *)
(* AvalonQueue: array a of the ring holds what was sent as long ago as a   *)
(* is behind the array in use, and a work leaves the table only with its   *)
(* array.  AvalonStream: what the buffer and the pipe hold is a piece of   *)
(* the stream, and none of it is thrown away that a result could be in.    *)
(* ModMinerBoard: as long as no reply came late and no mutex was given     *)
(* back twice, the pipe holds nothing but the reply to the thread that     *)
(* waits.  ModMinerClock: the good shares the driver counts have come, and *)
(* a change it tested is still good for the clock.  BitForce: at most one  *)
(* command, or its reply, is on the serial line, and that of the thread    *)
(* that has device_mutex.  IcarusWork: what is on the wire, buffered and   *)
(* read is one stream of the works the device has searched, in order.      *)
(* IcarusTiming: the summary is the sum over the sets in the history,      *)
(* whatever order the sum is taken in, and each set has its minimum.       *)
(***************************************************************************)
EXTENDS Drivers, FiniteSetTheorems, SequenceTheorems, WellFoundedInduction, TLAPS

LEMMA LeastNat ==
  ASSUME NEW T \in SUBSET Nat, T # {}
  PROVE  \E x \in T : \A y \in T : x <= y
<1>1. PICK x \in T : \A y \in T : <<y, x>> \notin OpToRel(<, Nat)
  BY NatLessThanWellFounded, WFMin
<1>2. \A y \in T : ~(y < x)
  BY <1>1 DEF OpToRel
<1> QED BY <1>2

Request == [lock : BOOLEAN, addr : Addrs]

FoundAddr == found_step \in {"reply", "init", "talk", "failed"} => found_addr \in Addrs

LockAsked ==
  \A i \in DOMAIN res_work : res_work[i].lock =>
    /\ found_step = "reply" /\ res_work[i].addr = found_addr
    /\ replies = <<>> /\ found_addr \notin in_use
    /\ \A j \in DOMAIN res_work : res_work[j].lock => j = i

LockAnswered ==
  replies # <<>> =>
    /\ found_step = "reply" /\ Len(replies) = 1 /\ replies[1].addr = found_addr
    /\ replies[1].got \/ found_addr \notin in_use

OwnersOpen ==
  /\ mining \subseteq owner /\ registered \subseteq owner /\ owner \subseteq open
  /\ found_step = "talk" => found_addr \in open \ owner

\* What an unlock that has been asked for is about.
UnlockOnce(i) ==
  /\ res_work[i].addr \in in_use \ open /\ ~Looking(res_work[i].addr)
  /\ \A j \in DOMAIN res_work :
       ~res_work[j].lock /\ res_work[j].addr = res_work[i].addr => j = i

UnlocksApart ==
  ~torn =>
    /\ open \subseteq in_use
    /\ \A i \in DOMAIN res_work : ~res_work[i].lock => UnlockOnce(i)
    /\ found_step \in {"init", "talk", "failed"} => found_addr \in in_use
    /\ found_step \in {"reply", "init", "failed"} => found_addr \notin open
    /\ replies # <<>> => (replies[1].got => found_addr \in in_use)

UsbInv == UsbTypeOK /\ FoundAddr /\ LockAsked /\ LockAnswered /\ OwnersOpen /\ NoLockLeaked /\ UnlocksApart

\* What usb_cleanup finds, and what it leaves.
CleanedUp ==
  /\ \A a \in open : a \in owner \/ (found_step = "talk" /\ a = found_addr)
  /\ cleaning # "no" => cancelled # "no"
  /\ cleaning = "done" => registered = {}

----------------------------------------------------------------------------
(* The stack of requests.                                                  *)

LEMMA PushFacts ==
  ASSUME NEW S, NEW s \in Seq(S), NEW x \in S
  PROVE  /\ <<x>> \o s \in Seq(S)
         /\ DOMAIN (<<x>> \o s) = 1 .. Len(s) + 1 /\ Len(s) \in Nat /\ DOMAIN s = 1 .. Len(s)
         /\ (<<x>> \o s)[1] = x
         /\ \A i \in 1 .. Len(s) : (<<x>> \o s)[i + 1] = s[i]
  OBVIOUS

LEMMA PopFacts ==
  ASSUME NEW S, NEW s \in Seq(S), s # <<>>
  PROVE  /\ Tail(s) \in Seq(S) /\ Head(s) = s[1] /\ s[1] \in S
         /\ Len(s) \in Nat \ {0} /\ DOMAIN s = 1 .. Len(s)
         /\ DOMAIN Tail(s) = 1 .. Len(s) - 1
         /\ \A i \in 1 .. Len(s) - 1 : Tail(s)[i] = s[i + 1]
<1>1. Len(s) \in Nat \ {0} /\ DOMAIN s = 1 .. Len(s) /\ Head(s) = s[1]
  OBVIOUS
<1>2. s[1] \in S
  BY <1>1
<1>3. /\ Tail(s) \in Seq(S) /\ Len(Tail(s)) = Len(s) - 1
      /\ \A i \in 1 .. Len(Tail(s)) : Tail(s)[i] = s[i + 1]
  BY HeadTailProperties
<1>4. DOMAIN Tail(s) = 1 .. Len(Tail(s))
  BY <1>3
<1> QED BY <1>1, <1>2, <1>3, <1>4

LEMMA UsbInitially == UsbInit => UsbInv
<1> SUFFICES ASSUME UsbInit PROVE UsbInv
  OBVIOUS
<1> USE DEF UsbInit
<1>1. UsbTypeOK
  <2>1. Len(UsbDrivers) \in Nat \ {0} /\ MaxPlugs \in Nat
    BY UsbAssumption DEF UsbAssumption
  <2>2. plugs \in 0 .. MaxPlugs /\ found_drv \in 0 .. Len(UsbDrivers) + 1
    BY <2>1
  <2>3. res_work \in Seq([lock : BOOLEAN, addr : Addrs]) /\ replies \in Seq([addr : Addrs, got : BOOLEAN])
    OBVIOUS
  <2>4. found_step \in DetectSteps /\ total_count \in Int /\ zombie_devs \in Nat
    BY DEF DetectSteps
  <2> QED BY <2>2, <2>3, <2>4, Zenon DEF UsbTypeOK

<1>2. FoundAddr /\ LockAsked /\ LockAnswered /\ OwnersOpen /\ NoLockLeaked /\ UnlocksApart
  BY DEF FoundAddr, LockAsked, LockAnswered, OwnersOpen, NoLockLeaked, UnlocksApart
<1> QED BY <1>1, <1>2 DEF UsbInv

----------------------------------------------------------------------------
(* The steps that leave the requests and the answers alone.                *)

LEMMA QuietTypes ==
  ASSUME UsbInv, UNCHANGED <<res_work, replies>>,
         \/ \E a \in Addrs : Unplug(a) \/ Plug(a) \/ StartThreads(a) \/ CountDevice(a)
         \/ Cleanup \/ CleanupEnds \/ \E held \in BOOLEAN : HotplugCancelled(held)
         \/ Search \/ Searched \/ UsbRefused \/ UsbClaims \/ TalkFails \/ Detected
  PROVE  UsbTypeOK' /\ FoundAddr'
<1>1. UsbTypeOK /\ FoundAddr
  BY DEF UsbInv
<1>2. CASE \E a \in Addrs : Unplug(a) \/ Plug(a)
  BY <1>1, <1>2, UsbAssumption
     DEF Unplug, Plug, UsbTypeOK, FoundAddr, detectVars, endVars, UsbAssumption
<1>3. CASE Cleanup \/ CleanupEnds \/ \E held \in BOOLEAN : HotplugCancelled(held)
  BY <1>1, <1>3 DEF Cleanup, CleanupEnds, HotplugCancelled, UsbTypeOK, FoundAddr, detectVars
<1>4. CASE Search
  <2>1. Len(UsbDrivers) \in Nat \ {0} /\ MaxPlugs \in Nat
    BY UsbAssumption DEF UsbAssumption
  <2> DEFINE n == Len(UsbDrivers)
  <2>2. n \in Nat \ {0} /\ found_drv \in 0 .. n + 1 /\ plugs \in 0 .. MaxPlugs
    BY <1>1, <2>1 DEF UsbTypeOK
  <2>3. /\ found_drv' = (found_drv % n) + 1 /\ plugs' \in 0 .. MaxPlugs
        /\ hotplug_mode' \in BOOLEAN
    BY <1>1, <1>4, <2>1, <2>2 DEF Search, UsbTypeOK
  <2> HIDE DEF n
  <2>4. found_drv' \in 0 .. n + 1
    BY <2>2, <2>3
  <2>5. found_list' \subseteq Addrs /\ found_step' = "next"
    BY <1>1, <1>4 DEF Search, UsbTypeOK
  <2> QED BY <1>1, <1>4, <2>3, <2>4, <2>5 DEF n, Search, UsbTypeOK, FoundAddr, DetectSteps
<1>5. CASE Searched \/ UsbRefused \/ UsbClaims \/ TalkFails
  BY <1>1, <1>5 DEF Searched, UsbRefused, UsbClaims, TalkFails, UsbTypeOK, FoundAddr, DetectSteps, endVars
<1>6. CASE Detected
  BY <1>1, <1>6 DEF Detected, UsbTypeOK, FoundAddr, DetectSteps, endVars
<1>7. CASE \E a \in Addrs : StartThreads(a) \/ CountDevice(a)
  BY <1>1, <1>7 DEF StartThreads, CountDevice, UsbTypeOK, FoundAddr, detectVars, endVars
<1> QED BY <1>2, <1>3, <1>4, <1>5, <1>6, <1>7

LEMMA QuietSteps ==
  ASSUME UsbInv,
         \/ \E a \in Addrs : Unplug(a) \/ Plug(a) \/ StartThreads(a) \/ CountDevice(a)
         \/ Cleanup \/ CleanupEnds \/ \E held \in BOOLEAN : HotplugCancelled(held)
         \/ Search \/ Searched \/ UsbRefused \/ UsbClaims \/ TalkFails \/ Detected
  PROVE  UsbInv'
<1>1. UNCHANGED <<res_work, replies, in_use>>
  BY DEF Unplug, Plug, StartThreads, CountDevice, Cleanup, CleanupEnds, HotplugCancelled,
         Search, Searched, UsbRefused, UsbClaims, TalkFails, Detected
<1>2. UsbTypeOK' /\ FoundAddr'
  BY <1>1, QuietTypes
<1>3. UsbTypeOK /\ LockAsked /\ LockAnswered /\ OwnersOpen /\ NoLockLeaked /\ UnlocksApart /\ FoundAddr
  BY DEF UsbInv
<1> SUFFICES LockAsked' /\ LockAnswered' /\ OwnersOpen' /\ NoLockLeaked' /\ UnlocksApart'
  BY <1>2 DEF UsbInv
<1>4. CASE \/ \E a \in Addrs : Unplug(a) \/ Plug(a) \/ StartThreads(a) \/ CountDevice(a)
           \/ Cleanup \/ CleanupEnds \/ \E held \in BOOLEAN : HotplugCancelled(held)
  <2>1. /\ UNCHANGED <<res_work, replies, in_use, open, owner, torn, found_step, found_addr>>
        /\ cancelled' = "held" \/ cancelled # "held"
        /\ mining' \subseteq owner /\ registered' \subseteq owner
    BY <1>3, <1>4 DEF Unplug, Plug, StartThreads, CountDevice, Cleanup, CleanupEnds, HotplugCancelled,
                      detectVars, endVars, OwnersOpen
  <2>2. OwnersOpen'
    BY <1>3, <2>1 DEF OwnersOpen
  <2>3. LockAsked' /\ LockAnswered' /\ NoLockLeaked'
    BY <1>3, <2>1 DEF LockAsked, LockAnswered, NoLockLeaked, Looking, Asked
  <2>4. UnlocksApart'
    BY <1>3, <2>1 DEF UnlocksApart, UnlockOnce, Looking
  <2> QED BY <2>2, <2>3, <2>4
<1>5. CASE Search \/ Searched
  <2>1. /\ UNCHANGED <<res_work, replies, in_use, open, owner, registered, mining, cancelled, torn,
                       found_addr>>
        /\ found_step \in {"rest", "next"} /\ found_step' \in {"rest", "next"}
    BY <1>5 DEF Search, Searched, endVars
  <2>2. OwnersOpen' /\ LockAsked' /\ LockAnswered'
    BY <1>3, <2>1 DEF OwnersOpen, LockAsked, LockAnswered
  <2>3. NoLockLeaked'
    BY <1>3, <2>1 DEF NoLockLeaked, Looking, Asked
  <2>4. UnlocksApart'
    BY <1>3, <2>1 DEF UnlocksApart, UnlockOnce, Looking
  <2> QED BY <2>2, <2>3, <2>4
<1>6. CASE UsbRefused \/ TalkFails
  <2>1. /\ UNCHANGED <<res_work, replies, in_use, owner, registered, mining, cancelled, torn, found_addr>>
        /\ found_step \in {"init", "talk"} /\ found_step' = "failed"
        /\ IF found_step = "init" THEN open' = open ELSE open' = open \ {found_addr}
    BY <1>6 DEF UsbRefused, TalkFails, endVars
  <2>2. OwnersOpen' /\ LockAsked' /\ LockAnswered'
    BY <1>3, <2>1 DEF OwnersOpen, LockAsked, LockAnswered
  <2>3. NoLockLeaked'
    BY <1>3, <2>1 DEF NoLockLeaked, Looking, Asked
  <2>4. UnlocksApart'
    <3> SUFFICES ASSUME ~torn' PROVE UnlocksApart'
      BY DEF UnlocksApart
    <3>1. /\ open \subseteq in_use /\ found_addr \in in_use /\ found_addr \notin open'
          /\ replies # <<>> => (replies[1].got => found_addr \in in_use)
          /\ \A i \in DOMAIN res_work : ~res_work[i].lock => UnlockOnce(i)
      BY <1>3, <2>1 DEF UnlocksApart
    <3>2. \A i \in DOMAIN res_work : ~res_work[i].lock => UnlockOnce(i)'
      BY <2>1, <3>1 DEF UnlockOnce, Looking
    <3> QED BY <2>1, <3>1, <3>2 DEF UnlocksApart
  <2> QED BY <2>2, <2>3, <2>4
<1>7. CASE UsbClaims
  <2>1. /\ UNCHANGED <<res_work, replies, in_use, owner, registered, mining, cancelled, torn, found_addr>>
        /\ found_step = "init" /\ found_step' = "talk" /\ found_addr \notin open
        /\ open' = open \union {found_addr}
    BY <1>7 DEF UsbClaims, endVars
  <2>2. OwnersOpen' /\ LockAsked' /\ LockAnswered'
    BY <1>3, <2>1 DEF OwnersOpen, LockAsked, LockAnswered
  <2>3. NoLockLeaked'
    BY <1>3, <2>1 DEF NoLockLeaked, Looking, Asked
  <2>4. UnlocksApart'
    <3> SUFFICES ASSUME ~torn' PROVE UnlocksApart'
      BY DEF UnlocksApart
    <3>1. /\ open' \subseteq in_use /\ found_addr \in in_use
          /\ replies # <<>> => (replies[1].got => found_addr \in in_use)
          /\ \A i \in DOMAIN res_work : ~res_work[i].lock => UnlockOnce(i)
      BY <1>3, <2>1 DEF UnlocksApart
    <3>2. \A i \in DOMAIN res_work : ~res_work[i].lock => UnlockOnce(i)'
      BY <2>1, <3>1 DEF UnlockOnce, Looking
    <3> QED BY <2>1, <3>1, <3>2 DEF UnlocksApart
  <2> QED BY <2>2, <2>3, <2>4
<1>8. CASE Detected
  <2>1. /\ UNCHANGED <<res_work, replies, in_use, open, mining, cancelled, torn, found_addr>>
        /\ found_step = "talk" /\ found_step' = "next"
        /\ owner' = owner \union {found_addr} /\ found_addr \in open
        /\ registered' \subseteq registered \union {found_addr}
    BY <1>3, <1>8 DEF Detected, OwnersOpen, endVars
  <2>2. OwnersOpen' /\ LockAsked' /\ LockAnswered'
    BY <1>3, <2>1 DEF OwnersOpen, LockAsked, LockAnswered
  <2>3. NoLockLeaked'
    BY <1>3, <2>1 DEF NoLockLeaked, Looking, Asked
  <2>4. UnlocksApart'
    BY <1>3, <2>1 DEF UnlocksApart, UnlockOnce, Looking
  <2> QED BY <2>2, <2>3, <2>4
<1> QED BY <1>4, <1>5, <1>6, <1>7, <1>8

----------------------------------------------------------------------------
(* An unlock is asked for: of a device that is closed by it, or whose      *)
(* detection has failed.                                                   *)

LEMMA UnlockPushed ==
  ASSUME UsbInv, NEW a \in Addrs, AskUnlock(a), UNCHANGED <<replies, in_use, found_addr, cancelled>>,
         open' \subseteq open, open \subseteq open' \union {a},
         owner' \subseteq open', registered' \subseteq owner', mining' \subseteq owner',
         found_step = "reply" <=> found_step' = "reply",

         found_step' = "talk" => found_addr \in open' \ owner',
         \A b \in Addrs : Looking(b) => b = a \/ Looking(b)',
         torn => torn',
         ~torn' => /\ a \in in_use /\ a \notin open' /\ ~Looking(a)'
                   /\ \A i \in DOMAIN res_work :
                        ~res_work[i].lock => res_work[i].addr # a
                   /\ \A b \in Addrs : Looking(b)' => Looking(b)
                   /\ found_step' \in {"reply", "init", "talk", "failed"} => found_step' = found_step
  PROVE  LockAsked' /\ LockAnswered' /\ OwnersOpen' /\ NoLockLeaked' /\ UnlocksApart'
<1>1. /\ UsbTypeOK /\ LockAsked /\ LockAnswered /\ NoLockLeaked /\ UnlocksApart
      /\ res_work \in Seq(Request)
  BY DEF UsbInv, UsbTypeOK, Request
<1> DEFINE r == [lock |-> FALSE, addr |-> a]
           n == Len(res_work)
<1>2. r \in Request /\ ~r.lock /\ r.addr = a
  BY DEF Request
<1>3. /\ DOMAIN res_work' = 1 .. n + 1 /\ n \in Nat /\ DOMAIN res_work = 1 .. n
      /\ res_work'[1] = r
      /\ \A i \in 1 .. n : res_work'[i + 1] = res_work[i]
  <2>1. res_work' = <<r>> \o res_work
    BY DEF AskUnlock
  <2> HIDE DEF r
  <2> QED BY <1>1, <1>2, <2>1, PushFacts
<1> HIDE DEF r, n
<1>4. \A i \in DOMAIN res_work' :
        \/ i = 1 /\ res_work'[i] = r
        \/ i > 1 /\ i - 1 \in DOMAIN res_work /\ res_work'[i] = res_work[i - 1]
  <2> SUFFICES ASSUME NEW i \in 1 .. n + 1, i # 1
               PROVE  i > 1 /\ i - 1 \in 1 .. n /\ res_work'[i] = res_work[i - 1]
    BY <1>3
  <2>1. i > 1 /\ i - 1 \in 1 .. n /\ (i - 1) + 1 = i
    BY <1>3
  <2> QED BY <1>3, <2>1
<1>5. DOMAIN res_work' \subseteq Int /\ DOMAIN res_work \subseteq Int
  BY <1>3
<1>6. LockAsked'
  <2> SUFFICES ASSUME NEW i \in DOMAIN res_work', res_work'[i].lock
               PROVE  /\ found_step' = "reply" /\ res_work'[i].addr = found_addr
                      /\ replies = <<>> /\ found_addr \notin in_use
                      /\ \A j \in DOMAIN res_work' : res_work'[j].lock => j = i
    BY DEF LockAsked
  <2>1. i > 1 /\ i - 1 \in DOMAIN res_work /\ res_work'[i] = res_work[i - 1] /\ res_work[i - 1].lock
    BY <1>2, <1>4
  <2>2. /\ found_step = "reply" /\ res_work[i - 1].addr = found_addr
        /\ replies = <<>> /\ found_addr \notin in_use
        /\ \A j \in DOMAIN res_work : res_work[j].lock => j = i - 1
    BY <1>1, <2>1 DEF LockAsked
  <2>3. ASSUME NEW j \in DOMAIN res_work', res_work'[j].lock PROVE j = i
    <3>1. j > 1 /\ j - 1 \in DOMAIN res_work /\ res_work[j - 1].lock
      BY <1>2, <1>4, <2>3
    <3>2. j - 1 = i - 1
      BY <2>2, <3>1
    <3> QED BY <1>5, <3>2
  <2> QED BY <2>1, <2>2, <2>3
<1>7. LockAnswered' /\ OwnersOpen'
  BY <1>1 DEF LockAnswered, OwnersOpen
<1>8. NoLockLeaked'
  <2> SUFFICES ASSUME cancelled # "held", NEW b \in in_use, b \notin open', ~Looking(b)' PROVE Asked(b)'
    BY DEF NoLockLeaked
  <2>1. CASE b = a
    BY <1>3, <2>1 DEF Asked, r
  <2>2. CASE b # a
    <3>1. b \in Addrs
      BY <1>1 DEF UsbTypeOK
    <3>2. PICK i \in DOMAIN res_work : res_work[i] = [lock |-> FALSE, addr |-> b]
      BY <1>1, <2>2, <3>1 DEF NoLockLeaked, Asked
    <3>3. i + 1 \in DOMAIN res_work' /\ res_work'[i + 1] = [lock |-> FALSE, addr |-> b]
      <4>1. i \in 1 .. n /\ i + 1 \in 1 .. n + 1
        BY <1>3
      <4>2. res_work'[i + 1] = res_work[i]
        BY <1>3, <4>1, Zenon
      <4> QED BY <1>3, <3>2, <4>1, <4>2, Zenon
    <3> QED BY <3>3 DEF Asked

  <2> QED BY <2>1, <2>2
<1>9. UnlocksApart'
  <2> SUFFICES ASSUME ~torn' PROVE UnlocksApart'
    BY DEF UnlocksApart
  <2>1. /\ open \subseteq in_use
        /\ \A i \in DOMAIN res_work : ~res_work[i].lock => UnlockOnce(i)
        /\ found_step \in {"init", "talk", "failed"} => found_addr \in in_use
        /\ found_step \in {"reply", "init", "failed"} => found_addr \notin open
        /\ replies # <<>> => (replies[1].got => found_addr \in in_use)
    BY <1>1 DEF UnlocksApart
  <2>2. ASSUME NEW i \in DOMAIN res_work', ~res_work'[i].lock PROVE UnlockOnce(i)'
    <3>1. CASE i = 1
      <4>1. ASSUME NEW j \in DOMAIN res_work', ~res_work'[j].lock, res_work'[j].addr = a
            PROVE  j = 1
        BY <1>4, <4>1
      <4> QED BY <1>2, <1>3, <3>1, <4>1 DEF UnlockOnce
    <3>2. CASE i # 1
      <4>1. i - 1 \in DOMAIN res_work /\ res_work'[i] = res_work[i - 1] /\ ~res_work[i - 1].lock
        BY <1>4, <2>2, <3>2
      <4>2. UnlockOnce(i - 1) /\ res_work[i - 1].addr # a /\ res_work[i - 1].addr \in Addrs
        <5>1. res_work[i - 1] \in Request
          BY <1>1, <4>1
        <5> QED BY <2>1, <4>1, <5>1 DEF Request
      <4>3. ASSUME NEW j \in DOMAIN res_work', ~res_work'[j].lock,
                   res_work'[j].addr = res_work'[i].addr
            PROVE  j = i
        <5>1. j # 1
          BY <1>2, <1>3, <4>1, <4>2, <4>3
        <5>2. j - 1 \in DOMAIN res_work /\ res_work'[j] = res_work[j - 1]
          BY <1>4, <5>1
        <5>3. j - 1 = i - 1
          BY <4>1, <4>2, <4>3, <5>2 DEF UnlockOnce
        <5> QED BY <1>5, <5>3
      <4>4. PICK b \in Addrs : b = res_work'[i].addr /\ b = res_work[i - 1].addr
        BY <4>1, <4>2
      <4>5. b \in in_use \ open' /\ ~Looking(b)'
        BY <4>2, <4>4 DEF UnlockOnce
      <4> QED BY <4>3, <4>4, <4>5 DEF UnlockOnce, Looking
    <3> QED BY <3>1, <3>2
  <2>3. open' \subseteq in_use
    BY <2>1
  <2>4. found_step' \in {"init", "talk", "failed"} => found_addr \in in_use
    BY <2>1
  <2>5. found_step' \in {"reply", "init", "failed"} => found_addr \notin open'
    BY <2>1
  <2> QED BY <2>1, <2>2, <2>3, <2>4, <2>5 DEF UnlocksApart
<1> QED BY <1>6, <1>7, <1>8, <1>9

(* release_cgpu, whoever calls it.                                         *)
LEMMA ReleaseFacts ==
  ASSUME UsbInv, NEW a \in Addrs, Release(a)
  PROVE  /\ IF cancelled = "held" THEN res_work' = res_work ELSE AskUnlock(a)
         /\ a \in open
         /\ open' = open \ {a} /\ owner' = owner \ {a}
         /\ registered' = registered \ {a} /\ mining' = mining \ {a}
         /\ total_count' \in Int /\ zombie_devs' \in Nat
<1>1. total_count \in Int /\ zombie_devs \in Nat /\ Chips \in Int
  BY UsbAssumption DEF UsbInv, UsbTypeOK, UsbAssumption
<1> QED BY <1>1 DEF Release, Freed

LEMMA UnlockTyped ==
  ASSUME UsbInv, NEW a \in Addrs, AskUnlock(a)
  PROVE  res_work' \in Seq([lock : BOOLEAN, addr : Addrs])
<1>1. res_work \in Seq(Request)
  BY DEF UsbInv, UsbTypeOK, Request
<1> DEFINE r == [lock |-> FALSE, addr |-> a]
<1>2. r \in Request /\ res_work' = <<r>> \o res_work
  BY DEF Request, AskUnlock
<1> HIDE DEF r
<1>3. res_work' \in Seq(Request)
  BY <1>1, <1>2, PushFacts
<1> QED BY <1>3 DEF Request

LEMMA UnlockSteps ==
  ASSUME UsbInv,
         \/ \E a \in Addrs : TransferFails(a) \/ CleanupReleases(a)
         \/ TalkTorn \/ NotDetected
  PROVE  UsbInv'
<1>1. UsbTypeOK /\ FoundAddr /\ OwnersOpen /\ UnlocksApart
  BY DEF UsbInv
<1>2. CASE \E a \in Addrs : TransferFails(a) \/ CleanupReleases(a)
  <2>1. PICK a \in Addrs : TransferFails(a) \/ CleanupReleases(a)
    BY <1>2
  <2>2. /\ a \in owner /\ Release(a)
        /\ UNCHANGED <<plugged, plugs, in_use, replies, hotplug_mode, cancelled, torn, found_step,
                       found_drv, found_addr, found_list>>
        /\ cleaning' \in {cleaning, "blocked"}
    BY <1>1, <2>1 DEF TransferFails, CleanupReleases, detectVars, endVars, OwnersOpen
  <2>3. /\ IF cancelled = "held" THEN res_work' = res_work ELSE AskUnlock(a)
        /\ a \in open
        /\ open' = open \ {a} /\ owner' = owner \ {a}
        /\ registered' = registered \ {a} /\ mining' = mining \ {a}
        /\ total_count' \in Int /\ zombie_devs' \in Nat
    BY <2>2, ReleaseFacts
  <2>4. found_step = "talk" => found_addr \in open' \ owner'
    BY <1>1, <2>2, <2>3 DEF OwnersOpen
  <2>5. ~torn' => /\ a \in in_use /\ a \notin open' /\ ~Looking(a)'
                  /\ \A i \in DOMAIN res_work : ~res_work[i].lock => res_work[i].addr # a
    <3> SUFFICES ASSUME ~torn' PROVE
                  /\ a \in in_use /\ a \notin open' /\ ~Looking(a)'
                  /\ \A i \in DOMAIN res_work : ~res_work[i].lock => res_work[i].addr # a
      OBVIOUS
    <3>1. /\ open \subseteq in_use
          /\ \A i \in DOMAIN res_work : ~res_work[i].lock => res_work[i].addr \notin open
          /\ found_step \in {"reply", "init", "failed"} => found_addr \notin open
      BY <1>1, <2>2 DEF UnlocksApart, UnlockOnce
    <3>2. ~Looking(a)'
      BY <1>1, <2>2, <2>3, <3>1 DEF Looking, OwnersOpen
    <3> QED BY <2>3, <3>1, <3>2
  <2>6. \A b \in Addrs : Looking(b) <=> Looking(b)'
    BY <2>2 DEF Looking
  <2>7. owner' \subseteq open' /\ registered' \subseteq owner' /\ mining' \subseteq owner'
    BY <1>1, <2>3 DEF OwnersOpen
  <2>8. LockAsked' /\ LockAnswered' /\ OwnersOpen' /\ NoLockLeaked' /\ UnlocksApart'
    <3>1. CASE cancelled = "held"
      <4>1. LockAsked /\ LockAnswered
        BY DEF UsbInv
      <4>2. res_work' = res_work /\ open' \subseteq open
        BY <2>3, <3>1
      <4>3. LockAsked' /\ LockAnswered' /\ OwnersOpen' /\ NoLockLeaked'
        BY <2>2, <2>4, <2>7, <3>1, <4>1, <4>2 DEF LockAsked, LockAnswered, OwnersOpen, NoLockLeaked
      <4>4. UnlocksApart'
        BY <1>1, <2>2, <4>2 DEF UnlocksApart, UnlockOnce, Looking
      <4> QED BY <4>3, <4>4
    <3>2. CASE cancelled # "held"
      <4>1. AskUnlock(a)
        BY <2>3, <3>2
      <4> QED BY <2>2, <2>3, <2>4, <2>5, <2>6, <2>7, <4>1, UnlockPushed
    <3> QED BY <3>1, <3>2
  <2>9. UsbTypeOK' /\ FoundAddr'
    <3>1. res_work' \in Seq([lock : BOOLEAN, addr : Addrs])
      BY <1>1, <2>3, UnlockTyped DEF UsbTypeOK
    <3>2. /\ open' \subseteq Addrs /\ owner' \subseteq Addrs /\ mining' \subseteq Addrs
          /\ registered' \subseteq Addrs
      BY <1>1, <2>3 DEF UsbTypeOK
    <3> QED BY <1>1, <2>2, <2>3, <3>1, <3>2 DEF UsbTypeOK, FoundAddr
  <2> QED BY <2>8, <2>9 DEF UsbInv
<1>3. CASE TalkTorn
  <2> DEFINE a == found_addr
  <2>1. /\ a \in Addrs /\ Release(a) /\ torn' = TRUE
        /\ found_step = "talk" /\ found_step' = "failed"
        /\ UNCHANGED <<plugged, plugs, in_use, replies, hotplug_mode, cancelled, cleaning, found_drv,
                       found_addr, found_list>>
        /\ cancelled = "no"
    BY <1>1, <1>3 DEF TalkTorn, FoundAddr, endVars
  <2>2. /\ AskUnlock(a) /\ a \in open
        /\ open' = open \ {a} /\ owner' = owner \ {a}
        /\ registered' = registered \ {a} /\ mining' = mining \ {a}
        /\ total_count' \in Int /\ zombie_devs' \in Nat
    BY <2>1, ReleaseFacts
  <2>3. \A b \in Addrs : Looking(b) => Looking(b)'
    BY <2>1 DEF Looking
  <2>4. owner' \subseteq open' /\ registered' \subseteq owner' /\ mining' \subseteq owner'
    BY <1>1, <2>2 DEF OwnersOpen
  <2>5. LockAsked' /\ LockAnswered' /\ OwnersOpen' /\ NoLockLeaked' /\ UnlocksApart'
    <3> HIDE DEF a
    <3> QED BY <2>1, <2>2, <2>3, <2>4, UnlockPushed
  <2>6. UsbTypeOK' /\ FoundAddr'
    <3>1. res_work' \in Seq([lock : BOOLEAN, addr : Addrs])
      BY <2>1, <2>2, UnlockTyped
    <3>2. /\ open' \subseteq Addrs /\ owner' \subseteq Addrs /\ mining' \subseteq Addrs
          /\ registered' \subseteq Addrs
      BY <1>1, <2>2 DEF UsbTypeOK
    <3> QED BY <1>1, <2>1, <2>2, <3>1, <3>2 DEF UsbTypeOK, FoundAddr, DetectSteps
  <2> QED BY <2>5, <2>6 DEF UsbInv
<1>4. CASE NotDetected
  <2> DEFINE a == found_addr
  <2>1. /\ a \in Addrs /\ AskUnlock(a)
        /\ found_step = "failed" /\ found_step' = "next"
        /\ UNCHANGED <<plugged, plugs, in_use, replies, hotplug_mode, cancelled, cleaning, found_drv,
                       found_addr, found_list, open, owner, registered, mining, total_count,
                       zombie_devs, torn>>
    BY <1>1, <1>4 DEF NotDetected, FoundAddr, endVars
  <2>2. \A b \in Addrs : /\ Looking(b) => b = a
                         /\ ~Looking(b)'
    BY <2>1 DEF Looking
  <2>3. ~torn => /\ a \in in_use /\ a \notin open
                 /\ \A i \in DOMAIN res_work : ~res_work[i].lock => res_work[i].addr # a
    <3> SUFFICES ASSUME ~torn, NEW i \in DOMAIN res_work, ~res_work[i].lock
                 PROVE  res_work[i].addr # a
      BY <1>1, <2>1 DEF UnlocksApart
    <3>1. ~Looking(res_work[i].addr)
      BY <1>1 DEF UnlocksApart, UnlockOnce
    <3> QED BY <2>1, <3>1 DEF Looking
  <2>4. LockAsked' /\ LockAnswered' /\ OwnersOpen' /\ NoLockLeaked' /\ UnlocksApart'
    <3>1. /\ owner' \subseteq open' /\ registered' \subseteq owner' /\ mining' \subseteq owner'
          /\ open' = open
      BY <1>1, <2>1 DEF OwnersOpen
    <3> HIDE DEF a
    <3> QED BY <2>1, <2>2, <2>3, <3>1, UnlockPushed
  <2>5. UsbTypeOK' /\ FoundAddr'
    <3>1. res_work' \in Seq([lock : BOOLEAN, addr : Addrs])
      BY <2>1, UnlockTyped
    <3> QED BY <1>1, <2>1, <3>1 DEF UsbTypeOK, FoundAddr, DetectSteps
  <2> QED BY <2>4, <2>5 DEF UsbInv
<1> QED BY <1>2, <1>3, <1>4

----------------------------------------------------------------------------
(* A lock is asked for, taken or given back, and the answer.               *)

LEMMA LookAtStep ==
  ASSUME UsbInv, NEW a \in Addrs, LookAt(a)
  PROVE  UsbInv'
<1>1. /\ UsbTypeOK /\ LockAsked /\ LockAnswered /\ OwnersOpen /\ NoLockLeaked /\ UnlocksApart /\ FoundAddr
      /\ res_work \in Seq(Request)
  BY DEF UsbInv, UsbTypeOK, Request
<1>2. /\ found_step = "next" /\ found_list' = found_list \ {a}
      /\ UNCHANGED <<plugged, plugs, in_use, replies, found_drv, open, owner, registered, mining,
                     total_count, zombie_devs, hotplug_mode, cancelled, cleaning, torn>>
  BY DEF LookAt, endVars
<1>3. CASE a \in in_use
  <2>1. UNCHANGED <<found_step, found_addr, res_work>>
    BY <1>3 DEF LookAt
  <2>2. UsbTypeOK' /\ FoundAddr' /\ OwnersOpen'
    BY <1>1, <1>2, <2>1 DEF UsbTypeOK, FoundAddr, OwnersOpen
  <2>3. LockAsked' /\ LockAnswered' /\ NoLockLeaked'
    BY <1>1, <1>2, <2>1 DEF LockAsked, LockAnswered, NoLockLeaked, Looking, Asked
  <2>4. UnlocksApart'
    BY <1>1, <1>2, <2>1 DEF UnlocksApart, UnlockOnce, Looking
  <2> QED BY <2>2, <2>3, <2>4 DEF UsbInv
<1>4. CASE a \notin in_use
  <2> DEFINE r == [lock |-> TRUE, addr |-> a]
             n == Len(res_work)
  <2>1. found_step' = "reply" /\ found_addr' = a /\ res_work' = <<r>> \o res_work
    BY <1>4 DEF LookAt, AskLock
  <2>2. r \in Request /\ r.lock /\ r.addr = a
    BY DEF Request
  <2> HIDE DEF r
  <2>3. /\ DOMAIN res_work' = 1 .. n + 1 /\ n \in Nat /\ DOMAIN res_work = 1 .. n
        /\ res_work'[1] = r /\ res_work' \in Seq(Request)
        /\ \A i \in 1 .. n : res_work'[i + 1] = res_work[i]
    BY <1>1, <2>1, <2>2, PushFacts
  <2> HIDE DEF n
  <2>4. \A i \in DOMAIN res_work' :
          i = 1 \/ (i - 1 \in DOMAIN res_work /\ res_work'[i] = res_work[i - 1])
    <3> SUFFICES ASSUME NEW i \in 1 .. n + 1, i # 1
                 PROVE  i - 1 \in 1 .. n /\ res_work'[i] = res_work[i - 1]
      BY <2>3
    <3>1. i - 1 \in 1 .. n /\ (i - 1) + 1 = i
      BY <2>3
    <3> QED BY <2>3, <3>1
  <2>5. replies = <<>> /\ \A i \in DOMAIN res_work : ~res_work[i].lock
    BY <1>1, <1>2 DEF LockAnswered, LockAsked
  <2>6. LockAsked'
    <3>1. \A i \in DOMAIN res_work' : res_work'[i].lock => i = 1
      BY <2>4, <2>5
    <3>2. res_work'[1].addr = a
      BY <2>2, <2>3
    <3> QED BY <1>2, <1>4, <2>1, <2>5, <3>1, <3>2 DEF LockAsked
  <2>7. UsbTypeOK' /\ FoundAddr' /\ OwnersOpen' /\ LockAnswered'
    <3>1. res_work' \in Seq([lock : BOOLEAN, addr : Addrs])
      BY <2>3 DEF Request
    <3>2. FoundAddr' /\ OwnersOpen' /\ LockAnswered'
      BY <1>1, <1>2, <2>1, <2>5 DEF FoundAddr, OwnersOpen, LockAnswered
    <3>3. UsbTypeOK'
      BY <1>1, <1>2, <2>1, <3>1 DEF UsbTypeOK, DetectSteps
    <3> QED BY <3>2, <3>3
  <2>8. NoLockLeaked'
    <3> SUFFICES ASSUME cancelled # "held", NEW b \in in_use, b \notin open PROVE Asked(b)'
      BY <1>2 DEF NoLockLeaked
    <3>1. ~Looking(b)
      BY <1>2 DEF Looking
    <3>2. PICK i \in DOMAIN res_work : res_work[i] = [lock |-> FALSE, addr |-> b]
      BY <1>1, <3>1 DEF NoLockLeaked, Asked
    <3>3. i + 1 \in DOMAIN res_work' /\ res_work'[i + 1] = [lock |-> FALSE, addr |-> b]
      <4>1. i \in 1 .. n /\ i + 1 \in 1 .. n + 1
        BY <2>3
      <4>2. res_work'[i + 1] = res_work[i]
        BY <2>3, <4>1, Zenon
      <4> QED BY <2>3, <3>2, <4>1, <4>2, Zenon
    <3> QED BY <3>3 DEF Asked
  <2>9. UnlocksApart'
    <3> SUFFICES ASSUME ~torn' PROVE UnlocksApart'
      BY DEF UnlocksApart
    <3>1. /\ open \subseteq in_use
          /\ \A i \in DOMAIN res_work : ~res_work[i].lock => UnlockOnce(i)
      BY <1>1, <1>2 DEF UnlocksApart
    <3>2. ASSUME NEW i \in DOMAIN res_work', ~res_work'[i].lock PROVE UnlockOnce(i)'
      <4>1. i - 1 \in DOMAIN res_work /\ res_work'[i] = res_work[i - 1] /\ ~res_work[i - 1].lock
        BY <2>2, <2>3, <2>4, <3>2
      <4>2. UnlockOnce(i - 1)
        BY <3>1, <4>1
      <4>3. res_work'[i].addr # a /\ res_work'[i].addr \in in_use \ open
        BY <1>4, <4>1, <4>2 DEF UnlockOnce
      <4>4. ASSUME NEW j \in DOMAIN res_work', ~res_work'[j].lock,
                   res_work'[j].addr = res_work'[i].addr
            PROVE  j = i
        <5>1. j - 1 \in DOMAIN res_work /\ res_work'[j] = res_work[j - 1]
          BY <2>2, <2>3, <2>4, <4>4
        <5>2. j - 1 = i - 1
          BY <4>1, <4>2, <4>4, <5>1 DEF UnlockOnce
        <5>3. i \in Int /\ j \in Int
          BY <2>3
        <5> QED BY <5>2, <5>3
      <4> QED BY <1>2, <2>1, <4>3, <4>4 DEF UnlockOnce, Looking
    <3> QED BY <1>2, <1>4, <2>1, <2>5, <3>1, <3>2 DEF UnlocksApart
  <2> QED BY <2>6, <2>7, <2>8, <2>9 DEF UsbInv
<1> QED BY <1>3, <1>4

\* What is left of the requests when the newest has been served.
LEMMA Served ==
  ASSUME UsbInv, res_work # <<>>, res_work' = Tail(res_work)
  PROVE  /\ Head(res_work) = res_work[1] /\ res_work[1] \in Request /\ 1 \in DOMAIN res_work
         /\ res_work' \in Seq([lock : BOOLEAN, addr : Addrs])
         /\ \A i \in DOMAIN res_work' :
              i \in Nat \ {0} /\ i + 1 \in DOMAIN res_work /\ res_work'[i] = res_work[i + 1]
         /\ \A i \in DOMAIN res_work :
              i \in Nat /\ (i # 1 => i - 1 \in DOMAIN res_work' /\ res_work'[i - 1] = res_work[i])
<1>1. res_work \in Seq(Request)
  BY DEF UsbInv, UsbTypeOK, Request
<1> DEFINE n == Len(res_work)
<1>2. /\ res_work' \in Seq(Request) /\ Head(res_work) = res_work[1] /\ res_work[1] \in Request
      /\ n \in Nat \ {0} /\ DOMAIN res_work = 1 .. n
      /\ DOMAIN res_work' = 1 .. n - 1
      /\ \A i \in 1 .. n - 1 : res_work'[i] = res_work[i + 1]
  BY <1>1, PopFacts
<1> HIDE DEF n
<1>3. \A i \in 1 .. n - 1 : i \in Nat \ {0} /\ i + 1 \in 1 .. n
  BY <1>2
<1>4. \A i \in 1 .. n : i \in Nat /\ (i # 1 => i - 1 \in 1 .. n - 1 /\ (i - 1) + 1 = i)
  BY <1>2
<1>5. \A i \in 1 .. n : i # 1 => res_work'[i - 1] = res_work[i]
  BY <1>2, <1>4
<1>6. 1 \in 1 .. n
  BY <1>2
<1> QED BY <1>2, <1>3, <1>4, <1>5, <1>6 DEF Request

LEMMA LockTakenStep ==
  ASSUME UsbInv, LockTaken
  PROVE  UsbInv'
<1> DEFINE a == Head(res_work).addr
<1>1. UsbTypeOK /\ LockAsked /\ LockAnswered /\ OwnersOpen /\ NoLockLeaked /\ UnlocksApart /\ FoundAddr
  BY DEF UsbInv
<1>2. /\ res_work # <<>> /\ Head(res_work).lock /\ res_work' = Tail(res_work)
      /\ UNCHANGED <<plugged, plugs, open, owner, registered, mining, total_count, zombie_devs,
                     hotplug_mode, cancelled, cleaning, torn,
                     found_step, found_drv, found_addr, found_list>>
      /\ cancelled # "held"
  BY DEF LockTaken, detectVars, endVars
<1>3. PICK got \in BOOLEAN :
        /\ replies' = <<[addr |-> a, got |-> got]>> \o replies
        /\ in_use' = IF got THEN in_use \union {a} ELSE in_use
  BY DEF LockTaken
<1>4. /\ Head(res_work) = res_work[1] /\ res_work[1] \in Request /\ 1 \in DOMAIN res_work
      /\ res_work' \in Seq([lock : BOOLEAN, addr : Addrs])
      /\ \A i \in DOMAIN res_work' :
           i \in Nat \ {0} /\ i + 1 \in DOMAIN res_work /\ res_work'[i] = res_work[i + 1]
      /\ \A i \in DOMAIN res_work :
           i \in Nat /\ (i # 1 => i - 1 \in DOMAIN res_work' /\ res_work'[i - 1] = res_work[i])
  BY <1>2, Served
<1>5. /\ a \in Addrs /\ a = found_addr /\ found_step = "reply" /\ replies = <<>> /\ a \notin in_use
      /\ \A j \in DOMAIN res_work : res_work[j].lock => j = 1
  BY <1>1, <1>2, <1>4 DEF LockAsked, Request
<1> DEFINE r == [addr |-> a, got |-> got]
<1>6. /\ replies' = <<r>> /\ r.addr = a /\ r.got = got /\ r \in [addr : Addrs, got : BOOLEAN]
  <2>1. <<r>> \o <<>> = <<r>>
    OBVIOUS
  <2> QED BY <1>3, <1>5, <2>1
<1> HIDE DEF a, r
<1>7. /\ replies' \in Seq([addr : Addrs, got : BOOLEAN]) /\ Len(replies') = 1 /\ replies'[1] = r
      /\ replies' # <<>>
  BY <1>6
<1>8. \A i \in DOMAIN res_work' : ~res_work'[i].lock
  <2> SUFFICES ASSUME NEW i \in DOMAIN res_work', res_work'[i].lock PROVE FALSE
    OBVIOUS
  <2>1. i + 1 = 1 /\ i \in Nat \ {0}
    BY <1>4, <1>5
  <2> QED BY <2>1
<1>9. UsbTypeOK' /\ FoundAddr' /\ OwnersOpen'
  <2>1. in_use' \subseteq Addrs
    BY <1>1, <1>3, <1>5 DEF UsbTypeOK
  <2> QED BY <1>1, <1>2, <1>4, <1>7, <2>1 DEF UsbTypeOK, FoundAddr, OwnersOpen
<1>10. LockAsked' /\ LockAnswered'
  <2>1. LockAsked'
    BY <1>8 DEF LockAsked
  <2>2. LockAnswered'
    BY <1>2, <1>3, <1>5, <1>6, <1>7 DEF LockAnswered
  <2> QED BY <2>1, <2>2
<1>11. NoLockLeaked'
  <2> SUFFICES ASSUME NEW b \in in_use', b \notin open, ~Looking(b) PROVE Asked(b)'
    BY <1>2 DEF NoLockLeaked, Looking
  <2>1. b # a /\ b \in in_use
    BY <1>3, <1>5 DEF Looking
  <2>2. PICK i \in DOMAIN res_work : res_work[i] = [lock |-> FALSE, addr |-> b]
    BY <1>1, <1>2, <2>1 DEF NoLockLeaked, Asked
  <2>3. i # 1
    BY <1>2, <1>4, <2>2
  <2>4. i - 1 \in DOMAIN res_work' /\ res_work'[i - 1] = [lock |-> FALSE, addr |-> b]
    BY <1>4, <2>2, <2>3
  <2> QED BY <2>4 DEF Asked
<1>12. UnlocksApart'
  <2> SUFFICES ASSUME ~torn' PROVE UnlocksApart'
    BY DEF UnlocksApart
  <2>1. /\ open \subseteq in_use /\ found_addr \notin open
        /\ \A i \in DOMAIN res_work : ~res_work[i].lock => UnlockOnce(i)
    BY <1>1, <1>2, <1>5 DEF UnlocksApart
  <2>2. ASSUME NEW i \in DOMAIN res_work' PROVE UnlockOnce(i)'
    <3>1. /\ i + 1 \in DOMAIN res_work /\ res_work'[i] = res_work[i + 1] /\ ~res_work[i + 1].lock
          /\ UnlockOnce(i + 1) /\ i \in Nat
      BY <1>4, <1>8, <2>1
    <3>2. res_work'[i].addr \in in_use' \ open
      BY <1>3, <3>1 DEF UnlockOnce
    <3>3. ASSUME NEW j \in DOMAIN res_work', res_work'[j].addr = res_work'[i].addr PROVE j = i
      <4>1. j + 1 \in DOMAIN res_work /\ res_work'[j] = res_work[j + 1] /\ ~res_work[j + 1].lock /\ j \in Nat
        BY <1>4, <1>8
      <4>2. j + 1 = i + 1
        BY <3>1, <3>3, <4>1 DEF UnlockOnce
      <4> QED BY <3>1, <4>1, <4>2
    <3> QED BY <1>2, <3>1, <3>2, <3>3 DEF UnlockOnce, Looking
  <2>3. replies'[1].got => found_addr \in in_use'
    BY <1>3, <1>5, <1>6, <1>7
  <2>4. open \subseteq in_use'
    BY <1>3, <2>1
  <2> QED BY <1>2, <1>5, <2>1, <2>2, <2>3, <2>4 DEF UnlocksApart
<1> QED BY <1>9, <1>10, <1>11, <1>12 DEF UsbInv

LEMMA LockGivenStep ==
  ASSUME UsbInv, LockGiven
  PROVE  UsbInv'
<1> DEFINE a == Head(res_work).addr
<1>1. UsbTypeOK /\ LockAsked /\ LockAnswered /\ OwnersOpen /\ NoLockLeaked /\ UnlocksApart /\ FoundAddr
  BY DEF UsbInv
<1>2. /\ res_work # <<>> /\ ~Head(res_work).lock /\ res_work' = Tail(res_work)
      /\ in_use' = in_use \ {a}
      /\ UNCHANGED <<plugged, plugs, replies, open, owner, registered, mining, total_count, zombie_devs,
                     hotplug_mode, cancelled, cleaning, torn,
                     found_step, found_drv, found_addr, found_list>>
      /\ cancelled # "held"
  BY DEF LockGiven, detectVars, endVars
<1>3. /\ Head(res_work) = res_work[1] /\ res_work[1] \in Request /\ 1 \in DOMAIN res_work
      /\ res_work' \in Seq([lock : BOOLEAN, addr : Addrs])
      /\ \A i \in DOMAIN res_work' :
           i \in Nat \ {0} /\ i + 1 \in DOMAIN res_work /\ res_work'[i] = res_work[i + 1]
      /\ \A i \in DOMAIN res_work :
           i \in Nat /\ (i # 1 => i - 1 \in DOMAIN res_work' /\ res_work'[i - 1] = res_work[i])
  BY <1>2, Served
<1>4. a \in Addrs /\ a = res_work[1].addr /\ ~res_work[1].lock
  BY <1>2, <1>3 DEF Request
<1> HIDE DEF a
<1>5. UsbTypeOK' /\ FoundAddr' /\ OwnersOpen'
  BY <1>1, <1>2, <1>3 DEF UsbTypeOK, FoundAddr, OwnersOpen
<1>6. LockAsked'
  <2> SUFFICES ASSUME NEW i \in DOMAIN res_work', res_work'[i].lock
               PROVE  /\ found_step = "reply" /\ res_work'[i].addr = found_addr
                      /\ replies = <<>> /\ found_addr \notin in_use'
                      /\ \A j \in DOMAIN res_work' : res_work'[j].lock => j = i
    BY <1>2 DEF LockAsked
  <2>1. i + 1 \in DOMAIN res_work /\ res_work'[i] = res_work[i + 1] /\ i \in Nat
    BY <1>3
  <2>2. /\ found_step = "reply" /\ res_work'[i].addr = found_addr
        /\ replies = <<>> /\ found_addr \notin in_use'
        /\ \A j \in DOMAIN res_work : res_work[j].lock => j = i + 1
    BY <1>1, <1>2, <2>1 DEF LockAsked
  <2>3. ASSUME NEW j \in DOMAIN res_work', res_work'[j].lock PROVE j = i
    <3>1. j + 1 = i + 1 /\ j \in Nat
      BY <1>3, <2>2, <2>3
    <3> QED BY <2>1, <3>1
  <2> QED BY <2>2, <2>3
<1>7. LockAnswered'
  BY <1>1, <1>2 DEF LockAnswered
<1>8. NoLockLeaked'
  <2> SUFFICES ASSUME NEW b \in in_use', b \notin open, ~Looking(b) PROVE Asked(b)'
    BY <1>2 DEF NoLockLeaked, Looking
  <2>1. b # a /\ b \in in_use
    BY <1>2
  <2>2. PICK i \in DOMAIN res_work : res_work[i] = [lock |-> FALSE, addr |-> b]
    BY <1>1, <1>2, <2>1 DEF NoLockLeaked, Asked
  <2>3. i # 1
    BY <1>4, <2>1, <2>2
  <2>4. i - 1 \in DOMAIN res_work' /\ res_work'[i - 1] = [lock |-> FALSE, addr |-> b]
    BY <1>3, <2>2, <2>3
  <2> QED BY <2>4 DEF Asked
<1>9. UnlocksApart'
  <2> SUFFICES ASSUME ~torn' PROVE UnlocksApart'
    BY DEF UnlocksApart
  <2>1. /\ open \subseteq in_use
        /\ \A i \in DOMAIN res_work : ~res_work[i].lock => UnlockOnce(i)
        /\ found_step \in {"init", "talk", "failed"} => found_addr \in in_use
        /\ found_step \in {"reply", "init", "failed"} => found_addr \notin open
        /\ replies # <<>> => (replies[1].got => found_addr \in in_use)
    BY <1>1, <1>2 DEF UnlocksApart
  <2>2. a \notin open /\ ~Looking(a) /\ \A j \in DOMAIN res_work :
          ~res_work[j].lock /\ res_work[j].addr = a => j = 1
    BY <1>3, <1>4, <2>1 DEF UnlockOnce
  <2>3. ASSUME NEW i \in DOMAIN res_work', ~res_work'[i].lock PROVE UnlockOnce(i)'
    <3>1. /\ i + 1 \in DOMAIN res_work /\ res_work'[i] = res_work[i + 1] /\ ~res_work[i + 1].lock
          /\ UnlockOnce(i + 1) /\ i \in Nat \ {0}
      BY <1>3, <2>1, <2>3
    <3>2. res_work'[i].addr # a
      <4>1. i + 1 # 1
        BY <3>1
      <4> QED BY <2>2, <3>1, <4>1
    <3>3. res_work'[i].addr \in in_use' \ open
      BY <1>2, <3>1, <3>2 DEF UnlockOnce
    <3>4. ASSUME NEW j \in DOMAIN res_work', ~res_work'[j].lock, res_work'[j].addr = res_work'[i].addr PROVE j = i
      <4>1. j + 1 \in DOMAIN res_work /\ res_work'[j] = res_work[j + 1] /\ j \in Nat
        BY <1>3
      <4>2. j + 1 = i + 1
        BY <3>1, <3>4, <4>1 DEF UnlockOnce
      <4> QED BY <3>1, <4>1, <4>2
    <3> QED BY <1>2, <3>1, <3>3, <3>4 DEF UnlockOnce, Looking
  <2>4. open \subseteq in_use'
    BY <1>2, <2>1, <2>2
  <2>5. found_step \in {"init", "talk", "failed"} => found_addr \in in_use'
    BY <1>2, <2>1, <2>2 DEF Looking
  <2>6. replies # <<>> => (replies[1].got => found_addr \in in_use')
    BY <1>1, <1>2, <2>1, <2>2 DEF Looking, LockAnswered
  <2> QED BY <1>2, <2>1, <2>3, <2>4, <2>5, <2>6 DEF UnlocksApart
<1> QED BY <1>5, <1>6, <1>7, <1>8, <1>9 DEF UsbInv

LEMMA TakeReplyStep ==
  ASSUME UsbInv, TakeReply
  PROVE  UsbInv'
<1>1. UsbTypeOK /\ LockAsked /\ LockAnswered /\ OwnersOpen /\ NoLockLeaked /\ UnlocksApart /\ FoundAddr
  BY DEF UsbInv
<1>2. PICK i \in DOMAIN replies :
        /\ found_step' = IF replies[i].got THEN "init" ELSE "next"
        /\ replies' = RemoveAt(replies, i)
  BY DEF TakeReply
<1>3. /\ found_step = "reply"
      /\ UNCHANGED <<plugged, plugs, in_use, res_work, found_drv, found_addr, found_list, open,
                     owner, registered, mining, total_count, zombie_devs,
                     hotplug_mode, cancelled, cleaning, torn>>
  BY DEF TakeReply, endVars
<1>4. Len(replies) = 1 /\ i = 1 /\ replies \in Seq([addr : Addrs, got : BOOLEAN])
  <2>1. replies # <<>> /\ replies \in Seq([addr : Addrs, got : BOOLEAN])
    BY <1>1 DEF UsbTypeOK
  <2>2. Len(replies) = 1
    BY <1>1, <2>1 DEF LockAnswered
  <2> QED BY <2>1, <2>2
<1>5. replies' = <<>>
  BY <1>2, <1>4 DEF RemoveAt
<1>6. \A j \in DOMAIN res_work : ~res_work[j].lock
  BY <1>1, <1>4 DEF LockAsked
<1>7. UsbTypeOK' /\ FoundAddr' /\ OwnersOpen'
  <2>1. replies' \in Seq([addr : Addrs, got : BOOLEAN]) /\ found_step' \in {"init", "next"}
    BY <1>2, <1>5
  <2>2. found_addr \in Addrs
    BY <1>1, <1>3 DEF FoundAddr
  <2> QED BY <1>1, <1>3, <2>1, <2>2 DEF UsbTypeOK, FoundAddr, OwnersOpen, DetectSteps
<1>8. LockAsked' /\ LockAnswered'
  BY <1>3, <1>5, <1>6 DEF LockAsked, LockAnswered
<1>9. NoLockLeaked'
  <2>1. replies[1].got \/ found_addr \notin in_use
    BY <1>1, <1>4 DEF LockAnswered
  <2> QED BY <1>1, <1>2, <1>3, <1>4, <2>1 DEF NoLockLeaked, Looking, Asked
<1>10. UnlocksApart'
  <2> SUFFICES ASSUME ~torn' PROVE UnlocksApart'
    BY DEF UnlocksApart
  <2>1. /\ open \subseteq in_use /\ found_addr \notin open
        /\ \A j \in DOMAIN res_work : ~res_work[j].lock => UnlockOnce(j)
        /\ replies[1].got => found_addr \in in_use
    BY <1>1, <1>3, <1>4 DEF UnlocksApart
  <2>2. \A j \in DOMAIN res_work : UnlockOnce(j)'
    BY <1>2, <1>3, <1>6, <2>1 DEF UnlockOnce, Looking
  <2> QED BY <1>2, <1>3, <1>4, <1>5, <2>1, <2>2 DEF UnlocksApart
<1> QED BY <1>7, <1>8, <1>9, <1>10 DEF UsbInv

LEMMA UsbSteps == UsbInv /\ [UsbNext]_usbVars => UsbInv'
<1> SUFFICES ASSUME UsbInv, [UsbNext]_usbVars PROVE UsbInv'
  OBVIOUS
<1>1. ASSUME NEW a \in Addrs, LookAt(a) PROVE UsbInv'
  BY <1>1, LookAtStep
<1>2. CASE UNCHANGED usbVars
  <2>1. UNCHANGED <<plugged, plugs, in_use, res_work, replies, found_step, found_drv, found_addr,
                    found_list, open, owner, registered, mining, total_count, zombie_devs,
                    hotplug_mode, cancelled, cleaning, torn>>
    BY <1>2 DEF usbVars
  <2>2. UsbTypeOK /\ LockAsked /\ LockAnswered /\ OwnersOpen /\ NoLockLeaked /\ UnlocksApart /\ FoundAddr
    BY DEF UsbInv
  <2>3. UsbTypeOK' /\ FoundAddr' /\ OwnersOpen'
    BY <2>1, <2>2 DEF UsbTypeOK, FoundAddr, OwnersOpen
  <2>4. LockAsked' /\ LockAnswered' /\ NoLockLeaked'
    BY <2>1, <2>2 DEF LockAsked, LockAnswered, NoLockLeaked, Looking, Asked
  <2>5. UnlocksApart'
    BY <2>1, <2>2 DEF UnlocksApart, UnlockOnce, Looking
  <2> QED BY <2>3, <2>4, <2>5 DEF UsbInv
<1> QED BY <1>1, <1>2, QuietSteps, UnlockSteps, LockTakenStep, LockGivenStep, TakeReplyStep DEF UsbNext

LEMMA CleanedUpSteps == UsbInv /\ CleanedUp /\ [UsbNext]_usbVars => CleanedUp'
<1> SUFFICES ASSUME UsbInv, CleanedUp, [UsbNext]_usbVars PROVE CleanedUp'
  OBVIOUS
<1>1. UsbTypeOK /\ OwnersOpen
  BY DEF UsbInv
<1>2. CASE UNCHANGED usbVars
  BY <1>2 DEF usbVars, CleanedUp
<1>3. CASE \E a \in Addrs : TransferFails(a) \/ CleanupReleases(a)
  BY <1>1, <1>3
     DEF TransferFails, CleanupReleases, Release, Freed, CleanedUp, detectVars, endVars
<1>4. CASE \E a \in Addrs : Unplug(a) \/ Plug(a) \/ LookAt(a) \/ StartThreads(a) \/ CountDevice(a)
  BY <1>1, <1>4
     DEF Unplug, Plug, LookAt, StartThreads, CountDevice, CleanedUp, detectVars, endVars
<1>5. CASE LockTaken \/ LockGiven \/ Cleanup \/ CleanupEnds \/ \E held \in BOOLEAN : HotplugCancelled(held)
  BY <1>1, <1>5
     DEF LockTaken, LockGiven, Cleanup, CleanupEnds, HotplugCancelled, CleanedUp, detectVars, endVars
<1>6. CASE Search \/ Searched \/ TakeReply \/ UsbRefused \/ UsbClaims \/ NotDetected
  BY <1>1, <1>6
     DEF Search, Searched, TakeReply, UsbRefused, UsbClaims, NotDetected, CleanedUp, endVars
<1>7. CASE TalkTorn \/ TalkFails \/ Detected
  BY <1>1, <1>7 DEF TalkTorn, TalkFails, Detected, Release, Freed, CleanedUp, endVars
<1> QED BY <1>2, <1>3, <1>4, <1>5, <1>6, <1>7 DEF UsbNext

(* usb_detect, release_cgpu, usb_cleanup and the resource thread: for any  *)
(* devices and wherever the detecting thread is cancelled, whoever has the *)
(* lock of a device uses it, is detecting it or has asked for the unlock;  *)
(* an open device is locked, unless one failed in the middle of its        *)
(* detection; and usb_cleanup gives back all locks but that of the device  *)
(* whose detection was cut off, and those of devices not yet registered.   *)
(* If the thread was cancelled with cgusbres_lock held, only the second.   *)
THEOREM LocksAreKept == UsbSpec => []UsbLocksKept
<1>1. UsbInit => CleanedUp
  BY DEF UsbInit, CleanedUp
<1>2. UsbInv /\ CleanedUp => UsbLocksKept
  <2> SUFFICES ASSUME UsbInv, CleanedUp PROVE UsbLocksKept
    OBVIOUS
  <2>1. UsbTypeOK /\ NoLockLeaked /\ ClaimedIsLocked
    BY DEF UsbInv, UnlocksApart, ClaimedIsLocked
  <2>2. GivenBack
    <3> SUFFICES ASSUME cleaning = "done", cancelled = "free", res_work = <<>>, NEW a \in in_use
                 PROVE  Looking(a) \/ a \in owner \ registered
      BY DEF GivenBack
    <3>1. ~Asked(a)
      BY DEF Asked
    <3> QED BY <2>1, <3>1 DEF NoLockLeaked, CleanedUp, Looking
  <2> QED BY <2>1, <2>2 DEF UsbLocksKept
<1> QED BY <1>1, <1>2, UsbInitially, UsbSteps, CleanedUpSteps, PTL DEF UsbSpec

-----------------------------------------------------------------------------
(* Sequences of bytes. *)
Byte == 0..NBytes
Appended(a, b) ==
  /\ a \o b \in Seq(Byte) /\ Len(a \o b) = Len(a) + Len(b)
  /\ \A i \in 1..Len(a) : (a \o b)[i] = a[i]
  /\ \A i \in 1..Len(b) : (a \o b)[Len(a) + i] = b[i]
LEMMA AppendBytes ==
  ASSUME NEW a \in Seq(Byte), NEW b \in Seq(Byte)
  PROVE  Appended(a, b)
<1>1. /\ a \o b \in Seq(Byte)
      /\ Len(a \o b) = Len(a) + Len(b)
      /\ \A i \in 1 .. Len(a) + Len(b) : (a \o b)[i] = IF i <= Len(a) THEN a[i] ELSE b[i - Len(a)]
  BY ConcatProperties
<1>2. Len(a) \in Nat /\ Len(b) \in Nat
  BY LenProperties
<1>3. ASSUME NEW i \in 1..Len(a) PROVE (a \o b)[i] = a[i]
  <2>1. i \in 1 .. Len(a) + Len(b) /\ i <= Len(a)
    BY <1>2
  <2> QED BY <1>1, <2>1
<1>4. ASSUME NEW i \in 1..Len(b) PROVE (a \o b)[Len(a) + i] = b[i]
  <2>1. Len(a) + i \in 1 .. Len(a) + Len(b) /\ ~(Len(a) + i <= Len(a)) /\ Len(a) + i - Len(a) = i
    BY <1>2
  <2> QED BY <1>1, <2>1
<1> QED BY <1>1, <1>3, <1>4 DEF Appended

LEMMA AppendTwice ==
  ASSUME NEW a \in Seq(Byte), NEW b \in Seq(Byte), NEW c \in Seq(Byte)
  PROVE  (a \o b) \o c = a \o (b \o c)
  BY ConcatAssociative

Cut(s, n) ==
  /\ SubSeq(s, 1, n) \in Seq(Byte) /\ Len(SubSeq(s, 1, n)) = n
  /\ SubSeq(s, n + 1, Len(s)) \in Seq(Byte) /\ Len(SubSeq(s, n + 1, Len(s))) = Len(s) - n
  /\ \A i \in 1..n : SubSeq(s, 1, n)[i] = s[i]
  /\ SubSeq(s, 1, n) \o SubSeq(s, n + 1, Len(s)) = s
LEMMA CutBytes ==
  ASSUME NEW s \in Seq(Byte), NEW n \in 0..Len(s)
  PROVE  Cut(s, n)
<1>0. Len(s) \in Nat /\ n \in Int /\ \A i \in 1..Len(s) : s[i] \in Byte
  BY LenProperties
<1> DEFINE a == SubSeq(s, 1, n)
           b == SubSeq(s, n + 1, Len(s))
<1>1. a \in Seq(Byte) /\ Len(a) = n /\ \A i \in 1..n : a[i] = s[i]
  <2>1. \A i \in 1..n : s[i] \in Byte
    BY <1>0
  <2>2. /\ a \in Seq(Byte) /\ Len(a) = IF 1 <= n THEN n - 1 + 1 ELSE 0
        /\ \A i \in 1 .. n - 1 + 1 : a[i] = s[1 + i - 1]
    BY <1>0, <2>1, SubSeqProperties
  <2> HIDE DEF a
  <2>3. n - 1 + 1 = n /\ \A i \in 1..n : 1 + i - 1 = i
    BY <1>0
  <2> QED BY <1>0, <2>2, <2>3
<1>2. b \in Seq(Byte) /\ Len(b) = Len(s) - n /\ \A i \in 1..Len(s) - n : b[i] = s[n + i]
  <2>1. \A i \in n + 1 .. Len(s) : s[i] \in Byte
    BY <1>0
  <2>2. /\ b \in Seq(Byte) /\ Len(b) = IF n + 1 <= Len(s) THEN Len(s) - (n + 1) + 1 ELSE 0
        /\ \A i \in 1 .. Len(s) - (n + 1) + 1 : b[i] = s[n + 1 + i - 1]
    BY <1>0, <2>1, SubSeqProperties
  <2> HIDE DEF b
  <2>3. Len(s) - (n + 1) + 1 = Len(s) - n /\ \A i \in 1..Len(s) - n : n + 1 + i - 1 = n + i
    BY <1>0
  <2>4. Len(b) = Len(s) - n
    BY <1>0, <2>2
  <2> QED BY <2>2, <2>3, <2>4
<1> HIDE DEF a, b
<1>3. a \o b = s
  <2>1. Appended(a, b)
    BY <1>1, <1>2, AppendBytes
  <2>2. Len(a \o b) = Len(s) /\ a \o b \in Seq(Byte)
    BY <1>0, <1>1, <1>2, <2>1 DEF Appended
  <2>3. ASSUME NEW i \in 1..Len(s) PROVE (a \o b)[i] = s[i]
    <3>1. CASE i <= n
      BY <1>0, <1>1, <2>1, <3>1 DEF Appended
    <3>2. CASE i > n
      <4>1. i - n \in 1..Len(s) - n /\ n + (i - n) = i
        BY <1>0, <3>2
      <4>2. (a \o b)[n + (i - n)] = b[i - n]
        BY <1>1, <1>2, <2>1, <4>1 DEF Appended
      <4>3. b[i - n] = s[n + (i - n)]
        BY <1>2, <4>1
      <4> QED BY <4>1, <4>2, <4>3
    <3>3. i <= n \/ i > n
      BY <1>0
    <3> QED BY <3>1, <3>2, <3>3
  <2> QED BY <1>0, <2>2, <2>3, SeqEqual
<1> QED BY <1>1, <1>2, <1>3 DEF Cut, a, b

(* The first end of a line. *)

LEMMA EndIsFirst ==
  ASSUME NEW s \in Seq(Byte), HasEnd(s)
  PROVE  /\ FirstEnd(s) \in 1..Len(s) /\ s[FirstEnd(s)] \in Ends
         /\ \A j \in 1..FirstEnd(s) - 1 : s[j] \notin Ends
<1>0. DOMAIN s = 1..Len(s) /\ Len(s) \in Nat
  BY LenProperties
<1> DEFINE T == {i \in DOMAIN s : s[i] \in Ends}
<1>1. PICK i \in T : \A j \in T : i <= j
  <2>1. T # {} /\ T \in SUBSET Nat
    BY <1>0 DEF HasEnd
  <2> HIDE DEF T
  <2> QED BY <2>1, LeastNat
<1>2. i \in DOMAIN s /\ s[i] \in Ends /\ \A j \in 1..(i - 1) : s[j] \notin Ends
  BY <1>0, <1>1
<1>3. /\ FirstEnd(s) \in DOMAIN s /\ s[FirstEnd(s)] \in Ends
      /\ \A j \in 1..(FirstEnd(s) - 1) : s[j] \notin Ends
  BY <1>2 DEF FirstEnd
<1> QED BY <1>0, <1>3

\* A sequence in which only the last byte may end a line.
LEMMA EndIsLast ==
  ASSUME NEW s \in Seq(Byte), HasEnd(s), \A j \in 1..Len(s) - 1 : s[j] \notin Ends
  PROVE  FirstEnd(s) = Len(s)
<1>1. FirstEnd(s) \in 1..Len(s) /\ s[FirstEnd(s)] \in Ends /\ Len(s) \in Nat
  BY EndIsFirst, LenProperties
<1>2. FirstEnd(s) \notin 1..Len(s) - 1
  BY <1>1
<1> QED BY <1>1, <1>2

----------------------------------------------------------------------------
(* The reads. *)
Transferring == {"line", "once", "raw"}
ReadTypes ==
  /\ sent \in 0..NBytes /\ taken \in 0..sent
  /\ usb_buffer \in Seq(Byte) /\ usbbuf \in Seq(Byte) /\ expected \in Seq(Byte) /\ delivered \in Seq(Byte)
  /\ kind \in Transferring \union {"none", "finish line", "finish raw"}
  /\ bufsiz \in 0..USB_MAX_READ /\ ptr \in 0..Len(usbbuf) /\ bufleft \in Int
  /\ Len(usbbuf) <= USB_MAX_READ /\ Len(usb_buffer) <= USB_MAX_READ

\* Where the bytes are that no read has returned yet.
Pending == IF kind = "none" THEN usb_buffer ELSE usbbuf
ReadInv ==
  /\ ReadTypes
  /\ kind # "none" => usb_buffer = <<>>
  /\ delivered \o Pending = expected
  /\ ~buffered => usb_buffer = <<>>
  /\ kind \in Transferring => bufleft > 0 /\ (~buffered => Len(usbbuf) = bufsiz - bufleft)
  /\ kind \in {"once", "raw", "finish raw"} => bufsiz \in RawSizes

\* Reads that do not stop at the end of a line ask for as much as the buffer holds.
RawReadsAreFull == buffered => RawSizes \subseteq {USB_MAX_READ}

LEMMA NoBytes == <<>> \in Seq(Byte) /\ Len(<<>>) = 0
  BY EmptySeq
LEMMA AppendNothing ==
  ASSUME NEW a \in Seq(Byte) PROVE a \o <<>> = a /\ <<>> \o a = a
  BY ConcatEmptySeq

LEMMA ReadInitially == UsbReadInit => ReadInv
<1> SUFFICES ASSUME UsbReadInit PROVE ReadInv
  OBVIOUS
<1>0. NBytes \in Nat /\ USB_MAX_READ \in Nat \ {0}
  BY UsbReadAssumption
<1>1. /\ usb_buffer = <<>> /\ usbbuf = <<>> /\ expected = <<>> /\ delivered = <<>>
      /\ sent = 0 /\ taken = 0 /\ kind = "none" /\ bufsiz = 0 /\ ptr = 0 /\ bufleft = 0
  BY DEF UsbReadInit
<1>2. ReadTypes
  BY <1>0, <1>1, NoBytes DEF ReadTypes
<1>3. delivered \o Pending = expected
  BY <1>1, NoBytes, AppendNothing DEF Pending
<1> QED BY <1>1, <1>2, <1>3 DEF ReadInv, Transferring

\* The bytes of a transfer.
Arrived(got) == [i \in 1..got |-> taken + i]
LEMMA ArrivedBytes ==
  ASSUME ReadTypes, NEW got \in Nat, got <= sent - taken
  PROVE  Arrived(got) \in Seq(Byte) /\ Len(Arrived(got)) = got
<1>1. NBytes \in Nat /\ sent \in 0..NBytes /\ taken \in 0..sent
  BY UsbReadAssumption DEF ReadTypes
<1>2. \A i \in 1..got : taken + i \in Byte
  BY <1>1 DEF Byte
<1> QED BY <1>2 DEF Arrived

LEMMA TransferSteps ==
  ASSUME ReadInv, NEW got \in Nat, NEW stop \in BOOLEAN, NEW over \in BOOLEAN,
         kind \in Transferring, usb_bulk_transfer(got, Room), Advance(got, stop, over)
  PROVE  ReadInv'
<1>0. NBytes \in Nat /\ USB_MAX_READ \in Nat \ {0} /\ buffered \in BOOLEAN
  BY UsbReadAssumption
<1>1. /\ sent \in 0..NBytes /\ taken \in 0..sent /\ bufsiz \in 0..USB_MAX_READ /\ ptr \in 0..Len(usbbuf)
      /\ usbbuf \in Seq(Byte) /\ expected \in Seq(Byte) /\ delivered \in Seq(Byte) /\ usb_buffer = <<>>
      /\ bufleft \in Int /\ bufleft > 0 /\ Len(usbbuf) <= USB_MAX_READ
      /\ (~buffered => Len(usbbuf) = bufsiz - bufleft)
      /\ delivered \o usbbuf = expected
  BY DEF ReadInv, ReadTypes, Pending, Transferring
<1>2. /\ got <= sent - taken /\ got <= Room /\ taken' = taken + got
      /\ expected' = expected \o Arrived(got) /\ usbbuf' = usbbuf \o Arrived(got)
      /\ ptr' = (IF stop THEN ptr ELSE ptr + got)
      /\ bufleft' = (IF stop THEN bufleft ELSE bufleft - got)
      /\ kind' = (IF stop \/ over \/ bufleft' <= 0 THEN FinishOf(kind) ELSE kind)
      /\ sent' = sent /\ usb_buffer' = usb_buffer /\ bufsiz' = bufsiz /\ delivered' = delivered
  BY DEF usb_bulk_transfer, Advance, Arrived
<1>3. Arrived(got) \in Seq(Byte) /\ Len(Arrived(got)) = got
  BY <1>2, ArrivedBytes DEF ReadInv
<1>4. usbbuf' \in Seq(Byte) /\ Len(usbbuf') = Len(usbbuf) + got
  <2>1. Appended(usbbuf, Arrived(got))
    BY <1>1, <1>3, AppendBytes
  <2> QED BY <1>2, <1>3, <2>1 DEF Appended
<1>5. expected' \in Seq(Byte)
  <2>1. Appended(expected, Arrived(got))
    BY <1>1, <1>3, AppendBytes
  <2> QED BY <1>2, <2>1 DEF Appended
<1>6. Len(usbbuf) \in Nat /\ Len(usbbuf') <= USB_MAX_READ
  <2>1. Len(usbbuf) \in Nat
    BY <1>1, LenProperties
  <2> QED BY <1>0, <1>1, <1>2, <1>4, <2>1 DEF Room
<1>7. delivered' \o usbbuf' = expected'
  <2>1. (delivered \o usbbuf) \o Arrived(got) = delivered \o (usbbuf \o Arrived(got))
    BY <1>1, <1>3, AppendTwice
  <2> QED BY <1>1, <1>2, <2>1
<1>8. kind' \in Transferring \union {"finish line", "finish raw"} /\ (kind' \in Transferring => kind' = kind /\ ~stop /\ bufleft' > 0)
  <2>1. CASE stop \/ over \/ bufleft' <= 0
    <3>1. kind' = FinishOf(kind)
      BY <1>2, <2>1
    <3> QED BY <3>1 DEF FinishOf, Transferring
  <2>2. CASE ~(stop \/ over \/ bufleft' <= 0)
    <3>1. kind' = kind /\ ~stop /\ bufleft' = bufleft - got
      BY <1>2, <2>2
    <3>2. bufleft' > 0
      BY <1>1, <2>2, <3>1
    <3> QED BY <3>1, <3>2
  <2> QED BY <2>1, <2>2
<1>9. ReadTypes'
  <2>1. sent' \in 0..NBytes /\ taken' \in 0..sent'
    BY <1>0, <1>1, <1>2
  <2>2. ptr' \in 0..Len(usbbuf') /\ bufleft' \in Int
    BY <1>1, <1>2, <1>4, <1>6
  <2>3. usb_buffer' \in Seq(Byte) /\ Len(usb_buffer') <= USB_MAX_READ
    BY <1>0, <1>1, <1>2, NoBytes
  <2> QED BY <1>1, <1>2, <1>4, <1>5, <1>6, <1>8, <2>1, <2>2, <2>3 DEF ReadTypes, Byte
<1>10. kind' \in {"once", "raw", "finish raw"} => bufsiz' \in RawSizes
  BY <1>2, <1>8 DEF ReadInv, FinishOf, Transferring
<1>11. kind' \in Transferring => bufleft' > 0 /\ (~buffered => Len(usbbuf') = bufsiz' - bufleft')
  <2> SUFFICES ASSUME kind' \in Transferring PROVE bufleft' > 0 /\ (~buffered => Len(usbbuf') = bufsiz' - bufleft')
    OBVIOUS
  <2>1. ~stop /\ bufleft' > 0 /\ bufleft' = bufleft - got /\ bufsiz' = bufsiz
    BY <1>2, <1>8
  <2>2. bufsiz \in Int /\ bufleft \in Int /\ Len(usbbuf) \in Int /\ Len(usbbuf') = Len(usbbuf) + got
    BY <1>0, <1>1, <1>4, <1>6
  <2>3. ~buffered => Len(usbbuf) = bufsiz - bufleft
    BY <1>1
  <2>4. ~buffered => Len(usbbuf') = bufsiz' - bufleft'
    <3> DEFINE l == Len(usbbuf)
               m == Len(usbbuf')
    <3>1. l \in Int /\ m = l + got /\ (~buffered => l = bufsiz - bufleft)
      BY <2>2, <2>3
    <3> HIDE DEF l, m
    <3>2. ~buffered => m = bufsiz - (bufleft - got)
      BY <2>2, <3>1
    <3> QED BY <2>1, <3>2 DEF m
  <2> QED BY <2>1, <2>4
<1>12. (delivered \o Pending)' = expected' /\ (~buffered => usb_buffer' = <<>>) /\ (kind' # "none" => usb_buffer' = <<>>)
  BY <1>1, <1>2, <1>7, <1>8 DEF Pending, Transferring
<1> QED BY <1>9, <1>10, <1>11, <1>12 DEF ReadInv

\* A read returns its first n bytes and keeps the others.
LEMMA ReturnSteps ==
  ASSUME ReadInv, kind # "none", NEW n \in 0..Len(usbbuf), ~buffered => n = Len(usbbuf),
         Return(n, SubSeq(usbbuf, n + 1, Len(usbbuf)))
  PROVE  ReadInv'
<1>1. /\ usbbuf \in Seq(Byte) /\ delivered \in Seq(Byte) /\ expected \in Seq(Byte)
      /\ delivered \o usbbuf = expected /\ Len(usbbuf) <= USB_MAX_READ /\ Len(usbbuf) \in Nat
  BY LenProperties DEF ReadInv, ReadTypes, Pending
<1>2. Cut(usbbuf, n)
  BY <1>1, CutBytes
<1> DEFINE a == SubSeq(usbbuf, 1, n)
           b == SubSeq(usbbuf, n + 1, Len(usbbuf))
<1>3. a \in Seq(Byte) /\ b \in Seq(Byte) /\ Len(b) = Len(usbbuf) - n /\ a \o b = usbbuf
  BY <1>2 DEF Cut
<1>4. /\ usb_buffer' = b /\ delivered' = delivered \o a /\ kind' = "none"
      /\ bufsiz' = 0 /\ usbbuf' = <<>> /\ ptr' = 0 /\ bufleft' = 0
      /\ UNCHANGED <<sent, taken, expected>>
  BY DEF Return
<1> HIDE DEF a, b
<1>5. delivered' \in Seq(Byte)
  BY <1>1, <1>3, <1>4, AppendBytes DEF Appended
<1>6. delivered' \o usb_buffer' = expected'
  <2>1. (delivered \o a) \o b = delivered \o (a \o b)
    <3>1. delivered \in Seq(Byte) /\ a \in Seq(Byte) /\ b \in Seq(Byte)
      BY <1>1, <1>3
    <3> QED BY ONLY <3>1, AppendTwice
  <2> QED BY <1>1, <1>3, <1>4, <2>1
<1>7. ~buffered => usb_buffer' = <<>>
  <2>1. ~buffered => Len(b) = 0
    BY <1>1, <1>3
  <2>2. \A q \in Seq(Byte) : q # <<>> => Len(q) \in Nat \ {0}
    BY EmptySeq
  <2> QED BY <1>3, <1>4, <2>1, <2>2
<1>8. NBytes \in Nat /\ USB_MAX_READ \in Nat \ {0}
  BY UsbReadAssumption
<1>9. Len(usb_buffer') <= USB_MAX_READ
  BY <1>1, <1>3, <1>4, <1>8
<1>10. ReadTypes'
  <2>1. sent' \in 0..NBytes /\ taken' \in 0..sent' /\ expected' \in Seq(Byte)
    BY <1>1, <1>4 DEF ReadInv, ReadTypes
  <2>2. /\ usb_buffer' \in Seq(Byte) /\ usbbuf' \in Seq(Byte) /\ Len(usbbuf') = 0
        /\ bufsiz' \in 0..USB_MAX_READ /\ ptr' = 0 /\ bufleft' \in Int
    BY <1>3, <1>4, <1>8, NoBytes
  <2> QED BY <1>4, <1>5, <1>8, <1>9, <2>1, <2>2 DEF ReadTypes
<1> QED BY <1>4, <1>6, <1>7, <1>10 DEF ReadInv, Pending, Transferring

LEMMA BeginSteps ==
  ASSUME ReadInv, NEW k \in Transferring, NEW size, BeginRead(k, size) PROVE ReadInv'
<1>0. NBytes \in Nat /\ USB_MAX_READ \in Nat \ {0} /\ size \in 1..USB_MAX_READ
  BY UsbReadAssumption DEF BeginRead
<1>1. /\ usb_buffer \in Seq(Byte) /\ expected \in Seq(Byte) /\ delivered \in Seq(Byte)
      /\ delivered \o usb_buffer = expected /\ kind = "none" /\ Len(usb_buffer) <= USB_MAX_READ
      /\ (~buffered => usb_buffer = <<>>)
  BY DEF ReadInv, ReadTypes, Pending, BeginRead
<1>2. /\ bufsiz' = size /\ usbbuf' = usb_buffer /\ ptr' = Len(usb_buffer)
      /\ bufleft' = size - Len(usb_buffer) /\ usb_buffer' = <<>>
      /\ kind' = (IF bufleft' > 0 THEN k ELSE FinishOf(k))
      /\ UNCHANGED <<sent, taken, expected, delivered>>
  BY DEF BeginRead
<1>3. Len(usb_buffer) \in Nat
  BY <1>1, LenProperties
<1>4. kind' \in Transferring \union {"finish line", "finish raw"} /\ (kind' \in Transferring => bufleft' > 0)
  BY <1>2 DEF FinishOf, Transferring
<1>5. ReadTypes'
  <2>1. sent' \in 0..NBytes /\ taken' \in 0..sent'
    BY <1>2 DEF ReadInv, ReadTypes
  <2>2. usb_buffer' \in Seq(Byte) /\ Len(usb_buffer') <= USB_MAX_READ
    BY <1>0, <1>2, NoBytes
  <2>3. /\ usbbuf' \in Seq(Byte) /\ Len(usbbuf') <= USB_MAX_READ
        /\ ptr' \in 0..Len(usbbuf') /\ bufleft' \in Int /\ bufsiz' \in 0..USB_MAX_READ
    BY <1>0, <1>1, <1>2, <1>3
  <2> QED BY <1>1, <1>2, <1>4, <2>1, <2>2, <2>3 DEF ReadTypes
<1>6. kind' \in {"once", "raw", "finish raw"} => bufsiz' \in RawSizes
  BY <1>2 DEF BeginRead, FinishOf, Transferring
<1>7. ~buffered => Len(usbbuf') = bufsiz' - bufleft'
  BY <1>0, <1>1, <1>2, <1>3, NoBytes
<1> QED BY <1>1, <1>2, <1>4, <1>5, <1>6, <1>7 DEF ReadInv, Pending, Transferring

\* What FinishLine returns.
Returned1 ==
  LET upto == IF HasEnd(usbbuf) THEN FirstEnd(usbbuf) ELSE Len(usbbuf)
  IN  IF ~buffered THEN Len(usbbuf) ELSE IF upto > bufsiz THEN bufsiz ELSE upto
LEMMA ReturnedFacts ==
  ASSUME ReadTypes
  PROVE  /\ Returned1 \in 0..Len(usbbuf)
         /\ ~buffered => Returned1 = Len(usbbuf)
         /\ buffered => \A j \in 1..Returned1 - 1 : usbbuf[j] \notin Ends
<1>1. usbbuf \in Seq(Byte) /\ bufsiz \in 0..USB_MAX_READ /\ DOMAIN usbbuf = 1..Len(usbbuf) /\ Len(usbbuf) \in Nat
  BY LenProperties DEF ReadTypes
<1>2. USB_MAX_READ \in Nat
  BY UsbReadAssumption
<1>3. CASE HasEnd(usbbuf)
  <2>1. FirstEnd(usbbuf) \in 1..Len(usbbuf) /\ \A j \in 1..FirstEnd(usbbuf) - 1 : usbbuf[j] \notin Ends
    BY <1>1, <1>3, EndIsFirst
  <2>2. Returned1 = IF ~buffered THEN Len(usbbuf) ELSE IF FirstEnd(usbbuf) > bufsiz THEN bufsiz ELSE FirstEnd(usbbuf)
    BY <1>3 DEF Returned1
  <2> DEFINE e == FirstEnd(usbbuf)
             n == Len(usbbuf)
             q == Returned1
  <2>3. e \in 1..n /\ n \in Nat /\ bufsiz \in Nat /\ q = IF ~buffered THEN n ELSE IF e > bufsiz THEN bufsiz ELSE e
    BY <1>1, <1>2, <2>1, <2>2
  <2>4. \A j \in 1..e - 1 : usbbuf[j] \notin Ends
    BY <2>1
  <2> HIDE DEF e, n, q
  <2>5. q \in 0..n /\ (~buffered => q = n) /\ (buffered => q <= e /\ q \in Nat /\ e \in Nat)
    BY <2>3
  <2>6. buffered => \A j \in 1..q - 1 : usbbuf[j] \notin Ends
    BY <2>4, <2>5
  <2> QED BY <2>5, <2>6 DEF n, q
<1>4. CASE ~HasEnd(usbbuf)
  <2>1. \A j \in 1..Len(usbbuf) : usbbuf[j] \notin Ends
    BY <1>1, <1>4 DEF HasEnd
  <2> DEFINE n == Len(usbbuf)
             q == Returned1
  <2>2. n \in Nat /\ bufsiz \in Nat /\ q = IF ~buffered THEN n ELSE IF n > bufsiz THEN bufsiz ELSE n
    BY <1>1, <1>2, <1>4 DEF Returned1
  <2>3. \A j \in 1..n : usbbuf[j] \notin Ends
    BY <2>1
  <2> HIDE DEF n, q
  <2>4. q \in 0..n /\ (~buffered => q = n)
    BY <2>2
  <2>5. \A j \in 1..q - 1 : usbbuf[j] \notin Ends
    BY <2>2, <2>3, <2>4
  <2> QED BY <2>4, <2>5 DEF n, q
<1> QED BY <1>3, <1>4

LEMMA ReadSteps ==
  ASSUME RawReadsAreFull PROVE ReadInv /\ [UsbReadNext]_usbReadVars => ReadInv'
<1> SUFFICES ASSUME ReadInv, [UsbReadNext]_usbReadVars PROVE ReadInv'
  OBVIOUS
<1>1. CASE DeviceSends
  <2>1. /\ sent' = sent + 1 /\ sent < NBytes /\ NBytes \in Nat
        /\ UNCHANGED <<taken, usb_buffer, kind, expected, delivered, bufsiz, usbbuf, ptr, bufleft>>
    BY <1>1, UsbReadAssumption DEF DeviceSends, localVars
  <2>2. ReadTypes'
    <3>1. sent' \in 0..NBytes /\ taken' \in 0..sent'
      <4>1. sent \in 0..NBytes /\ taken \in 0..sent
        BY DEF ReadInv, ReadTypes
      <4> QED BY <2>1, <4>1
    <3> QED BY <2>1, <3>1 DEF ReadInv, ReadTypes
  <2> QED BY <2>1, <2>2 DEF ReadInv, Pending
<1>2. CASE BufferClear
  <2>1. /\ kind = "none" /\ usb_buffer' = <<>> /\ expected' = <<>> /\ delivered' = <<>>
        /\ UNCHANGED <<sent, taken, kind, bufsiz, usbbuf, ptr, bufleft>>
    BY <1>2 DEF BufferClear, localVars
  <2>2. USB_MAX_READ \in Nat
    BY UsbReadAssumption
  <2>3. ReadTypes'
    BY <2>1, <2>2, NoBytes DEF ReadInv, ReadTypes
  <2>4. <<>> \o <<>> = <<>>
    BY NoBytes, AppendNothing
  <2> QED BY <2>1, <2>3, <2>4 DEF ReadInv, Pending, Transferring
<1>3. CASE \E k \in {"line", "once", "raw"}, size \in LineSizes \union RawSizes : BeginRead(k, size)
  BY <1>3, BeginSteps DEF Transferring
<1>4. ASSUME NEW got \in 0..Packet, NEW err \in BOOLEAN, NEW over \in BOOLEAN,
             TransferRaw(got, err, over) \/ TransferLine(got, err, over)
      PROVE  ReadInv'
  <2>1. got \in Nat
    BY UsbReadAssumption
  <2>2. CASE TransferRaw(got, err, over)
    <3>1. (err \/ kind = "once") \in BOOLEAN /\ kind \in Transferring
      BY <2>2 DEF TransferRaw, Transferring
    <3> QED BY <2>1, <2>2, <3>1, TransferSteps DEF TransferRaw
  <2>3. CASE TransferLine(got, err, over)
    <3>1. (err \/ HasEnd(usbbuf')) \in BOOLEAN /\ kind \in Transferring
      BY <2>3 DEF TransferLine, Transferring
    <3> QED BY <2>1, <2>3, <3>1, TransferSteps DEF TransferLine
  <2> QED BY <1>4, <2>2, <2>3
<1>5. CASE FinishRaw
  <2>1. kind = "finish raw" /\ bufsiz \in RawSizes
    BY <1>5 DEF FinishRaw, ReadInv
  <2>2. usbbuf \in Seq(Byte) /\ Len(usbbuf) \in Nat /\ Len(usbbuf) <= USB_MAX_READ /\ USB_MAX_READ \in Nat
    BY UsbReadAssumption, LenProperties DEF ReadInv, ReadTypes
  <2>3. ~(buffered /\ Len(usbbuf) > bufsiz)
    <3>1. buffered => bufsiz = USB_MAX_READ
      BY <2>1 DEF RawReadsAreFull
    <3> QED BY <2>2, <3>1
  <2>4. Return(Len(usbbuf) - 0, Beyond(usbbuf, ptr + bufsiz, 0))
    BY <1>5, <2>3 DEF FinishRaw
  <2>5. Beyond(usbbuf, ptr + bufsiz, 0) = <<>>
    BY DEF Beyond
  <2>6. SubSeq(usbbuf, Len(usbbuf) + 1, Len(usbbuf)) = <<>>
    BY <2>2, SubSeqEmpty
  <2>7. Return(Len(usbbuf), SubSeq(usbbuf, Len(usbbuf) + 1, Len(usbbuf)))
    <3>1. Len(usbbuf) - 0 = Len(usbbuf)
      BY <2>2
    <3> QED BY <2>4, <2>5, <2>6, <3>1
  <2>8. Len(usbbuf) \in 0..Len(usbbuf)
    BY <2>2
  <2> QED BY <2>1, <2>7, <2>8, ReturnSteps
<1>6. CASE FinishLine
  <2>1. kind # "none" /\ Return(Returned1, SubSeq(usbbuf, Returned1 + 1, Len(usbbuf)))
    BY <1>6 DEF FinishLine, Returned1
  <2>2. Returned1 \in 0..Len(usbbuf) /\ (~buffered => Returned1 = Len(usbbuf))
    BY ReturnedFacts DEF ReadInv
  <2> QED BY <2>1, <2>2, ReturnSteps
<1>7. CASE UNCHANGED usbReadVars
  BY <1>7 DEF usbReadVars, ReadInv, ReadTypes, Pending
<1> QED BY <1>1, <1>2, <1>3, <1>4, <1>5, <1>6, <1>7 DEF UsbReadNext

Lines ==
  buffered /\ kind = "finish line" =>
    LET new == SubSeq(delivered', Len(delivered) + 1, Len(delivered'))
    IN  HasEnd(new) => FirstEnd(new) = Len(new)
\* What a sequence is longer by.
LEMMA Suffix ==
  ASSUME NEW a \in Seq(Byte), NEW b \in Seq(Byte)
  PROVE  SubSeq(a \o b, Len(a) + 1, Len(a \o b)) = b
<1> DEFINE c == a \o b
           n == Len(a)
           m == Len(b)
           d == SubSeq(c, n + 1, Len(c))
<1>1. /\ n \in Nat /\ m \in Nat /\ c \in Seq(Byte) /\ Len(c) = n + m
      /\ \A i \in 1..m : c[n + i] = b[i]
  <2>1. Appended(a, b)
    BY AppendBytes
  <2> QED BY <2>1, LenProperties DEF Appended
<1>2. \A i \in n + 1 .. Len(c) : c[i] \in Byte
  BY <1>1, LenProperties
<1>3. /\ d \in Seq(Byte) /\ Len(d) = (IF n + 1 <= Len(c) THEN Len(c) - (n + 1) + 1 ELSE 0)
      /\ \A i \in 1 .. Len(c) - (n + 1) + 1 : d[i] = c[n + 1 + i - 1]
  <2> HIDE DEF c, n, m
  <2> QED BY <1>1, <1>2, SubSeqProperties
<1> HIDE DEF c, n, m, d
<1>4. Len(d) = m /\ \A i \in 1..m : d[i] = b[i]
  <2>1. Len(c) - (n + 1) + 1 = m /\ (n + 1 <= Len(c) <=> 1 <= m) /\ \A i \in 1..m : n + 1 + i - 1 = n + i
    BY <1>1
  <2>2. \A i \in 1..m : d[i] = c[n + i]
    BY <1>3, <2>1
  <2> QED BY <1>1, <1>3, <2>1, <2>2
<1>5. d = b
  BY <1>3, <1>4, SeqEqual DEF m
<1> QED BY <1>5 DEF d, c, n

LEMMA LineReturned ==
  ASSUME ReadTypes, buffered, NEW new, HasEnd(new),
         delivered' = delivered \o SubSeq(usbbuf, 1, Returned1),
         new = SubSeq(delivered', Len(delivered) + 1, Len(delivered'))
  PROVE  FirstEnd(new) = Len(new)
<1>1. usbbuf \in Seq(Byte) /\ delivered \in Seq(Byte)
  BY DEF ReadTypes
<1>2. Returned1 \in 0..Len(usbbuf) /\ \A j \in 1..Returned1 - 1 : usbbuf[j] \notin Ends
  BY ReturnedFacts
<1> DEFINE a == SubSeq(usbbuf, 1, Returned1)
           n == Returned1
<1>3. a \in Seq(Byte) /\ Len(a) = n /\ \A i \in 1..n : a[i] = usbbuf[i]
  <2>1. Cut(usbbuf, Returned1)
    BY <1>1, <1>2, CutBytes
  <2> QED BY <2>1 DEF Cut
<1>4. n \in Nat
  BY <1>1, <1>2, LenProperties
<1> HIDE DEF a, n
<1>5. new = a
  BY <1>1, <1>3, Suffix DEF a, n
<1>6. \A j \in 1..n - 1 : a[j] \notin Ends
  <2>1. \A j \in 1..n - 1 : usbbuf[j] \notin Ends
    BY <1>2 DEF n
  <2>2. \A j \in 1..n - 1 : j \in 1..n
    BY <1>4
  <2> QED BY <1>3, <2>1, <2>2
<1> QED BY <1>3, <1>5, <1>6, EndIsLast

LEMMA NoneReturned ==
  ASSUME ReadTypes, NEW new, HasEnd(new), delivered' = delivered,
         new = SubSeq(delivered', Len(delivered) + 1, Len(delivered'))
  PROVE  FALSE
<1>1. Len(delivered) \in Nat
  BY LenProperties DEF ReadTypes
<1> DEFINE n == Len(delivered)
<1>2. n + 1 \in Int /\ n \in Int /\ n < n + 1
  BY <1>1
<1>3. SubSeq(delivered, n + 1, n) = <<>>
  <2> HIDE DEF n
  <2> QED BY ONLY <1>2, SubSeqEmpty
<1>4. DOMAIN <<>> = {}
  OBVIOUS
<1> QED BY <1>3, <1>4 DEF HasEnd

LEMMA LineIsOne == ASSUME ReadInv, [UsbReadNext]_usbReadVars PROVE [Lines]_usbReadVars
<1> SUFFICES ASSUME UsbReadNext, buffered, kind = "finish line", NEW new,
                    new = SubSeq(delivered', Len(delivered) + 1, Len(delivered')), HasEnd(new)
             PROVE  FirstEnd(new) = Len(new)
  BY DEF Lines
<1>1. CASE delivered' = delivered
  BY <1>1, NoneReturned DEF ReadInv
<1>2. CASE FinishLine
  <2>1. delivered' = delivered \o SubSeq(usbbuf, 1, Returned1)
    BY <1>2 DEF FinishLine, Returned1, Return
  <2> QED BY <2>1, LineReturned DEF ReadInv
<1>3. delivered' = delivered \/ FinishLine
  BY DEF UsbReadNext, DeviceSends, BufferClear, BeginRead, TransferRaw, TransferLine, FinishRaw, Advance
<1> QED BY <1>1, <1>2, <1>3

\* However the transfers cut the stream, what reads of a line return and what is buffered
\* is what the device has sent, in order, and a read of a line returns one line (_usb_read).
THEOREM StreamIsKept == RawReadsAreFull => (UsbReadSpec => StreamKept)
<1> SUFFICES ASSUME RawReadsAreFull PROVE UsbReadSpec => StreamKept
  OBVIOUS
<1>1. ReadInv => UsbReadTypeOK
  <2>1. ReadInv => ptr \in 0..USB_MAX_READ
    <3> SUFFICES ASSUME ReadInv PROVE ptr \in 0..USB_MAX_READ
      OBVIOUS
    <3>1. usbbuf \in Seq(Byte) /\ ptr \in 0..Len(usbbuf) /\ Len(usbbuf) <= USB_MAX_READ /\ USB_MAX_READ \in Nat
      BY UsbReadAssumption DEF ReadInv, ReadTypes
    <3>2. Len(usbbuf) \in Nat
      BY <3>1, LenProperties
    <3> QED BY <3>1, <3>2
  <2> QED BY <2>1 DEF ReadInv, ReadTypes, UsbReadTypeOK, Byte, Transferring
<1>2. ReadInv => NothingLost
  BY DEF ReadInv, Pending, NothingLost
<1>3. ReadInv /\ [UsbReadNext]_usbReadVars => ReadInv'
  BY ReadSteps
<1>4. ReadInv /\ [UsbReadNext]_usbReadVars => [Lines]_usbReadVars
  BY LineIsOne
<1>5. OneLine <=> [][Lines]_usbReadVars
  BY PTL DEF OneLine, Lines
<1> QED BY <1>1, <1>2, <1>3, <1>4, <1>5, ReadInitially, PTL DEF UsbReadSpec, StreamKept

----------------------------------------------------------------------------
----------------------------------------------------------------------------
(* The table of queued works and the BFLSC's threads.                      *)

BPcs ==
  {"none", "top", "fill", "choose", "send", "job", "resend", "count", "subid", "scan", "remove", "removed",
   "waited", "flush", "flag", "reset", "look", "answer", "find", "submit", "complete", "rest", "temp"}
\* Where a thread is busy with a device.
BBusy ==
  {"send", "job", "resend", "count", "subid", "remove", "removed", "flush", "flag", "reset", "answer", "find",
   "submit", "complete", "temp"}
BSending == {"send", "job", "resend", "count", "subid"}

BAnswer == [work : BWorks, nonces : BOOLEAN]
BFill == [work : BWorks \union {NoWork}, tried : ScDevs \union {NoDev}, tries : 0..2, mandatory : BOOLEAN,
          resent : BOOLEAN]
BDev == [work_queued : Int, flushed : BOOLEAN, since : 0..2, overheat : BOOLEAN]
BDevice == [jobs : Seq(BWorks), out : Seq(BAnswer)]

BTableTypes ==
  /\ made \in 0..MaxWorks /\ queued_work \subseteq 1..made /\ queued \subseteq 1..made
  /\ devflag \subseteq 1..made /\ queued_count \in Int
  /\ subid \in [BWorks -> ScDevs] /\ bfreed \subseteq BWorks /\ dropped \in BOOLEAN

\* A work is in the table before it has the queued flag, and has that before it is flagged
\* at a flush: what goes with a flag goes with its count.
BCounted ==
  /\ queued \subseteq queued_work /\ devflag \intersect queued_work \subseteq queued
  /\ queued_count = Cardinality(queued)

BTable == BTableTypes /\ (~dropped => BCounted)

BThreadsAt ==
  /\ bpc \in [BThreads -> BPcs] /\ bdev \in [BThreads -> ScDevs \union {NoDev}]
  /\ fill \in BFill /\ answers \in Seq(BAnswer)
  /\ \A t \in BThreads : bpc[t] \in BBusy => bdev[t] \in ScDevs
  /\ bpc["miner"] \in BSending => fill.work # NoWork
  /\ bpc["results"] \in {"submit", "complete"} => answers # <<>>

BDevices == sc_devs \in [ScDevs -> BDev] /\ device \in [ScDevs -> BDevice]

BShared ==
  /\ device_mutex \in BThreads \union {"none"} /\ talking \subseteq BThreads
  /\ brestart \in BOOLEAN /\ heats \in 0..MaxHeat

BInv == BTable /\ BThreadsAt /\ BDevices /\ BShared

LEMMA BflscConstants ==
  /\ IsFiniteSet(ScDevs) /\ ScDevs \subseteq Nat /\ 0 \in ScDevs /\ NoDev \notin ScDevs
  /\ MaxWorks \in Nat /\ MaxHeat \in Nat /\ ScChips \in Nat
<1>1. IsFiniteSet(ScDevs) /\ ScDevs = 0..(Cardinality(ScDevs) - 1) /\ ScDevs # {}
      /\ MaxWorks \in Nat /\ MaxHeat \in Nat /\ ScChips \in Nat
  BY BflscAssumption DEF BflscAssumption
<1>2. Cardinality(ScDevs) \in Nat
  BY <1>1, FS_CardinalityType
<1> DEFINE n == Cardinality(ScDevs)
<1>3. n \in Nat /\ ScDevs = 0..(n - 1) /\ ScDevs # {}
  BY <1>1, <1>2
<1> HIDE DEF n
<1>4. ScDevs \subseteq Nat /\ 0 \in ScDevs /\ NoDev \notin ScDevs
  BY <1>3 DEF NoDev
<1> QED BY <1>1, <1>4

LEMMA BThreadNames ==
  /\ "miner" \in BThreads /\ "results" \in BThreads /\ "watchdog" \in BThreads
  /\ \A t \in BThreads : t \in {"miner", "results", "watchdog"}
  BY DEF BThreads

LEMMA FillTyped ==
  ASSUME BInv
  PROVE  /\ fill.work \in BWorks \union {NoWork} /\ fill.tried \in ScDevs \union {NoDev} /\ fill.tries \in 0..2
         /\ fill.mandatory \in BOOLEAN /\ fill.resent \in BOOLEAN
  BY DEF BInv, BThreadsAt, BFill

LEMMA NoFillTyped == NoFill \in BFill
<1>1. 0 \in 0..2
  OBVIOUS
<1> QED BY <1>1 DEF NoFill, BFill

LEMMA TableFinite ==
  ASSUME BTable
  PROVE  /\ IsFiniteSet(queued_work) /\ IsFiniteSet(queued) /\ Cardinality(queued) \in Nat
         /\ queued_work \subseteq BWorks /\ queued \subseteq BWorks /\ devflag \subseteq BWorks
         /\ ~dropped => queued_work \intersect queued = queued
<1>1. made \in Nat /\ made <= MaxWorks /\ MaxWorks \in Nat
  BY BflscConstants DEF BTable, BTableTypes
<1>2. 1..made \subseteq BWorks
  BY <1>1 DEF BWorks
<1>3. IsFiniteSet(1..made)
  BY <1>1, FS_Interval
<1>4. queued_work \subseteq 1..made /\ queued \subseteq 1..made /\ devflag \subseteq 1..made
  BY DEF BTable, BTableTypes
<1>5. IsFiniteSet(queued_work) /\ IsFiniteSet(queued)
  BY <1>3, <1>4, FS_Subset
<1>6. ~dropped => queued_work \intersect queued = queued
  BY DEF BTable, BCounted
<1> QED BY <1>2, <1>4, <1>5, <1>6, FS_CardinalityType

LEMMA BflscInitially == BflscInit => BInv
<1> SUFFICES ASSUME BflscInit PROVE BInv
  OBVIOUS
<1>1. BTable
  <2>1. made = 0 /\ queued_work = {} /\ queued = {} /\ devflag = {} /\ bfreed = {} /\ queued_count = 0
        /\ subid = [w \in BWorks |-> 0] /\ dropped = FALSE
    BY DEF BflscInit
  <2>2. subid \in [BWorks -> ScDevs]
    BY <2>1, BflscConstants
  <2>3. Cardinality({}) = 0
    BY FS_EmptySet
  <2>4. made \in 0..MaxWorks
    BY <2>1, BflscConstants
  <2>5. dropped \in BOOLEAN
    BY <2>1
  <2>6. queued_count \in Int
    BY <2>1
  <2>7. BTableTypes
    BY <2>1, <2>2, <2>4, <2>5, <2>6 DEF BTableTypes
  <2>8. BCounted
    BY <2>1, <2>3 DEF BCounted
  <2> QED BY <2>7, <2>8 DEF BTable
<1>2. BThreadsAt
  <2>1. bpc = [t \in BThreads |-> "none"] /\ bdev = [t \in BThreads |-> NoDev] /\ fill = NoFill
        /\ answers = <<>>
    BY DEF BflscInit
  <2>2. bpc \in [BThreads -> BPcs] /\ \A t \in BThreads : bpc[t] = "none"
    BY <2>1 DEF BPcs
  <2>3. answers \in Seq(BAnswer)
    BY <2>1, EmptySeq
  <2>4. bdev \in [BThreads -> ScDevs \union {NoDev}]
    BY <2>1
  <2> QED BY <2>1, <2>2, <2>3, <2>4, NoFillTyped, BThreadNames DEF BThreadsAt, BBusy, BSending
<1>3. BDevices
  <2>1. [work_queued |-> 0, flushed |-> FALSE, since |-> 0, overheat |-> FALSE] \in BDev
    <3>1. 0 \in 0..2
      OBVIOUS
    <3> QED BY <3>1 DEF BDev
  <2>2. [jobs |-> <<>>, out |-> <<>>] \in BDevice
    BY EmptySeq DEF BDevice
  <2> QED BY <2>1, <2>2 DEF BflscInit, BDevices
<1>4. BShared
  <2>1. heats \in 0..MaxHeat
    BY BflscConstants DEF BflscInit
  <2> QED BY <2>1 DEF BflscInit, BShared
<1> QED BY <1>1, <1>2, <1>3, <1>4 DEF BInv

----------------------------------------------------------------------------
(* What the steps do to each part.                                         *)

LEMMA SameTable == ASSUME BTable, UNCHANGED tableVars PROVE BTable'
  BY DEF BTable, BTableTypes, BCounted, tableVars

LEMMA SameDevices == ASSUME BDevices, UNCHANGED <<sc_devs, device>> PROVE BDevices'
  BY DEF BDevices

LEMMA SameShared == ASSUME BShared, UNCHANGED <<device_mutex, talking, brestart, heats>> PROVE BShared'
  BY DEF BShared

\* One thread goes on.
LEMMA OneMoves ==
  ASSUME BThreadsAt, NEW t \in BThreads, NEW s \in BPcs, Go(t, s),
         bdev' \in [BThreads -> ScDevs \union {NoDev}], \A u \in BThreads \ {t} : bdev'[u] = bdev[u],
         s \in BBusy => bdev'[t] \in ScDevs,
         fill' \in BFill, t # "miner" => fill' = fill, t = "miner" /\ s \in BSending => fill'.work # NoWork,
         answers' \in Seq(BAnswer), t # "results" => answers' = answers,
         t = "results" /\ s \in {"submit", "complete"} => answers' # <<>>
  PROVE  BThreadsAt'
<1>1. bpc' = [bpc EXCEPT ![t] = s] /\ bpc \in [BThreads -> BPcs]
  BY DEF Go, BThreadsAt
<1>2. bpc' \in [BThreads -> BPcs] /\ bpc'[t] = s /\ \A u \in BThreads \ {t} : bpc'[u] = bpc[u]
  BY <1>1
<1>3. \A u \in BThreads : bpc'[u] \in BBusy => bdev'[u] \in ScDevs
  BY <1>2 DEF BThreadsAt
<1>4. bpc'["miner"] \in BSending => fill'.work # NoWork
  BY <1>2, BThreadNames DEF BThreadsAt
<1>5. bpc'["results"] \in {"submit", "complete"} => answers' # <<>>
  BY <1>2, BThreadNames DEF BThreadsAt
<1> QED BY <1>2, <1>3, <1>4, <1>5 DEF BThreadsAt

\* One thread goes on with the same device and nothing else in its hands.
LEMMA OneGoes ==
  ASSUME BThreadsAt, NEW t \in BThreads, NEW s \in BPcs, Go(t, s), UNCHANGED <<bdev, fill, answers>>,
         s \in BBusy => bpc[t] \in BBusy, t = "miner" /\ s \in BSending => bpc["miner"] \in BSending,
         t = "results" /\ s \in {"submit", "complete"} => answers # <<>>
  PROVE  BThreadsAt'
<1>1. s \in BBusy => bdev'[t] \in ScDevs
  BY DEF BThreadsAt
<1>2. fill' \in BFill /\ answers' \in Seq(BAnswer) /\ bdev' \in [BThreads -> ScDevs \union {NoDev}]
  BY DEF BThreadsAt
<1>3. t = "miner" /\ s \in BSending => fill'.work # NoWork
  BY DEF BThreadsAt
<1>4. \A u \in BThreads \ {t} : bdev'[u] = bdev[u]
  OBVIOUS
<1> QED BY <1>1, <1>2, <1>3, <1>4, OneMoves

\* One thread turns to a device.
LEMMA OneTurns ==
  ASSUME BThreadsAt, NEW t \in BThreads, NEW s \in BPcs, Go(t, s), NEW d \in ScDevs,
         bdev' = [bdev EXCEPT ![t] = d], UNCHANGED <<fill, answers>>,
         s \notin BSending \union {"submit", "complete"}
  PROVE  BThreadsAt'
<1>1. bdev \in [BThreads -> ScDevs \union {NoDev}]
  BY DEF BThreadsAt
<1>2. /\ bdev' \in [BThreads -> ScDevs \union {NoDev}] /\ bdev'[t] = d
      /\ \A u \in BThreads \ {t} : bdev'[u] = bdev[u]
  BY <1>1
<1>3. fill' \in BFill /\ answers' \in Seq(BAnswer)
  BY DEF BThreadsAt
<1> QED BY <1>2, <1>3, OneMoves

LEMMA LocksTaken ==
  ASSUME BInv, NEW t \in BThreads,
         device_mutex' \in {device_mutex, t, "none"}, talking' \in {talking, talking \union {t}, talking \ {t}},
         UNCHANGED <<brestart, heats>>
  PROVE  BShared'
  BY DEF BInv, BShared

----------------------------------------------------------------------------
(* The device that has least to do                                         *)

Before(f, d, e) == f[d] < f[e] \/ (f[d] = f[e] /\ d <= e)

LEMMA FirstOfSet ==
  ASSUME NEW S, IsFiniteSet(S), S \subseteq Nat, S # {}, NEW f \in [S -> Int]
  PROVE  \E d \in S : \A e \in S : Before(f, d, e)
<1> DEFINE HasFirst(s) == \E d \in s : \A e \in s : Before(f, d, e)
           Bad == {n \in Nat : \E s \in SUBSET S : s # {} /\ Cardinality(s) = n /\ ~HasFirst(s)}
<1>1. Bad = {}
  <2> SUFFICES ASSUME Bad # {} PROVE FALSE
    OBVIOUS
  <2>1. PICK n \in Bad : \A m \in Bad : n <= m
    <3>1. Bad \in SUBSET Nat
      OBVIOUS
    <3> HIDE DEF Bad
    <3> QED BY <3>1, LeastNat
  <2>2. PICK s \in SUBSET S : s # {} /\ Cardinality(s) = n /\ ~HasFirst(s)
    BY <2>1
  <2>3. PICK x \in s : TRUE
    BY <2>2
  <2>4. \A e \in s : e \in Nat /\ f[e] \in Int
    OBVIOUS
  <2>5. CASE s \ {x} = {}
    <3>1. \A e \in s : e = x
      BY <2>5
    <3>2. Before(f, x, x)
      BY <2>3, <2>4 DEF Before
    <3> QED BY <2>2, <3>1, <3>2
  <2>6. CASE s \ {x} # {}
    <3>1. IsFiniteSet(s)
      BY FS_Subset
    <3>2. Cardinality(s \ {x}) = n - 1 /\ Cardinality(s \ {x}) \in Nat
      BY <2>2, <2>3, <3>1, FS_RemoveElement, FS_CardinalityType
    <3>3. HasFirst(s \ {x})
      <4>1. n - 1 \notin Bad
        BY <2>1, <3>2
      <4> QED BY <2>6, <3>2, <4>1
    <3>4. PICK d \in s \ {x} : \A e \in s \ {x} : Before(f, d, e)
      BY <3>3
    <3>5. CASE Before(f, d, x)
      <4>1. \A e \in s : Before(f, d, e)
        BY <3>4, <3>5
      <4> QED BY <2>2, <4>1
    <3>6. CASE ~Before(f, d, x)
      <4>1. ASSUME NEW e \in s PROVE Before(f, x, e)
        <5>1. CASE e = x
          BY <2>4, <5>1 DEF Before
        <5>2. CASE e # x
          <6>1. Before(f, d, e)
            BY <3>4, <5>2
          <6> QED BY <2>4, <3>6, <6>1 DEF Before
        <5> QED BY <5>1, <5>2
      <4> QED BY <2>2, <4>1
    <3> QED BY <3>5, <3>6
  <2> QED BY <2>5, <2>6
<1>2. Cardinality(S) \in Nat
  BY FS_CardinalityType
<1>3. HasFirst(S)
  BY <1>1, <1>2
<1> QED BY <1>3

LEMMA FewestIsOne == ASSUME BDevices, NEW S \in SUBSET ScDevs, S # {} PROVE Fewest(S) \in S
<1> DEFINE f == [d \in S |-> sc_devs[d].work_queued]
<1>1. \A d \in S : sc_devs[d].work_queued \in Int
  BY DEF BDevices, BDev
<1>2. f \in [S -> Int]
  BY <1>1
<1>3. IsFiniteSet(S) /\ S \subseteq Nat
  BY BflscConstants, FS_Subset
<1>4. \E d \in S : \A e \in S : Before(f, d, e)
  <2> HIDE DEF f
  <2> QED BY <1>2, <1>3, FirstOfSet
<1>5. \E d \in S : \A e \in S :
         \/ sc_devs[d].work_queued < sc_devs[e].work_queued
         \/ sc_devs[d].work_queued = sc_devs[e].work_queued /\ d <= e
  BY <1>4 DEF Before
<1> QED BY <1>5 DEF Fewest

LEMMA NeedsWorkIsOne == ASSUME BDevices PROVE NeedsWork \in ScDevs \union {NoDev}
<1> DEFINE idle == {d \in Usable : sc_devs[d].work_queued = 0}
<1>1. Usable \in SUBSET ScDevs /\ idle \in SUBSET ScDevs
  BY DEF Usable
<1>2. \/ NeedsWork = Fewest(idle) /\ idle # {}
      \/ NeedsWork = Fewest(Usable) /\ Usable # {}
      \/ NeedsWork = NoDev
  BY DEF NeedsWork
<1> HIDE DEF idle
<1> QED BY <1>1, <1>2, FewestIsOne

----------------------------------------------------------------------------
(* The steps                                                               *)

LEMMA DetectSteps3 ==
  ASSUME BInv, (\E reply, slow : Identify(reply, slow)) \/ (\E ok : Getinfo(ok)) PROVE BInv'
<1>1. /\ UNCHANGED <<bdev, fill, sc_devs, device, answers, device_mutex, talking, brestart, heats>>
      /\ UNCHANGED tableVars
      /\ bpc' = bpc \/ bpc' = [miner |-> "top", results |-> "look", watchdog |-> "rest"]
  BY DEF Identify, Getinfo
<1>2. BTable' /\ BDevices' /\ BShared'
  BY <1>1, SameTable, SameDevices, SameShared DEF BInv
<1>3. CASE bpc' = bpc
  BY <1>1, <1>2, <1>3 DEF BInv, BThreadsAt
<1>4. CASE bpc' = [miner |-> "top", results |-> "look", watchdog |-> "rest"]
  <2>1. bpc' \in [BThreads -> BPcs] /\ \A t \in BThreads : bpc'[t] \in {"top", "look", "rest"}
    BY <1>4 DEF BThreads, BPcs
  <2>2. \A t \in BThreads : bpc'[t] \notin BBusy \union BSending \union {"submit", "complete"}
    BY <2>1 DEF BBusy, BSending
  <2>3. BThreadsAt'
    BY <1>1, <2>1, <2>2, BThreadNames DEF BInv, BThreadsAt
  <2> QED BY <1>2, <2>3 DEF BInv
<1> QED BY <1>1, <1>3, <1>4

LEMMA InProcessIs ==
  ASSUME BInv, NEW d \in ScDevs
  PROVE  /\ device[d] \in BDevice /\ device[d].jobs \in Seq(BWorks) /\ device[d].out \in Seq(BAnswer)
         /\ Cardinality(InProcess(d)) \in 0..Len(device[d].jobs)
         /\ InProcess(d) \subseteq 1..Len(device[d].jobs)
<1>1. device[d] \in BDevice /\ device[d].jobs \in Seq(BWorks) /\ device[d].out \in Seq(BAnswer)
  BY DEF BInv, BDevices, BDevice
<1> DEFINE n == Len(device[d].jobs)
           k == IF n < ScChips THEN n ELSE ScChips
<1>2. n \in Nat /\ ScChips \in Nat
  BY <1>1, BflscConstants
<1>3. InProcess(d) = 1..k /\ k \in Nat /\ k <= n
  <2>1. InProcess(d) = 1..k
    BY DEF InProcess
  <2> HIDE DEF n
  <2> QED BY <1>2, <2>1
<1> HIDE DEF k
<1>4. Cardinality(1..k) = k
  BY <1>3, FS_Interval
<1> QED BY <1>1, <1>2, <1>3, <1>4

LEMMA JobsRemain ==
  ASSUME NEW S, NEW s \in Seq(S), NEW i \in 1..Len(s)
  PROVE  RemoveAt(s, i) \in Seq(S) /\ s[i] \in S
<1>1. Len(s) \in Nat /\ i \in Nat
  OBVIOUS
<1>2. SubSeq(s, 1, i - 1) \in Seq(S) /\ SubSeq(s, i + 1, Len(s)) \in Seq(S)
  BY <1>1, SubSeqProperties
<1> QED BY <1>2, ConcatProperties DEF RemoveAt

LEMMA DeviceFinishesStep == ASSUME BInv, NEW d \in ScDevs, DeviceFinishes(d) PROVE BInv'
<1>1. /\ UNCHANGED <<bpc, bdev, fill, sc_devs, answers, device_mutex, talking, brestart, heats>>
      /\ UNCHANGED tableVars
  BY DEF DeviceFinishes
<1>2. PICK i \in InProcess(d), found \in BOOLEAN :
        device' = [device EXCEPT ![d].jobs = RemoveAt(@, i),
                                 ![d].out = Append(@, [work |-> device[d].jobs[i], nonces |-> found])]
  BY DEF DeviceFinishes
<1> DEFINE jobs == RemoveAt(device[d].jobs, i)
           answer == [work |-> device[d].jobs[i], nonces |-> found]
           out == Append(device[d].out, answer)
<1>3. jobs \in Seq(BWorks) /\ device[d].jobs[i] \in BWorks
  BY InProcessIs, JobsRemain
<1>4. answer \in BAnswer
  BY <1>3 DEF BAnswer
<1>5. out \in Seq(BAnswer)
  <2> HIDE DEF answer
  <2> QED BY <1>4, InProcessIs
<1>6. device \in [ScDevs -> BDevice] /\ sc_devs \in [ScDevs -> BDev]
  BY DEF BInv, BDevices
<1>7. device' = [device EXCEPT ![d].jobs = jobs, ![d].out = out]
  BY <1>2
<1> HIDE DEF jobs, out
<1>8. device' \in [ScDevs -> BDevice]
  BY <1>3, <1>5, <1>6, <1>7 DEF BDevice
<1>9. BDevices' /\ BTable' /\ BShared' /\ BThreadsAt'
  BY <1>1, <1>6, <1>8, SameTable, SameShared DEF BInv, BDevices, BThreadsAt
<1> QED BY <1>9 DEF BInv

LEMMA RestartThreadStep == ASSUME BInv, RestartThread PROVE BInv'
<1>1. /\ UNCHANGED <<bpc, bdev, fill, sc_devs, device, answers, device_mutex, talking, heats>>
      /\ UNCHANGED tableVars /\ brestart' = TRUE
  BY DEF RestartThread
<1>2. BTable' /\ BDevices' /\ BThreadsAt' /\ BShared'
  BY <1>1, SameTable, SameDevices DEF BInv, BThreadsAt, BShared
<1> QED BY <1>2 DEF BInv

\* The steps of a thread that leave the table and the devices alone and turn to no other device.
LEMMA WorkFlowsOn ==
  ASSUME BInv, LoopTop \/ Resend
  PROVE  BInv'
<1>1. /\ UNCHANGED <<bdev, fill, sc_devs, device, answers, device_mutex, heats>> /\ UNCHANGED tableVars
  BY DEF LoopTop, Resend
<1>2. BTable' /\ BDevices'
  BY <1>1, SameTable, SameDevices DEF BInv
<1>3. CASE LoopTop
  <2>1. Go("miner", "fill") /\ brestart' = FALSE /\ UNCHANGED talking
    BY <1>3 DEF LoopTop
  <2>2. BThreadsAt'
    BY <1>1, <2>1, OneGoes, BThreadNames DEF BInv, BPcs, BBusy, BSending
  <2>3. BShared'
    BY <1>1, <2>1 DEF BInv, BShared
  <2> QED BY <1>2, <2>2, <2>3 DEF BInv
<1>4. CASE Resend
  <2>1. Go("miner", "job") /\ bpc["miner"] = "resend" /\ talking' = talking \union {"miner"} /\ UNCHANGED brestart
    BY <1>4 DEF Resend
  <2>2. BThreadsAt'
    BY <1>1, <2>1, OneGoes, BThreadNames DEF BInv, BPcs, BBusy, BSending
  <2>3. BShared'
    BY <1>1, <2>1, LocksTaken, BThreadNames
  <2> QED BY <1>2, <2>2, <2>3 DEF BInv
<1> QED BY <1>3, <1>4

LEMMA TurnSteps ==
  ASSUME BInv, ScanWork \/ \E d \in ScDevs : AskTemp(d) \/ AskResults(d)
  PROVE  BInv'
<1>1. UNCHANGED <<fill, sc_devs, device, answers, brestart, heats>> /\ UNCHANGED tableVars
  BY DEF ScanWork, AskTemp, AskResults
<1>2. BTable' /\ BDevices'
  BY <1>1, SameTable, SameDevices DEF BInv
<1>3. CASE ScanWork
  <2>1. CASE Go("miner", "waited") /\ UNCHANGED bdev
    <3>1. BThreadsAt'
      BY <1>1, <2>1, OneGoes, BThreadNames DEF BInv, BPcs, BBusy, BSending
    <3>2. BShared'
      BY <1>1, <1>3, SameShared DEF BInv, ScanWork
    <3> QED BY <1>2, <3>1, <3>2 DEF BInv
  <2>2. CASE \E d \in ScDevs : bdev' = [bdev EXCEPT !["miner"] = d] /\ Go("miner", "remove")
    <3>1. PICK d \in ScDevs : bdev' = [bdev EXCEPT !["miner"] = d] /\ Go("miner", "remove")
      BY <2>2
    <3>2. BThreadsAt'
      BY <1>1, <3>1, OneTurns, BThreadNames DEF BInv, BPcs, BSending
    <3>3. BShared'
      BY <1>1, <1>3, SameShared DEF BInv, ScanWork
    <3> QED BY <1>2, <3>2, <3>3 DEF BInv
  <2> QED BY <1>3, <2>1, <2>2 DEF ScanWork
<1>4. CASE \E d \in ScDevs : AskTemp(d)
  <2>1. PICK d \in ScDevs : AskTemp(d)
    BY <1>4
  <2>2. /\ device_mutex' = "watchdog" /\ talking' = talking \union {"watchdog"} /\ Go("watchdog", "temp")
        /\ bdev' = [bdev EXCEPT !["watchdog"] = d]
    BY <2>1 DEF AskTemp, Lock
  <2>3. BThreadsAt'
    BY <1>1, <2>2, OneTurns, BThreadNames DEF BInv, BPcs, BSending
  <2>4. BShared'
    BY <1>1, <2>2, LocksTaken, BThreadNames
  <2> QED BY <1>2, <2>3, <2>4 DEF BInv
<1>5. CASE \E d \in ScDevs : AskResults(d)
  <2>1. PICK d \in ScDevs : AskResults(d)
    BY <1>5
  <2>2. /\ device_mutex' = "results" /\ talking' = talking \union {"results"} /\ Go("results", "answer")
        /\ bdev' = [bdev EXCEPT !["results"] = d]
    BY <2>1 DEF AskResults, Lock
  <2>3. BThreadsAt'
    BY <1>1, <2>2, OneTurns, BThreadNames DEF BInv, BPcs, BSending
  <2>4. BShared'
    BY <1>1, <2>2, LocksTaken, BThreadNames
  <2> QED BY <1>2, <2>3, <2>4 DEF BInv
<1> QED BY <1>3, <1>4, <1>5

\* The steps of the miner that change what it has in its hands.
LEMMA MinerGoes ==
  ASSUME BThreadsAt, NEW s \in BPcs, Go("miner", s), UNCHANGED answers, fill' \in BFill,
         UNCHANGED bdev, s \in BBusy => bpc["miner"] \in BBusy, s \in BSending => fill'.work # NoWork
  PROVE  BThreadsAt'
<1>1. s \in BBusy => bdev'["miner"] \in ScDevs
  BY BThreadNames DEF BThreadsAt
<1>2. answers' \in Seq(BAnswer) /\ bdev' \in [BThreads -> ScDevs \union {NoDev}]
  BY DEF BThreadsAt
<1>3. \A u \in BThreads \ {"miner"} : bdev'[u] = bdev[u]
  OBVIOUS
<1> QED BY <1>1, <1>2, <1>3, BThreadNames, OneMoves

LEMMA NextNumber == ASSUME NEW m \in Nat PROVE 1..(m + 1) = 1..m \union {m + 1} /\ m + 1 \notin 1..m
  OBVIOUS

LEMMA FillQueueStep == ASSUME BInv, FillQueue PROVE BInv'
<1>1. /\ fill' = NoFill /\ Go("miner", "choose")
      /\ UNCHANGED <<bdev, queued, queued_count, devflag, subid, bfreed, dropped, sc_devs, device, answers,
                     device_mutex, talking, brestart, heats>>
  BY DEF FillQueue
<1>2. BDevices' /\ BShared'
  BY <1>1, SameDevices, SameShared DEF BInv
<1>3. BThreadsAt'
  BY <1>1, NoFillTyped, MinerGoes DEF BInv, BPcs, BBusy, BSending
<1>4. BTable'
  <2>1. CASE made < MaxWorks /\ made' = made + 1 /\ queued_work' = queued_work \union {made + 1}
    <3>1. made \in Nat /\ MaxWorks \in Nat
      BY BflscConstants DEF BInv, BTable, BTableTypes
    <3>2. made' \in 0..MaxWorks
      BY <2>1, <3>1
    <3>3. 1..made' = 1..made \union {made + 1} /\ made + 1 \notin 1..made
      BY <2>1, <3>1, NextNumber
    <3>4. BTableTypes'
      BY <1>1, <2>1, <3>2, <3>3 DEF BInv, BTable, BTableTypes
    <3>5. ~dropped => devflag \subseteq 1..made /\ BCounted
      BY DEF BInv, BTable, BTableTypes
    <3>6. ~dropped' => BCounted'
      BY <1>1, <2>1, <3>3, <3>5 DEF BCounted
    <3> QED BY <3>4, <3>6 DEF BTable
  <2>2. CASE UNCHANGED <<made, queued_work>>
    BY <1>1, <2>2, SameTable DEF BInv, tableVars
  <2> QED BY <2>1, <2>2 DEF FillQueue
<1> QED BY <1>2, <1>3, <1>4 DEF BInv

\* work_completed of one work.
LEMMA RemovedStep ==
  ASSUME BInv, NEW w \in BWorks, Removed(w), UNCHANGED <<made, devflag, subid>>
  PROVE  BTable'
<1>1. /\ queued_work' = queued_work \ {w} /\ queued' = queued \ {w}
      /\ queued_count' = queued_count - (IF w \in queued THEN 1 ELSE 0)
      /\ bfreed' = bfreed \union {w} /\ dropped' = dropped
  BY DEF Removed
<1>2. BTableTypes'
  <2>1. BTableTypes
    BY DEF BInv, BTable
  <2>2. (IF w \in queued THEN 1 ELSE 0) \in Int
    OBVIOUS
  <2>3. queued_count' \in Int
    BY <1>1, <2>1, <2>2 DEF BTableTypes
  <2>4. queued_work' \subseteq 1..made' /\ queued' \subseteq 1..made' /\ bfreed' \subseteq BWorks
    BY <1>1, <2>1 DEF BTableTypes
  <2>5. dropped' \in BOOLEAN
    BY <1>1, <2>1 DEF BTableTypes
  <2> QED BY <2>1, <2>3, <2>4, <2>5 DEF BTableTypes
<1>3. ASSUME ~dropped PROVE BCounted'
  <2>1. IsFiniteSet(queued) /\ Cardinality(queued) \in Nat /\ queued_count = Cardinality(queued)
    BY <1>3, TableFinite DEF BInv, BTable, BCounted
  <2>2. Cardinality(queued \ {w}) = IF w \in queued THEN Cardinality(queued) - 1 ELSE Cardinality(queued)
    BY <2>1, FS_RemoveElement
  <2>3. queued_count' = Cardinality(queued')
    BY <1>1, <2>1, <2>2
  <2>4. queued' \subseteq queued_work' /\ devflag \intersect queued_work' \subseteq queued'
    BY <1>1, <1>3 DEF BInv, BTable, BCounted
  <2> QED BY <2>3, <2>4 DEF BCounted
<1> QED BY <1>1, <1>2, <1>3 DEF BTable

LEMMA CompletedStep ==
  ASSUME BInv, NEW w \in BWorks, Completed(w), UNCHANGED <<made, devflag, subid>>
  PROVE  BTable'
<1>1. CASE Removed(w)
  BY <1>1, RemovedStep
<1>2. CASE \E x \in queued_work : Removed(x)
  BY <1>2, RemovedStep, TableFinite DEF BInv
<1>3. CASE /\ queued_work' = {} /\ dropped' = TRUE
           /\ queued_count' \in {queued_count, queued_count - 1}
           /\ UNCHANGED <<queued, bfreed>>
  BY <1>3 DEF BInv, BTable, BTableTypes
<1> QED BY <1>1, <1>2, <1>3 DEF Completed, Dangling

LEMMA GiveUpStep ==
  ASSUME BInv, NEW s \in {"fill", "scan"}, GiveUp(s), UNCHANGED <<made, devflag, subid>>, UNCHANGED answers
  PROVE  BTable' /\ BThreadsAt'
<1>1. BTable'
  <2>1. CASE fill.work # NoWork
    <3>1. fill.work \in BWorks
      BY <2>1, FillTyped
    <3> QED BY <2>1, <3>1, CompletedStep DEF GiveUp
  <2>2. CASE fill.work = NoWork
    <3>1. UNCHANGED <<queued_work, queued, queued_count, bfreed, dropped>>
      BY <2>2 DEF GiveUp
    <3> QED BY <3>1, SameTable DEF BInv, tableVars
  <2> QED BY <2>1, <2>2
<1>2. BThreadsAt'
  <2>1. fill' = NoFill /\ Go("miner", s) /\ UNCHANGED bdev /\ s \in BPcs /\ s \notin BBusy /\ s \notin BSending
    BY DEF GiveUp, BPcs, BBusy, BSending
  <2> QED BY <2>1, NoFillTyped, MinerGoes DEF BInv
<1> QED BY <1>1, <1>2

LEMMA ChooseDeviceStep == ASSUME BInv, ChooseDevice PROVE BInv'
<1> DEFINE d == NeedsWork
           unqueued == queued_work \ queued
           w == IF fill.work # NoWork THEN fill.work
                ELSE IF unqueued = {} THEN NoWork
                ELSE CHOOSE x \in unqueued : \A y \in unqueued : x <= y
           fill2 == [fill EXCEPT !.work = w, !.tries = @ + 1, !.resent = FALSE,
                       !.mandatory = /\ sc_devs[d].work_queued # 0
                                     /\ sc_devs[d].work_queued < que_low]
<1>1. /\ UNCHANGED <<made, devflag, subid, sc_devs, device, answers, device_mutex, talking, brestart, heats>>
      /\ \/ GiveUp("fill") \/ GiveUp("scan")
         \/ /\ fill.tries < 2 /\ d # NoDev /\ w # NoWork
            /\ queued' = IF fill.work = NoWork THEN queued \union {w} ELSE queued
            /\ queued_count' = IF fill.work = NoWork THEN queued_count + 1 ELSE queued_count
            /\ fill' = fill2
            /\ bdev' = [bdev EXCEPT !["miner"] = d]
            /\ Go("miner", "send")
            /\ UNCHANGED <<queued_work, bfreed, dropped>>
  BY DEF ChooseDevice
<1>2. BDevices' /\ BShared'
  BY <1>1, SameDevices, SameShared DEF BInv
<1>3. CASE GiveUp("fill") \/ GiveUp("scan")
  <2>1. BTable' /\ BThreadsAt'
    BY <1>1, <1>3, GiveUpStep
  <2> QED BY <1>2, <2>1 DEF BInv
<1>4. CASE /\ fill.tries < 2 /\ d # NoDev /\ w # NoWork
           /\ queued' = IF fill.work = NoWork THEN queued \union {w} ELSE queued
           /\ queued_count' = IF fill.work = NoWork THEN queued_count + 1 ELSE queued_count
           /\ fill' = fill2
           /\ bdev' = [bdev EXCEPT !["miner"] = d]
           /\ Go("miner", "send")
           /\ UNCHANGED <<queued_work, bfreed, dropped>>
  <2>1. d \in ScDevs
    BY <1>4, NeedsWorkIsOne DEF BInv
  <2>2. fill.work = NoWork => w \in unqueued
    <3> SUFFICES ASSUME fill.work = NoWork PROVE w \in unqueued
      OBVIOUS
    <3>1. unqueued # {} /\ w = CHOOSE x \in unqueued : \A y \in unqueued : x <= y
      BY <1>4
    <3>2. unqueued \in SUBSET Nat
      <4>1. unqueued \subseteq BWorks
        BY TableFinite DEF BInv
      <4> QED BY <4>1 DEF BWorks
    <3> HIDE DEF unqueued, w
    <3>3. \E x \in unqueued : \A y \in unqueued : x <= y
      BY <3>1, <3>2, LeastNat
    <3> QED BY <3>1, <3>3
  <2>3. fill.work # NoWork => w = fill.work
    OBVIOUS
  <2>4. w \in BWorks
    <3>1. unqueued \subseteq BWorks
      BY TableFinite DEF BInv
    <3> HIDE DEF unqueued, w
    <3> QED BY <2>2, <2>3, <3>1, FillTyped
  <2>5. BTable'
    <3>1. CASE fill.work = NoWork
      <4>1. w \in unqueued /\ queued' = queued \union {w} /\ queued_count' = queued_count + 1
        BY <1>4, <2>2, <3>1
      <4> HIDE DEF w
      <4>2. IsFiniteSet(queued) /\ Cardinality(queued) \in Nat /\ w \notin queued /\ w \in queued_work
        BY <4>1, TableFinite DEF BInv
      <4>3. BTableTypes'
        BY <1>1, <1>4, <4>1, <4>2 DEF BInv, BTable, BTableTypes
      <4>4. ASSUME ~dropped PROVE BCounted'
        <5>1. BCounted
          BY <4>4 DEF BInv, BTable
        <5>2. queued_count' = Cardinality(queued')
          BY <4>1, <4>2, <5>1, FS_AddElement DEF BCounted
        <5> QED BY <1>1, <1>4, <4>1, <4>2, <5>1, <5>2 DEF BCounted
      <4> QED BY <1>4, <4>3, <4>4 DEF BTable
    <3>2. CASE fill.work # NoWork
      <4>1. UNCHANGED <<queued, queued_count>>
        BY <1>4, <3>2
      <4> QED BY <1>1, <1>4, <4>1, SameTable DEF BInv, tableVars
    <3> QED BY <3>1, <3>2
  <2>6. fill2 \in BFill /\ fill2.work = w
    <3> DEFINE mandatory == /\ sc_devs[d].work_queued # 0
                            /\ sc_devs[d].work_queued < que_low
    <3>1. mandatory \in BOOLEAN
      OBVIOUS
    <3>2. fill \in BFill
      BY DEF BInv, BThreadsAt
    <3>3. fill.tries + 1 \in 0..2
      BY <1>4, FillTyped
    <3>4. fill2 = [fill EXCEPT !.work = w, !.tries = fill.tries + 1, !.resent = FALSE, !.mandatory = mandatory]
      BY <3>2 DEF BFill
    <3> HIDE DEF w, mandatory, fill2
    <3> QED BY <2>4, <3>1, <3>2, <3>3, <3>4 DEF BFill
  <2>7. BThreadsAt'
    <3> HIDE DEF w, d, fill2
    <3>1. bdev \in [BThreads -> ScDevs \union {NoDev}] /\ answers' \in Seq(BAnswer)
      BY <1>1 DEF BInv, BThreadsAt
    <3>2. /\ bdev' \in [BThreads -> ScDevs \union {NoDev}] /\ bdev'["miner"] = d
          /\ \A u \in BThreads \ {"miner"} : bdev'[u] = bdev[u]
      BY <1>4, <2>1, <3>1, BThreadNames
    <3>3. fill' \in BFill /\ fill'.work # NoWork
      BY <1>4, <2>6
    <3> QED BY <1>1, <1>4, <2>1, <3>1, <3>2, <3>3, OneMoves, BThreadNames DEF BInv, BPcs
  <2> QED BY <1>2, <2>5, <2>7 DEF BInv
<1> QED BY <1>1, <1>3, <1>4

\* The first ending of a try to send; the work is kept for another device.
LEMMA NotSentStep ==
  ASSUME BInv, bpc["miner"] \in BSending, NotSent, UNCHANGED <<bdev, answers>> PROVE BThreadsAt'
<1>1. fill' = [fill EXCEPT !.tried = bdev["miner"]] /\ Go("miner", "choose")
  BY DEF NotSent
<1>2. bdev["miner"] \in ScDevs \union {NoDev} /\ fill \in BFill
  BY BThreadNames DEF BInv, BThreadsAt
<1>3. fill' \in BFill
  BY <1>1, <1>2 DEF BFill
<1> QED BY <1>1, <1>3, MinerGoes DEF BInv, BPcs, BBusy, BSending

LEMMA SendWorkStep == ASSUME BInv, SendWork PROVE BInv'
<1>1. /\ bpc["miner"] = "send" /\ UNCHANGED <<bdev, sc_devs, device, answers, brestart, heats>>
      /\ UNCHANGED tableVars
      /\ \/ NotSent /\ UNCHANGED <<device_mutex, talking>>
         \/ Lock("miner", "job") /\ UNCHANGED fill
  BY DEF SendWork
<1>2. BTable' /\ BDevices'
  BY <1>1, SameTable, SameDevices DEF BInv
<1>3. CASE NotSent /\ UNCHANGED <<device_mutex, talking>>
  <2>1. BThreadsAt'
    BY <1>1, <1>3, NotSentStep DEF BSending
  <2>2. BShared'
    BY <1>1, <1>3, SameShared DEF BInv
  <2> QED BY <1>2, <2>1, <2>2 DEF BInv
<1>4. CASE Lock("miner", "job") /\ UNCHANGED fill
  <2>1. device_mutex' = "miner" /\ talking' = talking \union {"miner"} /\ Go("miner", "job")
    BY <1>4 DEF Lock
  <2>2. BThreadsAt'
    BY <1>1, <1>4, <2>1, OneGoes, BThreadNames DEF BInv, BPcs, BBusy, BSending
  <2>3. BShared'
    BY <1>1, <2>1, LocksTaken, BThreadNames
  <2> QED BY <1>2, <2>2, <2>3 DEF BInv
<1> QED BY <1>1, <1>3, <1>4

LEMMA SendAnsweredStep == ASSUME BInv, NEW o, SendAnswered(o) PROVE BInv'
<1> DEFINE d == bdev["miner"]
<1>1. /\ bpc["miner"] = "job" /\ UNCHANGED <<bdev, sc_devs, answers, brestart, heats>> /\ UNCHANGED tableVars
      /\ device_mutex' = "none" /\ talking' = talking \ {"miner"}
      /\ device' = device \/ device' = [device EXCEPT ![d].jobs = Append(@, fill.work)]
      /\ \/ Go("miner", "count") /\ UNCHANGED fill
         \/ fill' = [fill EXCEPT !.resent = TRUE] /\ Go("miner", "resend")
         \/ NotSent
  BY DEF SendAnswered, Unlock
<1>2. BTable' /\ BShared'
  BY <1>1, SameTable, LocksTaken, BThreadNames DEF BInv
<1>3. d \in ScDevs /\ fill.work \in BWorks /\ fill.work # NoWork /\ fill \in BFill
  BY <1>1, FillTyped, BThreadNames DEF BInv, BThreadsAt, BSending, BBusy
<1>4. BDevices'
  <2>1. device \in [ScDevs -> BDevice] /\ sc_devs \in [ScDevs -> BDev]
    BY DEF BInv, BDevices
  <2>2. CASE device' = [device EXCEPT ![d].jobs = Append(@, fill.work)]
    <3> DEFINE jobs == Append(device[d].jobs, fill.work)
    <3>1. jobs \in Seq(BWorks)
      BY <1>3, InProcessIs
    <3>2. device' = [device EXCEPT ![d].jobs = jobs]
      BY <2>2
    <3> HIDE DEF jobs, d
    <3>3. device' \in [ScDevs -> BDevice]
      BY <1>3, <2>1, <3>1, <3>2 DEF BDevice
    <3> QED BY <1>1, <2>1, <3>3 DEF BDevices
  <2> QED BY <1>1, <2>1, <2>2 DEF BDevices
<1>5. BThreadsAt'
  <2>1. CASE Go("miner", "count") /\ UNCHANGED fill
    BY <1>1, <2>1, OneGoes, BThreadNames DEF BInv, BPcs, BBusy, BSending
  <2>2. CASE fill' = [fill EXCEPT !.resent = TRUE] /\ Go("miner", "resend")
    <3>1. fill' \in BFill /\ fill'.work = fill.work
      BY <1>3, <2>2 DEF BFill
    <3> QED BY <1>1, <1>3, <2>2, <3>1, MinerGoes DEF BInv, BPcs, BBusy, BSending
  <2>3. CASE NotSent
    BY <1>1, <2>3, NotSentStep DEF BSending
  <2> QED BY <1>1, <2>1, <2>2, <2>3
<1> QED BY <1>2, <1>4, <1>5 DEF BInv

\* The steps that change what is known of a device.
LEMMA DevChanged ==
  ASSUME BDevices, NEW d \in ScDevs, NEW x \in BDev, sc_devs' = [sc_devs EXCEPT ![d] = x], UNCHANGED device
  PROVE  BDevices'
  BY DEF BDevices

LEMMA DevTyped ==
  ASSUME BInv, NEW d \in ScDevs
  PROVE  /\ sc_devs[d] \in BDev /\ sc_devs[d].work_queued \in Int /\ sc_devs[d].flushed \in BOOLEAN
         /\ sc_devs[d].since \in 0..2 /\ sc_devs[d].overheat \in BOOLEAN
  BY DEF BInv, BDevices, BDev

LEMMA BusyDev == ASSUME BInv, NEW t \in BThreads, bpc[t] \in BBusy PROVE bdev[t] \in ScDevs
  BY DEF BInv, BThreadsAt

LEMMA CountQueuedStep == ASSUME BInv, CountQueued PROVE BInv'
<1> DEFINE d == bdev["miner"]
           x == [sc_devs[d] EXCEPT !.work_queued = sc_devs[d].work_queued + 1]
<1>1. /\ bpc["miner"] = "count" /\ UNCHANGED <<bdev, fill, device, answers, device_mutex, talking, brestart, heats>>
      /\ UNCHANGED tableVars /\ Go("miner", "subid")
      /\ sc_devs' = [sc_devs EXCEPT ![d].work_queued = @ + 1]
  BY DEF CountQueued
<1>2. d \in ScDevs
  BY <1>1, BusyDev, BThreadNames DEF BBusy
<1>3. sc_devs' = [sc_devs EXCEPT ![d] = x]
  BY <1>1
<1>4. x \in BDev
  <2> HIDE DEF d
  <2>1. sc_devs[d].work_queued + 1 \in Int
    BY <1>2, DevTyped
  <2> QED BY <1>2, <2>1, DevTyped DEF BDev
<1>5. BDevices'
  <2> HIDE DEF d, x
  <2> QED BY <1>1, <1>2, <1>3, <1>4, DevChanged DEF BInv
<1>6. BTable' /\ BShared'
  BY <1>1, SameTable, SameShared DEF BInv
<1>7. BThreadsAt'
  BY <1>1, OneGoes, BThreadNames DEF BInv, BPcs, BBusy, BSending
<1> QED BY <1>5, <1>6, <1>7 DEF BInv

LEMMA SetSubidStep == ASSUME BInv, SetSubid PROVE BInv'
<1>1. /\ bpc["miner"] = "subid" /\ subid' = [subid EXCEPT ![fill.work] = bdev["miner"]] /\ fill' = NoFill
      /\ Go("miner", "fill")
      /\ UNCHANGED <<bdev, made, queued_work, queued, queued_count, devflag, bfreed, dropped, sc_devs, device,
                     answers, device_mutex, talking, brestart, heats>>
  BY DEF SetSubid
<1>2. bdev["miner"] \in ScDevs
  BY <1>1, BusyDev, BThreadNames DEF BBusy
<1>3. BTable'
  BY <1>1, <1>2 DEF BInv, BTable, BTableTypes, BCounted
<1>4. BThreadsAt'
  BY <1>1, NoFillTyped, MinerGoes DEF BInv, BPcs, BBusy, BSending
<1> QED BY <1>1, <1>3, <1>4, SameDevices, SameShared DEF BInv

LEMMA SomeRemoved ==
  ASSUME NEW S, IsFiniteSet(S), NEW G \in SUBSET S
  PROVE  Cardinality(S \ G) = Cardinality(S) - Cardinality(G)
<1>1. IsFiniteSet(G) /\ IsFiniteSet(S \ G)
  BY FS_Subset
<1>2. (S \ G) \union G = S /\ (S \ G) \intersect G = {}
  OBVIOUS
<1>3. Cardinality(S) = Cardinality(S \ G) + Cardinality(G) - Cardinality({})
  BY <1>1, <1>2, FS_Union
<1> QED BY <1>1, <1>3, FS_CardinalityType, FS_EmptySet

LEMMA RemoveFlushedStep == ASSUME BInv, RemoveFlushed PROVE BInv'
<1> DEFINE gone == {w \in queued_work : w \in devflag /\ subid[w] = bdev["miner"]}
<1>1. /\ bpc["miner"] = "remove" /\ Go("miner", "removed")
      /\ queued_work' = queued_work \ gone /\ queued' = queued \ gone
      /\ queued_count' = queued_count - Cardinality(gone) /\ bfreed' = bfreed \union gone
      /\ UNCHANGED <<bdev, fill, made, devflag, subid, dropped, sc_devs, device, answers, device_mutex, talking,
                     brestart, heats>>
  BY DEF RemoveFlushed
<1>2. gone \subseteq queued_work /\ gone \subseteq BWorks /\ (~dropped => gone \subseteq queued)
  BY TableFinite DEF BInv, BTable, BCounted
<1> HIDE DEF gone
<1>3. BTable'
  <2>1. Cardinality(gone) \in Nat
    BY <1>2, TableFinite, FS_Subset, FS_CardinalityType DEF BInv
  <2>2. BTableTypes'
    BY <1>1, <1>2, <2>1 DEF BInv, BTable, BTableTypes
  <2>3. ASSUME ~dropped PROVE BCounted'
    <3>1. BCounted /\ IsFiniteSet(queued) /\ gone \subseteq queued
      BY <1>2, <2>3, TableFinite DEF BInv, BTable
    <3>2. queued_count' = Cardinality(queued')
      BY <1>1, <3>1, SomeRemoved DEF BCounted
    <3> QED BY <1>1, <3>1, <3>2 DEF BCounted
  <2> QED BY <1>1, <2>2, <2>3 DEF BTable
<1>4. BThreadsAt'
  BY <1>1, OneGoes, BThreadNames DEF BInv, BPcs, BBusy, BSending
<1> QED BY <1>1, <1>3, <1>4, SameDevices, SameShared DEF BInv

LEMMA ClearFlushedStep == ASSUME BInv, ClearFlushed PROVE BInv'
<1> DEFINE d == bdev["miner"]
           x == [sc_devs[d] EXCEPT !.flushed = FALSE]
<1>1. /\ bpc["miner"] = "removed" /\ UNCHANGED <<bdev, fill, device, answers, device_mutex, talking, brestart, heats>>
      /\ UNCHANGED tableVars /\ Go("miner", "scan")
      /\ sc_devs' = [sc_devs EXCEPT ![d].flushed = FALSE]
  BY DEF ClearFlushed
<1>2. d \in ScDevs
  BY <1>1, BusyDev, BThreadNames DEF BBusy
<1>3. sc_devs' = [sc_devs EXCEPT ![d] = x]
  BY <1>1
<1>4. x \in BDev
  <2> HIDE DEF d
  <2> QED BY <1>2, DevTyped DEF BDev
<1>5. BDevices'
  <2> HIDE DEF d, x
  <2> QED BY <1>1, <1>2, <1>3, <1>4, DevChanged DEF BInv
<1>6. BTable' /\ BShared'
  BY <1>1, SameTable, SameShared DEF BInv
<1>7. BThreadsAt'
  BY <1>1, OneGoes, BThreadNames DEF BInv, BPcs, BBusy, BSending
<1> QED BY <1>5, <1>6, <1>7 DEF BInv

LEMMA FlushQueueStep == ASSUME BInv, FlushQueue PROVE BInv'
<1>1. /\ bpc["miner"] = "waited"
      /\ UNCHANGED <<fill, made, queued, queued_count, devflag, subid, dropped, sc_devs, device, answers,
                     device_mutex, talking, brestart, heats>>
      /\ \/ /\ queued_work' = queued_work \intersect queued /\ bfreed' = bfreed \union (queued_work \ queued)
            /\ bdev' = [bdev EXCEPT !["miner"] = 0] /\ Go("miner", "flush")
         \/ Go("miner", "top") /\ UNCHANGED <<bdev, queued_work, bfreed>>
  BY DEF FlushQueue
<1>2. CASE /\ queued_work' = queued_work \intersect queued /\ bfreed' = bfreed \union (queued_work \ queued)
           /\ bdev' = [bdev EXCEPT !["miner"] = 0] /\ Go("miner", "flush")
  <2>1. BTableTypes'
    BY <1>1, <1>2, TableFinite DEF BInv, BTable, BTableTypes
  <2>2. BTable'
    BY <1>1, <1>2, <2>1 DEF BInv, BTable, BCounted
  <2>3. BThreadsAt'
    BY <1>1, <1>2, OneTurns, BThreadNames, BflscConstants DEF BInv, BPcs, BSending
  <2> QED BY <1>1, <2>2, <2>3, SameDevices, SameShared DEF BInv
<1>3. CASE Go("miner", "top") /\ UNCHANGED <<bdev, queued_work, bfreed>>
  <2>1. BTable'
    BY <1>1, <1>3, SameTable DEF BInv, tableVars
  <2>2. BThreadsAt'
    BY <1>1, <1>3, OneGoes, BThreadNames DEF BInv, BPcs, BBusy, BSending
  <2> QED BY <1>1, <2>1, <2>2, SameDevices, SameShared DEF BInv
<1> QED BY <1>1, <1>2, <1>3

LEMMA FlushSentStep == ASSUME BInv, NEW t \in {"miner", "watchdog"}, FlushSent(t) PROVE BInv'
<1> DEFINE d == bdev[t]
           jobs == SubSeq(device[d].jobs, 1, Cardinality(InProcess(d)))
<1>1. /\ bpc[t] = "flush" /\ Go(t, "flag") /\ t \in BThreads
      /\ UNCHANGED <<bdev, fill, sc_devs, answers, device_mutex, talking, brestart, heats>> /\ UNCHANGED tableVars
      /\ device' = [device EXCEPT ![d].jobs = jobs]
  BY BThreadNames DEF FlushSent, FlushedDevice
<1>2. d \in ScDevs
  BY <1>1, BusyDev DEF BBusy
<1> HIDE DEF d
<1>3. jobs \in Seq(BWorks)
  <2> DEFINE k == Cardinality(InProcess(d))
  <2>1. k \in 0..Len(device[d].jobs) /\ device[d].jobs \in Seq(BWorks)
    BY <1>2, InProcessIs
  <2> HIDE DEF k
  <2>2. SubSeq(device[d].jobs, 1, k) \in Seq(BWorks)
    <3>1. \A i \in 1..k : device[d].jobs[i] \in BWorks
      BY <2>1
    <3> QED BY <2>1, <3>1, SubSeqProperties
  <2> QED BY <2>2 DEF k
<1> HIDE DEF jobs
<1>4. BDevices'
  <2>1. device' \in [ScDevs -> BDevice]
    <3>1. device \in [ScDevs -> BDevice]
      BY DEF BInv, BDevices
    <3> QED BY <1>1, <1>2, <1>3, <3>1 DEF BDevice
  <2> QED BY <1>1, <2>1 DEF BInv, BDevices
<1>5. BThreadsAt'
  BY <1>1, OneGoes DEF BInv, BPcs, BBusy, BSending
<1> QED BY <1>1, <1>4, <1>5, SameTable, SameShared DEF BInv

LEMMA AfterFlushStep ==
  ASSUME BInv, NEW t \in {"miner", "watchdog"}, bpc[t] \in {"flag", "reset"}, AfterFlush(t), UNCHANGED <<fill, answers>>
  PROVE  BThreadsAt'
<1>1. t \in BThreads
  BY BThreadNames
<1>2. CASE Go(t, "rest") /\ UNCHANGED bdev
  BY <1>1, <1>2, OneGoes DEF BInv, BPcs, BBusy, BSending
<1>3. CASE Go(t, "top") /\ UNCHANGED bdev
  BY <1>1, <1>3, OneGoes DEF BInv, BPcs, BBusy, BSending
<1>4. CASE bdev[t] + 1 \in ScDevs /\ bdev' = [bdev EXCEPT ![t] = @ + 1] /\ Go(t, "flush")
  <2> DEFINE d == bdev[t] + 1
  <2>1. d \in ScDevs /\ bdev' = [bdev EXCEPT ![t] = d]
    BY <1>4
  <2> HIDE DEF d
  <2> QED BY <1>1, <1>4, <2>1, OneTurns DEF BInv, BPcs, BSending
<1> QED BY <1>2, <1>3, <1>4 DEF AfterFlush

LEMMA FlagWorkStep == ASSUME BInv, NEW t \in {"miner", "watchdog"}, FlagWork(t) PROVE BInv'
<1>1. /\ bpc[t] = "flag" /\ devflag' = devflag \union OfDevice(bdev[t]) /\ t \in BThreads
      /\ (Go(t, "reset") /\ UNCHANGED bdev) \/ AfterFlush(t)
      /\ UNCHANGED <<fill, made, queued_work, queued, queued_count, subid, bfreed, dropped, sc_devs, device,
                     answers, device_mutex, talking, brestart, heats>>
  BY BThreadNames DEF FlagWork
<1>2. OfDevice(bdev[t]) \subseteq queued_work /\ OfDevice(bdev[t]) \subseteq queued
  BY DEF OfDevice
<1>3. BTable'
  BY <1>1, <1>2 DEF BInv, BTable, BTableTypes, BCounted
<1>4. BThreadsAt'
  <2>1. CASE Go(t, "reset") /\ UNCHANGED bdev
    BY <1>1, <2>1, OneGoes DEF BInv, BPcs, BBusy, BSending
  <2>2. CASE AfterFlush(t)
    BY <1>1, <2>2, AfterFlushStep
  <2> QED BY <1>1, <2>1, <2>2
<1> QED BY <1>1, <1>3, <1>4, SameDevices, SameShared DEF BInv

LEMMA ResetCountersStep == ASSUME BInv, NEW t \in {"miner", "watchdog"}, ResetCounters(t) PROVE BInv'
<1> DEFINE d == bdev[t]
           x == [sc_devs[d] EXCEPT !.flushed = TRUE, !.since = 0, !.work_queued = 0]
<1>1. /\ bpc[t] = "reset" /\ t \in BThreads /\ AfterFlush(t)
      /\ UNCHANGED <<fill, device, answers, device_mutex, talking, brestart, heats>> /\ UNCHANGED tableVars
      /\ sc_devs' = [sc_devs EXCEPT ![d].flushed = TRUE, ![d].since = 0, ![d].work_queued = 0]
  BY BThreadNames DEF ResetCounters
<1>2. d \in ScDevs
  BY <1>1, BusyDev DEF BBusy
<1> HIDE DEF d
<1>3. sc_devs' = [sc_devs EXCEPT ![d] = x]
  BY <1>1, <1>2 DEF BInv, BDevices, BDev
<1>4. x \in BDev
  <2>1. 0 \in 0..2 /\ 0 \in Int /\ TRUE \in BOOLEAN
    OBVIOUS
  <2>2. sc_devs[d] \in BDev
    BY <1>2, DevTyped
  <2> HIDE DEF d
  <2> QED BY <2>1, <2>2 DEF BDev
<1>5. BDevices'
  <2> HIDE DEF x
  <2> QED BY <1>1, <1>2, <1>3, <1>4, DevChanged DEF BInv
<1>6. BThreadsAt'
  BY <1>1, AfterFlushStep
<1> QED BY <1>1, <1>5, <1>6, SameTable, SameShared DEF BInv

LEMMA TempStep == ASSUME BInv, NEW c, Temp(c) PROVE BInv'
<1> DEFINE d == bdev["watchdog"]
           hot == IF c = "hot" THEN TRUE ELSE IF c = "cool" THEN FALSE ELSE sc_devs[d].overheat
           x == [sc_devs[d] EXCEPT !.overheat = hot]
<1>1. /\ bpc["watchdog"] = "temp" /\ (Go("watchdog", "flush") \/ Go("watchdog", "rest"))
      /\ device_mutex' = "none" /\ talking' = talking \ {"watchdog"}
      /\ heats' = IF c = "hot" THEN heats + 1 ELSE heats
      /\ c = "hot" => heats < MaxHeat
      /\ UNCHANGED <<bdev, fill, device, answers, brestart>> /\ UNCHANGED tableVars
      /\ sc_devs' = [sc_devs EXCEPT ![d].overheat = CASE c = "hot" -> TRUE [] c = "cool" -> FALSE [] OTHER -> @]
  BY DEF Temp, Unlock
<1>2. d \in ScDevs
  BY <1>1, BusyDev, BThreadNames DEF BBusy
<1> HIDE DEF d
<1>3. sc_devs' = [sc_devs EXCEPT ![d] = x]
  BY <1>1, <1>2 DEF BInv, BDevices, BDev
<1>4. x \in BDev
  <2>1. sc_devs[d] \in BDev /\ sc_devs[d].overheat \in BOOLEAN
    BY <1>2, DevTyped
  <2>2. hot \in BOOLEAN
    BY <2>1
  <2> HIDE DEF hot
  <2> QED BY <2>1, <2>2 DEF BDev
<1>5. BDevices'
  <2> HIDE DEF x
  <2> QED BY <1>1, <1>2, <1>3, <1>4, DevChanged DEF BInv
<1>6. BThreadsAt'
  BY <1>1, OneGoes, BThreadNames DEF BInv, BPcs, BBusy, BSending
<1>7. BShared'
  <2>1. heats' \in 0..MaxHeat
    BY <1>1, BflscConstants DEF BInv, BShared
  <2> QED BY <1>1, <2>1 DEF BInv, BShared
<1> QED BY <1>1, <1>5, <1>6, <1>7, SameTable DEF BInv

LEMMA ReadResultsStep == ASSUME BInv, NEW ok, ReadResults(ok) PROVE BInv'
<1> DEFINE d == bdev["results"]
<1>1. /\ bpc["results"] = "answer" /\ Go("results", "find")
      /\ device_mutex' = "none" /\ talking' = talking \ {"results"}
      /\ device' = [device EXCEPT ![d].out = <<>>]
      /\ answers' \in {device[d].out, <<>>}
      /\ UNCHANGED <<bdev, fill, sc_devs, brestart, heats>> /\ UNCHANGED tableVars
  BY DEF ReadResults, Unlock
<1>2. d \in ScDevs
  BY <1>1, BusyDev, BThreadNames DEF BBusy
<1>3. BThreadsAt'
  <2>1. answers' \in Seq(BAnswer)
    BY <1>1, <1>2, InProcessIs, EmptySeq
  <2>2. bdev' \in [BThreads -> ScDevs \union {NoDev}] /\ fill' \in BFill
    BY <1>1 DEF BInv, BThreadsAt
  <2>3. \A u \in BThreads \ {"results"} : bdev'[u] = bdev[u]
    BY <1>1
  <2>4. bdev'["results"] \in ScDevs
    BY <1>1, <1>2
  <2> QED BY <1>1, <2>1, <2>2, <2>3, <2>4, OneMoves, BThreadNames DEF BInv, BPcs
<1> HIDE DEF d
<1>4. BDevices'
  <2>1. device' \in [ScDevs -> BDevice]
    <3>1. device \in [ScDevs -> BDevice] /\ <<>> \in Seq(BAnswer)
      BY EmptySeq DEF BInv, BDevices
    <3> QED BY <1>1, <1>2, <3>1 DEF BDevice
  <2> QED BY <1>1, <2>1 DEF BInv, BDevices
<1>5. BShared'
  BY <1>1, LocksTaken, BThreadNames
<1> QED BY <1>1, <1>3, <1>4, <1>5, SameTable DEF BInv

LEMMA FirstAnswer ==
  ASSUME BInv, answers # <<>>
  PROVE  Tail(answers) \in Seq(BAnswer) /\ Head(answers) \in BAnswer /\ Head(answers).work \in BWorks
<1>1. answers \in Seq(BAnswer)
  BY DEF BInv, BThreadsAt
<1>2. Tail(answers) \in Seq(BAnswer) /\ Head(answers) \in BAnswer
  BY <1>1, HeadTailProperties
<1> QED BY <1>2 DEF BAnswer

\* The results thread goes on with the next result.
LEMMA ResultsGo ==
  ASSUME BInv, NEW s \in {"look", "find"}, Go("results", s), UNCHANGED <<bdev, fill>>, answers' \in Seq(BAnswer),
         bpc["results"] \in BBusy
  PROVE  BThreadsAt'
<1>1. bdev["results"] \in ScDevs /\ s \in BPcs
  BY BusyDev, BThreadNames DEF BPcs
<1>2. bdev' \in [BThreads -> ScDevs \union {NoDev}] /\ fill' \in BFill
  BY DEF BInv, BThreadsAt
<1>3. \A u \in BThreads \ {"results"} : bdev'[u] = bdev[u]
  OBVIOUS
<1> QED BY <1>1, <1>2, <1>3, OneMoves, BThreadNames DEF BInv

LEMMA FindWorkStep == ASSUME BInv, FindWork PROVE BInv'
<1>1. /\ bpc["results"] = "find"
      /\ UNCHANGED <<bdev, fill, sc_devs, device, device_mutex, talking, brestart, heats>> /\ UNCHANGED tableVars
      /\ \/ Go("results", "look") /\ UNCHANGED answers
         \/ answers # <<>> /\ answers' = Tail(answers) /\ UNCHANGED bpc
         \/ answers # <<>> /\ Go("results", "submit") /\ UNCHANGED answers
  BY DEF FindWork
<1>2. BTable' /\ BDevices' /\ BShared'
  BY <1>1, SameTable, SameDevices, SameShared DEF BInv
<1>3. CASE Go("results", "look") /\ UNCHANGED answers
  <2>1. answers' \in Seq(BAnswer)
    BY <1>3 DEF BInv, BThreadsAt
  <2> QED BY <1>1, <1>2, <1>3, <2>1, ResultsGo DEF BInv, BBusy
<1>4. CASE answers # <<>> /\ answers' = Tail(answers) /\ UNCHANGED bpc
  <2>1. answers' \in Seq(BAnswer)
    BY <1>4, FirstAnswer
  <2> QED BY <1>1, <1>2, <1>4, <2>1 DEF BInv, BThreadsAt
<1>5. CASE answers # <<>> /\ Go("results", "submit") /\ UNCHANGED answers
  <2>1. BThreadsAt'
    BY <1>1, <1>5, OneGoes, BThreadNames DEF BInv, BPcs, BBusy
  <2> QED BY <1>2, <2>1 DEF BInv
<1> QED BY <1>1, <1>3, <1>4, <1>5

LEMMA CountResultStep == ASSUME BInv, CountResult PROVE BInv'
<1> DEFINE d == bdev["results"]
           r == Head(answers)
           since == IF r.nonces /\ sc_devs[d].since < 2 THEN sc_devs[d].since + 1 ELSE sc_devs[d].since
           left(flagged) == IF flagged THEN sc_devs[d].work_queued ELSE sc_devs[d].work_queued - 1
           x(flagged) == [sc_devs[d] EXCEPT !.since = since, !.work_queued = left(flagged)]
<1>1. /\ bpc["results"] = "submit" /\ Go("results", "complete")
      /\ UNCHANGED <<bdev, fill, device, answers, device_mutex, talking, brestart, heats>> /\ UNCHANGED tableVars
  BY DEF CountResult
<1>2. PICK flagged \in BOOLEAN :
        sc_devs' = [sc_devs EXCEPT ![d].since = IF r.nonces /\ @ < 2 THEN @ + 1 ELSE @,
                                   ![d].work_queued = IF flagged THEN @ ELSE @ - 1]
  BY DEF CountResult
<1>3. d \in ScDevs
  BY <1>1, BusyDev, BThreadNames DEF BBusy
<1> HIDE DEF d, r
<1>4. sc_devs' = [sc_devs EXCEPT ![d] = x(flagged)]
  BY <1>3, <1>2 DEF BInv, BDevices, BDev
<1>5. x(flagged) \in BDev
  <2>1. sc_devs[d] \in BDev /\ sc_devs[d].since \in 0..2 /\ sc_devs[d].work_queued \in Int
    BY <1>3, DevTyped
  <2>2. since \in 0..2 /\ left(flagged) \in Int
    BY <2>1
  <2> HIDE DEF since, left
  <2> QED BY <2>1, <2>2 DEF BDev
<1>6. BDevices'
  <2> HIDE DEF x
  <2> QED BY <1>1, <1>3, <1>4, <1>5, DevChanged DEF BInv
<1>7. answers # <<>>
  BY <1>1 DEF BInv, BThreadsAt
<1>8. BThreadsAt'
  BY <1>1, <1>7, OneGoes, BThreadNames DEF BInv, BPcs, BBusy, BSending
<1> QED BY <1>1, <1>6, <1>8, SameTable, SameShared DEF BInv

LEMMA WorkCompletedStep == ASSUME BInv, WorkCompleted PROVE BInv'
<1>1. /\ bpc["results"] = "complete" /\ Go("results", "find") /\ Completed(Head(answers).work)
      /\ answers' = Tail(answers)
      /\ UNCHANGED <<bdev, fill, made, devflag, subid, sc_devs, device, device_mutex, talking, brestart, heats>>
  BY DEF WorkCompleted
<1>2. answers # <<>>
  BY <1>1 DEF BInv, BThreadsAt
<1>3. BTable'
  BY <1>1, <1>2, FirstAnswer, CompletedStep
<1>4. BThreadsAt'
  BY <1>1, <1>2, FirstAnswer, ResultsGo DEF BBusy
<1> QED BY <1>1, <1>3, <1>4, SameDevices, SameShared DEF BInv

LEMMA BflscInvStep == ASSUME BInv, [BflscNext]_bflscVars PROVE BInv'
<1>1. CASE UNCHANGED bflscVars
  BY <1>1 DEF bflscVars, BInv, BTable, BTableTypes, BCounted, BThreadsAt, BDevices, BShared
<1>2. CASE BflscNext
  <2>1. CASE (\E reply, slow : Identify(reply, slow)) \/ (\E ok : Getinfo(ok))
    BY <2>1, DetectSteps3
  <2>2. CASE \E d \in ScDevs : DeviceFinishes(d) \/ AskTemp(d) \/ AskResults(d)
    BY <2>2, DeviceFinishesStep, TurnSteps
  <2>3. CASE \E t \in {"miner", "watchdog"} : FlushSent(t) \/ FlagWork(t) \/ ResetCounters(t)
    BY <2>3, FlushSentStep, FlagWorkStep, ResetCountersStep
  <2>4. CASE (\E o : SendAnswered(o)) \/ (\E c : Temp(c)) \/ (\E ok : ReadResults(ok))
    BY <2>4, SendAnsweredStep, TempStep, ReadResultsStep
  <2>5. CASE RestartThread \/ LoopTop \/ FillQueue \/ ChooseDevice \/ SendWork \/ Resend \/ CountQueued \/ SetSubid
               \/ ScanWork \/ RemoveFlushed \/ ClearFlushed \/ FlushQueue
    BY <2>5, RestartThreadStep, WorkFlowsOn, FillQueueStep, ChooseDeviceStep, SendWorkStep, CountQueuedStep,
       SetSubidStep, TurnSteps, RemoveFlushedStep, ClearFlushedStep, FlushQueueStep
  <2>6. CASE FindWork \/ CountResult \/ WorkCompleted
    BY <2>6, FindWorkStep, CountResultStep, WorkCompletedStep
  <2> QED BY <1>2, <2>1, <2>2, <2>3, <2>4, <2>5, <2>6 DEF BflscNext
<1> QED BY <1>1, <1>2

LEMMA BflscInvariant == BflscSpec => []BInv
<1> QED BY BflscInitially, BflscInvStep, PTL DEF BflscSpec

LEMMA BInvTypes == ASSUME BInv PROVE BTypeOK
<1>1. bdev \in [BThreads -> ScDevs \union {NoDev}] /\ fill.work \in BWorks \union {NoWork} /\ fill.tries \in 0..3
  <2>1. fill.tries \in 0..2
    BY FillTyped
  <2>2. fill.tries \in 0..3
    BY <2>1
  <2> QED BY <2>2, FillTyped DEF BInv, BThreadsAt
<1>2. {queued_work, queued, devflag, bfreed} \subseteq SUBSET BWorks
  BY TableFinite DEF BInv, BTable, BTableTypes
<1>3. made \in 0..MaxWorks /\ queued_count \in Int /\ subid \in [BWorks -> ScDevs] /\ dropped \in BOOLEAN
  BY DEF BInv, BTable, BTableTypes
<1>4. \A d \in ScDevs : /\ sc_devs[d].work_queued \in Int /\ sc_devs[d].since \in 0..2
                        /\ {sc_devs[d].flushed, sc_devs[d].overheat} \subseteq BOOLEAN
                        /\ device[d].jobs \in Seq(BWorks)
  BY DevTyped, InProcessIs
<1> QED BY <1>1, <1>2, <1>3, <1>4 DEF BTypeOK, BInv, BShared

\* get_queued, work_completed and the BFLSC's flushes: queued_count is the number of works in
\* the table with the queued flag, whichever thread takes them out and between any of its steps,
\* also when a work is completed that had been freed, until one such completion frees the table.
THEOREM QueueIsCounted == BflscSpec => [](BTypeOK /\ QueuedCounted)
<1>1. BInv => BTypeOK /\ QueuedCounted
  <2> SUFFICES ASSUME BInv PROVE BTypeOK /\ QueuedCounted
    OBVIOUS
  <2>1. QueuedCounted
    BY TableFinite DEF BInv, BTable, BCounted, QueuedCounted
  <2> QED BY <2>1, BInvTypes
<1> QED BY <1>1, BflscInvariant, PTL

----------------------------------------------------------------------------
(***************************************************************************)
(* The ring of arrays of the Avalon.                                       *)

\* Array a is the one that was in use i sendings ago.
Behind(a, i) == a + i = work_array \/ a + i = work_array + ARRAY_SIZE

AvRecent == recent \in Seq(SUBSET AvWorks) /\ Len(recent) = ARRAY_SIZE - 1

SentInRing ==
  \A i \in 1..ARRAY_SIZE - 1 : \A w \in recent[i] :
    w \in av_table /\ \E s \in Slots : Behind(s[1], i) /\ av_works[s] = w

AvNumbers ==
  /\ \A s \in Slots : av_works[s] <= av_made
  /\ \A s, t \in Slots : av_works[s] = av_works[t] /\ av_works[s] # 0 => s = t

AvFilled == \A j \in 0..av_queued - 1 : av_works[<<work_array, j>>] \in av_table

AvInv == AvTypeOK /\ AvRecent /\ SentInRing /\ AvNumbers /\ AvFilled

LEMMA AvConstants ==
  /\ miner_count \in Nat \ {0} /\ ARRAY_SIZE \in Nat /\ ARRAY_SIZE > 1
  /\ MaxAvWorks \in Nat /\ MaxSendErrors \in Nat /\ AvWorks \subseteq Nat \ {0}
<1>1. miner_count \in Nat \ {0} /\ ARRAY_SIZE \in Nat \ {0, 1} /\ MaxAvWorks \in Nat /\ MaxSendErrors \in Nat
  BY AvalonAssumption DEF AvalonAssumption
<1>2. ARRAY_SIZE > 1
  BY <1>1
<1> QED BY <1>1, <1>2 DEF AvWorks

LEMMA AvalonInitially == AvalonInit => AvInv
<1> SUFFICES ASSUME AvalonInit PROVE AvInv
  OBVIOUS
<1>1. AvTypeOK
  <2>1. {buffer_full, av_idle, av_reset, av_overheat, av_nodev, av_shutdown} \subseteq BOOLEAN
    BY DEF AvalonInit
  <2>2. av_works \in [Slots -> AvWorks \union {0}] /\ av_table \subseteq AvWorks
    BY DEF AvalonInit
  <2>3. /\ av_made \in 0..MaxAvWorks /\ work_array \in 0..(ARRAY_SIZE - 1) /\ av_queued \in 0..miner_count
        /\ nonces \in 0..miner_count /\ av_results \in Int /\ write_sem \in 0..1
        /\ av_errors \in 0..MaxSendErrors
    BY AvConstants DEF AvalonInit
  <2> QED BY <2>1, <2>2, <2>3 DEF AvTypeOK
<1> DEFINE n == ARRAY_SIZE - 1
<1>2. n \in Nat /\ recent = [i \in 1..n |-> {}]
  BY AvConstants DEF AvalonInit
<1>3. AvRecent
  <2> HIDE DEF n
  <2>1. recent \in Seq(SUBSET AvWorks) /\ Len(recent) = n
    BY <1>2
  <2> QED BY <2>1 DEF AvRecent, n
<1>4. SentInRing
  BY <1>2 DEF SentInRing
<1>5. AvNumbers
  BY DEF AvNumbers, AvalonInit
<1>6. AvFilled
  BY DEF AvFilled, AvalonInit
<1> QED BY <1>1, <1>3, <1>4, <1>5, <1>6 DEF AvInv

\* The steps that leave the ring alone.
LEMMA RingStands ==
  ASSUME AvInv, UNCHANGED <<av_made, av_table, av_works, work_array, recent>>, AvTypeOK',
         av_queued' \in {av_queued, 0}
  PROVE  AvInv'
<1>1. AvRecent' /\ SentInRing' /\ AvNumbers'
  BY DEF AvInv, AvRecent, SentInRing, AvNumbers, Behind, Slots
<1>2. AvFilled'
  <2>1. CASE av_queued' = av_queued
    BY <2>1 DEF AvInv, AvFilled
  <2>2. CASE av_queued' = 0
    BY <2>2 DEF AvFilled
  <2> QED BY <2>1, <2>2
<1> QED BY <1>1, <1>2 DEF AvInv

LEMMA AvTypes ==
  ASSUME AvInv,
         \/ DeviceBuffer \/ DeviceGone \/ AvalonFull \/ AvalonClose \/ SendTasksLoop \/ WriteSemWait
         \/ ReaderEnds \/ RunningReset \/ (\E restart \in BOOLEAN : AvalonScanhash(restart))
         \/ \E b \in BOOLEAN : TakeNonce(b) \/ AvalonRead(b)
  PROVE  AvTypeOK' /\ UNCHANGED <<av_made, av_table, av_works, work_array, recent>>
         /\ av_queued' \in {av_queued, 0}
<1> USE AvConstants DEF AvInv, AvTypeOK, avRing
<1>1. CASE DeviceBuffer \/ DeviceGone
  <2>1. (~buffer_full) \in BOOLEAN
    OBVIOUS
  <2> QED BY <1>1, <2>1 DEF DeviceBuffer, DeviceGone
<1>2. CASE AvalonFull \/ SendTasksLoop \/ ReaderEnds
  BY <1>2 DEF AvalonFull, SendTasksLoop, ReaderEnds
<1>7. CASE AvalonClose
  <2>1. /\ av_reset' = FALSE /\ av_idle' = TRUE /\ av_results' = 0
        /\ UNCHANGED <<avRing, buffer_full, nonces, av_overheat, write_sem, av_nodev, av_shutdown, av_errors>>
    BY <1>7 DEF AvalonClose
  <2>2. {buffer_full, av_idle, av_reset, av_overheat, av_nodev, av_shutdown}' \subseteq BOOLEAN
    BY <2>1
  <2> QED BY <2>1, <2>2
<1>3. CASE WriteSemWait
  <2>1. write_sem - 1 \in 0..1
    BY <1>3 DEF WriteSemWait
  <2> QED BY <1>3, <2>1 DEF WriteSemWait
<1>4. CASE RunningReset
  <2>1. (av_idle \/ av_reset) \in BOOLEAN /\ av_results' \in Int
    BY <1>4 DEF RunningReset
  <2> QED BY <1>4, <2>1 DEF RunningReset
<1>5. ASSUME NEW restart \in BOOLEAN, AvalonScanhash(restart)
      PROVE  AvTypeOK' /\ UNCHANGED <<av_made, av_table, av_works, work_array, recent>> /\ av_queued' \in {av_queued, 0}
  <2>1. miner_count \div 3 \in Int
    OBVIOUS
  <2>2. Least(av_results + nonces, miner_count) \in Int
    BY DEF Least
  <2>3. av_results' \in Int
    BY <1>5, <2>1, <2>2 DEF AvalonScanhash
  <2>4. av_reset' \in BOOLEAN /\ av_shutdown' \in BOOLEAN
    BY <1>5 DEF AvalonScanhash
  <2>5. nonces' \in 0..miner_count /\ av_queued' \in {av_queued, 0} /\ av_queued' \in 0..miner_count
    BY <1>5 DEF AvalonScanhash
  <2> QED BY <1>5, <2>3, <2>4, <2>5 DEF AvalonScanhash
<1>6. ASSUME NEW b \in BOOLEAN, TakeNonce(b) \/ AvalonRead(b)
      PROVE  AvTypeOK' /\ UNCHANGED <<av_made, av_table, av_works, work_array, recent>> /\ av_queued' \in {av_queued, 0}
  <2>1. CASE TakeNonce(b)
    <3>1. Least(nonces + 1, miner_count) \in 0..miner_count
      BY DEF Least
    <3>2. nonces' \in 0..miner_count /\ av_overheat' \in BOOLEAN
      BY <2>1, <3>1 DEF TakeNonce
    <3> QED BY <2>1, <3>2 DEF TakeNonce
  <2>2. CASE AvalonRead(b)
    BY <2>2 DEF AvalonRead
  <2> QED BY <1>6, <2>1, <2>2
<1> QED BY <1>1, <1>2, <1>3, <1>4, <1>5, <1>6, <1>7

\* A work is put in a slot whose work was sent when the ring was here last.
LEMMA FillSteps == ASSUME AvInv, AvalonFill PROVE AvInv'
<1> DEFINE s == <<work_array, av_queued>>
           new == av_made + 1
<1>1. /\ AvTypeOK /\ AvRecent /\ SentInRing /\ AvNumbers /\ AvFilled
      /\ miner_count \in Nat \ {0} /\ ARRAY_SIZE \in Nat /\ MaxAvWorks \in Nat
      /\ AvWorks \subseteq Nat \ {0}
  BY AvConstants DEF AvInv
<1>2. /\ av_queued < miner_count /\ av_made < MaxAvWorks
      /\ av_works' = [av_works EXCEPT ![s] = new]
      /\ av_table' = (av_table \ {av_works[s]}) \union {new}
      /\ av_made' = new /\ av_queued' = av_queued + 1
      /\ UNCHANGED <<work_array, recent, buffer_full, nonces, av_results, av_idle, av_reset, av_overheat,
                     write_sem, av_nodev, av_shutdown, av_errors>>
  BY DEF AvalonFill
<1>3. /\ av_queued \in 0..miner_count - 1 /\ work_array \in 0..ARRAY_SIZE - 1 /\ av_made \in Nat
      /\ av_works \in [Slots -> AvWorks \union {0}] /\ av_table \subseteq AvWorks
  BY <1>1, <1>2 DEF AvTypeOK
<1>4. s \in Slots /\ new \in AvWorks
  BY <1>1, <1>2, <1>3 DEF Slots, AvWorks
<1> HIDE DEF s, new
<1>5. \A t \in Slots : av_works'[t] = IF t = s THEN new ELSE av_works[t]
  BY <1>2, <1>3
<1>6. \A t \in Slots : av_works[t] \in Nat /\ av_works[t] <= av_made
  <2> SUFFICES ASSUME NEW t \in Slots PROVE av_works[t] \in Nat /\ av_works[t] <= av_made
    OBVIOUS
  <2>1. av_works[t] \in AvWorks \union {0}
    BY <1>3
  <2>2. av_works[t] \in Nat
    BY <1>1, <2>1 DEF AvWorks
  <2> QED BY <1>1, <2>2 DEF AvNumbers
<1>7. new \in Nat /\ new > av_made
  BY <1>3 DEF new
<1>8. AvTypeOK'
  <2>1. av_works' \in [Slots -> AvWorks \union {0}]
    BY <1>2, <1>3, <1>4
  <2>2. av_table' \subseteq AvWorks /\ av_made' \in 0..MaxAvWorks
    <3>1. av_table' \subseteq AvWorks
      BY <1>2, <1>3, <1>4
    <3>2. av_made' \in 1..MaxAvWorks
      BY <1>2, <1>4 DEF AvWorks
    <3> QED BY <1>1, <3>1, <3>2
  <2>3. av_queued' \in 0..miner_count
    BY <1>1, <1>2, <1>3
  <2> QED BY <1>1, <1>2, <2>1, <2>2, <2>3 DEF AvTypeOK
<1>9. AvNumbers'
  <2>1. \A t \in Slots : av_works'[t] <= av_made'
    BY <1>2, <1>3, <1>5, <1>6, <1>7
  <2>2. ASSUME NEW t \in Slots, NEW u \in Slots, av_works'[t] = av_works'[u], av_works'[t] # 0 PROVE t = u
    <3>1. CASE t # s /\ u # s
      BY <1>1, <1>5, <2>2, <3>1 DEF AvNumbers
    <3>2. CASE t = s /\ u # s
      BY <1>3, <1>5, <1>6, <1>7, <2>2, <3>2
    <3>3. CASE t # s /\ u = s
      BY <1>3, <1>5, <1>6, <1>7, <2>2, <3>3
    <3> QED BY <3>1, <3>2, <3>3
  <2> QED BY <2>1, <2>2 DEF AvNumbers
<1>10. AvFilled'
  <2> SUFFICES ASSUME NEW j \in 0..av_queued' - 1 PROVE av_works'[<<work_array, j>>] \in av_table'
    BY <1>2 DEF AvFilled
  <2>1. j \in 0..av_queued /\ (j # av_queued => j \in 0..av_queued - 1) /\ <<work_array, j>> \in Slots
    BY <1>1, <1>2, <1>3 DEF Slots
  <2>2. CASE j = av_queued
    BY <1>2, <1>5, <2>1, <2>2 DEF s
  <2>3. CASE j # av_queued
    <3> DEFINE t == <<work_array, j>>
    <3>1. t # s /\ t \in Slots
      BY <2>1, <2>3 DEF s
    <3>2. av_works[t] \in av_table
      BY <1>1, <2>1, <2>3 DEF AvFilled
    <3> HIDE DEF t
    <3>3. av_works[t] # av_works[s]
      BY <1>1, <1>3, <1>4, <3>1, <3>2 DEF AvNumbers
    <3>4. av_works'[t] \in av_table'
      BY <1>2, <1>5, <3>1, <3>2, <3>3
    <3> QED BY <3>4 DEF t
  <2> QED BY <2>2, <2>3
<1>11. SentInRing'
  <2> SUFFICES ASSUME NEW i \in 1..ARRAY_SIZE - 1, NEW w \in recent[i]
               PROVE  w \in av_table' /\ \E t \in Slots : Behind(t[1], i)' /\ av_works'[t] = w
    BY <1>2 DEF SentInRing, Slots
  <2>1. PICK t \in Slots : Behind(t[1], i) /\ av_works[t] = w
    BY <1>1 DEF SentInRing
  <2>2. w \in av_table
    BY <1>1 DEF SentInRing
  <2>3. t # s
    <3>1. s[1] = work_array
      BY DEF s
    <3>2. ~Behind(work_array, i)
      BY <1>1, <1>3 DEF Behind
    <3> QED BY <2>1, <3>1, <3>2
  <2>4. w # av_works[s]
    BY <1>1, <1>3, <1>4, <2>1, <2>2, <2>3 DEF AvNumbers
  <2>5. Behind(t[1], i)'
    BY <1>2, <2>1 DEF Behind
  <2>6. av_works'[t] = w
    BY <1>5, <2>1, <2>3
  <2> QED BY <1>2, <2>2, <2>4, <2>5, <2>6
<1>12. AvRecent'
  BY <1>1, <1>2 DEF AvRecent
<1> QED BY <1>8, <1>9, <1>10, <1>11, <1>12 DEF AvInv

LEMMA NextArray ==
  ASSUME NEW A \in Nat, A > 1, NEW w \in 0..A - 1
  PROVE  (w + 1) % A = IF w + 1 = A THEN 0 ELSE w + 1
<1>1. CASE w + 1 = A
  <2>1. A % A = 0
    OBVIOUS
  <2> QED BY <1>1, <2>1
<1>2. CASE w + 1 # A
  <2>1. w + 1 \in 0..A - 1
    BY <1>2
  <2> QED BY <1>2, <2>1
<1> QED BY <1>1, <1>2

LEMMA SendSteps ==
  ASSUME AvInv, NEW n \in 0..miner_count, NEW error \in BOOLEAN, SendTasks(n, error) PROVE AvInv'
<1> DEFINE A == ARRAY_SIZE
<1>1. /\ AvTypeOK /\ AvRecent /\ SentInRing /\ AvNumbers /\ AvFilled
      /\ miner_count \in Nat \ {0} /\ A \in Nat /\ A > 1 /\ MaxAvWorks \in Nat /\ MaxSendErrors \in Nat
      /\ AvWorks \subseteq Nat \ {0} /\ work_array \in 0..A - 1 /\ av_queued \in 0..miner_count
      /\ av_works \in [Slots -> AvWorks \union {0}] /\ av_table \subseteq AvWorks
  BY AvConstants DEF AvInv, AvTypeOK
<1>2. /\ error => (n > 0 /\ av_errors < MaxSendErrors)
      /\ recent' = <<Sent(n)>> \o SubSeq(recent, 1, A - 2)
      /\ av_idle' = (Cardinality(Sent(n)) < n \/ (av_idle /\ Sent(n) = {}))
      /\ av_reset' = (av_reset \/ error)
      /\ av_errors' = IF error THEN av_errors + 1 ELSE av_errors
      /\ av_queued' = 0 /\ work_array' = (work_array + 1) % A
      /\ UNCHANGED <<av_made, av_table, av_works, buffer_full, nonces, av_results, av_overheat, write_sem,
                     av_nodev, av_shutdown>>
  BY DEF SendTasks
<1>3. work_array' = IF work_array + 1 = A THEN 0 ELSE work_array + 1
  BY <1>1, <1>2, NextArray
<1>4. \A w \in Sent(n) : w \in av_table /\ \E s \in Slots : s[1] = work_array /\ av_works[s] = w
  <2> SUFFICES ASSUME NEW j \in 0..n - 1, j < av_queued
               PROVE  LET s == <<work_array, j>>
                      IN  s \in Slots /\ s[1] = work_array /\ av_works[s] \in av_table
    BY Zenon DEF Sent
  <2>1. j \in 0..av_queued - 1 /\ j \in 0..miner_count - 1
    BY <1>1
  <2> QED BY <1>1, <2>1 DEF Slots, AvFilled
<1>5. Sent(n) \in SUBSET AvWorks
  BY <1>1, <1>4
<1>6. /\ recent' \in Seq(SUBSET AvWorks) /\ Len(recent') = A - 1 /\ recent'[1] = Sent(n)
      /\ \A i \in 2..A - 1 : recent'[i] = recent[i - 1]
  <2> DEFINE W == SUBSET AvWorks
             m == A - 2
             b == SubSeq(recent, 1, m)
             a == <<Sent(n)>>
  <2>1. m \in Nat /\ \A i \in 1..m : recent[i] \in W
    BY <1>1 DEF AvRecent
  <2>2. a \in Seq(W) /\ Len(a) = 1 /\ a[1] = Sent(n)
    BY <1>5
  <2> HIDE DEF W, m, a
  <2>3. b \in Seq(W) /\ Len(b) = m /\ \A i \in 1..m : b[i] = recent[i]
    BY <2>1, SubSeqProperties
  <2>4. recent' = a \o b
    BY <1>2 DEF a, m
  <2> HIDE DEF b
  <2>5. /\ recent' \in Seq(W) /\ Len(recent') = 1 + m
        /\ \A i \in 1..1 + m : recent'[i] = IF i <= 1 THEN a[i] ELSE b[i - 1]
    <3>1. /\ a \o b \in Seq(W) /\ Len(a \o b) = Len(a) + Len(b)
          /\ \A i \in 1..Len(a) + Len(b) : (a \o b)[i] = IF i <= Len(a) THEN a[i] ELSE b[i - Len(a)]
      BY <2>2, <2>3, ConcatProperties
    <3>2. Len(a) = 1 /\ Len(b) = m
      BY <2>2, <2>3
    <3> QED BY <2>4, <3>1, <3>2
  <2>6. recent'[1] = Sent(n) /\ \A i \in 2..1 + m : recent'[i] = recent[i - 1]
    BY <2>1, <2>2, <2>3, <2>5
  <2>7. 1 + m = A - 1
    BY <1>1 DEF m
  <2> QED BY <2>5, <2>6, <2>7 DEF W
<1>7. SentInRing'
  <2> SUFFICES ASSUME NEW i \in 1..A - 1, NEW w \in recent'[i]
               PROVE  w \in av_table /\ \E s \in Slots : Behind(s[1], i)' /\ av_works[s] = w
    BY <1>2 DEF SentInRing, Slots
  <2>1. CASE i = 1
    <3>1. PICK s \in Slots : s[1] = work_array /\ av_works[s] = w
      BY <1>4, <1>6, <2>1
    <3>2. work_array + i = work_array' \/ work_array + i = work_array' + A
      BY <1>1, <1>3, <2>1
    <3>3. Behind(s[1], i)'
      BY <3>1, <3>2 DEF Behind
    <3> QED BY <1>4, <1>6, <2>1, <3>1, <3>3
  <2>2. CASE i # 1
    <3>1. i - 1 \in 1..A - 1 /\ i \in 2..A - 1 /\ w \in recent[i - 1]
      BY <1>1, <1>6, <2>2
    <3>2. PICK s \in Slots : Behind(s[1], i - 1) /\ av_works[s] = w
      BY <1>1, <3>1 DEF SentInRing
    <3>3. s[1] \in 0..A - 1
      BY DEF Slots
    <3>4. Behind(s[1], i)'
      BY <1>1, <1>3, <3>1, <3>2, <3>3 DEF Behind
    <3> QED BY <1>1, <3>1, <3>2, <3>4 DEF SentInRing
  <2> QED BY <2>1, <2>2
<1>8. AvTypeOK'
  <2>1. av_idle' \in BOOLEAN /\ av_reset' \in BOOLEAN
    BY <1>2
  <2>2. av_errors' \in 0..MaxSendErrors
    BY <1>1, <1>2 DEF AvTypeOK
  <2>3. work_array' \in 0..A - 1
    BY <1>1, <1>3
  <2> QED BY <1>1, <1>2, <2>1, <2>2, <2>3 DEF AvTypeOK
<1>9. AvNumbers' /\ AvFilled' /\ AvRecent'
  BY <1>1, <1>2, <1>6 DEF AvNumbers, AvFilled, AvRecent, Slots
<1> QED BY <1>7, <1>8, <1>9 DEF AvInv

LEMMA AvalonSteps == AvInv /\ [AvalonNext]_avVars => AvInv'
<1> SUFFICES ASSUME AvInv, [AvalonNext]_avVars PROVE AvInv'
  OBVIOUS
<1>1. CASE AvalonFill
  BY <1>1, FillSteps
<1>2. CASE \E n \in 0..miner_count, error \in BOOLEAN : SendTasks(n, error)
  BY <1>2, SendSteps
<1>3. CASE UNCHANGED avVars
  BY <1>3, RingStands DEF avVars, avRing, AvInv, AvTypeOK
<1>4. CASE \/ DeviceBuffer \/ DeviceGone \/ AvalonFull \/ AvalonClose \/ SendTasksLoop \/ WriteSemWait
           \/ ReaderEnds \/ RunningReset \/ (\E restart \in BOOLEAN : AvalonScanhash(restart))
           \/ \E b \in BOOLEAN : TakeNonce(b) \/ AvalonRead(b)
  BY <1>4, AvTypes, RingStands
<1> QED BY <1>1, <1>2, <1>3, <1>4 DEF AvalonNext

LEMMA AvalonKeeps == AvInv => SentIsKept
<1> SUFFICES ASSUME AvInv, NEW i \in DOMAIN recent PROVE recent[i] \subseteq av_table
  BY DEF SentIsKept
<1>1. i \in 1..ARRAY_SIZE - 1
  BY LenProperties DEF AvInv, AvRecent
<1> QED BY <1>1 DEF AvInv, SentInRing

\* What the last sendings of the ring of arrays sent is in the table of works (avalon_fill).
THEOREM AvSentIsKept == AvalonSpec => []AvTypeOK /\ []SentIsKept
<1>1. AvInv => AvTypeOK /\ SentIsKept
  BY AvalonKeeps DEF AvInv
<1> QED BY <1>1, AvalonInitially, AvalonSteps, PTL DEF AvalonSpec

----------------------------------------------------------------------------
(***************************************************************************)
(* The stream of results of the Avalon.                                    *)

Cell == Nat \X Nat

StreamInv ==
  /\ AvStreamTypeOK /\ readbuf \in Seq(Cell) /\ pipe \in Seq(Cell)
  /\ reader = "read" => Len(readbuf) + Chunk < READBUF \/ readbuf = <<>>

\* What is left of a sequence without its first c cells.
LEMMA DropFirst ==
  ASSUME NEW S, NEW s \in Seq(S), NEW c \in 0..Len(s)
  PROVE  /\ Len(s) \in Nat
         /\ SubSeq(s, c + 1, Len(s)) \in Seq(S)
         /\ Len(SubSeq(s, c + 1, Len(s))) = Len(s) - c
         /\ DOMAIN SubSeq(s, c + 1, Len(s)) = 1..Len(s) - c
         /\ \A i \in 1..Len(s) - c : SubSeq(s, c + 1, Len(s))[i] = s[c + i]
<1>1. Len(s) \in Nat /\ \A i \in 1..Len(s) : s[i] \in S
  BY LenProperties
<1> DEFINE n == Len(s)
           t == SubSeq(s, c + 1, n)
<1>2. n \in Nat /\ c \in 0..n /\ \A i \in c + 1..n : s[i] \in S
  BY <1>1
<1> HIDE DEF n
<1>3. /\ t \in Seq(S) /\ Len(t) = (IF c + 1 <= n THEN n - (c + 1) + 1 ELSE 0)
      /\ \A i \in 1..n - (c + 1) + 1 : t[i] = s[c + 1 + i - 1]
  BY <1>2, SubSeqProperties
<1> HIDE DEF t
<1>4. Len(t) = n - c
  BY <1>2, <1>3
<1>5. \A i \in 1..n - c : t[i] = s[c + i]
  <2>1. n - (c + 1) + 1 = n - c /\ \A i \in 1..n - c : c + 1 + i - 1 = c + i
    BY <1>2
  <2> QED BY <1>3, <2>1
<1>6. DOMAIN t = 1..n - c
  BY <1>3, <1>4, LenProperties
<1> QED BY <1>2, <1>3, <1>4, <1>5, <1>6 DEF n, t

LEMMA ResultsFound ==
  ASSUME NEW n \in Nat, n = Len(readbuf), ResultsInBuf # {}
  PROVE  /\ FirstResult \in 1..n - READ_SIZE + 1 /\ FirstResult \in ResultsInBuf
         /\ \A j \in ResultsInBuf : FirstResult <= j
<1>1. READ_SIZE \in Nat \ {0}
  BY AvStreamAssumption DEF AvStreamAssumption
<1>2. ResultsInBuf \subseteq 1..n - READ_SIZE + 1
  BY DEF ResultsInBuf
<1>3. ResultsInBuf \in SUBSET Nat
  BY <1>1, <1>2
<1>4. \E x \in ResultsInBuf : \A y \in ResultsInBuf : x <= y
  BY <1>3, LeastNat
<1>5. FirstResult \in ResultsInBuf /\ \A j \in ResultsInBuf : FirstResult <= j
  BY <1>4 DEF FirstResult
<1> QED BY <1>2, <1>5

\* Dropping the first c cells loses no result that starts after them.
LEMMA StartsShift ==
  ASSUME NEW buf \in Seq(Cell), NEW c \in 0..Len(buf), NEW T \in SUBSET ResultStarts(buf),
         \A i \in T : i > c
  PROVE  LET U == ResultStarts(SubSeq(buf, c + 1, Len(buf)))
         IN  IsFiniteSet(T) /\ IsFiniteSet(U) /\ Cardinality(T) <= Cardinality(U)
<1> DEFINE n == Len(buf)
           t == SubSeq(buf, c + 1, n)
           U == ResultStarts(t)
           f == [i \in T |-> i - c]
<1>1. /\ n \in Nat /\ c \in 0..n /\ Len(t) = n - c /\ DOMAIN t = 1..n - c
      /\ \A i \in 1..n - c : t[i] = buf[c + i]
  BY DropFirst
<1>2. DOMAIN buf = 1..n
  BY LenProperties
<1>3. READ_SIZE \in Nat \ {0}
  BY AvStreamAssumption DEF AvStreamAssumption
<1>4. T \subseteq 1..n /\ U \subseteq 1..n - c
  BY <1>1, <1>2 DEF ResultStarts
<1>5. IsFiniteSet(U)
  <2>1. IsFiniteSet(1..n - c)
    BY <1>1, FS_Interval
  <2> QED BY <1>4, <2>1, FS_Subset
<1>6. ASSUME NEW i \in T PROVE i - c \in U
  <2>1. i \in 1..n /\ i > c /\ i - c \in 1..n - c
    BY <1>1, <1>4
  <2>2. PICK w \in matching : \A k \in 1..READ_SIZE : i + k - 1 <= n => buf[i + k - 1] = <<w, k>>
    BY DEF ResultStarts
  <2>3. ASSUME NEW k \in 1..READ_SIZE, i - c + k - 1 <= n - c PROVE t[i - c + k - 1] = <<w, k>>
    <3>1. i + k - 1 <= n /\ i - c + k - 1 \in 1..n - c /\ c + (i - c + k - 1) = i + k - 1
      BY <1>1, <1>3, <2>1, <2>3
    <3>2. t[i - c + k - 1] = buf[i + k - 1]
      BY <1>1, <3>1
    <3> QED BY <2>2, <3>1, <3>2
  <2> QED BY <1>1, <2>1, <2>3 DEF ResultStarts
<1> HIDE DEF U, t, n
<1>7. f \in Injection(T, U)
  <2>1. f \in [T -> U]
    BY <1>6
  <2>2. ASSUME NEW i \in T, NEW j \in T, f[i] = f[j] PROVE i = j
    <3>1. i \in Int /\ j \in Int /\ c \in Int /\ i - c = j - c
      BY <1>1, <1>4, <2>2
    <3> QED BY <3>1
  <2> QED BY <2>1, <2>2 DEF Injection, IsInjective
<1>8. IsFiniteSet(T) /\ Cardinality(T) <= Cardinality(U)
  BY <1>5, <1>7, FS_Injection
<1> QED BY <1>5, <1>8 DEF U, t, n

LEMMA AllStarts ==
  ASSUME NEW buf \in Seq(Cell)
  PROVE  IsFiniteSet(ResultStarts(buf)) /\ Cardinality(ResultStarts(buf)) \in Nat
<1>1. IsFiniteSet(1..Len(buf)) /\ DOMAIN buf = 1..Len(buf)
  BY LenProperties, FS_Interval
<1>2. ResultStarts(buf) \in SUBSET (1..Len(buf))
  BY <1>1 DEF ResultStarts
<1> QED BY <1>1, <1>2, FS_Subset, FS_CardinalityType

\* What the parse throws away is what comes before the end of the first result.
LEMMA BeforeFirst ==
  ASSUME StreamInv, ResultsInBuf # {}, NEW i \in ResultStarts(readbuf), i # FirstResult
  PROVE  i > FirstResult + READ_SIZE - 1
<1> DEFINE n == Len(readbuf)
           R == READ_SIZE
           F == FirstResult
<1>1. n \in Nat /\ DOMAIN readbuf = 1..n /\ R \in Nat \ {0}
  BY LenProperties, AvStreamAssumption DEF StreamInv, AvStreamAssumption
<1>2. F \in 1..n - R + 1 /\ F \in ResultsInBuf /\ \A j \in ResultsInBuf : F <= j
  BY <1>1, ResultsFound
<1>3. i \in 1..n
  BY <1>1 DEF ResultStarts
<1>4. PICK v \in matching : \A k \in 1..R : i + k - 1 <= n => readbuf[i + k - 1] = <<v, k>>
  BY DEF ResultStarts
<1>5. PICK w \in matching : \A k \in 1..R : readbuf[F + k - 1] = <<w, k>>
  BY <1>2 DEF ResultsInBuf, ResultAt
<1>6. i # F
  OBVIOUS
<1>7. \A j \in 1..n - R + 1 : ResultAt(j) => F <= j
  BY <1>2 DEF ResultsInBuf
<1>8. ResultAt(i) <=> \E u \in matching : \A k \in 1..R : readbuf[i + k - 1] = <<u, k>>
  BY DEF ResultAt
<1> HIDE DEF n, R, F
<1>9. ASSUME i < F PROVE FALSE
  <2>1. i \in 1..n - R + 1 /\ \A k \in 1..R : i + k - 1 <= n
    BY <1>1, <1>2, <1>3, <1>9
  <2>2. ResultAt(i)
    BY <1>4, <1>8, <2>1
  <2> QED BY <1>2, <1>3, <1>7, <1>9, <2>1, <2>2
<1>10. ASSUME i > F, i <= F + R - 1 PROVE FALSE
  <2>1. i - F + 1 \in 2..R /\ F + (i - F + 1) - 1 = i
    BY <1>1, <1>2, <1>3, <1>10
  <2>2. readbuf[i] = <<w, i - F + 1>>
    <3>1. i - F + 1 \in 1..R
      BY <2>1
    <3> QED BY <1>5, <2>1, <3>1
  <2>3. readbuf[i] = <<v, 1>>
    <3>1. 1 \in 1..R /\ i + 1 - 1 = i /\ i <= n
      BY <1>1, <1>3
    <3> QED BY <1>4, <3>1
  <2> QED BY <2>1, <2>2, <2>3
<1>11. i > F + R - 1
  BY <1>1, <1>2, <1>3, <1>6, <1>9, <1>10
<1> QED BY <1>11 DEF F, R

\* Without a result, all that starts before the last READ_SIZE cells is none.
LEMMA BeforeLast ==
  ASSUME StreamInv, ResultsInBuf = {}, NEW i \in ResultStarts(readbuf)
  PROVE  i > Len(readbuf) - READ_SIZE
<1> DEFINE n == Len(readbuf)
           R == READ_SIZE
<1>1. n \in Nat /\ DOMAIN readbuf = 1..n /\ R \in Nat \ {0}
  BY LenProperties, AvStreamAssumption DEF StreamInv, AvStreamAssumption
<1>2. i \in 1..n
  BY <1>1 DEF ResultStarts
<1>3. PICK v \in matching : \A k \in 1..R : i + k - 1 <= n => readbuf[i + k - 1] = <<v, k>>
  BY DEF ResultStarts
<1>4. i \in 1..n - R + 1 => ~ \A k \in 1..R : readbuf[i + k - 1] = <<v, k>>
  BY DEF ResultsInBuf, ResultAt
<1> HIDE DEF n, R
<1>5. i <= n - R => i \in 1..n - R + 1 /\ \A k \in 1..R : i + k - 1 <= n
  BY <1>1, <1>2
<1>6. i > n - R
  BY <1>1, <1>2, <1>3, <1>4, <1>5
<1> QED BY <1>6 DEF n, R

Kept ==
  reader = "parse" /\ reader' = "check" =>
    Cardinality(ResultStarts(readbuf')) >=
      Cardinality(ResultStarts(readbuf)) - (IF ResultsInBuf # {} THEN 1 ELSE 0)

LEMMA ParseKeeps == ASSUME StreamInv, ParseResults PROVE Kept
<1> DEFINE n == Len(readbuf)
           R == READ_SIZE
           F == FirstResult
           D == ResultStarts(readbuf)
           E == ResultStarts(readbuf')
<1>1. n \in Nat /\ R \in Nat \ {0} /\ readbuf \in Seq(Cell)
  BY LenProperties, AvStreamAssumption DEF StreamInv, AvStreamAssumption
<1>2. IsFiniteSet(D) /\ Cardinality(D) \in Nat
  BY <1>1, AllStarts
<1>3. CASE readbuf' = readbuf
  BY <1>2, <1>3 DEF Kept
<1>4. CASE ResultsInBuf # {} /\ readbuf' = From(F + R)
  <2>1. F \in 1..n - R + 1 /\ \A i \in D \ {F} : i > F + R - 1
    BY <1>1, <1>4, ResultsFound, BeforeFirst
  <2> DEFINE c == F + R - 1
             T == D \ {F}
  <2>2. c \in 0..n /\ c + 1 = F + R
    BY <1>1, <2>1
  <2>3. readbuf' = SubSeq(readbuf, c + 1, n)
    BY <1>4, <2>2 DEF From
  <2>4. T \in SUBSET D /\ \A i \in T : i > c
    BY <2>1
  <2> HIDE DEF c, T
  <2>5. IsFiniteSet(T) /\ IsFiniteSet(E) /\ Cardinality(T) <= Cardinality(E)
    BY <1>1, <2>2, <2>3, <2>4, StartsShift
  <2>6. Cardinality(T) = (IF F \in D THEN Cardinality(D) - 1 ELSE Cardinality(D))
    BY <1>2, FS_RemoveElement DEF T
  <2>7. Cardinality(T) \in Nat /\ Cardinality(E) \in Nat
    BY <2>5, FS_CardinalityType
  <2> HIDE DEF D, E
  <2>8. Cardinality(E) >= Cardinality(D) - 1
    BY <1>2, <2>5, <2>6, <2>7
  <2> QED BY <1>4, <2>8 DEF Kept, D, E
<1>5. CASE ResultsInBuf = {} /\ n >= 2 * R /\ readbuf' = From(n - R + 1)
  <2> DEFINE c == n - R
  <2>1. c \in 0..n /\ \A i \in D : i > c
    BY <1>1, <1>5, BeforeLast
  <2>2. readbuf' = SubSeq(readbuf, c + 1, n)
    BY <1>5 DEF From
  <2> HIDE DEF c
  <2>3. IsFiniteSet(E) /\ Cardinality(D) <= Cardinality(E)
    BY <1>1, <2>1, <2>2, StartsShift
  <2>4. Cardinality(E) \in Nat
    BY <2>3, FS_CardinalityType
  <2> HIDE DEF D, E
  <2>5. Cardinality(E) >= Cardinality(D) - 0
    BY <1>2, <2>3, <2>4
  <2> QED BY <1>5, <2>5 DEF Kept, D, E
<1>6. \/ readbuf' = readbuf
      \/ ResultsInBuf # {} /\ readbuf' = From(F + R)
      \/ ResultsInBuf = {} /\ ~(n < 2 * R) /\ readbuf' = From(n - R + 1)
  BY DEF ParseResults, Parsed
<1>7. ~(n < 2 * R) => n >= 2 * R
  BY <1>1
<1> QED BY <1>3, <1>4, <1>5, <1>6, <1>7

LEMMA StreamInitially == AvStreamInit => StreamInv
<1> SUFFICES ASSUME AvStreamInit PROVE StreamInv
  OBVIOUS
<1>1. /\ READBUF \in Nat \ {0} /\ Chunk \in Nat \ {0} /\ MaxResults \in Nat /\ MaxNoise \in Nat
  BY AvStreamAssumption DEF AvStreamAssumption
<1>2. Len(readbuf) = 0 /\ 0 < READBUF + Chunk
  BY <1>1 DEF AvStreamInit
<1> QED BY <1>1, <1>2 DEF AvStreamInit, StreamInv, AvStreamTypeOK

\* A parse and a check only shorten the buffer.
LEMMA ParseShortens ==
  ASSUME StreamInv, ParseResults PROVE readbuf' \in Seq(Cell) /\ Len(readbuf') <= Len(readbuf)
<1> DEFINE n == Len(readbuf)
           R == READ_SIZE
           F == FirstResult
<1>1. n \in Nat /\ R \in Nat \ {0} /\ readbuf \in Seq(Cell)
  BY LenProperties, AvStreamAssumption DEF StreamInv, AvStreamAssumption
<1>2. \/ readbuf' = readbuf
      \/ ResultsInBuf # {} /\ readbuf' = SubSeq(readbuf, F + R, n)
      \/ ~(n < 2 * R) /\ readbuf' = SubSeq(readbuf, n - R + 1, n)
  BY DEF ParseResults, Parsed, From
<1>3. ResultsInBuf # {} => F \in 1..n - R + 1
  BY <1>1, ResultsFound
<1> SUFFICES ASSUME NEW c \in 0..n, readbuf' = SubSeq(readbuf, c + 1, n)
             PROVE  readbuf' \in Seq(Cell) /\ Len(readbuf') <= n
  <2>1. CASE readbuf' = readbuf
    BY <1>1, <2>1
  <2>2. CASE ResultsInBuf # {} /\ readbuf' = SubSeq(readbuf, F + R, n)
    <3>1. F + R - 1 \in 0..n /\ (F + R - 1) + 1 = F + R
      BY <1>1, <1>3, <2>2
    <3> QED BY <2>2, <3>1
  <2>3. CASE ~(n < 2 * R) /\ readbuf' = SubSeq(readbuf, n - R + 1, n)
    <3>1. n - R \in 0..n
      BY <1>1, <2>3
    <3> QED BY <2>3, <3>1
  <2> QED BY <1>2, <2>1, <2>2, <2>3
<1>4. readbuf' \in Seq(Cell) /\ Len(readbuf') = n - c
  BY <1>1, DropFirst
<1> QED BY <1>1, <1>4

LEMMA StreamSteps == StreamInv /\ [AvStreamNext]_avStreamVars => StreamInv'
<1> SUFFICES ASSUME StreamInv, [AvStreamNext]_avStreamVars PROVE StreamInv'
  OBVIOUS
<1>0. /\ READBUF \in Nat \ {0} /\ Chunk \in Nat \ {0} /\ READ_SIZE \in Nat \ {0}
      /\ MaxResults \in Nat /\ MaxNoise \in Nat /\ StreamWorks \subseteq Nat \ {0}
  BY AvStreamAssumption DEF AvStreamAssumption
<1>1. /\ matching \subseteq StreamWorks /\ Len(readbuf) < READBUF + Chunk
      /\ sent_results \in 0..MaxResults /\ noises \in 0..MaxNoise
      /\ readbuf \in Seq(Cell) /\ pipe \in Seq(Cell) /\ Len(readbuf) \in Nat /\ Len(pipe) \in Nat
  BY LenProperties DEF StreamInv, AvStreamTypeOK
<1>2. CASE \E S \in SUBSET StreamWorks : TableChanges(S)
  BY <1>2 DEF TableChanges, StreamInv, AvStreamTypeOK
<1>3. ASSUME NEW w \in StreamWorks, DeviceSendsResult(w) PROVE StreamInv'
  <2>1. [i \in 1..READ_SIZE |-> <<w, i>>] \in Seq(Cell)
    BY <1>0 DEF Cell
  <2>2. pipe' \in Seq(Cell)
    BY <1>1, <1>3, <2>1, ConcatProperties DEF DeviceSendsResult
  <2>3. sent_results' \in 0..MaxResults
    BY <1>0, <1>1, <1>3 DEF DeviceSendsResult
  <2> QED BY <1>3, <2>2, <2>3 DEF DeviceSendsResult, StreamInv, AvStreamTypeOK
<1>4. CASE DeviceSendsNoise
  <2>1. pipe' \in Seq(Cell)
    BY <1>1, <1>4 DEF DeviceSendsNoise, Noise, Cell
  <2>2. noises' \in 0..MaxNoise
    BY <1>0, <1>1, <1>4 DEF DeviceSendsNoise
  <2> QED BY <1>4, <2>1, <2>2 DEF DeviceSendsNoise, StreamInv, AvStreamTypeOK
<1>5. CASE ParseResults
  <2>1. readbuf' \in Seq(Cell) /\ Len(readbuf') <= Len(readbuf)
    BY <1>5, ParseShortens
  <2>2. Len(readbuf') < READBUF + Chunk
    BY <1>0, <1>1, <2>1, LenProperties
  <2> QED BY <1>1, <1>5, <2>1, <2>2 DEF ParseResults, StreamInv, AvStreamTypeOK
<1>6. CASE \E reset \in BOOLEAN : CheckBuffer(reset)
  <2>1. readbuf' = <<>> \/ (readbuf' = readbuf /\ ~(Len(readbuf) + Chunk >= READBUF))
    BY <1>6 DEF CheckBuffer
  <2>2. readbuf' \in Seq(Cell) /\ Len(readbuf') < READBUF + Chunk
    <3>1. CASE readbuf' = <<>>
      BY <1>0, <3>1, EmptySeq
    <3> QED BY <1>1, <2>1, <3>1
  <2>3. Len(readbuf') + Chunk < READBUF \/ readbuf' = <<>>
    BY <1>0, <1>1, <2>1
  <2> QED BY <1>1, <1>6, <2>2, <2>3 DEF CheckBuffer, StreamInv, AvStreamTypeOK
<1>7. ASSUME NEW n \in 0..Chunk, ReadChunk(n) PROVE StreamInv'
  <2>1. n \in Nat /\ n <= Len(pipe) /\ n <= Chunk
    BY <1>0, <1>7 DEF ReadChunk
  <2> DEFINE a == SubSeq(pipe, 1, n)
  <2>2. \A i \in 1..n : pipe[i] \in Cell
    BY <1>1, <2>1
  <2>3. a \in Seq(Cell) /\ Len(a) = n
    BY <2>1, <2>2, SubSeqProperties
  <2>4. pipe' \in Seq(Cell)
    BY <1>1, <1>7, <2>1, DropFirst DEF ReadChunk
  <2>5. readbuf' = readbuf \o a
    BY <1>7 DEF ReadChunk
  <2> HIDE DEF a
  <2>6. readbuf' \in Seq(Cell) /\ Len(readbuf') = Len(readbuf) + n
    BY <1>1, <2>3, <2>5, ConcatProperties
  <2>7. reader = "read" /\ (Len(readbuf) + Chunk < READBUF \/ Len(readbuf) = 0)
    BY <1>7 DEF ReadChunk, StreamInv
  <2>8. Len(readbuf') < READBUF + Chunk
    BY <1>0, <1>1, <2>1, <2>6, <2>7
  <2>9. reader' \in {"parse", "check", "read"}
    BY <1>7 DEF ReadChunk
  <2>10. reader' = "read" => Len(readbuf') = Len(readbuf) /\ readbuf' = readbuf
    <3> SUFFICES ASSUME reader' = "read" PROVE readbuf' = readbuf
      BY <1>1
    <3>1. n = 0
      BY <1>7 DEF ReadChunk
    <3>2. a = <<>>
      BY <2>1, <3>1, SubSeqEmpty DEF a
    <3> QED BY <1>1, <2>5, <3>2, ConcatEmptySeq
  <2> QED BY <1>1, <1>7, <2>4, <2>6, <2>8, <2>9, <2>10 DEF ReadChunk, StreamInv, AvStreamTypeOK
<1>8. CASE UNCHANGED avStreamVars
  BY <1>8 DEF avStreamVars, StreamInv, AvStreamTypeOK
<1> QED BY <1>2, <1>3, <1>4, <1>5, <1>6, <1>7, <1>8 DEF AvStreamNext

LEMMA StreamKeeps == ASSUME StreamInv, [AvStreamNext]_avStreamVars PROVE [Kept]_avStreamVars
<1>1. CASE ParseResults
  BY <1>1, ParseKeeps
<1>2. CASE ~ParseResults
  <2>1. AvStreamNext => ~(reader = "parse" /\ reader' = "check")
    BY <1>2 DEF AvStreamNext, TableChanges, DeviceSendsResult, DeviceSendsNoise, CheckBuffer, ReadChunk
  <2> QED BY <2>1 DEF Kept
<1> QED BY <1>1, <1>2

\* However the reads cut the stream of results and whatever noise is in it, avalon_parse_results
\* loses none of a work in the table but the one it submits.
THEOREM AvStreamIsKept == AvStreamSpec => []AvStreamTypeOK /\ StreamResultsKept
<1>1. AvStreamSpec => []StreamInv
  BY StreamInitially, StreamSteps, PTL DEF AvStreamSpec
<1>2. StreamInv => AvStreamTypeOK
  BY DEF StreamInv
<1>3. StreamInv /\ [AvStreamNext]_avStreamVars => [Kept]_avStreamVars
  BY StreamKeeps
<1>4. StreamResultsKept <=> [][Kept]_avStreamVars
  BY PTL DEF StreamResultsKept, Kept
<1> QED BY <1>1, <1>2, <1>3, <1>4, PTL DEF AvStreamSpec

----------------------------------------------------------------------------
(***************************************************************************)
(* The FPGAs of a ModMiner.                                                *)

Talking == {"write", "wait", "load"}
ReplyTo == [of: Fpga, kind: Kinds] \cup {OldReply}
BoardSteps == {"ping", "version", "count", "found", "no"}
ThreadSteps == {"off", "init", "load", "write", "wait", "undame", "idle", "poll", "gone"}

\* What is left of the bitstream leaves room for a piece that is cut short.
PiecesLeft == \A f \in Fpga : fpga[f].pc = "write" /\ fpga[f].kind = "chunk" => fpga[f].left < NumChunks

\* No thread runs before the board is known.
NotStarted ==
  board.step \in {"ping", "version", "count"} => mutex = "free" /\ \A f \in Fpga : fpga[f].pc = "off"

OneTalks == ~board_seen.twice => \A f \in Fpga : fpga[f].pc \in Talking => mutex = f

\* As long as no reply came late, the pipe holds nothing but the reply to the one who waits.
PipeOwned ==
  board_seen.late = 0 /\ ~board_seen.twice /\ board.step # "ping" =>
    \/ board_pipe = <<>>
    \/ \E f \in Fpga : fpga[f].pc = "wait" /\ board_pipe = <<[of |-> f, kind |-> fpga[f].kind]>>

BoardInv ==
  BoardTypeOK /\ PiecesLeft /\ NotStarted /\ HolderTalks /\ OneTalks /\ PipeOwned /\ BoardReplies

LEMMA BoardInitially == BoardInit => BoardInv
<1> SUFFICES ASSUME BoardInit PROVE BoardInv
  OBVIOUS
<1>1. NumChunks \in Nat /\ MaxLate \in Nat
  BY BoardAssumption DEF BoardAssumption
<1>2. BoardTypeOK
  <2>1. board_pipe \in Seq([of: Fpga, kind: Kinds] \cup {OldReply})
    <3>1. \A S : \A x \in S : <<x>> \in Seq(S) /\ <<>> \in Seq(S)
      OBVIOUS
    <3>2. OldReply \in [of: Fpga, kind: Kinds] \cup {OldReply}
      OBVIOUS
    <3> QED BY <3>1, <3>2 DEF BoardInit
  <2>2. board \in [step: {"ping", "version", "count", "found", "no"}, programmed: BOOLEAN]
    BY DEF BoardInit
  <2> QED BY <1>1, <2>1, <2>2 DEF BoardInit, BoardTypeOK, Kinds
<1> QED BY <1>2 DEF BoardInit, BoardInv, PiecesLeft, NotStarted, HolderTalks, OneTalks, PipeOwned,
                    BoardReplies, Talking

LEMMA BoardTyped ==
  ASSUME BoardInv
  PROVE  /\ mutex \in Fpga \cup {"free"} /\ board_pipe \in Seq(ReplyTo)
         /\ board \in [step: BoardSteps, programmed: BOOLEAN]
         /\ fpga \in [Fpga -> [pc: ThreadSteps, kind: Kinds, left: 0..NumChunks]]
         /\ board_seen \in [late: 0..MaxLate, twice: BOOLEAN, foreign: BOOLEAN]
         /\ "free" \notin Fpga /\ NumChunks \in Nat /\ MaxLate \in Nat
  BY BoardAssumption DEF BoardInv, BoardTypeOK, BoardAssumption, BoardSteps, ThreadSteps, ReplyTo

\* The steps of the detection.
LEMMA DetectSteps1 == ASSUME BoardInv, Ping \/ Version \/ Count PROVE BoardInv'
<1>1. /\ mutex = "free" /\ \A f \in Fpga : fpga[f].pc = "off"
      /\ board.step \in {"ping", "version", "count"}
  BY DEF BoardInv, NotStarted, Ping, Version, Count
<1>2. UNCHANGED <<mutex>> /\ (board_pipe' = board_pipe \/ board_pipe' = <<>>)
  BY DEF Ping, Version, Count
<1>3. BoardTypeOK'
  <2>1. board_pipe' \in Seq(ReplyTo)
    BY <1>2, BoardTyped, EmptySeq
  <2>2. board' \in [step: BoardSteps, programmed: BOOLEAN]
    BY BoardTyped DEF Ping, Version, Count, BoardSteps
  <2>3. fpga' \in [Fpga -> [pc: ThreadSteps, kind: Kinds, left: 0..NumChunks]]
    <3>1. CASE Count
      <4>1. PICK found \in SUBSET Fpga :
              fpga' = [f \in Fpga |-> IF f \in found THEN [fpga[f] EXCEPT !.pc = "init"] ELSE fpga[f]]
        BY <3>1 DEF Count
      <4>2. \A f \in Fpga : [fpga[f] EXCEPT !.pc = "init"] \in [pc: ThreadSteps, kind: Kinds, left: 0..NumChunks]
        BY BoardTyped DEF ThreadSteps
      <4> QED BY BoardTyped, <4>1, <4>2
    <3> QED BY BoardTyped, <3>1 DEF Ping, Version
  <2>4. board_seen' \in [late: 0..MaxLate, twice: BOOLEAN, foreign: BOOLEAN]
    <3>1. CASE Version
      <4>1. (board_seen.foreign \/ board_pipe # <<>>) \in BOOLEAN
        OBVIOUS
      <4>2. PICK b \in BOOLEAN : b = (board_seen.foreign \/ board_pipe # <<>>)
        BY <4>1
      <4>3. board_seen' = [board_seen EXCEPT !.foreign = b]
        BY <3>1, <4>2 DEF Version
      <4> QED BY BoardTyped, <4>3
    <3> QED BY BoardTyped, <3>1 DEF Ping, Count
  <2> QED BY <1>2, <2>1, <2>2, <2>3, <2>4, BoardTyped DEF BoardTypeOK, BoardSteps, ThreadSteps, ReplyTo
<1>4. \A f \in Fpga : fpga'[f].pc \in {"off", "init"}
  BY <1>1, BoardTyped DEF Ping, Version, Count
<1>5. NotStarted'
  BY <1>1, BoardTyped DEF NotStarted, Ping, Version, Count
<1>6. PiecesLeft' /\ HolderTalks' /\ OneTalks'
  BY <1>1, <1>2, <1>4 DEF PiecesLeft, HolderTalks, OneTalks, Talking
<1>7. PipeOwned' /\ BoardReplies'
  <2>1. CASE Ping
    BY <2>1 DEF BoardInv, PipeOwned, BoardReplies, Ping
  <2>2. CASE Version \/ Count
    <3>1. board.step # "ping" /\ board_pipe' = board_pipe
      BY <2>2 DEF Version, Count
    <3>2. /\ board_seen'.late = board_seen.late /\ board_seen'.twice = board_seen.twice
          /\ board_seen'.foreign = board_seen.foreign \/ (board_seen'.foreign <=> board_seen.foreign \/ board_pipe # <<>>)
      BY <2>2, BoardTyped DEF Version, Count
    <3>3. board_seen.late = 0 /\ ~board_seen.twice => board_pipe = <<>> /\ ~board_seen.foreign
      BY <1>1, <3>1 DEF BoardInv, PipeOwned, BoardReplies
    <3> QED BY <3>1, <3>2, <3>3 DEF PipeOwned, BoardReplies
  <2> QED BY <2>1, <2>2
<1> QED BY <1>3, <1>5, <1>6, <1>7 DEF BoardInv

----------------------------------------------------------------------------
(* A step of a thread: it alone changes, and what it must see to.          *)

Thread == [pc: ThreadSteps \ {"off"}, kind: Kinds, left: 0..NumChunks]

LEMMA ThreadStep ==
  ASSUME BoardInv, NEW f \in Fpga, NEW t \in Thread, fpga' = [fpga EXCEPT ![f] = t],
         fpga[f].pc # "off", board'.step = board.step, board' \in [step: BoardSteps, programmed: BOOLEAN],
         board_pipe' \in Seq(ReplyTo), board_seen' \in [late: 0..MaxLate, twice: BOOLEAN, foreign: BOOLEAN],
         t.pc = "write" /\ t.kind = "chunk" => t.left < NumChunks,
         \/ mutex' = f /\ mutex = "free" /\ t.pc \in Talking
         \/ mutex' = mutex /\ (fpga[f].pc \in Talking <=> t.pc \in Talking)
         \/ mutex' = "free" /\ t.pc \notin Talking,
         board_seen.twice => board_seen'.twice,
         board_seen'.late >= board_seen.late,
         mutex' = "free" /\ ~board_seen'.twice => mutex \in {"free", f}
  PROVE  BoardTypeOK' /\ PiecesLeft' /\ NotStarted' /\ HolderTalks' /\ OneTalks'
<1> USE BoardTyped
<1>1. \A g \in Fpga : fpga'[g] = IF g = f THEN t ELSE fpga[g]
  OBVIOUS
<1>2. BoardTypeOK'
  <2>1. t \in [pc: ThreadSteps, kind: Kinds, left: 0..NumChunks]
    BY DEF Thread
  <2>2. fpga' \in [Fpga -> [pc: ThreadSteps, kind: Kinds, left: 0..NumChunks]]
    BY <2>1
  <2>3. mutex' \in Fpga \cup {"free"}
    OBVIOUS
  <2> QED BY <2>2, <2>3, Zenon DEF BoardTypeOK, BoardSteps, ThreadSteps, ReplyTo
<1>3. PiecesLeft'
  BY <1>1 DEF BoardInv, PiecesLeft
<1>4. NotStarted'
  <2>1. board.step \notin {"ping", "version", "count"}
    BY DEF BoardInv, NotStarted
  <2> QED BY <2>1 DEF NotStarted
<1>5. HolderTalks'
  BY <1>1 DEF BoardInv, HolderTalks, Talking
<1>6. OneTalks'
  <2> SUFFICES ASSUME ~board_seen'.twice, NEW g \in Fpga, fpga'[g].pc \in Talking PROVE mutex' = g
    BY DEF OneTalks
  <2>1. \A h \in Fpga : fpga[h].pc \in Talking => mutex = h
    BY DEF BoardInv, OneTalks
  <2> QED BY <1>1, <2>1
<1> QED BY <1>2, <1>3, <1>4, <1>5, <1>6

\* The replies on their way, when no late one is among them.
LEMMA PipeFacts ==
  ASSUME BoardInv, board_seen.late = 0, ~board_seen.twice, NEW f \in Fpga, fpga[f].pc # "off"
  PROVE  /\ board.step # "ping" /\ ~board_seen.foreign
         /\ fpga[f].pc \in Talking =>
              /\ board_pipe = <<>> \/ (fpga[f].pc = "wait" /\ board_pipe = <<[of |-> f, kind |-> fpga[f].kind]>>)
              /\ \A g \in Fpga : fpga[g].pc \in Talking => g = f
<1>1. board.step # "ping"
  BY DEF BoardInv, NotStarted
<1>2. ~board_seen.foreign
  BY DEF BoardInv, BoardReplies
<1>3. ASSUME fpga[f].pc \in Talking
      PROVE  /\ board_pipe = <<>> \/ (fpga[f].pc = "wait" /\ board_pipe = <<[of |-> f, kind |-> fpga[f].kind]>>)
             /\ \A g \in Fpga : fpga[g].pc \in Talking => g = f
  <2>1. \A g \in Fpga : fpga[g].pc \in Talking => mutex = g
    BY DEF BoardInv, OneTalks
  <2>2. \/ board_pipe = <<>>
        \/ \E g \in Fpga : fpga[g].pc = "wait" /\ board_pipe = <<[of |-> g, kind |-> fpga[g].kind]>>
    BY <1>1 DEF BoardInv, PipeOwned
  <2> QED BY <1>3, <2>1, <2>2 DEF Talking
<1> QED BY <1>1, <1>2, <1>3

\* A thread that does not wait afterwards leaves the pipe empty, or as it is.
LEMMA PipeStep ==
  ASSUME BoardInv, NEW f \in Fpga, NEW t, fpga' = [fpga EXCEPT ![f] = t], fpga[f].pc # "off",
         board'.step = board.step, board_seen'.late >= board_seen.late,
         board_seen.twice => board_seen'.twice,
         board_seen'.late = 0 /\ ~board_seen'.twice =>
           /\ ~board_seen'.foreign
           /\ \/ board_pipe' = <<>>
              \/ t.pc = "wait" /\ board_pipe' = <<[of |-> f, kind |-> t.kind]>>
              \/ board_pipe' = board_pipe /\ fpga[f].pc # "wait"
  PROVE  PipeOwned' /\ BoardReplies'
<1> USE BoardTyped
<1>1. \A g \in Fpga : fpga'[g] = IF g = f THEN t ELSE fpga[g]
  OBVIOUS
<1>2. BoardReplies'
  BY DEF BoardReplies
<1>3. PipeOwned'
  <2> SUFFICES ASSUME board_seen'.late = 0, ~board_seen'.twice
               PROVE  \/ board_pipe' = <<>>
                      \/ \E g \in Fpga : fpga'[g].pc = "wait" /\ board_pipe' = <<[of |-> g, kind |-> fpga'[g].kind]>>
    BY DEF PipeOwned
  <2>1. board_seen.late = 0 /\ ~board_seen.twice
    OBVIOUS
  <2>2. board.step # "ping"
    BY <2>1, PipeFacts
  <2>3. \/ board_pipe = <<>>
        \/ \E g \in Fpga : fpga[g].pc = "wait" /\ board_pipe = <<[of |-> g, kind |-> fpga[g].kind]>>
    BY <2>1, <2>2 DEF BoardInv, PipeOwned
  <2> QED BY <1>1, <2>3
<1> QED BY <1>2, <1>3

\* What reading a reply does.
LEMMA ReplyRead ==
  ASSUME BoardInv, NEW f \in Fpga, TakesReply(f)
  PROVE  /\ fpga[f].pc = "wait" /\ board_pipe' \in Seq(ReplyTo)
         /\ board_seen' \in [late: 0..MaxLate, twice: BOOLEAN, foreign: BOOLEAN]
         /\ board_seen'.late = board_seen.late /\ board_seen'.twice = board_seen.twice
         /\ board_seen'.late = 0 /\ ~board_seen'.twice => ~board_seen'.foreign /\ board_pipe' = <<>>
<1> USE BoardTyped
<1>1. fpga[f].pc = "wait" /\ board_pipe # <<>> /\ board_pipe' = Tail(board_pipe)
  BY DEF TakesReply
<1>2. board_pipe' \in Seq(ReplyTo)
  BY <1>1, HeadTailProperties
<1>3. PICK b \in BOOLEAN : b = (board_seen.foreign \/ Head(board_pipe) # [of |-> f, kind |-> fpga[f].kind])
  <2>1. (board_seen.foreign \/ Head(board_pipe) # [of |-> f, kind |-> fpga[f].kind]) \in BOOLEAN
    OBVIOUS
  <2> QED BY <2>1
<1>4. board_seen' = [board_seen EXCEPT !.foreign = b]
  BY <1>3 DEF TakesReply
<1>5. /\ board_seen' \in [late: 0..MaxLate, twice: BOOLEAN, foreign: BOOLEAN]
      /\ board_seen'.late = board_seen.late /\ board_seen'.twice = board_seen.twice /\ board_seen'.foreign = b
  BY <1>4
<1>6. ASSUME board_seen.late = 0, ~board_seen.twice PROVE ~b /\ board_pipe' = <<>>
  <2>1. ~board_seen.foreign /\ board_pipe = <<[of |-> f, kind |-> fpga[f].kind]>>
    BY <1>1, <1>6, PipeFacts DEF Talking
  <2>2. \A x : Head(<<x>>) = x /\ Tail(<<x>>) = <<>>
    OBVIOUS
  <2> QED BY <1>1, <1>3, <2>1, <2>2
<1> QED BY <1>1, <1>2, <1>5, <1>6

LEMMA ThreadOf ==
  ASSUME BoardInv, NEW f \in Fpga, NEW p \in ThreadSteps \ {"off"}, Goes(f, p)
  PROVE  LET t == [fpga[f] EXCEPT !.pc = p]
         IN  /\ fpga' = [fpga EXCEPT ![f] = t] /\ t \in Thread /\ t.pc = p
             /\ t.kind = fpga[f].kind /\ t.left = fpga[f].left
<1> DEFINE t == [fpga[f] EXCEPT !.pc = p]
<1>1. fpga[f] \in [pc: ThreadSteps, kind: Kinds, left: 0..NumChunks]
  BY BoardTyped
<1>2. t \in Thread /\ t.pc = p /\ t.kind = fpga[f].kind /\ t.left = fpga[f].left
  BY <1>1 DEF Thread
<1>3. fpga' = [fpga EXCEPT ![f] = t]
  BY DEF Goes
<1> QED BY <1>2, <1>3

LEMMA BoardStands ==
  ASSUME BoardInv, UNCHANGED board
  PROVE  board'.step = board.step /\ board' \in [step: BoardSteps, programmed: BOOLEAN]
  BY BoardTyped

LEMMA SeenStands ==
  ASSUME BoardInv, UNCHANGED board_seen
  PROVE  /\ board_seen' \in [late: 0..MaxLate, twice: BOOLEAN, foreign: BOOLEAN]
         /\ board_seen'.late >= board_seen.late /\ (board_seen.twice => board_seen'.twice)
  BY BoardTyped

LEMMA AskStep == ASSUME BoardInv, NEW f \in Fpga, Ask(f) PROVE BoardInv'
<1> USE BoardTyped
<1>1. PICK what \in Asks(f) : LockBoard(f, what) /\ fpga' = [fpga EXCEPT ![f].pc = "write", ![f].kind = what]
  BY DEF Ask
<1>2. UNCHANGED <<board_pipe, board, board_seen>>
  BY DEF Ask
<1>3. fpga[f].pc \in {"init", "idle", "poll"} /\ what \in Kinds \ Upload
  BY <1>1 DEF Asks, Kinds, Upload
<1> DEFINE t == [fpga[f] EXCEPT !.pc = "write", !.kind = what]
<1>4. /\ t \in Thread /\ t.pc = "write" /\ t.kind # "chunk" /\ fpga' = [fpga EXCEPT ![f] = t]
  BY <1>1, <1>3 DEF Thread, ThreadSteps, Kinds, Upload
<1> HIDE DEF t
<1>5. mutex' = f /\ mutex = "free" /\ ~board_seen.foreign
  BY <1>1 DEF LockBoard
<1>6. BoardTypeOK' /\ PiecesLeft' /\ NotStarted' /\ HolderTalks' /\ OneTalks'
  <2>1. fpga[f].pc # "off" /\ t.pc \in Talking
    BY <1>3, <1>4 DEF Talking
  <2>2. mutex' # "free"
    BY <1>5
  <2>3. board_pipe' \in Seq(ReplyTo)
    BY <1>2
  <2> QED BY <1>2, <1>4, <1>5, <2>1, <2>2, <2>3, ThreadStep, BoardStands, SeenStands
<1>7. PipeOwned' /\ BoardReplies'
  <2>1. fpga[f].pc # "off" /\ fpga[f].pc # "wait"
    BY <1>3
  <2>2. board_pipe' = board_pipe /\ ~board_seen'.foreign
    BY <1>2, <1>5
  <2> QED BY <1>2, <1>4, <2>1, <2>2, PipeStep, BoardStands, SeenStands
<1> QED BY <1>6, <1>7 DEF BoardInv

\* A command is written, or the rest of it is to be: its reply is on the way.
LEMMA WriteSteps ==
  ASSUME BoardInv, NEW f \in Fpga, Write(f) \/ WriteSplit(f) \/ Finished(f) PROVE BoardInv'
<1> USE BoardTyped
<1>1. PICK t \in Thread :
        /\ fpga' = [fpga EXCEPT ![f] = t] /\ t.pc = "wait" /\ t.kind = fpga[f].kind
        /\ board_pipe' = Append(board_pipe, [of |-> f, kind |-> t.kind])
  <2>1. CASE Write(f)
    <3> DEFINE t == [fpga[f] EXCEPT !.pc = "wait"]
    <3>1. fpga' = [fpga EXCEPT ![f] = t] /\ t \in Thread /\ t.pc = "wait" /\ t.kind = fpga[f].kind
      BY <2>1, ThreadOf DEF Write, ThreadSteps
    <3> QED BY <2>1, <3>1 DEF Write
  <2>2. CASE WriteSplit(f)
    <3> DEFINE t == [fpga[f] EXCEPT !.pc = "wait", !.left = fpga[f].left + 1]
    <3>1. fpga[f].left + 1 \in 0..NumChunks
      BY <2>2 DEF WriteSplit, BoardInv, PiecesLeft
    <3>2. fpga[f] \in [pc: ThreadSteps, kind: Kinds, left: 0..NumChunks]
      OBVIOUS
    <3>3. t \in Thread /\ t.pc = "wait" /\ t.kind = fpga[f].kind
      BY <3>1, <3>2 DEF Thread, ThreadSteps
    <3>4. fpga' = [fpga EXCEPT ![f] = t]
      BY <2>2 DEF WriteSplit
    <3> QED BY <2>2, <3>3, <3>4 DEF WriteSplit
  <2>3. CASE Finished(f)
    <3> DEFINE t == fpga[f]
    <3>1. t \in Thread /\ t.pc = "wait" /\ t.kind = "final"
      BY <2>3 DEF Finished, Thread
    <3>2. fpga' = [fpga EXCEPT ![f] = t]
      BY <2>3 DEF Finished
    <3> QED BY <2>3, <3>1, <3>2 DEF Finished
  <2> QED BY <2>1, <2>2, <2>3
<1>2. UNCHANGED <<mutex, board, board_seen>> /\ fpga[f].pc \in {"write", "wait"}
  BY DEF Write, WriteSplit, Finished
<1>3. board_pipe' \in Seq(ReplyTo)
  <2>1. [of |-> f, kind |-> t.kind] \in ReplyTo
    BY <1>1 DEF ReplyTo
  <2> QED BY <1>1, <2>1
<1>4. BoardTypeOK' /\ PiecesLeft' /\ NotStarted' /\ HolderTalks' /\ OneTalks'
  BY <1>1, <1>2, <1>3, ThreadStep, BoardStands, SeenStands DEF Talking
<1>5. PipeOwned' /\ BoardReplies'
  <2> SUFFICES ASSUME board_seen.late = 0, ~board_seen.twice
               PROVE  ~board_seen.foreign /\ board_pipe' = <<[of |-> f, kind |-> t.kind]>>
    <3>1. fpga[f].pc # "off"
      BY <1>2
    <3>2. board_seen'.late = board_seen.late /\ board_seen'.twice = board_seen.twice /\ board_seen'.foreign = board_seen.foreign
      BY <1>2
    <3> QED BY <1>1, <1>2, <3>1, <3>2, PipeStep, BoardStands, SeenStands
  <2>1. /\ ~board_seen.foreign
        /\ board_pipe = <<>> \/ (fpga[f].pc = "wait" /\ board_pipe = <<[of |-> f, kind |-> fpga[f].kind]>>)
    BY <1>2, PipeFacts DEF Talking
  <2>2. board_pipe = <<>>
    <3> SUFFICES ASSUME fpga[f].pc = "wait", board_pipe = <<[of |-> f, kind |-> fpga[f].kind]>> PROVE FALSE
      BY <2>1
    <3>1. Finished(f)
      BY DEF Write, WriteSplit
    <3>2. fpga[f].kind = "final" /\ ~\E i \in DOMAIN board_pipe : board_pipe[i] = [of |-> f, kind |-> "final"]
      BY <3>1 DEF Finished
    <3>3. 1 \in DOMAIN board_pipe /\ board_pipe[1] = [of |-> f, kind |-> "final"]
      BY <3>2
    <3> QED BY <3>2, <3>3
  <2>3. \A x : Append(<<>>, x) = <<x>>
    OBVIOUS
  <2> QED BY <1>1, <2>1, <2>2, <2>3
<1> QED BY <1>4, <1>5 DEF BoardInv

\* The mutex is given back, and nothing was read.
LEMMA GiveUpSteps ==
  ASSUME BoardInv, NEW f \in Fpga,
         \/ BoardWriteFails(f) \/ BoardWorkEnds(f) \/ BadFile(f) \/ Programs(f) \/ Undame(f)
  PROVE  BoardInv'
<1> USE BoardTyped
<1>1. CASE Programs(f)
  <2> DEFINE t == [fpga[f] EXCEPT !.pc = "write", !.kind = "start", !.left = NumChunks]
  <2>1. fpga[f] \in [pc: ThreadSteps, kind: Kinds, left: 0..NumChunks]
    OBVIOUS
  <2>2. t \in Thread /\ t.pc = "write" /\ t.kind # "chunk"
    <3>1. NumChunks \in 0..NumChunks
      OBVIOUS
    <3> DEFINE L == 0..NumChunks
    <3>2. NumChunks \in L /\ fpga[f] \in [pc: ThreadSteps, kind: Kinds, left: L]
      BY <2>1, <3>1
    <3> HIDE DEF L
    <3>3. t \in [pc: ThreadSteps \ {"off"}, kind: Kinds, left: L] /\ t.pc = "write" /\ t.kind # "chunk"
      BY ONLY <3>2 DEF ThreadSteps, Kinds
    <3> QED BY <3>3 DEF Thread, L
  <2>3. fpga' = [fpga EXCEPT ![f] = t] /\ fpga[f].pc = "load" /\ UNCHANGED <<mutex, board_pipe, board, board_seen>>
    BY <1>1 DEF Programs
  <2> HIDE DEF t
  <2>4. BoardTypeOK' /\ PiecesLeft' /\ NotStarted' /\ HolderTalks' /\ OneTalks'
    BY <2>2, <2>3, ThreadStep, BoardStands, SeenStands DEF Talking
  <2>5. board_seen.late = 0 /\ ~board_seen.twice => ~board_seen.foreign
    BY DEF BoardInv, BoardReplies
  <2>6. PipeOwned' /\ BoardReplies'
    <3>1. fpga[f].pc # "off" /\ fpga[f].pc # "wait" /\ board_pipe' = board_pipe
      BY <2>3
    <3>2. board_seen'.late = 0 /\ ~board_seen'.twice => ~board_seen'.foreign
      BY <2>3, <2>5
    <3> QED BY <2>2, <2>3, <3>1, <3>2, PipeStep, BoardStands, SeenStands
  <2> QED BY <2>4, <2>6 DEF BoardInv
<1>2. ASSUME NEW p \in {"gone", "poll", "idle"}, Goes(f, p), UNCHANGED <<board_pipe, board>>,
             board_seen' \in [late: 0..MaxLate, twice: BOOLEAN, foreign: BOOLEAN],
             board_seen'.late = board_seen.late, board_seen'.foreign = board_seen.foreign,
             board_seen.twice => board_seen'.twice,
             \/ mutex' = mutex /\ fpga[f].pc = "poll"
             \/ mutex' = "free" /\ fpga[f].pc \in {"write", "load"}
             \/ mutex' = "free" /\ fpga[f].pc = "undame" /\ (mutex # "free" => board_seen'.twice)
      PROVE  BoardInv'
  <2>1. PICK t \in Thread : fpga' = [fpga EXCEPT ![f] = t] /\ t.pc = p
    <3> DEFINE u == [fpga[f] EXCEPT !.pc = p]
    <3>1. fpga' = [fpga EXCEPT ![f] = u] /\ u \in Thread /\ u.pc = p
      BY <1>2, ThreadOf DEF ThreadSteps
    <3> QED BY <3>1
  <2>2. mutex' = "free" /\ ~board_seen'.twice => mutex \in {"free", f}
    BY <1>2 DEF BoardInv, OneTalks, Talking
  <2>3. BoardTypeOK' /\ PiecesLeft' /\ NotStarted' /\ HolderTalks' /\ OneTalks'
    <3>1. /\ board_seen'.late >= board_seen.late /\ t.pc \notin Talking /\ t.pc # "write"
          /\ fpga[f].pc # "off" /\ board_pipe' \in Seq(ReplyTo)
      BY <1>2, <2>1 DEF Talking
    <3>2. \/ mutex' = mutex /\ (fpga[f].pc \in Talking <=> t.pc \in Talking)
          \/ mutex' = "free" /\ t.pc \notin Talking
      BY <1>2, <2>1, <3>1 DEF Talking
    <3> QED BY <1>2, <2>1, <2>2, <3>1, <3>2, ThreadStep, BoardStands
  <2>4. board_seen.late = 0 /\ ~board_seen.twice => ~board_seen.foreign
    BY DEF BoardInv, BoardReplies
  <2>5. PipeOwned' /\ BoardReplies'
    <3>1. fpga[f].pc # "off" /\ fpga[f].pc # "wait" /\ board_seen'.late >= board_seen.late
      BY <1>2
    <3> QED BY <1>2, <2>1, <2>4, <3>1, PipeStep, BoardStands
  <2> QED BY <2>3, <2>5 DEF BoardInv
<1>3. CASE BoardWriteFails(f)
  <2>1. Fallback(f) \in {"gone", "poll"}
    BY DEF Fallback
  <2> QED BY <1>2, <1>3, <2>1 DEF BoardWriteFails
<1>4. CASE BoardWorkEnds(f)
  BY <1>2, <1>4 DEF BoardWorkEnds
<1>5. CASE BadFile(f)
  BY <1>2, <1>5 DEF BadFile
<1>6. CASE Undame(f)
  <2>1. PICK b \in BOOLEAN : b = (board_seen.twice \/ mutex # "free")
    <3>1. (board_seen.twice \/ mutex # "free") \in BOOLEAN
      OBVIOUS
    <3> QED BY <3>1
  <2>2. board_seen' = [board_seen EXCEPT !.twice = b]
    BY <1>6, <2>1 DEF Undame
  <2>3. /\ board_seen' \in [late: 0..MaxLate, twice: BOOLEAN, foreign: BOOLEAN]
        /\ board_seen'.late = board_seen.late /\ board_seen'.foreign = board_seen.foreign /\ board_seen'.twice = b
    BY <2>2
  <2> QED BY <1>2, <1>6, <2>1, <2>3 DEF Undame
<1> QED BY <1>1, <1>3, <1>4, <1>5, <1>6

\* A reply was read, or none came in time.
LEMMA AnswerSteps ==
  ASSUME BoardInv, NEW f \in Fpga, Reply(f) \/ NoReply(f) \/ Programmed(f) \/ NotProgrammed(f)
  PROVE  BoardInv'
<1> USE BoardTyped
<1>1. fpga[f].pc = "wait"
  BY DEF Reply, NoReply, Programmed, NotProgrammed, TakesReply
<1>2. /\ board_pipe' \in Seq(ReplyTo)
      /\ board_seen' \in [late: 0..MaxLate, twice: BOOLEAN, foreign: BOOLEAN]
      /\ board_seen'.late >= board_seen.late /\ board_seen'.twice = board_seen.twice
      /\ board_seen'.late = 0 /\ ~board_seen'.twice => ~board_seen'.foreign /\ board_pipe' = <<>>
  <2>1. CASE TakesReply(f)
    <3>1. board_seen'.late = board_seen.late
      BY <2>1, ReplyRead
    <3>2. board_seen'.late >= board_seen.late
      BY <3>1
    <3> QED BY <2>1, <3>2, ReplyRead
  <2>2. CASE board_seen.late < MaxLate /\ board_seen' = [board_seen EXCEPT !.late = @ + 1] /\ UNCHANGED board_pipe
    <3>1. board_seen.late + 1 \in 0..MaxLate /\ board_seen.late + 1 > 0 /\ board_seen.late + 1 >= board_seen.late
      BY <2>2
    <3> QED BY <2>2, <3>1
  <2> QED BY <2>1, <2>2 DEF Reply, NoReply, Programmed, NotProgrammed
<1>3. board'.step = board.step /\ board' \in [step: BoardSteps, programmed: BOOLEAN]
  <2>1. CASE board' = board
    BY <2>1
  <2>2. CASE Programmed(f)
    <3>1. PICK b \in BOOLEAN : b = (board.programmed \/ fpga[f].kind = "final")
      <4>1. (board.programmed \/ fpga[f].kind = "final") \in BOOLEAN
        OBVIOUS
      <4> QED BY <4>1
    <3>2. board' = [board EXCEPT !.programmed = b]
      BY <2>2, <3>1 DEF Programmed
    <3> QED BY <3>2
  <2> QED BY <2>1, <2>2 DEF Reply, NoReply, NotProgrammed
<1>4. PICK t \in Thread :
        /\ fpga' = [fpga EXCEPT ![f] = t]
        /\ t.pc = "write" /\ t.kind = "chunk" => t.left < NumChunks
        /\ \/ mutex' = mutex /\ t.pc \in Talking
           \/ mutex' = "free" /\ t.pc \notin Talking
  <2>1. ASSUME NEW p \in ThreadSteps \ {"off", "write"}, Goes(f, p),
               \/ mutex' = mutex /\ p \in Talking
               \/ mutex' = "free" /\ p \notin Talking
        PROVE  \E t \in Thread :
                 /\ fpga' = [fpga EXCEPT ![f] = t]
                 /\ t.pc = "write" /\ t.kind = "chunk" => t.left < NumChunks
                 /\ \/ mutex' = mutex /\ t.pc \in Talking
                    \/ mutex' = "free" /\ t.pc \notin Talking
    <3> DEFINE t == [fpga[f] EXCEPT !.pc = p]
    <3>1. fpga' = [fpga EXCEPT ![f] = t] /\ t \in Thread /\ t.pc = p
      BY <2>1, ThreadOf
    <3> QED BY <2>1, <3>1
  <2>2. CASE Reply(f)
    <3>1. \/ mutex' = "free" /\ Goes(f, "poll")
          \/ mutex' = "free" /\ Goes(f, "idle")
          \/ mutex' = mutex /\ Goes(f, "load")
      BY <2>2 DEF Reply
    <3> QED BY <2>1, <3>1 DEF ThreadSteps, Talking
  <2>3. CASE NoReply(f)
    BY <2>1, <2>3 DEF NoReply, Fallback, ThreadSteps, Talking
  <2>4. CASE NotProgrammed(f)
    BY <2>1, <2>4 DEF NotProgrammed, ThreadSteps, Talking
  <2>5. CASE Programmed(f)
    <3> DEFINE t == NextPiece(f)
    <3>1. fpga[f] \in [pc: ThreadSteps, kind: Kinds, left: 0..NumChunks] /\ fpga[f].pc = "wait"
      BY <1>1
    <3>2. fpga[f].left # 0 => fpga[f].left - 1 \in 0..NumChunks /\ fpga[f].left - 1 < NumChunks
      BY <3>1
    <3>3. fpga[f].kind = "final" => t \in Thread /\ t.pc = "idle"
      BY <3>1 DEF NextPiece, Thread, ThreadSteps
    <3>4. fpga[f].kind # "final" /\ fpga[f].left = 0 => t \in Thread /\ t.pc = "wait"
      BY <3>1 DEF NextPiece, Thread, ThreadSteps, Kinds
    <3>5. fpga[f].kind # "final" /\ fpga[f].left # 0 =>
            t \in Thread /\ t.pc = "write" /\ t.left = fpga[f].left - 1
      BY <3>1, <3>2 DEF NextPiece, Thread, ThreadSteps, Kinds
    <3>6. fpga' = [fpga EXCEPT ![f] = t] /\ mutex' = IF fpga[f].kind = "final" THEN "free" ELSE mutex
      BY <2>5 DEF Programmed
    <3> HIDE DEF t
    <3> QED BY <3>2, <3>3, <3>4, <3>5, <3>6 DEF Talking
  <2> QED BY <2>2, <2>3, <2>4, <2>5
<1>5. mutex' = "free" /\ ~board_seen'.twice => mutex \in {"free", f}
  BY <1>1, <1>2 DEF BoardInv, OneTalks, Talking
<1>6. BoardTypeOK' /\ PiecesLeft' /\ NotStarted' /\ HolderTalks' /\ OneTalks'
  <2>1. \/ mutex' = mutex /\ (fpga[f].pc \in Talking <=> t.pc \in Talking)
        \/ mutex' = "free" /\ t.pc \notin Talking
    BY <1>1, <1>4 DEF Talking
  <2>2. fpga[f].pc # "off" /\ (board_seen.twice => board_seen'.twice)
    BY <1>1, <1>2
  <2> QED BY <1>2, <1>3, <1>4, <1>5, <2>1, <2>2, ThreadStep
<1>7. PipeOwned' /\ BoardReplies'
  BY <1>1, <1>2, <1>3, <1>4, PipeStep
<1> QED BY <1>6, <1>7 DEF BoardInv

LEMMA BoardSteps1 == BoardInv /\ [BoardNext]_boardVars => BoardInv'
<1> SUFFICES ASSUME BoardInv, [BoardNext]_boardVars PROVE BoardInv'
  OBVIOUS
<1>1. CASE UNCHANGED boardVars
  BY <1>1 DEF boardVars, BoardInv, BoardTypeOK, PiecesLeft, NotStarted, HolderTalks, OneTalks, PipeOwned,
              BoardReplies
<1> QED BY <1>1, DetectSteps1, AskStep, WriteSteps, GiveUpSteps, AnswerSteps DEF BoardNext

\* The FPGAs of a ModMiner read the replies to their own commands unless one came late or an upload
\* that failed gave back another's mutex, and whoever holds modminer_mutex is talking.
THEOREM BoardIsOrderly == BoardSpec => [](BoardTypeOK /\ BoardReplies /\ HolderTalks)
<1>1. BoardInv => BoardTypeOK /\ BoardReplies /\ HolderTalks
  BY DEF BoardInv
<1> QED BY <1>1, BoardInitially, BoardSteps1, PTL DEF BoardSpec

----------------------------------------------------------------------------
FpgaState ==
  [shares: 0..MaxShares, shares_last_hw: 0..MaxShares, hw_errors: 0..MaxShares,
   shares_to_good: 1..TryUp, new_work: BOOLEAN, overheated: BOOLEAN,
   early: BOOLEAN, death_stage_one: BOOLEAN, nonce: NonceKinds]

\* Errors and the shares before the last are among the shares.
Tally(s) == s.shares_last_hw <= s.shares /\ s.hw_errors <= s.shares

\* The good shares in a row, as the driver counts them, have come.
RunCounted == ~clock_seen.twice => state.shares - state.shares_last_hw <= clock_seen.run

\* A change that was tested is good for the clock as it is: nobody else has
\* changed it since.
ClockTested ==
  ~clock_seen.raced =>
    /\ clock \in MinClock..MaxClock
    /\ miner.step = "adding" => clock + miner.delta \in MinClock..MaxClock
    /\ api.step = "adding" => clock + api.delta \in MinClock..MaxClock

ClockInv == ClockTypeOK /\ Tally(state) /\ RunCounted /\ ClockTested

LEMMA ClockInitially == ClockInit => ClockInv
BY ClockAssumption
   DEF ClockInit, ClockInv, ClockTypeOK, Tally, RunCounted, ClockTested, Temps, NonceKinds

\* modminer_delta_clock, its first half.
LEMMA TestedFacts ==
  ASSUME NEW s \in FpgaState, NEW delta \in Int, NEW hot \in BOOLEAN, NEW force \in BOOLEAN,
         Tally(s), clock \in Int
  PROVE  /\ Tested(s, delta, hot, force) \in FpgaState
         /\ Tally(Tested(s, delta, hot, force))
         /\ LET t == Tested(s, delta, hot, force)
            IN  t = s \/ t.shares - t.shares_last_hw = 0
<1>1. Counted(s) \in FpgaState /\ Tally(Counted(s))
      /\ Counted(s).shares - Counted(s).shares_last_hw = 0
  <2>0. 0 \in 0..MaxShares
    BY ClockAssumption
  <2>1. Counted(s) \in FpgaState
    BY <2>0 DEF Counted, FpgaState
  <2>2. Counted(s).shares = 0 /\ Counted(s).shares_last_hw = 0 /\ Counted(s).hw_errors = 0
    BY DEF Counted, FpgaState
  <2> QED BY <2>1, <2>2 DEF Tally
<1>2. ToGood(s, delta, hot) \in 1..TryUp
  BY ClockAssumption DEF ToGood, FpgaState
<1>3. ASSUME NEW n \in 1..TryUp
      PROVE  /\ [Counted(s) EXCEPT !.shares_to_good = n] \in FpgaState
             /\ Tally([Counted(s) EXCEPT !.shares_to_good = n])
             /\ LET t == [Counted(s) EXCEPT !.shares_to_good = n]
                IN  t.shares - t.shares_last_hw = 0
  BY <1>1 DEF FpgaState, Tally
<1> QED BY <1>1, <1>2, <1>3 DEF Tested

LEMMA MinerDeltaFacts ==
  ASSUME ClockTypeOK, NEW s \in FpgaState, NEW delta \in Int, NEW hot \in BOOLEAN,
         NEW force \in BOOLEAN, Tally(s), miner.step \in {"results", "poll"},
         MinerDelta(s, delta, hot, force)
  PROVE  /\ state' \in FpgaState /\ Tally(state')
         /\ state' = s \/ state'.shares - state'.shares_last_hw = 0
         /\ miner' \in [step: {"scan", "results", "poll", "adding", "dead"}, delta: Int]
         /\ miner'.step = "adding" => ~TooFar(delta) /\ miner'.delta = delta
<1>1. clock \in Int /\ miner \in [step: {"scan", "results", "poll", "adding", "dead"}, delta: Int]
  BY DEF ClockTypeOK
<1>2. /\ state' = Tested(s, delta, hot, force)
      /\ miner' = IF Changes(s, delta, force)
                  THEN [step |-> "adding", delta |-> delta] ELSE [miner EXCEPT !.step = "poll"]
  BY DEF MinerDelta
<1>3. Changes(s, delta, force) => ~TooFar(delta)
  BY DEF Changes
<1> QED BY <1>1, <1>2, <1>3, TestedFacts

\* A change within the bounds, from a clock that is.
LEMMA NotTooFar ==
  ASSUME clock \in MinClock..MaxClock, NEW delta \in Int, ~TooFar(delta)
  PROVE  clock + delta \in MinClock..MaxClock
BY ClockAssumption DEF TooFar

\* What the mining thread does to the counters between two changes of the clock.
MinerTests ==
  /\ state' \in FpgaState /\ Tally(state')
  /\ miner' \in [step: {"scan", "results", "poll", "adding", "dead"}, delta: Int]
  /\ miner'.step = "adding" => ~TooFar(miner'.delta)
  /\ UNCHANGED <<clock, api>> /\ temp' \in Temps
  /\ clock_seen' \in [run: 0..MaxShares, twice: BOOLEAN, raced: BOOLEAN, orders: 0..MaxOrders]
  /\ clock_seen'.raced = clock_seen.raced

LEMMA TestsKeep ==
  ASSUME ClockInv, MinerTests, RunCounted'
  PROVE  ClockInv'
<1>1. ClockTypeOK /\ ClockTested
  BY DEF ClockInv
<1>2. ClockTypeOK'
  BY <1>1 DEF ClockTypeOK, MinerTests, FpgaState
<1>3. ClockTested'
  <2> SUFFICES ASSUME ~clock_seen'.raced PROVE ClockTested'
    BY DEF ClockTested
  <2>1. /\ clock \in MinClock..MaxClock
        /\ api.step = "adding" => clock + api.delta \in MinClock..MaxClock
    BY <1>1 DEF ClockTested, MinerTests
  <2>2. miner'.step = "adding" => clock + miner'.delta \in MinClock..MaxClock
    BY <2>1, NotTooFar DEF MinerTests
  <2> QED BY <2>1, <2>2 DEF ClockTested, MinerTests
<1> QED BY <1>2, <1>3 DEF ClockInv, MinerTests

\* A nonce is bad: those before it do not count.
LEMMA RunEnds ==
  ASSUME ClockTypeOK, clock_seen' = [clock_seen EXCEPT !.run = 0, !.twice = FALSE]
  PROVE  /\ clock_seen' \in [run: 0..MaxShares, twice: BOOLEAN, raced: BOOLEAN, orders: 0..MaxOrders]
         /\ clock_seen'.raced = clock_seen.raced /\ clock_seen'.run = 0
<1>1. clock_seen \in [run: 0..MaxShares, twice: BOOLEAN, raced: BOOLEAN, orders: 0..MaxOrders]
  BY DEF ClockTypeOK
<1>2. 0 \in 0..MaxShares
  BY ClockAssumption
<1> QED BY <1>1, <1>2

LEMMA NonceFacts ==
  ASSUME NEW s \in FpgaState, Tally(s), NEW n \in NonceKinds
  PROVE  /\ [s EXCEPT !.nonce = n] \in FpgaState /\ Tally([s EXCEPT !.nonce = n])
         /\ [s EXCEPT !.nonce = n].shares = s.shares
         /\ [s EXCEPT !.nonce = n].shares_last_hw = s.shares_last_hw
BY DEF FpgaState, Tally

\* A bad nonce, early or late, and a good one.
LEMMA EarlyErrorStep ==
  ASSUME ClockInv, miner.step = "poll", EarlyError, UNCHANGED <<clock, temp, api>>
  PROVE  ClockInv'
<1>1. ClockTypeOK /\ Tally(state)
  BY DEF ClockInv
<1>2. MinerTests /\ RunCounted'
  <2> DEFINE s == [Counted(state) EXCEPT !.new_work = state.new_work, !.nonce = "bad"]
  <2>0. 0 \in 0..MaxShares /\ state \in FpgaState
    BY <1>1, ClockAssumption DEF ClockTypeOK, FpgaState
  <2>1. s \in FpgaState
    BY <2>0 DEF Counted, FpgaState, NonceKinds
  <2>2. s.shares = 0 /\ s.shares_last_hw = 0 /\ s.hw_errors = 0
    BY <1>1 DEF Counted, FpgaState, ClockTypeOK
  <2>3. state' = s /\ clock_seen' = [clock_seen EXCEPT !.run = 0, !.twice = FALSE] /\ UNCHANGED miner
    BY DEF EarlyError
  <2> HIDE DEF s
  <2>4. MinerTests
    BY <1>1, <2>1, <2>2, <2>3, RunEnds DEF MinerTests, ClockTypeOK, Tally
  <2>5. RunCounted'
    BY <1>1, <2>2, <2>3, RunEnds DEF RunCounted
  <2> QED BY <2>4, <2>5
<1> QED BY <1>2, TestsKeep

LEMMA LaterErrorStep ==
  ASSUME ClockInv, miner.step = "poll", state.shares < MaxShares, LaterError,
         UNCHANGED <<clock, temp, api>>
  PROVE  ClockInv'
<1> DEFINE s == [state EXCEPT !.shares = @ + 1, !.hw_errors = @ + 1, !.nonce = "bad",
                              !.shares_last_hw = state.shares + 1]
<1>1. ClockTypeOK /\ Tally(state) /\ state \in FpgaState
  BY DEF ClockInv, ClockTypeOK, FpgaState
<1>2. s \in FpgaState /\ Tally(s) /\ s.shares - s.shares_last_hw = 0
  <2>1. state.shares + 1 \in 0..MaxShares /\ state.hw_errors + 1 \in 0..MaxShares
    BY <1>1, ClockAssumption DEF FpgaState, Tally
  <2>2. s \in FpgaState
    BY <1>1, <2>1 DEF FpgaState, NonceKinds
  <2>3. /\ s.shares = state.shares + 1 /\ s.shares_last_hw = state.shares + 1
        /\ s.hw_errors = state.hw_errors + 1
    BY <1>1 DEF FpgaState
  <2> QED BY <1>1, <2>1, <2>2, <2>3 DEF FpgaState, Tally
<1>3. /\ state' \in FpgaState /\ Tally(state') /\ state'.shares - state'.shares_last_hw = 0
      /\ miner' \in [step: {"scan", "results", "poll", "adding", "dead"}, delta: Int]
      /\ miner'.step = "adding" => ~TooFar(miner'.delta)
  <2> HIDE DEF s
  <2>1. CASE MinerDelta(s, ClockDown, FALSE, FALSE)
    BY <1>1, <1>2, <2>1, MinerDeltaFacts, ClockDown \in Int DEF ClockDown
  <2>2. CASE state' = s /\ UNCHANGED miner
    BY <1>1, <1>2, <2>2 DEF ClockTypeOK
  <2> QED BY <2>1, <2>2 DEF LaterError, s
<1>4. clock_seen' = [clock_seen EXCEPT !.run = 0, !.twice = FALSE]
  BY DEF LaterError
<1>5. MinerTests
  BY <1>1, <1>3, <1>4, RunEnds DEF MinerTests, ClockTypeOK
<1>6. RunCounted'
  BY <1>1, <1>3, <1>4, RunEnds DEF RunCounted
<1> QED BY <1>5, <1>6, TestsKeep

LEMMA GoodShareStep ==
  ASSUME ClockInv, miner.step = "poll", state.shares < MaxShares, NEW b \in BOOLEAN, GoodShare(b),
         UNCHANGED <<clock, temp, api>>
  PROVE  /\ ClockInv'
         /\ miner'.step = "adding" /\ ~clock_seen'.twice => clock_seen'.run >= state.shares_to_good
<1> DEFINE s == [state EXCEPT !.shares = @ + 1, !.death_stage_one = FALSE, !.nonce = "good"]
<1>1. ClockTypeOK /\ Tally(state) /\ state \in FpgaState /\ RunCounted
  BY DEF ClockInv, ClockTypeOK, FpgaState
<1>2. s \in FpgaState /\ Tally(s) /\ s.shares - s.shares_last_hw = state.shares - state.shares_last_hw + 1
      /\ s.shares_to_good = state.shares_to_good
      /\ s.shares - s.shares_last_hw <= MaxShares
  <2>1. state.shares + 1 \in 0..MaxShares
    BY <1>1, ClockAssumption DEF FpgaState
  <2>2. s \in FpgaState
    BY <1>1, <2>1 DEF FpgaState, NonceKinds
  <2>3. /\ s.shares = state.shares + 1 /\ s.shares_last_hw = state.shares_last_hw
        /\ s.hw_errors = state.hw_errors /\ s.shares_to_good = state.shares_to_good
    BY <1>1 DEF FpgaState
  <2>4. /\ {state.shares, state.shares_last_hw, state.hw_errors} \subseteq 0..MaxShares
    BY <1>1 DEF FpgaState
  <2> QED BY <1>1, <2>1, <2>2, <2>3, <2>4, ClockAssumption DEF Tally
<1>3. /\ clock_seen' \in [run: 0..MaxShares, twice: BOOLEAN, raced: BOOLEAN, orders: 0..MaxOrders]
      /\ clock_seen'.raced = clock_seen.raced
      /\ clock_seen'.run \in 0..MaxShares /\ clock_seen.run \in 0..MaxShares
      /\ ~clock_seen'.twice => /\ ~clock_seen.twice
                              /\ clock_seen'.run = IF clock_seen.run < MaxShares THEN clock_seen.run + 1
                                                   ELSE clock_seen.run
  <2> DEFINE run == IF ~b /\ clock_seen.run < MaxShares THEN clock_seen.run + 1 ELSE clock_seen.run
  <2>1. clock_seen \in [run: 0..MaxShares, twice: BOOLEAN, raced: BOOLEAN, orders: 0..MaxOrders]
    BY <1>1 DEF ClockTypeOK
  <2>2. clock_seen.run \in 0..MaxShares /\ run \in 0..MaxShares
    BY <2>1, ClockAssumption
  <2>3. PICK c \in BOOLEAN : c = (clock_seen.twice \/ b)
    <3>1. (clock_seen.twice \/ b) \in BOOLEAN
      OBVIOUS
    <3> QED BY <3>1
  <2>4. clock_seen' = [clock_seen EXCEPT !.run = run, !.twice = c]
    BY <2>3 DEF GoodShare
  <2>5. ~c => ~clock_seen.twice /\ ~b
    BY <2>3
  <2>6. ~b => run = IF clock_seen.run < MaxShares THEN clock_seen.run + 1 ELSE clock_seen.run
    OBVIOUS
  <2> HIDE DEF run
  <2>7. /\ clock_seen' \in [run: 0..MaxShares, twice: BOOLEAN, raced: BOOLEAN, orders: 0..MaxOrders]
        /\ clock_seen'.raced = clock_seen.raced /\ clock_seen'.run = run /\ clock_seen'.twice = c
    BY <2>1, <2>2, <2>4
  <2> QED BY <2>2, <2>5, <2>6, <2>7
<1>4. ~clock_seen'.twice => s.shares - s.shares_last_hw <= clock_seen'.run
  <2> SUFFICES ASSUME ~clock_seen'.twice PROVE s.shares - s.shares_last_hw <= clock_seen'.run
    OBVIOUS
  <2>1. state.shares - state.shares_last_hw <= clock_seen.run
    BY <1>1, <1>3 DEF RunCounted
  <2>2. clock_seen'.run = IF clock_seen.run < MaxShares THEN clock_seen.run + 1 ELSE clock_seen.run
    BY <1>3
  <2>3. state.shares \in Nat /\ state.shares_last_hw \in Nat
    BY <1>1 DEF FpgaState
  <2> HIDE DEF s
  <2> QED BY <1>2, <1>3, <2>1, <2>2, <2>3, ClockAssumption
<1>5. /\ state' \in FpgaState /\ Tally(state')
      /\ state' = s \/ state'.shares - state'.shares_last_hw = 0
      /\ miner' \in [step: {"scan", "results", "poll", "adding", "dead"}, delta: Int]
      /\ miner'.step = "adding" =>
           ~TooFar(miner'.delta) /\ s.shares - s.shares_last_hw >= s.shares_to_good
  <2> HIDE DEF s
  <2>1. CASE s.shares - s.shares_last_hw >= s.shares_to_good /\ MinerDelta(s, ClockUp, FALSE, FALSE)
    BY <1>1, <1>2, <2>1, MinerDeltaFacts, ClockUp \in Int DEF ClockUp
  <2>2. CASE state' = s /\ UNCHANGED miner
    BY <1>1, <1>2, <2>2 DEF ClockTypeOK
  <2> QED BY <2>1, <2>2 DEF GoodShare, s
<1>6. MinerTests
  BY <1>1, <1>3, <1>5 DEF MinerTests, ClockTypeOK
<1>7. RunCounted'
  <2> SUFFICES ASSUME ~clock_seen'.twice PROVE state'.shares - state'.shares_last_hw <= clock_seen'.run
    BY DEF RunCounted
  <2> HIDE DEF s
  <2> QED BY <1>3, <1>4, <1>5
<1>8. miner'.step = "adding" /\ ~clock_seen'.twice => clock_seen'.run >= state.shares_to_good
  <2>1. state.shares_to_good \in Int /\ s.shares - s.shares_last_hw \in Int
    BY <1>1, <1>2 DEF FpgaState
  <2> HIDE DEF s
  <2> QED BY <1>2, <1>3, <1>4, <1>5, <2>1
<1> QED BY <1>6, <1>7, <1>8, TestsKeep

\* The mining thread polls: a nonce, none, or what is taken for one.
LEMMA PollSteps ==
  ASSUME ClockInv, NonceCame \/ NoNonce \/ ResultsFail
  PROVE  ClockInv'
<1>1. CASE EarlyError /\ (NonceCame \/ ResultsFail)
  BY <1>1, EarlyErrorStep DEF NonceCame, ResultsFail
<1>2. CASE LaterError /\ (NonceCame \/ ResultsFail)
  BY <1>2, LaterErrorStep DEF NonceCame, ResultsFail
<1>3. CASE NonceCame /\ GoodShare(FALSE)
  BY <1>3, GoodShareStep DEF NonceCame
<1>4. CASE ResultsFail /\ GoodShare(TRUE)
  BY <1>4, GoodShareStep DEF ResultsFail
<1>5. CASE NoNonce
  <2>1. ClockTypeOK /\ Tally(state) /\ state \in FpgaState /\ RunCounted
    BY DEF ClockInv, ClockTypeOK, FpgaState
  <2>2. state' = [state EXCEPT !.nonce = "none"] /\ UNCHANGED <<clock, temp, miner, api, clock_seen>>
        /\ miner.step # "adding"
    BY <1>5 DEF NoNonce
  <2>3. /\ state' \in FpgaState /\ Tally(state')
        /\ state'.shares = state.shares /\ state'.shares_last_hw = state.shares_last_hw
    BY <2>1, <2>2, NonceFacts DEF NonceKinds
  <2>4. MinerTests
    BY <2>1, <2>2, <2>3 DEF MinerTests, ClockTypeOK
  <2>5. RunCounted'
    BY <2>1, <2>2, <2>3 DEF RunCounted
  <2> QED BY <2>4, <2>5, TestsKeep
<1> QED BY <1>1, <1>2, <1>3, <1>4, <1>5 DEF NonceCame, ResultsFail

\* The change itself, of either thread.
LEMMA AddSteps ==
  ASSUME ClockInv, AddMiner \/ AddApi
  PROVE  ClockInv'
<1>1. ClockTypeOK /\ Tally(state) /\ RunCounted /\ ClockTested
  BY DEF ClockInv
<1>2. ClockTypeOK'
  <2>1. PICK b \in BOOLEAN : clock_seen' = [clock_seen EXCEPT !.raced = b]
    <3>1. (clock_seen.raced \/ api.step = "adding") \in BOOLEAN /\ (clock_seen.raced \/ miner.step = "adding") \in BOOLEAN
      OBVIOUS
    <3> QED BY <3>1 DEF AddMiner, AddApi
  <2>2. /\ clock' \in Int /\ UNCHANGED <<state, temp>>
        /\ miner' \in {miner, [step |-> "poll", delta |-> 0]}
        /\ api' \in {api, [step |-> "idle", delta |-> 0]}
    BY <1>1 DEF ClockTypeOK, AddMiner, AddApi
  <2> QED BY <1>1, <2>1, <2>2 DEF ClockTypeOK
<1>3. Tally(state') /\ RunCounted'
  BY <1>1 DEF AddMiner, AddApi, Tally, RunCounted, ClockTypeOK
<1>4. ClockTested'
  <2> SUFFICES ASSUME ~clock_seen'.raced PROVE ClockTested'
    BY DEF ClockTested
  <2>1. CASE AddMiner
    <3>1. miner.step = "adding" /\ clock' = clock + miner.delta /\ UNCHANGED api
          /\ miner'.step = "poll" /\ ~clock_seen.raced /\ api.step # "adding"
      BY <1>1, <2>1 DEF AddMiner, ClockTypeOK
    <3> QED BY <1>1, <3>1 DEF ClockTested
  <2>2. CASE AddApi
    <3>1. api.step = "adding" /\ clock' = clock + api.delta /\ UNCHANGED miner
          /\ api'.step = "idle" /\ ~clock_seen.raced /\ miner.step # "adding"
      BY <1>1, <2>2 DEF AddApi, ClockTypeOK
    <3> QED BY <1>1, <3>1 DEF ClockTested
  <2> QED BY <2>1, <2>2
<1> QED BY <1>2, <1>3, <1>4 DEF ClockInv

LEMMA ApiSteps ==
  ASSUME ClockInv, SetDevice \/ TestApi
  PROVE  ClockInv'
<1>1. ClockTypeOK /\ Tally(state) /\ RunCounted /\ ClockTested /\ state \in FpgaState
  BY DEF ClockInv, ClockTypeOK, FpgaState
<1>2. CASE SetDevice
  <2>1. ClockTypeOK'
    BY <1>1, <1>2, ClockAssumption DEF ClockTypeOK, SetDevice
  <2>2. Tally(state') /\ RunCounted' /\ ClockTested'
    BY <1>1, <1>2 DEF SetDevice, Tally, RunCounted, ClockTested, ClockTypeOK
  <2> QED BY <2>1, <2>2 DEF ClockInv
<1>3. CASE TestApi
  <2>1. api.delta \in Int /\ clock \in Int
    BY <1>1 DEF ClockTypeOK
  <2>2. /\ state' \in FpgaState /\ Tally(state')
        /\ state' = state \/ state'.shares - state'.shares_last_hw = 0
    BY <1>1, <1>3, <2>1, TestedFacts DEF TestApi
  <2>3. api'.step = "adding" => ~TooFar(api.delta) /\ api'.delta = api.delta
    BY <1>1, <1>3 DEF TestApi, Changes, ClockTypeOK
  <2>0. UNCHANGED <<clock, temp, miner, clock_seen>>
        /\ api' \in {[api EXCEPT !.step = "adding"], [step |-> "idle", delta |-> 0]}
    BY <1>3 DEF TestApi
  <2>4. ClockTypeOK'
    BY <1>1, <2>0, <2>2 DEF ClockTypeOK, FpgaState
  <2>5. RunCounted'
    BY <1>1, <2>0, <2>2, ClockAssumption DEF RunCounted, ClockTypeOK
  <2>6. ClockTested'
    BY <1>1, <1>3, <2>1, <2>3, NotTooFar DEF ClockTested, TestApi
  <2> QED BY <2>2, <2>4, <2>5, <2>6 DEF ClockInv
<1> QED BY <1>2, <1>3

\* Scanning, the sensor, silence and the end of a work.
LEMMA FlagFacts ==
  ASSUME NEW s \in FpgaState, NEW b \in BOOLEAN, Tally(s),
         NEW r \in {[s EXCEPT !.new_work = b], [s EXCEPT !.early = b],
                    [s EXCEPT !.death_stage_one = b], [s EXCEPT !.overheated = b]}
  PROVE  r \in FpgaState /\ Tally(r) /\ r.shares = s.shares /\ r.shares_last_hw = s.shares_last_hw
BY DEF FpgaState, Tally

LEMMA HeatedFacts ==
  ASSUME NEW s \in FpgaState, NEW t \in Temps, Tally(s)
  PROVE  /\ Heated(s, t) \in FpgaState /\ Tally(Heated(s, t))
         /\ Heated(s, t).shares = s.shares /\ Heated(s, t).shares_last_hw = s.shares_last_hw
BY FlagFacts, (t # "cool") \in BOOLEAN, (t \in {"hot", "cutoff"}) \in BOOLEAN DEF Heated

LEMMA SensorStep ==
  ASSUME ClockInv, Temperature
  PROVE  ClockInv'
<1>1. ClockTypeOK /\ Tally(state) /\ RunCounted /\ state \in FpgaState
  BY DEF ClockInv, ClockTypeOK, FpgaState
<1>2. PICK t \in Temps, n \in NonceKinds :
        /\ temp' = t
        /\ LET s == [state EXCEPT !.nonce = n]
           IN  IF CutsOff(s, t)
               THEN MinerDelta(Heated(s, t), 0 - CutoffDrop, TRUE, FALSE)
               ELSE state' = Heated(s, t) /\ miner' = [miner EXCEPT !.step = "poll"]
  <2>1. state.nonce \in NonceKinds
    BY <1>1 DEF FpgaState
  <2> QED BY <2>1 DEF Temperature
<1>3. UNCHANGED <<clock, api, clock_seen>> /\ miner.step \in {"results", "poll"}
  BY DEF Temperature
<1> DEFINE s == [state EXCEPT !.nonce = n]
           h == Heated(s, t)
<1>4. s \in FpgaState /\ Tally(s) /\ s.shares = state.shares /\ s.shares_last_hw = state.shares_last_hw
  BY <1>1, NonceFacts
<1>5. CASE MinerDelta(h, 0 - CutoffDrop, TRUE, FALSE)
      \/ (state' = h /\ miner' = [miner EXCEPT !.step = "poll"])
  <2> HIDE DEF s
  <2>1. h \in FpgaState /\ Tally(h) /\ h.shares = state.shares /\ h.shares_last_hw = state.shares_last_hw
    BY <1>4, HeatedFacts
  <2> HIDE DEF h
  <2>2. /\ state' \in FpgaState /\ Tally(state')
        /\ state' = h \/ state'.shares - state'.shares_last_hw = 0
        /\ miner' \in [step: {"scan", "results", "poll", "adding", "dead"}, delta: Int]
        /\ miner'.step = "adding" => ~TooFar(miner'.delta)
    <3>1. CASE MinerDelta(h, 0 - CutoffDrop, TRUE, FALSE)
      <4>1. 0 - CutoffDrop \in Int
        BY ClockAssumption
      <4> QED BY <1>1, <1>3, <2>1, <3>1, <4>1, MinerDeltaFacts
    <3>2. CASE state' = h /\ miner' = [miner EXCEPT !.step = "poll"]
      BY <1>1, <2>1, <3>2 DEF ClockTypeOK
    <3> QED BY <1>5, <3>1, <3>2
  <2>3. MinerTests
    BY <1>1, <1>2, <1>3, <2>2 DEF MinerTests, ClockTypeOK
  <2>4. RunCounted'
    BY <1>1, <1>3, <2>1, <2>2, ClockAssumption DEF RunCounted, ClockTypeOK
  <2> QED BY <2>3, <2>4, TestsKeep
<1> QED BY <1>2, <1>5

LEMMA ScanSteps ==
  ASSUME ClockInv, Scan \/ WorkEnds \/ SendFails
  PROVE  ClockInv'
<1>1. ClockTypeOK /\ Tally(state) /\ RunCounted /\ state \in FpgaState
  BY DEF ClockInv, ClockTypeOK, FpgaState
<1>2. /\ UNCHANGED <<clock, api, clock_seen>> /\ temp' \in Temps
      /\ \/ state' = state
         \/ \E t \in Temps : state' = Heated(state, t)
         \/ state' = [state EXCEPT !.new_work = TRUE]
         \/ state' = [state EXCEPT !.early = FALSE]
      /\ miner' = miner \/ \E s \in {"results", "dead", "scan"} : miner' = [miner EXCEPT !.step = s]
      /\ miner.step \in {"scan", "poll"}
  BY <1>1 DEF Scan, WorkEnds, SendFails, ClockTypeOK
<1>3. /\ state' \in FpgaState /\ Tally(state')
      /\ state'.shares = state.shares /\ state'.shares_last_hw = state.shares_last_hw
  <2>1. CASE \E t \in Temps : state' = Heated(state, t)
    BY <1>1, <2>1, HeatedFacts
  <2>2. CASE ~\E t \in Temps : state' = Heated(state, t)
    BY <1>1, <1>2, <2>2, FlagFacts
  <2> QED BY <2>1, <2>2
<1>4. MinerTests
  BY <1>1, <1>2, <1>3 DEF MinerTests, ClockTypeOK
<1>5. RunCounted'
  BY <1>1, <1>2, <1>3 DEF RunCounted
<1> QED BY <1>4, <1>5, TestsKeep

LEMMA DeathStep ==
  ASSUME ClockInv, Death
  PROVE  ClockInv'
<1> DEFINE s == [state EXCEPT !.death_stage_one = TRUE, !.nonce = "none"]
<1>1. ClockTypeOK /\ Tally(state) /\ RunCounted /\ ClockTested /\ state \in FpgaState
  BY DEF ClockInv, ClockTypeOK, FpgaState
<1>2. 0 - DeadDrop \in Int /\ clock \in Int /\ miner.step = "poll" /\ UNCHANGED <<temp, api>>
  BY <1>1, ClockAssumption DEF ClockTypeOK, Death
<1>3. CASE ~state.death_stage_one
  <2>1. MinerDelta(s, 0 - DeadDrop, FALSE, TRUE) /\ UNCHANGED <<clock, clock_seen>>
    BY <1>3 DEF Death
  <2>2. s \in FpgaState /\ Tally(s) /\ s.shares = state.shares /\ s.shares_last_hw = state.shares_last_hw
    BY <1>1 DEF FpgaState, Tally, NonceKinds
  <2> HIDE DEF s
  <2>3. /\ state' \in FpgaState /\ Tally(state')
        /\ state' = s \/ state'.shares - state'.shares_last_hw = 0
        /\ miner' \in [step: {"scan", "results", "poll", "adding", "dead"}, delta: Int]
        /\ miner'.step = "adding" => ~TooFar(miner'.delta)
    BY <1>1, <1>2, <2>1, <2>2, MinerDeltaFacts
  <2>4. MinerTests
    BY <1>1, <1>2, <2>1, <2>3 DEF MinerTests, ClockTypeOK
  <2>5. RunCounted'
    BY <1>1, <2>1, <2>2, <2>3, ClockAssumption DEF RunCounted, ClockTypeOK
  <2> QED BY <2>4, <2>5, TestsKeep
<1>4. CASE state.death_stage_one
  <2> DEFINE r == Tested(state, 0 - DeadDrop, FALSE, TRUE)
  <2>1. /\ state' = [r EXCEPT !.death_stage_one = FALSE, !.nonce = "none"]
        /\ clock' = IF TooFar(0 - DeadDrop) THEN clock ELSE clock - DeadDrop
        /\ miner' = [miner EXCEPT !.step = "dead"]
        /\ clock_seen' = [clock_seen EXCEPT !.raced = @ \/ api.step = "adding"]
    BY <1>4 DEF Death
  <2>2. r \in FpgaState /\ Tally(r) /\ (r = state \/ r.shares - r.shares_last_hw = 0)
    BY <1>1, <1>2, TestedFacts
  <2> HIDE DEF r
  <2>3. /\ state' \in FpgaState /\ Tally(state')
        /\ state'.shares = r.shares /\ state'.shares_last_hw = r.shares_last_hw
    BY <2>1, <2>2 DEF FpgaState, Tally, NonceKinds
  <2>4. ClockTypeOK'
    <3>1. PICK b \in BOOLEAN : clock_seen' = [clock_seen EXCEPT !.raced = b]
      BY <2>1, (clock_seen.raced \/ api.step = "adding") \in BOOLEAN
    <3>2. clock' \in Int
      BY <1>2, <2>1, ClockAssumption
    <3> QED BY <1>1, <1>2, <2>1, <2>3, <3>1, <3>2 DEF ClockTypeOK, FpgaState
  <2>5. RunCounted'
    BY <1>1, <2>1, <2>2, <2>3, ClockAssumption DEF RunCounted, ClockTypeOK
  <2>6. ClockTested'
    <3> SUFFICES ASSUME ~clock_seen'.raced PROVE ClockTested'
      BY DEF ClockTested
    <3>1. ~clock_seen.raced /\ api.step # "adding" /\ miner'.step = "dead"
      BY <1>1, <2>1 DEF ClockTypeOK
    <3>2. clock \in MinClock..MaxClock
      BY <1>1, <3>1 DEF ClockTested
    <3>3. clock' \in MinClock..MaxClock
      BY <1>2, <2>1, <3>2, NotTooFar, ClockAssumption
    <3> QED BY <1>2, <3>1, <3>3 DEF ClockTested
  <2> QED BY <2>3, <2>4, <2>5, <2>6 DEF ClockInv
<1> QED BY <1>3, <1>4

LEMMA ClockSteps == ClockInv /\ [ClockNext]_clockVars => ClockInv'
<1> SUFFICES ASSUME ClockInv, [ClockNext]_clockVars PROVE ClockInv'
  OBVIOUS
<1>1. CASE UNCHANGED clockVars
  BY <1>1 DEF clockVars, ClockInv, ClockTypeOK, Tally, RunCounted, ClockTested
<1> QED BY <1>1, PollSteps, AddSteps, ApiSteps, SensorStep, ScanSteps, DeathStep DEF ClockNext

LEMMA ClockInvariant == ClockSpec => []ClockInv
BY ClockInitially, ClockSteps, PTL DEF ClockSpec

LEMMA UpEarned ==
  ClockInv /\ [ClockNext]_clockVars =>
    [miner.step = "poll" /\ miner'.step = "adding" /\ miner'.delta > 0 /\ ~clock_seen'.twice
       => clock_seen'.run >= state.shares_to_good]_clockVars
<1> SUFFICES ASSUME ClockInv, ClockNext, miner.step = "poll", miner'.step = "adding",
                    miner'.delta > 0, ~clock_seen'.twice
             PROVE  clock_seen'.run >= state.shares_to_good
  BY DEF clockVars
<1>1. ClockTypeOK /\ Tally(state) /\ state \in FpgaState
  BY DEF ClockInv, ClockTypeOK, FpgaState
<1>2. CASE \/ GoodShare(FALSE) /\ NonceCame
           \/ GoodShare(TRUE) /\ ResultsFail
  BY <1>2, GoodShareStep DEF NonceCame, ResultsFail
<1>3. ASSUME NEW s, NEW delta \in Int, NEW hot \in BOOLEAN, NEW force \in BOOLEAN, delta <= 0
      PROVE  ~MinerDelta(s, delta, hot, force)
  BY <1>1, <1>3 DEF MinerDelta, ClockTypeOK
<1>4. 0 - CutoffDrop <= 0 /\ 0 - DeadDrop <= 0 /\ ClockDown <= 0
      /\ {0 - CutoffDrop, 0 - DeadDrop, ClockDown} \subseteq Int
  BY ClockAssumption DEF ClockDown
<1>5. EarlyError => miner' = miner
  BY DEF EarlyError
<1>6. CASE LaterError
  <2>1. (\E s : MinerDelta(s, ClockDown, FALSE, FALSE)) \/ miner' = miner
    BY <1>6 DEF LaterError
  <2> QED BY <1>3, <1>4, <2>1
<1>7. CASE Temperature
  <2>1. (\E s : MinerDelta(s, 0 - CutoffDrop, TRUE, FALSE)) \/ miner' = [miner EXCEPT !.step = "poll"]
    BY <1>7 DEF Temperature
  <2>2. miner' # [miner EXCEPT !.step = "poll"]
    BY <1>1 DEF ClockTypeOK
  <2> QED BY <1>3, <1>4, <2>1, <2>2
<1>8. CASE Death
  <2>1. (\E s : MinerDelta(s, 0 - DeadDrop, FALSE, TRUE)) \/ miner' = [miner EXCEPT !.step = "dead"]
    BY <1>8 DEF Death
  <2>2. miner' # [miner EXCEPT !.step = "dead"]
    BY <1>1 DEF ClockTypeOK
  <2> QED BY <1>3, <1>4, <2>1, <2>2
<1>9. CASE NoNonce \/ AddMiner \/ SetDevice \/ TestApi \/ AddApi \/ Scan \/ WorkEnds \/ SendFails
  BY <1>1, <1>9 DEF NoNonce, AddMiner, SetDevice, TestApi, AddApi, Scan, WorkEnds, SendFails, ClockTypeOK
<1> QED BY <1>1, <1>2, <1>5, <1>6, <1>7, <1>8, <1>9 DEF ClockNext, NonceCame, ResultsFail

\* modminer_delta_clock: unless two threads changed the clock at a time it is in its range, and it
\* goes up only after as many good shares as the driver asks for, unless one of them was taken twice.
THEOREM ClockIsEarned == ClockSpec => []ClockTypeOK /\ []ClockInRange /\ ClockUpEarned
<1>1. ClockInv => ClockTypeOK /\ ClockInRange
  BY DEF ClockInv, ClockTested, ClockInRange
<1> QED BY <1>1, ClockInvariant, UpEarned, PTL DEF ClockSpec, ClockUpEarned

----------------------------------------------------------------------------
(***************************************************************************)
(* The BitForce and its serial line.                                       *)

MinerSteps ==
  {"detect", "identify", "gone", "next", "send", "requested", "granted", "sent", "not sent", "sleep",
   "poll", "polled", "initialise"}
Commands == {"identify", "temp", "range", "full", "data", "status"}
Words ==
  {"SHA256", "SHA256 SC", "garbled", "TEMP", "hot", "OK", "ERR", "BUSY", "IDLE", "NO-NONCE", "NONCE"}
Command == [to: Commands, of: 0..MaxBfWorks]
LineReply == [to: Commands, says: Words, of: 0..MaxBfWorks]

BfTypes ==
  /\ BitForceTypeOK /\ mine \in MinerSteps /\ watch \in {"idle", "asked", "flashing", "initialise"}
  /\ line \in Seq(LineReply) /\ todo \in Seq(Command) /\ timeouts \in Nat /\ late \in BOOLEAN
  /\ sleep_ms \in Nat \ {0} /\ wait_ms \in Int

\* Who holds device_mutex, and that nobody but the miner knows a device that is not detected.
BfLocks ==
  /\ bf_mutex = "miner" <=> mine \in {"requested", "granted", "sent", "polled"}
  /\ bf_mutex = "watchdog" <=> watch \in {"asked", "flashing"}
  /\ ~BfDetected => watch = "idle" /\ ~flash_led

\* At most one command is on the way, or its reply.
InLine(E) ==
  \/ line = <<>> /\ todo = <<>>
  \/ line # <<>> /\ Tail(line) = <<>> /\ todo = <<>> /\ Head(line).to \in E
  \/ line = <<>> /\ todo # <<>> /\ Tail(todo) = <<>> /\ Head(todo).to \in E

Expected == IF mine = "identify" THEN {"identify"} ELSE BfAsked

BfSync == ~late /\ mine \notin {"detect", "gone"} => InLine(Expected)

BfParts == (mine \in {"send", "requested", "granted"} => part < Parts) /\ PartsOnce

BfOnTime ==
  timeouts = 0 => ~late /\ (mine \in {"detect", "gone"} => line = <<>> /\ todo = <<>>)

\* What the device searches is the work of the miner, and so is the nonce it sends.
BfSearch ==
  timeouts = 0 =>
    /\ mine = "sent" =>
         /\ todo # <<>> => Head(todo).of = work
         /\ line # <<>> /\ Head(line).says = "OK" => searching = work
    /\ mine \in {"sleep", "poll", "polled"} => searching \in {0, work}
    /\ mine = "polled" => (line # <<>> /\ Head(line).says = "NONCE" => Head(line).of = work)

BfInv == BfTypes /\ BfLocks /\ BfSync /\ BfParts /\ BfOnTime /\ BfSearch

LEMMA BfConstants ==
  /\ Parts \in Nat \ {0} /\ BITFORCE_SLEEP_MS \in Nat \ {0} /\ WORK_CHECK_INTERVAL_MS \in Nat \ {0}
  /\ BITFORCE_CHECK_INTERVAL_MS \in Nat \ {0} /\ MaxPolls \in Nat \ {0} /\ MaxBfWorks \in Nat
  BY BitForceAssumption DEF BitForceAssumption

LEMMA OneInLine ==
  ASSUME NEW S, NEW x \in S
  PROVE  /\ Append(<<>>, x) # <<>> /\ Head(Append(<<>>, x)) = x /\ Tail(Append(<<>>, x)) = <<>>
         /\ Append(<<>>, x) \in Seq(S) /\ <<>> \in Seq(S)
  OBVIOUS

LEMMA BitForceInitially == BitForceInit => BfInv
<1> SUFFICES ASSUME BitForceInit PROVE BfInv
  OBVIOUS
<1>1. BITFORCE_SLEEP_MS * 5 \in Nat \ {0} /\ BITFORCE_SLEEP_MS \in Nat \ {0}
  BY BfConstants
<1>2. BfTypes
  <2>1. line \in Seq(LineReply) /\ todo \in Seq(Command)
    BY EmptySeq DEF BitForceInit
  <2>2. sleep_ms \in Nat \ {0}
    BY <1>1 DEF BitForceInit
  <2>3. BitForceTypeOK
    <3>1. nonce_range \in BOOLEAN /\ polling \in BOOLEAN /\ flash_led \in BOOLEAN
      BY DEF BitForceInit
    <3>2. searching \in 0..MaxBfWorks /\ work \in 0..MaxBfWorks /\ part \in 0..Parts
      BY BfConstants DEF BitForceInit
    <3> QED BY <3>1, <3>2 DEF BitForceInit, BitForceTypeOK
  <2>4. timeouts \in Nat /\ late \in BOOLEAN /\ wait_ms \in Int
    <3>1. timeouts = 0 /\ late = FALSE /\ wait_ms = 0
      BY DEF BitForceInit
    <3>2. timeouts \in Nat /\ wait_ms \in Int
      BY <3>1
    <3>3. late \in BOOLEAN
      BY <3>1
    <3> QED BY <3>2, <3>3
  <2>5. mine \in MinerSteps /\ watch \in {"idle", "asked", "flashing", "initialise"}
    BY DEF BitForceInit, MinerSteps
  <2> QED BY <2>1, <2>2, <2>3, <2>4, <2>5 DEF BfTypes
<1> QED BY <1>2 DEF BitForceInit, BfInv, BfLocks, BfSync, BfParts, BfOnTime, BfSearch, PartsOnce, BfDetected

----------------------------------------------------------------------------
(* What reads and writes make of the line.                                 *)

LEMMA BfTyped ==
  ASSUME BfInv
  PROVE  /\ bf_mutex \in {"free", "miner", "watchdog"}
         /\ searching \in 0..MaxBfWorks /\ work \in 0..MaxBfWorks /\ part \in 0..Parts
         /\ nonce_range \in BOOLEAN /\ polling \in BOOLEAN /\ flash_led \in BOOLEAN
         /\ handed \subseteq 0..(Parts - 1)
         /\ mine \in MinerSteps /\ watch \in {"idle", "asked", "flashing", "initialise"}
         /\ line \in Seq(LineReply) /\ todo \in Seq(Command) /\ timeouts \in Nat /\ late \in BOOLEAN
         /\ sleep_ms \in Nat \ {0} /\ wait_ms \in Int
  BY DEF BfInv, BfTypes, BitForceTypeOK

SerialTypes ==
  line \in Seq(LineReply) /\ todo \in Seq(Command) /\ timeouts \in Nat /\ late \in BOOLEAN
    /\ searching \in 0..MaxBfWorks

\* A read, whether it got a reply or none.
LineRead ==
  /\ SerialTypes' /\ searching' = searching
  /\ ~late' /\ mine \notin {"detect", "gone"} => line' = <<>> /\ todo' = <<>>
  /\ timeouts' = 0 => timeouts = 0 /\ ~late'

LEMMA ReadOne == ASSUME BfInv, NEW reply, Reads(reply) PROVE LineRead /\ line # <<>> /\ reply = Head(line)
<1>1. line # <<>> /\ reply = Head(line) /\ line' = Tail(line) /\ UNCHANGED <<todo, searching, late, timeouts>>
  BY DEF Reads
<1>2. line' \in Seq(LineReply)
  BY <1>1, BfTyped, HeadTailProperties
<1>3. SerialTypes'
  BY <1>1, <1>2, BfTyped DEF SerialTypes
<1>4. ~late' /\ mine \notin {"detect", "gone"} => line' = <<>> /\ todo' = <<>>
  BY <1>1 DEF BfInv, BfSync, InLine
<1>5. timeouts' = 0 => timeouts = 0 /\ ~late'
  BY <1>1 DEF BfInv, BfOnTime
<1> QED BY <1>1, <1>3, <1>4, <1>5 DEF LineRead

LEMMA ReadNone == ASSUME BfInv, ReadsNothing PROVE LineRead /\ line = <<>>
<1>1. line = <<>> /\ UNCHANGED <<todo, line, searching>>
  BY DEF ReadsNothing
<1>2. CASE todo = <<>>
  <2>1. UNCHANGED <<late, timeouts>>
    BY <1>2 DEF ReadsNothing
  <2>2. SerialTypes'
    BY <1>1, <2>1, BfTyped DEF SerialTypes
  <2> QED BY <1>1, <1>2, <2>1, <2>2 DEF LineRead, BfInv, BfOnTime
<1>3. CASE todo # <<>>
  <2>1. timeouts' = timeouts + 1 /\ late' = TRUE
    BY <1>3 DEF ReadsNothing
  <2>2. SerialTypes' /\ timeouts' # 0
    BY <1>1, <2>1, BfTyped DEF SerialTypes
  <2> QED BY <1>1, <2>1, <2>2 DEF LineRead
<1> QED BY <1>2, <1>3

\* A command is written while nothing is in the line.
LineWritten(c) ==
  /\ SerialTypes' /\ UNCHANGED <<line, searching, late, timeouts>>
  /\ ~late => line' = <<>> /\ todo' # <<>> /\ Tail(todo') = <<>> /\ Head(todo') = c

LEMMA WriteOne ==
  ASSUME BfInv, NEW cmd \in Commands, NEW of \in 0..MaxBfWorks, usb_write(cmd, of),
         ~late => line = <<>> /\ todo = <<>>
  PROVE  LineWritten([to |-> cmd, of |-> of])
<1> DEFINE c == [to |-> cmd, of |-> of]
<1>1. c \in Command
  BY DEF Command
<1>2. todo' = Append(todo, c) /\ UNCHANGED <<line, searching, late, timeouts>>
  BY DEF usb_write
<1> HIDE DEF c
<1>3. todo' \in Seq(Command)
  BY <1>1, <1>2, BfTyped
<1>4. SerialTypes'
  BY <1>2, <1>3, BfTyped DEF SerialTypes
<1>5. ~late => line' = <<>> /\ todo' # <<>> /\ Tail(todo') = <<>> /\ Head(todo') = c
  BY <1>1, <1>2, OneInLine
<1> QED BY <1>2, <1>4, <1>5 DEF LineWritten, c

\* What is asked: the mutex lets one of the two threads ask.
LEMMA WhatIsAsked ==
  ASSUME BfLocks
  PROVE  /\ mine = "requested" => BfAsked = {"range", "full"}
         /\ mine = "sent" => BfAsked = {"data"}
         /\ mine = "polled" => BfAsked = {"status"}
         /\ mine \notin {"requested", "sent", "polled"} => BfAsked = (IF watch = "asked" THEN {"temp"} ELSE {})
<1>1. mine \in {"requested", "sent", "polled"} => watch # "asked"
  BY DEF BfLocks
<1>2. CASE mine = "requested"
  BY <1>1, <1>2 DEF BfAsked
<1>3. CASE mine = "sent"
  BY <1>1, <1>3 DEF BfAsked
<1>4. CASE mine = "polled"
  BY <1>1, <1>4 DEF BfAsked
<1>5. CASE mine \notin {"requested", "sent", "polled"}
  BY <1>5 DEF BfAsked
<1> QED BY <1>2, <1>3, <1>4, <1>5

\* Nothing is in the line while nobody, or nobody who reads, holds the mutex.
LEMMA QuietLine ==
  ASSUME BfInv, BfDetected, ~late, bf_mutex = "free" \/ mine = "granted"
  PROVE  line = <<>> /\ todo = <<>>
<1>1. BfAsked = {}
  BY BfTyped DEF BfInv, BfLocks, BfAsked
<1>2. mine \notin {"detect", "identify", "gone"}
  BY DEF BfDetected
<1> QED BY <1>1, <1>2 DEF BfInv, BfSync, InLine, Expected

\* A purge.
LineReset ==
  /\ SerialTypes' /\ UNCHANGED <<searching, timeouts>>
  /\ ~late' => line' = <<>> /\ todo' = <<>>
  /\ timeouts' = 0 => ~late'

LEMMA Purged == ASSUME BfInv, Initialise, BfDetected, bf_mutex = "free" PROVE LineReset
<1>1. /\ line' = <<>> /\ todo' \in {todo, <<>>} /\ (late' <=> todo' # <<>>) /\ late' \in BOOLEAN
      /\ UNCHANGED <<searching, timeouts>>
  BY DEF Initialise
<1>2. SerialTypes'
  BY <1>1, BfTyped, EmptySeq DEF SerialTypes
<1>3. timeouts' = 0 => ~late'
  BY <1>1, QuietLine DEF BfInv, BfOnTime
<1> QED BY <1>1, <1>2, <1>3 DEF LineReset

----------------------------------------------------------------------------
(* The steps                                                               *)

\* What a step must see to, next to the line, the control and the parts.
LEMMA BfTypesStep ==
  ASSUME SerialTypes', bf_mutex' \in {"free", "miner", "watchdog"}, mine' \in MinerSteps,
         watch' \in {"idle", "asked", "flashing", "initialise"}, work' \in 0..MaxBfWorks, part' \in 0..Parts,
         nonce_range' \in BOOLEAN, polling' \in BOOLEAN, flash_led' \in BOOLEAN, handed' \subseteq 0..(Parts - 1),
         sleep_ms' \in Nat \ {0}, wait_ms' \in Int
  PROVE  BfTypes'
  BY DEF BfTypes, BitForceTypeOK, SerialTypes

\* After a read or a purge nothing is in the line, if no reply is late.
LEMMA EmptySync ==
  ASSUME ~late' /\ mine' \notin {"detect", "gone"} => line' = <<>> /\ todo' = <<>> PROVE BfSync'
  BY DEF BfSync, InLine

LEMMA DeviceAnswersStep == ASSUME BfInv, DeviceAnswers PROVE BfInv'
<1> DEFINE c == Head(todo)
<1>1. PICK says \in Says(c) :
        /\ line' = Append(line, [to |-> c.to, says |-> says, of |-> searching])
        /\ searching' = CASE c.to = "data" /\ says = "OK" -> c.of
                          [] says \in {"NO-NONCE", "NONCE"} -> 0
                          [] OTHER -> searching
  BY DEF DeviceAnswers
<1>2. todo # <<>> /\ todo' = Tail(todo)
      /\ UNCHANGED <<bf_mutex, mine, watch, late, timeouts, bfMining, polling, deven, flash_led, detection>>
  BY DEF DeviceAnswers
<1>3. c \in Command /\ todo' \in Seq(Command)
  BY <1>2, BfTyped, HeadTailProperties
<1> HIDE DEF c
<1>4. c.to \in Commands /\ c.of \in 0..MaxBfWorks
  BY <1>3 DEF Command
<1>5. says \in Words
  BY <1>4 DEF Says, Words, Commands
<1>6. says \in {"NO-NONCE", "NONCE"} => c.to = "status"
  BY <1>4 DEF Says, Commands
<1> DEFINE x == [to |-> c.to, says |-> says, of |-> searching]
<1>7. x \in LineReply /\ x.to = c.to /\ x.says = says /\ x.of = searching
  BY <1>4, <1>5, BfTyped DEF LineReply
<1>8. searching' \in 0..MaxBfWorks
  BY <1>1, <1>4, BfTyped, BfConstants
<1> HIDE DEF x
<1>9. line' = Append(line, x)
  BY <1>1 DEF x
<1>10. SerialTypes'
  <2>1. line' \in Seq(LineReply)
    BY <1>7, <1>9, BfTyped
  <2> QED BY <1>2, <1>3, <1>8, <2>1, BfTyped DEF SerialTypes
<1>11. BfTypes'
  BY <1>2, <1>10, BfTyped, BfTypesStep DEF bfMining
<1>12. BfLocks' /\ BfParts'
  BY <1>2 DEF BfInv, BfLocks, BfParts, PartsOnce, BfDetected, bfMining
<1>13. ~late /\ mine \notin {"detect", "gone"} =>
         /\ line = <<>> /\ Tail(todo) = <<>> /\ c.to \in Expected
         /\ line' # <<>> /\ Tail(line') = <<>> /\ todo' = <<>> /\ Head(line') = x
  <2> SUFFICES ASSUME ~late, mine \notin {"detect", "gone"}
               PROVE  /\ line = <<>> /\ Tail(todo) = <<>> /\ c.to \in Expected
                      /\ line' # <<>> /\ Tail(line') = <<>> /\ todo' = <<>> /\ Head(line') = x
    OBVIOUS
  <2>1. line = <<>> /\ Tail(todo) = <<>> /\ c.to \in Expected
    BY <1>2 DEF BfInv, BfSync, InLine, c
  <2> QED BY <1>2, <1>7, <1>9, <2>1, OneInLine
<1>14. BfSync'
  <2>1. Expected' = Expected
    BY <1>2 DEF Expected, BfAsked
  <2> QED BY <1>2, <1>7, <1>13, <2>1 DEF BfSync, InLine
<1>15. BfOnTime'
  BY <1>2 DEF BfInv, BfOnTime
<1>16. BfSearch'
  <2> SUFFICES ASSUME timeouts = 0, mine \in {"sent", "sleep", "poll", "polled"}
               PROVE  /\ mine = "sent" => (Head(line').says = "OK" => searching' = work)
                      /\ mine \in {"sleep", "poll", "polled"} => searching' \in {0, work}
                      /\ mine = "polled" => (Head(line').says = "NONCE" => Head(line').of = work)
                      /\ todo' = <<>>
    BY <1>2 DEF BfSearch, bfMining
  <2>1. ~late /\ mine \notin {"detect", "gone"}
    BY DEF BfInv, BfOnTime
  <2>2. c.to \in BfAsked /\ Head(line') = x /\ todo' = <<>>
    BY <1>13, <2>1 DEF Expected
  <2>3. mine = "sent" => c.to = "data" /\ c.of = work
    <3> SUFFICES ASSUME mine = "sent" PROVE c.to = "data" /\ c.of = work
      OBVIOUS
    <3>1. BfAsked = {"data"}
      BY WhatIsAsked DEF BfInv
    <3>2. todo # <<>> => Head(todo).of = work
      BY DEF BfInv, BfSearch
    <3> QED BY <1>2, <2>2, <3>1, <3>2 DEF c
  <2>4. mine \in {"sleep", "poll"} => c.to = "temp"
    BY <2>2 DEF BfAsked
  <2>5. mine = "polled" => c.to = "status"
    <3> SUFFICES ASSUME mine = "polled" PROVE c.to = "status"
      OBVIOUS
    <3>1. BfAsked = {"status"}
      BY WhatIsAsked DEF BfInv
    <3> QED BY <2>2, <3>1
  <2>6. mine \in {"sleep", "poll", "polled"} => searching \in {0, work}
    BY DEF BfInv, BfSearch
  <2>7. says = "NONCE" => searching # 0
    BY <1>4, <1>6 DEF Says
  <2> QED BY <1>1, <1>6, <1>7, <2>2, <2>3, <2>4, <2>5, <2>6, <2>7
<1> QED BY <1>11, <1>12, <1>14, <1>15, <1>16 DEF BfInv

LEMMA DetectionSteps == ASSUME BfInv, AskIdentity \/ IdentifyAgain \/ Identified PROVE BfInv'
<1>1. mine \in {"detect", "identify"} /\ watch = "idle" /\ bf_mutex = "free"
      /\ UNCHANGED <<bf_mutex, watch, bfMining, polling, deven, flash_led>>
  BY BfTyped DEF AskIdentity, IdentifyAgain, Identified, BfInv, BfLocks, BfDetected
<1>2. mine' \in {"detect", "identify", "gone", "next"}
  BY DEF AskIdentity, IdentifyAgain, Identified
<1>3. BfLocks' /\ BfParts' /\ BfSearch'
  BY <1>1, <1>2 DEF BfInv, BfLocks, BfParts, PartsOnce, BfSearch, BfDetected, bfMining
<1> SUFFICES SerialTypes' /\ BfSync' /\ BfOnTime'
  <2>1. ASSUME SerialTypes' PROVE BfTypes'
    BY <1>1, <1>2, <2>1, BfTyped, BfTypesStep DEF bfMining, MinerSteps
  <2> QED BY <1>3, <2>1 DEF BfInv
<1>4. CASE AskIdentity
  <2>1. CASE mine' = "gone" /\ UNCHANGED <<line, late, todo>>
    <3>1. UNCHANGED <<searching, timeouts>> /\ mine = "detect"
      BY <1>4 DEF AskIdentity
    <3> QED BY <2>1, <3>1, BfTyped DEF SerialTypes, BfSync, BfOnTime, BfInv
  <2>2. ASSUME NEW left \in {todo, <<>>}, line' = <<>>, late' = (left # <<>>),
               todo' = Append(left, [to |-> "identify", of |-> 0]), mine' = "identify"
        PROVE  SerialTypes' /\ BfSync' /\ BfOnTime'
    <3> DEFINE c == [to |-> "identify", of |-> 0]
    <3>1. c \in Command /\ c.to = "identify"
      BY BfConstants DEF Command, Commands
    <3> HIDE DEF c
    <3>2. left \in Seq(Command) /\ todo' = Append(left, c)
      BY <2>2, BfTyped, EmptySeq DEF c
    <3>3. todo' \in Seq(Command)
      BY <3>1, <3>2
    <3>4. UNCHANGED <<searching, timeouts>> /\ mine = "detect"
      BY <1>4 DEF AskIdentity
    <3>5. SerialTypes'
      <4>1. late' \in BOOLEAN
        BY <2>2
      <4> QED BY <2>2, <3>3, <3>4, <4>1, BfTyped, EmptySeq DEF SerialTypes
    <3>6. ~late' => todo' # <<>> /\ Tail(todo') = <<>> /\ Head(todo') = c
      BY <2>2, <3>1, <3>2, OneInLine
    <3>7. BfSync'
      BY <2>2, <3>1, <3>6 DEF BfSync, InLine, Expected
    <3>8. BfOnTime'
      BY <2>2, <3>4 DEF BfOnTime, BfInv
    <3> QED BY <3>5, <3>7, <3>8
  <2> QED BY <1>4, <2>1, <2>2 DEF AskIdentity
<1>5. CASE IdentifyAgain \/ Identified
  <2>1. LineRead /\ mine = "identify" /\ mine' \in {"detect", "gone", "next"}
    BY <1>5, ReadOne, ReadNone DEF IdentifyAgain, Identified
  <2>2. ~late' => line' = <<>> /\ todo' = <<>>
    BY <2>1 DEF LineRead
  <2> QED BY <2>1, <2>2, EmptySync DEF LineRead, BfOnTime
<1> QED BY <1>4, <1>5

----------------------------------------------------------------------------
(* The steps of the watchdog.                                              *)

LEMMA WatchSteps ==
  ASSUME BfInv, GetTemp \/ TempRead \/ WatchInitialises \/ AskFlash \/ Flash \/ Flashed
  PROVE  BfInv'
<1>1. BfDetected /\ UNCHANGED othersOfWatch
  <2>1. ~BfDetected => watch = "idle" /\ ~flash_led /\ bf_mutex # "watchdog"
    BY DEF BfInv, BfLocks
  <2>2. UNCHANGED othersOfWatch
    BY DEF GetTemp, TempRead, WatchInitialises, AskFlash, Flash, Flashed
  <2>3. CASE GetTemp \/ AskFlash
    BY <2>2, <2>3 DEF GetTemp, AskFlash
  <2>4. CASE TempRead \/ WatchInitialises \/ Flashed
    BY <2>1, <2>2, <2>4 DEF TempRead, WatchInitialises, Flashed
  <2>5. CASE Flash
    BY <2>1, <2>2, <2>5 DEF Flash
  <2> QED BY <2>3, <2>4, <2>5
<1>2. UNCHANGED <<mine, work, part, nonce_range, sleep_ms, wait_ms, handed, polling>>
  BY <1>1 DEF othersOfWatch, bfMining
<1>3. mine \notin {"detect", "identify", "gone"} /\ (~late => InLine(BfAsked))
  BY <1>1 DEF BfDetected, BfInv, BfSync, Expected
<1>4. BfParts'
  BY <1>2 DEF BfInv, BfParts, PartsOnce
<1>5. flash_led' \in BOOLEAN
  BY BfTyped DEF GetTemp, TempRead, WatchInitialises, AskFlash, Flash, Flashed
<1>6. CASE AskFlash \/ Flash \/ Flashed \/ (GetTemp /\ UNCHANGED <<serial, bf_mutex, watch>>)
  <2>1. UNCHANGED <<todo, line, searching, late, timeouts>>
    BY <1>6 DEF AskFlash, Flash, Flashed, serial
  <2>2. \/ bf_mutex' = bf_mutex /\ watch' = watch
        \/ bf_mutex = "free" /\ bf_mutex' = "watchdog" /\ watch = "idle" /\ watch' = "flashing"
        \/ bf_mutex' = "free" /\ watch = "flashing" /\ watch' = "idle"
    BY <1>6 DEF AskFlash, Flash, Flashed
  <2>3. BfLocks'
    BY <1>2, <1>3, <2>2 DEF BfInv, BfLocks, BfDetected
  <2>4. BfTypes'
    <3>1. SerialTypes'
      BY <2>1, BfTyped DEF SerialTypes
    <3> QED BY <1>2, <1>5, <2>2, <3>1, BfTyped, BfTypesStep
  <2>5. BfSync' /\ BfOnTime' /\ BfSearch'
    <3>1. Expected' = Expected
      BY <1>2, <2>2 DEF Expected, BfAsked
    <3> QED BY <1>2, <2>1, <3>1 DEF BfInv, BfSync, InLine, BfOnTime, BfSearch
  <2> QED BY <1>4, <2>3, <2>4, <2>5 DEF BfInv
<1>7. CASE GetTemp /\ usb_write("temp", 0) /\ bf_mutex' = "watchdog" /\ watch' = "asked"
  <2>1. bf_mutex = "free" /\ watch = "idle" /\ mine \notin {"requested", "granted", "sent", "polled"}
    BY <1>7 DEF GetTemp, BfInv, BfLocks
  <2>2. ~late => line = <<>> /\ todo = <<>>
    BY <1>1, <2>1, QuietLine
  <2>3. LineWritten([to |-> "temp", of |-> 0])
    <3>1. "temp" \in Commands /\ 0 \in 0..MaxBfWorks
      BY BfConstants DEF Commands
    <3> QED BY <1>7, <2>2, <3>1, WriteOne
  <2>4. BfTypes'
    BY <1>2, <1>5, <1>7, <2>3, BfTyped, BfTypesStep DEF LineWritten
  <2>5. BfLocks'
    BY <1>2, <1>3, <1>7, <2>1 DEF BfInv, BfLocks, BfDetected
  <2>6. BfSync'
    <3>1. Expected' = {"temp"}
      BY <1>2, <1>3, <1>7, <2>1 DEF Expected, BfAsked
    <3> QED BY <2>3, <3>1 DEF LineWritten, BfSync, InLine
  <2>7. BfOnTime' /\ BfSearch'
    BY <1>2, <1>3, <2>1, <2>3 DEF BfInv, BfOnTime, BfSearch, LineWritten
  <2> QED BY <1>4, <2>4, <2>5, <2>6, <2>7 DEF BfInv
<1>8. CASE TempRead \/ WatchInitialises
  <2>1. bf_mutex' = "free" /\ mine \notin {"requested", "granted", "sent", "polled"}
        /\ watch' \in {"idle", "initialise"}
    BY <1>8 DEF TempRead, WatchInitialises, BfInv, BfLocks
  <2>2. /\ SerialTypes' /\ searching' = searching
        /\ ~late' => line' = <<>> /\ todo' = <<>>
        /\ timeouts' = 0 => timeouts = 0 /\ ~late'
    <3>1. CASE TempRead
      <4>1. LineRead
        BY <3>1, ReadOne, ReadNone DEF TempRead
      <4> QED BY <1>3, <4>1 DEF LineRead
    <3>2. CASE WatchInitialises
      <4>1. LineReset
        BY <1>1, <3>2, Purged DEF WatchInitialises
      <4> QED BY <4>1 DEF LineReset
    <3> QED BY <1>8, <3>1, <3>2
  <2>3. BfTypes'
    BY <1>2, <1>5, <2>1, <2>2, BfTyped, BfTypesStep
  <2>4. BfLocks'
    BY <1>2, <1>3, <2>1 DEF BfInv, BfLocks, BfDetected
  <2>5. BfSync'
    BY <2>2, EmptySync
  <2>6. BfOnTime' /\ BfSearch'
    BY <1>2, <1>3, <2>1, <2>2 DEF BfInv, BfOnTime, BfSearch
  <2> QED BY <1>4, <2>3, <2>4, <2>5, <2>6 DEF BfInv
<1>9. GetTemp => \/ usb_write("temp", 0) /\ bf_mutex' = "watchdog" /\ watch' = "asked"
                 \/ UNCHANGED <<serial, bf_mutex, watch>>
  BY DEF GetTemp, WriteFails
<1> QED BY <1>6, <1>7, <1>8, <1>9

----------------------------------------------------------------------------
(* The steps of the mining thread.                                         *)

LEMMA AdaptedWait == ASSUME BfInv PROVE Adapted \in Nat \ {0}
<1>1. sleep_ms \in Nat \ {0} /\ wait_ms \in Int
  BY BfTyped
<1>2. WORK_CHECK_INTERVAL_MS \in Nat \ {0} /\ BITFORCE_CHECK_INTERVAL_MS \in Nat \ {0}
  BY BfConstants
<1> QED BY <1>1, <1>2 DEF Adapted

\* Whatever the miner does, it leaves the watchdog, the LED and the detection alone.
LEMMA MinerFrame ==
  ASSUME BfInv,
         NextWork \/ NextPart \/ RequestWork \/ Requested \/ SendData \/ DataRead \/ Restarted
           \/ Slept \/ PollRestarts \/ Poll \/ Polled \/ MinerInitialises \/ ThreadEnable
  PROVE  /\ UNCHANGED <<watch, flash_led>> /\ BfDetected /\ BfDetected'
         /\ mine' \in MinerSteps \ {"detect", "identify", "gone"}
<1>1. CASE NextWork
  BY <1>1 DEF NextWork, BfDetected, othersOfMiner, MinerSteps
<1>2. CASE NextPart
  BY <1>2 DEF NextPart, BfDetected, othersOfMiner, MinerSteps
<1>3. CASE RequestWork
  BY <1>3 DEF RequestWork, BfDetected, othersOfMiner, MinerSteps
<1>4. CASE Requested
  BY <1>4 DEF Requested, BfDetected, othersOfMiner, MinerSteps
<1>5. CASE SendData
  BY <1>5 DEF SendData, BfDetected, othersOfMiner, MinerSteps
<1>6. CASE DataRead
  BY <1>6 DEF DataRead, BfDetected, othersOfMiner, MinerSteps
<1>7. CASE Restarted
  BY <1>7 DEF Restarted, BfDetected, othersOfMiner, MinerSteps
<1>8. CASE Slept
  BY <1>8 DEF Slept, BfDetected, othersOfMiner, MinerSteps
<1>9. CASE PollRestarts
  BY <1>9 DEF PollRestarts, BfDetected, othersOfMiner, MinerSteps
<1>10. CASE Poll
  BY <1>10 DEF Poll, BfDetected, othersOfMiner, MinerSteps
<1>11. CASE Polled
  <2>1. mine = "polled" /\ mine' \in {"next", "poll", "initialise"}
    BY <1>11 DEF Polled, PollAgain, Result, BrokenRange
  <2> QED BY <1>11, <2>1 DEF Polled, BfDetected, othersOfMiner, MinerSteps
<1>12. CASE MinerInitialises
  BY <1>12 DEF MinerInitialises, BfDetected, othersOfMiner, MinerSteps
<1>13. CASE ThreadEnable
  BY <1>13 DEF ThreadEnable, BfDetected, MinerSteps
<1> QED BY <1>1, <1>2, <1>3, <1>4, <1>5, <1>6, <1>7, <1>8, <1>9, <1>10, <1>11, <1>12, <1>13

\* The steps that leave the line alone.
LEMMA MinerQuietSteps ==
  ASSUME BfInv,
         NextWork \/ NextPart \/ ThreadEnable \/ Restarted \/ Slept \/ PollRestarts
           \/ (RequestWork /\ WriteFails)
  PROVE  BfInv'
<1>1. /\ UNCHANGED <<todo, line, searching, late, timeouts>> /\ UNCHANGED <<watch, flash_led>>
      /\ BfDetected /\ BfDetected' /\ mine' \in MinerSteps
      /\ UNCHANGED bf_mutex
      /\ mine \in {"next", "send", "not sent", "sleep", "poll"}
      /\ mine' \in {"next", "send", "not sent", "poll", "initialise"}
      /\ mine' = "poll" => mine = "sleep" /\ work' = work
  <2>1. UNCHANGED <<watch, flash_led>> /\ BfDetected /\ BfDetected' /\ mine' \in MinerSteps
    BY MinerFrame
  <2>2. UNCHANGED <<todo, line, searching, late, timeouts>>
    BY DEF NextWork, NextPart, ThreadEnable, Restarted, Slept, PollRestarts, WriteFails, serial
  <2>3. CASE NextWork \/ NextPart \/ ThreadEnable \/ Restarted \/ Slept \/ PollRestarts
    BY <2>1, <2>2, <2>3 DEF NextWork, NextPart, ThreadEnable, Restarted, Slept, PollRestarts
  <2>4. CASE RequestWork /\ WriteFails
    <3>1. ~usb_write(IF nonce_range THEN "range" ELSE "full", 0)
      <4>1. SUFFICES ASSUME NEW r, todo' = Append(todo, r) PROVE FALSE
        BY DEF usb_write
      <4>2. todo' = todo /\ todo \in Seq(Command)
        BY <2>2, BfTyped
      <4>3. Len(Append(todo, r)) = Len(todo) + 1 /\ Len(todo) \in Nat
        BY <4>2
      <4> QED BY <4>1, <4>2, <4>3
    <3> QED BY <2>1, <2>2, <2>4, <3>1 DEF RequestWork
  <2> QED BY <2>1, <2>2, <2>3, <2>4
<1>2. BfTypes' /\ BfParts'
  <2>1. SerialTypes'
    BY <1>1, BfTyped DEF SerialTypes
  <2>2. CASE NextWork
    <3>1. work' = work + 1 /\ work < MaxBfWorks /\ part' = 0 /\ handed' = {}
          /\ UNCHANGED <<nonce_range, sleep_ms, wait_ms, polling>>
      BY <2>2 DEF NextWork
    <3>2. work' \in 0..MaxBfWorks /\ part' \in 0..Parts /\ part' < Parts
      BY <3>1, BfTyped, BfConstants
    <3> QED BY <1>1, <2>1, <3>1, <3>2, BfTyped, BfTypesStep DEF BfParts, PartsOnce
  <2>3. CASE NextPart \/ ThreadEnable \/ Restarted \/ (RequestWork /\ WriteFails)
    <3>1. UNCHANGED <<work, part, nonce_range, sleep_ms, wait_ms, handed, polling>>
      BY <2>3 DEF NextPart, ThreadEnable, Restarted, RequestWork, bfMining
    <3>2. mine' = "send" => part < Parts
      BY <1>1, <2>3 DEF NextPart, ThreadEnable, Restarted, RequestWork, BfInv, BfParts
    <3> QED BY <1>1, <2>1, <3>1, <3>2, BfTyped, BfTypesStep DEF BfInv, BfParts, PartsOnce
  <2>4. CASE Slept \/ PollRestarts
    <3>1. UNCHANGED <<work, part, nonce_range, sleep_ms, handed>> /\ wait_ms' \in {0, sleep_ms}
          /\ polling' \in BOOLEAN /\ mine' # "send"
      BY <2>4 DEF Slept, PollRestarts
    <3>2. wait_ms' \in Int
      BY <3>1, BfTyped
    <3> QED BY <1>1, <2>1, <3>1, <3>2, BfTyped, BfTypesStep DEF BfInv, BfParts, PartsOnce
  <2> QED BY <2>2, <2>3, <2>4
<1>3. BfLocks'
  BY <1>1 DEF BfInv, BfLocks
<1>4. BfSync' /\ BfOnTime'
  <2>1. Expected' = Expected
    BY <1>1 DEF Expected, BfAsked
  <2> QED BY <1>1, <2>1 DEF BfInv, BfSync, InLine, BfOnTime, BfDetected
<1>5. BfSearch'
  BY <1>1 DEF BfInv, BfSearch
<1> QED BY <1>2, <1>3, <1>4, <1>5 DEF BfInv

\* A command of the miner's is in the line, and the mutex is its own.
LEMMA RequestStep ==
  ASSUME BfInv, RequestWork, usb_write(IF nonce_range THEN "range" ELSE "full", 0),
         bf_mutex' = "miner", mine' = "requested"
  PROVE  BfInv'
<1>1. /\ mine = "send" /\ bf_mutex = "free" /\ BfDetected /\ BfDetected' /\ UNCHANGED <<watch, flash_led>>
      /\ UNCHANGED <<work, part, nonce_range, sleep_ms, wait_ms, handed, polling>>
  BY MinerFrame DEF RequestWork, bfMining
<1> DEFINE cmd == IF nonce_range THEN "range" ELSE "full"
<1>2. cmd \in {"range", "full"} /\ cmd \in Commands /\ 0 \in 0..MaxBfWorks
  BY BfConstants DEF Commands
<1>3. LineWritten([to |-> cmd, of |-> 0])
  <2>1. ~late => line = <<>> /\ todo = <<>>
    BY <1>1, QuietLine
  <2>2. usb_write(cmd, 0)
    OBVIOUS
  <2> QED BY <1>2, <2>1, <2>2, WriteOne
<1> HIDE DEF cmd
<1>4. BfTypes'
  <2>1. mine' \in MinerSteps
    BY DEF MinerSteps
  <2> QED BY <1>1, <1>3, <2>1, BfTyped, BfTypesStep DEF LineWritten
<1>5. BfLocks' /\ BfParts'
  BY <1>1 DEF BfInv, BfLocks, BfParts, PartsOnce
<1>6. BfSync'
  <2>1. Expected' = {"range", "full"}
    <3>1. BfAsked' = {"range", "full"}
      <4>1. mine' = "requested"
        OBVIOUS
      <4>2. watch' # "asked"
        BY <1>1, <1>5, <4>1 DEF BfLocks
      <4> QED BY <4>1, <4>2 DEF BfAsked
    <3>2. mine' # "identify"
      OBVIOUS
    <3> QED BY <3>1, <3>2 DEF Expected
  <2> QED BY <1>2, <1>3, <2>1 DEF BfSync, InLine, LineWritten
<1>7. BfOnTime' /\ BfSearch'
  BY <1>3 DEF BfInv, BfOnTime, BfSearch, LineWritten
<1> QED BY <1>4, <1>5, <1>6, <1>7 DEF BfInv

LEMMA PollStep == ASSUME BfInv, Poll PROVE BfInv'
<1>1. /\ mine = "poll" /\ bf_mutex = "free" /\ mine' = "polled" /\ bf_mutex' = "miner"
      /\ BfDetected /\ BfDetected' /\ UNCHANGED <<watch, flash_led>>
      /\ UNCHANGED <<work, part, nonce_range, sleep_ms, wait_ms, handed, polling>>
  BY MinerFrame DEF Poll, bfMining
<1>2. ~late => line = <<>> /\ todo = <<>>
  BY <1>1, QuietLine
<1>3. /\ SerialTypes' /\ UNCHANGED <<line, searching, late, timeouts>>
      /\ ~late => line' = <<>> /\ (todo' = <<>> \/ (todo' # <<>> /\ Tail(todo') = <<>> /\ Head(todo').to = "status"))
  <2>1. CASE usb_write("status", 0)
    <3>1. "status" \in Commands /\ 0 \in 0..MaxBfWorks
      BY BfConstants DEF Commands
    <3>2. LineWritten([to |-> "status", of |-> 0])
      BY <1>2, <2>1, <3>1, WriteOne
    <3> QED BY <3>2 DEF LineWritten
  <2>2. CASE WriteFails
    <3>1. UNCHANGED <<todo, line, searching, late, timeouts>>
      BY <2>2 DEF WriteFails, serial
    <3> QED BY <1>2, <3>1, BfTyped DEF SerialTypes
  <2> QED BY <2>1, <2>2 DEF Poll
<1>4. BfTypes'
  <2>1. mine' \in MinerSteps
    BY <1>1 DEF MinerSteps
  <2> QED BY <1>1, <1>3, <2>1, BfTyped, BfTypesStep
<1>5. BfLocks' /\ BfParts'
  BY <1>1 DEF BfInv, BfLocks, BfParts, PartsOnce
<1>6. BfSync'
  <2>1. Expected' = {"status"}
    <3>1. watch' # "asked"
      BY <1>1, <1>5 DEF BfLocks
    <3>2. BfAsked' = {"status"}
      BY <1>1, <3>1 DEF BfAsked
    <3> QED BY <1>1, <3>2 DEF Expected
  <2> QED BY <1>3, <2>1 DEF BfSync, InLine
<1>7. BfOnTime' /\ BfSearch'
  BY <1>1, <1>3 DEF BfInv, BfOnTime, BfSearch
<1> QED BY <1>4, <1>5, <1>6, <1>7 DEF BfInv

\* work->blk.nonce is not yet behind the part that is handed to the device.
LEMMA SendDataStep == ASSUME BfInv, SendData PROVE BfInv'
<1>1. /\ mine = "granted" /\ BfDetected /\ BfDetected' /\ UNCHANGED <<watch, flash_led>>
      /\ bf_mutex = "miner" /\ UNCHANGED <<work, nonce_range, sleep_ms, wait_ms, polling>>
  BY MinerFrame DEF SendData, BfInv, BfLocks
<1>2. part \in 0..Parts /\ part < Parts /\ Parts \in Nat \ {0} /\ nonce_range \in BOOLEAN
  BY <1>1, BfTyped, BfConstants DEF BfInv, BfParts
<1>3. part' \in 0..Parts /\ (nonce_range => part' = part + 1)
  <2>1. part' = IF nonce_range THEN part + 1 ELSE Parts
    BY DEF SendData, PartTaken
  <2>2. part + 1 \in 0..Parts /\ Parts \in 0..Parts
    BY <1>2
  <2> QED BY <2>1, <2>2
<1>4. handed' \subseteq 0..(Parts - 1) /\ (nonce_range => \A p \in handed' : p < part')
  <2>1. part \in 0..(Parts - 1) /\ (nonce_range => part < part')
    BY <1>2, <1>3
  <2>2. nonce_range => \A p \in handed : p < part
    BY DEF BfInv, BfParts, PartsOnce
  <2>3. \A p \in handed : p \in Int
    BY BfTyped
  <2>4. handed' \in {handed, IF nonce_range THEN handed \union {part} ELSE 0..(Parts - 1)}
    BY DEF SendData
  <2>5. handed \subseteq 0..(Parts - 1)
    BY BfTyped
  <2>6. handed' \subseteq 0..(Parts - 1)
    BY <2>1, <2>4, <2>5
  <2>7. ASSUME nonce_range, NEW p \in handed' PROVE p < part'
    <3>1. p \in handed \/ p = part
      BY <2>4, <2>7
    <3>2. p \in handed => p < part /\ p \in Int
      BY <2>2, <2>3, <2>7
    <3> QED BY <1>2, <1>3, <2>1, <2>7, <3>1, <3>2
  <2> QED BY <2>6, <2>7
<1>5. CASE usb_write("data", work) /\ mine' = "sent" /\ UNCHANGED bf_mutex
  <2>1. LineWritten([to |-> "data", of |-> work])
    <3>1. "data" \in Commands /\ work \in 0..MaxBfWorks
      BY BfTyped DEF Commands
    <3>2. ~late => line = <<>> /\ todo = <<>>
      BY <1>1, QuietLine
    <3> QED BY <1>5, <3>1, <3>2, WriteOne
  <2>2. BfTypes'
    <3>1. mine' \in MinerSteps /\ bf_mutex' \in {"free", "miner", "watchdog"}
      BY <1>1, <1>5 DEF MinerSteps
    <3> QED BY <1>1, <1>3, <1>4, <2>1, <3>1, BfTyped, BfTypesStep DEF LineWritten
  <2>3. BfLocks' /\ BfParts'
    BY <1>1, <1>4, <1>5 DEF BfInv, BfLocks, BfParts, PartsOnce
  <2>4. BfSync'
    <3>1. Expected' = {"data"}
      <4>1. watch' # "asked"
        BY <1>1, <1>5, <2>3 DEF BfLocks
      <4>2. BfAsked' = {"data"}
        BY <1>5, <4>1 DEF BfAsked
      <4> QED BY <1>5, <4>2 DEF Expected
    <3> QED BY <2>1, <3>1 DEF BfSync, InLine, LineWritten
  <2>5. BfOnTime' /\ BfSearch'
    BY <1>1, <1>5, <2>1 DEF BfInv, BfOnTime, BfSearch, LineWritten
  <2> QED BY <2>2, <2>3, <2>4, <2>5 DEF BfInv
<1>6. CASE WriteFails /\ mine' = "not sent" /\ bf_mutex' = "free"
  <2>1. UNCHANGED <<todo, line, searching, late, timeouts>>
    BY <1>6 DEF WriteFails, serial
  <2>2. BfTypes'
    <3>1. mine' \in MinerSteps /\ SerialTypes'
      BY <1>6, <2>1, BfTyped DEF MinerSteps, SerialTypes
    <3> QED BY <1>1, <1>3, <1>4, <1>6, <3>1, BfTyped, BfTypesStep
  <2>3. BfLocks' /\ BfParts'
    BY <1>1, <1>4, <1>6 DEF BfInv, BfLocks, BfParts, PartsOnce
  <2>4. BfSync' /\ BfOnTime' /\ BfSearch'
    <3>1. ~late => line = <<>> /\ todo = <<>>
      BY <1>1, QuietLine
    <3> QED BY <1>6, <2>1, <3>1 DEF BfInv, BfSync, InLine, BfOnTime, BfSearch
  <2> QED BY <2>2, <2>3, <2>4 DEF BfInv
<1> QED BY <1>5, <1>6 DEF SendData

\* What the reads of the miner have in common: the line is empty after them, if no reply is late.
LEMMA MinerReads ==
  ASSUME BfInv, LineRead, mine \in {"requested", "sent", "polled"},
         mine' \in {"send", "granted", "sleep", "not sent", "next", "poll", "initialise"},
         UNCHANGED <<watch, flash_led>>, BfDetected', mine' \in MinerSteps,
         bf_mutex' = IF mine' = "granted" THEN "miner" ELSE "free",
         work' = work, handed' = handed, part' \in 0..Parts, nonce_range' \in BOOLEAN, polling' \in BOOLEAN,
         sleep_ms' \in Nat \ {0}, wait_ms' \in Int,
         mine' \in {"send", "granted"} => part' < Parts,
         nonce_range' => nonce_range /\ part' = part,
         timeouts = 0 /\ mine' \in {"sleep", "poll"} => searching \in {0, work}
  PROVE  BfInv'
<1>1. BfTypes'
  <2>1. bf_mutex' \in {"free", "miner", "watchdog"}
    OBVIOUS
  <2> QED BY <2>1, BfTyped, BfTypesStep DEF LineRead
<1>2. BfLocks'
  BY DEF BfInv, BfLocks
<1>3. BfParts'
  BY DEF BfInv, BfParts, PartsOnce
<1>4. BfSync'
  BY EmptySync DEF LineRead
<1>5. BfOnTime' /\ BfSearch'
  BY DEF LineRead, BfOnTime, BfSearch
<1> QED BY <1>1, <1>2, <1>3, <1>4, <1>5 DEF BfInv

LEMMA RequestedStep == ASSUME BfInv, Requested PROVE BfInv'
<1>1. /\ mine = "requested" /\ UNCHANGED <<watch, flash_led, polling>> /\ BfDetected'
      /\ mine' \in MinerSteps /\ LineRead
  BY MinerFrame, ReadOne, ReadNone DEF Requested
<1>2. mine' \in {"send", "granted", "not sent"} /\ bf_mutex' = (IF mine' = "granted" THEN "miner" ELSE "free")
  BY DEF Requested
<1>3. \/ UNCHANGED <<work, part, nonce_range, sleep_ms, wait_ms, handed>>
      \/ nonce_range' = FALSE /\ sleep_ms' = sleep_ms * 5 /\ wait_ms' = 0 /\ UNCHANGED <<work, handed, part>>
  BY DEF Requested, DisableRange, bfMining
<1>4. part < Parts
  BY <1>1 DEF BfInv, BfParts
<1>5. sleep_ms * 5 \in Nat \ {0}
  BY BfTyped
<1>6. /\ work' = work /\ handed' = handed /\ part' = part /\ nonce_range' \in BOOLEAN
      /\ sleep_ms' \in Nat \ {0} /\ wait_ms' \in Int /\ (nonce_range' => nonce_range)
      /\ part' \in 0..Parts /\ polling' \in BOOLEAN
  <2>1. part' = part /\ polling' = polling /\ work' = work /\ handed' = handed
    BY <1>1, <1>3
  <2>2. nonce_range' \in BOOLEAN /\ (nonce_range' => nonce_range)
    <3>1. nonce_range' = nonce_range \/ nonce_range' = FALSE
      BY <1>3
    <3>2. nonce_range \in BOOLEAN
      BY BfTyped
    <3>3. CASE nonce_range' = nonce_range
      BY <3>2, <3>3
    <3>4. CASE nonce_range' = FALSE
      BY <3>4
    <3> QED BY <3>1, <3>3, <3>4
  <2>3. sleep_ms' \in Nat \ {0}
    BY <1>3, <1>5, BfTyped
  <2>4. wait_ms' \in Int
    <3>1. wait_ms' = wait_ms \/ wait_ms' = 0
      BY <1>3
    <3> QED BY <3>1, BfTyped
  <2>5. part' \in 0..Parts /\ polling' \in BOOLEAN
    BY <2>1, BfTyped
  <2> QED BY <2>1, <2>2, <2>3, <2>4, <2>5
<1> QED BY <1>1, <1>2, <1>4, <1>6, MinerReads

LEMMA DataReadStep == ASSUME BfInv, DataRead PROVE BfInv'
<1>1. /\ mine = "sent" /\ UNCHANGED <<watch, flash_led, polling>> /\ BfDetected'
      /\ mine' \in MinerSteps /\ LineRead /\ bf_mutex' = "free"
      /\ mine' \in {"sleep", "not sent"}
      /\ UNCHANGED <<work, part, nonce_range, sleep_ms, wait_ms, handed>>
  BY MinerFrame, ReadOne, ReadNone DEF DataRead, bfMining
<1>2. mine' = "sleep" => line # <<>> /\ Head(line).says = "OK"
  BY DEF DataRead, Reads
<1>3. timeouts = 0 /\ mine' \in {"sleep", "poll"} => searching \in {0, work}
  BY <1>1, <1>2 DEF BfInv, BfSearch
<1> QED BY <1>1, <1>3, BfTyped, MinerReads

LEMMA PolledStep == ASSUME BfInv, Polled PROVE BfInv'
<1>1. /\ mine = "polled" /\ UNCHANGED <<watch, flash_led>> /\ BfDetected'
      /\ mine' \in MinerSteps /\ LineRead /\ bf_mutex' = "free"
      /\ mine' \in {"next", "poll", "initialise"}
  BY MinerFrame, ReadOne, ReadNone DEF Polled, PollAgain, Result, BrokenRange
<1>2. CASE \E says \in {"", "BUSY"} : PollAgain(says)
  <2>1. UNCHANGED <<work, part, nonce_range, sleep_ms, handed>>
    BY <1>2 DEF PollAgain
  <2>2. polling' \in BOOLEAN
    BY <1>2, BfTyped DEF PollAgain
  <2>3. wait_ms' \in Int
    <3>1. wait_ms' \in {0, wait_ms, wait_ms + 2 * WORK_CHECK_INTERVAL_MS, wait_ms + BITFORCE_CHECK_INTERVAL_MS}
      BY <1>2 DEF PollAgain
    <3>2. /\ wait_ms \in Int /\ WORK_CHECK_INTERVAL_MS \in Int /\ BITFORCE_CHECK_INTERVAL_MS \in Int
      BY BfTyped, BfConstants
    <3> QED BY <3>1, <3>2
  <2>4. timeouts = 0 => searching \in {0, work}
    BY <1>1 DEF BfInv, BfSearch
  <2> QED BY <1>1, <2>1, <2>2, <2>3, <2>4, BfTyped, MinerReads
<1>3. CASE \E reply : Result(reply)
  <2>1. UNCHANGED <<work, part, nonce_range, handed>> /\ polling' = FALSE /\ wait_ms' = 0 /\ mine' # "poll"
    BY <1>3 DEF Result
  <2>2. sleep_ms' \in Nat \ {0}
    BY <1>3, AdaptedWait, BfTyped DEF Result
  <2>3. polling' \in BOOLEAN
    BY <2>1
  <2>4. wait_ms' \in Int
    BY <2>1
  <2> QED BY <1>1, <2>1, <2>2, <2>3, <2>4, BfTyped, MinerReads
<1>4. CASE \E reply : BrokenRange(reply)
  <2>1. /\ polling' = FALSE /\ mine' = "next" /\ part' = Parts /\ nonce_range' = FALSE /\ wait_ms' = 0
        /\ UNCHANGED <<work, handed>>
    BY <1>4 DEF BrokenRange, DisableRange
  <2>2. PICK sleep \in {sleep_ms, Adapted} : sleep_ms' = sleep * 5
    BY <1>4 DEF BrokenRange, DisableRange
  <2>3. sleep \in Nat \ {0}
    BY <2>2, AdaptedWait, BfTyped
  <2>4. sleep_ms' \in Nat \ {0}
    BY <2>2, <2>3
  <2>5. polling' \in BOOLEAN /\ nonce_range' \in BOOLEAN
    BY <2>1
  <2>6. wait_ms' \in Int /\ part' \in 0..Parts
    BY <2>1, BfConstants
  <2> QED BY <1>1, <2>1, <2>4, <2>5, <2>6, BfTyped, MinerReads
<1> QED BY <1>2, <1>3, <1>4 DEF Polled

LEMMA MinerInitialisesStep == ASSUME BfInv, MinerInitialises PROVE BfInv'
<1>1. /\ mine = "initialise" /\ mine' = "next" /\ bf_mutex = "free" /\ BfDetected /\ BfDetected'
      /\ UNCHANGED <<watch, flash_led, bf_mutex>>
      /\ UNCHANGED <<work, part, nonce_range, sleep_ms, wait_ms, handed, polling>>
  BY MinerFrame DEF MinerInitialises, bfMining
<1>2. LineReset
  BY <1>1, Purged DEF MinerInitialises
<1>3. BfTypes'
  <2>1. mine' \in MinerSteps
    BY <1>1 DEF MinerSteps
  <2> QED BY <1>1, <1>2, <2>1, BfTyped, BfTypesStep DEF LineReset
<1>4. BfLocks' /\ BfParts'
  BY <1>1 DEF BfInv, BfLocks, BfParts, PartsOnce
<1>5. BfSync'
  BY <1>2, EmptySync DEF LineReset
<1>6. BfOnTime' /\ BfSearch'
  BY <1>1, <1>2 DEF LineReset, BfOnTime, BfSearch
<1> QED BY <1>3, <1>4, <1>5, <1>6 DEF BfInv

LEMMA BfInvStep == ASSUME BfInv, [BitForceNext]_bitforceVars PROVE BfInv'
<1>1. CASE UNCHANGED bitforceVars
  BY <1>1 DEF bitforceVars, serial, bfMining, detection, BfInv, BfTypes, BitForceTypeOK, BfLocks, BfSync,
     InLine, Expected, BfAsked, BfParts, PartsOnce, BfOnTime, BfSearch, BfDetected
<1>2. CASE RequestWork
  <2>1. \/ WriteFails
        \/ usb_write(IF nonce_range THEN "range" ELSE "full", 0) /\ bf_mutex' = "miner" /\ mine' = "requested"
    BY <1>2 DEF RequestWork
  <2> QED BY <1>2, <2>1, RequestStep, MinerQuietSteps
<1>3. CASE BitForceNext /\ ~RequestWork
  BY <1>3, DeviceAnswersStep, DetectionSteps, WatchSteps, MinerQuietSteps, PollStep, SendDataStep,
     RequestedStep, DataReadStep, PolledStep, MinerInitialisesStep DEF BitForceNext
<1> QED BY <1>1, <1>2, <1>3

LEMMA BitForceInvariant == BitForceSpec => []BfInv
<1> QED BY BitForceInitially, BfInvStep, PTL DEF BitForceSpec

----------------------------------------------------------------------------
(* What the invariant says.                                                *)

LEMMA OneReply ==
  ASSUME NEW S, NEW s \in Seq(S), s # <<>>, Tail(s) = <<>>
  PROVE  Len(s) = 1 /\ \A i \in DOMAIN s : s[i] = Head(s)
<1>1. Len(s) \in Nat /\ Len(s) # 0 /\ Len(Tail(s)) = Len(s) - 1 /\ Len(Tail(s)) = 0
  <2>1. Len(s) \in Nat /\ Len(s) # 0
    BY EmptySeq
  <2>2. Len(Tail(s)) = Len(s) - 1
    BY HeadTailProperties
  <2>3. Len(Tail(s)) = 0
    BY EmptySeq
  <2> QED BY <2>1, <2>2, <2>3
<1>2. Len(s) = 1
  BY <1>1
<1> QED BY <1>2

LEMMA BfInSync == ASSUME BfInv PROVE InSync
<1> SUFFICES ASSUME BfDetected, ~late
             PROVE  /\ Len(line) + Len(todo) <= 1
                    /\ \A i \in DOMAIN line : line[i].to \in BfAsked
                    /\ \A i \in DOMAIN todo : todo[i].to \in BfAsked
  BY DEF InSync
<1>1. InLine(BfAsked)
  BY DEF BfInv, BfSync, BfDetected, Expected
<1>2. line \in Seq(LineReply) /\ todo \in Seq(Command)
  BY BfTyped
<1>3. Len(<<>>) = 0 /\ DOMAIN <<>> = {}
  OBVIOUS
<1>4. CASE line = <<>> /\ todo = <<>>
  BY <1>3, <1>4
<1>5. CASE line # <<>> /\ Tail(line) = <<>> /\ todo = <<>> /\ Head(line).to \in BfAsked
  <2>1. Len(line) = 1 /\ \A i \in DOMAIN line : line[i] = Head(line)
    BY <1>2, <1>5, OneReply
  <2> QED BY <1>3, <1>5, <2>1
<1>6. CASE line = <<>> /\ todo # <<>> /\ Tail(todo) = <<>> /\ Head(todo).to \in BfAsked
  <2>1. Len(todo) = 1 /\ \A i \in DOMAIN todo : todo[i] = Head(todo)
    BY <1>2, <1>6, OneReply
  <2> QED BY <1>3, <1>6, <2>1
<1> QED BY <1>1, <1>4, <1>5, <1>6 DEF InLine

\* With device_mutex, a thread of the BitForce reads the reply to its own command unless a read was
\* given up; a part of a work is sent once, and the wait for a result never becomes zero.
THEOREM BitForceIsOrderly == BitForceSpec => [](BitForceTypeOK /\ InSync /\ PartsOnce /\ Sleeps)
<1>1. BfInv => BitForceTypeOK /\ InSync /\ PartsOnce /\ Sleeps
  <2> SUFFICES ASSUME BfInv PROVE BitForceTypeOK /\ InSync /\ PartsOnce /\ Sleeps
    OBVIOUS
  <2>1. Sleeps
    BY BfTyped DEF Sleeps
  <2> QED BY <2>1, BfInSync DEF BfInv, BfTypes, BfParts
<1> QED BY <1>1, BitForceInvariant, PTL

\* A nonce of the BitForce is submitted with the work the device found it for, unless a read was
\* given up.
THEOREM BitForceResults == BitForceSpec => NonceOfWork
<1>1. BfInv => [mine = "polled" /\ mine' = "next" /\ line # <<>> /\ Head(line).says = "NONCE"
                  /\ timeouts = 0 => Head(line).of = work]_bitforceVars
  BY DEF BfInv, BfSearch
<1> QED BY <1>1, BitForceInvariant, PTL DEF NonceOfWork

----------------------------------------------------------------------------

(***************************************************************************)
(* The Icarus and its works.                                               *)

IcByte == Int \X Int

\* Bytes as devices send them: of works up to the one that is going on, in order, and after
\* the last of them the device may send another nonce.
Stream(s, top, dev) ==
  /\ \A i \in 1..Len(s) : s[i][1] \in 0..top /\ s[i][2] \in 1..ICARUS_READ_SIZE
  /\ \A i \in 1..Len(s) - 1 : Follows(s[i], s[i + 1])
  /\ Len(s) > 0 => s[Len(s)][2] = ICARUS_READ_SIZE /\ (dev = -1 \/ s[Len(s)][1] <= dev)

\* What was taken for a nonce.
FromDevice ==
  /\ Len(nonce_bin) = ICARUS_READ_SIZE
  /\ \A i \in 1..ICARUS_READ_SIZE : nonce_bin[i][1] \in Nat
  /\ \A i \in 1..ICARUS_READ_SIZE - 1 : Follows(nonce_bin[i], nonce_bin[i + 1])

IcarusTypes ==
  /\ ica_pc \in {"detect", "golden", "next", "again", "read", "taken", "gone"}
  /\ tries \in 0..2 /\ ic_work \in 0..MaxIcWorks /\ ic_device \in -1..ic_work
  /\ wire \in Seq(IcByte) /\ ic_buffer \in Seq(IcByte) /\ nonce_bin \in Seq(IcByte)
  /\ Len(nonce_bin) <= ICARUS_READ_SIZE /\ passes \in 0..read_time /\ credit \in Int

IcarusInv ==
  /\ IcarusTypes /\ credit <= NonceRange
  /\ ica_pc \in {"detect", "golden"} => ic_work = 0
  /\ ica_pc \in {"read", "golden"} => passes < read_time
  /\ Stream(wire, ic_work, ic_device)
  /\ ica_pc = "read" => ic_buffer = <<>> /\ Stream(nonce_bin \o wire, ic_work, ic_device)
  /\ ica_pc = "taken" => FromDevice

LEMMA IcConstants ==
  /\ ICARUS_READ_SIZE \in Nat \ {0} /\ read_time \in Nat \ {0} /\ NonceRange \in Nat \ {0}
  /\ HashesPerPass \in Nat \ {0} /\ MaxIcWorks \in Nat \ {0}
  BY IcarusAssumption DEF IcarusAssumption

LEMMA StreamEmpty == \A top, dev : Stream(<<>>, top, dev)
  BY DEF Stream

LEMMA StreamSuffix ==
  ASSUME NEW s \in Seq(IcByte), NEW c \in 0..Len(s), NEW top, NEW dev, Stream(s, top, dev)
  PROVE  Stream(SubSeq(s, c + 1, Len(s)), top, dev)
<1> DEFINE n == Len(s)
           t == SubSeq(s, c + 1, Len(s))
<1>1. n \in Nat /\ c \in 0..n /\ Len(t) = n - c /\ \A i \in 1..n - c : t[i] = s[c + i]
  BY DropFirst
<1>2. /\ \A i \in 1..n : s[i][1] \in 0..top /\ s[i][2] \in 1..ICARUS_READ_SIZE
      /\ \A i \in 1..n - 1 : Follows(s[i], s[i + 1])
      /\ n > 0 => s[n][2] = ICARUS_READ_SIZE /\ (dev = -1 \/ s[n][1] <= dev)
  BY DEF Stream
<1> HIDE DEF n, t
<1>3. \A i \in 1..Len(t) : t[i][1] \in 0..top /\ t[i][2] \in 1..ICARUS_READ_SIZE
  <2> SUFFICES ASSUME NEW i \in 1..n - c PROVE t[i][1] \in 0..top /\ t[i][2] \in 1..ICARUS_READ_SIZE
    BY <1>1
  <2>1. c + i \in 1..n /\ t[i] = s[c + i]
    BY <1>1
  <2> QED BY <1>2, <2>1
<1>4. \A i \in 1..Len(t) - 1 : Follows(t[i], t[i + 1])
  <2> SUFFICES ASSUME NEW i \in 1..n - c - 1 PROVE Follows(t[i], t[i + 1])
    BY <1>1
  <2>1. i \in 1..n - c /\ i + 1 \in 1..n - c /\ c + i \in 1..n - 1 /\ c + (i + 1) = (c + i) + 1
    BY <1>1
  <2>2. t[i] = s[c + i] /\ t[i + 1] = s[(c + i) + 1]
    BY <1>1, <2>1
  <2> QED BY <1>2, <2>1, <2>2
<1>5. Len(t) > 0 => t[Len(t)][2] = ICARUS_READ_SIZE /\ (dev = -1 \/ t[Len(t)][1] <= dev)
  <2> SUFFICES ASSUME n - c > 0 PROVE t[n - c] = s[n] /\ n > 0
    BY <1>1, <1>2
  <2>1. n - c \in 1..n - c /\ c + (n - c) = n /\ n > 0
    BY <1>1
  <2> QED BY <1>1, <2>1
<1> QED BY <1>3, <1>4, <1>5 DEF Stream, t

LEMMA NonceBytes ==
  ASSUME NEW w \in Int
  PROVE  /\ NonceOf(w) \in Seq(IcByte) /\ Len(NonceOf(w)) = ICARUS_READ_SIZE
         /\ \A i \in 1..ICARUS_READ_SIZE : NonceOf(w)[i] = <<w, i>>
  BY IcConstants DEF NonceOf, IcByte

LEMMA StreamNonce ==
  ASSUME NEW s \in Seq(IcByte), NEW top \in Nat, NEW dev \in 0..top, NEW dev2 \in {dev, -1},
         Stream(s, top, dev)
  PROVE  s \o NonceOf(dev) \in Seq(IcByte) /\ Stream(s \o NonceOf(dev), top, dev2)
<1> DEFINE n == Len(s)
           R == ICARUS_READ_SIZE
           t == s \o NonceOf(dev)
<1>1. n \in Nat /\ R \in Nat \ {0} /\ dev \in Int
  BY IcConstants, LenProperties
<1>2. t \in Seq(IcByte) /\ Len(t) = n + R /\ \A i \in 1..n + R : t[i] = IF i <= n THEN s[i] ELSE <<dev, i - n>>
  <2> DEFINE u == NonceOf(dev)
  <2>1. u \in Seq(IcByte) /\ Len(u) = R /\ \A i \in 1..R : u[i] = <<dev, i>>
    BY <1>1, NonceBytes
  <2> HIDE DEF u
  <2>2. s \o u \in Seq(IcByte) /\ Len(s \o u) = n + Len(u)
        /\ \A i \in 1..n + Len(u) : (s \o u)[i] = IF i <= n THEN s[i] ELSE u[i - n]
    BY <2>1, ConcatProperties
  <2>3. \A i \in 1..n + R : ~(i <= n) => i - n \in 1..R
    BY <1>1
  <2>4. \A i \in 1..n + R : (s \o u)[i] = IF i <= n THEN s[i] ELSE <<dev, i - n>>
    <3> HIDE DEF n, R
    <3> QED BY <2>1, <2>2, <2>3
  <2> QED BY <2>1, <2>2, <2>4 DEF u
<1>3. /\ \A i \in 1..n : s[i][1] \in 0..top /\ s[i][2] \in 1..R
      /\ \A i \in 1..n - 1 : Follows(s[i], s[i + 1])
      /\ n > 0 => s[n][2] = R /\ (dev = -1 \/ s[n][1] <= dev)
  BY DEF Stream
<1> HIDE DEF n, R, t
<1>4. \A i \in 1..n + R : t[i][1] \in 0..top /\ t[i][2] \in 1..R
  <2> SUFFICES ASSUME NEW i \in 1..n + R PROVE t[i][1] \in 0..top /\ t[i][2] \in 1..R
    OBVIOUS
  <2>1. CASE i <= n
    <3>1. t[i] = s[i] /\ i \in 1..n
      BY <1>1, <1>2, <2>1
    <3> QED BY <1>3, <3>1
  <2>2. CASE ~(i <= n)
    <3>1. t[i] = <<dev, i - n>> /\ i - n \in 1..R
      BY <1>1, <1>2, <2>2
    <3> QED BY <3>1
  <2> QED BY <2>1, <2>2
<1>5. \A i \in 1..n + R - 1 : Follows(t[i], t[i + 1])
  <2> SUFFICES ASSUME NEW i \in 1..n + R - 1 PROVE Follows(t[i], t[i + 1])
    OBVIOUS
  <2>0. i \in 1..n + R /\ i + 1 \in 1..n + R
    BY <1>1
  <2>1. CASE i < n
    <3>1. t[i] = s[i] /\ t[i + 1] = s[i + 1] /\ i \in 1..n - 1
      BY <1>1, <1>2, <2>0, <2>1
    <3> QED BY <1>3, <3>1
  <2>2. CASE i = n
    <3>1. t[i] = s[n] /\ t[i + 1] = <<dev, 1>> /\ n > 0
      <4>1. ~(n + 1 <= n) /\ (n + 1) - n = 1
        BY <1>1
      <4> QED BY <1>1, <1>2, <2>0, <2>2, <4>1
    <3>2. dev >= s[n][1] /\ s[n][2] = R
      BY <1>1, <1>3, <3>1
    <3> QED BY <3>1, <3>2 DEF Follows, R
  <2>3. CASE i > n
    <3>1. t[i] = <<dev, i - n>> /\ t[i + 1] = <<dev, (i - n) + 1>>
      <4>1. (i + 1) - n = (i - n) + 1 /\ ~(i <= n) /\ ~(i + 1 <= n)
        BY <1>1, <2>3
      <4> QED BY <1>2, <2>0, <4>1
    <3> QED BY <3>1 DEF Follows
  <2> QED BY <1>1, <2>1, <2>2, <2>3
<1>6. t[n + R][2] = R /\ t[n + R][1] = dev
  <2>1. n + R \in 1..n + R /\ ~(n + R <= n) /\ (n + R) - n = R
    BY <1>1
  <2>2. t[n + R] = <<dev, R>>
    BY <1>2, <2>1
  <2> QED BY <2>2
<1>7. Stream(t, top, dev2)
  <2>1. dev2 = -1 \/ t[n + R][1] <= dev2
    BY <1>1, <1>6
  <2>2. Len(t) = n + R
    BY <1>2
  <2>3. \A i \in 1..Len(t) : t[i][1] \in 0..top /\ t[i][2] \in 1..R
    BY <1>4, <2>2, Zenon
  <2>4. \A i \in 1..Len(t) - 1 : Follows(t[i], t[i + 1])
    <3> SUFFICES ASSUME NEW i \in 1..Len(t) - 1 PROVE Follows(t[i], t[i + 1])
      OBVIOUS
    <3>1. i \in 1..n + R - 1
      BY <1>1, <2>2
    <3> QED BY <1>5, <3>1
  <2>5. t[Len(t)][2] = R /\ (dev2 = -1 \/ t[Len(t)][1] <= dev2)
    BY <1>6, <2>1, <2>2, Zenon
  <2> QED BY <2>3, <2>4, <2>5, Zenon DEF Stream, R
<1> QED BY <1>2, <1>7 DEF t

\* Whoever the device searches for next, its nonces go on from the stream.
LEMMA StreamTop ==
  ASSUME NEW s \in Seq(IcByte), NEW top \in Nat, NEW dev, Stream(s, top, dev),
         NEW top2 \in Nat, top <= top2, NEW dev2, dev2 \in {dev, -1} \/ dev2 = top2
  PROVE  Stream(s, top2, dev2)
<1> DEFINE n == Len(s)
<1>1. n \in Nat
  BY LenProperties
<1>2. \A i \in 1..n : s[i][1] \in 0..top /\ s[i][1] \in 0..top2
  BY DEF Stream
<1>3. n > 0 => s[n][1] <= top2
  <2>1. n > 0 => n \in 1..n
    BY <1>1
  <2> QED BY <1>2, <2>1
<1> QED BY <1>2, <1>3 DEF Stream

----------------------------------------------------------------------------
(* A read *)

LEMMA ReadFacts ==
  ASSUME IcarusInv, NEW n \in 0..Len(wire), Pass(n)
  PROVE  /\ wire' = SubSeq(wire, n + 1, Len(wire)) /\ wire' \in Seq(IcByte)
         /\ nonce_bin' \in Seq(IcByte) /\ ic_buffer' \in Seq(IcByte)
         /\ Len(nonce_bin') \in 0..ICARUS_READ_SIZE
         /\ passes' \in {passes, passes + 1}
         /\ ~Whole => ic_buffer' = <<>>
<1> DEFINE a == SubSeq(wire, 1, n)
           all == ic_buffer \o a
           got == IF Len(all) > Wanted THEN Wanted ELSE Len(all)
           h == SubSeq(all, 1, got)
<1>1. /\ wire \in Seq(IcByte) /\ ic_buffer \in Seq(IcByte) /\ nonce_bin \in Seq(IcByte)
      /\ Len(nonce_bin) <= ICARUS_READ_SIZE /\ Len(nonce_bin) \in Nat /\ Len(wire) \in Nat
      /\ ICARUS_READ_SIZE \in Nat
  BY IcConstants, LenProperties DEF IcarusInv, IcarusTypes
<1>2. /\ nonce_bin' = nonce_bin \o h /\ ic_buffer' = [i \in 1..(Len(all) - got) |-> NoByte]
      /\ wire' = SubSeq(wire, n + 1, Len(wire)) /\ passes' \in {passes, passes + 1}
  BY DEF Pass, usb_read
<1>3. n \in Nat /\ \A i \in 1..n : wire[i] \in IcByte
  BY <1>1
<1>4. a \in Seq(IcByte)
  BY <1>3, SubSeqProperties
<1> HIDE DEF a
<1>5. all \in Seq(IcByte) /\ Len(all) \in Nat
  BY <1>1, <1>4, ConcatProperties, LenProperties
<1> HIDE DEF all
<1> DEFINE m == Len(all)
           W == Wanted
<1>6. W = ICARUS_READ_SIZE - Len(nonce_bin) /\ W \in Nat
  BY <1>1 DEF Wanted
<1>7. got \in 0..m /\ got <= W /\ (got # W => got = m)
  <2>1. m \in Nat /\ W \in Nat /\ got = IF m > W THEN W ELSE m
    BY <1>5, <1>6
  <2> HIDE DEF m, W, got
  <2> QED BY <2>1
<1> HIDE DEF got
<1>8. got \in Nat /\ \A i \in 1..got : all[i] \in IcByte
  BY <1>5, <1>7
<1>9. h \in Seq(IcByte) /\ Len(h) = got
  BY <1>8, SubSeqProperties
<1> HIDE DEF h
<1>10. nonce_bin' \in Seq(IcByte) /\ Len(nonce_bin') = Len(nonce_bin) + got
  BY <1>1, <1>2, <1>9, ConcatProperties
<1>11. ic_buffer' \in Seq(IcByte)
  <2>1. NoByte \in IcByte /\ m - got \in Nat
    BY <1>5, <1>7 DEF NoByte, IcByte
  <2> QED BY <1>2, <2>1
<1>12. ~Whole => ic_buffer' = <<>>
  <2> SUFFICES ASSUME ~Whole PROVE ic_buffer' = <<>>
    OBVIOUS
  <2>1. got # W
    BY <1>1, <1>6, <1>10 DEF Whole
  <2>2. m - got = 0
    BY <1>5, <1>7, <2>1
  <2> QED BY <1>2, <2>2
<1>13. Len(nonce_bin') \in 0..ICARUS_READ_SIZE
  BY <1>1, <1>6, <1>7, <1>8, <1>10
<1>14. wire' \in Seq(IcByte)
  BY <1>1, <1>2, DropFirst
<1> QED BY <1>2, <1>10, <1>11, <1>12, <1>13, <1>14

LEMMA WireReadOn ==
  ASSUME IcarusInv, NEW n \in 0..Len(wire), Pass(n), UNCHANGED <<ic_work, ic_device>>
  PROVE  Stream(wire', ic_work', ic_device')
<1>1. wire \in Seq(IcByte) /\ Stream(wire, ic_work, ic_device)
  BY DEF IcarusInv, IcarusTypes
<1>2. wire' = SubSeq(wire, n + 1, Len(wire))
  BY ReadFacts
<1>3. Stream(wire', ic_work, ic_device)
  BY <1>1, <1>2, StreamSuffix
<1> QED BY <1>3

\* What a read of the stream, with nothing in the buffer, appends to the nonce.
LEMMA StreamRead ==
  ASSUME IcarusInv, ica_pc = "read", NEW n \in 0..Len(wire), Pass(n)
  PROVE  LET s == nonce_bin \o wire
         IN  /\ s \in Seq(IcByte) /\ Len(nonce_bin') <= Len(s)
             /\ \A i \in 1..Len(nonce_bin') : nonce_bin'[i] = s[i]
             /\ ~Whole => nonce_bin' \o wire' = s
<1> DEFINE s == nonce_bin \o wire
           all == ic_buffer \o SubSeq(wire, 1, n)
           got == IF Len(all) > Wanted THEN Wanted ELSE Len(all)
           h == SubSeq(all, 1, got)
           b == SubSeq(wire, n + 1, Len(wire))
<1>1. /\ wire \in Seq(IcByte) /\ ic_buffer = <<>> /\ nonce_bin \in Seq(IcByte)
      /\ Len(nonce_bin) <= ICARUS_READ_SIZE /\ Len(nonce_bin) \in Nat /\ Len(wire) \in Nat
      /\ ICARUS_READ_SIZE \in Nat
  BY IcConstants, LenProperties DEF IcarusInv, IcarusTypes
<1>2. nonce_bin' = nonce_bin \o h /\ wire' = b
  BY DEF Pass, usb_read
<1>3. n \in Nat /\ \A i \in 1..n : wire[i] \in IcByte
  BY <1>1
<1>4. all \in Seq(IcByte) /\ Len(all) = n /\ \A i \in 1..n : all[i] = wire[i]
  <2> DEFINE a == SubSeq(wire, 1, n)
  <2>1. /\ a \in Seq(IcByte) /\ Len(a) = (IF 1 <= n THEN n - 1 + 1 ELSE 0)
        /\ \A i \in 1..n - 1 + 1 : a[i] = wire[1 + i - 1]
    BY <1>3, SubSeqProperties
  <2>2. all = a
    BY <1>1, <2>1, ConcatEmptySeq
  <2>3. n - 1 + 1 = n /\ (\A i \in 1..n : 1 + i - 1 = i) /\ (~(1 <= n) => n = 0)
    BY <1>3
  <2> HIDE DEF a, all
  <2> QED BY <2>1, <2>2, <2>3
<1> HIDE DEF all
<1>5. got \in 0..n /\ Wanted = ICARUS_READ_SIZE - Len(nonce_bin) /\ (got # Wanted => got = n)
  <2> DEFINE W == Wanted
  <2>1. W = ICARUS_READ_SIZE - Len(nonce_bin) /\ W \in Nat /\ got = IF n > W THEN W ELSE n
    BY <1>1, <1>4 DEF Wanted
  <2> HIDE DEF W, got
  <2>2. got \in 0..n /\ (got # W => got = n)
    BY <1>3, <2>1
  <2> QED BY <2>1, <2>2 DEF W
<1> HIDE DEF got
<1>6. h \in Seq(IcByte) /\ Len(h) = got /\ \A i \in 1..got : h[i] = wire[i]
  <2>1. got \in Nat /\ \A i \in 1..got : all[i] \in IcByte /\ all[i] = wire[i]
    BY <1>3, <1>4, <1>5
  <2>2. /\ h \in Seq(IcByte) /\ Len(h) = (IF 1 <= got THEN got - 1 + 1 ELSE 0)
        /\ \A i \in 1..got - 1 + 1 : h[i] = all[1 + i - 1]
    BY <2>1, SubSeqProperties
  <2>3. got - 1 + 1 = got /\ (\A i \in 1..got : 1 + i - 1 = i) /\ (~(1 <= got) => got = 0)
    BY <2>1
  <2> HIDE DEF h
  <2> QED BY <2>1, <2>2, <2>3
<1> HIDE DEF h
<1> DEFINE k == Len(nonce_bin)
<1>7. /\ s \in Seq(IcByte) /\ Len(s) = k + Len(wire)
      /\ \A i \in 1..k + Len(wire) : s[i] = IF i <= k THEN nonce_bin[i] ELSE wire[i - k]
  BY <1>1, ConcatProperties
<1>8. /\ nonce_bin' \in Seq(IcByte) /\ Len(nonce_bin') = k + got
      /\ \A i \in 1..k + got : nonce_bin'[i] = IF i <= k THEN nonce_bin[i] ELSE h[i - k]
  <2>1. /\ nonce_bin \o h \in Seq(IcByte) /\ Len(nonce_bin \o h) = k + Len(h)
        /\ \A i \in 1..k + Len(h) : (nonce_bin \o h)[i] = IF i <= k THEN nonce_bin[i] ELSE h[i - k]
    BY <1>1, <1>6, ConcatProperties
  <2> QED BY <1>2, <1>6, <2>1
<1> HIDE DEF k, s
<1>9. k \in Nat /\ got \in Nat /\ got <= Len(wire)
  BY <1>1, <1>3, <1>5 DEF k
<1>10. Len(nonce_bin') <= Len(s) /\ \A i \in 1..Len(nonce_bin') : nonce_bin'[i] = s[i]
  <2>1. ASSUME NEW i \in 1..k + got PROVE nonce_bin'[i] = s[i]
    <3>1. i \in 1..k + Len(wire) /\ (~(i <= k) => i - k \in 1..got)
      BY <1>1, <1>9
    <3> QED BY <1>6, <1>7, <1>8, <3>1
  <2> QED BY <1>1, <1>7, <1>8, <1>9, <2>1
<1>11. ~Whole => nonce_bin' \o wire' = s
  <2> SUFFICES ASSUME ~Whole PROVE nonce_bin' \o wire' = s
    OBVIOUS
  <2>1. got = n
    BY <1>1, <1>5, <1>8, <1>9 DEF Whole, k
  <2>2. b \in Seq(IcByte) /\ Len(b) = Len(wire) - n /\ \A i \in 1..Len(wire) - n : b[i] = wire[n + i]
    BY <1>1, DropFirst
  <2> HIDE DEF b
  <2> DEFINE v == nonce_bin' \o b
             c == nonce_bin'
  <2>3. /\ v \in Seq(IcByte) /\ Len(v) = Len(c) + Len(b)
        /\ \A i \in 1..Len(c) + Len(b) : v[i] = IF i <= Len(c) THEN c[i] ELSE b[i - Len(c)]
    BY <1>8, <2>2, ConcatProperties
  <2>4. Len(c) = k + n /\ Len(c) + Len(b) = k + Len(wire)
    BY <1>1, <1>8, <1>9, <2>1, <2>2
  <2> HIDE DEF v, c
  <2>5. ASSUME NEW i \in 1..k + Len(wire) PROVE v[i] = s[i]
    <3>1. CASE i <= k + n
      <4>1. i \in 1..Len(c) /\ c[i] = s[i]
        BY <1>1, <1>9, <1>10, <2>1, <2>4, <3>1 DEF c
      <4> QED BY <2>3, <2>4, <3>1, <4>1
    <3>2. CASE ~(i <= k + n)
      <4>1. i - (k + n) \in 1..Len(wire) - n /\ n + (i - (k + n)) = i - k /\ ~(i <= k)
        BY <1>1, <1>3, <1>9, <3>2
      <4>2. v[i] = b[i - (k + n)]
        BY <2>3, <2>4, <3>2
      <4>3. b[i - (k + n)] = wire[i - k]
        BY <2>2, <4>1
      <4> QED BY <1>7, <4>1, <4>2, <4>3
    <3> QED BY <3>1, <3>2
  <2>6. v = s
    BY <1>7, <2>3, <2>4, <2>5, SeqEqual
  <2> QED BY <1>2, <2>6 DEF v
<1> QED BY <1>7, <1>10, <1>11 DEF s

----------------------------------------------------------------------------
(* The steps *)

LEMMA IcarusInitially == IcarusInit => IcarusInv
<1> SUFFICES ASSUME IcarusInit PROVE IcarusInv
  OBVIOUS
<1>1. IcarusTypes /\ 0 < read_time /\ 0 <= NonceRange
  BY IcConstants, EmptySeq DEF IcarusInit, IcarusTypes
<1> QED BY <1>1, StreamEmpty DEF IcarusInit, IcarusInv

\* What icarus_initialise leaves on the wire.
LEMMA Initialised ==
  ASSUME IcarusInv, icarus_initialise, NEW top \in Nat, ic_work <= top, NEW dev,
         dev \in {ic_device, -1} \/ dev = top
  PROVE  wire' \in Seq(IcByte) /\ Stream(wire', top, dev)
<1>1. wire \in Seq(IcByte) /\ Stream(wire, ic_work, ic_device) /\ ic_work \in Nat
  BY IcConstants DEF IcarusInv, IcarusTypes
<1>2. Stream(wire, top, dev)
  BY <1>1, StreamTop
<1> QED BY <1>1, <1>2, StreamEmpty, EmptySeq DEF icarus_initialise

LEMMA DeviceSteps1 == ASSUME IcarusInv, DeviceFinds \/ DeviceExhausts PROVE IcarusInv'
<1>1. /\ IcarusTypes /\ Stream(wire, ic_work, ic_device) /\ ic_work \in Nat /\ ic_device # -1
      /\ ic_device \in 0..ic_work
      /\ ica_pc = "read" => ic_buffer = <<>> /\ Stream(nonce_bin \o wire, ic_work, ic_device)
  BY IcConstants DEF IcarusInv, IcarusTypes, DeviceFinds, DeviceExhausts
<1>2. /\ UNCHANGED <<ica_pc, tries, ic_work, ic_buffer, nonce_bin, passes, credit, comms>>
      /\ ic_device' \in {ic_device, -1}
  BY DEF DeviceFinds, DeviceExhausts
<1>3. wire \in Seq(IcByte) /\ nonce_bin \in Seq(IcByte) /\ nonce_bin \o wire \in Seq(IcByte)
  BY <1>1, ConcatProperties DEF IcarusTypes
<1>4. CASE DeviceFinds
  <2> DEFINE u == NonceOf(ic_device)
  <2>1. wire' = wire \o u
    BY <1>4 DEF DeviceFinds
  <2>2. wire' \in Seq(IcByte) /\ Stream(wire', ic_work, ic_device')
    BY <1>1, <1>2, <1>3, <2>1, StreamNonce
  <2>3. ica_pc = "read" => Stream(nonce_bin \o wire', ic_work, ic_device')
    <3> SUFFICES ASSUME ica_pc = "read" PROVE Stream(nonce_bin \o wire', ic_work, ic_device')
      OBVIOUS
    <3>1. u \in Seq(IcByte)
      <4>1. ic_device \in Int
        BY <1>1
      <4> QED BY <4>1, NonceBytes
    <3>2. nonce_bin \o wire' = (nonce_bin \o wire) \o u
      <4> HIDE DEF u
      <4> QED BY <1>3, <2>1, <3>1, ConcatAssociative
    <3>3. Stream((nonce_bin \o wire) \o u, ic_work, ic_device')
      BY <1>1, <1>2, <1>3, StreamNonce
    <3> QED BY <3>2, <3>3
  <2>4. ic_device' \in -1..ic_work
    BY <1>1, <1>2
  <2> QED BY <1>1, <1>2, <2>2, <2>3, <2>4 DEF IcarusInv, IcarusTypes, FromDevice
<1>5. CASE DeviceExhausts
  <2>1. wire' = wire /\ ic_device' = -1
    BY <1>5 DEF DeviceExhausts
  <2>2. Stream(wire, ic_work, -1) /\ (ica_pc = "read" => Stream(nonce_bin \o wire, ic_work, -1))
    <3>1. ic_work <= ic_work /\ -1 \in {ic_device, -1}
      BY <1>1
    <3>2. \A s \in Seq(IcByte) : Stream(s, ic_work, ic_device) => Stream(s, ic_work, -1)
      BY <1>1, <3>1, StreamTop
    <3> QED BY <1>1, <1>3, <3>2
  <2>3. ic_device' \in -1..ic_work
    BY <1>1, <2>1
  <2> QED BY <1>1, <1>2, <2>1, <2>2, <2>3 DEF IcarusInv, IcarusTypes, FromDevice
<1> QED BY <1>4, <1>5

LEMMA DetectSteps2 == ASSUME IcarusInv, TestSent \/ GivesUp PROVE IcarusInv'
<1>1. IcarusTypes /\ ica_pc = "detect" /\ ic_work = 0 /\ credit <= NonceRange
  BY DEF IcarusInv, TestSent, GivesUp
<1>2. CASE TestSent
  <2>1. /\ tries > 0 /\ tries' = tries - 1 /\ icarus_initialise /\ nonce_bin' = <<>> /\ passes' = 0
        /\ \/ ica_pc' = "golden" /\ ic_device' = 0
           \/ ica_pc' = "detect" /\ UNCHANGED ic_device
        /\ UNCHANGED <<ic_work, ic_buffer, credit, comms>>
    BY <1>2 DEF TestSent, StartsReading
  <2>2. tries' \in 0..2
    BY <1>1, <2>1 DEF IcarusTypes
  <2>3. wire' \in Seq(IcByte) /\ Stream(wire', ic_work, ic_device')
    BY <1>1, <2>1, Initialised
  <2>4. nonce_bin' \in Seq(IcByte) /\ Len(nonce_bin') = 0
    BY <2>1, EmptySeq
  <2>5. ic_device' \in -1..ic_work'
    BY <1>1, <2>1 DEF IcarusTypes
  <2> QED BY <1>1, <2>1, <2>2, <2>3, <2>4, <2>5, IcConstants DEF IcarusInv, IcarusTypes
<1>3. CASE GivesUp
  BY <1>1, <1>3 DEF GivesUp, IcarusInv, IcarusTypes, Stream, Follows
<1> QED BY <1>2, <1>3

\* A work is sent, or sending it or reading failed.
LEMMA WorkSteps == ASSUME IcarusInv, IcSendWork \/ ReadFails PROVE IcarusInv'
<1>1. /\ IcarusTypes /\ ic_work \in Nat /\ credit <= NonceRange /\ Stream(wire, ic_work, ic_device)
      /\ wire \in Seq(IcByte)
  BY IcConstants DEF IcarusInv, IcarusTypes
<1>2. CASE IcSendWork
  <2>1. /\ ic_buffer' = <<>> /\ ic_work' \in {ic_work, ic_work + 1} /\ ic_work' <= MaxIcWorks
        /\ credit' = 0 /\ tries' = tries
        /\ \/ /\ ic_device' = ic_work' /\ ica_pc' = "read"
              /\ nonce_bin' = <<>> /\ passes' = 0 /\ wire' = wire
           \/ /\ icarus_initialise /\ ica_pc' = "again" /\ UNCHANGED <<ic_device, nonce_bin, passes>>
    BY <1>2 DEF IcSendWork, ClearsBuffer, StartsReading
  <2>2. ic_work' \in 0..MaxIcWorks /\ ic_work <= ic_work' /\ ic_work' \in Nat
    BY <1>1, <2>1, IcConstants
  <2>3. ic_device' \in -1..ic_work'
    BY <1>1, <2>1, <2>2 DEF IcarusTypes
  <2>4. ic_buffer' \in Seq(IcByte)
    BY <2>1, EmptySeq
  <2>5. CASE ica_pc' = "read"
    <3>1. ic_device' = ic_work' /\ nonce_bin' = <<>> /\ passes' = 0 /\ wire' = wire
      BY <2>1, <2>5
    <3>2. Stream(wire, ic_work', ic_device')
      <4>1. Stream(wire, ic_work, ic_device)
        BY <1>1
      <4> QED BY <1>1, <2>2, <3>1, <4>1, StreamTop
    <3>3. nonce_bin' \o wire' = wire
      BY <1>1, <3>1, ConcatEmptySeq
    <3>4. nonce_bin' \in Seq(IcByte) /\ Len(nonce_bin') = 0
      BY <3>1, EmptySeq
    <3> QED BY <1>1, <2>1, <2>2, <2>3, <2>4, <2>5, <3>1, <3>2, <3>3, <3>4, IcConstants DEF IcarusInv, IcarusTypes
  <2>6. CASE ica_pc' = "again"
    <3>1. icarus_initialise /\ UNCHANGED <<ic_device, nonce_bin, passes>>
      BY <2>1, <2>6
    <3>2. wire' \in Seq(IcByte) /\ Stream(wire', ic_work', ic_device')
      <4>1. ic_device' \in {ic_device, -1}
        BY <3>1
      <4> QED BY <2>2, <3>1, <4>1, Initialised
    <3> QED BY <1>1, <2>1, <2>2, <2>3, <2>4, <2>6, <3>1, <3>2, IcConstants DEF IcarusInv, IcarusTypes
  <2> QED BY <2>1, <2>5, <2>6
<1>3. CASE ReadFails
  <2>1. ica_pc' = "again" /\ UNCHANGED <<ic_work, ic_device, wire, nonce_bin, passes, credit, tries, ic_buffer>>
    BY <1>3 DEF ReadFails, others
  <2>2. Stream(wire', ic_work', ic_device')
    BY <1>1, <2>1
  <2> QED BY <1>1, <2>1, <2>2 DEF IcarusInv, IcarusTypes
<1> QED BY <1>2, <1>3

LEMMA NoNonceYet ==
  ASSUME IcarusInv, NEW n \in 0..Len(wire), KeepsReading(n) \/ Answered(n) \/ ReadEnds(n)
  PROVE  IcarusInv'
<1>1. /\ IcarusTypes /\ credit <= NonceRange /\ Pass(n) /\ ica_pc \in {"read", "golden"} /\ passes < read_time
      /\ UNCHANGED <<tries, ic_work, ic_device>>
  BY DEF IcarusInv, KeepsReading, Answered, ReadEnds
<1>2. /\ wire' \in Seq(IcByte) /\ nonce_bin' \in Seq(IcByte) /\ ic_buffer' \in Seq(IcByte)
      /\ Len(nonce_bin') \in 0..ICARUS_READ_SIZE /\ passes' \in {passes, passes + 1}
      /\ ~Whole => ic_buffer' = <<>>
  BY <1>1, ReadFacts
<1>3. Stream(wire', ic_work', ic_device')
  BY <1>1, WireReadOn
<1>4. passes' \in 0..read_time
  BY <1>1, <1>2, IcConstants DEF IcarusTypes
<1>5. Len(nonce_bin') <= ICARUS_READ_SIZE
  BY <1>2, IcConstants
<1>6. CASE KeepsReading(n)
  <2>1. passes' < read_time /\ UNCHANGED <<ica_pc, credit>> /\ ~Whole
    BY <1>1, <1>2, <1>6, IcConstants DEF KeepsReading, IcarusTypes
  <2>2. ica_pc = "read" => Stream(nonce_bin' \o wire', ic_work', ic_device')
    <3> SUFFICES ASSUME ica_pc = "read" PROVE Stream(nonce_bin' \o wire', ic_work', ic_device')
      OBVIOUS
    <3>1. nonce_bin' \o wire' = nonce_bin \o wire
      BY <1>1, <2>1, StreamRead
    <3>2. Stream(nonce_bin \o wire, ic_work, ic_device)
      BY DEF IcarusInv
    <3> QED BY <1>1, <3>1, <3>2
  <2> QED BY <1>1, <1>2, <1>3, <1>4, <1>5, <2>1, <2>2 DEF IcarusInv, IcarusTypes
<1>7. CASE Answered(n)
  <2>1. ica_pc' \in {"next", "detect"} /\ ica_pc = "golden" /\ UNCHANGED credit
    BY <1>7 DEF Answered
  <2> QED BY <1>1, <1>2, <1>3, <1>4, <1>5, <2>1 DEF IcarusInv, IcarusTypes
<1>8. CASE ReadEnds(n)
  <2>1. ica_pc' = "next" /\ credit' = Capped(passes' * HashesPerPass)
    BY <1>8 DEF ReadEnds
  <2>2. credit' \in Int /\ credit' <= NonceRange
    <3> DEFINE h == passes' * HashesPerPass
    <3>1. h \in Int
      BY <1>4, IcConstants
    <3> HIDE DEF h
    <3> QED BY <2>1, <3>1, IcConstants DEF Capped, h
  <2> QED BY <1>1, <1>2, <1>3, <1>4, <1>5, <2>1, <2>2 DEF IcarusInv, IcarusTypes
<1> QED BY <1>6, <1>7, <1>8

LEMMA NonceTaken == ASSUME IcarusInv, NEW n \in 0..Len(wire), TakesNonce(n) PROVE IcarusInv'
<1>1. /\ IcarusTypes /\ credit <= NonceRange /\ Pass(n) /\ ica_pc = "read" /\ passes < read_time
      /\ ica_pc' = "taken" /\ Len(nonce_bin') = ICARUS_READ_SIZE
      /\ UNCHANGED <<tries, ic_work, ic_device, credit>>
  BY DEF IcarusInv, TakesNonce, Whole
<1>2. /\ wire' \in Seq(IcByte) /\ nonce_bin' \in Seq(IcByte) /\ ic_buffer' \in Seq(IcByte)
      /\ passes' \in {passes, passes + 1}
  BY <1>1, ReadFacts
<1>3. Stream(wire', ic_work', ic_device')
  BY <1>1, WireReadOn
<1>4. passes' \in 0..read_time
  BY <1>1, <1>2, IcConstants DEF IcarusTypes
<1> DEFINE s == nonce_bin \o wire
           R == ICARUS_READ_SIZE
<1>5. /\ R \in Nat /\ R <= Len(s) /\ Len(s) \in Nat /\ \A i \in 1..R : nonce_bin'[i] = s[i]
  <2>1. s \in Seq(IcByte) /\ Len(nonce_bin') <= Len(s) /\ \A i \in 1..Len(nonce_bin') : nonce_bin'[i] = s[i]
    BY <1>1, StreamRead
  <2> QED BY <1>1, <2>1, IcConstants, LenProperties
<1>6. /\ \A i \in 1..Len(s) : s[i][1] \in 0..ic_work
      /\ \A i \in 1..Len(s) - 1 : Follows(s[i], s[i + 1])
  BY <1>1 DEF IcarusInv, Stream
<1> HIDE DEF s, R
<1>7. \A i \in 1..R : nonce_bin'[i][1] \in Nat
  <2> SUFFICES ASSUME NEW i \in 1..R PROVE nonce_bin'[i][1] \in Nat
    OBVIOUS
  <2>1. i \in 1..Len(s) /\ nonce_bin'[i] = s[i]
    BY <1>5
  <2>2. s[i][1] \in 0..ic_work
    BY <1>6, <2>1
  <2> QED BY <1>1, <2>1, <2>2, IcConstants DEF IcarusTypes
<1>8. \A i \in 1..R - 1 : Follows(nonce_bin'[i], nonce_bin'[i + 1])
  <2> SUFFICES ASSUME NEW i \in 1..R - 1 PROVE Follows(nonce_bin'[i], nonce_bin'[i + 1])
    OBVIOUS
  <2>1. i \in 1..R /\ i + 1 \in 1..R /\ i \in 1..Len(s) - 1
    BY <1>5
  <2> QED BY <1>5, <1>6, <2>1
<1>9. FromDevice'
  BY <1>1, <1>7, <1>8 DEF FromDevice, R, Follows
<1> QED BY <1>1, <1>2, <1>3, <1>4, <1>5, <1>9 DEF IcarusInv, IcarusTypes, R

LEMMA IcarusSteps == IcarusInv /\ [IcarusNext]_icarusVars => IcarusInv'
<1> SUFFICES ASSUME IcarusInv, [IcarusNext]_icarusVars PROVE IcarusInv'
  OBVIOUS
<1>1. CASE Credit
  <2>1. credit' \in Int /\ credit' <= NonceRange
    BY <1>1, IcConstants DEF Credit
  <2>2. ica_pc' = "next" /\ UNCHANGED <<ic_work, ic_device, wire, nonce_bin, passes, comms, tries, ic_buffer>>
    BY <1>1 DEF Credit, others
  <2>3. Stream(wire', ic_work', ic_device')
    BY <2>2 DEF IcarusInv
  <2> QED BY <2>1, <2>2, <2>3 DEF IcarusInv, IcarusTypes
<1>2. CASE UNCHANGED icarusVars
  <2>1. UNCHANGED <<ica_pc, tries, ic_work, ic_device, wire, ic_buffer, nonce_bin, passes, credit, comms>>
    BY <1>2 DEF icarusVars
  <2>2. Stream(wire', ic_work', ic_device') /\ (ica_pc = "read" => Stream(nonce_bin' \o wire', ic_work', ic_device'))
    BY <2>1 DEF IcarusInv
  <2> QED BY <2>1, <2>2 DEF IcarusInv, IcarusTypes, FromDevice
<1> QED BY <1>1, <1>2, DeviceSteps1, DetectSteps2, WorkSteps, NoNonceYet, NonceTaken DEF IcarusNext

----------------------------------------------------------------------------

LEMMA IcarusKeeps == IcarusInv => IcarusTypeOK /\ BytesOfDevice /\ CreditInRange
<1> SUFFICES ASSUME IcarusInv PROVE IcarusTypeOK /\ BytesOfDevice /\ CreditInRange
  OBVIOUS
<1>1. IcarusTypeOK /\ CreditInRange
  <2>1. ic_device \in -1..MaxIcWorks
    BY IcConstants DEF IcarusInv, IcarusTypes
  <2> QED BY <2>1 DEF IcarusInv, IcarusTypes, IcarusTypeOK, CreditInRange
<1>2. BytesOfDevice
  <2> SUFFICES ASSUME ica_pc = "taken", NEW i \in 1..ICARUS_READ_SIZE PROVE nonce_bin[i] # NoByte
    BY DEF BytesOfDevice, IcarusInv, FromDevice
  <2>1. nonce_bin[i][1] \in Nat
    BY DEF IcarusInv, FromDevice
  <2> QED BY <2>1 DEF NoByte
<1> QED BY <1>1, <1>2

LEMMA NonceIsOwn == IcarusInv => OwnNonce
<1> SUFFICES ASSUME IcarusInv, ica_pc = "taken", nonce_bin[1] = <<ic_work, 1>> PROVE nonce_bin = NonceOf(ic_work)
  BY DEF OwnNonce
<1> DEFINE R == ICARUS_READ_SIZE
           w == ic_work
           T == {i \in 1..R : nonce_bin[i] # <<w, i>>}
<1>1. /\ R \in Nat \ {0} /\ w \in Int /\ nonce_bin \in Seq(IcByte) /\ Len(nonce_bin) = R
      /\ \A i \in 1..R - 1 : Follows(nonce_bin[i], nonce_bin[i + 1])
  BY IcConstants DEF IcarusInv, IcarusTypes, FromDevice
<1>2. T = {}
  <2> SUFFICES ASSUME T # {} PROVE FALSE
    OBVIOUS
  <2>1. T \in SUBSET Nat
    BY <1>1
  <2>2. PICK x \in T : \A y \in T : x <= y
    <3> HIDE DEF T
    <3> QED BY <2>1, LeastNat
  <2>3. x \in 1..R /\ nonce_bin[x] # <<w, x>> /\ x # 1
    OBVIOUS
  <2>4. x - 1 \in 1..R - 1 /\ x - 1 \in 1..R /\ (x - 1) + 1 = x /\ x - 1 # R /\ ~(x <= x - 1)
    BY <1>1, <2>3
  <2>5. nonce_bin[x - 1] = <<w, x - 1>>
    BY <2>2, <2>4
  <2>6. Follows(nonce_bin[x - 1], nonce_bin[x])
    BY <1>1, <2>4
  <2> QED BY <2>3, <2>4, <2>5, <2>6 DEF Follows
<1>3. \A i \in 1..R : nonce_bin[i] = <<w, i>>
  BY <1>2
<1>4. /\ NonceOf(w) \in Seq(IcByte) /\ Len(NonceOf(w)) = R /\ \A i \in 1..R : NonceOf(w)[i] = <<w, i>>
  BY <1>1, NonceBytes
<1> HIDE DEF R, w
<1>5. nonce_bin = NonceOf(w)
  BY <1>1, <1>3, <1>4, SeqEqual
<1> QED BY <1>5 DEF w

\* What icarus_get_nonce takes for a nonce are bytes the device sent one after the other, one that
\* begins with the work that is going on is that work's, and no work is credited with more hashes
\* than it has nonces.
THEOREM IcarusIsOrderly == IcarusSpec => [](IcarusTypeOK /\ BytesOfDevice /\ OwnNonce /\ CreditInRange)
<1>1. IcarusInv => IcarusTypeOK /\ BytesOfDevice /\ OwnNonce /\ CreditInRange
  BY IcarusKeeps, NonceIsOwn
<1> QED BY <1>1, IcarusInitially, IcarusSteps, PTL DEF IcarusSpec

----------------------------------------------------------------------------
----------------------------------------------------------------------------
(* Sums over finite sets: MapThenSumSet takes the elements in an order of  *)
(* its own, and the sum does not depend on it.                             *)

SumFrom(F, v, s) ==
  IF s = {} THEN 0 ELSE v[CHOOSE x \in s : TRUE] + F[s \ {CHOOSE x \in s : TRUE}]

IsSum(F, S, v) == F = [s \in SUBSET S |-> SumFrom(F, v, s)]

LEMMA SetTaken ==
  ASSUME NEW S, IsFiniteSet(S), NEW s \in SUBSET S, NEW x \in s
  PROVE  /\ Cardinality(s) \in Nat /\ s \ {x} \in SUBSET S
         /\ Cardinality(s \ {x}) \in Nat /\ Cardinality(s \ {x}) = Cardinality(s) - 1
<1>1. IsFiniteSet(s)
  BY FS_Subset
<1>2. IsFiniteSet(s \ {x}) /\ Cardinality(s \ {x}) = Cardinality(s) - 1
  BY <1>1, FS_RemoveElement
<1> QED BY <1>1, <1>2, FS_CardinalityType

LEMMA ChosenIn == ASSUME NEW s, s # {} PROVE (CHOOSE x \in s : TRUE) \in s
  OBVIOUS

\* There is such a function, built for ever larger sets.
LEMMA SumExists ==
  ASSUME NEW S, IsFiniteSet(S), NEW v \in [S -> Int]
  PROVE  \E F \in [SUBSET S -> Int] : IsSum(F, S, v)
<1> DEFINE Up(F, n) == \A s \in SUBSET S : Cardinality(s) <= n => F[s] = SumFrom(F, v, s)
           Bad == {n \in Nat : ~ \E F \in [SUBSET S -> Int] : Up(F, n)}
<1>1. \A s \in SUBSET S : IsFiniteSet(s) /\ Cardinality(s) \in Nat
  BY FS_Subset, FS_CardinalityType
<1>2. Bad = {}
  <2> SUFFICES ASSUME Bad # {} PROVE FALSE
    OBVIOUS
  <2>1. PICK n \in Bad : \A m \in Bad : n <= m
    <3>1. Bad \in SUBSET Nat
      OBVIOUS
    <3> HIDE DEF Bad
    <3> QED BY <3>1, LeastNat
  <2>2. n \in Nat /\ ~ \E F \in [SUBSET S -> Int] : Up(F, n)
    BY <2>1
  <2>3. n # 0
    <3> SUFFICES ASSUME n = 0 PROVE FALSE
      OBVIOUS
    <3> DEFINE F == [s \in SUBSET S |-> 0]
    <3>1. \A s \in SUBSET S : Cardinality(s) <= 0 => s = {}
      BY <1>1, FS_EmptySet
    <3>2. F \in [SUBSET S -> Int] /\ Up(F, 0)
      BY <3>1 DEF SumFrom
    <3> QED BY <2>2, <3>2
  <2>4. n - 1 \in Nat /\ n - 1 \notin Bad
    <3>1. n - 1 \in Nat /\ ~(n <= n - 1)
      BY <2>2, <2>3
    <3> QED BY <2>1, <3>1
  <2>5. PICK F \in [SUBSET S -> Int] : Up(F, n - 1)
    BY <2>4
  <2> DEFINE G == [s \in SUBSET S |-> IF Cardinality(s) <= n - 1 THEN F[s] ELSE SumFrom(F, v, s)]
  <2>6. ASSUME NEW s \in SUBSET S, s # {}
        PROVE  /\ s \ {CHOOSE x \in s : TRUE} \in SUBSET S /\ v[CHOOSE x \in s : TRUE] \in Int
               /\ Cardinality(s) <= n => Cardinality(s \ {CHOOSE x \in s : TRUE}) <= n - 1
    <3> DEFINE c == CHOOSE x \in s : TRUE
    <3>1. c \in s
      BY <2>6, ChosenIn
    <3> HIDE DEF c
    <3>2. Cardinality(s) \in Nat /\ Cardinality(s \ {c}) = Cardinality(s) - 1 /\ s \ {c} \in SUBSET S
      BY <3>1, SetTaken
    <3>3. v[c] \in Int
      BY <3>1
    <3> QED BY <2>2, <3>2, <3>3 DEF c
  <2>7. \A s \in SUBSET S : SumFrom(F, v, s) \in Int
    <3> SUFFICES ASSUME NEW s \in SUBSET S PROVE SumFrom(F, v, s) \in Int
      OBVIOUS
    <3>1. CASE s = {}
      BY <3>1 DEF SumFrom
    <3>2. CASE s # {}
      <4> DEFINE c == CHOOSE x \in s : TRUE
      <4>1. v[c] \in Int /\ F[s \ {c}] \in Int
        BY <2>5, <2>6, <3>2
      <4>2. SumFrom(F, v, s) = v[c] + F[s \ {c}]
        BY <3>2 DEF SumFrom
      <4> HIDE DEF c
      <4> QED BY <4>1, <4>2
    <3> QED BY <3>1, <3>2
  <2>8. G \in [SUBSET S -> Int]
    BY <2>5, <2>7
  <2>9. \A s \in SUBSET S : Cardinality(s) <= n => SumFrom(G, v, s) = SumFrom(F, v, s)
    BY <2>6 DEF SumFrom
  <2>10. Up(G, n)
    <3> SUFFICES ASSUME NEW s \in SUBSET S, Cardinality(s) <= n PROVE G[s] = SumFrom(F, v, s)
      BY <2>9
    <3> QED BY <2>5
  <2> QED BY <2>2, <2>8, <2>10
<1>3. Cardinality(S) \in Nat
  BY FS_CardinalityType
<1>4. PICK F \in [SUBSET S -> Int] : Up(F, Cardinality(S))
  BY <1>2, <1>3
<1>5. \A s \in SUBSET S : F[s] = SumFrom(F, v, s)
  BY <1>4, FS_Subset
<1> QED BY <1>4, <1>5 DEF IsSum

LEMMA SumTypes ==
  ASSUME NEW S, IsFiniteSet(S), NEW v \in [S -> Int], NEW F, IsSum(F, S, v)
  PROVE  /\ \A s \in SUBSET S : F[s] \in Int /\ F[s] = SumFrom(F, v, s)
<1>1. \A s \in SUBSET S : F[s] = SumFrom(F, v, s)
  BY DEF IsSum
<1> DEFINE Bad == {n \in Nat : \E s \in SUBSET S : Cardinality(s) = n /\ F[s] \notin Int}
<1>2. Bad = {}
  <2> SUFFICES ASSUME Bad # {} PROVE FALSE
    OBVIOUS
  <2>1. PICK n \in Bad : \A m \in Bad : n <= m
    <3>1. Bad \in SUBSET Nat
      OBVIOUS
    <3> HIDE DEF Bad
    <3> QED BY <3>1, LeastNat
  <2>2. PICK s \in SUBSET S : Cardinality(s) = n /\ F[s] \notin Int
    BY <2>1
  <2>3. s # {}
    BY <1>1, <2>2 DEF SumFrom
  <2> DEFINE c == CHOOSE x \in s : TRUE
  <2>4. c \in s
    BY <2>3, ChosenIn
  <2>5. F[s] = v[c] + F[s \ {c}]
    BY <1>1, <2>3 DEF SumFrom
  <2> HIDE DEF c
  <2>6. Cardinality(s \ {c}) \in Nat /\ Cardinality(s \ {c}) = n - 1 /\ s \ {c} \in SUBSET S
    BY <2>2, <2>4, SetTaken
  <2>7. F[s \ {c}] \in Int
    <3>1. Cardinality(s \ {c}) \notin Bad
      BY <2>1, <2>6
    <3> QED BY <2>6, <3>1
  <2>8. v[c] \in Int
    BY <2>4
  <2> QED BY <2>2, <2>5, <2>7, <2>8
<1>3. \A s \in SUBSET S : Cardinality(s) \in Nat
  BY FS_Subset, FS_CardinalityType
<1> QED BY <1>1, <1>2, <1>3

\* Any element may be taken first.
LEMMA SumTakes ==
  ASSUME NEW S, IsFiniteSet(S), NEW v \in [S -> Int], NEW F, IsSum(F, S, v)
  PROVE  \A s \in SUBSET S : \A y \in s : F[s] = v[y] + F[s \ {y}]
<1> DEFINE Bad == {n \in Nat : \E s \in SUBSET S : Cardinality(s) = n /\ \E y \in s : F[s] # v[y] + F[s \ {y}]}
<1>1. Bad = {}
  <2> SUFFICES ASSUME Bad # {} PROVE FALSE
    OBVIOUS
  <2>1. PICK n \in Bad : \A m \in Bad : n <= m
    <3>1. Bad \in SUBSET Nat
      OBVIOUS
    <3> HIDE DEF Bad
    <3> QED BY <3>1, LeastNat
  <2>2. PICK s \in SUBSET S : Cardinality(s) = n /\ \E y \in s : F[s] # v[y] + F[s \ {y}]
    BY <2>1
  <2>3. PICK y \in s : F[s] # v[y] + F[s \ {y}]
    BY <2>2
  <2> DEFINE c == CHOOSE x \in s : TRUE
  <2>4. c \in s
    BY <2>3, ChosenIn
  <2>5. F[s] = v[c] + F[s \ {c}]
    <3>1. F[s] = SumFrom(F, v, s) /\ s # {}
      BY <2>3, SumTypes
    <3> QED BY <3>1 DEF SumFrom
  <2> HIDE DEF c
  <2>6. c # y
    BY <2>3, <2>5
  <2> DEFINE s1 == s \ {c}
             s2 == s \ {y}
  <2>7. /\ Cardinality(s1) \in Nat /\ Cardinality(s1) = n - 1 /\ s1 \in SUBSET S
        /\ Cardinality(s2) \in Nat /\ Cardinality(s2) = n - 1 /\ s2 \in SUBSET S
    BY <2>2, <2>3, <2>4, SetTaken
  <2>8. y \in s1 /\ c \in s2 /\ s1 \ {y} = s2 \ {c} /\ s1 \ {y} \in SUBSET S
    BY <2>3, <2>4, <2>6
  <2> HIDE DEF s1, s2
  <2>9. F[s1] = v[y] + F[s1 \ {y}] /\ F[s2] = v[c] + F[s2 \ {c}]
    <3>1. n - 1 \notin Bad
      BY <2>1, <2>7
    <3> QED BY <2>7, <2>8, <3>1
  <2>10. F[s1 \ {y}] \in Int /\ v[y] \in Int /\ v[c] \in Int
    BY <2>3, <2>4, <2>8, SumTypes
  <2>11. F[s] = v[c] + F[s1] /\ F[s] # v[y] + F[s2]
    BY <2>3, <2>5 DEF s1, s2
  <2> DEFINE r == F[s1 \ {y}]
  <2>12. F[s1] = v[y] + r /\ F[s2] = v[c] + r /\ r \in Int
    BY <2>8, <2>9, <2>10
  <2> HIDE DEF r
  <2> QED BY <2>10, <2>11, <2>12
<1>2. \A s \in SUBSET S : Cardinality(s) \in Nat
  BY FS_Subset, FS_CardinalityType
<1> QED BY <1>1, <1>2

\* Sums over sets whose elements correspond are equal.
Matching(b, v, w, S) == \A x \in S : w[b[x]] = v[x]

LEMMA SumsEqual ==
  ASSUME NEW S, IsFiniteSet(S), NEW v \in [S -> Int], NEW F, IsSum(F, S, v),
         NEW T, IsFiniteSet(T), NEW w \in [T -> Int], NEW G, IsSum(G, T, w),
         NEW b \in Bijection(S, T), Matching(b, v, w, S)
  PROVE  F[S] = G[T]
<1> DEFINE Image(s) == {b[x] : x \in s}
           Bad == {n \in Nat : \E s \in SUBSET S : Cardinality(s) = n /\ F[s] # G[Image(s)]}
<1>1. /\ \A x \in S : b[x] \in T
      /\ \A x, y \in S : b[x] = b[y] => x = y
      /\ \A z \in T : \E x \in S : b[x] = z
  BY DEF Bijection, Injection, Surjection, IsInjective
<1>2. Bad = {}
  <2> SUFFICES ASSUME Bad # {} PROVE FALSE
    OBVIOUS
  <2>1. PICK n \in Bad : \A m \in Bad : n <= m
    <3>1. Bad \in SUBSET Nat
      OBVIOUS
    <3> HIDE DEF Bad
    <3> QED BY <3>1, LeastNat
  <2>2. PICK s \in SUBSET S : Cardinality(s) = n /\ F[s] # G[Image(s)]
    BY <2>1
  <2>3. s # {}
    <3> SUFFICES ASSUME s = {} PROVE FALSE
      OBVIOUS
    <3>1. Image(s) = {} /\ F[{}] = SumFrom(F, v, {}) /\ G[{}] = SumFrom(G, w, {})
      BY SumTypes
    <3>2. F[s] = F[{}] /\ G[Image(s)] = G[{}]
      BY <3>1
    <3> QED BY <2>2, <3>1, <3>2 DEF SumFrom
  <2>4. PICK c \in s : TRUE
    BY <2>3
  <2>5. F[s] = v[c] + F[s \ {c}]
    BY SumTakes
  <2>6. b[c] \in Image(s) /\ Image(s) \in SUBSET T /\ Image(s \ {c}) = Image(s) \ {b[c]}
    BY <1>1
  <2> HIDE DEF Image
  <2>7. G[Image(s)] = w[b[c]] + G[Image(s) \ {b[c]}]
    BY <2>6, SumTakes
  <2>8. Cardinality(s \ {c}) \in Nat /\ Cardinality(s \ {c}) = n - 1 /\ s \ {c} \in SUBSET S
    BY <2>2, SetTaken
  <2>9. F[s \ {c}] = G[Image(s \ {c})]
    <3>1. n - 1 \notin Bad
      BY <2>1, <2>8
    <3> QED BY <2>8, <3>1
  <2>10. w[b[c]] = v[c]
    BY DEF Matching
  <2> QED BY <2>2, <2>5, <2>6, <2>7, <2>9, <2>10
<1>3. Cardinality(S) \in Nat /\ Image(S) = T
  BY <1>1, FS_CardinalityType
<1>4. F[S] = G[Image(S)]
  <2> HIDE DEF Image
  <2> QED BY <1>2, <1>3
<1> QED BY <1>3, <1>4

----------------------------------------------------------------------------
(* How long the Icarus searches.                                           *)

LEMMA TimingConstants ==
  /\ Nonces \in Nat \ {0} /\ Nonces % 8 = 0 /\ INFO_HISTORY \in Nat \ {0} /\ MIN_DATA_COUNT \in Nat \ {0}
  /\ MAX_MIN_DATA_COUNT \in Nat \ {0} /\ Found \subseteq Nat /\ Offsets \subseteq Nat
  /\ OptionItems \subseteq Seq([division : Nat, fpgas : Nat]) \ {<<>>}
  /\ TimingItems \subseteq Seq([mode : {"default", "short", "long", "value"}, time : Nat]) \ {<<>>}
  BY IcarusTimingAssumption DEF IcarusTimingAssumption

Divisions == {1, 2, 4, 8}
DataSet == [values : Nat, least : Nat, most : Nat]

TimingTypes ==
  /\ TimingTypeOK /\ sets \in Seq(DataSet) /\ history \in [0..INFO_HISTORY -> DataSet]
  /\ options.division \in Divisions /\ options.fpgas \in 0..options.division

\* The sets of the history are the last ones, the newest first.
HistoryOf(h, s) ==
  \A i \in 1..INFO_HISTORY : h[i] = IF i <= Len(s) THEN s[Len(s) + 1 - i] ELSE NoData

\* Every set an estimate was made from was large enough for it.
SetsLarge ==
  /\ min_data_count >= MIN_DATA_COUNT
  /\ sets # <<>> => min_data_count >= 2 * MIN_DATA_COUNT \/ min_data_count >= MAX_MIN_DATA_COUNT
  /\ \A i \in DOMAIN sets :
       /\ sets[i].values >= MIN_DATA_COUNT
       /\ i # 1 => sets[i].values >= 2 * MIN_DATA_COUNT \/ sets[i].values >= MAX_MIN_DATA_COUNT
  /\ tm_mode = "short" /\ ~do_icarus_timing => min_data_count >= MAX_MIN_DATA_COUNT

\* The summary of the last sets, with the sum of their values as a function gives it.
LastOf(s) == {i \in DOMAIN s : i > Len(s) - INFO_HISTORY}
SumOf(F, S, g) == F = [s \in SUBSET S |-> IF s = {} THEN 0 ELSE
                          g[CHOOSE x \in s : TRUE].values + F[s \ {CHOOSE x \in s : TRUE}]]
ValuesOf(g, S) == (CHOOSE F : SumOf(F, S, g))[S]
SummaryFits(sm, s) ==
  s # <<>> =>
    /\ sm.count = Cardinality(LastOf(s)) /\ sm.values = ValuesOf(s, LastOf(s))
    /\ sm.range = Max({s[i].most : i \in LastOf(s)}) - Min({s[i].least : i \in LastOf(s)})

TimingInv == TimingTypes /\ HistoryOf(history, sets) /\ SetsLarge /\ SummaryFits(summary, sets)

LEMMA OfLast == SummaryFits(summary, sets) => SummaryOfLast
  BY DEF SummaryFits, SummaryOfLast, LastOf, LastSets, ValuesOf, SumOf, MapThenSumSet, MapThenFoldSet

LEMMA TimingInitially == TimingInit => TimingInv
<1> SUFFICES ASSUME TimingInit PROVE TimingInv
  OBVIOUS
<1>1. INFO_HISTORY \in Nat \ {0} /\ MIN_DATA_COUNT \in Nat \ {0}
  BY TimingConstants
<1>2. NoData \in DataSet /\ sets = <<>> /\ sets \in Seq(DataSet) /\ Len(sets) = 0
  BY EmptySeq DEF TimingInit, NoData, DataSet
<1>3. history = [i \in 0..INFO_HISTORY |-> NoData]
  BY DEF TimingInit
<1>4. HistoryOf(history, sets)
  BY <1>1, <1>2, <1>3 DEF HistoryOf
<1>5. TimingTypes
  <2>1. TimingTypeOK
    <3>1. do_icarus_timing = FALSE /\ min_data_count = MIN_DATA_COUNT /\ tm_mode = "none"
      BY DEF TimingInit
    <3> QED BY <1>1, <1>3, <3>1 DEF TimingTypeOK
  <2>2. options.division \in Divisions /\ options.fpgas \in 0..options.division
    BY DEF TimingInit, Divisions
  <2>3. history \in [0..INFO_HISTORY -> DataSet]
    BY <1>2, <1>3
  <2> QED BY <1>2, <2>1, <2>2, <2>3 DEF TimingTypes
<1>6. SetsLarge
  <2>1. DOMAIN sets = {}
    BY <1>2
  <2> QED BY <1>1, <1>2, <2>1 DEF SetsLarge, TimingInit
<1> QED BY <1>2, <1>4, <1>5, <1>6 DEF TimingInv, SummaryFits

----------------------------------------------------------------------------
(* The summary is that of the last sets.                                   *)

LEMMA ValuesSum ==
  ASSUME NEW S, IsFiniteSet(S), NEW g, \A i \in S : g[i].values \in Int
  PROVE  \E F : IsSum(F, S, [i \in S |-> g[i].values]) /\ ValuesOf(g, S) = F[S]
<1> DEFINE v == [i \in S |-> g[i].values]
<1>1. v \in [S -> Int]
  OBVIOUS
<1>2. \A F, s : s \in SUBSET S =>
        SumFrom(F, v, s) = IF s = {} THEN 0 ELSE g[CHOOSE x \in s : TRUE].values + F[s \ {CHOOSE x \in s : TRUE}]
  <2> SUFFICES ASSUME NEW F, NEW s \in SUBSET S, s # {}
               PROVE  SumFrom(F, v, s) = g[CHOOSE x \in s : TRUE].values + F[s \ {CHOOSE x \in s : TRUE}]
    BY DEF SumFrom
  <2>1. v[CHOOSE x \in s : TRUE] = g[CHOOSE x \in s : TRUE].values
    BY ChosenIn
  <2> QED BY <2>1 DEF SumFrom
<1> HIDE DEF v
<1>3. \A F : IsSum(F, S, v) <=> SumOf(F, S, g)
  BY <1>2 DEF IsSum, SumOf
<1>4. PICK F : SumOf(F, S, g)
  BY <1>1, <1>3, SumExists
<1>5. \E G : SumOf(G, S, g) /\ ValuesOf(g, S) = G[S]
  BY <1>4 DEF ValuesOf
<1> QED BY <1>3, <1>5 DEF v

\* The same measurements at other places.
Rearranged(b, S, T, g, k) ==
  b \in Bijection(S, T) /\ (\A j \in T : k[j].values \in Int) /\ \A i \in S : k[b[i]] = g[i]

LEMMA ValuesEqual ==
  ASSUME NEW S, NEW T, IsFiniteSet(S), IsFiniteSet(T), NEW g, NEW k, NEW b, Rearranged(b, S, T, g, k)
  PROVE  ValuesOf(g, S) = ValuesOf(k, T)
<1> USE DEF Rearranged
<1> DEFINE v == [i \in S |-> g[i].values]
           w == [j \in T |-> k[j].values]
<1>1. \A i \in S : b[i] \in T
  BY DEF Bijection, Injection
<1>2. \A i \in S : g[i].values \in Int
  <2> SUFFICES ASSUME NEW i \in S PROVE g[i].values \in Int
    OBVIOUS
  <2>1. k[b[i]].values \in Int /\ k[b[i]] = g[i]
    BY <1>1
  <2> QED BY <2>1
<1>3. v \in [S -> Int] /\ w \in [T -> Int]
  BY <1>2
<1>4. Matching(b, v, w, S)
  BY <1>1 DEF Matching
<1>5. PICK F : IsSum(F, S, v) /\ ValuesOf(g, S) = F[S]
  BY <1>2, ValuesSum
<1>6. PICK G : IsSum(G, T, w) /\ ValuesOf(k, T) = G[T]
  BY ValuesSum
<1> HIDE DEF v, w
<1>7. IsSum(F, S, v) /\ IsSum(G, T, w)
  BY <1>5, <1>6
<1>8. F[S] = G[T]
  BY <1>3, <1>4, <1>7, SumsEqual
<1> QED BY <1>5, <1>6, <1>8

LEMMA SummaryIs ==
  ASSUME NEW s \in Seq(DataSet), NEW h \in [0..INFO_HISTORY -> DataSet], HistoryOf(h, s), s # <<>>,
         \A i \in DOMAIN s : s[i].values >= MIN_DATA_COUNT
  PROVE  SummaryFits(Summary(h), s)
<1> DEFINE full == {i \in 1..INFO_HISTORY : h[i].values >= MIN_DATA_COUNT}
           last == LastOf(s)
           n == Len(s)
           b == [i \in full |-> n + 1 - i]
<1>1. INFO_HISTORY \in Nat \ {0} /\ MIN_DATA_COUNT \in Nat \ {0} /\ n \in Nat /\ DOMAIN s = 1..n
  BY TimingConstants
<1>2. \A i \in 1..n : s[i] \in DataSet /\ s[i].values \in Nat
  <2>1. \A x \in DataSet : x.values \in Nat
    BY DEF DataSet
  <2>2. \A i \in 1..n : s[i] \in DataSet
    BY <1>1
  <2> QED BY <2>1, <2>2
<1>3. full = {i \in 1..INFO_HISTORY : i <= n}
  <2>1. ASSUME NEW i \in 1..INFO_HISTORY PROVE h[i].values >= MIN_DATA_COUNT <=> i <= n
    <3>1. CASE i <= n
      <4>1. h[i] = s[n + 1 - i] /\ n + 1 - i \in 1..n
        BY <1>1, <3>1 DEF HistoryOf
      <4> QED BY <1>1, <3>1, <4>1
    <3>2. CASE ~(i <= n)
      <4>1. h[i] = NoData
        BY <3>2 DEF HistoryOf
      <4> QED BY <1>1, <3>2, <4>1 DEF NoData
    <3> QED BY <3>1, <3>2
  <2> QED BY <2>1
<1>4. last = {i \in 1..n : i > n - INFO_HISTORY}
  BY <1>1 DEF LastOf
<1>5. \A i \in full : h[i] = s[n + 1 - i] /\ n + 1 - i \in last /\ i \in Nat
  BY <1>1, <1>3, <1>4 DEF HistoryOf
<1>6. \A j \in last : n + 1 - j \in full /\ n + 1 - (n + 1 - j) = j
  BY <1>1, <1>3, <1>4
<1>7. IsFiniteSet(full) /\ IsFiniteSet(last)
  <2>1. IsFiniteSet(1..INFO_HISTORY) /\ IsFiniteSet(1..n)
    BY <1>1, FS_Interval
  <2> QED BY <1>4, <2>1, FS_Subset
<1> HIDE DEF full, last
<1>8. b \in Bijection(full, last)
  <2>1. b \in [full -> last]
    BY <1>5
  <2>2. \A x, y \in full : b[x] = b[y] => x = y
    BY <1>1, <1>5
  <2>3. \A j \in last : \E x \in full : b[x] = j
    BY <1>6
  <2> QED BY <2>1, <2>2, <2>3 DEF Bijection, Injection, Surjection, IsInjective
<1>9. Cardinality(full) = Cardinality(last)
  BY <1>7, <1>8, FS_Bijection DEF ExistsBijection
<1>10. ValuesOf(h, full) = ValuesOf(s, last)
  <2>1. \A j \in last : s[j].values \in Int
    BY <1>2, <1>4
  <2>2. \A i \in full : s[b[i]] = h[i]
    BY <1>5
  <2> HIDE DEF b
  <2>3. Rearranged(b, full, last, h, s)
    BY <1>8, <2>1, <2>2 DEF Rearranged
  <2> QED BY <1>7, <2>3, ValuesEqual
<1>11. /\ {h[i].most : i \in full} = {s[i].most : i \in last}
       /\ {h[i].least : i \in full} = {s[i].least : i \in last}
  <2>1. \A j \in last : \E i \in full : h[i] = s[j]
    BY <1>5, <1>6
  <2>2. \A i \in full : \E j \in last : h[i] = s[j]
    BY <1>5
  <2> QED BY <2>1, <2>2
<1> DEFINE range == Max({h[i].most : i \in full}) - Min({h[i].least : i \in full})
<1>12. range = Max({s[i].most : i \in last}) - Min({s[i].least : i \in last})
  BY <1>11
<1>13. Summary(h) = [count |-> Cardinality(full), values |-> ValuesOf(h, full), range |-> range]
  BY DEF Summary, full, ValuesOf, SumOf, MapThenSumSet, MapThenFoldSet
<1> HIDE DEF range
<1> QED BY <1>9, <1>10, <1>12, <1>13 DEF SummaryFits, last

----------------------------------------------------------------------------
(* The steps                                                               *)

LEMMA LeastOfTwo ==
  ASSUME NEW a \in Int, NEW c \in Int
  PROVE  Min({a, c}) \in Int /\ Min({a, c}) <= a /\ Min({a, c}) <= c /\ Min({a, c}) \in {a, c}
<1>1. \E x \in {a, c} : \A y \in {a, c} : x =< y
  <2>1. CASE a <= c
    BY <2>1
  <2>2. CASE c <= a
    BY <2>2
  <2> QED BY <2>1, <2>2
<1>2. Min({a, c}) \in {a, c} /\ \A y \in {a, c} : Min({a, c}) =< y
  BY <1>1 DEF Min
<1> QED BY <1>2

LEMMA OptionsTaken ==
  ASSUME NEW item \in [division : Nat, fpgas : Nat], NEW ident, ~Wrong(item, ident)
  PROVE  /\ get_options(item, ident).division \in Divisions
         /\ get_options(item, ident).fpgas \in 0..get_options(item, ident).division
<1>1. item.division \in {0, 1, 2, 4, 8} /\ item.fpgas \in 0..get_options(item, ident).division
  BY DEF Wrong
<1>2. Own(ident).division \in {1, 2} /\ Own(ident).fpgas = Own(ident).division
  BY DEF Own
<1>3. get_options(item, ident).division = IF item.division = 0 THEN Own(ident).division ELSE item.division
  BY DEF get_options
<1>4. get_options(item, ident).fpgas =
        IF item.fpgas # 0 THEN item.fpgas
        ELSE IF item.division = 0 THEN Own(ident).fpgas ELSE get_options(item, ident).division
  BY DEF get_options
<1> HIDE DEF get_options
<1>5. get_options(item, ident).division \in Divisions
  BY <1>1, <1>2, <1>3 DEF Divisions
<1>6. get_options(item, ident).division \in 0..get_options(item, ident).division
  BY <1>5 DEF Divisions
<1> QED BY <1>1, <1>2, <1>3, <1>4, <1>5, <1>6

LEMMA ItemTaken ==
  ASSUME NEW S, NEW items \in Seq(S) \ {<<>>}, NEW offset \in Nat
  PROVE  Item(items, offset) \in S
<1>1. Len(items) \in Nat \ {0}
  BY EmptySeq
<1> QED BY <1>1 DEF Item

LEMMA SetUpStep == ASSUME TimingInv, NEW ident, NEW offset \in Offsets, SetUp(ident, offset) PROVE TimingInv'
<1>1. tm_mode = "none" /\ UNCHANGED <<history, min_data_count, summary, sets, clock0>>
  BY DEF SetUp
<1>2. PICK opts \in OptionItems, times \in TimingItems :
        LET o == Item(opts, offset)
            t == Item(times, offset)
        IN  IF Wrong(o, ident)
            THEN tm_mode' = "quit" /\ UNCHANGED <<options, tm_read_time, do_icarus_timing>>
            ELSE /\ options' = get_options(o, ident)
                 /\ tm_mode' = t.mode
                 /\ \E calculated \in ReadTimes : tm_read_time' = FirstReadTime(t, calculated)
                 /\ do_icarus_timing' = (t.mode \in {"short", "long"})
  BY DEF SetUp
<1> DEFINE o == Item(opts, offset)
           t == Item(times, offset)
<1>3. o \in [division : Nat, fpgas : Nat] /\ t \in [mode : {"default", "short", "long", "value"}, time : Nat]
  BY TimingConstants, ItemTaken
<1>4. \/ tm_mode' = "quit" /\ UNCHANGED <<options, do_icarus_timing>>
      \/ /\ ~Wrong(o, ident) /\ options' = get_options(o, ident) /\ tm_mode' = t.mode
         /\ do_icarus_timing' = (t.mode \in {"short", "long"})
  BY <1>2
<1> HIDE DEF o, t
<1>5. options'.division \in Divisions /\ options'.fpgas \in 0..options'.division
  BY <1>3, <1>4, OptionsTaken DEF TimingInv, TimingTypes
<1>6. tm_mode' \in {"none", "quit", "default", "short", "long", "value"} /\ do_icarus_timing' \in BOOLEAN
  <2>1. do_icarus_timing \in BOOLEAN
    BY DEF TimingInv, TimingTypes, TimingTypeOK
  <2>2. do_icarus_timing' \in BOOLEAN
    <3>1. (t.mode \in {"short", "long"}) \in BOOLEAN
      OBVIOUS
    <3> QED BY <1>4, <2>1, <3>1
  <2>3. tm_mode' \in {"none", "quit", "default", "short", "long", "value"}
    BY <1>3, <1>4
  <2> QED BY <2>2, <2>3
<1>7. TimingTypes'
  BY <1>1, <1>5, <1>6 DEF TimingInv, TimingTypes, TimingTypeOK
<1>8. tm_mode' = "short" => do_icarus_timing'
  BY <1>4
<1>9. SetsLarge'
  BY <1>1, <1>8 DEF TimingInv, SetsLarge
<1> QED BY <1>1, <1>7, <1>9 DEF TimingInv, HistoryOf

LEMMA HashCountType == ASSUME TimingInv, NEW nonce \in Nat PROVE HashCount(nonce) \in Nat
<1> DEFINE m == mask + 1
<1>1. m \in Nat \ {0}
  <2>1. Nonces \in Nat \ {0} /\ Nonces % 8 = 0 /\ options.division \in {1, 2, 4, 8}
    BY TimingConstants DEF TimingInv, TimingTypes, Divisions
  <2> QED BY <2>1 DEF mask
<1> DEFINE r == nonce % m
<1>2. r \in Nat
  <2> HIDE DEF m
  <2> QED BY <1>1
<1>3. HashCount(nonce) = (r + 1) * options.fpgas
  BY DEF HashCount
<1>4. options.fpgas \in 0..8
  BY DEF TimingInv, TimingTypes, Divisions
<1> HIDE DEF r
<1> QED BY <1>2, <1>3, <1>4

LEMMA WithType == ASSUME NEW set \in DataSet, NEW n \in Nat PROVE With(set, n) \in DataSet
  BY DEF With, DataSet

LEMMA NonceFoundStep == ASSUME TimingInv, NEW nonce \in Found, NEW t, NonceFound(nonce, t) PROVE TimingInv'
<1> DEFINE set == With(history[0], HashCount(nonce))
<1>1. set \in DataSet
  <2>1. 0 \in 0..INFO_HISTORY
    BY TimingConstants
  <2>2. history[0] \in DataSet
    BY <2>1 DEF TimingInv, TimingTypes
  <2> QED BY <2>2, HashCountType, WithType, TimingConstants
<1>2. UNCHANGED <<tm_mode, options>> /\ tm_mode \notin {"none", "quit"}
  BY DEF NonceFound
<1>3. \/ set.values >= min_data_count /\ Reestimate(set)
      \/ /\ history' = [history EXCEPT ![0] = set]
         /\ UNCHANGED <<tm_read_time, do_icarus_timing, min_data_count, summary, sets>>
  BY DEF NonceFound
<1> HIDE DEF set
<1>4. sets \in Seq(DataSet) /\ Len(sets) \in Nat /\ INFO_HISTORY \in Nat \ {0} /\ history \in [0..INFO_HISTORY -> DataSet]
  BY TimingConstants DEF TimingInv, TimingTypes
<1>5. CASE /\ history' = [history EXCEPT ![0] = set]
           /\ UNCHANGED <<tm_read_time, do_icarus_timing, min_data_count, summary, sets>>
  <2>1. history' \in [0..INFO_HISTORY -> DataSet] /\ \A i \in 1..INFO_HISTORY : history'[i] = history[i]
    BY <1>1, <1>4, <1>5
  <2>2. TimingTypes'
    BY <1>2, <1>5, <2>1 DEF TimingInv, TimingTypes, TimingTypeOK
  <2>3. HistoryOf(history, sets)'
    BY <1>5, <2>1 DEF TimingInv, HistoryOf
  <2>4. SetsLarge' /\ SummaryFits(summary', sets')
    BY <1>2, <1>5 DEF TimingInv, SetsLarge
  <2> QED BY <2>2, <2>3, <2>4 DEF TimingInv
<1>6. CASE set.values >= min_data_count /\ Reestimate(set)
  <2> DEFINE n == Len(sets)
  <2>1. /\ history' = Shifted(history, set) /\ summary' = Summary(history') /\ sets' = Append(sets, set)
        /\ IF min_data_count < MAX_MIN_DATA_COUNT
           THEN min_data_count' = min_data_count * 2 /\ UNCHANGED do_icarus_timing
           ELSE /\ do_icarus_timing' = (do_icarus_timing /\ tm_mode # "short")
                /\ UNCHANGED min_data_count
    BY <1>6 DEF Reestimate
  <2>2. /\ min_data_count \in Nat /\ min_data_count >= MIN_DATA_COUNT /\ do_icarus_timing \in BOOLEAN
        /\ MIN_DATA_COUNT \in Nat \ {0} /\ MAX_MIN_DATA_COUNT \in Nat \ {0} /\ set.values \in Nat
    BY <1>1, TimingConstants DEF TimingInv, TimingTypes, TimingTypeOK, SetsLarge, DataSet
  <2>3. /\ sets' \in Seq(DataSet) /\ Len(sets') = n + 1 /\ sets' # <<>> /\ DOMAIN sets' = 1..n + 1
        /\ sets'[n + 1] = set /\ \A i \in 1..n : sets'[i] = sets[i]
    <3>1. sets' \in Seq(DataSet) /\ Len(sets') = n + 1 /\ sets'[n + 1] = set /\ \A i \in 1..n : sets'[i] = sets[i]
      BY <1>1, <1>4, <2>1
    <3>2. DOMAIN sets' = 1..n + 1
      BY <3>1
    <3>3. sets' # <<>>
      BY <1>4, <3>1, EmptySeq
    <3> QED BY <3>1, <3>2, <3>3
  <2>4. history' \in [0..INFO_HISTORY -> DataSet]
    <3>1. ASSUME NEW i \in 0..INFO_HISTORY, i # 0, i # 1 PROVE history[i - 1] \in DataSet
      BY <1>4, <3>1
    <3>2. NoData \in DataSet
      BY DEF NoData, DataSet
    <3> QED BY <1>1, <2>1, <3>1, <3>2 DEF Shifted
  <2>5. HistoryOf(history, sets)'
    <3> SUFFICES ASSUME NEW i \in 1..INFO_HISTORY
                 PROVE  history'[i] = IF i <= Len(sets') THEN sets'[Len(sets') + 1 - i] ELSE NoData
      BY DEF HistoryOf
    <3>1. CASE i = 1
      <4>1. history'[i] = set
        BY <1>4, <2>1, <3>1 DEF Shifted
      <4>2. i <= Len(sets') /\ Len(sets') + 1 - i = n + 1
        BY <1>4, <2>3, <3>1
      <4> QED BY <2>3, <4>1, <4>2
    <3>2. CASE i # 1
      <4>1. i - 1 \in 1..INFO_HISTORY /\ i \in 0..INFO_HISTORY /\ i # 0
        BY <1>4, <3>2
      <4>2. history'[i] = history[i - 1]
        BY <1>4, <2>1, <3>2, <4>1 DEF Shifted
      <4>3. history[i - 1] = IF i - 1 <= n THEN sets[n + 1 - (i - 1)] ELSE NoData
        BY <4>1 DEF TimingInv, HistoryOf
      <4>4. /\ Len(sets') + 1 - i = n + 1 - (i - 1) /\ (i - 1 <= n <=> i <= Len(sets'))
            /\ i - 1 <= n => n + 1 - (i - 1) \in 1..n
        BY <1>4, <2>3, <4>1
      <4> QED BY <2>3, <4>2, <4>3, <4>4
    <3> QED BY <3>1, <3>2
  <2>6. TimingTypes'
    <3>1. min_data_count' \in Nat
      BY <2>1, <2>2
    <3>2. do_icarus_timing' \in BOOLEAN
      BY <2>1, <2>2
    <3>3. DOMAIN history' = 0..INFO_HISTORY
      BY <2>4
    <3> QED BY <1>2, <2>3, <2>4, <3>1, <3>2, <3>3 DEF TimingInv, TimingTypes, TimingTypeOK
  <2>7. SetsLarge'
    <3>1. /\ min_data_count' >= MIN_DATA_COUNT
          /\ min_data_count' >= 2 * MIN_DATA_COUNT \/ min_data_count' >= MAX_MIN_DATA_COUNT
      BY <2>1, <2>2
    <3>2. tm_mode' = "short" /\ ~do_icarus_timing' => min_data_count' >= MAX_MIN_DATA_COUNT
      <4>1. tm_mode = "short" /\ ~do_icarus_timing => min_data_count >= MAX_MIN_DATA_COUNT
        BY DEF TimingInv, SetsLarge
      <4>2. CASE min_data_count < MAX_MIN_DATA_COUNT
        <5>1. do_icarus_timing' = do_icarus_timing
          BY <2>1, <4>2
        <5>2. ~(min_data_count >= MAX_MIN_DATA_COUNT)
          BY <2>2, <4>2
        <5> QED BY <1>2, <4>1, <5>1, <5>2
      <4>3. CASE ~(min_data_count < MAX_MIN_DATA_COUNT)
        BY <2>1, <2>2, <4>3
      <4> QED BY <4>2, <4>3
    <3>3. ASSUME NEW i \in DOMAIN sets'
          PROVE  /\ sets'[i].values >= MIN_DATA_COUNT
                 /\ i # 1 => sets'[i].values >= 2 * MIN_DATA_COUNT \/ sets'[i].values >= MAX_MIN_DATA_COUNT
      <4>1. CASE i \in 1..n
        <5>1. sets'[i] = sets[i] /\ i \in DOMAIN sets
          BY <1>4, <2>3, <4>1
        <5> QED BY <5>1 DEF TimingInv, SetsLarge
      <4>2. CASE i = n + 1
        <5>1. sets'[i] = set
          BY <2>3, <4>2
        <5>2. set.values >= MIN_DATA_COUNT
          BY <1>6, <2>2
        <5>3. i # 1 => min_data_count >= 2 * MIN_DATA_COUNT \/ min_data_count >= MAX_MIN_DATA_COUNT
          <6>1. i # 1 => sets # <<>>
            BY <1>4, <4>2
          <6> QED BY <6>1 DEF TimingInv, SetsLarge
        <5> QED BY <1>6, <2>2, <5>1, <5>2, <5>3
      <4> QED BY <1>4, <2>3, <4>1, <4>2
    <3> QED BY <3>1, <3>2, <3>3 DEF SetsLarge
  <2>8. SummaryFits(summary', sets')
    <3>1. \A i \in DOMAIN sets' : sets'[i].values >= MIN_DATA_COUNT
      BY <2>7 DEF SetsLarge
    <3>2. HistoryOf(history', sets')
      BY <2>5 DEF HistoryOf
    <3> QED BY <2>1, <2>3, <2>4, <3>1, <3>2, SummaryIs
  <2> QED BY <2>5, <2>6, <2>7, <2>8 DEF TimingInv
<1> QED BY <1>3, <1>5, <1>6

LEMMA TimingInvStep == ASSUME TimingInv, [TimingNext]_timingVars PROVE TimingInv'
<1>1. CASE UNCHANGED timingVars
  BY <1>1 DEF timingVars, measured, TimingInv, TimingTypes, TimingTypeOK, HistoryOf, SetsLarge
<1>2. CASE TimingNext
  BY <1>2, SetUpStep, NonceFoundStep DEF TimingNext
<1> QED BY <1>1, <1>2

LEMMA TimingInvariant == TimingSpec => []TimingInv
<1> QED BY TimingInitially, TimingInvStep, PTL DEF TimingSpec

----------------------------------------------------------------------------
(* What the invariant says.                                                *)

LEMMA TimingCounts == ASSUME TimingInv PROVE CountsInRange
<1> SUFFICES ASSUME NEW nonce \in 0..(Nonces - 1) PROVE HashCount(nonce) <= Nonces
  BY DEF CountsInRange
<1> DEFINE d == options.division
           f == options.fpgas
           m == mask + 1
<1>1. Nonces \in Nat \ {0} /\ Nonces % 8 = 0 /\ d \in {1, 2, 4, 8} /\ f \in 0..d
  BY TimingConstants DEF TimingInv, TimingTypes, Divisions
<1>2. m \in Nat \ {0} /\ m = Nonces \div d
  BY <1>1 DEF mask
<1>3. \/ (d = 1 /\ m = Nonces) \/ (d = 2 /\ 2 * m <= Nonces) \/ (d = 4 /\ 4 * m <= Nonces)
      \/ (d = 8 /\ 8 * m <= Nonces)
  <2> HIDE DEF m
  <2> QED BY <1>1, <1>2
<1> DEFINE r == nonce % m
<1>4. r \in Nat /\ r + 1 <= m
  <2> HIDE DEF m
  <2> QED BY <1>1, <1>2
<1>5. HashCount(nonce) = (r + 1) * f
  BY DEF HashCount
<1> HIDE DEF d, f, m, r
<1>6. \/ f = 0 \/ f = 1 \/ (f = 2 /\ d # 1) \/ (f \in {3, 4} /\ d \in {4, 8}) \/ (f \in {5, 6, 7, 8} /\ d = 8)
  BY <1>1
<1> QED BY <1>1, <1>2, <1>3, <1>4, <1>5, <1>6

LEMMA TimingGrows == ASSUME TimingInv PROVE SetsGrow
<1>1. MIN_DATA_COUNT \in Nat \ {0} /\ MAX_MIN_DATA_COUNT \in Nat \ {0} /\ 2 * MIN_DATA_COUNT \in Int
  BY TimingConstants
<1> DEFINE two == Min({2 * MIN_DATA_COUNT, MAX_MIN_DATA_COUNT})
<1>2. two \in Int /\ two <= 2 * MIN_DATA_COUNT /\ two <= MAX_MIN_DATA_COUNT
  BY <1>1, LeastOfTwo
<1> HIDE DEF two
<1>3. ASSUME NEW i \in DOMAIN sets PROVE sets[i].values >= IF i = 1 THEN MIN_DATA_COUNT ELSE two
  <2>1. sets[i].values \in Nat
    <3>1. sets \in Seq(DataSet)
      BY DEF TimingInv, TimingTypes
    <3>2. sets[i] \in DataSet
      BY <3>1
    <3> QED BY <3>2 DEF DataSet
  <2>2. sets[i].values >= MIN_DATA_COUNT
        /\ (i # 1 => sets[i].values >= 2 * MIN_DATA_COUNT \/ sets[i].values >= MAX_MIN_DATA_COUNT)
    BY DEF TimingInv, SetsLarge
  <2> QED BY <1>1, <1>2, <2>1, <2>2
<1> QED BY <1>3 DEF two, SetsGrow, TimingInv, SetsLarge

\* Nothing but a new estimate changes read_time, once the mode is set.
LEMMA ShortStep ==
  ASSUME TimingInv, [TimingNext]_timingVars, tm_mode = "short", min_data_count >= MAX_MIN_DATA_COUNT,
         tm_read_time' # tm_read_time
  PROVE  ~do_icarus_timing'
<1>1. PICK nonce \in Found, t \in 0..MaxClock0 : NonceFound(nonce, t)
  BY DEF TimingNext, timingVars, measured, SetUp
<1>2. \E set : Reestimate(set)
  BY <1>1 DEF NonceFound
<1>3. ~(min_data_count < MAX_MIN_DATA_COUNT)
  BY TimingConstants DEF TimingInv, TimingTypes, TimingTypeOK
<1> QED BY <1>2, <1>3 DEF Reestimate

\* icarus_scanhash: the summary is that of the last sets of measurements, each of which was large
\* enough for its turn; the hashes reported are no more than there are nonces, and mode short changes
\* its time no more once it has enough of them.
THEOREM TimesAreMeasured ==
  TimingSpec => /\ [](TimingTypeOK /\ SummaryOfLast /\ SetsGrow /\ CountsInRange)
                /\ ShortSettles
<1>1. TimingInv => TimingTypeOK /\ SummaryOfLast /\ SetsGrow /\ CountsInRange
  BY TimingCounts, TimingGrows, OfLast DEF TimingInv, TimingTypes
<1>2. TimingInv /\ [TimingNext]_timingVars =>
        [tm_mode = "short" /\ min_data_count >= MAX_MIN_DATA_COUNT /\ tm_read_time' # tm_read_time
           => ~do_icarus_timing']_timingVars
  BY ShortStep
<1> QED BY <1>1, <1>2, TimingInvariant, PTL DEF TimingSpec, ShortSettles
----------------------------------------------------------------------------
(* The drivers together: each says its part of what is required of all.    *)

\* hash_queued_work's BFLSC, and the parts and hashes of scanhash's drivers: what is handed out and
\* done is counted once, with every interleaving of the drivers.
THEOREM WorkIsCounted == DriversSpec => []WorkCounted
BY QueueIsCounted, BitForceIsOrderly, IcarusIsOrderly, TimesAreMeasured, PTL DEF DriversSpec, WorkCounted

\* modminer_mutex, the BitForce's device_mutex and the Icarus's usb_buffer_clear: who asks a device
\* something reads the reply to it and no other.
THEOREM RepliesAreOwn == DriversSpec => []OwnReplies
BY BoardIsOrderly, BitForceIsOrderly, IcarusIsOrderly, PTL DEF DriversSpec, OwnReplies

\* avalon_fill, avalon_parse_results and bitforce_get_result: the work of a result is kept until the
\* result has come, and no result is lost on its way.
THEOREM ResultsAreKept == DriversSpec => ResultsKept
BY AvSentIsKept, AvStreamIsKept, BitForceResults, PTL DEF DriversSpec, ResultsKept

\* modminer_delta_clock, icarus_scanhash's history and the BitForce's sleep_ms: what the drivers tune
\* changes only with what they have measured.
THEOREM TuningIsJustified == DriversSpec => TunedOnEvidence
BY ClockIsEarned, TimesAreMeasured, BitForceIsOrderly, PTL DEF DriversSpec, TunedOnEvidence

=============================================================================
