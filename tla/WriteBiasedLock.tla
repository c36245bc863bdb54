--------------------------- MODULE WriteBiasedLock ---------------------------
(***************************************************************************)
(* What miner.h promises of a cglock, "a write biased variant of rwlocks"  *)
(* (miner.h:799): a lock with three modes.  Readers share it; one thread   *)
(* at a time may hold the intermediate mode, which lets the readers that   *)
(* are already inside finish but admits no new one, and which becomes a    *)
(* read lock (downgrade) or a write lock (upgrade) without letting a       *)
(* writer in between.  A thread that has begun to acquire the write lock   *)
(* is "pending": from then on no reader enters.                            *)
(***************************************************************************)
CONSTANT Thread

VARIABLE holds   \* holds[t]: the mode thread t has the lock in

Mode == {"none", "read", "inter", "pending", "write"}

Exclusive == {"inter", "pending", "write"}

\* No thread but the ones of S is in an exclusive mode.
NoExclusiveBut(S) == \A u \in Thread \ S : holds[u] \notin Exclusive

NoReader == \A u \in Thread : holds[u] # "read"

Init == holds = [t \in Thread |-> "none"]

AcquireRead(t) ==
    /\ holds[t] = "none"
    /\ NoExclusiveBut({})
    /\ holds' = [holds EXCEPT ![t] = "read"]

AcquireInter(t) ==
    /\ holds[t] = "none"
    /\ NoExclusiveBut({})
    /\ holds' = [holds EXCEPT ![t] = "inter"]

\* A writer is pending as soon as no other thread can get in before it.
BeginWrite(t) ==
    /\ holds[t] \in {"none", "inter"}
    /\ NoExclusiveBut({t})
    /\ holds' = [holds EXCEPT ![t] = "pending"]

EnterWrite(t) ==
    /\ holds[t] = "pending"
    /\ NoReader
    /\ holds' = [holds EXCEPT ![t] = "write"]

Downgrade(t) ==
    /\ holds[t] = "inter"
    /\ holds' = [holds EXCEPT ![t] = "read"]

Release(t) ==
    /\ holds[t] \in {"read", "write"}
    /\ holds' = [holds EXCEPT ![t] = "none"]

Next ==
    \E t \in Thread :
        \/ AcquireRead(t)
        \/ AcquireInter(t)
        \/ BeginWrite(t)
        \/ EnterWrite(t)
        \/ Downgrade(t)
        \/ Release(t)

Spec == Init /\ [][Next]_holds
=============================================================================
