---------------------------- MODULE SharesProofs ----------------------------
(***************************************************************************)
(* Proofs about StratumShares, for any shares and any numbers of sessions  *)
(* and connections; about SubmitWork, for any works and any number of      *)
(* handles; about FreshWork, for any miners; and about StratumClient, for  *)
(* any kinds of messages and any size of what recv takes.                  *)
(*                                                                         *)
(* That a stratum share's work is freed once rests on who holds a share:   *)
(* at any time it is in one place of the queue, or with the sender, or in  *)
(* the table, and what is in none of them has been freed or was never      *)
(* found.                                                                  *)
(*                                                                         *)
(* PoppersAwake is inductive: a miner goes to sleep under the lock, on an  *)
(* empty queue, and each step that puts something there wakes them all.    *)
(*                                                                         *)
(* That the lines of an undisturbed connection are handled whole and in    *)
(* order rests on what has not been handled yet: the buffer, with what the *)
(* server has sent after it, is the next lines up to the last one sent.    *)
(* It holds at the start of a session because the pool is not active until *)
(* subscribed, so that the server has then sent its answer or nothing.     *)
(***************************************************************************)
EXTENDS StratumShares, SubmitWork, FreshWork, StratumClient, FiniteSetTheorems, SequenceTheorems, TLAPS

----------------------------------------------------------------------------
(* Stratum shares.                                                         *)

Waiting == {queue[i] : i \in DOMAIN queue}

Types ==
    /\ queue \in Seq(Share)
    /\ sender \in {"top", "pop", "send", "track", "check", "sleep", "quit"}
    /\ share \in Share \cup {Nobody}
    /\ share = Nobody <=> sender \in {"top", "pop", "quit"}
    /\ tracked \subseteq Share
    /\ session \in Nat /\ sessions \in Nat
    /\ origin \in [Share -> Nat]
    /\ counted \in [Share -> SUBSET {"accepted", "rejected", "stale"}]
    /\ freed \in [Share -> Nat]

OnePlace ==
    /\ \A i, j \in DOMAIN queue : i # j => queue[i] # queue[j]
    /\ share \notin Waiting
    /\ share \notin tracked
    /\ Waiting \cap tracked = {}

Unfreed ==
    \A s \in Share :
        /\ freed[s] <= 1
        /\ origin[s] = 0 => freed[s] = 0
        /\ s \in Waiting \/ s = share \/ s \in tracked => origin[s] # 0 /\ freed[s] = 0

IInv == Types /\ OnePlace /\ Unfreed /\ (frozen => removed) /\ FreedIsCounted

----------------------------------------------------------------------------
(* What the queue holds.                                                   *)

LEMMA WaitingType == queue \in Seq(Share) => Waiting \subseteq Share
  BY DEF Waiting

LEMMA Pushed ==
    ASSUME IInv, NEW s \in Share, origin[s] = 0, queue' = Append(queue, s)
    PROVE  /\ queue' \in Seq(Share)
           /\ Waiting' = Waiting \cup {s}
           /\ \A i, j \in DOMAIN queue' : i # j => queue'[i] # queue'[j]
<1>1. queue \in Seq(Share) /\ DOMAIN queue = 1 .. Len(queue) /\ Len(queue) \in Nat
  BY DEF IInv, Types
<1>2. /\ DOMAIN queue' = 1 .. Len(queue) + 1
      /\ queue'[Len(queue) + 1] = s
      /\ \A i \in DOMAIN queue : queue'[i] = queue[i]
      /\ queue' \in Seq(Share)
  BY <1>1
<1>3. Waiting' = Waiting \cup {s}
  BY <1>1, <1>2 DEF Waiting
<1>4. s \notin Waiting
  BY DEF IInv, Unfreed
<1>5. ASSUME NEW i \in DOMAIN queue', NEW j \in DOMAIN queue', i # j
      PROVE  queue'[i] # queue'[j]
  <2>1. CASE i \in DOMAIN queue /\ j \in DOMAIN queue
    BY <1>2, <1>5, <2>1 DEF IInv, OnePlace
  <2>2. CASE i = Len(queue) + 1
    <3>1. j \in DOMAIN queue
      BY <1>1, <1>2, <1>5, <2>2
    <3> QED BY <1>2, <1>4, <2>2, <3>1 DEF Waiting
  <2>3. CASE j = Len(queue) + 1
    <3>1. i \in DOMAIN queue
      BY <1>1, <1>2, <1>5, <2>3
    <3> QED BY <1>2, <1>4, <2>3, <3>1 DEF Waiting
  <2> QED BY <1>1, <1>2, <2>1, <2>2, <2>3
<1> QED BY <1>2, <1>3, <1>5

LEMMA Popped ==
    ASSUME IInv, queue # <<>>, queue' = Tail(queue)
    PROVE  /\ queue' \in Seq(Share)
           /\ Head(queue) \in Waiting
           /\ Waiting' = Waiting \ {Head(queue)}
           /\ \A i, j \in DOMAIN queue' : i # j => queue'[i] # queue'[j]
<1>1. /\ queue \in Seq(Share) /\ DOMAIN queue = 1 .. Len(queue)
      /\ Len(queue) \in Nat /\ Len(queue) # 0 /\ Head(queue) = queue[1]
  BY DEF IInv, Types
<1>2. /\ queue' \in Seq(Share) /\ DOMAIN queue' = 1 .. Len(queue) - 1
      /\ \A i \in 1 .. Len(queue) - 1 : queue'[i] = queue[i + 1]
  BY <1>1
<1>3. \A i, j \in DOMAIN queue : i # j => queue[i] # queue[j]
  BY DEF IInv, OnePlace
<1>4. Head(queue) \in Waiting
  BY <1>1 DEF Waiting
<1>5. ASSUME NEW s \in Waiting' PROVE s \in Waiting \ {Head(queue)}
  <2>1. PICK i \in 1 .. Len(queue) - 1 : s = queue[i + 1]
    BY <1>2, <1>5 DEF Waiting
  <2>2. i + 1 \in DOMAIN queue /\ i + 1 # 1 /\ 1 \in DOMAIN queue
    BY <1>1
  <2>3. queue[i + 1] # queue[1]
    BY <1>3, <2>2
  <2> QED BY <1>1, <2>1, <2>2, <2>3 DEF Waiting
<1>6. ASSUME NEW s \in Waiting \ {Head(queue)} PROVE s \in Waiting'
  <2>1. PICK i \in DOMAIN queue : s = queue[i]
    BY <1>6 DEF Waiting
  <2>2. i - 1 \in 1 .. Len(queue) - 1 /\ (i - 1) + 1 = i
    BY <1>1, <1>6, <2>1
  <2>3. queue'[i - 1] = s
    BY <1>2, <2>1, <2>2
  <2> QED BY <1>2, <2>2, <2>3 DEF Waiting
<1>7. ASSUME NEW i \in DOMAIN queue', NEW j \in DOMAIN queue', i # j
      PROVE  queue'[i] # queue'[j]
  <2>1. /\ i + 1 \in DOMAIN queue /\ j + 1 \in DOMAIN queue /\ i + 1 # j + 1
        /\ queue'[i] = queue[i + 1] /\ queue'[j] = queue[j + 1]
    BY <1>1, <1>2, <1>7
  <2> QED BY <1>3, <2>1
<1> QED BY <1>2, <1>4, <1>5, <1>6, <1>7

----------------------------------------------------------------------------
(* Kinds of step.                                                          *)

\* Nobody hands a share on, and none is freed or counted anew.
LEMMA NothingMoves ==
    ASSUME IInv, UNCHANGED <<queue, share, tracked, origin, freed>>,
           sender' \in {"top", "pop", "send", "track", "check", "sleep", "quit"},
           share = Nobody <=> sender' \in {"top", "pop", "quit"},
           session' \in Nat, sessions' \in Nat,
           counted' \in [Share -> SUBSET {"accepted", "rejected", "stale"}],
           \A s \in Share : counted[s] \subseteq counted'[s],
           removed => removed', frozen' => frozen \/ removed
    PROVE  IInv'
<1>1. Types'
  BY DEF IInv, Types
<1>2. OnePlace' /\ Unfreed'
  BY DEF IInv, OnePlace, Unfreed, Waiting
<1>3. (frozen => removed)' /\ FreedIsCounted'
  BY DEF IInv, FreedIsCounted
<1> QED BY <1>1, <1>2, <1>3 DEF IInv

\* Shares leave the sender or the table for good: each is freed, and counted
\* how; the rest stays where it is.
LEMMA Settles ==
    ASSUME IInv, NEW S \in SUBSET Share, NEW how \in {"accepted", "rejected", "stale"},
           Free(S), Count(S, how),
           UNCHANGED <<queue, frozen, removed, session, sessions, origin>>,
           \/ /\ S \subseteq tracked /\ tracked' = tracked \ S
              /\ UNCHANGED <<sender, share>>
           \/ /\ S = {share} /\ share # Nobody /\ UNCHANGED tracked
              /\ sender' = "top" /\ share' = Nobody
    PROVE  IInv'
<1>1. /\ freed' \in [Share -> Nat]
      /\ \A s \in Share : freed'[s] = IF s \in S THEN freed[s] + 1 ELSE freed[s]
  BY DEF IInv, Types, Free
<1>2. /\ counted' \in [Share -> SUBSET {"accepted", "rejected", "stale"}]
      /\ \A s \in S : counted'[s] # {}
      /\ \A s \in Share \ S : counted'[s] = counted[s]
  BY DEF IInv, Types, Count
<1>3. Types'
  BY <1>1, <1>2 DEF IInv, Types
<1>4. Waiting' = Waiting /\ Waiting \subseteq Share
  BY WaitingType DEF Waiting, IInv, Types
<1>5. OnePlace'
  BY <1>4, ShareAssumption DEF IInv, Types, OnePlace
<1>6. ASSUME NEW s \in S
      PROVE  /\ origin[s] # 0 /\ freed[s] = 0
             /\ s \notin Waiting' /\ s # share' /\ s \notin tracked'
  BY <1>4, ShareAssumption DEF IInv, OnePlace, Unfreed
<1>7. ASSUME NEW s \in Share \ S, s \in Waiting' \/ s = share' \/ s \in tracked'
      PROVE  s \in Waiting \/ s = share \/ s \in tracked
  BY <1>4, <1>7, ShareAssumption
<1>8. Unfreed'
  BY <1>1, <1>6, <1>7 DEF IInv, Unfreed
<1>9. FreedIsCounted'
  BY <1>1, <1>2 DEF IInv, FreedIsCounted
<1> QED BY <1>3, <1>5, <1>8, <1>9 DEF IInv

----------------------------------------------------------------------------
LEMMA Initially == Init => IInv
<1> SUFFICES ASSUME Init PROVE IInv
  OBVIOUS
<1>1. Waiting = {}
  BY DEF Init, Waiting
<1>2. Types
  BY DEF Init, Types
<1> QED BY <1>1, <1>2, ShareAssumption DEF Init, IInv, OnePlace, Unfreed, FreedIsCounted

LEMMA SubmitStep == ASSUME IInv, NEW s \in Share, Submit(s) PROVE IInv'
<1> USE DEF queueVars, senderVars, tableVars, netVars, sessionVars
<1>1. /\ origin[s] = 0 /\ origin' = [origin EXCEPT ![s] = session]
      /\ session \in Nat /\ session # 0
      /\ UNCHANGED <<frozen, sender, share, tracked, session, sessions, removed, counted>>
  BY DEF Submit, IInv, Types
<1>2. /\ origin' \in [Share -> Nat] /\ origin'[s] # 0
      /\ \A t \in Share \ {s} : origin'[t] = origin[t]
  BY <1>1 DEF IInv, Types
<1>3. freed[s] = 0 /\ s \notin Waiting /\ s # share /\ s \notin tracked
  BY <1>1 DEF IInv, Unfreed
<1>4. CASE frozen
  <2>1. Free({s}) /\ UNCHANGED queue /\ removed
    BY <1>4 DEF Submit, IInv
  <2>2. /\ freed' \in [Share -> Nat] /\ freed'[s] = 1
        /\ \A t \in Share \ {s} : freed'[t] = freed[t]
    BY <1>3, <2>1 DEF Free, IInv, Types
  <2>3. Types'
    BY <1>1, <1>2, <2>1, <2>2 DEF IInv, Types
  <2>4. Waiting' = Waiting
    BY <2>1 DEF Waiting
  <2>5. OnePlace' /\ Unfreed'
    BY <1>1, <1>2, <1>3, <2>1, <2>2, <2>4 DEF IInv, OnePlace, Unfreed
  <2> QED BY <1>1, <2>1, <2>3, <2>5 DEF IInv, FreedIsCounted
<1>5. CASE ~frozen
  <2>1. queue' = Append(queue, s) /\ UNCHANGED freed
    BY <1>5 DEF Submit
  <2>2. /\ queue' \in Seq(Share) /\ Waiting' = Waiting \cup {s}
        /\ \A i, j \in DOMAIN queue' : i # j => queue'[i] # queue'[j]
    BY <1>1, <2>1, Pushed
  <2>3. Types'
    BY <1>1, <1>2, <2>1, <2>2 DEF IInv, Types
  <2>4. OnePlace'
    BY <1>1, <1>3, <2>2 DEF IInv, OnePlace
  <2>5. Unfreed'
    BY <1>1, <1>2, <1>3, <2>1, <2>2 DEF IInv, Unfreed
  <2> QED BY <1>1, <2>1, <2>3, <2>4, <2>5 DEF IInv, FreedIsCounted
<1> QED BY <1>4, <1>5

LEMMA SenderStep == ASSUME IInv, Sender PROVE IInv'
<1> USE DEF queueVars, senderVars, tableVars, netVars, sessionVars, historyVars
<1>0. Types
  BY DEF IInv
<1>1. CASE SenderTop
  BY <1>0, <1>1, NothingMoves DEF SenderTop, Types
<1>2. CASE SenderPop
  <2>1. /\ queue # <<>> /\ queue' = Tail(queue) /\ share' = Head(queue)
        /\ sender = "pop" /\ sender' = "send"
        /\ UNCHANGED <<frozen, tracked, session, sessions, removed, origin, counted, freed>>
    BY <1>2 DEF SenderPop
  <2>2. /\ queue' \in Seq(Share) /\ Head(queue) \in Waiting
        /\ Waiting' = Waiting \ {Head(queue)}
        /\ \A i, j \in DOMAIN queue' : i # j => queue'[i] # queue'[j]
    BY <2>1, Popped
  <2>3. share' \in Share /\ share' # Nobody
    BY <1>0, <2>1, <2>2, WaitingType, ShareAssumption DEF Types
  <2>4. Types'
    BY <1>0, <2>1, <2>2, <2>3 DEF Types
  <2>5. OnePlace'
    BY <2>1, <2>2 DEF IInv, OnePlace
  <2>6. Unfreed'
    BY <2>1, <2>2 DEF IInv, Unfreed
  <2> QED BY <2>1, <2>4, <2>5, <2>6 DEF IInv, FreedIsCounted
<1>3. CASE SendOk
  BY <1>0, <1>3, NothingMoves DEF SendOk, Types
<1>4. CASE SendFails
  BY <1>0, <1>4, NothingMoves DEF SendFails, Types
<1>5. CASE SendInactive
  BY <1>0, <1>5, NothingMoves DEF SendInactive, Types
<1>6. CASE Track
  <2>1. /\ sender = "track" /\ share \in Share
        /\ tracked' = tracked \cup {share} /\ sender' = "top" /\ share' = Nobody
        /\ UNCHANGED <<queue, frozen, session, sessions, removed, origin, counted, freed>>
    BY <1>0, <1>6 DEF Track, Types
  <2>2. Waiting' = Waiting /\ Waiting \subseteq Share
    BY <1>0, <2>1, WaitingType DEF Waiting, Types
  <2>3. Types'
    BY <1>0, <2>1 DEF Types
  <2>4. OnePlace'
    BY <1>0, <2>1, <2>2, <2>3, ShareAssumption DEF IInv, OnePlace, Types
  <2>5. Unfreed'
    BY <2>1, <2>2, ShareAssumption DEF IInv, Unfreed
  <2> QED BY <2>1, <2>3, <2>4, <2>5 DEF IInv, FreedIsCounted
<1>7. CASE SessionMatches
  BY <1>0, <1>7, NothingMoves DEF SessionMatches, Types
<1>8. CASE SendAgain
  BY <1>0, <1>8, NothingMoves DEF SendAgain, Types
<1>9. CASE Discard
  <2>1. share \in Share /\ share # Nobody
    BY <1>0, <1>9 DEF Discard, Types
  <2>2. /\ Free({share}) /\ Count({share}, "stale")
        /\ UNCHANGED <<queue, frozen, removed, session, sessions, origin, tracked>>
        /\ sender' = "top" /\ share' = Nobody
    BY <1>9 DEF Discard
  <2>3. {share} \in SUBSET Share
    BY <2>1
  <2> HIDE DEF queueVars, senderVars, tableVars, netVars, sessionVars, historyVars
  <2> QED BY <2>1, <2>2, <2>3, Settles
<1> QED BY <1>1, <1>2, <1>3, <1>4, <1>5, <1>6, <1>7, <1>8, <1>9 DEF Sender

\* clear_stratum_shares, by whichever step it is called.
LEMMA Clears ==
    ASSUME IInv, Clear,
           UNCHANGED <<queue, frozen, removed, session, sessions, origin, sender, share>>
    PROVE  IInv'
<1>1. tracked \in SUBSET Share /\ tracked' = tracked \ tracked
  BY DEF IInv, Types, Clear
<1>2. Free(tracked) /\ Count(tracked, "stale")
  BY DEF Clear
<1> QED BY <1>1, <1>2, Settles

LEMMA ReceiverStep == ASSUME IInv, Receiver PROVE IInv'
<1> USE DEF queueVars, senderVars, tableVars, netVars, sessionVars, historyVars
<1>0. Types
  BY DEF IInv
<1>1. CASE Quit
  BY <1>0, <1>1, NothingMoves DEF Quit, Types
<1>2. CASE AnswerTracked
  <2> DEFINE a == Head(arriving)
  <2>1. /\ a.of \in tracked /\ tracked' = tracked \ {a.of}
        /\ Count({a.of}, ok(a)) /\ Free({a.of})
        /\ UNCHANGED <<queue, frozen, removed, session, sessions, origin, sender, share>>
    BY <1>2 DEF AnswerTracked
  <2>2. ok(a) \in {"accepted", "rejected", "stale"} /\ {a.of} \in SUBSET Share
    BY <1>0, <2>1 DEF ok, Types
  <2> HIDE DEF a, queueVars, senderVars, tableVars, netVars, sessionVars, historyVars
  <2> QED BY <2>1, <2>2, Settles
<1>3. CASE AnswerUntracked
  <2> DEFINE a == Head(arriving)
  <2>1. /\ Count({a.of}, ok(a))
        /\ UNCHANGED <<queue, frozen, removed, session, sessions, origin, sender, share,
                       tracked, freed>>
    BY <1>3 DEF AnswerUntracked
  <2>2. ok(a) \in {"accepted", "rejected", "stale"}
    BY DEF ok
  <2>3. /\ counted' \in [Share -> SUBSET {"accepted", "rejected", "stale"}]
        /\ \A s \in Share : counted[s] \subseteq counted'[s]
    BY <1>0, <2>1, <2>2 DEF Count, Types
  <2> QED BY <1>0, <2>1, <2>3, NothingMoves DEF Types
<1>4. CASE Lost
  BY <1>0, <1>4, NothingMoves DEF Lost, Types
<1>5. CASE HandleLost
  <2>1. CASE resumes
    BY <1>0, <1>5, <2>1, NothingMoves DEF HandleLost, Types
  <2>2. CASE ~resumes
    BY <1>5, <2>2, Clears DEF HandleLost
  <2> QED BY <2>1, <2>2
<1>6. CASE CnxNotNeeded
  BY <1>6, Clears DEF CnxNotNeeded
<1>7. CASE Connected
  <2>1. session' \in Nat /\ sessions' \in Nat
    BY <1>0, <1>7 DEF Connected, Types
  <2> QED BY <1>0, <1>7, <2>1, NothingMoves DEF Connected, Types
<1>8. CASE ConnectFails
  <2>1. session' \in Nat /\ sessions' \in Nat
    BY <1>0, <1>8 DEF ConnectFails, Types
  <2> QED BY <1>0, <1>8, <2>1, NothingMoves DEF ConnectFails, Types
<1>9. CASE SendAuth
  BY <1>0, <1>9, NothingMoves DEF SendAuth, Types
<1>10. CASE AuthAnswer
  BY <1>0, <1>10, NothingMoves DEF AuthAnswer, Types
<1>11. CASE AuthFails
  BY <1>0, <1>11, NothingMoves DEF AuthFails, Types
<1>12. CASE TryAgain
  BY <1>0, <1>12, NothingMoves DEF TryAgain, Types
<1> QED BY <1>1, <1>2, <1>3, <1>4, <1>5, <1>6, <1>7, <1>8, <1>9, <1>10, <1>11, <1>12
     DEF Receiver

LEMMA Steps == IInv /\ [Next]_vars => IInv'
<1> SUFFICES ASSUME IInv, [Next]_vars PROVE IInv'
  OBVIOUS
<1>0. Types
  BY DEF IInv
<1> USE DEF queueVars, senderVars, tableVars, netVars, sessionVars, historyVars
<1>1. CASE UNCHANGED vars
  BY <1>0, <1>1, NothingMoves DEF vars, Types
<1>2. ASSUME NEW s \in Share, Submit(s) PROVE IInv'
  BY <1>2, SubmitStep
<1>3. CASE Sender
  BY <1>3, SenderStep
<1>4. CASE Receiver
  BY <1>4, ReceiverStep
<1>5. CASE PoolAnswers
  BY <1>0, <1>5, NothingMoves DEF PoolAnswers, Types
<1>6. CASE PoolRemoved
  BY <1>0, <1>6, NothingMoves DEF PoolRemoved, Types
<1> QED BY <1>1, <1>2, <1>3, <1>4, <1>5, <1>6 DEF Next

LEMMA Invariant == Spec => []IInv
<1>1. Init => IInv
  BY Initially
<1>2. IInv /\ [Next]_vars => IInv'
  BY Steps
<1> QED BY <1>1, <1>2, PTL DEF Spec

----------------------------------------------------------------------------
\* stratum_sthread, parse_stratum_response and clear_stratum_shares: whichever
\* of them settles a share, its work is freed once, and nobody holds it then.
THEOREM WorkFreedOnce == Spec => []FreedOnce
<1>1. IInv => FreedOnce
  <2> SUFFICES ASSUME IInv, NEW s \in Share, freed[s] = 1
               PROVE  s \notin Held \cup tracked
    BY DEF IInv, Unfreed, FreedOnce
  <2>1. Held = Waiting \cup ({share} \ {Nobody})
    BY DEF Held, Waiting
  <2> QED BY <2>1 DEF IInv, Unfreed
<1> QED BY <1>1, Invariant, PTL

\* A share whose work is freed has been counted, unless its pool was removed.
THEOREM FreedHasBeenCounted == Spec => []FreedIsCounted
<1>1. IInv => FreedIsCounted
  BY DEF IInv
<1> QED BY <1>1, Invariant, PTL

----------------------------------------------------------------------------
(* The rest of TypeOK: the table is as large as sshares says, and what is  *)
(* known of the connection.  A lost connection is one that may be made     *)
(* again within the bound.                                                 *)

TableTypes == IsFiniteSet(tracked) /\ sshares = Cardinality(tracked)

NetTypes ==
    /\ frozen \in BOOLEAN /\ active \in BOOLEAN /\ removed \in BOOLEAN
    /\ receiver \in {"read", "lost", "restart", "authorize", "answer", "down", "quit"}
    /\ receiver \in {"lost", "restart"} => connections < MaxConnect
    /\ resumes \in BOOLEAN /\ (resumes => session # 0)
    /\ session \in 0 .. MaxSession /\ sessions \in 1 .. MaxSession
    /\ connections \in 1 .. MaxConnect
    /\ pending \subseteq Share \cup {Auth}
    /\ origin \in [Share -> 0 .. MaxSession]

AnswerTypes == arriving \in Seq(Answer)

RestOfTypes == TableTypes /\ NetTypes /\ AnswerTypes

LEMMA TypesInitially == Init => RestOfTypes
<1> SUFFICES ASSUME Init PROVE RestOfTypes
  OBVIOUS
<1>1. TableTypes
  BY FS_EmptySet DEF Init, TableTypes
<1>2. NetTypes
  <2>1. 0 \in 0 .. MaxSession /\ 1 \in 0 .. MaxSession /\ 1 \in 1 .. MaxSession
        /\ 1 \in 1 .. MaxConnect
    BY ShareAssumption
  <2>2. origin \in [Share -> 0 .. MaxSession]
    BY <2>1 DEF Init
  <2>3. frozen \in BOOLEAN /\ active \in BOOLEAN /\ removed \in BOOLEAN /\ resumes \in BOOLEAN
    BY DEF Init
  <2>4. session = 1 /\ sessions = 1 /\ connections = 1 /\ pending = {} /\ receiver = "read"
    BY DEF Init
  <2> HIDE DEF Init
  <2> QED BY <2>1, <2>2, <2>3, <2>4 DEF NetTypes
<1>3. AnswerTypes
  BY DEF Init, AnswerTypes
<1> QED BY <1>1, <1>2, <1>3 DEF RestOfTypes

\* The table: Track enters a share that is not in it (OnePlace), and
\* AnswerTracked removes one that is.
LEMMA TableSteps == ASSUME IInv, TableTypes, [Next]_vars PROVE TableTypes'
<1> USE DEF queueVars, senderVars, tableVars, netVars, sessionVars, historyVars
<1>1. CASE UNCHANGED tableVars
  BY <1>1 DEF TableTypes
<1>2. CASE Track
  <2>1. share \notin tracked /\ tracked' = tracked \cup {share} /\ sshares' = sshares + 1
    BY <1>2 DEF Track, IInv, OnePlace
  <2> QED BY <2>1, FS_AddElement DEF TableTypes
<1>3. CASE AnswerTracked
  <2>1. PICK s \in tracked : tracked' = tracked \ {s} /\ sshares' = sshares - 1
    BY <1>3 DEF AnswerTracked
  <2> QED BY <2>1, FS_RemoveElement DEF TableTypes
<1>4. CASE Clear
  BY <1>4, FS_EmptySet DEF Clear, TableTypes
<1>5. ASSUME Sender, ~Track PROVE UNCHANGED tableVars
  BY <1>5 DEF Sender, SenderTop, SenderPop, SendOk, SendFails, SendInactive,
              SessionMatches, SendAgain, Discard
<1>6. ASSUME Receiver, ~AnswerTracked PROVE UNCHANGED tableVars \/ Clear
  BY <1>6 DEF Receiver, Quit, AnswerUntracked, Lost, HandleLost, CnxNotNeeded,
              Connected, ConnectFails, SendAuth, AuthAnswer, AuthFails, TryAgain
<1>7. ASSUME NEW s \in Share, Submit(s) PROVE UNCHANGED tableVars
  BY <1>7 DEF Submit
<1>8. ASSUME PoolAnswers \/ PoolRemoved \/ UNCHANGED vars PROVE UNCHANGED tableVars
  BY <1>8 DEF PoolAnswers, PoolRemoved, vars
<1> QED BY <1>1, <1>2, <1>3, <1>4, <1>5, <1>6, <1>7, <1>8 DEF Next

LEMMA NetSteps == ASSUME IInv, NetTypes, [Next]_vars PROVE NetTypes'
<1> USE DEF queueVars, senderVars, tableVars, netVars, sessionVars, historyVars, NetTypes
<1>1. CASE UNCHANGED vars
  BY <1>1 DEF vars
<1>2. ASSUME NEW s \in Share, Submit(s) PROVE NetTypes'
  BY <1>2 DEF Submit
<1>3. CASE Sender
  <2>1. CASE SenderTop
    BY <2>1 DEF SenderTop
  <2>2. CASE SendOk
    BY <2>2 DEF SendOk, IInv, Types
  <2>3. CASE SendFails
    BY <2>3 DEF SendFails
  <2> QED BY <1>3, <2>1, <2>2, <2>3
          DEF Sender, SenderPop, SendInactive, Track, SessionMatches, SendAgain, Discard
<1>4. CASE Receiver
  <2>1. CASE Lost
    BY <2>1 DEF Lost
  <2>2. CASE HandleLost
    BY <2>2 DEF HandleLost, Clear
  <2>3. CASE CnxNotNeeded
    BY <2>3 DEF CnxNotNeeded, Clear
  <2>4. CASE Connected
    BY <2>4, ShareAssumption DEF Connected
  <2>5. CASE ConnectFails
    <3>1. 0 \in 0 .. MaxSession
      BY ShareAssumption
    <3>2. CASE UNCHANGED <<session, resumes>>
      BY <2>5, <3>2 DEF ConnectFails
    <3>3. CASE session' = 0 /\ resumes' = FALSE
      <4>1. session' \in 0 .. MaxSession /\ resumes' \in BOOLEAN /\ ~resumes'
        BY <3>1, <3>3
      <4> QED BY <2>5, <4>1 DEF ConnectFails
    <3> QED BY <2>5, <3>2, <3>3 DEF ConnectFails
  <2>6. CASE SendAuth
    BY <2>6 DEF SendAuth
  <2>7. CASE TryAgain
    BY <2>7 DEF TryAgain
  <2>8. CASE Quit \/ AnswerTracked \/ AnswerUntracked \/ AuthAnswer \/ AuthFails
    BY <2>8 DEF Quit, AnswerTracked, AnswerUntracked, AuthAnswer, AuthFails
  <2> QED BY <1>4, <2>1, <2>2, <2>3, <2>4, <2>5, <2>6, <2>7, <2>8 DEF Receiver
<1>5. CASE PoolAnswers
  BY <1>5 DEF PoolAnswers
<1>6. CASE PoolRemoved
  BY <1>6 DEF PoolRemoved
<1> QED BY <1>1, <1>2, <1>3, <1>4, <1>5, <1>6 DEF Next

LEMMA AnswerSteps == ASSUME NetTypes, AnswerTypes, [Next]_vars PROVE AnswerTypes'
<1> USE DEF queueVars, senderVars, tableVars, netVars, sessionVars, historyVars
<1>1. CASE UNCHANGED arriving
  BY <1>1 DEF AnswerTypes
<1>2. CASE arriving' = <<>>
  BY <1>2 DEF AnswerTypes
<1>3. CASE arriving # <<>> /\ arriving' = Tail(arriving)
  BY <1>3 DEF AnswerTypes
<1>4. CASE PoolAnswers
  <2>1. PICK r \in pending, good \in BOOLEAN :
          arriving' = Append(arriving, [of |-> r, ok |-> good])
    BY <1>4 DEF PoolAnswers
  <2>2. [of |-> r, ok |-> good] \in Answer
    BY DEF Answer, NetTypes
  <2> QED BY <2>1, <2>2 DEF AnswerTypes
<1>5. ASSUME Sender PROVE UNCHANGED arriving \/ arriving' = <<>>
  BY <1>5 DEF Sender, SenderTop, SenderPop, SendOk, SendFails, SendInactive, Track,
              SessionMatches, SendAgain, Discard
<1>6. ASSUME Receiver
      PROVE  \/ UNCHANGED arriving \/ arriving' = <<>>
             \/ arriving # <<>> /\ arriving' = Tail(arriving)
  BY <1>6 DEF Receiver, Quit, AnswerTracked, AnswerUntracked, Lost, HandleLost, CnxNotNeeded,
              Connected, ConnectFails, SendAuth, AuthAnswer, AuthFails, TryAgain
<1>7. ASSUME NEW s \in Share, Submit(s) PROVE UNCHANGED arriving
  BY <1>7 DEF Submit
<1>8. ASSUME PoolRemoved \/ UNCHANGED vars PROVE UNCHANGED arriving
  BY <1>8 DEF PoolRemoved, vars
<1> QED BY <1>1, <1>2, <1>3, <1>4, <1>5, <1>6, <1>7, <1>8 DEF Next

\* share_result, clear_stratum_shares and stratum_sthread: no share is lost to the
\* statistics, whose work is freed only when it has been counted, or with its pool.
THEOREM SharesCountedWhenFreed == Spec => []CountedWhenFreed
<1>1. Init => IInv /\ RestOfTypes
  BY Initially, TypesInitially
<1>2. IInv /\ RestOfTypes /\ [Next]_vars => (IInv /\ RestOfTypes)'
  BY Steps, TableSteps, NetSteps, AnswerSteps DEF RestOfTypes
<1>3. IInv /\ RestOfTypes => CountedWhenFreed
  BY DEF IInv, Types, RestOfTypes, TableTypes, NetTypes, AnswerTypes, TypeOK, CountedWhenFreed
<1> QED BY <1>1, <1>2, <1>3, PTL DEF Spec

----------------------------------------------------------------------------
(* Shares of a getwork pool.  CountedOnce is not inductive: that a share   *)
(* is counted at most once rests on no share being counted while it is     *)
(* still on its way.                                                       *)

\* Where a share is before submit_work_thread is done with it.
OnTheWay == {"mined", "pop", "wait", "woken", "send", "sleep"}

TallyTypes ==
    /\ where \in [Threads -> WorkStates \union MainStates]
    /\ \A w \in Works : where[w] \in WorkStates
    /\ tally \in [Works -> Nat]

\* The share w, at a point of its way.
Tallied(w, point, n) ==
    /\ n <= 1
    /\ point \in OnTheWay => n = 0
    /\ point = "push" /\ ~opt_lowmem => n = 1

TallyInv == TallyTypes /\ \A w \in Works : Tallied(w, where[w], tally[w])

----------------------------------------------------------------------------
\* A step that counts nothing, and moves shares only along their way or past
\* its end, keeps the invariant.
LEMMA Uncounted ==
    ASSUME TallyInv, UNCHANGED tally,
           where' \in [Threads -> WorkStates \union MainStates],
           \A w \in Works :
               \/ where'[w] = where[w]
               \/ where[w] \in OnTheWay /\ where'[w] \in OnTheWay
               \/ where'[w] = "none"
               \/ where[w] \in OnTheWay /\ where'[w] = "push" /\ opt_lowmem
    PROVE  TallyInv'
<1>1. TallyTypes'
  BY DEF TallyInv, TallyTypes, OnTheWay, WorkStates
<1>2. ASSUME NEW w \in Works PROVE Tallied(w, where'[w], tally[w])
  <2>1. Tallied(w, where[w], tally[w])
    BY DEF TallyInv
  <2> QED BY <2>1 DEF Tallied, OnTheWay
<1> QED BY <1>1, <1>2 DEF TallyInv

\* A step of the scheduler alone.
LEMMA SchedulerSteps ==
    ASSUME TallyInv, UNCHANGED tally, NEW next \in MainStates,
           where' = [where EXCEPT ![Main] = next]
    PROVE  TallyInv'
<1>1. where' \in [Threads -> WorkStates \union MainStates]
  BY DEF TallyInv, TallyTypes
<1>2. \A w \in Works : where'[w] = where[w]
  BY SubmitAssumption DEF TallyInv, TallyTypes, Threads
<1> QED BY <1>1, <1>2, Uncounted

\* A step of one share's thread that counts nothing.
LEMMA ShareSteps ==
    ASSUME TallyInv, UNCHANGED tally, NEW w \in Works, NEW next \in WorkStates,
           where' = [where EXCEPT ![w] = next],
           \/ where[w] \in OnTheWay /\ next \in OnTheWay
           \/ next = "none"
           \/ where[w] \in OnTheWay /\ next = "push" /\ opt_lowmem
    PROVE  TallyInv'
<1>1. where' \in [Threads -> WorkStates \union MainStates]
  BY DEF TallyInv, TallyTypes
<1>2. where'[w] = next /\ \A v \in Works \ {w} : where'[v] = where[v]
  BY DEF TallyInv, TallyTypes, Threads
<1> QED BY <1>1, <1>2, Uncounted

\* A step of one share that sets its count.
LEMMA ShareCounts ==
    ASSUME TallyInv, NEW w \in Works, NEW next \in WorkStates, NEW n \in Nat,
           NEW other \in MainStates,
           \/ where' = [where EXCEPT ![w] = next]
           \/ where' = [where EXCEPT ![Main] = other, ![w] = next],
           tally' = [tally EXCEPT ![w] = n],
           Tallied(w, next, n)
    PROVE  TallyInv'
<1>1. /\ where'[w] = next /\ \A v \in Works \ {w} : where'[v] = where[v]
      /\ where' \in [Threads -> WorkStates \union MainStates]
  BY SubmitAssumption DEF TallyInv, TallyTypes, Threads
<1>2. /\ tally'[w] = n /\ \A v \in Works \ {w} : tally'[v] = tally[v]
      /\ tally' \in [Works -> Nat]
  BY DEF TallyInv, TallyTypes
<1>3. TallyTypes'
  BY <1>1, <1>2 DEF TallyInv, TallyTypes
<1>4. ASSUME NEW v \in Works PROVE Tallied(v, where'[v], tally'[v])
  <2>1. CASE v = w
    BY <2>1, <1>1, <1>2
  <2>2. CASE v # w
    BY <2>2, <1>1, <1>2 DEF TallyInv
  <2> QED BY <2>1, <2>2
<1> QED BY <1>3, <1>4 DEF TallyInv

\* push_curl_entry wakes those that wait, and its caller goes on.
LEMMA Pushes ==
    ASSUME TallyInv, UNCHANGED tally, NEW t \in Threads, NEW next, PushCurl(t, next),
           \/ t = Main /\ next = "make"
           \/ t \in Works /\ next = "none"
    PROVE  TallyInv'
<1>1. next \in WorkStates \union MainStates
  BY DEF WorkStates, MainStates
<1>2. where' \in [Threads -> WorkStates \union MainStates]
  BY <1>1 DEF PushCurl, TallyInv, TallyTypes, WorkStates
<1>3. ASSUME NEW w \in Works
      PROVE  \/ where'[w] = where[w]
             \/ where[w] \in OnTheWay /\ where'[w] \in OnTheWay
             \/ where'[w] = "none"
  <2>1. w \in Threads
    BY DEF Threads
  <2> QED BY <2>1, SubmitAssumption DEF PushCurl, OnTheWay
<1> QED BY <1>2, <1>3, Uncounted

----------------------------------------------------------------------------
LEMMA TallyInit == SubmitInit => TallyInv
<1> SUFFICES ASSUME SubmitInit PROVE TallyInv
  OBVIOUS
<1>1. TallyTypes
  BY SubmitAssumption DEF SubmitInit, TallyTypes, Threads, WorkStates, MainStates
<1>2. ASSUME NEW w \in Works PROVE where[w] = "none" /\ tally[w] = 0
  BY SubmitAssumption DEF SubmitInit, Threads
<1> QED BY <1>1, <1>2 DEF TallyInv, Tallied, OnTheWay

LEMMA TallySteps == TallyInv /\ [SubmitNext]_submitVars => TallyInv'
<1> SUFFICES ASSUME TallyInv, [SubmitNext]_submitVars PROVE TallyInv'
  OBVIOUS
<1> USE DEF MainStates
<1>1. CASE UNCHANGED submitVars
  BY <1>1 DEF submitVars, TallyInv, TallyTypes
<1>2. CASE Age
  BY <1>2 DEF Age, TallyInv, TallyTypes
<1>3. CASE ReapCurl
  BY <1>3 DEF ReapCurl, TallyInv, TallyTypes
<1>4. CASE MakeWork
  BY <1>4, SchedulerSteps DEF MakeWork
<1>5. CASE MainPops
  BY <1>5, SchedulerSteps DEF MainPops, PopCurl
<1>6. CASE GetFails
  BY <1>6, SchedulerSteps DEF GetFails
<1>7. CASE MainSleeps
  BY <1>7, SchedulerSteps DEF MainSleeps
<1>8. CASE MainPushes
  BY <1>8, Pushes DEF MainPushes, Threads
<1>9. ASSUME NEW w \in Works, GetWork(w) PROVE TallyInv'
  <2>1. Tallied(w, "mined", 0)
    BY DEF Tallied
  <2> QED BY <1>9, <2>1, ShareCounts DEF GetWork, WorkStates
<1>10. ASSUME NEW w \in Works, GoesStale(w) PROVE TallyInv'
  BY <1>10 DEF GoesStale, TallyInv, TallyTypes
<1>11. ASSUME NEW w \in Works, NoShare(w) PROVE TallyInv'
  BY <1>11, ShareSteps DEF NoShare, WorkStates
<1>12. ASSUME NEW w \in Works, SubmitShare(w) PROVE TallyInv'
  <2>1. CASE CountShare(w) /\ where' = [where EXCEPT ![w] = "none"]
    <3>1. tally[w] = 0
      BY <1>12 DEF SubmitShare, TallyInv, Tallied, OnTheWay
    <3>2. tally' = [tally EXCEPT ![w] = 1]
      BY <2>1, <3>1 DEF CountShare, TallyInv, TallyTypes
    <3>3. Tallied(w, "none", 1)
      BY DEF Tallied, OnTheWay
    <3> QED BY <2>1, <3>2, <3>3, ShareCounts DEF WorkStates
  <2>2. CASE UNCHANGED tally /\ where' = [where EXCEPT ![w] = "pop"]
    BY <1>12, <2>2, ShareSteps DEF SubmitShare, WorkStates, OnTheWay
  <2> QED BY <1>12, <2>1, <2>2 DEF SubmitShare
<1>13. ASSUME NEW w \in Works, SharePops(w) PROVE TallyInv'
  <2>1. \E next \in {"wait", "send"} : where' = [where EXCEPT ![w] = next]
    BY <1>13 DEF SharePops, PopCurl
  <2> QED BY <1>13, <2>1, ShareSteps DEF SharePops, PopCurl, WorkStates, OnTheWay
<1>14. ASSUME NEW w \in Works, Answered(w) PROVE TallyInv'
  <2>1. tally[w] = 0
    BY <1>14 DEF Answered, TallyInv, Tallied, OnTheWay
  <2>2. tally' = [tally EXCEPT ![w] = 1]
    BY <1>14, <2>1 DEF Answered, CountShare, TallyInv, TallyTypes
  <2>3. Tallied(w, "push", 1)
    BY DEF Tallied, OnTheWay
  <2> QED BY <1>14, <2>2, <2>3, ShareCounts DEF Answered, WorkStates
<1>15. ASSUME NEW w \in Works, CallFails(w) PROVE TallyInv'
  <2>1. CASE opt_lowmem
    BY <1>15, <2>1, ShareSteps DEF CallFails, WorkStates, OnTheWay
  <2>2. CASE ~opt_lowmem
    BY <1>15, <2>2, ShareSteps DEF CallFails, WorkStates, OnTheWay
  <2> QED BY <2>1, <2>2
<1>16. ASSUME NEW w \in Works, Retry(w) PROVE TallyInv'
  <2>1. CASE opt_lowmem
    BY <1>16, <2>1, ShareSteps DEF Retry, WorkStates, OnTheWay
  <2>2. CASE ~opt_lowmem /\ w \in stale
    <3>1. tally[w] = 0
      BY <1>16 DEF Retry, TallyInv, Tallied, OnTheWay
    <3>2. tally' = [tally EXCEPT ![w] = 1]
      BY <1>16, <2>2, <3>1 DEF Retry, CountShare, TallyInv, TallyTypes
    <3>3. Tallied(w, "push", 1)
      BY DEF Tallied, OnTheWay
    <3> QED BY <1>16, <2>2, <3>2, <3>3, ShareCounts DEF Retry, WorkStates
  <2>3. CASE ~opt_lowmem /\ w \notin stale
    BY <1>16, <2>3, ShareSteps DEF Retry, WorkStates, OnTheWay
  <2> QED BY <2>1, <2>2, <2>3
<1>17. ASSUME NEW w \in Works, SharePushes(w) PROVE TallyInv'
  BY <1>17, Pushes DEF SharePushes, Threads
<1> QED BY <1>1, <1>2, <1>3, <1>4, <1>5, <1>6, <1>7, <1>8, <1>9, <1>10, <1>11,
           <1>12, <1>13, <1>14, <1>15, <1>16, <1>17 DEF SubmitNext

----------------------------------------------------------------------------
\* submit_work_thread and share_result: however often a share is sent and fails
\* to be, it enters the statistics at most once, and it is not given up
\* uncounted but to save memory.
THEOREM SharesCountedOnce == SubmitSpec => []CountedOnce
<1>1. SubmitInit => TallyInv
  BY TallyInit
<1>2. TallyInv /\ [SubmitNext]_submitVars => TallyInv'
  BY TallySteps
<1>3. TallyInv => CountedOnce
  BY DEF TallyInv, CountedOnce, Tallied
<1> QED BY <1>1, <1>2, <1>3, PTL DEF SubmitSpec

----------------------------------------------------------------------------
(* The ring of curl handles.  HandlesCounted is not inductive: that a      *)
(* thread which takes a handle has none, and one which gives a handle back *)
(* has one, rests on where the threads are.                                *)

Holding == {"send", "get", "sleep", "push"}

UserTypes ==
    /\ where \in [Threads -> WorkStates \union MainStates]
    /\ ce \in [Threads -> Handles \union {NoHandle}]
    /\ \A t \in Threads : ce[t] # NoHandle <=> where[t] \in Holding
    /\ submit_fail \in BOOLEAN /\ stale \subseteq Works /\ live \subseteq Works

OneUser == \A s, t \in Threads : s # t /\ ce[s] # NoHandle => ce[s] # ce[t]

RingTypes ==
    /\ curlring \in Seq(Handles) /\ unused \in 0 .. Len(curlring)
    /\ curls \in 0 .. curl_limit
    /\ \A i, j \in DOMAIN curlring : i # j => curlring[i] # curlring[j]

HandlesApart == \A h \in InUse : h \notin ToSet(curlring)

CurlsCount == curls = Len(curlring) + Cardinality(InUse)

HandleInv == UserTypes /\ OneUser /\ RingTypes /\ HandlesApart /\ CurlsCount

LEMMA InUseFinite ==
    UserTypes => InUse \subseteq Handles /\ IsFiniteSet(InUse) /\ Cardinality(InUse) \in Nat
<1> SUFFICES ASSUME UserTypes
             PROVE  InUse \subseteq Handles /\ IsFiniteSet(InUse) /\ Cardinality(InUse) \in Nat
  OBVIOUS
<1>1. InUse \subseteq Handles
  BY DEF UserTypes, InUse
<1>2. IsFiniteSet(Handles)
  BY SubmitAssumption, FS_Interval DEF Handles
<1> QED BY <1>1, <1>2, FS_Subset, FS_CardinalityType

\* A thread that has no handle takes one that nobody has.
LEMMA Takes ==
    ASSUME HandleInv, NEW t \in Threads, ce[t] = NoHandle,
           NEW h \in Handles, h \notin InUse,
           ce' = [ce EXCEPT ![t] = h]
    PROVE  /\ ce' \in [Threads -> Handles \union {NoHandle}]
           /\ OneUser'
           /\ InUse' = InUse \union {h}
           /\ Cardinality(InUse') = Cardinality(InUse) + 1
<1>1. h # NoHandle
  BY SubmitAssumption DEF Handles
<1>2. /\ ce \in [Threads -> Handles \union {NoHandle}] /\ ce'[t] = h
      /\ ce' \in [Threads -> Handles \union {NoHandle}]
      /\ \A s \in Threads \ {t} : ce'[s] = ce[s]
  BY DEF HandleInv, UserTypes
<1>3. InUse' = InUse \union {h}
  BY <1>1, <1>2 DEF InUse
<1>4. OneUser'
  BY <1>1, <1>2 DEF HandleInv, OneUser, InUse
<1>5. Cardinality(InUse') = Cardinality(InUse) + 1
  BY <1>3, InUseFinite, FS_AddElement DEF HandleInv
<1> QED BY <1>2, <1>3, <1>4, <1>5

\* A thread gives the handle it has back.
LEMMA Gives ==
    ASSUME HandleInv, NEW t \in Threads, ce[t] # NoHandle,
           ce' = [ce EXCEPT ![t] = NoHandle]
    PROVE  /\ ce' \in [Threads -> Handles \union {NoHandle}]
           /\ OneUser'
           /\ ce[t] \in InUse
           /\ InUse' = InUse \ {ce[t]}
           /\ Cardinality(InUse') = Cardinality(InUse) - 1
<1>2. /\ ce \in [Threads -> Handles \union {NoHandle}] /\ ce'[t] = NoHandle
      /\ ce' \in [Threads -> Handles \union {NoHandle}]
      /\ \A s \in Threads \ {t} : ce'[s] = ce[s] /\ ce[s] # ce[t]
  BY DEF HandleInv, UserTypes, OneUser
<1>3. ce[t] \in InUse /\ InUse' = InUse \ {ce[t]}
  BY <1>2 DEF InUse
<1>4. OneUser'
  BY <1>2 DEF HandleInv, OneUser
<1>5. Cardinality(InUse') = Cardinality(InUse) - 1
  BY <1>3, InUseFinite, FS_RemoveElement DEF HandleInv
<1> QED BY <1>2, <1>3, <1>4, <1>5

\* A step in which no handle changes hands.
LEMMA NoHandleMoves ==
    ASSUME HandleInv, UNCHANGED <<ce, curlring, curls>>,
           unused' \in 0 .. Len(curlring),
           where' \in [Threads -> WorkStates \union MainStates],
           \A t \in Threads : where'[t] \in Holding <=> where[t] \in Holding,
           submit_fail' \in BOOLEAN, stale' \subseteq Works, live' \subseteq Works
    PROVE  HandleInv'
<1>1. UserTypes'
  BY DEF HandleInv, UserTypes
<1>2. OneUser' /\ RingTypes'
  BY DEF HandleInv, OneUser, RingTypes
<1>3. InUse' = InUse
  BY DEF InUse
<1>4. HandlesApart' /\ CurlsCount'
  BY <1>3 DEF HandleInv, HandlesApart, CurlsCount
<1> QED BY <1>1, <1>2, <1>4 DEF HandleInv

\* One thread goes on, without a handle or with the one it has.
LEMMA OneGoesOn ==
    ASSUME HandleInv, UNCHANGED <<ce, curlring, curls, unused>>,
           NEW t \in Threads, NEW next \in WorkStates \union MainStates,
           where' = [where EXCEPT ![t] = next],
           next \in Holding <=> where[t] \in Holding,
           submit_fail' \in BOOLEAN, stale' \subseteq Works, live' \subseteq Works
    PROVE  HandleInv'
<1>1. /\ where' \in [Threads -> WorkStates \union MainStates]
      /\ \A s \in Threads : where'[s] \in Holding <=> where[s] \in Holding
  BY DEF HandleInv, UserTypes
<1>2. unused' \in 0 .. Len(curlring)
  BY DEF HandleInv, RingTypes
<1> QED BY <1>1, <1>2, NoHandleMoves

LEMMA RingTakesHead ==
    ASSUME HandleInv, curlring # <<>>, curlring' = Tail(curlring),
           unused' = IF unused = 0 THEN 0 ELSE unused - 1, UNCHANGED curls
    PROVE  /\ RingTypes'
           /\ Len(curlring') = Len(curlring) - 1
           /\ Head(curlring) \in Handles /\ Head(curlring) \in ToSet(curlring)
           /\ Head(curlring) \notin ToSet(curlring')
           /\ ToSet(curlring') \subseteq ToSet(curlring)
<1>1. /\ curlring \in Seq(Handles) /\ DOMAIN curlring = 1 .. Len(curlring)
      /\ Len(curlring) \in Nat /\ Len(curlring) # 0 /\ Head(curlring) = curlring[1]
  BY DEF HandleInv, RingTypes
<1>2. /\ curlring' \in Seq(Handles) /\ Len(curlring') = Len(curlring) - 1
      /\ DOMAIN curlring' = 1 .. Len(curlring) - 1
      /\ \A i \in 1 .. Len(curlring) - 1 : curlring'[i] = curlring[i + 1]
  BY <1>1
<1>3. \A i \in 1 .. Len(curlring) - 1 : i + 1 \in DOMAIN curlring /\ i + 1 # 1
  BY <1>1
<1>4. 1 \in DOMAIN curlring
  BY <1>1
<1>5. /\ Head(curlring) \in Handles /\ Head(curlring) \in ToSet(curlring)
      /\ ToSet(curlring') \subseteq ToSet(curlring)
  BY <1>1, <1>2, <1>3, <1>4 DEF ToSet
<1>6. Head(curlring) \notin ToSet(curlring')
  <2>1. \A i \in 1 .. Len(curlring) - 1 : curlring[i + 1] # curlring[1]
    BY <1>3, <1>4 DEF HandleInv, RingTypes
  <2> QED BY <1>1, <1>2, <2>1 DEF ToSet
<1>7. \A i, j \in DOMAIN curlring' : i # j => curlring'[i] # curlring'[j]
  <2> SUFFICES ASSUME NEW i \in 1 .. Len(curlring) - 1, NEW j \in 1 .. Len(curlring) - 1, i # j
               PROVE  curlring[i + 1] # curlring[j + 1]
    BY <1>2
  <2>1. i + 1 # j + 1
    BY <1>1
  <2> QED BY <1>3, <2>1 DEF HandleInv, RingTypes
<1>8. unused' \in 0 .. Len(curlring')
  BY <1>1, <1>2 DEF HandleInv, RingTypes
<1> QED BY <1>2, <1>5, <1>6, <1>7, <1>8 DEF HandleInv, RingTypes

\* pop_curl_entry
LEMMA Pops ==
    ASSUME HandleInv, NEW t \in Threads, NEW next \in WorkStates \union MainStates,
           next \in Holding, PopCurl(t, next)
    PROVE  HandleInv'
<1>1. ce[t] = NoHandle /\ where[t] \notin Holding
  BY DEF PopCurl, HandleInv, UserTypes, Holding
<1>2. submit_fail' \in BOOLEAN /\ stale' \subseteq Works /\ live' \subseteq Works
  BY DEF PopCurl, HandleInv, UserTypes
<1>3. CASE where' = [where EXCEPT ![t] = "wait"] /\ UNCHANGED <<ce, curlring, curls, unused>>
  BY <1>1, <1>2, <1>3, OneGoesOn DEF WorkStates, Holding
<1>4. ASSUME NEW h \in Handles, ce' = [ce EXCEPT ![t] = h], h \notin InUse,
             where' = [where EXCEPT ![t] = next]
      PROVE  UserTypes'
  <2>1. ce' \in [Threads -> Handles \union {NoHandle}]
    BY <1>1, <1>4, Takes
  <2>2. h # NoHandle
    BY SubmitAssumption DEF Handles
  <2> QED BY <1>2, <1>4, <2>1, <2>2 DEF HandleInv, UserTypes
<1>5. CASE Recruit(t) /\ (curls = 0 \/ curls < curl_limit) /\ where' = [where EXCEPT ![t] = next]
  <2>1. PICK h \in Handles \ (InUse \union ToSet(curlring)) :
          /\ ce' = [ce EXCEPT ![t] = h] /\ curls' = curls + 1 /\ UNCHANGED <<curlring, unused>>
    BY <1>5 DEF Recruit
  <2>2. OneUser' /\ InUse' = InUse \union {h} /\ Cardinality(InUse') = Cardinality(InUse) + 1
    BY <1>1, <2>1, Takes
  <2>3. UserTypes'
    BY <1>4, <1>5, <2>1
  <2>4. RingTypes'
    BY <1>5, <2>1, SubmitAssumption DEF HandleInv, RingTypes
  <2>5. HandlesApart'
    BY <2>1, <2>2 DEF HandleInv, HandlesApart, ToSet
  <2>6. CurlsCount'
    BY <2>1, <2>2, InUseFinite DEF HandleInv, CurlsCount, RingTypes
  <2> QED BY <2>2, <2>3, <2>4, <2>5, <2>6 DEF HandleInv
<1>6. CASE curlring # <<>> /\ TakeHead(t) /\ where' = [where EXCEPT ![t] = next]
  <2> DEFINE h == Head(curlring)
  <2>1. /\ RingTypes' /\ Len(curlring') = Len(curlring) - 1
        /\ h \in Handles /\ h \in ToSet(curlring) /\ h \notin ToSet(curlring')
        /\ ToSet(curlring') \subseteq ToSet(curlring)
    BY <1>6, RingTakesHead DEF TakeHead
  <2>2. h \notin InUse
    BY <2>1 DEF HandleInv, HandlesApart
  <2>3. ce' = [ce EXCEPT ![t] = h] /\ UNCHANGED curls
    BY <1>6 DEF TakeHead
  <2> HIDE DEF h
  <2>4. OneUser' /\ InUse' = InUse \union {h} /\ Cardinality(InUse') = Cardinality(InUse) + 1
    BY <1>1, <2>1, <2>2, <2>3, Takes
  <2>5. UserTypes'
    BY <1>4, <1>6, <2>1, <2>2, <2>3
  <2>6. HandlesApart'
    BY <2>1, <2>4 DEF HandleInv, HandlesApart
  <2>7. CurlsCount'
    BY <2>1, <2>3, <2>4, InUseFinite DEF HandleInv, CurlsCount, RingTypes
  <2> QED BY <2>1, <2>4, <2>5, <2>6, <2>7 DEF HandleInv
<1> QED BY <1>3, <1>5, <1>6 DEF PopCurl

LEMMA RingAppends ==
    ASSUME HandleInv, NEW h \in Handles, h \notin ToSet(curlring),
           curlring' = Append(curlring, h), UNCHANGED <<unused, curls>>
    PROVE  /\ RingTypes'
           /\ Len(curlring') = Len(curlring) + 1
           /\ ToSet(curlring') = ToSet(curlring) \union {h}
<1>1. /\ curlring \in Seq(Handles) /\ DOMAIN curlring = 1 .. Len(curlring)
      /\ Len(curlring) \in Nat
  BY DEF HandleInv, RingTypes
<1>2. /\ curlring' \in Seq(Handles) /\ Len(curlring') = Len(curlring) + 1
      /\ DOMAIN curlring' = 1 .. Len(curlring) + 1
      /\ curlring'[Len(curlring) + 1] = h
      /\ \A i \in 1 .. Len(curlring) : curlring'[i] = curlring[i]
  BY <1>1
<1>3. ToSet(curlring') = ToSet(curlring) \union {h}
  BY <1>1, <1>2 DEF ToSet
<1>4. \A i \in 1 .. Len(curlring) : curlring[i] # h
  BY <1>1 DEF ToSet
<1>5. \A i, j \in DOMAIN curlring' : i # j => curlring'[i] # curlring'[j]
  <2> SUFFICES ASSUME NEW i \in 1 .. Len(curlring) + 1, NEW j \in 1 .. Len(curlring) + 1, i # j
               PROVE  curlring'[i] # curlring'[j]
    BY <1>2
  <2>1. CASE i \in 1 .. Len(curlring) /\ j \in 1 .. Len(curlring)
    BY <1>1, <1>2, <2>1 DEF HandleInv, RingTypes
  <2>2. CASE i = Len(curlring) + 1 /\ j \in 1 .. Len(curlring)
    BY <1>2, <1>4, <2>2
  <2>3. CASE j = Len(curlring) + 1 /\ i \in 1 .. Len(curlring)
    BY <1>2, <1>4, <2>3
  <2> QED BY <1>1, <2>1, <2>2, <2>3
<1>6. unused' \in 0 .. Len(curlring')
  BY <1>1, <1>2 DEF HandleInv, RingTypes
<1> QED BY <1>2, <1>3, <1>5, <1>6 DEF HandleInv, RingTypes

\* push_curl_entry
LEMMA PushesHandle ==
    ASSUME HandleInv, NEW t \in Threads, NEW next \in WorkStates \union MainStates,
           next \notin Holding, PushCurl(t, next),
           stale' \subseteq Works, live' \subseteq Works
    PROVE  HandleInv'
<1> DEFINE h == ce[t]
<1>1. /\ ce[t] # NoHandle /\ ce[t] \in Handles /\ where[t] = "push"
      /\ ce' = [ce EXCEPT ![t] = NoHandle] /\ curlring' = Append(curlring, ce[t])
      /\ UNCHANGED <<curls, unused, submit_fail>>
  BY DEF PushCurl, HandleInv, UserTypes, Holding
<1>2. /\ ce' \in [Threads -> Handles \union {NoHandle}] /\ OneUser'
      /\ h \in InUse /\ InUse' = InUse \ {h}
      /\ Cardinality(InUse') = Cardinality(InUse) - 1
  BY <1>1, Gives
<1>3. h \notin ToSet(curlring)
  BY <1>2 DEF HandleInv, HandlesApart
<1>4. /\ RingTypes' /\ Len(curlring') = Len(curlring) + 1
      /\ ToSet(curlring') = ToSet(curlring) \union {h}
  BY <1>1, <1>3, RingAppends
<1>5. UserTypes'
  <2>1. where' \in [Threads -> WorkStates \union MainStates]
    BY DEF PushCurl, HandleInv, UserTypes, WorkStates
  <2>2. ce'[t] = NoHandle /\ where'[t] = next
    BY <1>1 DEF PushCurl, HandleInv, UserTypes
  <2>3. ASSUME NEW s \in Threads \ {t}
        PROVE  ce'[s] = ce[s] /\ (where'[s] \in Holding <=> where[s] \in Holding)
    BY <1>1 DEF PushCurl, HandleInv, UserTypes, Holding
  <2> QED BY <1>1, <1>2, <2>1, <2>2, <2>3 DEF HandleInv, UserTypes
<1>6. HandlesApart'
  BY <1>2, <1>4 DEF HandleInv, HandlesApart
<1>7. CurlsCount'
  BY <1>1, <1>2, <1>4, InUseFinite DEF HandleInv, CurlsCount, RingTypes
<1> QED BY <1>2, <1>4, <1>5, <1>6, <1>7 DEF HandleInv

\* What is left of a sequence when its first n members are dropped.
LEMMA Dropped ==
    ASSUME NEW S, NEW s \in Seq(S), NEW n \in Nat, n <= Len(s),
           NEW t, t = SubSeq(s, n + 1, Len(s))
    PROVE  /\ t \in Seq(S) /\ Len(t) = Len(s) - n
           /\ \A i \in 1 .. Len(t) : n + i \in 1 .. Len(s) /\ t[i] = s[n + i]
<1>1. Len(s) \in Nat
  OBVIOUS
<1>2. \A i \in n + 1 .. Len(s) : i \in 1 .. Len(s) /\ s[i] \in S
  BY <1>1
<1>3. n + 1 \in Int /\ Len(s) \in Int
  BY <1>1
<1>4. /\ t \in Seq(S)
      /\ Len(t) = IF n + 1 <= Len(s) THEN Len(s) - (n + 1) + 1 ELSE 0
      /\ \A i \in 1 .. Len(s) - (n + 1) + 1 : t[i] = s[n + 1 + i - 1]
  BY <1>2, <1>3, SubSeqProperties
<1>5. Len(t) = Len(s) - n
  BY <1>1, <1>4
<1>6. ASSUME NEW i \in 1 .. Len(s) - n PROVE n + i \in 1 .. Len(s) /\ t[i] = s[n + i]
  <2>1. n + 1 + i - 1 = n + i /\ n + i \in 1 .. Len(s) /\ i \in 1 .. Len(s) - (n + 1) + 1
    BY <1>1
  <2> QED BY <1>4, <2>1
<1> QED BY <1>4, <1>5, <1>6

LEMMA Reaps == ASSUME HandleInv, ReapCurl PROVE HandleInv'
<1>1. /\ curlring \in Seq(Handles) /\ DOMAIN curlring = 1 .. Len(curlring)
      /\ Len(curlring) \in Nat /\ unused \in 0 .. Len(curlring)
      /\ curls \in 0 .. curl_limit /\ curl_limit \in Nat
      /\ Cardinality(InUse) \in Nat /\ curls = Len(curlring) + Cardinality(InUse)
  BY SubmitAssumption, InUseFinite DEF HandleInv, RingTypes, CurlsCount
<1>2. PICK n \in Nat : n = Reaped /\ n <= unused /\ n <= curls
  BY <1>1 DEF Reaped
<1>3. /\ curlring' = SubSeq(curlring, n + 1, Len(curlring))
      /\ curls' = curls - n /\ unused' = unused - n
      /\ UNCHANGED <<where, ce, submit_fail, stale, live>>
  BY <1>2 DEF ReapCurl
<1>4. n <= Len(curlring)
  BY <1>1, <1>2
<1>5. /\ curlring' \in Seq(Handles) /\ Len(curlring') = Len(curlring) - n
      /\ \A i \in 1 .. Len(curlring') :
            n + i \in 1 .. Len(curlring) /\ curlring'[i] = curlring[n + i]
  <2> DEFINE left == SubSeq(curlring, n + 1, Len(curlring))
  <2>1. curlring \in Seq(Handles)
    BY <1>1
  <2>2. /\ left \in Seq(Handles) /\ Len(left) = Len(curlring) - n
        /\ \A i \in 1 .. Len(left) : n + i \in 1 .. Len(curlring) /\ left[i] = curlring[n + i]
    BY <1>4, <2>1, Dropped
  <2>3. curlring' = left
    BY <1>3
  <2> HIDE DEF left
  <2> QED BY <2>2, <2>3
<1>6. DOMAIN curlring' = 1 .. Len(curlring')
  BY <1>5
<1>7. ToSet(curlring') \subseteq ToSet(curlring)
  BY <1>1, <1>5, <1>6 DEF ToSet
<1>8. ASSUME NEW i \in DOMAIN curlring', NEW j \in DOMAIN curlring', i # j
      PROVE  curlring'[i] # curlring'[j]
  <2>1. n + i # n + j
    BY <1>1, <1>5, <1>6, <1>8
  <2>2. \A a, b \in DOMAIN curlring : a # b => curlring[a] # curlring[b]
    BY DEF HandleInv, RingTypes
  <2> QED BY <1>1, <1>5, <1>6, <2>1, <2>2
<1>9. unused' \in 0 .. Len(curlring') /\ curls' \in 0 .. curl_limit
  <2> HIDE DEF Handles
  <2>1. unused - n \in 0 .. (Len(curlring) - n) /\ curls - n \in 0 .. curl_limit
    BY <1>1, <1>2
  <2> QED BY <1>3, <1>5, <2>1
<1>10. RingTypes'
  BY <1>5, <1>8, <1>9 DEF RingTypes
<1>11. InUse' = InUse /\ UserTypes' /\ OneUser'
  BY <1>3 DEF InUse, HandleInv, UserTypes, OneUser
<1>12. HandlesApart'
  BY <1>7, <1>11 DEF HandleInv, HandlesApart
<1>13. CurlsCount'
  <2>1. curls - n = (Len(curlring) - n) + Cardinality(InUse)
    BY <1>1
  <2> QED BY <1>3, <1>5, <1>11, <2>1 DEF CurlsCount
<1> QED BY <1>10, <1>11, <1>12, <1>13 DEF HandleInv

LEMMA HandleInit == SubmitInit => HandleInv
<1> SUFFICES ASSUME SubmitInit PROVE HandleInv
  OBVIOUS
<1>1. \A t \in Threads : ce[t] = NoHandle /\ where[t] \notin Holding
  BY DEF SubmitInit, Holding
<1>2. UserTypes
  BY <1>1 DEF SubmitInit, UserTypes, WorkStates, MainStates
<1>3. OneUser
  BY <1>1 DEF OneUser
<1>4. RingTypes
  BY SubmitAssumption DEF SubmitInit, RingTypes
<1>5. InUse = {}
  BY <1>1 DEF InUse
<1>6. HandlesApart /\ CurlsCount
  BY <1>5, FS_EmptySet DEF SubmitInit, HandlesApart, CurlsCount
<1> QED BY <1>2, <1>3, <1>4, <1>6 DEF HandleInv

LEMMA HandleSteps == HandleInv /\ [SubmitNext]_submitVars => HandleInv'
<1> SUFFICES ASSUME HandleInv, [SubmitNext]_submitVars PROVE HandleInv'
  OBVIOUS
<1>0. /\ where \in [Threads -> WorkStates \union MainStates]
      /\ submit_fail \in BOOLEAN /\ stale \subseteq Works /\ live \subseteq Works
      /\ unused \in 0 .. Len(curlring) /\ Len(curlring) \in Nat
      /\ Main \in Threads /\ Works \subseteq Threads
  BY DEF HandleInv, UserTypes, RingTypes, Threads
<1>1. CASE UNCHANGED submitVars
  BY <1>0, <1>1, NoHandleMoves DEF submitVars
<1>2. CASE Age
  BY <1>0, <1>2, NoHandleMoves DEF Age
<1>3. CASE ReapCurl
  BY <1>3, Reaps
<1>4. CASE MakeWork
  BY <1>0, <1>4, OneGoesOn DEF MakeWork, MainStates, Holding
<1>5. CASE MainPops
  BY <1>0, <1>5, Pops DEF MainPops, MainStates, Holding
<1>6. CASE GetFails
  BY <1>0, <1>6, OneGoesOn DEF GetFails, MainStates, Holding
<1>7. CASE MainSleeps
  BY <1>0, <1>7, OneGoesOn DEF MainSleeps, MainStates, Holding
<1>8. CASE MainPushes
  BY <1>0, <1>8, PushesHandle DEF MainPushes, MainStates, Holding
<1>9. ASSUME NEW w \in Works, GetWork(w) PROVE HandleInv'
  <2>1. where'[Main] = "push" /\ where'[w] = "mined"
        /\ \A t \in Threads \ {Main, w} : where'[t] = where[t]
    BY <1>0, <1>9, SubmitAssumption DEF GetWork
  <2>2. where' \in [Threads -> WorkStates \union MainStates]
    BY <1>0, <1>9 DEF GetWork, WorkStates, MainStates
  <2>3. \A t \in Threads : where'[t] \in Holding <=> where[t] \in Holding
    BY <1>9, <2>1 DEF GetWork, Holding
  <2>4. UNCHANGED <<ce, curlring, curls, unused, submit_fail>> /\ stale' \subseteq Works /\ live' \subseteq Works
    BY <1>0, <1>9 DEF GetWork
  <2> QED BY <1>0, <2>2, <2>3, <2>4, NoHandleMoves
<1>10. ASSUME NEW w \in Works, GoesStale(w) PROVE HandleInv'
  BY <1>0, <1>10, NoHandleMoves DEF GoesStale
<1>11. ASSUME NEW w \in Works, NoShare(w) PROVE HandleInv'
  BY <1>0, <1>11, OneGoesOn DEF NoShare, WorkStates, Holding
<1>12. ASSUME NEW w \in Works, SubmitShare(w) PROVE HandleInv'
  <2>1. PICK next \in {"none", "pop"} : where' = [where EXCEPT ![w] = next]
    BY <1>12 DEF SubmitShare
  <2>2. live' \subseteq Works /\ UNCHANGED <<ce, curlring, curls, unused, submit_fail, stale>>
    BY <1>0, <1>12 DEF SubmitShare
  <2>3. where[w] = "mined"
    BY <1>12 DEF SubmitShare
  <2> QED BY <1>0, <2>1, <2>2, <2>3, OneGoesOn DEF WorkStates, Holding
<1>13. ASSUME NEW w \in Works, SharePops(w) PROVE HandleInv'
  BY <1>0, <1>13, Pops DEF SharePops, WorkStates, Holding
<1>14. ASSUME NEW w \in Works, Answered(w) PROVE HandleInv'
  BY <1>0, <1>14, OneGoesOn DEF Answered, WorkStates, Holding
<1>15. ASSUME NEW w \in Works, CallFails(w) PROVE HandleInv'
  <2>1. PICK next \in {"push", "sleep"} : where' = [where EXCEPT ![w] = next]
    BY <1>15 DEF CallFails
  <2> QED BY <1>0, <1>15, <2>1, OneGoesOn DEF CallFails, WorkStates, Holding
<1>16. ASSUME NEW w \in Works, Retry(w) PROVE HandleInv'
  <2>1. PICK next \in {"push", "send"} : where' = [where EXCEPT ![w] = next]
    BY <1>16 DEF Retry
  <2>2. /\ live' \subseteq Works /\ UNCHANGED <<ce, curlring, curls, unused, submit_fail, stale>>
        /\ where[w] = "sleep"
    BY <1>0, <1>16 DEF Retry
  <2> QED BY <1>0, <2>1, <2>2, OneGoesOn DEF WorkStates, Holding
<1>17. ASSUME NEW w \in Works, SharePushes(w) PROVE HandleInv'
  BY <1>0, <1>17, PushesHandle DEF SharePushes, WorkStates, Holding
<1> QED BY <1>1, <1>2, <1>3, <1>4, <1>5, <1>6, <1>7, <1>8, <1>9, <1>10, <1>11,
           <1>12, <1>13, <1>14, <1>15, <1>16, <1>17 DEF SubmitNext

\* pop_curl_entry, push_curl_entry, recruit_curl and reap_curl: no handle is
\* lost or used by two threads, and pool->curls is the number of handles there
\* are, for any number of shares and any limit.
THEOREM HandlesAreCounted == SubmitSpec => []HandlesCounted
<1>1. SubmitInit => TallyInv /\ HandleInv
  BY TallyInit, HandleInit
<1>2. TallyInv /\ HandleInv /\ [SubmitNext]_submitVars => (TallyInv /\ HandleInv)'
  BY TallySteps, HandleSteps
<1>3. TallyInv /\ HandleInv => HandlesCounted
  <2> SUFFICES ASSUME TallyInv, HandleInv PROVE HandlesCounted
    OBVIOUS
  <2>1. tally \in [Works -> 0 .. 2]
    BY DEF TallyInv, TallyTypes, Tallied
  <2>2. SubmitTypeOK
    BY <2>1 DEF HandleInv, UserTypes, RingTypes, SubmitTypeOK
  <2>3. IsInjective(curlring)
    BY DEF HandleInv, RingTypes, IsInjective
  <2>4. InUse \cap ToSet(curlring) = {}
    BY DEF HandleInv, HandlesApart
  <2> QED BY <2>2, <2>3, <2>4 DEF HandleInv, OneUser, CurlsCount, HandlesCounted
<1> QED BY <1>1, <1>2, <1>3, PTL DEF SubmitSpec

----------------------------------------------------------------------------
(* What an accepted share sets off: the request for fresh work.            *)

Awake == fresh + outdated > 0 => \A m \in Miner : miner[m] # "getq"

FreshInv == FreshTypeOK /\ Awake

----------------------------------------------------------------------------
(* Its signals and pushes.                                                 *)

LEMMA SignalType ==
    ASSUME FreshTypeOK
    PROVE  /\ SignalGws \in {"check", "wait", "woken", "decide", "take", "make", "push"}
           /\ SignalGws = "push" <=> sched = "push"
  BY DEF SignalGws, FreshTypeOK

LEMMA OneOfType ==
    ASSUME NEW label, NEW W \in OneOf(label)
    PROVE  \A m \in W : m \in Miner /\ miner[m] = label
  BY DEF OneOf

\* hash_push leaves nobody asleep on getq->cond.
LEMMA PushWakes ==
    ASSUME FreshTypeOK, NEW work \in Staleness, hash_push(work)
    PROVE  /\ fresh' \in Nat /\ outdated' \in Nat
           /\ miner' \in [Miner -> {"pop", "getq", "popped", "mining", "scanned",
                                    "found", "wait", "woken"}]
           /\ \A m \in Miner : miner'[m] # "getq"
           /\ \A m \in Miner : held[m] = "none" <=> miner'[m] \in {"pop", "getq"}
<1>1. PICK W \in OneOf("wait") :
         miner' = [m \in Miner |-> IF miner[m] = "getq" THEN "pop"
                                   ELSE IF m \in W THEN "woken" ELSE miner[m]]
  BY DEF hash_push
<1>2. fresh' \in Nat /\ outdated' \in Nat
  BY DEF hash_push, FreshTypeOK
<1>3. \A m \in W : miner[m] = "wait"
  BY OneOfType
<1> QED BY <1>1, <1>2, <1>3 DEF FreshTypeOK

\* A step that neither moves a miner nor adds to the queue.
LEMMA MinersStay ==
    ASSUME FreshInv, UNCHANGED miner, FreshTypeOK',
           fresh' + outdated' > 0 => fresh + outdated > 0
    PROVE  FreshInv'
  BY DEF FreshInv, Awake

\* A miner goes on to a state that is not that of waiting to pop.
LEMMA MinerMoves ==
    ASSUME FreshInv, NEW m \in Miner, NEW to \in {"pop", "popped", "mining", "scanned",
                                              "found", "wait", "woken"},
           miner' = [miner EXCEPT ![m] = to], UNCHANGED stagedVars,
           \/ UNCHANGED held /\ to # "pop" /\ held[m] # "none"
           \/ to = "pop" /\ held' = [held EXCEPT ![m] = "none"],
           \/ UNCHANGED sched
           \/ sched' = SignalGws,
           UNCHANGED <<full, made, requested, answered>>,
           shares' \in 0 .. MaxShares
    PROVE  FreshInv'
<1>1. /\ sched' \in {"check", "wait", "woken", "decide", "take", "make", "push"}
      /\ sched' = "push" <=> sched = "push"
  BY SignalType DEF FreshInv, FreshTypeOK
<1>2. /\ miner' \in [Miner -> {"pop", "getq", "popped", "mining", "scanned",
                               "found", "wait", "woken"}]
      /\ held' \in [Miner -> Staleness]
  BY DEF FreshInv, FreshTypeOK, Staleness
<1>3. \A n \in Miner : held'[n] = "none" <=> miner'[n] \in {"pop", "getq"}
  BY <1>2 DEF FreshInv, FreshTypeOK
<1>4. FreshTypeOK'
  BY <1>1, <1>2, <1>3 DEF FreshInv, FreshTypeOK, stagedVars
<1>5. \A n \in Miner : miner'[n] = "getq" => miner[n] = "getq"
  BY DEF FreshInv, FreshTypeOK
<1> QED BY <1>4, <1>5 DEF FreshInv, Awake, stagedVars

----------------------------------------------------------------------------
LEMMA FreshInitially == FreshInit => FreshInv
<1> SUFFICES ASSUME FreshInit PROVE FreshInv
  OBVIOUS
<1>1. \A m \in Miner : miner[m] = "pop" /\ held[m] = "none"
  BY DEF FreshInit
<1>2. /\ fresh \in Nat /\ outdated \in Nat /\ shares \in 0 .. MaxShares /\ answered \in Nat
  BY FreshAssumption DEF FreshInit
<1>3. /\ miner \in [Miner -> {"pop", "getq", "popped", "mining", "scanned",
                              "found", "wait", "woken"}]
      /\ held \in [Miner -> Staleness]
  BY DEF FreshInit, Staleness
<1>4. /\ requested \in BOOLEAN /\ full \in BOOLEAN
      /\ made \in Staleness /\ (made # "none" <=> sched = "push")
      /\ sched \in {"check", "wait", "woken", "decide", "take", "make", "push"}
  BY DEF FreshInit, Staleness
<1>5. FreshTypeOK
  BY <1>1, <1>2, <1>3, <1>4 DEF FreshTypeOK
<1> QED BY <1>1, <1>5 DEF FreshInv, Awake, FreshInit

LEMMA SchedulerStep == ASSUME FreshInv, Scheduler PROVE FreshInv'
<1> USE DEF stagedVars, minerVars, shareVars, Staleness
<1>0. FreshTypeOK
  BY DEF FreshInv
<1>1. CASE Check
  <2>1. FreshTypeOK'
    BY <1>0, <1>1 DEF Check, FreshTypeOK, TooMany
  <2> QED BY <1>1, <2>1, MinersStay DEF Check
<1>2. CASE Woken
  <2>1. FreshTypeOK'
    BY <1>0, <1>2 DEF Woken, FreshTypeOK, TooMany
  <2> QED BY <1>2, <2>1, MinersStay DEF Woken
<1>3. CASE Decide
  <2>1. FreshTypeOK'
    BY <1>0, <1>3 DEF Decide, FreshTypeOK
  <2> QED BY <1>3, <2>1, MinersStay DEF Decide
<1>4. CASE TakeRequest
  <2>1. FreshTypeOK'
    BY <1>0, <1>4 DEF TakeRequest, FreshTypeOK
  <2> QED BY <1>4, <2>1, MinersStay DEF TakeRequest
<1>5. CASE Make
  <2>1. FreshTypeOK'
    BY <1>0, <1>5 DEF Make, FreshTypeOK
  <2> QED BY <1>5, <2>1, MinersStay DEF Make
<1>6. CASE StageWork
  <2>1. made \in Staleness
    BY <1>0 DEF FreshTypeOK
  <2>2. hash_push(made)
    BY <1>6 DEF StageWork
  <2>3. /\ fresh' \in Nat /\ outdated' \in Nat
        /\ miner' \in [Miner -> {"pop", "getq", "popped", "mining", "scanned",
                                 "found", "wait", "woken"}]
        /\ \A m \in Miner : miner'[m] # "getq"
        /\ \A m \in Miner : held[m] = "none" <=> miner'[m] \in {"pop", "getq"}
    BY <1>0, <2>1, <2>2, PushWakes
  <2>4. FreshTypeOK'
    BY <1>0, <1>6, <2>3 DEF StageWork, FreshTypeOK
  <2> QED BY <2>3, <2>4 DEF FreshInv, Awake
<1> QED BY <1>1, <1>2, <1>3, <1>4, <1>5, <1>6 DEF Scheduler

LEMMA MinerStep == ASSUME FreshInv, NEW m \in Miner, Mine(m) PROVE FreshInv'
<1> USE DEF schedVars, shareVars
<1>0. FreshTypeOK
  BY DEF FreshInv
\* The one miner that goes to sleep sees an empty queue.
<1>1. CASE HashPopWait(m)
  <2>1. FreshTypeOK'
    BY <1>0, <1>1 DEF HashPopWait, FreshTypeOK, stagedVars
  <2> QED BY <1>1, <2>1 DEF HashPopWait, FreshInv, Awake, stagedVars
<1>2. CASE HashPop(m)
  <2>1. PICK W \in OneOf("getq") :
           miner' = [n \in Miner |-> IF n = m THEN "popped"
                                     ELSE IF n \in W THEN "pop" ELSE miner[n]]
    BY <1>2 DEF HashPop
  <2>2. \A n \in W : miner[n] = "getq"
    BY OneOfType
  <2>3. miner[m] = "pop" /\ fresh + outdated > 0
    BY <1>0, <1>2 DEF HashPop, FreshTypeOK
  <2>4. /\ fresh' \in Nat /\ outdated' \in Nat
        /\ \E how \in {"fresh", "stale"} : held' = [held EXCEPT ![m] = how]
    BY <1>0, <1>2 DEF HashPop, FreshTypeOK
  <2>5. /\ miner' \in [Miner -> {"pop", "getq", "popped", "mining", "scanned",
                                 "found", "wait", "woken"}]
        /\ held' \in [Miner -> Staleness]
        /\ \A n \in Miner : held'[n] = "none" <=> miner'[n] \in {"pop", "getq"}
    BY <1>0, <2>1, <2>2, <2>4 DEF FreshTypeOK, Staleness
  <2>6. FreshTypeOK'
    BY <1>0, <1>2, <2>4, <2>5, SignalType DEF HashPop, FreshTypeOK
  <2>7. \A n \in Miner : miner'[n] # "getq"
    BY <2>1, <2>3 DEF FreshInv, Awake
  <2> QED BY <2>6, <2>7 DEF FreshInv, Awake
<1>3. CASE DiscardPopped(m)
  BY <1>0, <1>3, MinerMoves DEF DiscardPopped, FreshTypeOK
<1>4. CASE TakeWork(m)
  BY <1>0, <1>4, MinerMoves DEF TakeWork, FreshTypeOK
<1>5. CASE ScanNothing(m)
  BY <1>0, <1>5, MinerMoves DEF ScanNothing, FreshTypeOK
<1>6. CASE ScanFound(m)
  <2>1. shares' \in 0 .. MaxShares /\ held[m] # "none"
    BY <1>0, <1>6, FreshAssumption DEF ScanFound, FreshTypeOK
  <2> QED BY <1>6, <2>1, MinerMoves DEF ScanFound
<1>7. CASE Abandon(m)
  BY <1>0, <1>7, MinerMoves DEF Abandon, FreshTypeOK
<1>8. CASE ScanOn(m)
  BY <1>0, <1>8, MinerMoves DEF ScanOn, FreshTypeOK
<1>9. CASE AwaitFresh(m)
  BY <1>0, <1>9, MinerMoves DEF AwaitFresh, FreshTypeOK
<1>10. CASE FreshArrived(m)
  BY <1>0, <1>10, MinerMoves DEF FreshArrived, FreshTypeOK
<1> QED BY <1>1, <1>2, <1>3, <1>4, <1>5, <1>6, <1>7, <1>8, <1>9, <1>10 DEF Mine

LEMMA OtherSteps ==
    ASSUME FreshInv,
           \/ \E m \in Miner : HeldExpires(m)
           \/ ShareDropped \/ ShareAccepted \/ WakeGws
           \/ StagedExpires \/ MadeExpires
           \/ Watchdog \/ ClearPoolWork \/ LongPollPush
    PROVE  FreshInv'
<1> USE DEF stagedVars, schedVars, minerVars, shareVars, Staleness
<1>0. FreshTypeOK
  BY DEF FreshInv
<1>1. ASSUME NEW m \in Miner, HeldExpires(m) PROVE FreshInv'
  <2>1. FreshTypeOK'
    BY <1>0, <1>1 DEF HeldExpires, FreshTypeOK
  <2> QED BY <1>1, <2>1, MinersStay DEF HeldExpires
<1>2. CASE ShareDropped
  <2>1. FreshTypeOK'
    BY <1>0, <1>2, FreshAssumption DEF ShareDropped, FreshTypeOK
  <2> QED BY <1>2, <2>1, MinersStay DEF ShareDropped
<1>3. CASE ShareAccepted
  <2>1. FreshTypeOK'
    BY <1>0, <1>3, FreshAssumption DEF ShareAccepted, FreshTypeOK
  <2> QED BY <1>3, <2>1, MinersStay DEF ShareAccepted
<1>4. CASE WakeGws
  <2>1. FreshTypeOK'
    BY <1>0, <1>4, SignalType DEF WakeGws, FreshTypeOK
  <2> QED BY <1>4, <2>1, MinersStay DEF WakeGws
<1>5. CASE StagedExpires
  <2>1. FreshTypeOK' /\ fresh + outdated > 0
    BY <1>0, <1>5 DEF StagedExpires, FreshTypeOK
  <2> QED BY <1>5, <2>1, MinersStay DEF StagedExpires
<1>6. CASE MadeExpires
  <2>1. FreshTypeOK'
    BY <1>0, <1>6 DEF MadeExpires, FreshTypeOK
  <2> QED BY <1>6, <2>1, MinersStay DEF MadeExpires
<1>7. CASE Watchdog
  <2>1. FreshTypeOK'
    BY <1>0, <1>7, SignalType DEF Watchdog, FreshTypeOK
  <2>2. fresh' + outdated' > 0 => fresh + outdated > 0
    BY <1>0, <1>7 DEF Watchdog, FreshTypeOK
  <2> QED BY <1>7, <2>1, <2>2, MinersStay DEF Watchdog
<1>8. CASE ClearPoolWork
  <2>1. FreshTypeOK' /\ ~(fresh' + outdated' > 0)
    BY <1>0, <1>8 DEF ClearPoolWork, FreshTypeOK
  <2> QED BY <1>8, <2>1, MinersStay DEF ClearPoolWork
<1>9. CASE LongPollPush
  <2>1. hash_push("fresh")
    BY <1>9 DEF LongPollPush
  <2>2. /\ fresh' \in Nat /\ outdated' \in Nat
        /\ miner' \in [Miner -> {"pop", "getq", "popped", "mining", "scanned",
                                 "found", "wait", "woken"}]
        /\ \A m \in Miner : miner'[m] # "getq"
        /\ \A m \in Miner : held[m] = "none" <=> miner'[m] \in {"pop", "getq"}
    BY <1>0, <2>1, PushWakes
  <2>3. FreshTypeOK'
    BY <1>0, <1>9, <2>2, SignalType DEF LongPollPush, FreshTypeOK
  <2> QED BY <2>2, <2>3 DEF FreshInv, Awake
<1> QED BY <1>1, <1>2, <1>3, <1>4, <1>5, <1>6, <1>7, <1>8, <1>9

LEMMA FreshSteps == FreshInv /\ [FreshNext]_freshVars => FreshInv'
<1> SUFFICES ASSUME FreshInv, [FreshNext]_freshVars PROVE FreshInv'
  OBVIOUS
<1>1. CASE UNCHANGED freshVars
  BY <1>1 DEF freshVars, stagedVars, schedVars, minerVars, shareVars, FreshInv, FreshTypeOK, Awake
<1>2. CASE Scheduler
  BY <1>2, SchedulerStep
<1>3. ASSUME NEW m \in Miner, Mine(m) PROVE FreshInv'
  BY <1>3, MinerStep
<1> QED BY <1>1, <1>2, <1>3, OtherSteps DEF FreshNext

----------------------------------------------------------------------------
\* hash_pop and hash_push: no miner sleeps on getq->cond while something is
\* staged, whoever empties, fills and discards from the queue meanwhile.
THEOREM NoPopperSleeps == FreshSpec => []PoppersAwake
<1>1. FreshInit => FreshInv
  BY FreshInitially
<1>2. FreshInv /\ [FreshNext]_freshVars => FreshInv'
  BY FreshSteps
<1>3. FreshInv => PoppersAwake
  BY DEF FreshInv, Awake, PoppersAwake
<1> QED BY <1>1, <1>2, <1>3, PTL DEF FreshSpec

----------------------------------------------------------------------------
(* The connection of a stratum pool.                                       *)

Kinds == Messages \union {"subscribe", "authorize", "error"}
Cell == Nat \X (Kinds \union {"rest", "end"})

\* The cells are those of the lines from the n-th on, whole but for the last.
Follow(n, s) ==
    \A k \in Nat :
        /\ 3 * k + 1 \in DOMAIN s => s[3 * k + 1][1] = n + k /\ s[3 * k + 1][2] # "rest"
        /\ 3 * k + 2 \in DOMAIN s => s[3 * k + 2] = <<n + k, "rest">>
        /\ 3 * k + 3 \in DOMAIN s => s[3 * k + 3] = EndOfLine

Handling == {"subscribe", "auth", "main"}
Receiving == {"recv", "token", "noline"}
Connecting == {"restart", "setup", "subscribing", "refused", "unsubscribed", "authorizing", "restarted", "failed"}
Places == {"loop", "asleep", "dead"} \union Handling \union Receiving \union Connecting
Next1 == IF rt \in Handling \union {"refused"} THEN expected + 1 ELSE expected
Unread == sockbuf \o wire

ClientTypes ==
    /\ rt \in Places /\ stage \in Handling /\ (rt \in Handling => stage = rt)
    /\ wire \in Seq(Cell)
    /\ sock \in BOOLEAN /\ stratum_active \in BOOLEAN /\ nonce1 \in BOOLEAN /\ noresume \in BOOLEAN
    /\ torn \in BOOLEAN /\ closed \in BOOLEAN
    /\ snd \in {"idle", "clear", "close"}
    /\ asked \in {"nothing", "subscribe", "authorize"}
    /\ line \in Nat /\ expected \in Nat \ {0}
    /\ ~sock => wire = <<>>

\* restart_stratum has been called, first by the loop or by the main loop's
\* parse_reconnect and then by auth_stratum.
InLoop == rt \in {"loop", "asleep", "dead", "main"} \/ (rt \in Receiving /\ stage = "main")
CallsNest ==
    /\ calls \in Seq({"loop", "main", "auth"})
    /\ InLoop => calls = <<>>
    /\ ~InLoop => Len(calls) >= 1 /\ \A i \in 1 .. Len(calls) : (calls[i] = "auth" <=> i > 1)

\* Until the subscription is answered the pool is not active.
InSubscribe ==
    \/ rt \in {"setup", "subscribing", "subscribe", "refused", "unsubscribed"}
    \/ rt \in Receiving /\ stage = "subscribe"
ActiveSubscribed == (InSubscribe => ~stratum_active) /\ (stratum_active => nonce1)

\* What has not been handled are the next lines of this connection, all the
\* server has sent; before it is subscribed there is at most its answer.
Undisturbed ==
    /\ sockbuf \in Seq(Cell) /\ Follow(Next1, Unread)
    /\ sock => \/ Len(Unread) = 3 * (line + 1 - Next1)
               \/ (rt \in {"setup", "unsubscribed"} /\ asked = "nothing")
    /\ rt = "subscribing" => sock /\ Unread = <<>> /\ line = 0 /\ expected = 1 /\ asked = "nothing"
    /\ rt \in {"recv", "token"} /\ stage = "subscribe" =>
          \/ sock /\ asked = "subscribe" /\ Unread = <<>>
          \/ sock /\ asked = "nothing" /\ Len(Unread) = 3
    /\ rt \in {"subscribe", "refused"} => asked = "nothing" /\ Unread = <<>>
    /\ rt = "token" => HasLine
    /\ rt = "noline" => ~sock
    /\ rt \in Handling => Whole(tok) /\ tok[1][1] = expected

ClientInv ==
    /\ ClientTypes /\ CallsNest /\ ActiveSubscribed
    /\ snd # "idle" => torn
    /\ ~torn => Undisturbed

----------------------------------------------------------------------------
(* Lines and their cells.                                                  *)
LEMMA KindFacts == "rest" \notin Kinds
  BY ClientAssumption DEF Kinds

\* What is joined, by its cells.
Joined(a, b) ==
    /\ a \o b \in Seq(Cell)
    /\ Len(a) \in Nat /\ Len(b) \in Nat /\ Len(a \o b) = Len(a) + Len(b)
    /\ DOMAIN a = 1 .. Len(a) /\ DOMAIN b = 1 .. Len(b)
    /\ DOMAIN (a \o b) = 1 .. Len(a) + Len(b)
    /\ \A i \in 1 .. Len(a) : (a \o b)[i] = a[i]
    /\ \A i \in 1 .. Len(b) : (a \o b)[Len(a) + i] = b[i]
LEMMA JoinCells == ASSUME NEW a \in Seq(Cell), NEW b \in Seq(Cell) PROVE Joined(a, b)
<1>1. /\ Len(a) \in Nat /\ Len(b) \in Nat
      /\ DOMAIN a = 1 .. Len(a) /\ DOMAIN b = 1 .. Len(b)
  BY LenProperties
<1>2. /\ a \o b \in Seq(Cell) /\ Len(a \o b) = Len(a) + Len(b)
      /\ \A i \in 1 .. Len(a) + Len(b) : (a \o b)[i] = IF i <= Len(a) THEN a[i] ELSE b[i - Len(a)]
  BY ONLY a \in Seq(Cell), b \in Seq(Cell), ConcatProperties, Zenon
<1>3. DOMAIN (a \o b) = 1 .. Len(a) + Len(b)
  BY <1>2, LenProperties
<1> DEFINE c == a \o b
<1>4. \A i \in 1 .. Len(a) + Len(b) : c[i] = IF i <= Len(a) THEN a[i] ELSE b[i - Len(a)]
  BY <1>2
<1> HIDE DEF c
<1>5. \A i \in 1 .. Len(a) : c[i] = a[i]
  BY <1>1, <1>4
<1>6. ASSUME NEW i \in 1 .. Len(b) PROVE c[Len(a) + i] = b[i]
  <2>1. Len(a) + i \in 1 .. Len(a) + Len(b) /\ ~(Len(a) + i <= Len(a)) /\ (Len(a) + i) - Len(a) = i
    BY <1>1
  <2> QED BY <1>4, <2>1
<1> QED BY <1>1, <1>2, <1>3, <1>5, <1>6, Zenon DEF c, Joined

LEMMA CellFacts ==
  ASSUME NEW n \in Nat, NEW kind \in Kinds
  PROVE  /\ Cells(n, kind) \in Seq(Cell)
         /\ kind # "empty" => /\ Len(Cells(n, kind)) = 3
                              /\ Cells(n, kind)[1] = <<n, kind>>
                              /\ Cells(n, kind)[2] = <<n, "rest">>
                              /\ Cells(n, kind)[3] = EndOfLine
<1>1. <<n, kind>> \in Cell /\ <<n, "rest">> \in Cell /\ <<0, "end">> \in Cell
  BY DEF Cell
<1>2. CASE kind = "empty"
  <2>1. Cells(n, kind) = <<>> \o <<<<0, "end">>>>
    BY <1>2 DEF Cells, EndOfLine
  <2>2. <<<<0, "end">>>> \in Seq(Cell)
    BY <1>1
  <2> QED BY <1>2, <2>1, <2>2, ConcatEmptySeq
<1>3. CASE kind # "empty"
  <2> DEFINE a == <<n, kind>>
             b == <<n, "rest">>
             e == <<0, "end">>
  <2>1. Cells(n, kind) = <<a, b>> \o <<e>>
    BY <1>3 DEF Cells, EndOfLine
  <2>2. a \in Cell /\ b \in Cell /\ e \in Cell
    BY <1>1
  <2>3. e = EndOfLine
    BY DEF EndOfLine
  <2> HIDE DEF a, b, e
  <2> DEFINE p == <<a, b>>
             q == <<e>>
  <2>4. /\ p \in Seq(Cell) /\ Len(p) = 2 /\ p[1] = a /\ p[2] = b
        /\ q \in Seq(Cell) /\ Len(q) = 1 /\ q[1] = e
    BY <2>2
  <2> HIDE DEF p, q
  <2>5. /\ p \o q \in Seq(Cell) /\ Len(p \o q) = 3
        /\ (p \o q)[1] = p[1] /\ (p \o q)[2] = p[2] /\ (p \o q)[2 + 1] = q[1]
    <3>1. Joined(p, q)
      BY <2>4, JoinCells
    <3> QED BY <2>4, <3>1 DEF Joined
  <2>6. Cells(n, kind) \in Seq(Cell) /\ Len(Cells(n, kind)) = 3
        /\ Cells(n, kind)[1] = a /\ Cells(n, kind)[2] = b /\ Cells(n, kind)[3] = EndOfLine
    BY <2>1, <2>3, <2>4, <2>5 DEF p, q
  <2> QED BY <2>6, Zenon DEF a, b
<1> QED BY <1>2, <1>3

\* A line more.
IsLine(n, c) ==
    /\ c \in Seq(Cell) /\ Len(c) = 3
    /\ c[1][1] = n /\ c[1][2] # "rest" /\ c[2] = <<n, "rest">> /\ c[3] = EndOfLine
Follows(n, m, s) == s \in Seq(Cell) /\ Len(s) = 3 * m /\ Follow(n, s)
LEMMA FollowGrows ==
  ASSUME NEW n \in Nat, NEW m \in Nat, NEW s, Follows(n, m, s), NEW c, IsLine(n + m, c)
  PROVE  Follows(n, m + 1, s \o c)
<1>a. s \in Seq(Cell) /\ Len(s) = 3 * m /\ Follow(n, s)
  BY DEF Follows
<1>b. /\ c \in Seq(Cell) /\ Len(c) = 3
      /\ c[1][1] = n + m /\ c[1][2] # "rest" /\ c[2] = <<n + m, "rest">> /\ c[3] = EndOfLine
  BY DEF IsLine
<1> DEFINE t == s \o c
<1>0. Joined(s, c)
  BY <1>a, <1>b, JoinCells
<1>1. t \in Seq(Cell) /\ Len(t) = 3 * m + 3 /\ DOMAIN t = 1 .. 3 * m + 3 /\ DOMAIN s = 1 .. 3 * m
  BY <1>a, <1>b, <1>0 DEF Joined
<1>2. \A i \in 1 .. 3 * m : t[i] = s[i]
  BY <1>a, <1>b, <1>0 DEF Joined
<1>3. t[3 * m + 1] = c[1] /\ t[3 * m + 2] = c[2] /\ t[3 * m + 3] = c[3]
  <2>1. \A i \in 1 .. 3 : t[3 * m + i] = c[i]
    BY <1>a, <1>b, <1>0 DEF Joined
  <2> HIDE DEF t
  <2> QED BY <2>1
<1> HIDE DEF t
<1>4. ASSUME NEW k \in Nat
      PROVE  /\ 3 * k + 1 \in DOMAIN t => t[3 * k + 1][1] = n + k /\ t[3 * k + 1][2] # "rest"
             /\ 3 * k + 2 \in DOMAIN t => t[3 * k + 2] = <<n + k, "rest">>
             /\ 3 * k + 3 \in DOMAIN t => t[3 * k + 3] = EndOfLine
  <2>1. CASE k < m
    <3>1. 3 * k + 1 \in DOMAIN s /\ 3 * k + 2 \in DOMAIN s /\ 3 * k + 3 \in DOMAIN s
      BY <1>1, <2>1
    <3>2. t[3 * k + 1] = s[3 * k + 1] /\ t[3 * k + 2] = s[3 * k + 2] /\ t[3 * k + 3] = s[3 * k + 3]
      BY <1>1, <1>2, <3>1
    <3> QED BY <1>a, <3>1, <3>2 DEF Follow
  <2>2. CASE k = m
    BY <1>a, <1>b, <1>3, <2>2
  <2>3. CASE k > m
    BY <1>1, <2>3
  <2> QED BY <2>1, <2>2, <2>3
<1>5. Follow(n, t)
  BY <1>4, Zenon DEF Follow
<1>6. t \in Seq(Cell) /\ Len(t) = 3 * (m + 1)
  BY <1>1
<1> QED BY <1>5, <1>6 DEF t, Follows

\* A line less.
LEMMA FollowShrinks ==
  ASSUME NEW n \in Nat, NEW s \in Seq(Cell), NEW t \in Seq(Cell), Follow(n, s),
         Len(s) = Len(t) + 3, \A i \in 1 .. Len(t) : t[i] = s[i + 3]
  PROVE  Follow(n + 1, t)
<1>1. DOMAIN s = 1 .. Len(t) + 3 /\ DOMAIN t = 1 .. Len(t) /\ Len(t) \in Nat
  BY LenProperties
<1>2. ASSUME NEW k \in Nat
      PROVE  /\ 3 * k + 1 \in DOMAIN t => t[3 * k + 1][1] = (n + 1) + k /\ t[3 * k + 1][2] # "rest"
             /\ 3 * k + 2 \in DOMAIN t => t[3 * k + 2] = <<(n + 1) + k, "rest">>
             /\ 3 * k + 3 \in DOMAIN t => t[3 * k + 3] = EndOfLine
  <2>1. k + 1 \in Nat /\ (n + 1) + k = n + (k + 1)
        /\ 3 * (k + 1) + 1 = (3 * k + 1) + 3 /\ 3 * (k + 1) + 2 = (3 * k + 2) + 3
        /\ 3 * (k + 1) + 3 = (3 * k + 3) + 3
    OBVIOUS
  <2>2. /\ (3 * k + 1) + 3 \in DOMAIN s => s[(3 * k + 1) + 3][1] = n + (k + 1) /\ s[(3 * k + 1) + 3][2] # "rest"
        /\ (3 * k + 2) + 3 \in DOMAIN s => s[(3 * k + 2) + 3] = <<n + (k + 1), "rest">>
        /\ (3 * k + 3) + 3 \in DOMAIN s => s[(3 * k + 3) + 3] = EndOfLine
    BY <2>1 DEF Follow
  <2>3. \A i \in {3 * k + 1, 3 * k + 2, 3 * k + 3} :
          i \in DOMAIN t => i + 3 \in DOMAIN s /\ t[i] = s[i + 3]
    BY <1>1
  <2> QED BY <2>1, <2>2, <2>3
<1> QED BY <1>2, Zenon DEF Follow

LEMMA FollowNothing == \A n \in Nat : Follow(n, <<>>)
  BY DEF Follow

\* strtok takes the first of the lines.
LEMMA TokenFacts ==
  ASSUME NEW n \in Nat \ {0}, NEW w \in Seq(Cell), sockbuf \in Seq(Cell), Follow(n, sockbuf \o w), HasLine
  PROVE  /\ Leading = 0 /\ TokenLen = 2 /\ Len(sockbuf) >= 3
         /\ Whole(SubSeq(sockbuf, 1, 2)) /\ SubSeq(sockbuf, 1, 2)[1][1] = n
         /\ SubSeq(sockbuf, 4, Len(sockbuf)) \in Seq(Cell)
         /\ Follow(n + 1, SubSeq(sockbuf, 4, Len(sockbuf)) \o w)
         /\ Len(SubSeq(sockbuf, 4, Len(sockbuf)) \o w) = Len(sockbuf \o w) - 3
<1> DEFINE L == Len(sockbuf)
           s == sockbuf \o w
<1>0. L \in Nat /\ DOMAIN sockbuf = 1 .. L /\ Len(w) \in Nat /\ DOMAIN w = 1 .. Len(w)
  BY LenProperties
<1>1. s \in Seq(Cell) /\ Len(s) = L + Len(w) /\ DOMAIN s = 1 .. L + Len(w)
      /\ \A i \in 1 .. L : s[i] = sockbuf[i]
  BY ConcatProperties, LenProperties
<1>2. /\ 1 \in DOMAIN s => s[1][1] = n /\ s[1][2] # "rest"
      /\ 2 \in DOMAIN s => s[2] = <<n, "rest">>
      /\ 3 \in DOMAIN s => s[3] = EndOfLine
  <2>1. PICK k \in Nat : k = 0
    OBVIOUS
  <2>2. 3 * k + 1 = 1 /\ 3 * k + 2 = 2 /\ 3 * k + 3 = 3 /\ n + k = n
    BY <2>1
  <2> HIDE DEF s
  <2>3. /\ 3 * k + 1 \in DOMAIN s => s[3 * k + 1][1] = n + k /\ s[3 * k + 1][2] # "rest"
        /\ 3 * k + 2 \in DOMAIN s => s[3 * k + 2] = <<n + k, "rest">>
        /\ 3 * k + 3 \in DOMAIN s => s[3 * k + 3] = EndOfLine
    BY DEF Follow, s
  <2> QED BY <2>2, <2>3
<1> HIDE DEF s
<1>3. (1 <= L => sockbuf[1][1] = n /\ sockbuf[1][2] # "rest") /\ (2 <= L => sockbuf[2] = <<n, "rest">>)
      /\ (3 <= L => sockbuf[3] = EndOfLine)
  BY <1>0, <1>1, <1>2
<1>4. (1 <= L => sockbuf[1] # EndOfLine) /\ (2 <= L => sockbuf[2] # EndOfLine)
  <2>1. EndOfLine[1] = 0
    BY DEF EndOfLine
  <2> QED BY <1>3, <2>1
<1>5. L >= 3
  <2>1. PICK i \in DOMAIN sockbuf : sockbuf[i] = EndOfLine
    BY DEF HasLine
  <2> QED BY <1>0, <1>4, <2>1
<1>6. Leading = 0
  <2> DEFINE P(m) == /\ \A i \in 1 .. m : sockbuf[i] = EndOfLine
                     /\ m < Len(sockbuf) => sockbuf[m + 1] # EndOfLine
  <2>1. P(0) /\ 0 \in 0 .. L
    BY <1>0, <1>4, <1>5
  <2>2. \A m \in 0 .. L : P(m) => m = 0
    BY <1>0, <1>4, <1>5
  <2>3. Leading = CHOOSE m \in 0 .. L : P(m)
    BY DEF Leading
  <2> HIDE DEF P
  <2> QED BY <2>1, <2>2, <2>3
<1>7. TokenLen = 2
  <2> DEFINE P(m) == /\ \A i \in 1 .. m : sockbuf[0 + i] # EndOfLine
                     /\ 0 + m < Len(sockbuf) => sockbuf[0 + m + 1] = EndOfLine
  <2>1. P(2) /\ 2 \in 0 .. L - 0
    BY <1>0, <1>3, <1>4, <1>5
  <2>2. \A m \in 0 .. L - 0 : P(m) => m = 2
    BY <1>0, <1>3, <1>4, <1>5
  <2>3. TokenLen = CHOOSE m \in 0 .. L - 0 : P(m)
    BY <1>6 DEF TokenLen
  <2> HIDE DEF P
  <2> QED BY <2>1, <2>2, <2>3
<1>8. Whole(SubSeq(sockbuf, 1, 2)) /\ SubSeq(sockbuf, 1, 2)[1][1] = n
  <2>1. Len(SubSeq(sockbuf, 1, 2)) = 2 /\ SubSeq(sockbuf, 1, 2)[1] = sockbuf[1]
        /\ SubSeq(sockbuf, 1, 2)[2] = sockbuf[2]
    BY <1>0, <1>5
  <2>2. sockbuf[2][1] = n /\ sockbuf[2][2] = "rest" /\ sockbuf[1][1] = n /\ sockbuf[1][2] # "rest"
    BY <1>0, <1>3, <1>5
  <2> QED BY <2>1, <2>2 DEF Whole
<1> DEFINE r == SubSeq(sockbuf, 4, L)
           t == r \o w
<1>9. r \in Seq(Cell) /\ Len(r) = L - 3 /\ \A i \in 1 .. L - 3 : r[i] = sockbuf[i + 3]
  BY <1>0, <1>5
<1>10. t \in Seq(Cell) /\ Len(t) = Len(s) - 3 /\ \A i \in 1 .. Len(t) : t[i] = s[i + 3]
  <2> HIDE DEF r
  <2>1. /\ t \in Seq(Cell) /\ Len(t) = (L - 3) + Len(w)
        /\ \A i \in 1 .. L - 3 : t[i] = r[i]
        /\ \A i \in 1 .. Len(w) : t[(L - 3) + i] = w[i]
    <3>1. Joined(r, w)
      BY <1>9, JoinCells
    <3> HIDE DEF r
    <3> QED BY <1>9, <3>1 DEF Joined
  <2>2. \A i \in 1 .. Len(w) : s[L + i] = w[i]
    <3>1. Joined(sockbuf, w)
      BY JoinCells
    <3> QED BY <3>1 DEF Joined, s
  <2> HIDE DEF t
  <2>3. ASSUME NEW i \in 1 .. Len(t) PROVE t[i] = s[i + 3]
    <3>2. CASE i <= L - 3
      <4>1. i \in 1 .. L - 3 /\ i + 3 \in 1 .. L
        BY <1>0, <1>5, <2>1, <3>2
      <4> QED BY <1>1, <1>9, <2>1, <4>1
    <3>3. CASE ~(i <= L - 3)
      <4>1. PICK j \in 1 .. Len(w) : i = (L - 3) + j
        <5>1. i - (L - 3) \in 1 .. Len(w) /\ i = (L - 3) + (i - (L - 3))
          BY <1>0, <1>5, <2>1, <3>3
        <5> QED BY <5>1
      <4>2. i + 3 = L + j
        BY <1>0, <4>1
      <4> QED BY <2>1, <2>2, <4>1, <4>2
    <3> QED BY <3>2, <3>3
  <2> QED BY <1>0, <1>1, <2>1, <2>3
<1>11. Follow(n + 1, t)
  <2>1. Follow(n, s)
    BY DEF s
  <2>2. Len(s) = Len(t) + 3
    BY <1>0, <1>1, <1>10
  <2> HIDE DEF t, r
  <2> QED BY <1>1, <1>10, <2>1, <2>2, FollowShrinks
<1> QED BY <1>5, <1>6, <1>7, <1>8, <1>9, <1>10, <1>11 DEF s

\* Receiving moves cells from the wire to the buffer.
LEMMA RecvFacts ==
  ASSUME sockbuf \in Seq(Cell), wire \in Seq(Cell), NEW n \in 1 .. Len(wire)
  PROVE  /\ sockbuf \o SubSeq(wire, 1, n) \in Seq(Cell)
         /\ SubSeq(wire, n + 1, Len(wire)) \in Seq(Cell)
         /\ (sockbuf \o SubSeq(wire, 1, n)) \o SubSeq(wire, n + 1, Len(wire)) = sockbuf \o wire
<1> DEFINE a == SubSeq(wire, 1, n)
           b == SubSeq(wire, n + 1, Len(wire))
<1>0. Len(wire) \in Nat /\ n \in Nat
  BY LenProperties
<1>1. a \in Seq(Cell) /\ b \in Seq(Cell)
  BY <1>0
<1>2. a \o b = wire
  BY <1>0, ConcatAdjacentSubSeq, SubSeqFull
<1> HIDE DEF a, b
<1>3. sockbuf \o a \in Seq(Cell)
  <2>1. Joined(sockbuf, a)
    BY <1>1, JoinCells
  <2> QED BY <2>1 DEF Joined
<1>4. (sockbuf \o a) \o b = sockbuf \o (a \o b)
  <2>1. sockbuf \in Seq(Cell)
    OBVIOUS
  <2> QED BY ONLY <1>1, <2>1, ConcatAssociative


<1> QED BY <1>1, <1>2, <1>3, <1>4 DEF a, b

LEMMA FollowPrefix ==
  ASSUME NEW n \in Nat, NEW a \in Seq(Cell), NEW b \in Seq(Cell), Follow(n, a \o b)
  PROVE  Follow(n, a) /\ a \o <<>> = a
<1> DEFINE s == a \o b
<1>0. Joined(a, b)
  BY JoinCells
<1>1. /\ Len(a) \in Nat /\ DOMAIN a = 1 .. Len(a) /\ DOMAIN a \subseteq DOMAIN s
      /\ \A i \in DOMAIN a : s[i] = a[i]
  BY <1>0 DEF Joined
<1>2. Follow(n, s)
  OBVIOUS
<1> HIDE DEF s
<1>3. ASSUME NEW k \in Nat
      PROVE  /\ 3 * k + 1 \in DOMAIN a => a[3 * k + 1][1] = n + k /\ a[3 * k + 1][2] # "rest"
             /\ 3 * k + 2 \in DOMAIN a => a[3 * k + 2] = <<n + k, "rest">>
             /\ 3 * k + 3 \in DOMAIN a => a[3 * k + 3] = EndOfLine
  <2>1. /\ 3 * k + 1 \in DOMAIN s => s[3 * k + 1][1] = n + k /\ s[3 * k + 1][2] # "rest"
        /\ 3 * k + 2 \in DOMAIN s => s[3 * k + 2] = <<n + k, "rest">>
        /\ 3 * k + 3 \in DOMAIN s => s[3 * k + 3] = EndOfLine
    BY <1>2 DEF Follow
  <2> QED BY <1>1, <2>1
<1>4. Follow(n, a)
  BY <1>3, Zenon DEF Follow
<1> QED BY <1>4, ConcatEmptySeq

\* What restart_stratum returns to.
LEMMA PopFacts ==
  ASSUME NEW S, NEW s \in Seq(S), Len(s) >= 1
  PROVE  /\ SubSeq(s, 1, Len(s) - 1) \in Seq(S)
         /\ Len(SubSeq(s, 1, Len(s) - 1)) = Len(s) - 1
         /\ \A i \in 1 .. Len(s) - 1 : SubSeq(s, 1, Len(s) - 1)[i] = s[i]
<1>1. Len(s) \in Nat /\ \A i \in 1 .. Len(s) : s[i] \in S
  BY LenProperties, ElementOfSeq
<1> DEFINE n == Len(s) - 1
           t == SubSeq(s, 1, n)
<1>2. 1 \in Int /\ n \in Int /\ \A i \in 1 .. n : s[i] \in S
  BY <1>1
<1>3. t \in Seq(S) /\ Len(t) = (IF 1 <= n THEN n - 1 + 1 ELSE 0) /\ \A i \in 1 .. n - 1 + 1 : t[i] = s[1 + i - 1]
  <2> HIDE DEF n
  <2> QED BY <1>2, SubSeqProperties
<1>4. n \in Nat /\ n - 1 + 1 = n /\ (IF 1 <= n THEN n - 1 + 1 ELSE 0) = n
  <2>1. n \in Nat
    BY <1>1
  <2> HIDE DEF n
  <2> QED BY <2>1
<1>5. \A i \in 1 .. n : s[1 + i - 1] = s[i]
  BY <1>4
<1> HIDE DEF t
<1> QED BY <1>3, <1>4, <1>5 DEF t

----------------------------------------------------------------------------
(* The steps.                                                              *)
LEMMA ClientInitially == ClientInit => ClientInv
<1> SUFFICES ASSUME ClientInit PROVE ClientInv
  OBVIOUS
<1>1. ClientTypes
  <2>1. <<>> \in Seq(Cell)
    BY EmptySeq
  <2>2. expected = 1 /\ line = 0 /\ rt = "restart" /\ stage = "main" /\ snd = "idle"
    BY Zenon DEF ClientInit
  <2>3. /\ noresume \in BOOLEAN /\ sock \in BOOLEAN /\ stratum_active \in BOOLEAN
        /\ stratum_notify \in BOOLEAN /\ nonce1 \in BOOLEAN /\ ofSession \in BOOLEAN
        /\ needed \in BOOLEAN /\ closed \in BOOLEAN /\ torn \in BOOLEAN
    BY Zenon DEF ClientInit
  <2>4. tok = <<>> /\ sockbuf = <<>> /\ wire = <<>> /\ calls = <<"loop">> /\ asked = "nothing"
    BY Zenon DEF ClientInit
  <2> QED BY <2>1, <2>2, <2>3, <2>4 DEF ClientTypes, Places, Handling, Connecting
<1>2. CallsNest
  BY DEF ClientInit, CallsNest, InLoop, Receiving
<1>3. ActiveSubscribed
  BY DEF ClientInit, ActiveSubscribed, InSubscribe, Receiving
<1>4. Undisturbed
  <2>1. Unread = <<>> /\ Next1 = expected
    BY DEF ClientInit, Unread, Next1, Handling
  <2> QED BY <2>1, FollowNothing DEF ClientInit, Undisturbed, Handling
<1> QED BY <1>1, <1>2, <1>3, <1>4 DEF ClientInit, ClientInv

\* All but the lines.
Plain == ClientTypes /\ CallsNest /\ ActiveSubscribed /\ (snd # "idle" => torn)

\* A connection is set up, or that fails.
LEMMA SetupFailsLines ==
  ASSUME Plain, ~torn => Undisturbed, SetupFails, ~torn'
  PROVE  Undisturbed'
<1>1. /\ rt = "setup" /\ rt' = "failed" /\ sock' = FALSE /\ wire' = <<>> /\ ~torn
      /\ sockbuf' = sockbuf /\ expected' = expected
  BY DEF SetupFails, Goes, NoServer
<1>2. Follow(expected, sockbuf \o wire)
  BY <1>1 DEF Undisturbed, Next1, Unread, Handling
<1>3. Follow(expected, sockbuf \o <<>>)
  <2>1. sockbuf \in Seq(Cell) /\ wire \in Seq(Cell)
    BY <1>1 DEF Plain, ClientTypes, Undisturbed
  <2> QED BY <1>2, <2>1, FollowPrefix DEF Plain, ClientTypes
<1> QED BY <1>1, <1>3 DEF Undisturbed, Next1, Unread, Handling

LEMMA SetupStep ==
  ASSUME Plain, ~torn => Undisturbed, setup_stratum_socket
  PROVE  Plain' /\ (~torn' => Undisturbed')
<1>1. /\ rt = "setup" /\ rt' = "subscribing" /\ sock' = TRUE /\ stratum_active' = FALSE
      /\ wire' = <<>> /\ closed' = FALSE /\ asked' = "nothing" /\ line' = 0
      /\ expected' = 1 /\ torn' = (snd # "idle" \/ sockbuf # <<>>)
      /\ UNCHANGED <<calls, stage, noresume, tok, sockbuf, stratum_notify, nonce1, ofSession, snd>>
  BY DEF setup_stratum_socket, Goes, NoServer
<1>2. torn' \in BOOLEAN /\ (~torn' => snd = "idle" /\ sockbuf = <<>>) /\ (snd # "idle" => torn')
  BY <1>1, Zenon
<1>3. ClientTypes'
  <2>1. sock' \in BOOLEAN /\ stratum_active' \in BOOLEAN /\ closed' \in BOOLEAN /\ sock'
    BY <1>1, Zenon
  <2>2. wire' \in Seq(Cell) /\ asked' \in {"nothing", "subscribe", "authorize"} /\ line' \in Nat
        /\ expected' \in Nat \ {0}
    BY <1>1
  <2> QED BY <1>1, <1>2, <2>1, <2>2 DEF Plain, ClientTypes, Places, Connecting, Handling
<1>4. CallsNest'
  BY <1>1 DEF Plain, CallsNest, InLoop, Receiving
<1>5. ActiveSubscribed'
  BY <1>1 DEF ActiveSubscribed
<1>6. ASSUME ~torn' PROVE Undisturbed'
  <2>1. Unread' = <<>> /\ Next1' = 1
    BY <1>1, <1>2, <1>6 DEF Unread, Next1, Handling
  <2>2. Follow(Next1', Unread')
    BY <2>1, FollowNothing
  <2>3. sock'
    BY <1>1, Zenon
  <2>4. sockbuf' \in Seq(Cell)
    BY <1>1, <1>2, <1>6
  <2> QED BY <1>1, <2>1, <2>2, <2>3, <2>4 DEF Undisturbed, Handling
<1> QED BY <1>1, <1>2, <1>3, <1>4, <1>5, <1>6 DEF Plain

LEMMA RestartOkPlain == ASSUME Plain, RestartOk PROVE Plain'
<1>1. calls \in Seq({"loop", "main", "auth"}) /\ Len(calls) >= 1
      /\ \A i \in 1 .. Len(calls) : (calls[i] = "auth" <=> i > 1)
  BY DEF RestartOk, Plain, CallsNest, InLoop, Receiving
<1>2. calls' = SubSeq(calls, 1, Len(calls) - 1)
  BY DEF RestartOk, Returned
<1>3. calls' \in Seq({"loop", "main", "auth"}) /\ Len(calls') = Len(calls) - 1
      /\ \A i \in 1 .. Len(calls') : calls'[i] = calls[i]
  BY <1>1, <1>2, PopFacts
<1>4. Caller = "auth" <=> Len(calls) > 1
  BY <1>1 DEF Caller
<1>5. ClientTypes' /\ ActiveSubscribed' /\ (snd' # "idle" => torn')
  BY DEF RestartOk, Plain, ClientTypes, ActiveSubscribed, InSubscribe, Places, Handling,
     Receiving, poolVars, serverVars
<1>6. CallsNest'
  <2>1. CASE Caller = "auth"
    <3>1. rt' = "recv" /\ stage' = "auth"
      BY <2>1 DEF RestartOk
    <3>2. Len(calls') >= 1 /\ \A i \in 1 .. Len(calls') : (calls'[i] = "auth" <=> i > 1)
      BY <1>1, <1>3, <1>4, <2>1
    <3> QED BY <1>3, <3>1, <3>2 DEF CallsNest, InLoop, Receiving
  <2>2. CASE Caller # "auth"
    <3>1. rt' = "loop"
      BY <2>2 DEF RestartOk
    <3>2. calls' = <<>>
      BY <1>1, <1>3, <1>4, <2>2
    <3> QED BY <1>3, <3>1, <3>2 DEF CallsNest, InLoop
  <2> QED BY <2>1, <2>2
<1> QED BY <1>5, <1>6 DEF Plain

LEMMA RestartFailsPlain == ASSUME Plain, RestartFails PROVE Plain'
<1>1. calls \in Seq({"loop", "main", "auth"}) /\ Len(calls) >= 1
      /\ \A i \in 1 .. Len(calls) : (calls[i] = "auth" <=> i > 1)
  BY DEF RestartFails, Plain, CallsNest, InLoop, Receiving
<1>2. calls' = SubSeq(calls, 1, Len(calls) - 1)
  BY DEF RestartFails, Returned
<1>3. calls' \in Seq({"loop", "main", "auth"}) /\ Len(calls') = Len(calls) - 1
      /\ \A i \in 1 .. Len(calls') : calls'[i] = calls[i]
  BY <1>1, <1>2, PopFacts
<1>4. Caller = "auth" <=> Len(calls) > 1
  BY <1>1 DEF Caller
<1>5. ClientTypes' /\ ActiveSubscribed' /\ (snd' # "idle" => torn')
  BY DEF RestartFails, Plain, ClientTypes, ActiveSubscribed, InSubscribe, Places, Handling,
     Receiving, Connecting, poolVars, serverVars
<1>6. CallsNest'
  <2>1. CASE Caller = "auth"
    <3>1. rt' = "failed"
      BY <2>1 DEF RestartFails
    <3>2. Len(calls') >= 1 /\ \A i \in 1 .. Len(calls') : (calls'[i] = "auth" <=> i > 1)
      BY <1>1, <1>3, <1>4, <2>1
    <3> QED BY <1>3, <3>1, <3>2 DEF CallsNest, InLoop, Receiving
  <2>2. CASE Caller # "auth"
    <3>1. rt' \in {"loop", "dead"}
      BY <2>2 DEF RestartFails
    <3>2. calls' = <<>>
      BY <1>1, <1>3, <1>4, <2>2
    <3> QED BY <1>3, <3>1, <3>2 DEF CallsNest, InLoop
  <2> QED BY <2>1, <2>2
<1> QED BY <1>5, <1>6 DEF Plain

\* The server sends a line; an empty one disturbs the connection.
LEMMA SendStep ==
  ASSUME ClientInv, NEW kind \in Kinds, SendLine(kind), sock, sock' = sock, stratum_active' = stratum_active,
         UNCHANGED <<recvVars, sockbuf, nonce1, snd, expected>>, closed' \in BOOLEAN,
         \/ asked' = asked /\ stratum_active
         \/ asked # "nothing" /\ asked' = "nothing"
  PROVE  ClientInv'
<1>0. ClientTypes /\ CallsNest /\ ActiveSubscribed /\ (~torn => Undisturbed)
  BY DEF ClientInv
<1>1. /\ wire' = wire \o Cells(line + 1, kind)
      /\ line' = IF kind = "empty" THEN line ELSE line + 1
      /\ torn' = (torn \/ kind = "empty")
      /\ UNCHANGED <<rt, calls, stage, noresume, tok>>
  BY DEF SendLine, recvVars
<1>2. torn' \in BOOLEAN /\ (torn => torn') /\ (~torn' => ~torn /\ kind # "empty")
  BY <1>1, Zenon
<1>3. line + 1 \in Nat
  BY <1>0 DEF ClientTypes
<1> DEFINE c == Cells(line + 1, kind)
<1>4. c \in Seq(Cell)
  BY <1>3, CellFacts
<1>5. wire' \in Seq(Cell) /\ line' \in Nat
  <2>1. Joined(wire, c)
    BY <1>0, <1>4, JoinCells DEF ClientTypes
  <2> QED BY <1>0, <1>1, <2>1 DEF Joined, ClientTypes
<1>6. ClientTypes'
  BY <1>0, <1>1, <1>2, <1>5 DEF ClientTypes
<1>7. CallsNest' /\ ActiveSubscribed'
  BY <1>0, <1>1 DEF CallsNest, InLoop, ActiveSubscribed, InSubscribe
<1>8. ASSUME ~torn' PROVE Undisturbed'
  <2>0. Undisturbed /\ kind # "empty"
    BY <1>0, <1>2, <1>8
  <2>1. Unread' = Unread \o c
    <3>1. sockbuf \in Seq(Cell) /\ wire \in Seq(Cell)
      BY <1>0, <2>0 DEF ClientTypes, Undisturbed
    <3>2. (sockbuf \o wire) \o c = sockbuf \o (wire \o c)
      BY ONLY <1>4, <3>1, ConcatAssociative
    <3> QED BY <1>1, <3>2 DEF Unread
  <2>2. Next1' = Next1 /\ Next1 \in Nat
    BY <1>0, <1>1 DEF Next1, ClientTypes
  <2>3. Unread \in Seq(Cell) /\ Len(Unread) \in Nat
    <3>1. Joined(sockbuf, wire)
      BY <1>0, <2>0, JoinCells DEF ClientTypes, Undisturbed
    <3> QED BY <3>1, LenProperties DEF Joined, Unread
  <2>4. PICK m \in Nat : Len(Unread) = 3 * m /\ Next1 + m = line + 1
    <3>1. ~(rt \in {"setup", "unsubscribed"} /\ asked = "nothing")
      BY <1>0 DEF ActiveSubscribed, InSubscribe
    <3>2. Len(Unread) = 3 * (line + 1 - Next1)
      BY <2>0, <3>1 DEF Undisturbed
    <3>3. line + 1 - Next1 \in Nat
      BY <1>0, <2>2, <2>3, <3>2 DEF ClientTypes
    <3> QED BY <1>0, <2>2, <3>2, <3>3 DEF ClientTypes
  <2>5. /\ Len(c) = 3 /\ c[1] = <<line + 1, kind>> /\ c[2] = <<line + 1, "rest">> /\ c[3] = EndOfLine
    BY <1>3, <2>0, CellFacts
  <2>6. kind # "rest"
    BY KindFacts
  <2> HIDE DEF c
  <2>7. Len(Unread \o c) = 3 * (m + 1) /\ Follow(Next1, Unread \o c)
    <3>1. c[1][1] = Next1 + m /\ c[1][2] # "rest" /\ c[2] = <<Next1 + m, "rest">>
      BY <2>4, <2>5, <2>6
    <3>2. Follow(Next1, Unread)
      BY <2>0 DEF Undisturbed
    <3>3. c \in Seq(Cell) /\ Len(c) = 3 /\ c[3] = EndOfLine
      BY <1>4, <2>5 DEF c
    <3>4. Follows(Next1, m, Unread)
      BY ONLY <2>3, <2>4, <3>2 DEF Follows
    <3>5. IsLine(Next1 + m, c)
      BY ONLY <3>1, <3>3 DEF IsLine
    <3>6. Follows(Next1, m + 1, Unread \o c)
      BY ONLY <2>2, <2>4, <3>4, <3>5, FollowGrows
    <3> QED BY ONLY <3>6 DEF Follows
  <2>8. line' = line + 1 /\ 3 * (m + 1) = 3 * (line' + 1 - Next1)
    BY <1>0, <1>1, <2>0, <2>2, <2>4 DEF ClientTypes
  <2>9. rt # "subscribing" /\ rt \notin {"subscribe", "refused"}
    BY <1>0, <2>0 DEF ActiveSubscribed, InSubscribe, Undisturbed
  <2>10. rt \in {"recv", "token"} /\ stage = "subscribe" =>
            sock' /\ asked' = "nothing" /\ Len(Unread') = 3
    <3>1. SUFFICES ASSUME rt \in {"recv", "token"}, stage = "subscribe"
                   PROVE  sock' /\ asked' = "nothing" /\ Len(Unread') = 3
      OBVIOUS
    <3>2. ~stratum_active
      BY <1>0, <3>1 DEF ActiveSubscribed, InSubscribe, Receiving
    <3>3. asked # "nothing" /\ asked' = "nothing"
      BY <3>2
    <3>4. Unread = <<>>
      BY <2>0, <3>1, <3>3 DEF Undisturbed
    <3>5. m = 0
      BY <2>4, <3>4
    <3> QED BY <2>1, <2>7, <3>3, <3>5
  <2>11. rt = "token" => HasLine'
    BY <1>1, <2>0 DEF Undisturbed, HasLine
  <2> QED BY <1>1, <2>0, <2>1, <2>2, <2>7, <2>8, <2>9, <2>10, <2>11 DEF Undisturbed
<1> QED BY <1>0, <1>2, <1>6, <1>7, <1>8 DEF ClientInv

LEMMA RecvStep == ASSUME ClientInv, NEW n \in 1 .. RECVSIZE, RecvSome(n) PROVE ClientInv'
<1>0. ClientTypes /\ CallsNest /\ ActiveSubscribed /\ (~torn => Undisturbed)
  BY DEF ClientInv
<1>1. n \in 1 .. Len(wire)
  <2>1. n \in Nat /\ Len(wire) \in Nat /\ n <= Len(wire) /\ n >= 1
    BY <1>0, ClientAssumption, LenProperties DEF RecvSome, ClientTypes
  <2> QED BY <2>1
<1>2. sockbuf' = sockbuf \o SubSeq(wire, 1, n) /\ wire' = SubSeq(wire, n + 1, Len(wire))
  BY DEF RecvSome
<1>3. wire' \in Seq(Cell) /\ (~torn => sockbuf' \in Seq(Cell) /\ Unread' = Unread)
  <2>1. wire' \in Seq(Cell)
    <3>1. \A i \in 1 .. Len(wire) : wire[i] \in Cell
      BY <1>0, ElementOfSeq DEF ClientTypes
    <3>2. Len(wire) \in Nat
      BY <1>0, LenProperties DEF ClientTypes
    <3> QED BY <1>1, <1>2, <3>1, <3>2, SubSeqProperties
  <2>2. ASSUME ~torn PROVE sockbuf' \in Seq(Cell) /\ Unread' = Unread
    BY <1>0, <1>1, <1>2, <2>2, RecvFacts DEF ClientTypes, Unread, Undisturbed
  <2> QED BY <2>1, <2>2
<1>4. sock /\ rt = "recv" /\ rt' = "recv"
      /\ UNCHANGED <<calls, stage, noresume, tok, sock, stratum_active, nonce1, closed, asked, line, snd, expected, torn>>
  BY DEF RecvSome, Goes
<1>5. ClientTypes' /\ CallsNest' /\ ActiveSubscribed'
  BY <1>0, <1>3, <1>4 DEF ClientTypes, CallsNest, InLoop, ActiveSubscribed, InSubscribe
<1>6. ~torn => Undisturbed'
  BY <1>0, <1>3, <1>4 DEF Undisturbed, Next1, Handling
<1> QED BY <1>4, <1>5, <1>6 DEF ClientInv

LEMMA TokenStep == ASSUME ClientInv, Token PROVE ClientInv'
<1>0. ClientTypes /\ CallsNest /\ ActiveSubscribed /\ (~torn => Undisturbed) /\ rt = "token"
  BY DEF ClientInv, Token
<1>1. UNCHANGED <<calls, stage, noresume, sock, stratum_active, stratum_notify, nonce1, ofSession,
                  wire, closed, asked, line, snd, expected, torn>>
  BY DEF Token, serverVars
<1>2. rt' \in {"noline", stage}
  BY DEF Token
<1>3. ClientTypes' /\ CallsNest' /\ ActiveSubscribed'
  BY <1>0, <1>1, <1>2 DEF ClientTypes, CallsNest, InLoop, ActiveSubscribed, InSubscribe, Places, Handling, Receiving
<1>4. ASSUME ~torn PROVE Undisturbed'
  <2>0. Undisturbed /\ Next1 = expected /\ expected \in Nat \ {0} /\ sockbuf \in Seq(Cell) /\ wire \in Seq(Cell)
        /\ Follow(expected, sockbuf \o wire) /\ HasLine
    BY <1>0, <1>4 DEF Undisturbed, Next1, Unread, ClientTypes, Handling
  <2>1. /\ Leading = 0 /\ TokenLen = 2 /\ Len(sockbuf) >= 3
        /\ Whole(SubSeq(sockbuf, 1, 2)) /\ SubSeq(sockbuf, 1, 2)[1][1] = expected
        /\ SubSeq(sockbuf, 4, Len(sockbuf)) \in Seq(Cell)
        /\ Follow(expected + 1, SubSeq(sockbuf, 4, Len(sockbuf)) \o wire)
        /\ Len(SubSeq(sockbuf, 4, Len(sockbuf)) \o wire) = Len(sockbuf \o wire) - 3
    BY <2>0, TokenFacts
  <2>2. rt' = stage /\ tok' = SubSeq(sockbuf, 1, 2) /\ sockbuf' = SubSeq(sockbuf, 4, Len(sockbuf))
    BY <2>1 DEF Token, Rest
  <2>3. /\ Follow(expected + 1, Unread') /\ Len(Unread') = Len(Unread) - 3 /\ sockbuf' \in Seq(Cell)
    BY <1>1, <2>1, <2>2 DEF Unread
  <2>4. Next1' = expected + 1 /\ rt' \in Handling
    BY <1>0, <1>1, <2>2 DEF Next1, ClientTypes
  <2>5. Whole(tok') /\ tok'[1][1] = expected'
    BY <1>1, <2>1, <2>2
  <2>6. sock => Len(Unread') = 3 * (line + 1 - (expected + 1))
    <3>1. sock => Len(Unread) = 3 * (line + 1 - expected)
      BY <1>0, <2>0 DEF Undisturbed
    <3> QED BY <1>0, <2>0, <2>3, <3>1 DEF ClientTypes
  <2>7. rt' = "subscribe" => asked' = "nothing" /\ Unread' = <<>>
    <3> SUFFICES ASSUME rt' = "subscribe" PROVE asked' = "nothing" /\ Unread' = <<>>
      OBVIOUS
    <3>1. Unread # <<>>
      <4>1. Len(Unread) >= 3
        <5>1. Joined(sockbuf, wire)
          BY <2>0, JoinCells
        <5> QED BY <2>1, <5>1 DEF Joined, Unread
      <4> QED BY <4>1
    <3>2. asked = "nothing" /\ Len(Unread) = 3
      BY <1>0, <2>0, <2>2, <3>1 DEF Undisturbed
    <3>3. Len(Unread') = 0
      BY <2>3, <3>2
    <3>4. Unread' \in Seq(Cell)
      <4>1. Joined(sockbuf', wire)
        BY <2>0, <2>3, JoinCells
      <4> QED BY <1>1, <4>1 DEF Joined, Unread
    <3> QED BY <1>1, <3>2, <3>3, <3>4, EmptySeq
  <2> QED BY <1>1, <2>0, <2>3, <2>4, <2>5, <2>6, <2>7 DEF Undisturbed, Handling
<1> QED BY <1>0, <1>1, <1>3, <1>4 DEF ClientInv

LEMMA ClosedTypes ==
  /\ Suspended => sockbuf' \in Seq(Cell) /\ sock' \in BOOLEAN /\ stratum_active' \in BOOLEAN
  /\ NoServer => /\ wire' \in Seq(Cell) /\ closed' \in BOOLEAN /\ line' \in Nat
                 /\ asked' \in {"nothing", "subscribe", "authorize"}
                 /\ wire' = <<>>
<1>1. Suspended => sockbuf' \in Seq(Cell) /\ sock' = FALSE /\ stratum_active' = FALSE
  BY DEF Suspended
<1>2. NoServer => /\ wire' \in Seq(Cell) /\ closed' = FALSE /\ line' \in Nat
                 /\ asked' \in {"nothing", "subscribe", "authorize"}
                 /\ wire' = <<>>
  BY DEF NoServer
<1> QED BY <1>1, <1>2, Zenon

LEMMA NoLineCalls == ASSUME Plain, NoLine PROVE CallsNest'
<1>1. CASE stage = "main"
  BY <1>1 DEF NoLine, Plain, CallsNest, InLoop, Receiving
<1>2. CASE stage # "main"
  <2>1. rt' \in {"failed", "unsubscribed"} /\ calls' = calls /\ rt = "noline" /\ stage' = stage
    BY <1>2 DEF NoLine
  <2> QED BY <1>2, <2>1 DEF Plain, CallsNest, InLoop, Receiving
<1> QED BY <1>1, <1>2

\* The other actions keep the types and the nesting of the calls.
LEMMA PlainSteps ==
  ASSUME Plain,
         \/ NotNeeded \/ wait_lpcurrent \/ SelectReady \/ SelectTimesOut \/ RecvFails
         \/ RecvTimesOut \/ LineReady \/ Restart \/ SendSubscribe \/ Subscribed
         \/ NotSubscribed \/ Afresh \/ Unsubscribed \/ SendAuthorize \/ Method
         \/ Reconnect \/ Authorized \/ OtherLine \/ ConnectAgain \/ ShareFails
         \/ SenderClears \/ SenderCloses \/ PoolNeeded \/ ServerCloses \/ SetupFails
         \/ NoLine
  PROVE  Plain'
<1>1. ASSUME NotNeeded PROVE Plain'
  <2>1. ClientTypes'
    BY <1>1, ClosedTypes DEF NotNeeded, Plain, ClientTypes, Places, Handling, Receiving, Connecting, Goes, recvVars, poolVars,
         serverVars
  <2>2. CallsNest'
    BY <1>1 DEF NotNeeded, Plain, ClientTypes, CallsNest, InLoop, Places, Handling, Receiving,
         Connecting, Suspended, NoServer, Goes, recvVars, poolVars, serverVars
  <2>3. ActiveSubscribed'
    BY <1>1 DEF NotNeeded, Plain, ClientTypes, ActiveSubscribed, InSubscribe, Handling, Receiving,
         Suspended, NoServer, Goes, recvVars, poolVars, serverVars
  <2>4. snd' # "idle" => torn'
    BY <1>1 DEF NotNeeded, Plain, recvVars, poolVars, serverVars
  <2> QED BY <2>1, <2>2, <2>3, <2>4 DEF Plain
<1>2. ASSUME wait_lpcurrent PROVE Plain'
  <2>1. ClientTypes'
    BY <1>2, ClosedTypes DEF wait_lpcurrent, Plain, ClientTypes, Places, Handling, Receiving, Connecting, Goes, recvVars, poolVars,
         serverVars
  <2>2. CallsNest'
    BY <1>2 DEF wait_lpcurrent, Plain, ClientTypes, CallsNest, InLoop, Places, Handling, Receiving,
         Connecting, Suspended, NoServer, Goes, recvVars, poolVars, serverVars
  <2>3. ActiveSubscribed'
    BY <1>2 DEF wait_lpcurrent, Plain, ClientTypes, ActiveSubscribed, InSubscribe, Handling, Receiving,
         Suspended, NoServer, Goes, recvVars, poolVars, serverVars
  <2>4. snd' # "idle" => torn'
    BY <1>2 DEF wait_lpcurrent, Plain, recvVars, poolVars, serverVars
  <2> QED BY <2>1, <2>2, <2>3, <2>4 DEF Plain
<1>3. ASSUME SelectReady PROVE Plain'
  <2>1. ClientTypes'
    BY <1>3, ClosedTypes DEF SelectReady, Plain, ClientTypes, Places, Handling, Receiving, Connecting, Goes, recvVars, poolVars,
         serverVars
  <2>2. CallsNest'
    BY <1>3 DEF SelectReady, Plain, ClientTypes, CallsNest, InLoop, Places, Handling, Receiving,
         Connecting, Suspended, NoServer, Goes, recvVars, poolVars, serverVars
  <2>3. ActiveSubscribed'
    BY <1>3 DEF SelectReady, Plain, ClientTypes, ActiveSubscribed, InSubscribe, Handling, Receiving,
         Suspended, NoServer, Goes, recvVars, poolVars, serverVars
  <2>4. snd' # "idle" => torn'
    BY <1>3 DEF SelectReady, Plain, recvVars, poolVars, serverVars
  <2> QED BY <2>1, <2>2, <2>3, <2>4 DEF Plain
<1>4. ASSUME SelectTimesOut PROVE Plain'
  <2>1. ClientTypes'
    BY <1>4, ClosedTypes DEF SelectTimesOut, Plain, ClientTypes, Places, Handling, Receiving, Connecting, Goes, recvVars, poolVars,
         serverVars
  <2>2. CallsNest'
    BY <1>4 DEF SelectTimesOut, Plain, ClientTypes, CallsNest, InLoop, Places, Handling, Receiving,
         Connecting, Suspended, NoServer, Goes, recvVars, poolVars, serverVars
  <2>3. ActiveSubscribed'
    BY <1>4 DEF SelectTimesOut, Plain, ClientTypes, ActiveSubscribed, InSubscribe, Handling, Receiving,
         Suspended, NoServer, Goes, recvVars, poolVars, serverVars
  <2>4. snd' # "idle" => torn'
    BY <1>4 DEF SelectTimesOut, Plain, recvVars, poolVars, serverVars
  <2> QED BY <2>1, <2>2, <2>3, <2>4 DEF Plain
<1>5. ASSUME RecvFails PROVE Plain'
  <2>1. ClientTypes'
    BY <1>5, ClosedTypes DEF RecvFails, Plain, ClientTypes, Places, Handling, Receiving, Connecting, Goes, recvVars, poolVars,
         serverVars
  <2>2. CallsNest'
    BY <1>5 DEF RecvFails, Plain, ClientTypes, CallsNest, InLoop, Places, Handling, Receiving,
         Connecting, Suspended, NoServer, Goes, recvVars, poolVars, serverVars
  <2>3. ActiveSubscribed'
    BY <1>5 DEF RecvFails, Plain, ClientTypes, ActiveSubscribed, InSubscribe, Handling, Receiving,
         Suspended, NoServer, Goes, recvVars, poolVars, serverVars
  <2>4. snd' # "idle" => torn'
    BY <1>5 DEF RecvFails, Plain, recvVars, poolVars, serverVars
  <2> QED BY <2>1, <2>2, <2>3, <2>4 DEF Plain
<1>6. ASSUME RecvTimesOut PROVE Plain'
  <2>1. ClientTypes'
    BY <1>6, ClosedTypes DEF RecvTimesOut, Plain, ClientTypes, Places, Handling, Receiving, Connecting, Goes, recvVars, poolVars,
         serverVars
  <2>2. CallsNest'
    BY <1>6 DEF RecvTimesOut, Plain, ClientTypes, CallsNest, InLoop, Places, Handling, Receiving,
         Connecting, Suspended, NoServer, Goes, recvVars, poolVars, serverVars
  <2>3. ActiveSubscribed'
    BY <1>6 DEF RecvTimesOut, Plain, ClientTypes, ActiveSubscribed, InSubscribe, Handling, Receiving,
         Suspended, NoServer, Goes, recvVars, poolVars, serverVars
  <2>4. snd' # "idle" => torn'
    BY <1>6 DEF RecvTimesOut, Plain, recvVars, poolVars, serverVars
  <2> QED BY <2>1, <2>2, <2>3, <2>4 DEF Plain
<1>7. ASSUME LineReady PROVE Plain'
  <2>1. ClientTypes'
    BY <1>7, ClosedTypes DEF LineReady, Plain, ClientTypes, Places, Handling, Receiving, Connecting, Goes, recvVars, poolVars,
         serverVars
  <2>2. CallsNest'
    BY <1>7 DEF LineReady, Plain, ClientTypes, CallsNest, InLoop, Places, Handling, Receiving,
         Connecting, Suspended, NoServer, Goes, recvVars, poolVars, serverVars
  <2>3. ActiveSubscribed'
    BY <1>7 DEF LineReady, Plain, ClientTypes, ActiveSubscribed, InSubscribe, Handling, Receiving,
         Suspended, NoServer, Goes, recvVars, poolVars, serverVars
  <2>4. snd' # "idle" => torn'
    BY <1>7 DEF LineReady, Plain, recvVars, poolVars, serverVars
  <2> QED BY <2>1, <2>2, <2>3, <2>4 DEF Plain
<1>8. ASSUME Restart PROVE Plain'
  <2>1. ClientTypes'
    BY <1>8, ClosedTypes DEF Restart, Plain, ClientTypes, Places, Handling, Receiving, Connecting, Goes, recvVars, poolVars,
         serverVars
  <2>2. CallsNest'
    BY <1>8 DEF Restart, Plain, ClientTypes, CallsNest, InLoop, Places, Handling, Receiving,
         Connecting, Suspended, NoServer, Goes, recvVars, poolVars, serverVars
  <2>3. ActiveSubscribed'
    BY <1>8 DEF Restart, Plain, ClientTypes, ActiveSubscribed, InSubscribe, Handling, Receiving,
         Suspended, NoServer, Goes, recvVars, poolVars, serverVars
  <2>4. snd' # "idle" => torn'
    BY <1>8 DEF Restart, Plain, recvVars, poolVars, serverVars
  <2> QED BY <2>1, <2>2, <2>3, <2>4 DEF Plain
<1>9. ASSUME SendSubscribe PROVE Plain'
  <2>1. ClientTypes'
    BY <1>9, ClosedTypes DEF SendSubscribe, Plain, ClientTypes, Places, Handling, Receiving, Connecting, Goes, recvVars, poolVars,
         serverVars
  <2>2. CallsNest'
    BY <1>9 DEF SendSubscribe, Plain, ClientTypes, CallsNest, InLoop, Places, Handling, Receiving,
         Connecting, Suspended, NoServer, Goes, recvVars, poolVars, serverVars
  <2>3. ActiveSubscribed'
    BY <1>9 DEF SendSubscribe, Plain, ClientTypes, ActiveSubscribed, InSubscribe, Handling, Receiving,
         Suspended, NoServer, Goes, recvVars, poolVars, serverVars
  <2>4. snd' # "idle" => torn'
    BY <1>9 DEF SendSubscribe, Plain, recvVars, poolVars, serverVars
  <2> QED BY <2>1, <2>2, <2>3, <2>4 DEF Plain
<1>10. ASSUME Subscribed PROVE Plain'
  <2>1. ClientTypes'
    BY <1>10, ClosedTypes DEF Subscribed, Plain, ClientTypes, Places, Handling, Receiving, Connecting, Goes, recvVars, poolVars,
         serverVars
  <2>2. CallsNest'
    BY <1>10 DEF Subscribed, Plain, ClientTypes, CallsNest, InLoop, Places, Handling, Receiving,
         Connecting, Suspended, NoServer, Goes, recvVars, poolVars, serverVars
  <2>3. ActiveSubscribed'
    BY <1>10 DEF Subscribed, Plain, ClientTypes, ActiveSubscribed, InSubscribe, Handling, Receiving,
         Suspended, NoServer, Goes, recvVars, poolVars, serverVars
  <2>4. snd' # "idle" => torn'
    BY <1>10 DEF Subscribed, Plain, recvVars, poolVars, serverVars
  <2> QED BY <2>1, <2>2, <2>3, <2>4 DEF Plain
<1>11. ASSUME NotSubscribed PROVE Plain'
  <2>1. ClientTypes'
    BY <1>11, ClosedTypes DEF NotSubscribed, Plain, ClientTypes, Places, Handling, Receiving, Connecting, Goes, recvVars, poolVars,
         serverVars
  <2>2. CallsNest'
    BY <1>11 DEF NotSubscribed, Plain, ClientTypes, CallsNest, InLoop, Places, Handling, Receiving,
         Connecting, Suspended, NoServer, Goes, recvVars, poolVars, serverVars
  <2>3. ActiveSubscribed'
    BY <1>11 DEF NotSubscribed, Plain, ClientTypes, ActiveSubscribed, InSubscribe, Handling, Receiving,
         Suspended, NoServer, Goes, recvVars, poolVars, serverVars
  <2>4. snd' # "idle" => torn'
    BY <1>11 DEF NotSubscribed, Plain, recvVars, poolVars, serverVars
  <2> QED BY <2>1, <2>2, <2>3, <2>4 DEF Plain
<1>12. ASSUME Afresh PROVE Plain'
  <2>1. ClientTypes'
    BY <1>12, ClosedTypes DEF Afresh, Plain, ClientTypes, Places, Handling, Receiving, Connecting, Goes, recvVars, poolVars,
         serverVars
  <2>2. CallsNest'
    BY <1>12 DEF Afresh, Plain, ClientTypes, CallsNest, InLoop, Places, Handling, Receiving,
         Connecting, Suspended, NoServer, Goes, recvVars, poolVars, serverVars
  <2>3. ActiveSubscribed'
    BY <1>12 DEF Afresh, Plain, ClientTypes, ActiveSubscribed, InSubscribe, Handling, Receiving,
         Suspended, NoServer, Goes, recvVars, poolVars, serverVars
  <2>4. snd' # "idle" => torn'
    BY <1>12 DEF Afresh, Plain, recvVars, poolVars, serverVars
  <2> QED BY <2>1, <2>2, <2>3, <2>4 DEF Plain
<1>13. ASSUME Unsubscribed PROVE Plain'
  <2>1. ClientTypes'
    BY <1>13, ClosedTypes DEF Unsubscribed, Plain, ClientTypes, Places, Handling, Receiving, Connecting, Goes, recvVars, poolVars,
         serverVars
  <2>2. CallsNest'
    BY <1>13 DEF Unsubscribed, Plain, ClientTypes, CallsNest, InLoop, Places, Handling, Receiving,
         Connecting, Suspended, NoServer, Goes, recvVars, poolVars, serverVars
  <2>3. ActiveSubscribed'
    BY <1>13 DEF Unsubscribed, Plain, ClientTypes, ActiveSubscribed, InSubscribe, Handling, Receiving,
         Suspended, NoServer, Goes, recvVars, poolVars, serverVars
  <2>4. snd' # "idle" => torn'
    BY <1>13 DEF Unsubscribed, Plain, recvVars, poolVars, serverVars
  <2> QED BY <2>1, <2>2, <2>3, <2>4 DEF Plain
<1>14. ASSUME SendAuthorize PROVE Plain'
  <2>1. ClientTypes'
    BY <1>14, ClosedTypes DEF SendAuthorize, Plain, ClientTypes, Places, Handling, Receiving, Connecting, Goes, recvVars, poolVars,
         serverVars
  <2>2. CallsNest'
    BY <1>14 DEF SendAuthorize, Plain, ClientTypes, CallsNest, InLoop, Places, Handling, Receiving,
         Connecting, Suspended, NoServer, Goes, recvVars, poolVars, serverVars
  <2>3. ActiveSubscribed'
    BY <1>14 DEF SendAuthorize, Plain, ClientTypes, ActiveSubscribed, InSubscribe, Handling, Receiving,
         Suspended, NoServer, Goes, recvVars, poolVars, serverVars
  <2>4. snd' # "idle" => torn'
    BY <1>14 DEF SendAuthorize, Plain, recvVars, poolVars, serverVars
  <2> QED BY <2>1, <2>2, <2>3, <2>4 DEF Plain
<1>15. ASSUME Method PROVE Plain'
  <2>1. ClientTypes'
    BY <1>15, ClosedTypes DEF Method, Plain, ClientTypes, Places, Handling, Receiving, Connecting, Goes, recvVars, poolVars,
         serverVars
  <2>2. CallsNest'
    BY <1>15 DEF Method, Plain, ClientTypes, CallsNest, InLoop, Places, Handling, Receiving,
         Connecting, Suspended, NoServer, Goes, recvVars, poolVars, serverVars
  <2>3. ActiveSubscribed'
    BY <1>15 DEF Method, Plain, ClientTypes, ActiveSubscribed, InSubscribe, Handling, Receiving,
         Suspended, NoServer, Goes, recvVars, poolVars, serverVars
  <2>4. snd' # "idle" => torn'
    BY <1>15 DEF Method, Plain, recvVars, poolVars, serverVars
  <2> QED BY <2>1, <2>2, <2>3, <2>4 DEF Plain
<1>16. ASSUME Reconnect PROVE Plain'
  <2>1. ClientTypes'
    BY <1>16, ClosedTypes DEF Reconnect, Plain, ClientTypes, Places, Handling, Receiving, Connecting, Goes, recvVars, poolVars,
         serverVars
  <2>2. CallsNest'
    BY <1>16 DEF Reconnect, Plain, ClientTypes, CallsNest, InLoop, Places, Handling, Receiving,
         Connecting, Suspended, NoServer, Goes, recvVars, poolVars, serverVars
  <2>3. ActiveSubscribed'
    BY <1>16 DEF Reconnect, Plain, ClientTypes, ActiveSubscribed, InSubscribe, Handling, Receiving,
         Suspended, NoServer, Goes, recvVars, poolVars, serverVars
  <2>4. snd' # "idle" => torn'
    BY <1>16 DEF Reconnect, Plain, recvVars, poolVars, serverVars
  <2> QED BY <2>1, <2>2, <2>3, <2>4 DEF Plain
<1>17. ASSUME Authorized PROVE Plain'
  <2>1. ClientTypes'
    BY <1>17, ClosedTypes DEF Authorized, Plain, ClientTypes, Places, Handling, Receiving, Connecting, Goes, recvVars, poolVars,
         serverVars
  <2>2. CallsNest'
    BY <1>17 DEF Authorized, Plain, ClientTypes, CallsNest, InLoop, Places, Handling, Receiving,
         Connecting, Suspended, NoServer, Goes, recvVars, poolVars, serverVars
  <2>3. ActiveSubscribed'
    BY <1>17 DEF Authorized, Plain, ClientTypes, ActiveSubscribed, InSubscribe, Handling, Receiving,
         Suspended, NoServer, Goes, recvVars, poolVars, serverVars
  <2>4. snd' # "idle" => torn'
    BY <1>17 DEF Authorized, Plain, recvVars, poolVars, serverVars
  <2> QED BY <2>1, <2>2, <2>3, <2>4 DEF Plain
<1>18. ASSUME OtherLine PROVE Plain'
  <2>1. ClientTypes'
    BY <1>18, ClosedTypes DEF OtherLine, Plain, ClientTypes, Places, Handling, Receiving, Connecting, Goes, recvVars, poolVars,
         serverVars
  <2>2. CallsNest'
    BY <1>18 DEF OtherLine, Plain, ClientTypes, CallsNest, InLoop, Places, Handling, Receiving,
         Connecting, Suspended, NoServer, Goes, recvVars, poolVars, serverVars
  <2>3. ActiveSubscribed'
    BY <1>18 DEF OtherLine, Plain, ClientTypes, ActiveSubscribed, InSubscribe, Handling, Receiving,
         Suspended, NoServer, Goes, recvVars, poolVars, serverVars
  <2>4. snd' # "idle" => torn'
    BY <1>18 DEF OtherLine, Plain, recvVars, poolVars, serverVars
  <2> QED BY <2>1, <2>2, <2>3, <2>4 DEF Plain
<1>19. ASSUME ConnectAgain PROVE Plain'
  <2>1. ClientTypes'
    BY <1>19, ClosedTypes DEF ConnectAgain, Plain, ClientTypes, Places, Handling, Receiving, Connecting, Goes, recvVars, poolVars,
         serverVars
  <2>2. CallsNest'
    BY <1>19 DEF ConnectAgain, Plain, ClientTypes, CallsNest, InLoop, Places, Handling, Receiving,
         Connecting, Suspended, NoServer, Goes, recvVars, poolVars, serverVars
  <2>3. ActiveSubscribed'
    BY <1>19 DEF ConnectAgain, Plain, ClientTypes, ActiveSubscribed, InSubscribe, Handling, Receiving,
         Suspended, NoServer, Goes, recvVars, poolVars, serverVars
  <2>4. snd' # "idle" => torn'
    BY <1>19 DEF ConnectAgain, Plain, recvVars, poolVars, serverVars
  <2> QED BY <2>1, <2>2, <2>3, <2>4 DEF Plain
<1>20. ASSUME ShareFails PROVE Plain'
  <2>1. ClientTypes'
    BY <1>20, ClosedTypes DEF ShareFails, Plain, ClientTypes, Places, Handling, Receiving, Connecting, Goes, recvVars, poolVars,
         serverVars
  <2>2. CallsNest'
    BY <1>20 DEF ShareFails, Plain, ClientTypes, CallsNest, InLoop, Places, Handling, Receiving,
         Connecting, Suspended, NoServer, Goes, recvVars, poolVars, serverVars
  <2>3. ActiveSubscribed'
    BY <1>20 DEF ShareFails, Plain, ClientTypes, ActiveSubscribed, InSubscribe, Handling, Receiving,
         Suspended, NoServer, Goes, recvVars, poolVars, serverVars
  <2>4. snd' # "idle" => torn'
    BY <1>20 DEF ShareFails, Plain, recvVars, poolVars, serverVars
  <2> QED BY <2>1, <2>2, <2>3, <2>4 DEF Plain
<1>21. ASSUME SenderClears PROVE Plain'
  <2>1. ClientTypes'
    BY <1>21, ClosedTypes DEF SenderClears, Plain, ClientTypes, Places, Handling, Receiving, Connecting, Goes, recvVars, poolVars,
         serverVars
  <2>2. CallsNest'
    BY <1>21 DEF SenderClears, Plain, ClientTypes, CallsNest, InLoop, Places, Handling, Receiving,
         Connecting, Suspended, NoServer, Goes, recvVars, poolVars, serverVars
  <2>3. ActiveSubscribed'
    BY <1>21 DEF SenderClears, Plain, ClientTypes, ActiveSubscribed, InSubscribe, Handling, Receiving,
         Suspended, NoServer, Goes, recvVars, poolVars, serverVars
  <2>4. snd' # "idle" => torn'
    BY <1>21 DEF SenderClears, Plain, recvVars, poolVars, serverVars
  <2> QED BY <2>1, <2>2, <2>3, <2>4 DEF Plain
<1>22. ASSUME SenderCloses PROVE Plain'
  <2>1. ClientTypes'
    BY <1>22, ClosedTypes DEF SenderCloses, Plain, ClientTypes, Places, Handling, Receiving, Connecting, Goes, recvVars, poolVars,
         serverVars
  <2>2. CallsNest'
    BY <1>22 DEF SenderCloses, Plain, ClientTypes, CallsNest, InLoop, Places, Handling, Receiving,
         Connecting, Suspended, NoServer, Goes, recvVars, poolVars, serverVars
  <2>3. ActiveSubscribed'
    BY <1>22 DEF SenderCloses, Plain, ClientTypes, ActiveSubscribed, InSubscribe, Handling, Receiving,
         Suspended, NoServer, Goes, recvVars, poolVars, serverVars
  <2>4. snd' # "idle" => torn'
    BY <1>22 DEF SenderCloses, Plain, recvVars, poolVars, serverVars
  <2> QED BY <2>1, <2>2, <2>3, <2>4 DEF Plain
<1>23. ASSUME PoolNeeded PROVE Plain'
  <2>1. ClientTypes'
    BY <1>23, ClosedTypes DEF PoolNeeded, Plain, ClientTypes, Places, Handling, Receiving, Connecting, Goes, recvVars, poolVars,
         serverVars
  <2>2. CallsNest'
    BY <1>23 DEF PoolNeeded, Plain, ClientTypes, CallsNest, InLoop, Places, Handling, Receiving,
         Connecting, Suspended, NoServer, Goes, recvVars, poolVars, serverVars
  <2>3. ActiveSubscribed'
    BY <1>23 DEF PoolNeeded, Plain, ClientTypes, ActiveSubscribed, InSubscribe, Handling, Receiving,
         Suspended, NoServer, Goes, recvVars, poolVars, serverVars
  <2>4. snd' # "idle" => torn'
    BY <1>23 DEF PoolNeeded, Plain, recvVars, poolVars, serverVars
  <2> QED BY <2>1, <2>2, <2>3, <2>4 DEF Plain
<1>24. ASSUME ServerCloses PROVE Plain'
  <2>1. ClientTypes'
    BY <1>24, ClosedTypes DEF ServerCloses, Plain, ClientTypes, Places, Handling, Receiving, Connecting, Goes, recvVars, poolVars,
         serverVars
  <2>2. CallsNest'
    BY <1>24 DEF ServerCloses, Plain, ClientTypes, CallsNest, InLoop, Places, Handling, Receiving,
         Connecting, Suspended, NoServer, Goes, recvVars, poolVars, serverVars
  <2>3. ActiveSubscribed'
    BY <1>24 DEF ServerCloses, Plain, ClientTypes, ActiveSubscribed, InSubscribe, Handling, Receiving,
         Suspended, NoServer, Goes, recvVars, poolVars, serverVars
  <2>4. snd' # "idle" => torn'
    BY <1>24 DEF ServerCloses, Plain, recvVars, poolVars, serverVars
  <2> QED BY <2>1, <2>2, <2>3, <2>4 DEF Plain
<1>25. ASSUME SetupFails PROVE Plain'
  <2>1. ClientTypes'
    BY <1>25, ClosedTypes DEF SetupFails, Plain, ClientTypes, Places, Handling, Receiving, Connecting, Goes, recvVars, poolVars,
         serverVars
  <2>2. CallsNest'
    BY <1>25 DEF SetupFails, Plain, ClientTypes, CallsNest, InLoop, Places, Handling, Receiving,
         Connecting, Suspended, NoServer, Goes, recvVars, poolVars, serverVars
  <2>3. ActiveSubscribed'
    BY <1>25 DEF SetupFails, Plain, ClientTypes, ActiveSubscribed, InSubscribe, Handling, Receiving,
         Suspended, NoServer, Goes, recvVars, poolVars, serverVars
  <2>4. snd' # "idle" => torn'
    BY <1>25 DEF SetupFails, Plain, recvVars, poolVars, serverVars
  <2> QED BY <2>1, <2>2, <2>3, <2>4 DEF Plain
<1>26. ASSUME NoLine PROVE Plain'
  <2>1. ClientTypes'
    BY <1>26, ClosedTypes DEF NoLine, Plain, ClientTypes, Places, Handling, Receiving, Connecting, Goes, recvVars, poolVars,
         serverVars
  <2>2. CallsNest'
    BY <1>26, NoLineCalls
  <2>3. ActiveSubscribed'
    BY <1>26 DEF NoLine, Plain, ClientTypes, ActiveSubscribed, InSubscribe, Handling, Receiving,
         Suspended, NoServer, Goes, recvVars, poolVars, serverVars
  <2>4. snd' # "idle" => torn'
    BY <1>26 DEF NoLine, Plain, recvVars, poolVars, serverVars
  <2> QED BY <2>1, <2>2, <2>3, <2>4 DEF Plain
<1> QED BY <1>1, <1>2, <1>3, <1>4, <1>5, <1>6, <1>7, <1>8, <1>9, <1>10, <1>11, <1>12,
          <1>13, <1>14, <1>15, <1>16, <1>17, <1>18, <1>19, <1>20, <1>21, <1>22, <1>23,
          <1>24, <1>25, <1>26

\* They leave what has not been handled as it is, drop it, or handle a line.
LEMMA LineSteps ==
  ASSUME Plain, ~torn => Undisturbed, ~torn',
         \/ NotNeeded \/ wait_lpcurrent \/ SelectReady \/ SelectTimesOut \/ RecvFails
         \/ RecvTimesOut \/ LineReady \/ Restart \/ SendSubscribe \/ Subscribed
         \/ NotSubscribed \/ Afresh \/ Unsubscribed \/ SendAuthorize \/ Method
         \/ Reconnect \/ Authorized \/ OtherLine \/ ConnectAgain \/ ShareFails
         \/ SenderClears \/ SenderCloses \/ PoolNeeded \/ ServerCloses \/ NoLine
         \/ RestartOk \/ RestartFails
  PROVE  Undisturbed'
<1>0. /\ Follow(1, <<>>) /\ Follow(expected, <<>>) /\ Follow(expected + 1, <<>>)
      /\ Len(<<>>) = 0 /\ <<>> \o <<>> = <<>>
  BY FollowNothing DEF Plain, ClientTypes
<1>1. ASSUME NotNeeded PROVE Undisturbed'
  BY <1>0, <1>1 DEF NotNeeded, Plain,
       Undisturbed, Next1, Unread, HasLine, Places, Handling, Receiving, Connecting, Suspended, NoServer,
       Goes, ClientTypes, ActiveSubscribed, InSubscribe, recvVars, poolVars, serverVars
<1>2. ASSUME wait_lpcurrent PROVE Undisturbed'
  BY <1>0, <1>2 DEF wait_lpcurrent, Plain,
       Undisturbed, Next1, Unread, HasLine, Places, Handling, Receiving, Connecting, Suspended, NoServer,
       Goes, ClientTypes, ActiveSubscribed, InSubscribe, recvVars, poolVars, serverVars
<1>3. ASSUME SelectReady PROVE Undisturbed'
  BY <1>0, <1>3 DEF SelectReady, Plain,
       Undisturbed, Next1, Unread, HasLine, Places, Handling, Receiving, Connecting, Suspended, NoServer,
       Goes, ClientTypes, ActiveSubscribed, InSubscribe, recvVars, poolVars, serverVars
<1>4. ASSUME SelectTimesOut PROVE Undisturbed'
  BY <1>0, <1>4 DEF SelectTimesOut, Plain,
       Undisturbed, Next1, Unread, HasLine, Places, Handling, Receiving, Connecting, Suspended, NoServer,
       Goes, ClientTypes, ActiveSubscribed, InSubscribe, recvVars, poolVars, serverVars
<1>5. ASSUME RecvFails PROVE Undisturbed'
  BY <1>0, <1>5 DEF RecvFails, Plain,
       Undisturbed, Next1, Unread, HasLine, Places, Handling, Receiving, Connecting, Suspended, NoServer,
       Goes, ClientTypes, ActiveSubscribed, InSubscribe, recvVars, poolVars, serverVars
<1>6. ASSUME RecvTimesOut PROVE Undisturbed'
  BY <1>0, <1>6 DEF RecvTimesOut, Plain,
       Undisturbed, Next1, Unread, HasLine, Places, Handling, Receiving, Connecting, Suspended, NoServer,
       Goes, ClientTypes, ActiveSubscribed, InSubscribe, recvVars, poolVars, serverVars
<1>7. ASSUME LineReady PROVE Undisturbed'
  BY <1>0, <1>7 DEF LineReady, Plain,
       Undisturbed, Next1, Unread, HasLine, Places, Handling, Receiving, Connecting, Suspended, NoServer,
       Goes, ClientTypes, ActiveSubscribed, InSubscribe, recvVars, poolVars, serverVars
<1>8. ASSUME Restart PROVE Undisturbed'
  <2>1. rt = "restart" /\ rt' = "setup" /\ UNCHANGED <<stage, tok, expected, torn>>
    BY <1>8 DEF Restart, Goes
  <2>2. CASE stratum_active
    <3>1. sockbuf' = <<>> /\ wire' = <<>> /\ ~sock'
      BY <1>8, <2>2 DEF Restart, Suspended, NoServer
    <3> QED BY <1>0, <2>1, <3>1 DEF Undisturbed, Next1, Unread, Handling
  <2>3. CASE ~stratum_active
    <3>1. UNCHANGED <<sockbuf, wire, sock, asked, line>>
      BY <1>8, <2>3 DEF Restart
    <3> QED BY <2>1, <3>1 DEF Undisturbed, Next1, Unread, Handling
  <2> QED BY <2>2, <2>3
<1>9. ASSUME SendSubscribe PROVE Undisturbed'
  BY <1>0, <1>9 DEF SendSubscribe, Plain,
       Undisturbed, Next1, Unread, HasLine, Places, Handling, Receiving, Connecting, Suspended, NoServer,
       Goes, ClientTypes, ActiveSubscribed, InSubscribe, recvVars, poolVars, serverVars
<1>10. ASSUME Subscribed PROVE Undisturbed'
  BY <1>0, <1>10 DEF Subscribed, Plain,
       Undisturbed, Next1, Unread, HasLine, Places, Handling, Receiving, Connecting, Suspended, NoServer,
       Goes, ClientTypes, ActiveSubscribed, InSubscribe, recvVars, poolVars, serverVars
<1>11. ASSUME NotSubscribed PROVE Undisturbed'
  BY <1>0, <1>11 DEF NotSubscribed, Plain,
       Undisturbed, Next1, Unread, HasLine, Places, Handling, Receiving, Connecting, Suspended, NoServer,
       Goes, ClientTypes, ActiveSubscribed, InSubscribe, recvVars, poolVars, serverVars
<1>12. ASSUME Afresh PROVE Undisturbed'
  BY <1>0, <1>12 DEF Afresh, Plain,
       Undisturbed, Next1, Unread, HasLine, Places, Handling, Receiving, Connecting, Suspended, NoServer,
       Goes, ClientTypes, ActiveSubscribed, InSubscribe, recvVars, poolVars, serverVars
<1>13. ASSUME Unsubscribed PROVE Undisturbed'
  BY <1>0, <1>13 DEF Unsubscribed, Plain,
       Undisturbed, Next1, Unread, HasLine, Places, Handling, Receiving, Connecting, Suspended, NoServer,
       Goes, ClientTypes, ActiveSubscribed, InSubscribe, recvVars, poolVars, serverVars
<1>14. ASSUME SendAuthorize PROVE Undisturbed'
  <2>1. rt = "authorizing" /\ UNCHANGED <<tok, expected, torn>>
    BY <1>14 DEF SendAuthorize
  <2>2. CASE stratum_active /\ sock
    <3>1. rt' = "recv" /\ stage' = "auth" /\ UNCHANGED <<sockbuf, wire, sock, line>>
      BY <1>14, <2>2 DEF SendAuthorize
    <3> QED BY <2>1, <3>1 DEF Undisturbed, Next1, Unread, Handling
  <2>3. CASE ~(stratum_active /\ sock)
    <3>1. rt' = "failed" /\ sockbuf' = <<>> /\ wire' = <<>> /\ ~sock'
      BY <1>14, <2>3 DEF SendAuthorize, Suspended, NoServer
    <3> QED BY <1>0, <2>1, <3>1 DEF Undisturbed, Next1, Unread, Handling
  <2> QED BY <2>2, <2>3
<1>15. ASSUME Method PROVE Undisturbed'
  BY <1>0, <1>15 DEF Method, Plain,
       Undisturbed, Next1, Unread, HasLine, Places, Handling, Receiving, Connecting, Suspended, NoServer,
       Goes, ClientTypes, ActiveSubscribed, InSubscribe, recvVars, poolVars, serverVars
<1>16. ASSUME Reconnect PROVE Undisturbed'
  BY <1>0, <1>16 DEF Reconnect, Plain,
       Undisturbed, Next1, Unread, HasLine, Places, Handling, Receiving, Connecting, Suspended, NoServer,
       Goes, ClientTypes, ActiveSubscribed, InSubscribe, recvVars, poolVars, serverVars
<1>17. ASSUME Authorized PROVE Undisturbed'
  BY <1>0, <1>17 DEF Authorized, Plain,
       Undisturbed, Next1, Unread, HasLine, Places, Handling, Receiving, Connecting, Suspended, NoServer,
       Goes, ClientTypes, ActiveSubscribed, InSubscribe, recvVars, poolVars, serverVars
<1>18. ASSUME OtherLine PROVE Undisturbed'
  BY <1>0, <1>18 DEF OtherLine, Plain,
       Undisturbed, Next1, Unread, HasLine, Places, Handling, Receiving, Connecting, Suspended, NoServer,
       Goes, ClientTypes, ActiveSubscribed, InSubscribe, recvVars, poolVars, serverVars
<1>19. ASSUME ConnectAgain PROVE Undisturbed'
  BY <1>0, <1>19 DEF ConnectAgain, Plain,
       Undisturbed, Next1, Unread, HasLine, Places, Handling, Receiving, Connecting, Suspended, NoServer,
       Goes, ClientTypes, ActiveSubscribed, InSubscribe, recvVars, poolVars, serverVars
<1>20. ASSUME ShareFails PROVE Undisturbed'
  BY <1>0, <1>20 DEF ShareFails, Plain,
       Undisturbed, Next1, Unread, HasLine, Places, Handling, Receiving, Connecting, Suspended, NoServer,
       Goes, ClientTypes, ActiveSubscribed, InSubscribe, recvVars, poolVars, serverVars
<1>21. ASSUME SenderClears PROVE Undisturbed'
  BY <1>0, <1>21 DEF SenderClears, Plain,
       Undisturbed, Next1, Unread, HasLine, Places, Handling, Receiving, Connecting, Suspended, NoServer,
       Goes, ClientTypes, ActiveSubscribed, InSubscribe, recvVars, poolVars, serverVars
<1>22. ASSUME SenderCloses PROVE Undisturbed'
  BY <1>0, <1>22 DEF SenderCloses, Plain,
       Undisturbed, Next1, Unread, HasLine, Places, Handling, Receiving, Connecting, Suspended, NoServer,
       Goes, ClientTypes, ActiveSubscribed, InSubscribe, recvVars, poolVars, serverVars
<1>23. ASSUME PoolNeeded PROVE Undisturbed'
  BY <1>0, <1>23 DEF PoolNeeded, Plain,
       Undisturbed, Next1, Unread, HasLine, Places, Handling, Receiving, Connecting, Suspended, NoServer,
       Goes, ClientTypes, ActiveSubscribed, InSubscribe, recvVars, poolVars, serverVars
<1>24. ASSUME ServerCloses PROVE Undisturbed'
  BY <1>0, <1>24 DEF ServerCloses, Plain,
       Undisturbed, Next1, Unread, HasLine, Places, Handling, Receiving, Connecting, Suspended, NoServer,
       Goes, ClientTypes, ActiveSubscribed, InSubscribe, recvVars, poolVars, serverVars
<1>25. ASSUME NoLine PROVE Undisturbed'
  BY <1>0, <1>25 DEF NoLine, Plain,
       Undisturbed, Next1, Unread, HasLine, Places, Handling, Receiving, Connecting, Suspended, NoServer,
       Goes, ClientTypes, ActiveSubscribed, InSubscribe, recvVars, poolVars, serverVars
<1>26. ASSUME RestartOk PROVE Undisturbed'
  BY <1>0, <1>26 DEF RestartOk, Plain,
       Undisturbed, Next1, Unread, HasLine, Places, Handling, Receiving, Connecting, Suspended, NoServer,
       Goes, ClientTypes, ActiveSubscribed, InSubscribe, recvVars, poolVars, serverVars
<1>27. ASSUME RestartFails PROVE Undisturbed'
  BY <1>0, <1>27 DEF RestartFails, Plain,
       Undisturbed, Next1, Unread, HasLine, Places, Handling, Receiving, Connecting, Suspended, NoServer,
       Goes, ClientTypes, ActiveSubscribed, InSubscribe, recvVars, poolVars, serverVars
<1> QED BY <1>1, <1>2, <1>3, <1>4, <1>5, <1>6, <1>7, <1>8, <1>9, <1>10, <1>11, <1>12,
          <1>13, <1>14, <1>15, <1>16, <1>17, <1>18, <1>19, <1>20, <1>21, <1>22, <1>23,
          <1>24, <1>25, <1>26, <1>27

LEMMA ServerSteps ==
  ASSUME ClientInv, (\E kind \in Messages : ServerMessage(kind)) \/ ServerAnswers \/ ServerRefuses
  PROVE  ClientInv'
<1>0. ClientTypes
  BY DEF ClientInv
<1>1. ASSUME NEW kind \in Messages, ServerMessage(kind) PROVE ClientInv'
  <2>1. kind \in Kinds
    BY DEF Kinds
  <2>2. closed' \in BOOLEAN
    BY <1>0, <1>1 DEF ServerMessage, ClientTypes
  <2> QED BY <1>1, <2>1, <2>2, SendStep DEF ServerMessage, poolVars
<1>2. ASSUME ServerAnswers PROVE ClientInv'
  <2>1. asked \in Kinds
    BY <1>0, <1>2 DEF ServerAnswers, ClientTypes, Kinds
  <2>2. closed' \in BOOLEAN
    BY <1>0, <1>2 DEF ServerAnswers, ClientTypes
  <2> QED BY <1>2, <2>1, <2>2, SendStep DEF ServerAnswers, poolVars
<1>3. ASSUME ServerRefuses PROVE ClientInv'
  <2>1. "error" \in Kinds
    BY DEF Kinds
  <2>2. closed' \in BOOLEAN
    BY <1>0, <1>3 DEF ServerRefuses, ClientTypes
  <2> QED BY <1>3, <2>1, <2>2, SendStep DEF ServerRefuses, poolVars
<1> QED BY <1>1, <1>2, <1>3

LEMMA ClientSteps == ClientInv /\ [ClientNext]_clientVars => ClientInv'
<1>1. ASSUME ClientInv, ClientNext PROVE ClientInv'
  <2>0. Plain /\ (~torn => Undisturbed)
    BY <1>1 DEF ClientInv, Plain
  <2>1. ASSUME Plain', ~torn' => Undisturbed' PROVE ClientInv'
    BY <2>1 DEF ClientInv, Plain
  <2>2. CASE ReceiverNext
    BY <1>1, <2>0, <2>1, <2>2, RecvStep, TokenStep, SetupFailsLines, SetupStep, RestartOkPlain,
       RestartFailsPlain, PlainSteps, LineSteps, Zenon DEF ReceiverNext
  <2>3. CASE SenderNext
    BY <2>0, <2>1, <2>3, PlainSteps, LineSteps, Zenon DEF SenderNext
  <2>4. CASE ServerNext
    BY <1>1, <2>0, <2>1, <2>4, ServerSteps, PlainSteps, LineSteps, Zenon DEF ServerNext
  <2>5. CASE PoolNeeded
    BY <2>0, <2>1, <2>5, PlainSteps, LineSteps, Zenon
  <2> QED BY <1>1, <2>2, <2>3, <2>4, <2>5, Zenon DEF ClientNext
<1>2. ASSUME ClientInv, UNCHANGED clientVars PROVE ClientInv'
  BY <1>2 DEF ClientInv, ClientTypes, CallsNest, ActiveSubscribed, InLoop, InSubscribe, Undisturbed, Next1,
     Unread, HasLine, clientVars, recvVars, poolVars, serverVars
<1> QED BY <1>1, <1>2

(* recv_line returns the lines the server sent on this connection, whole   *)
(* and in their order, unless the connection was disturbed.                *)
THEOREM LinesAreWhole == ClientSpec => []LinesWhole
<1>1. ClientInv => LinesWhole
  <2> SUFFICES ASSUME ClientInv PROVE LinesWhole
    OBVIOUS
  <2>1. ClientTypeOK
    <3>1. rt \in {"loop", "asleep", "main"} => Len(calls) <= 1
      BY DEF ClientInv, CallsNest, InLoop
    <3>2. rt \in {"restarted", "failed"} => calls # <<>>
      BY DEF ClientInv, CallsNest, InLoop, Receiving
    <3> QED BY <3>1, <3>2 DEF ClientInv, ClientTypes, ActiveSubscribed, ClientTypeOK, Handling
  <2> QED BY <2>1 DEF ClientInv, Undisturbed, LinesWhole, Handling
<1>2. ClientInit => ClientInv
  BY ClientInitially
<1> QED BY <1>1, <1>2, ClientSteps, PTL DEF ClientSpec
=============================================================================
