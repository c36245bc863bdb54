---------------------------- MODULE StratumShares ----------------------------
(***************************************************************************)
(* How shares reach a stratum pool (yacminer.c, util.c).  The threads of   *)
(* devices push shares on pool->stratum_q; the pool's send thread          *)
(* (stratum_sthread) sends them, one at a time, and enters each in         *)
(* stratum_shares; its receive thread (stratum_rthread) matches the pool's *)
(* answers with that table, and brings a lost connection back.             *)
(*                                                                         *)
(* An answer is a share's, or that of mining.authorize; the pool may       *)
(* answer in any order.  Methods the pool calls do not matter here.        *)
(***************************************************************************)
EXTENDS Integers, Sequences, FiniteSets, SequencesExt

CONSTANTS Share,       \* the shares found
          Nobody,      \* no share
          MaxSession,  \* bound: sessions the pool opens
          MaxConnect   \* bound: connections made

ASSUME ShareAssumption ==
    /\ Nobody \notin Share
    /\ MaxSession \in Nat \ {0} /\ MaxConnect \in Nat \ {0}

VARIABLES
    queue,     \* stratum_q
    frozen,    \* stratum_q->frozen
    sender,    \* where stratum_sthread is
    share,     \* the share it holds, or Nobody
    tracked,   \* stratum_shares
    sshares,   \* pool->sshares
    receiver,  \* where stratum_rthread is
    active,    \* pool->stratum_active
    session,   \* pool->nonce1, as a number; 0 is NULL
    resumes,   \* the pool has given that session an id (pool->sessionid)
    removed,   \* pool->removed
    pending,   \* requests the pool has received and not answered
    arriving,  \* its answers on the way
    sessions, connections,  \* opened so far
    origin,    \* origin[s]: the session s was found in; 0 before it is
    counted,   \* history: how s was counted, each time
    freed      \* history: how often the work of s was freed

queueVars == <<queue, frozen>>
senderVars == <<sender, share>>
tableVars == <<tracked, sshares>>
sessionVars == <<session, resumes, sessions>>
netVars == <<active, sessionVars, pending, arriving, connections>>
historyVars == <<counted, freed>>
vars == <<queueVars, senderVars, tableVars, receiver, netVars, removed, origin,
          historyVars>>

Auth == "authorize"
Answer == [of : Share \cup {Auth}, ok : BOOLEAN]

TypeOK ==
    /\ queue \in Seq(Share) /\ frozen \in BOOLEAN
    /\ sender \in {"top", "pop", "send", "track", "check", "sleep", "quit"}
    /\ share \in Share \cup {Nobody}
    /\ share = Nobody <=> sender \in {"top", "pop", "quit"}
    /\ tracked \subseteq Share /\ sshares = Cardinality(tracked)
    /\ receiver \in {"read", "lost", "restart", "authorize", "answer", "down", "quit"}
    /\ active \in BOOLEAN /\ removed \in BOOLEAN
    /\ resumes \in BOOLEAN /\ (resumes => session # 0)
    /\ session \in 0 .. MaxSession /\ sessions \in 1 .. MaxSession
    /\ connections \in 1 .. MaxConnect
    /\ pending \subseteq Share \cup {Auth} /\ arriving \in Seq(Answer)
    /\ origin \in [Share -> 0 .. MaxSession]
    /\ counted \in [Share -> SUBSET {"accepted", "rejected", "stale"}]
    /\ freed \in [Share -> Nat]

\* The pool is connected and authorised (pool_active).
Init ==
    /\ queue = <<>> /\ frozen = FALSE
    /\ sender = "top" /\ share = Nobody
    /\ tracked = {} /\ sshares = 0
    /\ receiver = "read" /\ active = TRUE /\ session = 1 /\ removed = FALSE
    /\ resumes \in BOOLEAN
    /\ pending = {} /\ arriving = <<>>
    /\ sessions = 1 /\ connections = 1
    /\ origin = [s \in Share |-> 0]
    /\ counted = [s \in Share |-> {}] /\ freed = [s \in Share |-> 0]

Count(S, how) == counted' = [s \in Share |-> IF s \in S THEN counted[s] \cup {how}
                                            ELSE counted[s]]
Free(S) == freed' = [s \in Share |-> IF s \in S THEN freed[s] + 1 ELSE freed[s]]

----------------------------------------------------------------------------
(* submit_work_async: to the queue, or nowhere when the pool was removed.  *)

Submit(s) ==
    /\ origin[s] = 0 /\ session # 0
    /\ origin' = [origin EXCEPT ![s] = session]
    /\ IF frozen THEN Free({s}) /\ UNCHANGED queue
       ELSE queue' = Append(queue, s) /\ UNCHANGED freed
    /\ UNCHANGED <<frozen, senderVars, tableVars, receiver, netVars, removed,
                   counted>>

----------------------------------------------------------------------------
(* stratum_sthread                                                         *)

SenderTop ==
    /\ sender = "top"
    /\ sender' = IF removed THEN "quit" ELSE "pop"
    /\ frozen' = (frozen \/ removed)
    /\ UNCHANGED <<queue, share, tableVars, receiver, netVars, removed, origin,
                   historyVars>>

\* Bug: the share is entered in the table before it is sent, and stays there
\* when it could not be sent.
SenderPopTracks ==
    /\ sender = "pop" /\ queue # <<>>
    /\ share' = Head(queue) /\ queue' = Tail(queue)
    /\ tracked' = tracked \cup {share'} /\ sshares' = Cardinality(tracked')
    /\ sender' = "send"
    /\ UNCHANGED <<frozen, receiver, netVars, removed, origin, historyVars>>

SenderPop ==
    /\ sender = "pop" /\ queue # <<>>
    /\ share' = Head(queue) /\ queue' = Tail(queue)
    /\ sender' = "send"
    /\ UNCHANGED <<frozen, tableVars, receiver, netVars, removed, origin,
                   historyVars>>

\* stratum_send of mining.submit
SendOk ==
    /\ sender = "send" /\ active
    /\ pending' = pending \cup {share}
    /\ sender' = "track"
    /\ UNCHANGED <<queueVars, share, tableVars, receiver, active, sessionVars,
                   arriving, connections, removed, origin, historyVars>>

\* The socket fails: suspend_stratum.
SendFails ==
    /\ sender = "send" /\ active
    /\ active' = FALSE /\ pending' = {} /\ arriving' = <<>>
    /\ sender' = "check"
    /\ UNCHANGED <<queueVars, share, tableVars, receiver, sessionVars,
                   connections, removed, origin, historyVars>>

SendInactive ==
    /\ sender = "send" /\ ~active
    /\ sender' = "check"
    /\ UNCHANGED <<queueVars, share, tableVars, receiver, netVars, removed,
                   origin, historyVars>>

\* Under sshare_lock.
Track ==
    /\ sender = "track"
    /\ tracked' = tracked \cup {share} /\ sshares' = sshares + 1
    /\ sender' = "top" /\ share' = Nobody
    /\ UNCHANGED <<queueVars, receiver, netVars, removed, origin, historyVars>>

\* Bug: the time the share was first sent is not looked at.
SessionMatchesForEver ==
    /\ sender = "check" /\ session # 0 /\ session = origin[share]
    /\ sender' = "send"
    /\ UNCHANGED <<queueVars, share, tableVars, receiver, netVars, removed,
                   origin, historyVars>>

\* Send again in 5 s.
SessionMatches ==
    /\ sender = "check" /\ session # 0 /\ session = origin[share]
    /\ sender' = "sleep"
    /\ UNCHANGED <<queueVars, share, tableVars, receiver, netVars, removed,
                   origin, historyVars>>

SendAgain ==
    /\ sender = "sleep"
    /\ sender' = "send"
    /\ UNCHANGED <<queueVars, share, tableVars, receiver, netVars, removed,
                   origin, historyVars>>

\* The session is another one, or 120 s are over: counted stale, once.
Discard ==
    /\ \/ sender = "check" /\ (session = 0 \/ session # origin[share])
       \/ sender = "sleep"
    /\ Free({share}) /\ Count({share}, "stale")
    /\ sender' = "top" /\ share' = Nobody
    /\ UNCHANGED <<queueVars, tableVars, receiver, netVars, removed, origin>>

Sender == \/ SenderTop \/ SenderPop \/ SendOk \/ SendFails \/ SendInactive
          \/ Track \/ SessionMatches \/ SendAgain \/ Discard

----------------------------------------------------------------------------
(* stratum_rthread                                                         *)

Quit ==
    /\ receiver \in {"read", "down"} /\ removed
    /\ receiver' = "quit"
    /\ UNCHANGED <<queueVars, senderVars, tableVars, netVars, removed, origin,
                   historyVars>>

ok(a) == IF a.ok THEN "accepted" ELSE "rejected"

\* parse_stratum_response: an answer whose share is tracked.
AnswerTracked ==
    /\ receiver = "read" /\ arriving # <<>>
    /\ LET a == Head(arriving) IN
        /\ a.of \in tracked
        /\ tracked' = tracked \ {a.of} /\ sshares' = sshares - 1
        /\ Count({a.of}, ok(a)) /\ Free({a.of})
    /\ arriving' = Tail(arriving)
    /\ UNCHANGED <<queueVars, senderVars, receiver, active, sessionVars,
                   pending, connections, removed, origin>>

\* Any other answer counts as that of an untracked share.
AnswerUntracked ==
    /\ receiver = "read" /\ arriving # <<>>
    /\ LET a == Head(arriving) IN
        /\ a.of \notin tracked
        /\ Count({a.of}, ok(a))
    /\ arriving' = Tail(arriving)
    /\ UNCHANGED <<queueVars, senderVars, tableVars, receiver, active, sessionVars,
                   pending, connections, removed, origin, freed>>

\* recv_line or select fails: the connection is lost, or was suspended.
Lost ==
    /\ receiver = "read"
    /\ connections < MaxConnect
    /\ receiver' = "lost"
    /\ active' = FALSE /\ pending' = {} /\ arriving' = <<>>
    /\ UNCHANGED <<queueVars, senderVars, tableVars, sessionVars,
                   connections, removed, origin, historyVars>>

\* Bug: shares of a lost session are freed but not counted.
ClearUncounted ==
    /\ Free(tracked) /\ UNCHANGED counted
    /\ tracked' = {} /\ sshares' = 0

\* clear_stratum_shares, under sshare_lock
Clear ==
    /\ Count(tracked, "stale") /\ Free(tracked)
    /\ tracked' = {} /\ sshares' = 0

HandleLost ==
    /\ receiver = "lost"
    /\ IF resumes THEN UNCHANGED <<tableVars, counted, freed>> ELSE Clear
    /\ receiver' = "restart"
    /\ UNCHANGED <<queueVars, senderVars, netVars, removed, origin>>

\* cnx_needed is false: the connection of a pool that is not used is closed.
CnxNotNeeded ==
    /\ receiver = "read" /\ sshares = 0 /\ arriving = <<>>
    /\ connections < MaxConnect
    /\ active' = FALSE /\ pending' = {}
    /\ receiver' = "restart"
    /\ Clear
    /\ UNCHANGED <<queueVars, senderVars, sessionVars, arriving,
                   connections, removed, origin>>

\* restart_stratum: suspend_stratum and initiate_stratum.  The session is
\* resumed, or it is another one, or there is none; stratum_active is set.
Connected ==
    /\ receiver = "restart"
    /\ connections' = connections + 1
    /\ \/ resumes /\ UNCHANGED <<session, resumes, sessions>>
       \/ /\ sessions < MaxSession
          /\ sessions' = sessions + 1 /\ session' = sessions' /\ resumes' \in BOOLEAN
    /\ active' = TRUE /\ pending' = {} /\ arriving' = <<>>
    /\ receiver' = "authorize"
    /\ UNCHANGED <<queueVars, senderVars, tableVars, removed, origin, historyVars>>

ConnectFails ==
    /\ receiver = "restart"
    /\ \/ UNCHANGED <<session, resumes>>
       \/ session' = 0 /\ resumes' = FALSE
    /\ active' = FALSE /\ pending' = {} /\ arriving' = <<>>
    /\ receiver' = "down"
    /\ UNCHANGED <<queueVars, senderVars, tableVars, sessions, connections,
                   removed, origin, historyVars>>

\* auth_stratum, which sends with stratum_send
SendAuth ==
    /\ receiver = "authorize" /\ active
    /\ pending' = pending \cup {Auth}
    /\ receiver' = "answer"
    /\ UNCHANGED <<queueVars, senderVars, tableVars, active, sessionVars,
                   arriving, connections, removed, origin, historyVars>>

\* "anything left should be auth" (util.c:1474)
AuthAnswer ==
    /\ receiver = "answer" /\ arriving # <<>>
    /\ LET a == Head(arriving) IN
        receiver' = IF a.ok THEN "read" ELSE "down"
    /\ arriving' = Tail(arriving)
    /\ UNCHANGED <<queueVars, senderVars, tableVars, active, sessionVars,
                   pending, connections, removed, origin, counted, freed>>

\* The connection was suspended by the sender, or fails.
AuthFails ==
    /\ receiver \in {"authorize", "answer"}
    /\ receiver' = "down"
    /\ UNCHANGED <<queueVars, senderVars, tableVars, netVars, removed, origin,
                   historyVars>>

\* 30 s later
TryAgain ==
    /\ receiver = "down" /\ ~removed
    /\ connections < MaxConnect
    /\ active' = FALSE /\ pending' = {} /\ arriving' = <<>>
    /\ receiver' = "restart"
    /\ UNCHANGED <<queueVars, senderVars, tableVars, sessionVars,
                   connections, removed, origin, historyVars>>

Receiver == \/ Quit \/ AnswerTracked \/ AnswerUntracked \/ Lost \/ HandleLost
            \/ CnxNotNeeded \/ Connected \/ ConnectFails \/ SendAuth
            \/ AuthAnswer \/ AuthFails \/ TryAgain

----------------------------------------------------------------------------
\* The pool answers any request it has.
PoolAnswers ==
    /\ \E r \in pending, good \in BOOLEAN :
        /\ pending' = pending \ {r}
        /\ arriving' = Append(arriving, [of |-> r, ok |-> good])
    /\ UNCHANGED <<queueVars, senderVars, tableVars, receiver, active,
                   sessionVars, connections, removed, origin, historyVars>>

\* remove_pool, at any time
PoolRemoved ==
    /\ ~removed
    /\ removed' = TRUE
    /\ UNCHANGED <<queueVars, senderVars, tableVars, receiver, netVars, origin,
                   historyVars>>

Next ==
    \/ \E s \in Share : Submit(s)
    \/ Sender \/ Receiver
    \/ PoolAnswers \/ PoolRemoved

Spec == Init /\ [][Next]_vars

\* The send thread runs, and its clock: it does not sleep and send for ever.
ShareFairness == WF_vars(Sender) /\ SF_vars(Discard)
FairSpec == Spec /\ ShareFairness

----------------------------------------------------------------------------
Held == {queue[i] : i \in DOMAIN queue} \cup ({share} \ {Nobody})

\* A work is freed once, by the thread that holds it last: the sender when it
\* gives up, the receiver when it is answered or cleared, whichever of them
\* the connection was lost under.
FreedOnce ==
    \A s \in Share :
        /\ freed[s] <= 1
        /\ freed[s] = 1 => s \notin Held \cup tracked

\* A share does not hold up those behind it for good, whatever becomes of the
\* connection: it is sent, or discarded, or its pool was removed.
SharesMoveOn ==
    \A s \in Share : s \in Held ~> s \notin Held \/ removed

\* Every share whose work was freed has been counted, or its pool was removed.
FreedIsCounted == \A s \in Share : freed[s] > 0 => counted[s] # {} \/ removed

\* No share is lost to the statistics: its work is freed only when the share has
\* been counted, accepted, rejected or stale, unless its pool was removed, however
\* connections, sessions and answers come and go.
CountedWhenFreed == TypeOK /\ FreedIsCounted
=============================================================================
