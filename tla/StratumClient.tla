--------------------------- MODULE StratumClient ---------------------------
(***************************************************************************)
(* The connection of a stratum pool: the receive thread opens it,          *)
(* subscribes and authorizes, splits what arrives into lines, handles      *)
(* them, and opens it again when it is lost; the send thread may close it  *)
(* at any moment, and does so without the receive thread's knowledge.      *)
(*                                                                         *)
(* The server is external: it answers what it is asked, sends messages of  *)
(* its own, and closes the connection.  A line is two cells and an end; it *)
(* may arrive in pieces.                                                   *)
(***************************************************************************)
EXTENDS Naturals, Sequences

CONSTANTS
    Messages,    \* kinds of lines the server sends by itself; "empty" has no cells
    RECVSIZE,    \* cells one recv takes at most
    MaxMessages, \* bound: lines the server sends by itself
    MaxRefused,  \* bound: connections, subscriptions and authorizations refused
    MaxSendFails \* bound: sends of shares that fail

ASSUME ClientAssumption ==
    /\ "rest" \notin Messages
    /\ RECVSIZE \in Nat \ {0}
    /\ MaxMessages \in Nat /\ MaxRefused \in Nat /\ MaxSendFails \in Nat

VARIABLES
    rt,          \* where the receive thread is
    calls,       \* who called restart_stratum, the innermost last
    stage,       \* who called recv_line: "subscribe", "auth" or "main"
    noresume,    \* initiate_stratum has given up resuming
    sockbuf,     \* what has been received and not yet handled
    tok,         \* the line recv_line has returned
    sock,        \* pool->sock is a connection
    stratum_active, stratum_notify,
    nonce1,      \* pool->nonce1 is not NULL
    ofSession,   \* the job is one that this session's server sent
    snd,         \* the send thread: "idle", "clear" or "close"
    needed,      \* cnx_needed
    wire,        \* what the server has sent and recv has not taken
    closed,      \* the server has closed the connection
    asked,       \* what the server has to answer: "nothing", "subscribe" or "authorize"
    line,        \* lines the server has sent on this connection
    expected,    \* the line of this connection that is next
    torn,        \* an empty line, a wait of 60 s or the send thread disturbed this connection
    messages, refused, sendfails

recvVars == <<rt, calls, stage, noresume, tok>>
poolVars == <<sockbuf, sock, stratum_active, stratum_notify, nonce1, ofSession>>
serverVars == <<wire, closed, asked, line, messages, refused>>
clientVars == <<recvVars, poolVars, serverVars, snd, needed, expected, torn, sendfails>>

EndOfLine == <<0, "end">>
Cells(n, kind) ==
    (IF kind = "empty" THEN <<>> ELSE <<<<n, kind>>, <<n, "rest">>>>) \o <<EndOfLine>>
Whole(t) == Len(t) = 2 /\ t[1][1] = t[2][1] /\ t[1][2] # "rest" /\ t[2][2] = "rest"
Kind(t) == IF Whole(t) THEN t[1][2] ELSE "garbage"

ClientInit ==
    /\ rt = "restart" /\ calls = <<"loop">> /\ stage = "main" /\ noresume = FALSE
    /\ tok = <<>> /\ sockbuf = <<>>
    /\ sock = FALSE /\ stratum_active = FALSE /\ stratum_notify = FALSE
    /\ nonce1 = FALSE /\ ofSession = FALSE
    /\ snd = "idle" /\ needed = TRUE
    /\ wire = <<>> /\ closed = FALSE /\ asked = "nothing" /\ line = 0
    /\ expected = 1 /\ torn = FALSE
    /\ messages = 0 /\ refused = 0 /\ sendfails = 0

----------------------------------------------------------------------------
(* The server.                                                             *)
SendLine(kind) ==
    /\ wire' = wire \o Cells(line + 1, kind)
    /\ line' = IF kind = "empty" THEN line ELSE line + 1
    /\ torn' = (torn \/ kind = "empty")
ServerMessage(kind) ==
    /\ sock /\ ~closed /\ stratum_active
    /\ messages < MaxMessages
    /\ messages' = messages + 1
    /\ SendLine(kind)
    /\ UNCHANGED <<recvVars, poolVars, closed, asked, refused, snd, needed, expected, sendfails>>
ServerAnswers ==
    /\ sock /\ ~closed /\ asked # "nothing"
    /\ SendLine(asked)
    /\ asked' = "nothing"
    /\ UNCHANGED <<recvVars, poolVars, closed, messages, refused, snd, needed, expected, sendfails>>
ServerRefuses ==
    /\ sock /\ ~closed /\ asked # "nothing"
    /\ refused < MaxRefused
    /\ refused' = refused + 1
    /\ SendLine("error")
    /\ asked' = "nothing"
    /\ UNCHANGED <<recvVars, poolVars, closed, messages, snd, needed, expected, sendfails>>
ServerCloses ==
    /\ sock /\ ~closed
    /\ refused < MaxRefused
    /\ refused' = refused + 1
    /\ closed' = TRUE
    /\ UNCHANGED <<recvVars, poolVars, wire, asked, line, messages, snd, needed, expected, torn, sendfails>>

----------------------------------------------------------------------------
(* suspend_stratum, called by the receive thread.                          *)
Suspended ==
    /\ sockbuf' = <<>>
    /\ stratum_active' = FALSE /\ stratum_notify' = FALSE
    /\ sock' = FALSE
NoServer == wire' = <<>> /\ closed' = FALSE /\ asked' = "nothing" /\ line' = 0
Goes(from, to) == rt = from /\ rt' = to

(* The top of the loop: a connection nobody needs is closed until it is.   *)
NotNeeded ==
    /\ Goes("loop", "asleep")
    /\ sockbuf = <<>> /\ ~needed
    /\ Suspended /\ NoServer
    /\ UNCHANGED <<calls, stage, noresume, tok, nonce1, ofSession, messages, refused, snd, needed, expected, torn, sendfails>>
wait_lpcurrent ==
    /\ Goes("asleep", "restart")
    /\ needed
    /\ calls' = <<"loop">>
    /\ UNCHANGED <<stage, noresume, tok, poolVars, serverVars, snd, needed, expected, torn, sendfails>>
SelectReady ==
    /\ Goes("loop", "recv")
    /\ sockbuf # <<>> \/ wire # <<>> \/ closed \/ ~sock
    /\ stage' = "main"
    /\ UNCHANGED <<calls, noresume, tok, poolVars, serverVars, snd, needed, expected, torn, sendfails>>

(* 90 s without a message, or without a socket: the connection is taken    *)
(* for dead.                                                               *)
SelectTimesOut ==
    /\ Goes("loop", "restart")
    /\ sockbuf = <<>> /\ wire = <<>> /\ ~closed
    /\ calls' = <<"loop">>
    /\ UNCHANGED <<stage, noresume, tok, poolVars, serverVars, snd, needed, expected, torn, sendfails>>

----------------------------------------------------------------------------
(* recv_line.                                                              *)
HasLine == \E i \in DOMAIN sockbuf : sockbuf[i] = EndOfLine
RecvSome(n) ==
    /\ Goes("recv", "recv")
    /\ ~HasLine /\ sock
    /\ n \in 1 .. RECVSIZE /\ n <= Len(wire)
    /\ sockbuf' = sockbuf \o SubSeq(wire, 1, n)
    /\ wire' = SubSeq(wire, n + 1, Len(wire))
    /\ UNCHANGED <<calls, stage, noresume, tok, sock, stratum_active, stratum_notify, nonce1, ofSession,
                   closed, asked, line, messages, refused, snd, needed, expected, torn, sendfails>>
RecvFails ==
    /\ Goes("recv", "noline")
    /\ ~HasLine
    /\ ~sock \/ (closed /\ wire = <<>>)
    /\ Suspended /\ NoServer
    /\ UNCHANGED <<calls, stage, noresume, tok, nonce1, ofSession, messages, refused, snd, needed, expected, torn, sendfails>>

(* The 60 s are over: what has come is taken for a line, if there is any.  *)
RecvTimesOut ==
    /\ rt = "recv"
    /\ ~HasLine /\ wire = <<>> /\ ~closed
    /\ rt' = IF sockbuf = <<>> THEN "noline" ELSE "token"
    /\ torn' = TRUE
    /\ UNCHANGED <<calls, stage, noresume, tok, poolVars, serverVars, snd, needed, expected, sendfails>>
LineReady ==
    /\ Goes("recv", "token")
    /\ HasLine
    /\ UNCHANGED <<calls, stage, noresume, tok, poolVars, serverVars, snd, needed, expected, torn, sendfails>>

(* strtok passes over the ends in front of the line; the rest of the       *)
(* buffer is moved from where the line would end if there were none.       *)
Leading == CHOOSE n \in 0 .. Len(sockbuf) :
              /\ \A i \in 1 .. n : sockbuf[i] = EndOfLine
              /\ n < Len(sockbuf) => sockbuf[n + 1] # EndOfLine
TokenLen == CHOOSE n \in 0 .. Len(sockbuf) - Leading :
              /\ \A i \in 1 .. n : sockbuf[Leading + i] # EndOfLine
              /\ Leading + n < Len(sockbuf) => sockbuf[Leading + n + 1] = EndOfLine
RestFromEnd ==
    IF Leading = 0 THEN SubSeq(sockbuf, TokenLen + 3, Len(sockbuf))
    ELSE SubSeq(sockbuf, TokenLen + 2, Leading + TokenLen)
Rest ==
    IF Leading = 0 THEN SubSeq(sockbuf, TokenLen + 2, Len(sockbuf))
    ELSE SubSeq(sockbuf, TokenLen + 2, Leading + TokenLen)
Token ==
    /\ rt = "token"
    /\ IF TokenLen = 0 THEN rt' = "noline" /\ UNCHANGED <<sockbuf, tok>>
       ELSE /\ rt' = stage
            /\ tok' = SubSeq(sockbuf, Leading + 1, Leading + TokenLen)
            /\ sockbuf' = Rest
    /\ UNCHANGED <<calls, stage, noresume, sock, stratum_active, stratum_notify, nonce1, ofSession,
                   serverVars, snd, needed, expected, torn, sendfails>>

(* No line: the socket is emptied.  The main loop starts the connection    *)
(* anew; the callers inside restart_stratum fail.                          *)
NoLine ==
    /\ rt = "noline"
    /\ sockbuf' = <<>> /\ wire' = <<>>
    /\ rt' = CASE stage = "main" -> "restart" [] stage = "auth" -> "failed" [] OTHER -> "unsubscribed"
    /\ calls' = IF stage = "main" THEN <<"loop">> ELSE calls
    /\ UNCHANGED <<stage, noresume, tok, sock, stratum_active, stratum_notify, nonce1, ofSession,
                   closed, asked, line, messages, refused, snd, needed, expected, torn, sendfails>>

----------------------------------------------------------------------------
(* initiate_stratum: setup_stratum_socket, mining.subscribe, its answer.   *)
Restart ==
    /\ Goes("restart", "setup")
    /\ noresume' = FALSE
    /\ IF stratum_active THEN Suspended /\ NoServer
       ELSE UNCHANGED <<sockbuf, sock, stratum_active, stratum_notify, wire, closed, asked, line>>
    /\ UNCHANGED <<calls, stage, tok, nonce1, ofSession, messages, refused, snd, needed, expected, torn, sendfails>>
SetupFails ==
    /\ Goes("setup", "failed")
    /\ refused < MaxRefused
    /\ refused' = refused + 1
    /\ sock' = FALSE /\ stratum_active' = FALSE
    /\ NoServer
    /\ UNCHANGED <<calls, stage, noresume, tok, sockbuf, stratum_notify, nonce1, ofSession, messages, snd, needed, expected, torn, sendfails>>
setup_stratum_socket ==
    /\ Goes("setup", "subscribing")
    /\ sock' = TRUE /\ stratum_active' = FALSE
    /\ NoServer
    /\ expected' = 1 /\ torn' = (snd # "idle" \/ sockbuf # <<>>)
    /\ UNCHANGED <<calls, stage, noresume, tok, sockbuf, stratum_notify, nonce1, ofSession, messages, refused, snd, needed, sendfails>>
SendSubscribe ==
    /\ rt = "subscribing"
    /\ rt' = IF sock THEN "recv" ELSE "failed"
    /\ stage' = "subscribe"
    /\ asked' = IF sock THEN "subscribe" ELSE asked
    /\ sockbuf' = IF noresume THEN <<>> ELSE sockbuf
    /\ UNCHANGED <<calls, noresume, tok, sock, stratum_active, stratum_notify, nonce1, ofSession,
                   wire, closed, line, messages, refused, snd, needed, expected, torn, sendfails>>
Subscribed ==
    /\ Goes("subscribe", "authorizing")
    /\ Kind(tok) = "subscribe"
    /\ nonce1' = TRUE
    /\ ofSession' = FALSE
    /\ stratum_active' = TRUE
    /\ expected' = expected + 1
    /\ UNCHANGED <<calls, stage, noresume, tok, sockbuf, sock, stratum_notify, serverVars, snd, needed, torn, sendfails>>
NotSubscribed ==
    /\ Goes("subscribe", "refused")
    /\ Kind(tok) # "subscribe"
    /\ UNCHANGED <<calls, stage, noresume, tok, poolVars, serverVars, snd, needed, expected, torn, sendfails>>
(* An answer that cannot be used: once more, afresh.                       *)
Afresh ==
    /\ rt = "refused"
    /\ IF noresume THEN rt' = "unsubscribed" /\ UNCHANGED <<noresume, nonce1>>
       ELSE rt' = "setup" /\ noresume' = TRUE /\ nonce1' = FALSE
    /\ UNCHANGED <<calls, stage, tok, sockbuf, sock, stratum_active, stratum_notify, ofSession, serverVars, snd, needed, expected, torn, sendfails>>
Unsubscribed ==
    /\ Goes("unsubscribed", "failed")
    /\ Suspended /\ NoServer
    /\ UNCHANGED <<calls, stage, noresume, tok, nonce1, ofSession, messages, refused, snd, needed, expected, torn, sendfails>>

(* auth_stratum: messages are handled until a line is not one; that line   *)
(* is the answer.                                                          *)
SendAuthorize ==
    /\ rt = "authorizing"
    /\ IF stratum_active /\ sock
       THEN /\ rt' = "recv" /\ stage' = "auth"
            /\ asked' = "authorize"
            /\ UNCHANGED <<sockbuf, sock, stratum_active, stratum_notify, wire, closed, line>>
       ELSE /\ rt' = "failed" /\ UNCHANGED stage
            /\ Suspended /\ NoServer
    /\ UNCHANGED <<calls, noresume, tok, nonce1, ofSession, messages, refused, snd, needed, expected, torn, sendfails>>

(* What parse_method knows: notify, which sets stratum_notify, set_diff,   *)
(* get_version and show_message, and reconnect.                            *)
Methods == {"notify", "message"}
IsMethod(t) == Kind(t) \in Methods
Method ==
    /\ rt \in {"auth", "main"}
    /\ IsMethod(tok)
    /\ rt' = IF rt = "auth" THEN "recv" ELSE "loop"
    /\ expected' = expected + 1
    /\ stratum_notify' = (stratum_notify \/ Kind(tok) = "notify")
    /\ ofSession' = (ofSession \/ (Kind(tok) = "notify" /\ sock))
    /\ UNCHANGED <<calls, stage, noresume, tok, sockbuf, sock, stratum_active, nonce1, serverVars, snd, needed, torn, sendfails>>
Reconnect ==
    /\ rt \in {"auth", "main"}
    /\ Kind(tok) = "reconnect"
    /\ rt' = "restart"
    /\ calls' = Append(IF rt = "main" THEN <<>> ELSE calls, rt)
    /\ expected' = expected + 1
    /\ UNCHANGED <<stage, noresume, tok, poolVars, serverVars, snd, needed, torn, sendfails>>
Authorized ==
    /\ rt = "auth"
    /\ ~IsMethod(tok) /\ Kind(tok) # "reconnect"
    /\ rt' = IF Kind(tok) = "authorize" THEN "restarted" ELSE "failed"
    /\ expected' = expected + 1
    /\ UNCHANGED <<calls, stage, noresume, tok, poolVars, serverVars, snd, needed, torn, sendfails>>
OtherLine ==
    /\ Goes("main", "loop")
    /\ ~IsMethod(tok) /\ Kind(tok) # "reconnect"
    /\ expected' = expected + 1
    /\ UNCHANGED <<calls, stage, noresume, tok, poolVars, serverVars, snd, needed, torn, sendfails>>

(* restart_stratum returns to the loop, or to parse_reconnect in the main  *)
(* loop or in auth_stratum, which goes on waiting for its answer.          *)
Caller == calls[Len(calls)]
Returned == calls' = SubSeq(calls, 1, Len(calls) - 1)
RestartOk ==
    /\ rt = "restarted"
    /\ Returned
    /\ IF Caller = "auth" THEN rt' = "recv" /\ stage' = "auth"
       ELSE rt' = "loop" /\ UNCHANGED stage
    /\ UNCHANGED <<noresume, tok, poolVars, serverVars, snd, needed, expected, torn, sendfails>>
RestartFails ==
    /\ rt = "failed"
    /\ Returned
    /\ rt' = CASE Caller = "auth" -> "failed" [] Caller = "main" -> "loop" [] OTHER -> "dead"
    /\ UNCHANGED <<stage, noresume, tok, poolVars, serverVars, snd, needed, expected, torn, sendfails>>
(* pool_died, and again every 30 s.                                        *)
StaysDead ==
    /\ Goes("dead", "dead")
    /\ UNCHANGED <<calls, stage, noresume, tok, poolVars, serverVars, snd, needed, expected, torn, sendfails>>
ConnectAgain ==
    /\ Goes("dead", "restart")
    /\ calls' = <<"loop">>
    /\ UNCHANGED <<stage, noresume, tok, poolVars, serverVars, snd, needed, expected, torn, sendfails>>

----------------------------------------------------------------------------
(* The send thread: a send that fails, then suspend_stratum, which empties *)
(* the buffer first.                                                       *)
ShareFails ==
    /\ snd = "idle" /\ stratum_active
    /\ sendfails < MaxSendFails
    /\ sendfails' = sendfails + 1
    /\ snd' = "clear" /\ torn' = TRUE
    /\ UNCHANGED <<recvVars, poolVars, serverVars, needed, expected>>
SenderClears ==
    /\ snd = "clear" /\ snd' = "close"
    /\ sockbuf' = <<>>
    /\ UNCHANGED <<recvVars, sock, stratum_active, stratum_notify, nonce1, ofSession, serverVars, needed, expected, torn, sendfails>>
SenderCloses ==
    /\ snd = "close" /\ snd' = "idle"
    /\ sock' = FALSE /\ stratum_active' = FALSE /\ stratum_notify' = FALSE
    /\ NoServer
    /\ UNCHANGED <<recvVars, sockbuf, nonce1, ofSession, messages, refused, needed, expected, torn, sendfails>>
PoolNeeded ==
    /\ needed' = ~needed
    /\ messages < MaxMessages /\ messages' = messages + 1
    /\ UNCHANGED <<recvVars, poolVars, wire, closed, asked, line, refused, snd, expected, torn, sendfails>>

ReceiverNext ==
    \/ NotNeeded \/ wait_lpcurrent \/ SelectReady \/ SelectTimesOut
    \/ \E n \in 1 .. RECVSIZE : RecvSome(n)
    \/ RecvFails \/ RecvTimesOut \/ LineReady \/ Token \/ NoLine
    \/ Restart \/ SetupFails \/ setup_stratum_socket \/ SendSubscribe \/ Subscribed
    \/ NotSubscribed \/ Afresh \/ Unsubscribed \/ SendAuthorize
    \/ Method \/ Reconnect \/ Authorized \/ OtherLine \/ RestartOk \/ RestartFails \/ ConnectAgain
SenderNext == ShareFails \/ SenderClears \/ SenderCloses
ServerNext == (\E kind \in Messages : ServerMessage(kind)) \/ ServerAnswers \/ ServerRefuses \/ ServerCloses
ClientNext == ReceiverNext \/ SenderNext \/ ServerNext \/ PoolNeeded

(* The threads run, the send thread ends what it began, and the server     *)
(* answers in time: a wait of 60 s is not for ever the faster one.         *)
ClientFairness ==
    /\ WF_clientVars(ReceiverNext)
    /\ WF_clientVars(SenderClears \/ SenderCloses)
    /\ SF_clientVars(rt = "recv" /\ ServerAnswers)
ClientSpec == ClientInit /\ [][ClientNext]_clientVars /\ ClientFairness

----------------------------------------------------------------------------
ClientTypeOK ==
    /\ stage \in {"subscribe", "auth", "main"}
    /\ stratum_active => nonce1
    /\ rt \in {"loop", "asleep", "main"} => Len(calls) <= 1
    /\ rt \in {"restarted", "failed"} => calls # <<>>
    /\ ~sock => wire = <<>>

(* Every line handled is one that the server sent on this connection,      *)
(* whole and in order, unless the connection has been disturbed (and the   *)
(* pool is active only with a nonce1, and nothing comes without a socket). *)
LinesWhole ==
    /\ ClientTypeOK
    /\ rt \in {"subscribe", "auth", "main"} /\ ~torn => Whole(tok) /\ tok[1][1] = expected

(* Whatever happens to the connection, by the server or by the send        *)
(* thread, the receive thread brings it back if it is needed.              *)
ComesBack == <>[]needed => []<>stratum_active

(* Work is made from the pool's job only when that job was sent in the     *)
(* present session (stratum_active and stratum_notify are both set).       *)
JobIsOfSession == stratum_active /\ stratum_notify => ofSession
=============================================================================
