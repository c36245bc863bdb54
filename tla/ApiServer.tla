----------------------------- MODULE ApiServer -----------------------------
(***************************************************************************)
(* The RPC server of api.c: who may connect, which commands the caller's   *)
(* group may give, what a command does to the settings and to the queued   *)
(* devices, and how its reply is put together, record by record, in a      *)
(* buffer of fixed size, closed and sent.  The commands on pools and GPUs  *)
(* are modelled in PoolManager and DeviceControl; here they only run.      *)
(***************************************************************************)
EXTENDS Naturals, Sequences, SequencesExt, FiniteSetsExt

CONSTANTS
    Addresses,    \* the hosts a client may connect from
    ApiAllow,     \* --api-allow: a sequence of [from |-> set of hosts, group |-> letter]
    ApiGroups,    \* --api-groups: a sequence of [name |-> letter, words |-> set of words]
    SOCKBUFSIZ,   \* the size of the reply buffer, in cells
    RecordSizes,  \* the sizes a record may have, in cells
    Attached,     \* the kinds of the devices there are: "gpu", "pga", "asc"
    MaxDevices,   \* bound: devices hotplugging may bring the table to
    MaxRequests,  \* bound: connections served
    MaxPools,     \* the pools there are to report
    DeviceThreads, \* the mining threads of a device
    Asked         \* the commands the clients of the model give

VARIABLES
    api,          \* where the server thread is
    client,       \* [group, json, cmd, id]: the request being served
    io,           \* [buf, used, full, close]: the reply buffer
    left,         \* [of, done]: the records the command adds
    tosend,       \* pieces of the reply not yet sent, and the tries made
    got,          \* the reply the client has got
    ran,          \* the request whose function was called
    kinds,        \* the table of devices
    apideven,     \* deven of each
    posted,       \* the tokens its thread has been posted
    settings,     \* opt_queue, opt_fail_only and the debug switches
    served,       \* connections accepted
    bye           \* the server is to end

apiVars == <<api, client, io, left, tosend, got, ran, kinds, apideven, posted, settings, served, bye>>

----------------------------------------------------------------------------
(* The table of commands: TRUE for those with iswritemode.                 *)
Reports == {"version", "config", "devs", "pools", "summary", "gpu", "pga", "asc", "gpucount",
            "pgacount", "asccount", "notify", "devdetails", "stats", "check", "coin", "usbstats"}
Writes == {"gpuenable", "gpudisable", "gpurestart", "pgaenable", "pgadisable", "pgaidentify",
           "switchpool", "addpool", "poolpriority", "enablepool", "disablepool", "removepool",
           "gpuintensity", "gpumem", "gpuengine", "gpufan", "gpuvddc", "save", "quit", "privileged",
           "restart", "failover-only", "debug", "setconfig", "pgaset", "zero", "hotplug",
           "ascenable", "ascdisable", "ascidentify"}
cmds == [c \in Reports \union Writes |-> c \in Writes]

(* The buffer has room for a status; an entry of --api-allow or            *)
(* --api-groups has a letter.                                              *)
ASSUME ApiAssumption ==
    /\ SOCKBUFSIZ \in Nat /\ SOCKBUFSIZ >= 2 /\ RecordSizes \subseteq Nat
    /\ MaxDevices \in Nat /\ MaxPools \in Nat /\ DeviceThreads \in Nat \ {0}
    /\ Attached \in Seq({"gpu", "pga", "asc"}) /\ Len(Attached) <= MaxDevices
    /\ ApiAllow \in Seq([from : SUBSET Addresses, group : STRING])
    /\ ApiGroups \in Seq([name : STRING, words : SUBSET STRING])
    /\ Asked \subseteq DOMAIN cmds

(* A group's commands: those named, and with "*" all that only report.     *)
StarIsAll(words) ==
    (words \ {"*"}) \union (IF "*" \in words THEN DOMAIN cmds ELSE {})
GroupStar(words) ==
    (words \ {"*"}) \union (IF "*" \in words THEN {c \in DOMAIN cmds : ~cmds[c]} ELSE {})
setup_groups ==
    [g \in {ApiGroups[i].name : i \in DOMAIN ApiGroups} \union {"R"} |->
        IF g = "R" THEN {c \in DOMAIN cmds : ~cmds[c]}
        ELSE GroupStar((CHOOSE i \in Range(ApiGroups) : i.name = g).words)]

(* An allowed host is put in group R unless its letter is a defined group. *)
setup_ipaccess ==
    [i \in DOMAIN ApiAllow |->
        [ApiAllow[i] EXCEPT !.group = IF @ = "W" \/ @ \in DOMAIN setup_groups THEN @ ELSE "R"]]

Permits(group, c) == IF group = "W" THEN TRUE ELSE c \in setup_groups[group]

----------------------------------------------------------------------------
(* The reply buffer: io_add refuses what does not fit, and then the rest.  *)
Empty == [buf |-> <<>>, used |-> 0, full |-> FALSE, close |-> FALSE]
IoAddAgain(b, what, size) ==
    IF b.used + size + 1 > SOCKBUFSIZ THEN [b EXCEPT !.full = TRUE]
    ELSE [b EXCEPT !.buf = Append(@, what), !.used = @ + size]
IoAdd(b, what, size) ==
    IF b.full THEN b
    ELSE IF b.used + size + 1 > SOCKBUFSIZ THEN [b EXCEPT !.full = TRUE]
    ELSE [b EXCEPT !.buf = Append(@, what), !.used = @ + size]

(* message(): the status record, in JSON inside brackets of its own.       *)
Message(json) ==
    IF json THEN IoAdd(IoAdd(IoAdd(Empty, "open", 0), "record", 1), "close", 0)
    ELSE IoAdd(Empty, "record", 1)

(* What send_result puts behind it.                                        *)
Closed(b, json) ==
    b.buf \o (IF b.close THEN <<"close">> ELSE <<>>)
          \o (IF json THEN <<IF b.full THEN "truncated" ELSE "end">> ELSE <<>>)

----------------------------------------------------------------------------
(* numpgas, numascs and their inverses.                                    *)
CountOf(kind) == Cardinality({i \in DOMAIN kinds : kinds[i] = kind})
DeviceOf(kind, id) ==
    CHOOSE i \in DOMAIN kinds :
        kinds[i] = kind /\ Cardinality({j \in 1 .. i : kinds[j] = kind}) = id + 1

(* The records of each report.                                             *)
SummaryRecords == 1
DevRecords == CountOf("gpu") + CountOf("asc") + CountOf("pga")
PoolRecords == MaxPools
NotifyRecords == Len(kinds)
DetailRecords == Len(kinds)
StatsRecords == Len(kinds) + MaxPools
GpuRecords(id) == IF id < CountOf("gpu") THEN 1 ELSE 0
PgaRecords(id) == IF id < CountOf("pga") THEN 1 ELSE 0
AscRecords(id) == IF id < CountOf("asc") THEN 1 ELSE 0
UsbRecords == CountOf("pga")
Records(c, id) ==
    CASE c = "devs" -> DevRecords
      [] c = "pools" -> PoolRecords
      [] c = "notify" -> NotifyRecords
      [] c = "devdetails" -> DetailRecords
      [] c = "stats" -> StatsRecords
      [] c = "gpu" -> GpuRecords(id)
      [] c = "pga" -> PgaRecords(id)
      [] c = "asc" -> AscRecords(id)
      [] c = "usbstats" -> UsbRecords
      [] OTHER -> SummaryRecords

----------------------------------------------------------------------------
NoRequest == [group |-> "R", json |-> FALSE, cmd |-> "version", id |-> 0]
NoCall == [group |-> "R", cmd |-> "version"]
ApiInit ==
    /\ api = "accept"
    /\ client = NoRequest
    /\ io = Empty
    /\ left = [of |-> 0, done |-> 0]
    /\ tosend = [pieces |-> 0, tries |-> 0]
    /\ got = <<>>
    /\ ran = NoCall
    /\ kinds = Attached
    /\ apideven = [i \in 1 .. MaxDevices |-> "enabled"]
    /\ posted = [i \in 1 .. MaxDevices |-> 0]
    /\ settings = [queue |-> 0, failonly |-> FALSE, quiet |-> FALSE, debug |-> FALSE, log |-> FALSE]
    /\ served = 0
    /\ bye = FALSE

(* A connection: the first entry of the list that matches gives the group. *)
Accept(a) ==
    LET matching == {i \in DOMAIN ApiAllow : a \in ApiAllow[i].from}
    IN  /\ api = "accept"
        /\ ~bye
        /\ served < MaxRequests
        /\ served' = served + 1
        /\ IF matching = {} THEN UNCHANGED <<api, client>>
           ELSE /\ api' = "recv"
                /\ client' = [client EXCEPT !.group = setup_ipaccess[Min(matching)].group]
        /\ UNCHANGED <<io, left, tosend, got, ran, kinds, apideven, posted, settings, bye>>

(* recv and the parsing of the request: it may be unreadable, JSON without *)
(* a command, or name a command that does not exist.                       *)
RecvFails ==
    /\ api = "recv"
    /\ api' = "accept"
    /\ UNCHANGED <<client, io, left, tosend, got, ran, kinds, apideven, posted, settings, served, bye>>
RecvInvalid(json) ==
    /\ api = "recv"
    /\ client' = [client EXCEPT !.json = json]
    /\ io' = Message(json)
    /\ api' = "send"
    /\ UNCHANGED <<left, tosend, got, ran, kinds, apideven, posted, settings, served, bye>>
RecvCommand(json, c, id) ==
    /\ api = "recv"
    /\ client' = [client EXCEPT !.json = json, !.cmd = c, !.id = id]
    /\ io' = Empty
    /\ api' = "command"
    /\ UNCHANGED <<left, tosend, got, ran, kinds, apideven, posted, settings, served, bye>>

AccessDenied ==
    /\ api = "command"
    /\ ~Permits(client.group, client.cmd)
    /\ io' = Message(client.json)
    /\ api' = "send"
    /\ UNCHANGED <<client, left, tosend, got, ran, kinds, apideven, posted, settings, served, bye>>

Granted(c) ==
    /\ api = "command"
    /\ client.cmd = c
    /\ Permits(client.group, c)
    /\ ran' = [group |-> client.group, cmd |-> c]

(* A report: the status, then the list is opened and filled.               *)
Report ==
    /\ client.cmd \in Reports
    /\ Granted(client.cmd)
    /\ LET n == Records(client.cmd, client.id)
           opened == IF client.json THEN IoAdd(Message(TRUE), "list", 1) ELSE Message(FALSE)
       IN  IF n = 0 THEN io' = Message(client.json) /\ api' = "send" /\ UNCHANGED left
           ELSE /\ io' = [opened EXCEPT !.close = client.json /\ ~opened.full]
                /\ left' = [of |-> n, done |-> 0]
                /\ api' = "records"
    /\ UNCHANGED <<client, tosend, got, kinds, apideven, posted, settings, served, bye>>
AddRecord(size) ==
    /\ api = "records"
    /\ io' = IoAdd(io, IF client.json /\ left.done > 0 THEN "comma_record" ELSE "record", size)
    /\ left' = [left EXCEPT !.done = @ + 1]
    /\ api' = IF left.done + 1 = left.of THEN "send" ELSE "records"
    /\ UNCHANGED <<client, tosend, got, ran, kinds, apideven, posted, settings, served, bye>>

(* pgaenable and ascenable post each of the device's threads, unless it is *)
(* gone from the bus; disabling only sets the flag and leaves the tokens.  *)
Answer == io' = Message(client.json) /\ api' = "send"
EnableQueued(c, kind) ==
    /\ Granted(c)
    /\ Answer
    /\ IF client.id >= CountOf(kind) THEN UNCHANGED <<apideven, posted>>
       ELSE LET d == DeviceOf(kind, client.id)
            IN  \/ UNCHANGED <<apideven, posted>>   \* not disabled, or usbinfo.nodev
                \/ /\ apideven[d] = "disabled"
                   /\ apideven' = [apideven EXCEPT ![d] = "enabled"]
                   /\ posted' = [posted EXCEPT ![d] = @ + DeviceThreads]
    /\ UNCHANGED <<client, left, tosend, got, kinds, settings, served, bye>>
DisableQueued(c, kind) ==
    /\ Granted(c)
    /\ Answer
    /\ apideven' = IF client.id >= CountOf(kind) THEN apideven
                   ELSE [apideven EXCEPT ![DeviceOf(kind, client.id)] = "disabled"]
    /\ UNCHANGED <<client, left, tosend, got, kinds, posted, settings, served, bye>>

(* setconfig, failover-only, debug.                                        *)
SetConfig(v) ==
    /\ Granted("setconfig")
    /\ Answer
    /\ settings' = [settings EXCEPT !.queue = v]
    /\ UNCHANGED <<client, left, tosend, got, kinds, apideven, posted, served, bye>>
FailoverOnly(tf) ==
    /\ Granted("failover-only")
    /\ Answer
    /\ settings' = [settings EXCEPT !.failonly = tf]
    /\ UNCHANGED <<client, left, tosend, got, kinds, apideven, posted, served, bye>>
DebugState(switch) ==
    /\ Granted("debug")
    /\ Answer
    /\ settings' = CASE switch = "q" -> [settings EXCEPT !.quiet = ~@]
                     [] switch = "v" -> [settings EXCEPT !.log = ~@,
                                             !.quiet = settings.log /\ @]
                     [] switch = "d" -> [settings EXCEPT !.debug = ~@, !.log = ~settings.debug,
                                             !.quiet = settings.debug /\ @]
                     [] switch = "n" -> [settings EXCEPT !.quiet = FALSE, !.debug = FALSE, !.log = FALSE]
    /\ UNCHANGED <<client, left, tosend, got, kinds, apideven, posted, served, bye>>

(* quit and restart put no status: in JSON their reply is a name without a *)
(* value, {"BYE","id":1}.                                                  *)
DoQuit ==
    /\ client.cmd \in {"quit", "restart"}
    /\ Granted(client.cmd)
    /\ io' = IoAdd(Empty, IF client.json THEN "name" ELSE "record", 1)
    /\ api' = "send"
    /\ bye' = TRUE
    /\ UNCHANGED <<client, left, tosend, got, kinds, apideven, posted, settings, served>>

(* The other commands that write, modelled with their component.           *)
OtherWrite ==
    /\ client.cmd \in Writes \ {"quit", "restart", "setconfig", "failover-only", "debug",
                                "pgaenable", "pgadisable", "ascenable", "ascdisable"}
    /\ Granted(client.cmd)
    /\ Answer
    /\ UNCHANGED <<client, left, tosend, got, kinds, apideven, posted, settings, served, bye>>

(* send_result: at most five tries; each sends what there is to send from  *)
(* the start of the reply; then the rest of it is given up.                *)
SendStart ==
    /\ api = "send"
    /\ api' = "sending"
    /\ tosend' = [pieces |-> Len(Closed(io, client.json)), tries |-> 0]
    /\ UNCHANGED <<client, io, left, got, ran, kinds, apideven, posted, settings, served, bye>>
SendSome(n) ==
    /\ api = "sending"
    /\ tosend.tries < 5
    /\ tosend.pieces > 0
    /\ n \in {0, tosend.pieces - 1, tosend.pieces}
    /\ tosend' = [pieces |-> tosend.pieces - n, tries |-> tosend.tries + 1]
    /\ got' = got \o SubSeq(Closed(io, client.json), 1, n)
    /\ UNCHANGED <<api, client, io, left, ran, kinds, apideven, posted, settings, served, bye>>
SendEnd(given_up) ==
    /\ api = "sending"
    /\ given_up \/ tosend.pieces = 0 \/ tosend.tries = 5
    /\ tosend' = [pieces |-> 0, tries |-> 0]
    /\ api' = "closed"
    /\ UNCHANGED <<client, io, left, got, ran, kinds, apideven, posted, settings, served, bye>>
CloseSocket ==
    /\ api = "closed"
    /\ api' = IF bye THEN "ended" ELSE "accept"
    /\ got' = <<>>
    /\ io' = Empty
    /\ client' = NoRequest
    /\ ran' = NoCall
    /\ UNCHANGED <<left, tosend, kinds, apideven, posted, settings, served, bye>>

(* Around it: a device is hotplugged, one of a device's threads takes its  *)
(* token.                                                                  *)
ApiHotplug(kind) ==
    /\ Len(kinds) < MaxDevices
    /\ kinds' = Append(kinds, kind)
    /\ UNCHANGED <<api, client, io, left, tosend, got, ran, apideven, posted, settings, served, bye>>
ThreadWakes(d) ==
    /\ posted[d] > 0
    /\ posted' = [posted EXCEPT ![d] = @ - 1]
    /\ UNCHANGED <<api, client, io, left, tosend, got, ran, kinds, apideven, settings, served, bye>>

ApiNext ==
    \/ \E a \in Addresses : Accept(a)
    \/ RecvFails
    \/ \E json \in BOOLEAN : RecvInvalid(json)
    \/ \E json \in BOOLEAN, c \in Asked, id \in 0 .. 1 : RecvCommand(json, c, id)
    \/ AccessDenied
    \/ Report
    \/ \E size \in RecordSizes : AddRecord(size)
    \/ EnableQueued("pgaenable", "pga") \/ EnableQueued("ascenable", "asc")
    \/ DisableQueued("pgadisable", "pga") \/ DisableQueued("ascdisable", "asc")
    \/ \E v \in 0 .. 1 : SetConfig(v)
    \/ \E tf \in BOOLEAN : FailoverOnly(tf)
    \/ \E switch \in {"q", "v", "d", "n"} : DebugState(switch)
    \/ DoQuit
    \/ OtherWrite
    \/ SendStart
    \/ \E n \in 0 .. tosend.pieces : SendSome(n)
    \/ \E given_up \in BOOLEAN : SendEnd(given_up)
    \/ CloseSocket
    \/ \E kind \in {"pga", "asc"} : ApiHotplug(kind)
    \/ \E d \in DOMAIN kinds : ThreadWakes(d)

ApiSpec == ApiInit /\ [][ApiNext]_apiVars

----------------------------------------------------------------------------
ApiTypeOK ==
    /\ io.used < SOCKBUFSIZ
    /\ client.group \in DOMAIN setup_groups \union {"W"}
    /\ bye => api # "accept"
    /\ tosend.tries \in 0 .. 5
    /\ posted \in [1 .. MaxDevices -> Nat]

(* A JSON request gets a JSON reply (API-README:57), sent in one piece:    *)
(* every list is closed, the first record of a list has no comma before    *)
(* it, every other one has, and every name has a value.  Does not hold for *)
(* quit and restart.                                                       *)
Balanced(b) ==
    Cardinality({i \in DOMAIN b : b[i] \in {"open", "list"}}) =
        Cardinality({i \in DOMAIN b : b[i] = "close"})
Separated(b) ==
    \A i \in DOMAIN b :
        /\ b[i] = "record" => i > 1 /\ b[i - 1] \in {"open", "list"}
        /\ b[i] = "comma_record" => i > 1 /\ b[i - 1] \in {"record", "comma_record"}
Parses(b) == Balanced(b) /\ Separated(b) /\ \A i \in DOMAIN b : b[i] # "name"
JsonIsAnswered == api = "sending" /\ client.json => Parses(Closed(io, TRUE))

(* A reply parses, whether it was truncated or not, unless it is to one of *)
(* these two commands.  With the module's types.                           *)
SaysBye == ran.cmd \in {"quit", "restart"}
RepliesParse == ApiTypeOK /\ (SaysBye \/ JsonIsAnswered)

(* What the client gets is a beginning of the reply, all of it unless it   *)
(* is given up.  A reply that is sent in pieces is not what was put        *)
(* together: each piece is taken from the start.                           *)
GotReply ==
    api = "closed" /\ got # <<>> => IsPrefix(got, Closed(io, client.json))

(* A function that writes runs only for a client of group W, or of a group *)
(* whose list on the command line names that command: "*" never grants it. *)
OnlyPermitted ==
    [][ran' # ran /\ ran'.cmd \in Writes
        => ran'.group = "W"
           \/ \E i \in DOMAIN ApiGroups :
                 ApiGroups[i].name = ran'.group /\ ran'.cmd \in ApiGroups[i].words]_ran
=============================================================================
