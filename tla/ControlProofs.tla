--------------------------- MODULE ControlProofs ---------------------------
(***************************************************************************)
(* Proofs about ApiServer and Config.                                      *)
(*                                                                         *)
(* ApiServer, for any lists of hosts and groups, any size of the reply     *)
(* buffer that has room for a status, and any records.  A reply parses     *)
(* because of what io_add keeps of it: a status, or a status and a list    *)
(* that is open and will be closed.  Where the buffer is full, the records *)
(* in it are the first of the list.                                        *)
(*                                                                         *)
(* Config, for any number of GPUs and devices and anything the user gives. *)
(* While the file is read the settings are the defaults or already those   *)
(* that were saved; either way parse_config makes them those that were     *)
(* saved, because every value the file has is accepted, and one range of   *)
(* devices is written as itself.                                           *)
(***************************************************************************)
EXTENDS ApiServer, Config, FiniteSetTheorems, WellFoundedInduction, TLAPS

Steps == {"accept", "recv", "command", "records", "send", "sending", "closed", "ended"}
Pieces == {"open", "record", "close", "list", "comma_record", "name"}
Buffers == [buf : Seq(Pieces), used : Nat, full : BOOLEAN, close : BOOLEAN]
Letters == DOMAIN setup_groups \union {"W"}
Requests == [group : Letters, json : BOOLEAN, cmd : DOMAIN cmds, id : Nat]

\* The server's own state.
ServerTypes ==
    /\ api \in Steps
    /\ client \in Requests
    /\ io \in Buffers /\ io.used < SOCKBUFSIZ
    /\ left \in [of : Nat, done : Nat]
    /\ tosend \in [pieces : Nat, tries : 0 .. 5]
    /\ bye \in BOOLEAN
    /\ bye => api \in {"send", "sending", "closed", "ended"}

\* The devices.
DeviceTypes ==
    /\ Len(kinds) <= MaxDevices /\ kinds \in Seq({"gpu", "pga", "asc"})
    /\ apideven \in [1 .. MaxDevices -> {"enabled", "disabled"}]
    /\ posted \in [1 .. MaxDevices -> Nat]

\* What a JSON reply may be, but for quit and restart: a status, or a status
\* and a list that is still open.
IsStatus(b) == Len(b) = 3 /\ b[1] = "open" /\ b[2] = "record" /\ b[3] = "close"
IsList(b) ==
    /\ Len(b) >= 4
    /\ b[1] = "open" /\ b[2] = "record" /\ b[3] = "close" /\ b[4] = "list"
    /\ Len(b) >= 5 => b[5] = "record"
    /\ \A i \in 6 .. Len(b) : b[i] = "comma_record"

\* The buffer of a JSON reply, and how many records it has while there is room.
ReplyShape ==
    /\ client.json /\ api \in {"records", "send", "sending"} =>
          IF io.close THEN IsList(io.buf) ELSE IsStatus(io.buf) \/ SaysBye
    /\ client.json /\ api = "records" /\ ~io.full =>
          io.close /\ Len(io.buf) = left.done + 4

ApiInv == ServerTypes /\ DeviceTypes /\ ReplyShape

----------------------------------------------------------------------------
(* The groups.                                                             *)

(* Of the intervals 1 .. k with k in S one is smallest.                    *)
LEMMA MinFacts ==
  ASSUME NEW S \in SUBSET Nat, S # {}
  PROVE  Min(S) \in S /\ \A k \in S : Min(S) <= k
<1> DEFINE Intervals == {1 .. k : k \in S}
<1>1. Intervals \subseteq FiniteSubsetsOf(Nat) /\ Intervals # {}
  <2>1. \A k \in S : IsFiniteSet(1 .. k)
    BY FS_Interval
  <2>2. \A k \in S : (1 .. k) \in SUBSET Nat
    OBVIOUS
  <2> QED BY <2>1, <2>2 DEF FiniteSubsetsOf
<1>2. PICK T \in Intervals : \A U \in Intervals : <<U, T>> \notin StrictSubsetOrdering(Nat)
  <2> HIDE DEF Intervals
  <2> QED BY <1>1, FS_StrictSubsetOrderingWellFounded, WFMin
<1>3. PICK m \in S : T = 1 .. m
  OBVIOUS
<1>4. ASSUME NEW k \in S, k < m PROVE FALSE
  <2>1. (1 .. k) \in Intervals /\ (1 .. k) \subseteq (1 .. m) /\ m \in (1 .. m) /\ m \notin (1 .. k)
    BY <1>4
  <2>2. (1 .. k) \in SUBSET Nat /\ (1 .. m) \in SUBSET Nat /\ (1 .. k) # (1 .. m)
    BY <2>1
  <2>3. <<1 .. k, 1 .. m>> \in StrictSubsetOrdering(Nat)
    BY <2>1, <2>2, Zenon DEF StrictSubsetOrdering
  <2> QED BY <1>2, <1>3, <2>1, <2>3
<1>5. \A k \in S : m <= k
  BY <1>4
<1> QED BY <1>5 DEF Min

\* setup_ipaccess leaves no letter that stands for nothing.
LEMMA IpAccessLetters ==
    ASSUME NEW i \in DOMAIN ApiAllow
    PROVE  setup_ipaccess[i].group \in Letters
<1> DEFINE Entries == [from : SUBSET Addresses, group : STRING]
<1>1. ApiAllow[i] \in Entries
  <2>1. ApiAllow \in Seq(Entries)
    BY ApiAssumption
  <2> HIDE DEF Entries
  <2> QED BY <2>1
<1>2. "R" \in DOMAIN setup_groups
  BY DEF setup_groups
<1>3. setup_ipaccess[i].group = IF ApiAllow[i].group = "W" \/ ApiAllow[i].group \in DOMAIN setup_groups
                                THEN ApiAllow[i].group ELSE "R"
  BY <1>1, Zenon DEF setup_ipaccess
<1> QED BY <1>2, <1>3 DEF Letters

\* A group on the command line has the commands that write only by name.
LEMMA GroupsWrite ==
    ASSUME NEW g \in Letters, NEW c \in Writes, Permits(g, c), g # "W"
    PROVE  \E i \in DOMAIN ApiGroups : ApiGroups[i].name = g /\ c \in ApiGroups[i].words
<1>1. c \in DOMAIN cmds /\ cmds[c]
  BY DEF cmds
<1>2. g \in DOMAIN setup_groups /\ c \in setup_groups[g]
  BY DEF Permits, Letters
<1>3. g # "R"
  BY <1>1, <1>2 DEF setup_groups
<1>4. PICK k \in DOMAIN ApiGroups : ApiGroups[k].name = g
  BY <1>2, <1>3 DEF setup_groups
<1> DEFINE r == CHOOSE i \in Range(ApiGroups) : i.name = g
<1>5. r \in Range(ApiGroups) /\ r.name = g
  BY <1>4 DEF Range
<1>6. c \in GroupStar(r.words)
  BY <1>2, <1>3 DEF setup_groups
<1>7. c \in r.words
  BY <1>1, <1>6 DEF GroupStar
<1> QED BY <1>5, <1>7 DEF Range

----------------------------------------------------------------------------
(* The reply buffer.                                                       *)

\* io_add refuses, or adds behind what there is.
LEMMA IoAddFacts ==
    ASSUME NEW b \in Buffers, b.used < SOCKBUFSIZ, NEW what \in Pieces, NEW size \in Nat
    PROVE  /\ IoAdd(b, what, size) \in Buffers
           /\ IoAdd(b, what, size).used < SOCKBUFSIZ
           /\ IoAdd(b, what, size).close = b.close
           /\ \/ /\ IoAdd(b, what, size).full /\ IoAdd(b, what, size).buf = b.buf
              \/ /\ ~b.full /\ ~IoAdd(b, what, size).full
                 /\ IoAdd(b, what, size).buf = Append(b.buf, what)
                 /\ IoAdd(b, what, size).used = b.used + size
           /\ ~b.full /\ b.used + size < SOCKBUFSIZ => ~IoAdd(b, what, size).full
<1>0. b.used \in Nat
  BY DEF Buffers
<1>1. SOCKBUFSIZ \in Nat
  BY ApiAssumption
<1>2. CASE b.full
  <2>1. IoAdd(b, what, size) = b
    BY <1>2 DEF IoAdd
  <2> QED BY <1>2, <2>1
<1>3. CASE ~b.full /\ b.used + size + 1 > SOCKBUFSIZ
  <2>1. IoAdd(b, what, size) = [b EXCEPT !.full = TRUE]
    BY <1>3 DEF IoAdd
  <2>2. ~(b.used + size < SOCKBUFSIZ)
    BY <1>0, <1>1, <1>3
  <2> QED BY <1>3, <2>1, <2>2 DEF Buffers
<1>4. CASE ~b.full /\ ~(b.used + size + 1 > SOCKBUFSIZ)
  <2>1. IoAdd(b, what, size) = [b EXCEPT !.buf = Append(@, what), !.used = @ + size]
    BY <1>4 DEF IoAdd
  <2>2. Append(b.buf, what) \in Seq(Pieces) /\ b.used + size \in Nat
    BY DEF Buffers
  <2>3. b.used + size < SOCKBUFSIZ
    BY <1>0, <1>1, <1>4
  <2> QED BY <1>4, <2>1, <2>2, <2>3 DEF Buffers
<1> QED BY <1>2, <1>3, <1>4

\* What fits is added.
LEMMA IoAddFits ==
    ASSUME NEW b \in Buffers, NEW what \in Pieces, NEW size \in Nat,
           ~b.full, b.used + size < SOCKBUFSIZ
    PROVE  IoAdd(b, what, size) = [buf |-> Append(b.buf, what), used |-> b.used + size,
                                   full |-> FALSE, close |-> b.close]
<1>1. b.used \in Nat /\ SOCKBUFSIZ \in Nat /\ b.full = FALSE
  BY ApiAssumption DEF Buffers
<1>2. ~(b.used + size + 1 > SOCKBUFSIZ)
  BY <1>1
<1>3. IoAdd(b, what, size) = [b EXCEPT !.buf = Append(@, what), !.used = @ + size]
  BY <1>1, <1>2 DEF IoAdd
<1> QED BY <1>1, <1>3 DEF Buffers

LEMMA AppendFacts ==
    ASSUME NEW s \in Seq(Pieces), NEW x \in Pieces
    PROVE  /\ Append(s, x) \in Seq(Pieces) /\ Len(Append(s, x)) = Len(s) + 1
           /\ \A i \in 1 .. Len(s) : Append(s, x)[i] = s[i]
           /\ Append(s, x)[Len(s) + 1] = x
  OBVIOUS

LEMMA EmptyBuffer ==
    /\ Empty \in Buffers /\ Empty.used < SOCKBUFSIZ
    /\ ~Empty.full /\ ~Empty.close
<1>1. <<>> \in Seq(Pieces)
  OBVIOUS
<1> QED BY <1>1, ApiAssumption DEF Empty, Buffers

\* What a reply opens with.
Open1 == Append(<<>>, "open")
Open2 == Append(Open1, "record")
Open3 == Append(Open2, "close")
LEMMA Openings ==
    /\ {"open", "record", "close", "list", "comma_record"} \subseteq Pieces
    /\ Open1 \in Seq(Pieces) /\ Open2 \in Seq(Pieces) /\ Open3 \in Seq(Pieces)
    /\ Len(Open1) = 1 /\ Open1[1] = "open"
    /\ IsStatus(Open3)
<1>0. {"open", "record", "close", "list", "comma_record"} \subseteq Pieces
  BY DEF Pieces
<1>1. <<>> \in Seq(Pieces) /\ Len(<<>>) = 0
  OBVIOUS
<1>2. Open1 \in Seq(Pieces) /\ Len(Open1) = 1 /\ Open1[1] = "open"
  BY <1>0, <1>1, AppendFacts DEF Open1
<1>3. /\ Open2 \in Seq(Pieces) /\ Len(Open2) = 2
      /\ Open2[1] = "open" /\ Open2[2] = "record"
  <2>1. Open1 \in Seq(Pieces) /\ "record" \in Pieces
    BY <1>0, <1>2
  <2>2. /\ Open2 \in Seq(Pieces) /\ Len(Open2) = Len(Open1) + 1
        /\ \A i \in 1 .. Len(Open1) : Open2[i] = Open1[i]
        /\ Open2[Len(Open1) + 1] = "record"
    BY ONLY <2>1, AppendFacts, Zenon DEF Open2
  <2> QED BY <1>2, <2>2
<1>4. /\ Open3 \in Seq(Pieces) /\ Len(Open3) = 3
      /\ Open3[1] = "open" /\ Open3[2] = "record" /\ Open3[3] = "close"
  BY <1>0, <1>3 DEF Open3
<1> QED BY <1>0, <1>2, <1>3, <1>4 DEF IsStatus

\* A buffer with room.
Reply(buf, used) == [buf |-> buf, used |-> used, full |-> FALSE, close |-> FALSE]
LEMMA ReplyFacts ==
    ASSUME NEW q \in Seq(Pieces), NEW u \in Nat
    PROVE  /\ Reply(q, u) \in Buffers /\ Reply(q, u).buf = q /\ Reply(q, u).used = u
           /\ Reply(q, u).full = FALSE /\ Reply(q, u).close = FALSE
<1>1. FALSE \in BOOLEAN
  OBVIOUS
<1> QED BY <1>1, Zenon DEF Reply, Buffers

LEMMA ReplyGrows ==
    ASSUME NEW q \in Seq(Pieces), NEW u \in Nat, NEW what \in Pieces, NEW size \in Nat,
           u + size < SOCKBUFSIZ
    PROVE  IoAdd(Reply(q, u), what, size) = Reply(Append(q, what), u + size)
<1>1. /\ Reply(q, u) \in Buffers /\ Reply(q, u).buf = q /\ Reply(q, u).used = u
      /\ Reply(q, u).full = FALSE /\ Reply(q, u).close = FALSE
  BY ReplyFacts
<1>2. ~Reply(q, u).full /\ Reply(q, u).used + size < SOCKBUFSIZ
  BY <1>1
<1>3. IoAdd(Reply(q, u), what, size) =
        [buf |-> Append(Reply(q, u).buf, what), used |-> Reply(q, u).used + size,
         full |-> FALSE, close |-> Reply(q, u).close]
  BY ONLY <1>1, <1>2, IoAddFits, Zenon
<1> QED BY ONLY <1>1, <1>3, Zenon DEF Reply

LEMMA OpenFits == IoAdd(Empty, "open", 0) = Reply(Open1, 0)
<1>1. <<>> \in Seq(Pieces) /\ 0 \in Nat /\ 0 + 0 < SOCKBUFSIZ /\ 0 + 0 = 0
  BY ApiAssumption
<1>2. "open" \in Pieces
  BY Openings
<1>3. Empty = Reply(<<>>, 0)
  BY Zenon DEF Empty, Reply
<1>4. IoAdd(Reply(<<>>, 0), "open", 0) = Reply(Append(<<>>, "open"), 0 + 0)
  BY ONLY <1>1, <1>2, ReplyGrows, Zenon
<1> QED BY ONLY <1>1, <1>3, <1>4, Zenon DEF Open1

\* A status always fits.
LEMMA StatusFits ==
    /\ Message(TRUE) = Reply(Open3, 1)
    /\ \A json \in BOOLEAN : /\ Message(json) \in Buffers
                             /\ Message(json).used < SOCKBUFSIZ
                             /\ Message(json).close = FALSE
<1>1. /\ 0 \in Nat /\ 1 \in Nat /\ 0 + 1 < SOCKBUFSIZ /\ 0 + 1 = 1
      /\ 1 + 0 < SOCKBUFSIZ /\ 1 + 0 = 1 /\ 1 < SOCKBUFSIZ
  BY ApiAssumption
<1>2. /\ "record" \in Pieces /\ "close" \in Pieces
      /\ Open1 \in Seq(Pieces) /\ Open2 \in Seq(Pieces) /\ Open3 \in Seq(Pieces)
  BY Openings
<1>3. IoAdd(Reply(Open1, 0), "record", 1) = Reply(Append(Open1, "record"), 0 + 1)
  BY ONLY <1>1, <1>2, ReplyGrows, Zenon
<1>4. IoAdd(Reply(Open2, 1), "close", 0) = Reply(Append(Open2, "close"), 1 + 0)
  BY ONLY <1>1, <1>2, ReplyGrows, Zenon
<1>5. IoAdd(Reply(Open1, 0), "record", 1) = Reply(Open2, 1)
  BY ONLY <1>1, <1>3, Zenon DEF Open2
<1>6. IoAdd(Reply(Open2, 1), "close", 0) = Reply(Open3, 1)
  BY ONLY <1>1, <1>4, Zenon DEF Open3
<1>7. Message(TRUE) = Reply(Open3, 1)
  BY ONLY <1>5, <1>6, OpenFits, Zenon DEF Message
<1>8. /\ Reply(Open3, 1) \in Buffers /\ Reply(Open3, 1).used = 1
      /\ Reply(Open3, 1).close = FALSE
  BY ONLY <1>1, <1>2, ReplyFacts, Zenon
<1>9. Message(FALSE) = IoAdd(Empty, "record", 1)
  BY Zenon DEF Message
<1>10. /\ IoAdd(Empty, "record", 1) \in Buffers
       /\ IoAdd(Empty, "record", 1).used < SOCKBUFSIZ
       /\ IoAdd(Empty, "record", 1).close = Empty.close
  BY ONLY <1>1, <1>2, EmptyBuffer, IoAddFacts, Zenon
<1>11. Empty.close = FALSE
  BY Zenon DEF Empty
<1> SUFFICES ASSUME NEW json \in BOOLEAN
             PROVE  /\ Message(json) \in Buffers /\ Message(json).used < SOCKBUFSIZ
                    /\ Message(json).close = FALSE
  BY <1>7, Zenon
<1>12. CASE json = TRUE
  BY ONLY <1>1, <1>7, <1>8, <1>12, Zenon
<1>13. CASE json = FALSE
  BY ONLY <1>9, <1>10, <1>11, <1>13, Zenon
<1> QED BY <1>12, <1>13, Zenon

\* The reply to quit and restart.
LEMMA ByeFits ==
    ASSUME NEW what \in {"name", "record"}
    PROVE  /\ IoAdd(Empty, what, 1) \in Buffers
           /\ IoAdd(Empty, what, 1).used < SOCKBUFSIZ
           /\ IoAdd(Empty, what, 1).close = FALSE
<1>1. what \in Pieces /\ 1 \in Nat /\ Empty \in Buffers /\ Empty.used < SOCKBUFSIZ
  BY EmptyBuffer DEF Pieces
<1>2. /\ IoAdd(Empty, what, 1) \in Buffers /\ IoAdd(Empty, what, 1).used < SOCKBUFSIZ
      /\ IoAdd(Empty, what, 1).close = Empty.close
  BY ONLY <1>1, IoAddFacts, Zenon
<1> QED BY <1>2 DEF Empty

\* What a report has before its first record.
OpenedList == IoAdd(Message(TRUE), "list", 1)
LEMMA ListOpened ==
    /\ OpenedList \in Buffers /\ OpenedList.used < SOCKBUFSIZ /\ OpenedList.close = FALSE
    /\ OpenedList.full => IsStatus(OpenedList.buf)
    /\ ~OpenedList.full => IsList(OpenedList.buf) /\ Len(OpenedList.buf) = 4
<1> DEFINE b == Append(Open3, "list")
<1>0. /\ 1 \in Nat /\ "list" \in Pieces /\ Open3 \in Seq(Pieces) /\ IsStatus(Open3)
      /\ TRUE \in BOOLEAN
  BY Openings
<1>1. Message(TRUE) \in Buffers /\ Message(TRUE).used < SOCKBUFSIZ /\ Message(TRUE).close = FALSE
  BY ONLY <1>0, StatusFits, Zenon
<1>2. Message(TRUE).buf = Open3
  BY ONLY <1>0, StatusFits, ReplyFacts, Zenon
<1>3. /\ OpenedList \in Buffers /\ OpenedList.used < SOCKBUFSIZ
      /\ OpenedList.close = Message(TRUE).close
      /\ \/ OpenedList.full /\ OpenedList.buf = Message(TRUE).buf
         \/ ~OpenedList.full /\ OpenedList.buf = Append(Message(TRUE).buf, "list")
  BY ONLY <1>0, <1>1, IoAddFacts, Zenon DEF OpenedList
<1>4. Len(b) = 4 /\ b[1] = "open" /\ b[2] = "record" /\ b[3] = "close" /\ b[4] = "list"
  <2>1. /\ Len(b) = Len(Open3) + 1
        /\ \A i \in 1 .. Len(Open3) : b[i] = Open3[i]
        /\ b[Len(Open3) + 1] = "list"
    BY ONLY <1>0, AppendFacts, Zenon
  <2> HIDE DEF b
  <2> QED BY <1>0, <2>1 DEF IsStatus
<1> HIDE DEF b
<1>5. IsList(b)
  BY <1>4 DEF IsList
<1> QED BY ONLY <1>0, <1>1, <1>2, <1>3, <1>4, <1>5, Zenon DEF b

\* A list that is closed parses, however many records it was cut to.
LEMMA ListParses ==
    ASSUME NEW b \in Seq(Pieces), IsList(b), NEW last \in {"truncated", "end"}
    PROVE  Parses(b \o <<"close">> \o <<last>>)
<1> DEFINE whole == b \o <<"close">> \o <<last>>
           n == Len(b)
<1>1. /\ n \in Nat /\ n >= 4 /\ Len(whole) = n + 2 /\ DOMAIN whole = 1 .. n + 2
      /\ \A i \in 1 .. n : whole[i] = b[i]
      /\ whole[n + 1] = "close" /\ whole[n + 2] = last
  BY DEF IsList
<1>2. /\ b[1] = "open" /\ b[2] = "record" /\ b[3] = "close" /\ b[4] = "list"
      /\ \A i \in 5 .. n : b[i] = IF i = 5 THEN "record" ELSE "comma_record"
  BY <1>1 DEF IsList
<1> HIDE DEF whole, n
<1>3. \A i \in 1 .. n + 2 : i \in 1 .. n \/ i = n + 1 \/ i = n + 2
  BY <1>1
<1>4. \A i \in 1 .. n : i = 1 \/ i = 2 \/ i = 3 \/ i = 4 \/ i \in 5 .. n
  BY <1>1
<1>5. {i \in DOMAIN whole : whole[i] \in {"open", "list"}} = {1, 4}
  BY <1>1, <1>2, <1>3, <1>4
<1>6. {i \in DOMAIN whole : whole[i] = "close"} = {3, n + 1}
  BY <1>1, <1>2, <1>3, <1>4
<1>7. Cardinality({1, 4}) = 2 /\ Cardinality({3, n + 1}) = 2
  <2>1. \A x, y : x # y => Cardinality({x, y}) = 2
    <3> SUFFICES ASSUME NEW x, NEW y, x # y PROVE Cardinality({x, y}) = 2
      OBVIOUS
    <3>1. IsFiniteSet({x}) /\ Cardinality({x}) = 1
      BY FS_Singleton
    <3>2. {x, y} = {x} \cup {y} /\ y \notin {x}
      OBVIOUS
    <3>3. Cardinality({x} \cup {y}) = Cardinality({x}) + 1
      BY <3>1, <3>2, FS_AddElement
    <3>4. 1 + 1 = 2
      OBVIOUS
    <3> QED BY <3>1, <3>2, <3>3, <3>4, Zenon
  <2>2. 1 # 4 /\ 3 # n + 1
    BY <1>1
  <2> QED BY <2>1, <2>2
<1>8. Balanced(whole)
  BY <1>5, <1>6, <1>7 DEF Balanced
<1>9. Separated(whole)
  <2>1. ASSUME NEW i \in DOMAIN whole, whole[i] = "record" 
        PROVE  i > 1 /\ whole[i - 1] \in {"open", "list"}
    <3>1. i = 2 \/ (i = 5 /\ n >= 5)
      BY <1>1, <1>2, <1>3, <1>4, <2>1
    <3> QED BY <1>1, <1>2, <3>1
  <2>2. ASSUME NEW i \in DOMAIN whole, whole[i] = "comma_record" 
        PROVE  i > 1 /\ whole[i - 1] \in {"record", "comma_record"}
    <3>1. i \in 6 .. n
      BY <1>1, <1>2, <1>3, <1>4, <2>2
    <3>2. i - 1 \in 5 .. n
      BY <1>1, <3>1
    <3> QED BY <1>1, <1>2, <3>1, <3>2
  <2> QED BY <2>1, <2>2 DEF Separated
<1>10. \A i \in DOMAIN whole : whole[i] # "name"
  BY <1>1, <1>2, <1>3, <1>4
<1> QED BY <1>8, <1>9, <1>10 DEF whole, Parses

LEMMA JoinFacts ==
    ASSUME NEW b \in Seq(Pieces), NEW last
    PROVE  /\ Len(b \o <<last>>) = Len(b) + 1 /\ DOMAIN (b \o <<last>>) = 1 .. Len(b) + 1
           /\ \A i \in 1 .. Len(b) : (b \o <<last>>)[i] = b[i]
           /\ (b \o <<last>>)[Len(b) + 1] = last
  OBVIOUS

LEMMA StatusParses ==
    ASSUME NEW b \in Seq(Pieces), IsStatus(b), NEW last \in {"truncated", "end"}
    PROVE  Parses(b \o <<last>>)
<1> DEFINE whole == b \o <<last>>
<1>0. /\ Len(whole) = Len(b) + 1 /\ DOMAIN whole = 1 .. Len(b) + 1
      /\ \A i \in 1 .. Len(b) : whole[i] = b[i]
      /\ whole[Len(b) + 1] = last
  BY JoinFacts
<1> HIDE DEF whole
<1>1. /\ DOMAIN whole = 1 .. 4 /\ whole[1] = "open" /\ whole[2] = "record"
      /\ whole[3] = "close" /\ whole[4] = last
  BY <1>0 DEF IsStatus
<1>2. \A i \in 1 .. 4 : i = 1 \/ i = 2 \/ i = 3 \/ i = 4
  OBVIOUS
<1>3. /\ {i \in DOMAIN whole : whole[i] \in {"open", "list"}} = {1}
      /\ {i \in DOMAIN whole : whole[i] = "close"} = {3}
  BY <1>1, <1>2
<1>4. Cardinality({1}) = 1 /\ Cardinality({3}) = 1
  BY FS_Singleton
<1>5. Balanced(whole)
  BY <1>3, <1>4 DEF Balanced
<1>6. Separated(whole)
  BY <1>1, <1>2 DEF Separated
<1>7. \A i \in DOMAIN whole : whole[i] # "name"
  BY <1>1, <1>2
<1> QED BY <1>5, <1>6, <1>7 DEF whole, Parses

----------------------------------------------------------------------------
LEMMA ApiInitially == ApiInit => ApiInv
<1> SUFFICES ASSUME ApiInit PROVE ApiInv
  OBVIOUS
<1>1. "R" \in Letters
  BY DEF Letters, setup_groups
<1>2. "version" \in DOMAIN cmds
  BY DEF cmds, Reports
<1>3. NoRequest \in Requests
  BY <1>1, <1>2 DEF NoRequest, Requests
<1>4. ServerTypes
  <2>1. io \in Buffers /\ io.used < SOCKBUFSIZ /\ client \in Requests
    BY <1>3, EmptyBuffer, Zenon DEF ApiInit
  <2>2. /\ api \in Steps /\ left \in [of : Nat, done : Nat]
        /\ tosend \in [pieces : Nat, tries : 0 .. 5]
        /\ bye = FALSE
    BY DEF ApiInit, Steps
  <2> QED BY <2>1, <2>2 DEF ServerTypes
<1>5. DeviceTypes
  BY ApiAssumption DEF ApiInit, DeviceTypes
<1>6. ReplyShape
  BY DEF ApiInit, ReplyShape
<1> QED BY <1>4, <1>5, <1>6 DEF ApiInv

\* A reply that is to be sent: a status.
LEMMA AnswerStep ==
    ASSUME ApiInv, api = "command", Answer, UNCHANGED <<client, left, tosend, bye>>, ~bye
    PROVE  ServerTypes' /\ ReplyShape'
<1>1. client.json \in BOOLEAN /\ TRUE \in BOOLEAN
  BY DEF ApiInv, ServerTypes, Requests
<1>2. io' \in Buffers /\ io'.used < SOCKBUFSIZ /\ io'.close = FALSE
  BY ONLY <1>1, StatusFits, Answer, Zenon DEF Answer
<1>3. client.json => IsStatus(io'.buf)
  <2> SUFFICES ASSUME client.json = TRUE PROVE IsStatus(io'.buf)
    BY <1>1
  <2>1. io' = Message(TRUE)
    BY DEF Answer
  <2>2. Reply(Open3, 1).buf = Open3
    BY Zenon DEF Reply
  <2> QED BY <2>1, <2>2, StatusFits, Openings, Zenon
<1>4. api' = "send"
  BY DEF Answer
<1>5. ServerTypes'
  BY <1>2, <1>4 DEF ApiInv, ServerTypes, Steps
<1> QED BY <1>2, <1>3, <1>4, <1>5 DEF ReplyShape

LEMMA StatusShape ==
    ASSUME NEW json \in BOOLEAN
    PROVE  /\ Message(json) \in Buffers /\ Message(json).used < SOCKBUFSIZ
           /\ Message(json).close = FALSE
           /\ json => IsStatus(Message(json).buf)
<1>1. json = TRUE => IsStatus(Message(json).buf)
  <2>1. Reply(Open3, 1).buf = Open3
    BY Zenon DEF Reply
  <2> QED BY <2>1, StatusFits, Openings, Zenon
<1> QED BY <1>1, StatusFits, Zenon

----------------------------------------------------------------------------
(* A connection and its request.                                           *)
LEMMA AcceptSteps ==
    ASSUME ApiInv,
           \/ \E a \in Addresses : Accept(a)
           \/ RecvFails
           \/ \E json \in BOOLEAN : RecvInvalid(json)
           \/ \E json \in BOOLEAN, c \in Asked, id \in 0 .. 1 : RecvCommand(json, c, id)
           \/ AccessDenied
    PROVE  ApiInv'
<1> USE DEF Steps
<1>0. ServerTypes /\ DeviceTypes /\ ReplyShape /\ client \in Requests
  BY DEF ApiInv, ServerTypes
<1>1. ASSUME NEW a \in Addresses, Accept(a) PROVE ApiInv'
  <2> DEFINE matching == {i \in DOMAIN ApiAllow : a \in ApiAllow[i].from}
  <2>1. CASE matching = {}
    BY <1>0, <1>1, <2>1 DEF Accept, ApiInv, ServerTypes, DeviceTypes, ReplyShape
  <2>2. CASE matching # {}
    <3>1. matching \in SUBSET Nat
      BY ApiAssumption
    <3>2. Min(matching) \in DOMAIN ApiAllow
      BY <2>2, <3>1, MinFacts
    <3> DEFINE g == setup_ipaccess[Min(matching)].group
    <3>3. g \in Letters
      BY <3>2, IpAccessLetters
    <3>4. client' = [client EXCEPT !.group = g] /\ api' = "recv"
      BY <1>1, <2>2 DEF Accept
    <3> HIDE DEF g, matching
    <3>5. client' \in Requests
      BY <1>0, <3>3, <3>4 DEF Requests
    <3>6. ~bye /\ UNCHANGED <<io, left, tosend, bye, kinds, apideven, posted>>
      BY <1>1 DEF Accept
    <3> QED BY <1>0, <3>4, <3>5, <3>6 DEF ApiInv, ServerTypes, DeviceTypes, ReplyShape
  <2> QED BY <2>1, <2>2
<1>2. CASE RecvFails
  BY <1>0, <1>2 DEF RecvFails, ApiInv, ServerTypes, DeviceTypes, ReplyShape
<1>3. ASSUME NEW json \in BOOLEAN, RecvInvalid(json) PROVE ApiInv'
  <2>1. client' \in Requests /\ client'.json = json
    BY <1>0, <1>3 DEF RecvInvalid, Requests
  <2>2. /\ io' \in Buffers /\ io'.used < SOCKBUFSIZ /\ io'.close = FALSE
        /\ json => IsStatus(io'.buf)
    BY <1>3, StatusShape, Zenon DEF RecvInvalid
  <2>3. api' = "send" /\ api = "recv" /\ UNCHANGED <<left, tosend, bye, kinds, apideven, posted>>
    BY <1>3 DEF RecvInvalid
  <2> QED BY <1>0, <2>1, <2>2, <2>3 DEF ApiInv, ServerTypes, DeviceTypes, ReplyShape
<1>4. ASSUME NEW json \in BOOLEAN, NEW c \in Asked, NEW id \in 0 .. 1, RecvCommand(json, c, id)
      PROVE  ApiInv'
  <2>1. client' \in Requests
    <3>1. c \in DOMAIN cmds /\ id \in Nat
      BY ApiAssumption
    <3>2. client' = [client EXCEPT !.json = json, !.cmd = c, !.id = id]
      BY <1>4 DEF RecvCommand
    <3> QED BY <1>0, <3>1, <3>2 DEF Requests
  <2>2. io' \in Buffers /\ io'.used < SOCKBUFSIZ
    BY <1>4, EmptyBuffer DEF RecvCommand
  <2>3. api' = "command" /\ api = "recv" /\ UNCHANGED <<left, tosend, bye, kinds, apideven, posted>>
    BY <1>4 DEF RecvCommand
  <2> QED BY <1>0, <2>1, <2>2, <2>3 DEF ApiInv, ServerTypes, DeviceTypes, ReplyShape
<1>5. CASE AccessDenied
  <2>1. /\ api = "command" /\ Answer /\ UNCHANGED <<client, left, tosend, bye>>
        /\ UNCHANGED <<kinds, apideven, posted>>
    BY <1>5 DEF AccessDenied, Answer
  <2>2. ~bye
    BY <1>0, <2>1 DEF ServerTypes
  <2>3. ServerTypes' /\ ReplyShape'
    BY <2>1, <2>2, AnswerStep
  <2> QED BY <1>0, <2>1, <2>3 DEF ApiInv, DeviceTypes
<1> QED BY <1>1, <1>2, <1>3, <1>4, <1>5

(* The commands that answer with a status alone.                           *)
LEMMA CommandSteps ==
    ASSUME ApiInv, NEW c, Granted(c), Answer, DeviceTypes',
           UNCHANGED <<client, left, tosend, bye>>
    PROVE  ApiInv'
<1>1. api = "command" /\ ~bye
  BY DEF Granted, ApiInv, ServerTypes
<1>2. ServerTypes' /\ ReplyShape'
  BY <1>1, AnswerStep
<1> QED BY <1>2 DEF ApiInv

LEMMA QueuedSteps ==
    ASSUME ApiInv, NEW c, NEW kind, EnableQueued(c, kind) \/ DisableQueued(c, kind)
    PROVE  ApiInv'
<1>0. DeviceTypes /\ DeviceThreads \in Nat
  BY ApiAssumption DEF ApiInv
<1>1. CASE EnableQueued(c, kind)
  <2>1. \/ UNCHANGED <<apideven, posted>>
        \/ \E d : /\ apideven' = [apideven EXCEPT ![d] = "enabled"]
                  /\ posted' = [posted EXCEPT ![d] = @ + DeviceThreads]
    BY <1>1, Zenon DEF EnableQueued
  <2>2. UNCHANGED kinds
    BY <1>1 DEF EnableQueued
  <2>3. DeviceTypes'
    <3>1. CASE UNCHANGED <<apideven, posted>>
      BY <1>0, <2>2, <3>1 DEF DeviceTypes
    <3>2. ASSUME NEW d, apideven' = [apideven EXCEPT ![d] = "enabled"],
                 posted' = [posted EXCEPT ![d] = @ + DeviceThreads]
          PROVE  DeviceTypes'
      <4>1. apideven' \in [1 .. MaxDevices -> {"enabled", "disabled"}]
        BY <1>0, <3>2 DEF DeviceTypes
      <4>2. posted' \in [1 .. MaxDevices -> Nat]
        <5>1. posted \in [1 .. MaxDevices -> Nat] /\ DeviceThreads \in Nat
          BY <1>0 DEF DeviceTypes
        <5>2. posted' = [posted EXCEPT ![d] = posted[d] + DeviceThreads]
          BY <3>2
        <5>3. d \in 1 .. MaxDevices => posted[d] + DeviceThreads \in Nat
          BY <5>1
        <5> QED BY ONLY <5>1, <5>2, <5>3
      <4> QED BY <1>0, <2>2, <4>1, <4>2 DEF DeviceTypes
    <3> QED BY <2>1, <3>1, <3>2
  <2> QED BY <1>1, <2>3, CommandSteps DEF EnableQueued
<1>2. CASE DisableQueued(c, kind)
  <2>1. UNCHANGED <<kinds, posted>>
    BY <1>2 DEF DisableQueued
  <2>2. \/ UNCHANGED apideven
        \/ \E d : apideven' = [apideven EXCEPT ![d] = "disabled"]
    BY <1>2, Zenon DEF DisableQueued
  <2>3. apideven' \in [1 .. MaxDevices -> {"enabled", "disabled"}]
    BY <1>0, <2>2 DEF DeviceTypes
  <2>4. DeviceTypes'
    BY <1>0, <2>1, <2>3 DEF DeviceTypes
  <2> QED BY <1>2, <2>4, CommandSteps DEF DisableQueued
<1> QED BY <1>1, <1>2

LEMMA SettingSteps ==
    ASSUME ApiInv,
           \/ \E v \in 0 .. 1 : SetConfig(v)
           \/ \E tf \in BOOLEAN : FailoverOnly(tf)
           \/ \E switch \in {"q", "v", "d", "n"} : DebugState(switch)
           \/ OtherWrite
    PROVE  ApiInv'
<1>0. DeviceTypes
  BY DEF ApiInv
<1>1. /\ \E c : Granted(c)
      /\ Answer
      /\ UNCHANGED <<client, left, tosend, bye>> /\ UNCHANGED <<kinds, apideven, posted>>
  BY Zenon DEF SetConfig, FailoverOnly, DebugState, OtherWrite
<1>2. DeviceTypes'
  BY <1>0, <1>1 DEF DeviceTypes
<1> QED BY <1>1, <1>2, CommandSteps

LEMMA QuitStep == ASSUME ApiInv, DoQuit PROVE ApiInv'
<1> USE DEF Steps
<1>0. ServerTypes /\ DeviceTypes /\ client \in Requests /\ client.json \in BOOLEAN
  BY DEF ApiInv, ServerTypes, Requests
<1>1. io' \in Buffers /\ io'.used < SOCKBUFSIZ /\ io'.close = FALSE
  BY ByeFits, Zenon DEF DoQuit
<1>2. api' = "send" /\ bye' = TRUE /\ UNCHANGED <<client, left, tosend, kinds, apideven, posted>>
  BY DEF DoQuit
<1>3. SaysBye'
  BY DEF DoQuit, Granted, SaysBye
<1> QED BY <1>0, <1>1, <1>2, <1>3 DEF ApiInv, ServerTypes, DeviceTypes, ReplyShape

----------------------------------------------------------------------------
(* Reports.                                                                *)
LEMMA ReportStep == ASSUME ApiInv, Report PROVE ApiInv'
<1> USE DEF Steps
<1>0. ServerTypes /\ DeviceTypes /\ client \in Requests /\ client.json \in BOOLEAN
  BY DEF ApiInv, ServerTypes, Requests
<1>1. api = "command" /\ ~bye
  BY <1>0 DEF Report, Granted, ServerTypes
<1> DEFINE n == Records(client.cmd, client.id)
           opened == IF client.json THEN IoAdd(Message(TRUE), "list", 1) ELSE Message(FALSE)
<1>2. UNCHANGED <<client, tosend, bye, kinds, apideven, posted>>
  BY DEF Report
<1>3. n \in Nat
  <2>1. \A kind : CountOf(kind) \in Nat
    <3> SUFFICES ASSUME NEW kind PROVE CountOf(kind) \in Nat
      OBVIOUS
    <3>1. IsFiniteSet(1 .. Len(kinds)) /\ DOMAIN kinds = 1 .. Len(kinds)
      BY <1>0, FS_Interval DEF DeviceTypes
    <3>2. IsFiniteSet({i \in DOMAIN kinds : kinds[i] = kind})
      BY <3>1, FS_Subset
    <3> QED BY <3>2, FS_CardinalityType DEF CountOf
  <2>2. Len(kinds) \in Nat
    BY <1>0 DEF DeviceTypes
  <2>3. MaxPools \in Nat
    BY ApiAssumption
  <2> QED BY <2>1, <2>2, <2>3 DEF Records, SummaryRecords, DevRecords, PoolRecords, NotifyRecords,
       DetailRecords, StatsRecords, GpuRecords, PgaRecords, AscRecords, UsbRecords
<1>4. CASE n = 0
  <2>1. Answer /\ UNCHANGED left
    BY <1>4 DEF Report, Answer
  <2>2. ServerTypes' /\ ReplyShape'
    BY <1>1, <1>2, <2>1, AnswerStep
  <2> QED BY <1>0, <1>2, <2>2 DEF ApiInv, DeviceTypes
<1>5. CASE n # 0
  <2>1. /\ io' = [opened EXCEPT !.close = client.json /\ ~opened.full]
        /\ left' = [of |-> n, done |-> 0]
        /\ api' = "records"
    BY <1>5 DEF Report
  <2>2. /\ opened \in Buffers /\ opened.used < SOCKBUFSIZ
        /\ client.json = TRUE => opened = OpenedList
    <3>1. CASE client.json = TRUE
      BY <3>1, ListOpened, Zenon DEF OpenedList
    <3>2. CASE client.json = FALSE
      <4>1. opened = Message(FALSE) /\ FALSE \in BOOLEAN
        BY <3>2
      <4> HIDE DEF opened
      <4> QED BY ONLY <3>2, <4>1, StatusFits, Zenon
    <3> QED BY <1>0, <3>1, <3>2
  <2> HIDE DEF opened, n
  <2>3. /\ io' \in Buffers /\ io'.used < SOCKBUFSIZ /\ io'.buf = opened.buf
        /\ io'.full = opened.full
        /\ io'.close = (client.json /\ ~opened.full)
    BY <1>0, <2>1, <2>2 DEF Buffers
  <2>4. left' \in [of : Nat, done : Nat] /\ left'.done = 0
    BY <1>3, <2>1
  <2>5. ServerTypes'
    BY <1>0, <1>1, <1>2, <2>1, <2>3, <2>4 DEF ServerTypes
  <2>6. ReplyShape'
    <3> SUFFICES ASSUME client.json = TRUE
                 PROVE  /\ IF io'.close THEN IsList(io'.buf) ELSE IsStatus(io'.buf) \/ SaysBye'
                        /\ ~io'.full => io'.close /\ Len(io'.buf) = left'.done + 4
      BY <1>0, <1>2, <2>1 DEF ReplyShape
    <3>1. opened = OpenedList /\ opened.full \in BOOLEAN
      BY <2>2 DEF Buffers
    <3>2. CASE opened.full
      BY <2>3, <3>1, <3>2, ListOpened
    <3>3. CASE ~opened.full
      <4>1. /\ io'.buf = OpenedList.buf /\ io'.close /\ left'.done = 0
            /\ IsList(OpenedList.buf) /\ Len(OpenedList.buf) = 4
        BY <2>3, <2>4, <3>1, <3>3, ListOpened, Zenon
      <4>2. 0 + 4 = 4
        OBVIOUS
      <4> QED BY ONLY <4>1, <4>2, Zenon
    <3> QED BY <3>2, <3>3
  <2>7. DeviceTypes'
    BY <1>0, <1>2 DEF DeviceTypes
  <2> QED BY <2>5, <2>6, <2>7 DEF ApiInv
<1> QED BY <1>4, <1>5

\* One more record behind those of a list.
LEMMA ListGrows ==
    ASSUME NEW b \in Seq(Pieces), IsList(b), NEW r \in Pieces,
           r = IF Len(b) = 4 THEN "record" ELSE "comma_record"
    PROVE  IsList(Append(b, r)) /\ Len(Append(b, r)) = Len(b) + 1
<1> DEFINE l == Append(b, r)
<1>1. /\ Len(l) = Len(b) + 1 /\ \A i \in 1 .. Len(b) : l[i] = b[i]
      /\ l[Len(b) + 1] = r
  BY ONLY b \in Seq(Pieces), r \in Pieces, AppendFacts, Zenon
<1>2. Len(b) \in Nat
  OBVIOUS
<1> HIDE DEF l
<1>3. Len(l) >= 4 /\ l[1] = "open" /\ l[2] = "record" /\ l[3] = "close" /\ l[4] = "list"
  BY <1>1, <1>2 DEF IsList
<1>4. l[5] = "record"
  <2>1. CASE Len(b) = 4
    BY <1>1, <2>1
  <2>2. CASE Len(b) # 4
    <3>0. Len(b) >= 4 /\ (Len(b) >= 5 => b[5] = "record")
      BY DEF IsList
    <3>1. Len(b) >= 5 /\ 5 \in 1 .. Len(b)
      <4>1. \A k \in Nat : k >= 4 /\ k # 4 => k >= 5 /\ 5 \in 1 .. k
        OBVIOUS
      <4> QED BY ONLY <1>2, <2>2, <3>0, <4>1, Zenon
    <3> QED BY <1>1, <3>0, <3>1
  <2> QED BY <2>1, <2>2
<1>5. ASSUME NEW i \in 6 .. Len(l) PROVE l[i] = "comma_record"
  <2>1. CASE i = Len(b) + 1
    BY <1>1, <1>2, <2>1
  <2>2. CASE i # Len(b) + 1
    <3>1. i \in 6 .. Len(b)
      BY <1>1, <1>2, <2>2
    <3> QED BY <1>1, <1>2, <3>1 DEF IsList
  <2> QED BY <2>1, <2>2
<1>6. IsList(l)
  BY <1>3, <1>4, <1>5 DEF IsList
<1> QED BY <1>1, <1>6 DEF l

LEMMA RecordStep == ASSUME ApiInv, NEW size \in RecordSizes, AddRecord(size) PROVE ApiInv'
<1> USE DEF Steps
<1>0. /\ ServerTypes /\ DeviceTypes /\ ReplyShape /\ client \in Requests /\ client.json \in BOOLEAN
      /\ size \in Nat /\ left.done \in Nat /\ left.of \in Nat /\ io \in Buffers /\ io.used < SOCKBUFSIZ
      /\ io.full \in BOOLEAN /\ io.buf \in Seq(Pieces) /\ io.close \in BOOLEAN
  BY ApiAssumption DEF ApiInv, ServerTypes, Requests, Buffers
<1> DEFINE r == IF client.json /\ left.done > 0 THEN "comma_record" ELSE "record"
<1>1. /\ api = "records" /\ api' \in {"send", "records"}
      /\ io' = IoAdd(io, r, size)
      /\ left' = [left EXCEPT !.done = @ + 1]
      /\ UNCHANGED <<client, tosend, ran, kinds, apideven, posted, bye>>
  BY DEF AddRecord
<1>2. left' \in [of : Nat, done : Nat] /\ left'.done = left.done + 1
  BY <1>0, <1>1 DEF ServerTypes
<1>3. r \in Pieces
  BY Openings
<1>4. /\ io' \in Buffers /\ io'.used < SOCKBUFSIZ /\ io'.close = io.close
      /\ \/ io'.full /\ io'.buf = io.buf
         \/ ~io.full /\ ~io'.full /\ io'.buf = Append(io.buf, r)
  <2> HIDE DEF r
  <2>1. io \in Buffers /\ io.used < SOCKBUFSIZ /\ r \in Pieces /\ size \in Nat
    BY <1>0, <1>3
  <2>2. /\ IoAdd(io, r, size) \in Buffers /\ IoAdd(io, r, size).used < SOCKBUFSIZ
        /\ IoAdd(io, r, size).close = io.close
        /\ \/ IoAdd(io, r, size).full /\ IoAdd(io, r, size).buf = io.buf
           \/ /\ ~io.full /\ ~IoAdd(io, r, size).full
              /\ IoAdd(io, r, size).buf = Append(io.buf, r)
              /\ IoAdd(io, r, size).used = io.used + size
    BY ONLY <2>1, IoAddFacts, ZenonT(40)
  <2>3. io' = IoAdd(io, r, size)
    BY <1>1
  <2> QED BY ONLY <2>2, <2>3, Zenon
<1>5. ~bye
  BY <1>0, <1>1 DEF ServerTypes
<1>6. ServerTypes'
  BY <1>0, <1>1, <1>2, <1>4, <1>5 DEF ServerTypes
<1>7. ASSUME client.json
      PROVE  /\ IF io'.close THEN IsList(io'.buf) ELSE IsStatus(io'.buf) \/ SaysBye'
             /\ ~io'.full => io'.close /\ Len(io'.buf) = left'.done + 4
  <2>1. /\ IF io.close THEN IsList(io.buf) ELSE IsStatus(io.buf) \/ SaysBye
        /\ ~io.full => io.close /\ Len(io.buf) = left.done + 4
    BY <1>0, <1>1, <1>7 DEF ReplyShape
  <2>2. CASE io'.full /\ io'.buf = io.buf
    BY <1>1, <1>4, <2>1, <2>2 DEF SaysBye
  <2>3. CASE ~io.full /\ ~io'.full /\ io'.buf = Append(io.buf, r)
    <3>1. IsList(io.buf) /\ Len(io.buf) = left.done + 4 /\ io.close
      BY <2>1, <2>3
    <3>2. r = IF Len(io.buf) = 4 THEN "record" ELSE "comma_record"
      BY <1>0, <1>7, <3>1
    <3> HIDE DEF r
    <3>3. IsList(Append(io.buf, r)) /\ Len(Append(io.buf, r)) = Len(io.buf) + 1
      BY ONLY <1>0, <1>3, <3>1, <3>2, ListGrows
    <3> QED BY <1>0, <1>2, <1>4, <2>3, <3>1, <3>3
  <2> QED BY <1>4, <2>2, <2>3
<1>8. ReplyShape'
  BY <1>1, <1>7 DEF ReplyShape
<1>9. DeviceTypes'
  BY <1>0, <1>1 DEF DeviceTypes
<1> QED BY <1>6, <1>8, <1>9 DEF ApiInv

----------------------------------------------------------------------------
(* Sending, and what happens around it.                                    *)
LEMMA SendSteps ==
    ASSUME ApiInv,
           \/ SendStart
           \/ \E n \in 0 .. tosend.pieces : SendSome(n)
           \/ \E given_up \in BOOLEAN : SendEnd(given_up)
           \/ CloseSocket
    PROVE  ApiInv'
<1> USE DEF Steps
<1>0. /\ ServerTypes /\ DeviceTypes /\ ReplyShape
      /\ tosend \in [pieces : Nat, tries : 0 .. 5] /\ io.buf \in Seq(Pieces)
  BY DEF ApiInv, ServerTypes, Buffers
<1>1. CASE SendStart
  <2> DEFINE whole == Closed(io, client.json)
  <2>1. Len(whole) \in Nat
    <3>1. io.buf \in Seq(Pieces \cup {"truncated", "end"})
      BY <1>0
    <3>2. /\ (IF io.close THEN <<"close">> ELSE <<>>) \in Seq(Pieces \cup {"truncated", "end"})
          /\ (IF client.json THEN <<IF io.full THEN "truncated" ELSE "end">> ELSE <<>>)
               \in Seq(Pieces \cup {"truncated", "end"})
      <4> DEFINE All == Pieces \cup {"truncated", "end"}
      <4>1. "close" \in All /\ "truncated" \in All /\ "end" \in All
        BY Openings
      <4> HIDE DEF All
      <4>2. \A x \in All : <<x>> \in Seq(All)
        OBVIOUS
      <4>3. <<>> \in Seq(All)
        OBVIOUS
      <4>4. (IF io.close THEN <<"close">> ELSE <<>>) \in Seq(All)
        BY ONLY <4>1, <4>2, <4>3, Zenon
      <4>5. (IF client.json THEN <<IF io.full THEN "truncated" ELSE "end">> ELSE <<>>) \in Seq(All)
        <5>1. (IF io.full THEN "truncated" ELSE "end") \in All
          BY ONLY <4>1, Zenon
        <5> QED BY ONLY <4>2, <4>3, <5>1, Zenon
      <4> QED BY <4>4, <4>5 DEF All
    <3>3. whole \in Seq(Pieces \cup {"truncated", "end"})
      BY ONLY <3>1, <3>2 DEF Closed
    <3> QED BY <3>3
  <2>2. /\ api = "send" /\ api' = "sending" /\ tosend' = [pieces |-> Len(whole), tries |-> 0]
        /\ UNCHANGED <<client, io, left, ran, bye, kinds, apideven, posted>>
    BY <1>1 DEF SendStart
  <2> HIDE DEF whole
  <2>3. tosend' \in [pieces : Nat, tries : 0 .. 5]
    BY <2>1, <2>2
  <2> QED BY <1>0, <2>2, <2>3 DEF ApiInv, ServerTypes, DeviceTypes, ReplyShape, SaysBye
<1>2. ASSUME NEW n \in 0 .. tosend.pieces, SendSome(n) PROVE ApiInv'
  <2>1. /\ tosend.tries < 5
        /\ tosend' = [pieces |-> tosend.pieces - n, tries |-> tosend.tries + 1]
        /\ UNCHANGED <<api, client, io, left, ran, bye, kinds, apideven, posted>>
    BY <1>2 DEF SendSome
  <2>2. tosend' \in [pieces : Nat, tries : 0 .. 5]
    BY <1>0, <2>1
  <2> QED BY <1>0, <2>1, <2>2 DEF ApiInv, ServerTypes, DeviceTypes, ReplyShape, SaysBye
<1>3. ASSUME NEW given_up \in BOOLEAN, SendEnd(given_up) PROVE ApiInv'
  BY <1>0, <1>3 DEF SendEnd, ApiInv, ServerTypes, DeviceTypes, ReplyShape, SaysBye
<1>4. CASE CloseSocket
  <2>1. NoRequest \in Requests
    <3>1. "R" \in Letters /\ "version" \in DOMAIN cmds
      BY DEF Letters, setup_groups, cmds, Reports
    <3> QED BY <3>1 DEF NoRequest, Requests
  <2>2. /\ client' \in Requests /\ io' \in Buffers /\ io'.used < SOCKBUFSIZ
        /\ api' \in {"ended", "accept"} /\ (bye => api' = "ended")
        /\ UNCHANGED <<left, tosend, bye, kinds, apideven, posted>>
    BY <1>4, <2>1, EmptyBuffer DEF CloseSocket
  <2> QED BY <1>0, <2>2 DEF ApiInv, ServerTypes, DeviceTypes, ReplyShape
<1> QED BY <1>1, <1>2, <1>3, <1>4

LEMMA OutsideSteps ==
    ASSUME ApiInv,
           \/ \E kind \in {"pga", "asc"} : ApiHotplug(kind)
           \/ \E d \in DOMAIN kinds : ThreadWakes(d)
    PROVE  ApiInv'
<1>0. DeviceTypes /\ MaxDevices \in Nat
  BY ApiAssumption DEF ApiInv
<1>1. UNCHANGED <<api, client, io, left, tosend, ran, bye>>
  BY DEF ApiHotplug, ThreadWakes
<1>2. DeviceTypes'
  <2>1. ASSUME NEW kind \in {"pga", "asc"}, ApiHotplug(kind) PROVE DeviceTypes'
    BY <1>0, <2>1 DEF ApiHotplug, DeviceTypes
  <2>2. ASSUME NEW d \in DOMAIN kinds, ThreadWakes(d) PROVE DeviceTypes'
    <3>1. posted' \in [1 .. MaxDevices -> Nat]
      BY <1>0, <2>2 DEF ThreadWakes, DeviceTypes
    <3> QED BY <1>0, <2>2, <3>1 DEF ThreadWakes, DeviceTypes
  <2> QED BY <2>1, <2>2
<1> QED BY <1>1, <1>2 DEF ApiInv, ServerTypes, ReplyShape, SaysBye

LEMMA ApiSteps == ApiInv /\ [ApiNext]_apiVars => ApiInv'
<1>1. ApiInv /\ ApiNext => ApiInv'
  BY AcceptSteps, QueuedSteps, SettingSteps, QuitStep, ReportStep, RecordStep, SendSteps,
     OutsideSteps, Zenon DEF ApiNext
<1>2. ApiInv /\ UNCHANGED apiVars => ApiInv'
  BY DEF apiVars, ApiInv, ServerTypes, DeviceTypes, ReplyShape, SaysBye
<1> QED BY <1>1, <1>2

(* A JSON reply parses, also one that was cut off where the buffer ended,  *)
(* unless it answers quit or restart.                                      *)
THEOREM RepliesCanBeParsed == ApiSpec => []RepliesParse
<1>1. ApiInv => RepliesParse
  <2> SUFFICES ASSUME ApiInv PROVE RepliesParse
    OBVIOUS
  <2>0. ServerTypes /\ DeviceTypes /\ ReplyShape
    BY DEF ApiInv
  <2>1. ApiTypeOK
    <3>1. io.used < SOCKBUFSIZ /\ tosend.tries \in 0 .. 5 /\ (bye => api # "accept")
      BY <2>0 DEF ServerTypes
    <3>2. client.group \in DOMAIN setup_groups \union {"W"}
      BY <2>0 DEF ServerTypes, Requests, Letters
    <3>3. posted \in [1 .. MaxDevices -> Nat]
      BY <2>0 DEF DeviceTypes
    <3> QED BY <3>1, <3>2, <3>3 DEF ApiTypeOK
  <2>2. ASSUME api = "sending", client.json, ~SaysBye
        PROVE  Parses(Closed(io, TRUE))
    <3> DEFINE last == IF io.full THEN "truncated" ELSE "end"
    <3>1. io.buf \in Seq(Pieces) /\ last \in {"truncated", "end"} /\ io.close \in BOOLEAN
      BY <2>0 DEF ServerTypes, Buffers
    <3>2. CASE io.close
      <4>1. Closed(io, TRUE) = io.buf \o <<"close">> \o <<last>>
        BY <3>2, Zenon DEF Closed
      <4>2. IsList(io.buf)
        BY <2>0, <2>2, <3>2 DEF ReplyShape
      <4> HIDE DEF last
      <4> QED BY ONLY <3>1, <4>1, <4>2, ListParses, Zenon
    <3>3. CASE ~io.close
      <4>1. Closed(io, TRUE) = io.buf \o <<>> \o <<last>>
        BY <3>3, Zenon DEF Closed
      <4>2. io.buf \o <<>> = io.buf
        BY <3>1
      <4>3. IsStatus(io.buf)
        BY <2>0, <2>2, <3>3 DEF ReplyShape
      <4> HIDE DEF last
      <4> QED BY ONLY <3>1, <4>1, <4>2, <4>3, StatusParses, Zenon
    <3> QED BY <3>1, <3>2, <3>3
  <2> QED BY <2>1, <2>2 DEF RepliesParse, JsonIsAnswered
<1> QED BY <1>1, ApiInitially, ApiSteps, PTL DEF ApiSpec

(* The groups of --api-groups get from "*" the commands that report, and   *)
(* those that write only by their names.                                   *)
THEOREM WritersArePermitted == ApiSpec => OnlyPermitted
<1> DEFINE Rule ==
      ran' # ran /\ ran'.cmd \in Writes
        => ran'.group = "W"
           \/ \E i \in DOMAIN ApiGroups :
                 ApiGroups[i].name = ran'.group /\ ran'.cmd \in ApiGroups[i].words
<1>1. ApiInv /\ ApiNext => Rule
  <2> SUFFICES ASSUME ApiInv, ApiNext, ran' # ran, ran'.cmd \in Writes
               PROVE  ran'.group = "W"
                      \/ \E i \in DOMAIN ApiGroups :
                            ApiGroups[i].name = ran'.group /\ ran'.cmd \in ApiGroups[i].words
    OBVIOUS
  <2>1. CloseSocket \/ \E c : Granted(c)
    BY Zenon DEF ApiNext, Accept, RecvFails, RecvInvalid, RecvCommand, AccessDenied, Report,
       AddRecord, EnableQueued, DisableQueued, SetConfig, FailoverOnly, DebugState, DoQuit,
       OtherWrite, SendStart, SendSome, SendEnd, ApiHotplug, ThreadWakes
  <2>2. ~CloseSocket
    BY DEF CloseSocket, NoCall, Writes
  <2>3. PICK c : Granted(c)
    BY <2>1, <2>2
  <2>4. ran'.group = client.group /\ ran'.cmd = c /\ Permits(client.group, c) /\ c \in Writes
    BY <2>3 DEF Granted
  <2>5. client.group \in Letters
    BY DEF ApiInv, ServerTypes, Requests
  <2> QED BY <2>4, <2>5, GroupsWrite
<1>2. ApiInv /\ [ApiNext]_apiVars => [Rule]_ran
  BY <1>1 DEF apiVars
<1>3. ApiSpec => [][Rule]_ran
  BY <1>2, ApiInitially, ApiSteps, PTL DEF ApiSpec
<1> QED BY <1>3 DEF OnlyPermitted

----------------------------------------------------------------------------
(* Lists of values, and ranges of devices.                                 *)

(* The values a list gives are those up to the first that is refused.      *)
LEMMA TakenFacts ==
  ASSUME NEW vals, IsSequence(vals), NEW A
  PROVE  /\ Taken(vals, A) \in 0 .. Len(vals)
         /\ \A i \in 1 .. Taken(vals, A) : vals[i] \in A
         /\ (\A i \in 1 .. Len(vals) : vals[i] \in A) => Taken(vals, A) = Len(vals)
<1> DEFINE P == {i \in DOMAIN vals : \A j \in 1 .. i : vals[j] \in A}
           S == {k \in Nat : k + 1 \notin P}
<1>0. Len(vals) \in Nat /\ DOMAIN vals = 1 .. Len(vals)
  BY DEF IsSequence
<1>1. Len(vals) \in S
  BY <1>0
<1>2. PICK m \in S : \A k \in S : m <= k
  <2>1. S \in SUBSET Nat /\ S # {}
    BY <1>1
  <2> HIDE DEF S
  <2> QED BY <2>1, MinFacts
<1>3. \A k \in 1 .. m : k \in P
  <2> TAKE k \in 1 .. m
  <2>1. k - 1 \in Nat /\ k - 1 < m /\ (k - 1) + 1 = k
    BY <1>2
  <2>2. k - 1 \notin S
    BY <1>2, <2>1
  <2> QED BY <2>1, <2>2
<1>4. \A i \in P : i \in 1 .. m
  <2> SUFFICES ASSUME NEW i \in P, i > m PROVE FALSE
    BY <1>0, <1>2
  <2>1. m + 1 \in P
    BY <1>0, <1>2
  <2> QED BY <1>2, <2>1
<1>5. P = 1 .. m /\ m \in Nat
  BY <1>2, <1>3, <1>4, Zenon
<1>6. Cardinality(1 .. m) = m
  BY <1>5, FS_Interval
<1>7. Taken(vals, A) = m
  BY <1>5, <1>6 DEF Taken
<1>8. m <= Len(vals)
  BY <1>1, <1>2
<1>9. \A i \in 1 .. m : vals[i] \in A
  BY <1>3
<1>10. ASSUME \A i \in 1 .. Len(vals) : vals[i] \in A PROVE m = Len(vals)
  <2>1. ASSUME m < Len(vals) PROVE FALSE
    <3>1. m + 1 \in P
      BY <1>0, <1>5, <1>10, <2>1
    <3> QED BY <1>2, <3>1
  <2>2. m \in Nat /\ Len(vals) \in Nat /\ m <= Len(vals) /\ ~(m < Len(vals))
    BY <1>0, <1>5, <1>8, <2>1
  <2> QED BY ONLY <2>2
<1> QED BY <1>5, <1>7, <1>8, <1>9, <1>10

(* Every device is in one of the ranges.                                   *)
LEMMA InSomeRange ==
  ASSUME NEW n \in Nat, NEW D \in SUBSET (0 .. n - 1), NEW d \in D
  PROVE  \E r \in RangesOf(D) : d \in r[1] .. r[2]
<1> DEFINE Below == {k \in D : k .. d \subseteq D}
           Above == {k \in Nat : k >= d /\ k + 1 \notin D}
<1>0. d \in Nat /\ D \subseteq Nat
  OBVIOUS
<1>1. PICK lo \in Below : \A k \in Below : lo <= k
  <2>0. \A j \in d .. d : j = d
    BY <1>0
  <2>1. Below \in SUBSET Nat /\ d \in Below
    BY <1>0, <2>0
  <2> HIDE DEF Below
  <2> QED BY <2>1, MinFacts
<1>2. PICK hi \in Above : \A k \in Above : hi <= k
  <2>1. Above \in SUBSET Nat /\ n \in Above
    BY <1>0
  <2> HIDE DEF Above
  <2> QED BY <2>1, MinFacts
<1>3. lo \in Nat /\ hi \in Nat /\ d \in lo .. hi
  <2>1. lo <= d
    <3>1. d \in Below
      BY <1>0
    <3> QED BY <1>1, <3>1
  <2> QED BY <1>0, <1>1, <1>2, <2>1
<1>4. lo - 1 \notin D
  <2> SUFFICES ASSUME lo - 1 \in D PROVE FALSE
    OBVIOUS
  <2>1. \A j \in (lo - 1) .. d : j \in D
    <3> TAKE j \in (lo - 1) .. d
    <3>1. j = lo - 1 \/ j \in lo .. d
      BY <1>3
    <3> QED BY <1>1, <3>1
  <2>2. lo - 1 \in Below
    BY <2>1
  <2> QED BY <1>1, <1>3, <2>2
<1>5. \A j \in d .. hi : j \in D
  <2> TAKE j \in d .. hi
  <2>1. CASE j = d
    BY <2>1
  <2>2. CASE j > d
    <3>1. j - 1 \in Nat /\ j - 1 >= d /\ j - 1 < hi /\ (j - 1) + 1 = j
      BY <1>0, <1>3, <2>2
    <3>2. j - 1 \notin Above
      BY <1>2, <1>3, <3>1
    <3> QED BY <3>1, <3>2
  <2> QED BY <1>0, <1>3, <2>1, <2>2
<1>6. lo .. hi \subseteq D
  <2> SUFFICES ASSUME NEW j \in lo .. hi PROVE j \in D
    OBVIOUS
  <2>1. j \in lo .. d \/ j \in d .. hi
    BY <1>0, <1>3
  <2> QED BY <1>1, <1>5, <2>1
<1>7. <<lo, hi>> \in RangesOf(D)
  <2>1. hi \in lo .. hi /\ lo \in lo .. hi /\ lo <= hi
    BY <1>0, <1>3
  <2>2. hi + 1 \notin D
    BY <1>2
  <2> QED BY <1>4, <1>6, <2>1, <2>2 DEF RangesOf
<1> QED BY <1>3, <1>7

(* One range of devices is written as itself.                              *)
LEMMA OneRange ==
  ASSUME NEW n \in Nat, NEW D \in SUBSET (0 .. n - 1), Cardinality(RangesOf(D)) <= 1
  PROVE  \/ D = {} /\ WrittenDevices(D) = <<>>
         \/ \E lo, hi \in Nat : lo <= hi /\ D = lo .. hi /\ WrittenDevices(D) = <<<<lo, hi>>>>
<1>1. IsFiniteSet(D)
  <2>1. IsFiniteSet(0 .. n - 1)
    BY FS_Interval
  <2> QED BY <2>1, FS_Subset
<1>2. IsFiniteSet(RangesOf(D))
  <2>1. IsFiniteSet(D \X D)
    BY <1>1, FS_Product
  <2>2. RangesOf(D) \subseteq D \X D
    BY DEF RangesOf
  <2> QED BY <2>1, <2>2, FS_Subset
<1>3. CASE RangesOf(D) = {}
  <2>1. D = {}
    BY <1>3, InSomeRange
  <2>2. WrittenDevices(D) = <<>>
    BY <1>3 DEF WrittenDevices
  <2> QED BY <2>1, <2>2
<1>4. CASE RangesOf(D) # {}
  <2>1. Cardinality(RangesOf(D)) \in Nat /\ Cardinality(RangesOf(D)) # 0
    BY <1>2, <1>4, FS_CardinalityType, FS_EmptySet
  <2>2. Cardinality(RangesOf(D)) = 1
    BY <2>1
  <2>3. PICK r : RangesOf(D) = {r}
    BY <1>2, <2>2, FS_Singleton
  <2>4. r \in D \X D /\ r[1] <= r[2] /\ r[1] .. r[2] \subseteq D
    <3>1. r \in RangesOf(D)
      BY <2>3
    <3> QED BY <3>1 DEF RangesOf
  <2>5. r[1] \in Nat /\ r[2] \in Nat /\ r = <<r[1], r[2]>>
    <3>1. D \subseteq Nat
      OBVIOUS
    <3>2. \A q \in D \X D : q = <<q[1], q[2]>> /\ q[1] \in D /\ q[2] \in D
      OBVIOUS
    <3> QED BY <2>4, <3>1, <3>2
  <2>6.
 \A d \in D : d \in r[1] .. r[2]
    BY <2>3, InSomeRange
  <2>7. D = r[1] .. r[2]
    BY <2>4, <2>6
  <2>8. WrittenDevices(D) = <<r>>
    <3>1. (CHOOSE q \in {r} : \A p \in {r} : q[1] <= p[1]) = r
      BY <2>5
    <3> QED BY <2>2, <2>3, <3>1 DEF WrittenDevices
  <2> QED BY <2>4, <2>5, <2>7, <2>8
<1> QED BY <1>3, <1>4

----------------------------------------------------------------------------
(* The settings keep their types.                                          *)
Values == UNION {Accepted[o] : o \in Listed}
Intensity == [dynamic : BOOLEAN, i : set_intensity,
              x : {0} \union set_xintensity, raw : {0} \union set_rawintensity]

\* Of the settings; an intensity is of one kind.
SettingsTypes(s) ==
    /\ DOMAIN s = {"gpu", "intensity", "devices", "strategy", "failonly"}
    /\ s.gpu \in [1 .. Gpus -> [Listed -> Values]]
    /\ \A g \in 1 .. Gpus, o \in Listed : s.gpu[g][o] \in Accepted[o]
    /\ s.intensity \in [1 .. Gpus -> Intensity]
    /\ \A g \in 1 .. Gpus : s.intensity[g].x = 0 \/ s.intensity[g].raw = 0

LEMMA ValueFacts ==
  ASSUME NEW vals, IsSequence(vals), NEW A, NEW g \in Nat \ {0}, Given(vals, A, g)
  PROVE  Value(vals, g) \in A
<1>1. Taken(vals, A) \in Nat /\ \A i \in 1 .. Taken(vals, A) : vals[i] \in A
  BY TakenFacts DEF IsSequence
<1>2. CASE g <= Taken(vals, A)
  BY <1>1, <1>2 DEF Value
<1>3. CASE Len(vals) = 1 /\ Taken(vals, A) = 1
  BY <1>1, <1>3 DEF Value
<1> QED BY <1>2, <1>3 DEF Given

\* Where all are accepted, all are given.
LEMMA AllGiven ==
  ASSUME NEW vals, vals = [g \in 1 .. Gpus |-> vals[g]], NEW A, \A g \in 1 .. Gpus : vals[g] \in A,
         NEW g \in 1 .. Gpus
  PROVE  Given(vals, A, g) /\ Value(vals, g) = vals[g]
<1>0. Gpus \in Nat \ {0}
  BY ConfAssumption
<1>1. vals \in Seq(A) /\ Len(vals) = Gpus /\ DOMAIN vals = 1 .. Gpus
  BY <1>0
<1>2. IsSequence(vals)
  BY <1>0, <1>1 DEF IsSequence
<1>3. Taken(vals, A) = Gpus
  BY <1>1, <1>2, TakenFacts
<1>4. Given(vals, A, g)
  BY <1>0, <1>3 DEF Given
<1>5. Value(vals, g) = vals[g]
  BY <1>0, <1>1 DEF Value
<1> QED BY <1>4, <1>5

LEMMA AcceptedFacts == \A o \in Listed : Accepted[o] \subseteq Values
  BY DEF Values

LEMMA DefaultTypes == SettingsTypes(Default)
<1>0. Gpus \in Nat \ {0}
  BY ConfAssumption
<1>1. \A o \in Listed : DefaultGpu[o] \in Accepted[o]
  BY DEF DefaultGpu, Accepted, Listed, set_vector, set_worksize, set_kernel, set_gpu_threads,
         set_gpu_engine, set_gpu_fan, set_gpu_memclock, set_temp_target
<1>2. DefaultGpu \in [Listed -> Values]
  <2>1. DefaultGpu = [o \in Listed |-> DefaultGpu[o]]
    BY Zenon DEF DefaultGpu
  <2> QED BY <1>1, <2>1, AcceptedFacts
<1>3. [dynamic |-> TRUE, i |-> 0, x |-> 0, raw |-> 0] \in Intensity
  BY DEF Intensity, set_intensity
<1>4. Default.gpu = [g \in 1 .. Gpus |-> DefaultGpu]
      /\ Default.intensity = [g \in 1 .. Gpus |-> [dynamic |-> TRUE, i |-> 0, x |-> 0, raw |-> 0]]
      /\ DOMAIN Default = {"gpu", "intensity", "devices", "strategy", "failonly"}
  BY DEF Default
<1> QED BY <1>1, <1>2, <1>3, <1>4 DEF SettingsTypes

LEMMA SetListTypes ==
  ASSUME NEW s, SettingsTypes(s), NEW o \in Listed, NEW vals, IsSequence(vals)
  PROVE  SettingsTypes(SetList(s, o, vals))
<1> DEFINE new == [g \in DOMAIN s.gpu |->
               IF Given(vals, Accepted[o], g) THEN [s.gpu[g] EXCEPT ![o] = Value(vals, g)] ELSE s.gpu[g]]
<1>0. DOMAIN s.gpu = 1 .. Gpus
  BY DEF SettingsTypes
<1>1. SetList(s, o, vals) = [s EXCEPT !.gpu = new]
  BY DEF SetList
<1>2. ASSUME NEW g \in 1 .. Gpus
      PROVE  new[g] \in [Listed -> Values] /\ \A p \in Listed : new[g][p] \in Accepted[p]
  <2>1. CASE Given(vals, Accepted[o], g)
    <3>1. Value(vals, g) \in Accepted[o]
      BY <2>1, ValueFacts, ConfAssumption
    <3> QED BY <1>0, <2>1, <3>1, AcceptedFacts DEF SettingsTypes
  <2>2. CASE ~Given(vals, Accepted[o], g)
    BY <1>0, <2>2 DEF SettingsTypes
  <2> QED BY <2>1, <2>2
<1>3. new = [g \in 1 .. Gpus |-> new[g]]
  BY <1>0
<1> HIDE DEF new
<1> QED BY <1>1, <1>2, <1>3 DEF SettingsTypes
\* Other intensities, of the right type.
LEMMA NewIntensity ==
  ASSUME NEW s, SettingsTypes(s), NEW new, new = [g \in 1 .. Gpus |-> new[g]],
         \A g \in 1 .. Gpus : new[g] \in Intensity /\ (new[g].x = 0 \/ new[g].raw = 0)
  PROVE  SettingsTypes([s EXCEPT !.intensity = new])
  BY DEF SettingsTypes

LEMMA SetIntensityTypes ==
  ASSUME NEW s, SettingsTypes(s), NEW vals, IsSequence(vals)
  PROVE  SettingsTypes(SetIntensity(s, vals))
<1> DEFINE Dials == set_intensity \union {Dynamic}
           new == [g \in DOMAIN s.intensity |->
               IF ~Given(vals, Dials, g) THEN s.intensity[g]
               ELSE IF Value(vals, g) = Dynamic THEN [s.intensity[g] EXCEPT !.dynamic = TRUE]
               ELSE [dynamic |-> FALSE, i |-> Value(vals, g), x |-> 0, raw |-> 0]]
<1>0. DOMAIN s.intensity = 1 .. Gpus
  BY DEF SettingsTypes
<1>1. SetIntensity(s, vals) = [s EXCEPT !.intensity = new]
  BY Zenon DEF SetIntensity
<1>2. ASSUME NEW g \in 1 .. Gpus
      PROVE  new[g] \in Intensity /\ (new[g].x = 0 \/ new[g].raw = 0)
  <2>0. s.intensity[g] \in Intensity /\ (s.intensity[g].x = 0 \/ s.intensity[g].raw = 0)
    BY DEF SettingsTypes
  <2>1. CASE ~Given(vals, Dials, g)
    BY <1>0, <2>0, <2>1
  <2>2. CASE Given(vals, Dials, g) /\ Value(vals, g) = Dynamic
    <3>1. new[g] = [s.intensity[g] EXCEPT !.dynamic = TRUE]
      BY <1>0, <2>2
    <3> HIDE DEF new
    <3> QED BY <2>0, <3>1 DEF Intensity
  <2>3. CASE Given(vals, Dials, g) /\ Value(vals, g) # Dynamic
    <3>1. Value(vals, g) \in set_intensity
      BY <2>3, ValueFacts, ConfAssumption
    <3>2. new[g] = [dynamic |-> FALSE, i |-> Value(vals, g), x |-> 0, raw |-> 0]
      BY <1>0, <2>3
    <3> HIDE DEF new
    <3> QED BY <3>1, <3>2 DEF Intensity
  <2> QED BY <2>1, <2>2, <2>3
<1>3. new = [g \in 1 .. Gpus |-> new[g]]
  BY <1>0
<1> HIDE DEF new
<1>4. \A g \in 1 .. Gpus : new[g] \in Intensity /\ (new[g].x = 0 \/ new[g].raw = 0)
  BY <1>2, Zenon
<1>5. SettingsTypes([s EXCEPT !.intensity = new])
  BY <1>3, <1>4, NewIntensity, Zenon
<1> QED BY <1>1, <1>5, Zenon

LEMMA SetXIntensityTypes ==
  ASSUME NEW s, SettingsTypes(s), NEW vals, IsSequence(vals)
  PROVE  SettingsTypes(SetXIntensity(s, vals))
<1> DEFINE new == [g \in DOMAIN s.intensity |->
               IF Given(vals, set_xintensity, g)
               THEN [dynamic |-> FALSE, i |-> 0, x |-> Value(vals, g), raw |-> 0] ELSE s.intensity[g]]
<1>0. DOMAIN s.intensity = 1 .. Gpus
  BY DEF SettingsTypes
<1>1. SetXIntensity(s, vals) = [s EXCEPT !.intensity = new]
  BY Zenon DEF SetXIntensity
<1>2. ASSUME NEW g \in 1 .. Gpus
      PROVE  new[g] \in Intensity /\ (new[g].x = 0 \/ new[g].raw = 0)
  <2>1. CASE ~Given(vals, set_xintensity, g)
    BY <1>0, <2>1 DEF SettingsTypes
  <2>2. CASE Given(vals, set_xintensity, g)
    <3>1. Value(vals, g) \in set_xintensity
      BY <2>2, ValueFacts, ConfAssumption
    <3>2. new[g] = [dynamic |-> FALSE, i |-> 0, x |-> Value(vals, g), raw |-> 0]
      BY <1>0, <2>2
    <3> HIDE DEF new
    <3> QED BY <3>1, <3>2 DEF Intensity, set_intensity
  <2> QED BY <2>1, <2>2
<1>3. new = [g \in 1 .. Gpus |-> new[g]]
  BY <1>0
<1> HIDE DEF new
<1>4. \A g \in 1 .. Gpus : new[g] \in Intensity /\ (new[g].x = 0 \/ new[g].raw = 0)
  BY <1>2, Zenon
<1>5. SettingsTypes([s EXCEPT !.intensity = new])
  BY <1>3, <1>4, NewIntensity, Zenon
<1> QED BY <1>1, <1>5, Zenon

LEMMA SetRawIntensityTypes ==
  ASSUME NEW s, SettingsTypes(s), NEW vals, IsSequence(vals)
  PROVE  SettingsTypes(SetRawIntensity(s, vals))
<1> DEFINE new == [g \in DOMAIN s.intensity |->
               IF Given(vals, set_rawintensity, g)
               THEN [dynamic |-> FALSE, i |-> 0, x |-> 0, raw |-> Value(vals, g)] ELSE s.intensity[g]]
<1>0. DOMAIN s.intensity = 1 .. Gpus
  BY DEF SettingsTypes
<1>1. SetRawIntensity(s, vals) = [s EXCEPT !.intensity = new]
  BY Zenon DEF SetRawIntensity
<1>2. ASSUME NEW g \in 1 .. Gpus
      PROVE  new[g] \in Intensity /\ (new[g].x = 0 \/ new[g].raw = 0)
  <2>1. CASE ~Given(vals, set_rawintensity, g)
    BY <1>0, <2>1 DEF SettingsTypes
  <2>2. CASE Given(vals, set_rawintensity, g)
    <3>1. Value(vals, g) \in set_rawintensity
      BY <2>2, ValueFacts, ConfAssumption
    <3>2. new[g] = [dynamic |-> FALSE, i |-> 0, x |-> 0, raw |-> Value(vals, g)]
      BY <1>0, <2>2
    <3> HIDE DEF new
    <3> QED BY <3>1, <3>2 DEF Intensity, set_intensity
  <2> QED BY <2>1, <2>2
<1>3. new = [g \in 1 .. Gpus |-> new[g]]
  BY <1>0
<1> HIDE DEF new
<1>4. \A g \in 1 .. Gpus : new[g] \in Intensity /\ (new[g].x = 0 \/ new[g].raw = 0)
  BY <1>2, Zenon
<1>5. SettingsTypes([s EXCEPT !.intensity = new])
  BY <1>3, <1>4, NewIntensity, Zenon
<1> QED BY <1>1, <1>5, Zenon

LEMMA SetDevicesTypes ==
  ASSUME NEW s, SettingsTypes(s), NEW ranges
  PROVE  SettingsTypes(SetDevices(s, ranges))
  BY DEF SetDevices, SettingsTypes

LEMMA WrittenTypes ==
  ASSUME NEW s
  PROVE  IsSequence(WrittenIntensity(s).vals)
<1>0. Gpus \in Nat \ {0}
  BY ConfAssumption
<1>1. \A f : f = [g \in 1 .. Gpus |-> f[g]] => IsSequence(f)
  <2> SUFFICES ASSUME NEW f, f = [g \in 1 .. Gpus |-> f[g]] PROVE IsSequence(f)
    OBVIOUS
  <2> DEFINE A == {f[g] : g \in 1 .. Gpus}
  <2>0. \A g \in 1 .. Gpus : f[g] \in A
    OBVIOUS
  <2> HIDE DEF A
  <2>1. f \in Seq(A) /\ Len(f) = Gpus /\ DOMAIN f = 1 .. Gpus
    BY <1>0, <2>0
  <2> QED BY <1>0, <2>1 DEF IsSequence
<1>2. IsSequence(<<>>)

  BY DEF IsSequence
<1> QED BY <1>1, <1>2 DEF WrittenIntensity

\* The file is what write_config writes of t, perhaps with an include added.
WrittenFrom(f, t) ==
    /\ DOMAIN f = {"parses", "intensity", "lists", "devices", "strategy", "failonly", "include"}
    /\ f.parses <=> WrittenIntensity(t).name # "none"
    /\ f.intensity = WrittenIntensity(t)
    /\ f.lists = WrittenLists(t)
    /\ f.devices = WrittenDevices(t.devices)
    /\ f.strategy = t.strategy
    /\ f.failonly = t.failonly

LEMMA WriteFacts ==
  ASSUME NEW t
  PROVE  WrittenFrom(write_config(t), t)
<1>1. DOMAIN write_config(t) = {"parses", "intensity", "lists", "devices", "strategy", "failonly", "include"}
  BY DEF write_config
<1>2. /\ write_config(t).parses <=> WrittenIntensity(t).name # "none"
      /\ write_config(t).intensity = WrittenIntensity(t)
      /\ write_config(t).lists = WrittenLists(t)
      /\ write_config(t).devices = WrittenDevices(t.devices)
      /\ write_config(t).strategy = t.strategy
      /\ write_config(t).failonly = t.failonly
  BY Zenon DEF write_config
<1> QED BY <1>1, <1>2, Zenon DEF WrittenFrom

\* The steps of parse_config change different settings.
LEMMA ParseFields ==
  ASSUME NEW s, SettingsTypes(s), NEW f
  PROVE  /\ parse_config(s, f).gpu = ParseLists(s, f).gpu
         /\ parse_config(s, f).intensity = ParseIntensity(ParseLists(s, f), f).intensity
         /\ parse_config(s, f).devices = SetDevices(s, f.devices).devices
         /\ parse_config(s, f).strategy = f.strategy
         /\ parse_config(s, f).failonly = f.failonly
         /\ DOMAIN parse_config(s, f) = {"gpu", "intensity", "devices", "strategy", "failonly"}
<1> DEFINE a == ParseLists(s, f)
           b == ParseIntensity(a, f)
           c == SetDevices(b, f.devices)
<1>1. DOMAIN a = DOMAIN s /\ a.devices = s.devices /\ a.intensity = s.intensity
  BY DEF ParseLists, SettingsTypes
<1>2. DOMAIN b = DOMAIN a /\ b.gpu = a.gpu /\ b.devices = a.devices
  <2> HIDE DEF a
  <2>1. ASSUME NEW vals PROVE LET n == SetIntensity(a, vals) IN
                DOMAIN n = DOMAIN a /\ n.gpu = a.gpu /\ n.devices = a.devices
    BY <1>1 DEF SetIntensity, SettingsTypes
  <2>2. ASSUME NEW vals PROVE LET n == SetXIntensity(a, vals) IN
                DOMAIN n = DOMAIN a /\ n.gpu = a.gpu /\ n.devices = a.devices
    BY <1>1 DEF SetXIntensity, SettingsTypes
  <2>3. ASSUME NEW vals PROVE LET n == SetRawIntensity(a, vals) IN
                DOMAIN n = DOMAIN a /\ n.gpu = a.gpu /\ n.devices = a.devices
    BY <1>1 DEF SetRawIntensity, SettingsTypes
  <2> QED BY <2>1, <2>2, <2>3 DEF ParseIntensity
<1> HIDE DEF a, b
<1>3. /\ DOMAIN c = DOMAIN s /\ c.gpu = b.gpu /\ c.intensity = b.intensity
      /\ c.devices = SetDevices(s, f.devices).devices
  BY <1>1, <1>2 DEF SetDevices, SettingsTypes
<1>4. parse_config(s, f) = [c EXCEPT !.strategy = f.strategy, !.failonly = f.failonly]
  BY DEF parse_config, a, b
<1> HIDE DEF c
<1>5. DOMAIN c = {"gpu", "intensity", "devices", "strategy", "failonly"}
  BY <1>3 DEF SettingsTypes
<1>6. c.gpu = a.gpu
  BY <1>2, <1>3
<1> QED BY <1>3, <1>4, <1>5, <1>6 DEF a, b

LEMMA ParseListsTypes ==
  ASSUME NEW s, SettingsTypes(s), NEW f
  PROVE  SettingsTypes(ParseLists(s, f))
<1> DEFINE new == [g \in 1 .. Gpus |-> [o \in Listed |->
               IF o \in DOMAIN f.lists /\ (\A h \in 1 .. g : f.lists[o][h] \in Accepted[o])
               THEN f.lists[o][g] ELSE s.gpu[g][o]]]
<1>1. ParseLists(s, f) = [s EXCEPT !.gpu = new]
  BY Zenon DEF ParseLists
<1>2. ASSUME NEW g \in 1 .. Gpus, NEW o \in Listed PROVE new[g][o] \in Accepted[o]
  <2>1. g \in 1 .. g
    BY ConfAssumption
  <2> QED BY <2>1 DEF SettingsTypes
<1>3. new \in [1 .. Gpus -> [Listed -> Values]]
  BY <1>2, AcceptedFacts
<1> HIDE DEF new
<1> QED BY <1>1, <1>2, <1>3 DEF SettingsTypes

LEMMA ParseTypes ==
  ASSUME NEW s, SettingsTypes(s), NEW f, NEW t, WrittenFrom(f, t)
  PROVE  SettingsTypes(parse_config(s, f))
<1> DEFINE a == ParseLists(s, f)
           b == ParseIntensity(a, f)
<1>1. SettingsTypes(a)
  BY ParseListsTypes
<1>2. SettingsTypes(b)
  <2> HIDE DEF a
  <2>1. IsSequence(f.intensity.vals)
    BY WrittenTypes DEF WrittenFrom
  <2> QED BY <1>1, <2>1, SetIntensityTypes, SetXIntensityTypes, SetRawIntensityTypes DEF ParseIntensity
<1>3. /\ parse_config(s, f).gpu = a.gpu /\ parse_config(s, f).intensity = b.intensity
      /\ DOMAIN parse_config(s, f) = {"gpu", "intensity", "devices", "strategy", "failonly"}
  BY ParseFields
<1> HIDE DEF a, b
<1> QED BY <1>1, <1>2, <1>3 DEF SettingsTypes

----------------------------------------------------------------------------
(* What is read is what was written.                                       *)

\* s has the settings of t, as far as the file keeps them.
Agrees(s, t) ==
    /\ s.devices = t.devices
    /\ s.strategy = t.strategy /\ s.failonly = t.failonly
    /\ \A g \in 1 .. Gpus :
          /\ Effective(s.intensity[g]) = Effective(t.intensity[g])
          /\ \A o \in Listed \ {"threads"} : s.gpu[g][o] = t.gpu[g][o]

\* Before the file is read, or after: no intensity but of the kind t has.
Fresh(s, t) ==
    /\ s.devices = {} \/ s.devices = t.devices
    /\ \A g \in 1 .. Gpus :
          \/ s.intensity[g].x = 0 /\ s.intensity[g].raw = 0
          \/ s.intensity[g].x = t.intensity[g].x /\ s.intensity[g].raw = t.intensity[g].raw

LEMMA EffectiveFacts ==
  ASSUME NEW i
  PROVE  /\ i.x = 0 /\ i.raw = 0 /\ i.dynamic => Effective(i) = [x |-> 0, raw |-> 0, own |-> Dynamic]
         /\ i.x = 0 /\ i.raw = 0 /\ ~i.dynamic => Effective(i) = [x |-> 0, raw |-> 0, own |-> i.i]
         /\ i.x > 0 \/ i.raw > 0 => Effective(i) = [x |-> i.x, raw |-> i.raw, own |-> 0]
<1>1. ~(0 > 0)
  OBVIOUS
<1> QED BY <1>1, Zenon DEF Effective

LEMMA SameEffect ==
  ASSUME NEW i, NEW j, i.x = 0, i.raw = 0, j.x = 0, j.raw = 0,
         \/ i.dynamic /\ j.dynamic
         \/ ~i.dynamic /\ ~j.dynamic /\ i.i = j.i
  PROVE  Effective(i) = Effective(j)
<1>1. CASE i.dynamic /\ j.dynamic
  BY ONLY i.x = 0, i.raw = 0, j.x = 0, j.raw = 0, <1>1, EffectiveFacts, Zenon
<1>2. CASE ~i.dynamic /\ ~j.dynamic /\ i.i = j.i
  BY ONLY i.x = 0, i.raw = 0, j.x = 0, j.raw = 0, <1>2, EffectiveFacts, Zenon
<1> QED BY <1>1, <1>2

LEMMA SameKind ==
  ASSUME NEW i, NEW j, i.x = j.x, i.raw = j.raw, i.x > 0 \/ i.raw > 0
  PROVE  Effective(i) = Effective(j)
<1>1. Effective(i) = [x |-> i.x, raw |-> i.raw, own |-> 0]
  BY EffectiveFacts, Zenon
<1>2. Effective(j) = [x |-> j.x, raw |-> j.raw, own |-> 0]
  BY EffectiveFacts, Zenon
<1> QED BY <1>1, <1>2

\* Of what is 0 or accepted the accepted is positive.
LEMMA PositiveFacts ==
  /\ \A v \in {0} \union set_xintensity : v > 0 <=> v \in set_xintensity
  /\ \A v \in {0} \union set_xintensity : v # 0 <=> v \in set_xintensity
  /\ \A v \in {0} \union set_rawintensity : v > 0 <=> v \in set_rawintensity
  /\ \A v \in {0} \union set_rawintensity : v # 0 <=> v \in set_rawintensity
  /\ \A v \in set_intensity : v <= 0 <=> ~(v > 0)
<1>1. \A v \in set_rawintensity : v > 0
  BY DEF set_rawintensity
<1>2. \A v \in set_xintensity : v > 0
  BY DEF set_xintensity
<1>3. \A v \in set_intensity : v <= 0 <=> ~(v > 0)
  BY DEF set_intensity
<1>4. ~(0 > 0)
  OBVIOUS
<1> QED BY <1>1, <1>2, <1>3, <1>4, Zenon

LEMMA ReadLists ==
  ASSUME NEW s, SettingsTypes(s), NEW t, SettingsTypes(t), NEW f, WrittenFrom(f, t),
         \A g \in 1 .. Gpus : t.gpu[g].kernel # "nscrypt",
         NEW g \in 1 .. Gpus, NEW o \in Listed \ {"threads"}
  PROVE  parse_config(s, f).gpu[g][o] = t.gpu[g][o]
<1>1. f.lists = WrittenLists(t)
  BY DEF WrittenFrom
<1>2. o \in DOMAIN f.lists
  BY <1>1 DEF WrittenLists
<1>3. ASSUME NEW h \in 1 .. Gpus PROVE f.lists[o][h] = t.gpu[h][o]
  <2>1. \A k : k # "nscrypt" => WrittenKernel(k) = k
    BY Zenon DEF WrittenKernel
  <2> QED BY <1>1, <2>1 DEF WrittenLists
<1>4. \A h \in 1 .. g : f.lists[o][h] \in Accepted[o]
  <2> TAKE h \in 1 .. g
  <2>1. h \in 1 .. Gpus
    BY ConfAssumption
  <2> QED BY <1>3, <2>1 DEF SettingsTypes
<1>5. ParseLists(s, f).gpu =
        [k \in 1 .. Gpus |-> [p \in Listed |->
           IF p \in DOMAIN f.lists /\ (\A h \in 1 .. k : f.lists[p][h] \in Accepted[p])
           THEN f.lists[p][k] ELSE s.gpu[k][p]]]
  BY DEF ParseLists, SettingsTypes
<1>6. ParseLists(s, f).gpu[g][o] = f.lists[o][g]
  BY <1>2, <1>4, <1>5
<1> QED BY <1>3, <1>6, ParseFields

LEMMA ReadDevices ==
  ASSUME NEW s, SettingsTypes(s), NEW t, NEW f, WrittenFrom(f, t), Fresh(s, t),
         t.devices \subseteq 0 .. total_devices - 1, Cardinality(RangesOf(t.devices)) <= 1
  PROVE  parse_config(s, f).devices = t.devices
<1>1. f.devices = WrittenDevices(t.devices)
  BY DEF WrittenFrom
<1>2. parse_config(s, f).devices =
        s.devices \union UNION {f.devices[i][1] .. f.devices[i][2] : i \in 1 .. Taken(f.devices, Ranges)}
  <2>1. SetDevices(s, f.devices).devices =
        s.devices \union UNION {f.devices[i][1] .. f.devices[i][2] : i \in 1 .. Taken(f.devices, Ranges)}
    BY DEF SetDevices, SettingsTypes
  <2> QED BY <2>1, ParseFields
<1>3. CASE t.devices = {} /\ f.devices = <<>>
  <2>1. Taken(<<>>, Ranges) = 0
    <3>1. IsSequence(<<>>) /\ Len(<<>>) = 0
      BY DEF IsSequence
    <3>2. Taken(<<>>, Ranges) \in 0 .. Len(<<>>)
      BY <3>1, TakenFacts
    <3> QED BY <3>1, <3>2
  <2> QED BY <1>2, <1>3, <2>1 DEF Fresh
<1>4. ASSUME NEW lo \in Nat, NEW hi \in Nat, lo <= hi, t.devices = lo .. hi, f.devices = <<<<lo, hi>>>>
      PROVE  parse_config(s, f).devices = t.devices
  <2>1. <<lo, hi>> \in Ranges
    BY <1>4 DEF Ranges
  <2>2. Taken(f.devices, Ranges) = 1
    <3>1. IsSequence(f.devices) /\ Len(f.devices) = 1
      BY <1>4 DEF IsSequence
    <3>2. \A i \in 1 .. Len(f.devices) : f.devices[i] \in Ranges
      BY <1>4, <2>1
    <3> QED BY <3>1, <3>2, TakenFacts
  <2>3. {f.devices[i][1] .. f.devices[i][2] : i \in 1 .. 1} = {lo .. hi}
    BY <1>4
  <2>4. UNION {f.devices[i][1] .. f.devices[i][2] : i \in 1 .. 1} = lo .. hi
    BY <2>3
  <2> QED BY <1>2, <1>4, <2>2, <2>4 DEF Fresh
<1>5. total_devices \in Nat
  BY ConfAssumption
<1> QED BY <1>1, <1>3, <1>4, <1>5, OneRange

LEMMA ReadIntensity ==
  ASSUME NEW s, SettingsTypes(s), NEW t, SettingsTypes(t), NEW f, WrittenFrom(f, t), Fresh(s, t),
         Keepable(t), NEW g \in 1 .. Gpus
  PROVE  Effective(parse_config(s, f).intensity[g]) = Effective(t.intensity[g])
<1> DEFINE a == ParseLists(s, f)
           vals == f.intensity.vals
           first == t.intensity[1]
           now == parse_config(s, f).intensity[g]
<1> SUFFICES Effective(now) = Effective(t.intensity[g])
  OBVIOUS

<1>0. Gpus \in Nat \ {0} /\ 1 \in 1 .. Gpus
  BY ConfAssumption
<1>1. DOMAIN a = DOMAIN s /\ a.intensity = s.intensity /\ DOMAIN a.intensity = 1 .. Gpus
  BY DEF ParseLists, SettingsTypes
<1>2. f.intensity = WrittenIntensity(t)
  BY DEF WrittenFrom
<1>3. now = ParseIntensity(a, f).intensity[g]
  BY ParseFields
<1>4. \A h \in 1 .. Gpus : t.intensity[h] \in Intensity /\ s.intensity[h] \in Intensity
  BY DEF SettingsTypes
<1>8. \A h \in 1 .. Gpus : /\ t.intensity[h].x \in {0} \union set_xintensity
                           /\ t.intensity[h].raw \in {0} \union set_rawintensity
                           /\ t.intensity[h].i \in set_intensity
                           /\ t.intensity[h].x = 0 \/ t.intensity[h].raw = 0
  BY <1>4 DEF Intensity, SettingsTypes
<1> HIDE DEF a
<1>5. CASE first.i > 0 /\ \A h \in 1 .. Gpus : t.intensity[h].x = 0 /\ t.intensity[h].raw = 0
  <2> DEFINE Dials == set_intensity \union {Dynamic}
  <2>1. f.intensity.name = "intensity"
        /\ vals = [h \in 1 .. Gpus |-> IF t.intensity[h].dynamic THEN Dynamic ELSE t.intensity[h].i]
    BY <1>2, <1>5 DEF WrittenIntensity
  <2>2. \A h \in 1 .. Gpus : vals[h] \in Dials
    BY <1>4, <2>1 DEF Intensity
  <2>3. Given(vals, Dials, g) /\ Value(vals, g) = vals[g]
    <3>1. vals = [h \in 1 .. Gpus |-> vals[h]]
      BY <2>1
    <3> HIDE DEF vals, Dials
    <3> QED BY <2>2, <3>1, AllGiven, Zenon
  <2>4. now = IF vals[g] = Dynamic THEN [s.intensity[g] EXCEPT !.dynamic = TRUE]
              ELSE [dynamic |-> FALSE, i |-> vals[g], x |-> 0, raw |-> 0]
    <3>1. ParseIntensity(a, f) = SetIntensity(a, vals)
      BY <2>1 DEF ParseIntensity
    <3>2. SetIntensity(a, vals).intensity =
            [h \in 1 .. Gpus |->
              IF ~Given(vals, Dials, h) THEN s.intensity[h]
              ELSE IF Value(vals, h) = Dynamic THEN [s.intensity[h] EXCEPT !.dynamic = TRUE]
              ELSE [dynamic |-> FALSE, i |-> Value(vals, h), x |-> 0, raw |-> 0]]
      BY <1>1 DEF SetIntensity, SettingsTypes
    <3> QED BY <1>3, <2>3, <3>1, <3>2
  <2>5. CASE t.intensity[g].dynamic
    <3>1. now = [s.intensity[g] EXCEPT !.dynamic = TRUE]
      BY <2>1, <2>4, <2>5
    <3>2. s.intensity[g].x = 0 /\ s.intensity[g].raw = 0
      BY <1>5 DEF Fresh
    <3>3. now.x = 0 /\ now.raw = 0 /\ now.dynamic
      BY <1>4, <3>1, <3>2 DEF Intensity
    <3>4. t.intensity[g].x = 0 /\ t.intensity[g].raw = 0
      BY <1>5
    <3> HIDE DEF now
    <3> QED BY ONLY <2>5, <3>3, <3>4, SameEffect, Zenon
  <2>6. CASE ~t.intensity[g].dynamic
    <3>1. vals[g] = t.intensity[g].i /\ t.intensity[g].i \in set_intensity
      BY <1>4, <2>1, <2>6 DEF Intensity
    <3>2. now = [dynamic |-> FALSE, i |-> t.intensity[g].i, x |-> 0, raw |-> 0]
      BY <2>4, <3>1, ConfAssumption
    <3>3. now.x = 0 /\ now.raw = 0 /\ ~now.dynamic /\ now.i = t.intensity[g].i
      BY <3>2
    <3>4. t.intensity[g].x = 0 /\ t.intensity[g].raw = 0
      BY <1>5
    <3> HIDE DEF now
    <3> QED BY ONLY <2>6, <3>3, <3>4, SameEffect, Zenon

  <2> QED BY <2>5, <2>6
<1>6. CASE first.i <= 0 /\ first.x > 0 /\ \A h \in 1 .. Gpus : t.intensity[h].x > 0
  <2>0. ~(first.i > 0)
    BY <1>0, <1>6, <1>8, PositiveFacts, Zenon
  <2>1. f.intensity.name = "xintensity" /\ vals = [h \in 1 .. Gpus |-> t.intensity[h].x]
    BY <1>2, <1>6, <2>0 DEF WrittenIntensity
  <2>2. \A h \in 1 .. Gpus : vals[h] \in set_xintensity
    <3>1. \A h \in 1 .. Gpus : t.intensity[h].x \in set_xintensity
      BY <1>6, <1>8, PositiveFacts, Zenon
    <3> QED BY <2>1, <3>1
  <2>3. Given(vals, set_xintensity, g) /\ Value(vals, g) = vals[g]
    <3>1. vals = [h \in 1 .. Gpus |-> vals[h]]
      BY <2>1
    <3> HIDE DEF vals
    <3> QED BY <2>2, <3>1, AllGiven, Zenon
  <2>4. now = [dynamic |-> FALSE, i |-> 0, x |-> t.intensity[g].x, raw |-> 0]
    <3>1. ParseIntensity(a, f) = SetXIntensity(a, vals)
      BY <2>1 DEF ParseIntensity
    <3>2. SetXIntensity(a, vals).intensity =
            [h \in 1 .. Gpus |->
              IF Given(vals, set_xintensity, h)
              THEN [dynamic |-> FALSE, i |-> 0, x |-> Value(vals, h), raw |-> 0] ELSE s.intensity[h]]
      BY <1>1 DEF SetXIntensity, SettingsTypes
    <3>3. now = [dynamic |-> FALSE, i |-> 0, x |-> Value(vals, g), raw |-> 0]
      BY <1>3, <2>3, <3>1, <3>2
    <3> QED BY <2>1, <2>3, <3>3
  <2>5. t.intensity[g].raw = 0 /\ t.intensity[g].x > 0
    <3>1. t.intensity[g].x # 0
      BY <1>6, <1>8, PositiveFacts, Zenon
    <3> QED BY <1>6, <1>8, <3>1
  <2>6. now.x = t.intensity[g].x /\ now.raw = t.intensity[g].raw
    BY <2>4, <2>5
  <2>7. now.x > 0
    BY <2>5, <2>6
  <2> HIDE DEF now
  <2> QED BY ONLY <2>6, <2>7, SameKind, Zenon
<1>7. CASE first.i <= 0 /\ first.raw > 0 /\ \A h \in 1 .. Gpus : t.intensity[h].raw > 0
  <2>0. ~(first.i > 0) /\ ~(first.x > 0)
    <3>1. ~(first.i > 0)
      BY <1>0, <1>7, <1>8, PositiveFacts, Zenon
    <3>2. first.raw # 0
      BY <1>0, <1>7, <1>8, PositiveFacts, Zenon
    <3>3. first.x = 0
      BY <1>0, <1>8, <3>2
    <3> QED BY <3>1, <3>3
  <2>1. f.intensity.name = "rawintensity" /\ vals = [h \in 1 .. Gpus |-> t.intensity[h].raw]
    BY <1>2, <1>7, <2>0 DEF WrittenIntensity
  <2>2. \A h \in 1 .. Gpus : vals[h] \in set_rawintensity
    <3>1. \A h \in 1 .. Gpus : t.intensity[h].raw \in set_rawintensity
      BY <1>7, <1>8, PositiveFacts, Zenon
    <3> QED BY <2>1, <3>1
  <2>3. Given(vals, set_rawintensity, g) /\ Value(vals, g) = vals[g]
    <3>1. vals = [h \in 1 .. Gpus |-> vals[h]]
      BY <2>1
    <3> HIDE DEF vals
    <3> QED BY <2>2, <3>1, AllGiven, Zenon
  <2>4. now = [dynamic |-> FALSE, i |-> 0, x |-> 0, raw |-> t.intensity[g].raw]
    <3>1. ParseIntensity(a, f) = SetRawIntensity(a, vals)
      BY <2>1 DEF ParseIntensity
    <3>2. SetRawIntensity(a, vals).intensity =
            [h \in 1 .. Gpus |->
              IF Given(vals, set_rawintensity, h)
              THEN [dynamic |-> FALSE, i |-> 0, x |-> 0, raw |-> Value(vals, h)] ELSE s.intensity[h]]
      BY <1>1 DEF SetRawIntensity, SettingsTypes
    <3>3. now = [dynamic |-> FALSE, i |-> 0, x |-> 0, raw |-> Value(vals, g)]
      BY <1>3, <2>3, <3>1, <3>2
    <3> QED BY <2>1, <2>3, <3>3
  <2>5. t.intensity[g].x = 0 /\ t.intensity[g].raw > 0
    <3>1. t.intensity[g].raw # 0
      BY <1>7, <1>8, PositiveFacts, Zenon
    <3> QED BY <1>7, <1>8, <3>1
  <2>6. now.raw = t.intensity[g].raw /\ now.x = t.intensity[g].x
    BY <2>4, <2>5
  <2>7. now.raw > 0
    BY <2>5, <2>6
  <2> HIDE DEF now
  <2> QED BY ONLY <2>6, <2>7, SameKind, Zenon


<1> QED BY <1>5, <1>6, <1>7 DEF Keepable

LEMMA DefaultIsFresh ==
  ASSUME NEW t
  PROVE  Fresh(Default, t)
<1>1. Default.devices = {} /\ \A g \in 1 .. Gpus :
          Default.intensity[g].x = 0 /\ Default.intensity[g].raw = 0
  BY DEF Default
<1> QED BY <1>1 DEF Fresh

LEMMA AgreeingIsFresh ==
  ASSUME NEW s, NEW t, Agrees(s, t)
  PROVE  Fresh(s, t)
<1>1. ASSUME NEW i, NEW j, Effective(i) = Effective(j) PROVE i.x = j.x /\ i.raw = j.raw
  <2>1. Effective(i).x = i.x /\ Effective(i).raw = i.raw
    BY Zenon DEF Effective
  <2>2. Effective(j).x = j.x /\ Effective(j).raw = j.raw
    BY Zenon DEF Effective
  <2> QED BY <1>1, <2>1, <2>2
<1> QED BY <1>1, Zenon DEF Agrees, Fresh

\* The settings that are read from a file are those it was written from.
LEMMA ReadBack ==
  ASSUME NEW s, SettingsTypes(s), NEW t, SettingsTypes(t), NEW f, WrittenFrom(f, t), Fresh(s, t),
         Keepable(t), t.devices \subseteq 0 .. total_devices - 1
  PROVE  Agrees(parse_config(s, f), t)
<1>1. Cardinality(RangesOf(t.devices)) <= 1 /\ \A g \in 1 .. Gpus : t.gpu[g].kernel # "nscrypt"
  BY Zenon DEF Keepable
<1>2. parse_config(s, f).devices = t.devices
  BY <1>1, ReadDevices, Zenon
<1>3. parse_config(s, f).strategy = t.strategy /\ parse_config(s, f).failonly = t.failonly
  BY ParseFields DEF WrittenFrom
<1>4. \A g \in 1 .. Gpus : Effective(parse_config(s, f).intensity[g]) = Effective(t.intensity[g])
  BY ReadIntensity, Zenon
<1>5. ASSUME NEW g \in 1 .. Gpus, NEW o \in Listed \ {"threads"}
      PROVE  parse_config(s, f).gpu[g][o] = t.gpu[g][o]
  BY <1>1, ReadLists
<1> QED BY <1>2, <1>3, <1>4, <1>5, Zenon DEF Agrees

\* A file with settings that can be kept is one that parses.
LEMMA KeepableParses ==
  ASSUME NEW t, SettingsTypes(t), NEW f, WrittenFrom(f, t), Keepable(t)
  PROVE  f.parses
<1>1. 1 \in 1 .. Gpus
  BY ConfAssumption
<1>2. t.intensity[1].i > 0 \/ t.intensity[1].x > 0 \/ t.intensity[1].raw > 0
  BY <1>1, Zenon DEF Keepable
<1>3. WrittenIntensity(t).name # "none"
  BY <1>2 DEF WrittenIntensity
<1> QED BY <1>3, Zenon DEF WrittenFrom

----------------------------------------------------------------------------
(* The file is what was saved; while it is read the settings are the       *)
(* defaults or those that were saved.                                      *)
ConfTypes ==
    /\ SettingsTypes(opts) /\ SettingsTypes(saved)
    /\ depth \in 0 .. JSON_MAX_DEPTH + 1
    /\ quality \in {-1, 0, 1}
    /\ saved.devices \subseteq 0 .. total_devices - 1
    /\ confpc = "running" => opts.devices \subseteq 0 .. total_devices - 1
ReadSoFar ==
    /\ confpc = "reading" =>
          \/ depth = 0 /\ opts = Default
          \/ depth \in 1 .. JSON_MAX_DEPTH /\ (Keepable(saved) => Agrees(opts, saved))
    /\ confpc = "loaded" /\ Keepable(saved) => Agrees(opts, saved)
ConfInv == ConfTypes /\ WrittenFrom(file, saved) /\ ReadSoFar

LEMMA ConfInitially == ConfInit => ConfInv
<1> SUFFICES ASSUME ConfInit PROVE ConfInv
  OBVIOUS
<1>1. Default.devices = {}
  BY DEF Default
<1>2. ConfTypes
  BY <1>1, DefaultTypes, ConfAssumption DEF ConfInit, ConfTypes
<1>3. WrittenFrom(file, saved)
  BY WriteFacts DEF ConfInit
<1>4. ReadSoFar
  BY DEF ConfInit, ReadSoFar
<1> QED BY <1>2, <1>3, <1>4 DEF ConfInv

\* A change leaves the rest alone.
LEMMA ChangeStep ==
  ASSUME ConfInv, NEW new, Change(new), SettingsTypes(new),
         confpc = "running" => new.devices = opts.devices
  PROVE  ConfInv'
<1>1. ConfTypes' /\ ReadSoFar'
  BY DEF ConfInv, ConfTypes, ReadSoFar, Change
<1>2. WrittenFrom(file, saved)'
  BY Zenon DEF ConfInv, WrittenFrom, Change
<1> QED BY <1>1, <1>2 DEF ConfInv

LEMMA OptionStep == ASSUME ConfInv, SetOption PROVE ConfInv'
<1>0. SettingsTypes(opts) /\ confpc = "options"
  BY DEF ConfInv, ConfTypes, SetOption
<1>1. ASSUME NEW o \in DOMAIN Chosen.list, NEW vals \in Chosen.list[o], Change(SetList(opts, o, vals))
      PROVE  ConfInv'
  <2>1. o \in Listed /\ IsSequence(vals)
    BY ConfAssumption
  <2>2. SettingsTypes(SetList(opts, o, vals))
    BY <1>0, <2>1, SetListTypes
  <2> QED BY <1>0, <1>1, <2>2, ChangeStep
<1>2. ASSUME NEW vals \in Chosen.intensity, Change(SetIntensity(opts, vals)) PROVE ConfInv'
  <2>1. IsSequence(vals)
    BY ConfAssumption
  <2> QED BY <1>0, <1>2, <2>1, SetIntensityTypes, ChangeStep
<1>3. ASSUME NEW vals \in Chosen.positive, Change(SetXIntensity(opts, vals)) PROVE ConfInv'
  <2>1. IsSequence(vals)
    BY ConfAssumption
  <2> QED BY <1>0, <1>3, <2>1, SetXIntensityTypes, ChangeStep
<1>4. ASSUME NEW vals \in Chosen.positive, Change(SetRawIntensity(opts, vals)) PROVE ConfInv'
  <2>1. IsSequence(vals)
    BY ConfAssumption
  <2> QED BY <1>0, <1>4, <2>1, SetRawIntensityTypes, ChangeStep
<1>5. ASSUME NEW ranges \in Chosen.ranges, Change(SetDevices(opts, ranges)) PROVE ConfInv'
  BY <1>0, <1>5, SetDevicesTypes, ChangeStep
<1>6. ASSUME NEW st \in Chosen.strategy, Change([opts EXCEPT !.strategy = st]) PROVE ConfInv'
  <2>1. SettingsTypes([opts EXCEPT !.strategy = st])
    BY <1>0 DEF SettingsTypes
  <2> QED BY <1>0, <1>6, <2>1, ChangeStep
<1> QED BY <1>1, <1>2, <1>3, <1>4, <1>5, <1>6, Zenon DEF SetOption

LEMMA OperatorStep == ASSUME ConfInv, OperatorSets PROVE ConfInv'
<1>0. SettingsTypes(opts) /\ DOMAIN opts.intensity = 1 .. Gpus
  BY DEF ConfInv, ConfTypes, SettingsTypes
<1>1. ASSUME NEW g \in 1 .. Gpus, NEW v \in set_intensity \intersect Intensities,
             Change([opts EXCEPT !.intensity[g].dynamic = FALSE, !.intensity[g].i = v])
      PROVE  ConfInv'
  <2> DEFINE new == [opts EXCEPT !.intensity[g].dynamic = FALSE, !.intensity[g].i = v]
  <2>1. SettingsTypes(new) /\ new.devices = opts.devices
    BY <1>0 DEF SettingsTypes, Intensity
  <2> QED BY <1>1, <2>1, ChangeStep
<1>2. ASSUME NEW g \in 1 .. Gpus, Change([opts EXCEPT !.intensity[g].dynamic = TRUE]) PROVE ConfInv'
  <2> DEFINE new == [opts EXCEPT !.intensity[g].dynamic = TRUE]
  <2>1. SettingsTypes(new) /\ new.devices = opts.devices
    BY <1>0 DEF SettingsTypes, Intensity
  <2> QED BY <1>2, <2>1, ChangeStep
<1>3. ASSUME Change([opts EXCEPT !.failonly = ~@]) PROVE ConfInv'
  <2> DEFINE new == [opts EXCEPT !.failonly = ~@]
  <2>1. SettingsTypes(new) /\ new.devices = opts.devices
    BY <1>0 DEF SettingsTypes
  <2> QED BY <1>3, <2>1, ChangeStep
<1> QED BY <1>1, <1>2, <1>3, Zenon DEF OperatorSets

LEMMA AdjustStep ==
  ASSUME ConfInv, NEW g \in 1 .. Gpus, NEW v \in Intensities, Adjust(g, v)
  PROVE  ConfInv'
<1> DEFINE new == [opts EXCEPT !.intensity[g].i = v]
<1>0. SettingsTypes(opts) /\ DOMAIN opts.intensity = 1 .. Gpus
  BY DEF ConfInv, ConfTypes, SettingsTypes
<1>1. SettingsTypes(new) /\ new.devices = opts.devices
  <2>1. v \in set_intensity
    BY ConfAssumption
  <2> QED BY <1>0, <2>1 DEF SettingsTypes, Intensity
<1>2. Change(new)
  BY Zenon DEF Adjust, Change
<1> QED BY <1>1, <1>2, ChangeStep

LEMMA SaveStep == ASSUME ConfInv, Save PROVE ConfInv'
<1>1. ConfTypes' /\ ReadSoFar'
  BY DEF ConfInv, ConfTypes, ReadSoFar, Save
<1>2. WrittenFrom(file, saved)'
  <2>1. file' = write_config(opts) /\ saved' = opts
    BY DEF Save
  <2>2. WrittenFrom(write_config(opts), opts)
    BY WriteFacts
  <2> QED BY <2>1, <2>2, Zenon DEF WrittenFrom
<1> QED BY <1>1, <1>2 DEF ConfInv

LEMMA IncludeStep == ASSUME ConfInv, Include PROVE ConfInv'
<1>1. ConfTypes' /\ ReadSoFar'
  BY DEF ConfInv, ConfTypes, ReadSoFar, Include
<1>2. WrittenFrom(file, saved)'
  <2>1. WrittenFrom(file, saved) /\ file' = [file EXCEPT !.include = TRUE] /\ saved' = saved
    BY DEF ConfInv, Include
  <2>2. ASSUME NEW f, WrittenFrom(f, saved), NEW inc
        PROVE  WrittenFrom([f EXCEPT !.include = inc], saved)
    BY <2>2 DEF WrittenFrom
  <2>3. WrittenFrom([file EXCEPT !.include = TRUE], saved)
    BY <2>1, <2>2, Zenon
  <2> QED BY <2>1, <2>3, Zenon DEF WrittenFrom
<1> QED BY <1>1, <1>2 DEF ConfInv

LEMMA StartSteps ==
  ASSUME ConfInv, StartUp \/ StartAgain \/ LoadDone
  PROVE  ConfInv'
<1>1. ConfTypes'
  BY DefaultTypes, ConfAssumption DEF ConfInv, ConfTypes, StartUp, StartAgain, LoadDone
<1>2. ReadSoFar'
  BY DEF ConfInv, ReadSoFar, StartUp, StartAgain, LoadDone
<1>3. WrittenFrom(file, saved)'
  BY Zenon DEF ConfInv, WrittenFrom, StartUp, StartAgain, LoadDone
<1> QED BY <1>1, <1>2, <1>3 DEF ConfInv

LEMMA LoadStep == ASSUME ConfInv, LoadConfig PROVE ConfInv'
<1>0. /\ confpc = "reading" /\ depth' = depth + 1 /\ file' = file /\ saved' = saved
      /\ ConfTypes /\ ReadSoFar /\ WrittenFrom(file, saved)
  BY DEF ConfInv, LoadConfig
<1>1. JSON_MAX_DEPTH \in Nat \ {0} /\ depth \in 0 .. JSON_MAX_DEPTH
  BY <1>0, ConfAssumption DEF ReadSoFar
<1>2. WrittenFrom(file, saved)'
  BY <1>0, Zenon DEF WrittenFrom
<1>3. CASE depth + 1 > JSON_MAX_DEPTH \/ ~file.parses
  <2>1. confpc' = "loaded" /\ UNCHANGED <<opts, quality>>
    BY <1>3 DEF LoadConfig
  <2>2. ConfTypes'
    BY <1>0, <1>1, <2>1 DEF ConfTypes
  <2>3. Keepable(saved) => Agrees(opts, saved)
    <3>1. CASE depth = 0
      <4>1. ~file.parses
        BY <1>1, <1>3, <3>1
      <4> QED BY <1>0, <4>1, KeepableParses DEF ConfTypes
    <3>2. CASE depth # 0
      BY <1>0, <3>2 DEF ReadSoFar
    <3> QED BY <3>1, <3>2
  <2>4. ReadSoFar'
    BY <1>0, <2>1, <2>3 DEF ReadSoFar
  <2> QED BY <1>2, <2>2, <2>4 DEF ConfInv
<1>4. CASE ~(depth + 1 > JSON_MAX_DEPTH \/ ~file.parses)
  <2>1. /\ opts' = parse_config(opts, file)
        /\ quality' = IF RefusedOption(file) THEN -1 ELSE IF quality = 0 THEN 1 ELSE quality
        /\ confpc' = IF file.include THEN "reading" ELSE "loaded"
    BY <1>4 DEF LoadConfig
  <2>2. SettingsTypes(opts)'
    BY <1>0, <2>1, ParseTypes DEF ConfTypes
  <2>3. ConfTypes'
    BY <1>0, <1>1, <2>1, <2>2 DEF ConfTypes
  <2>4. ASSUME Keepable(saved) PROVE Agrees(opts', saved)
    <3>1. Fresh(opts, saved)
      BY <1>0, <2>4, DefaultIsFresh, AgreeingIsFresh DEF ReadSoFar
    <3> QED BY <1>0, <2>1, <2>4, <3>1, ReadBack DEF ConfTypes
  <2>5. depth' \in 1 .. JSON_MAX_DEPTH
    BY <1>0, <1>1, <1>4
  <2>6. ReadSoFar'
    BY <1>0, <2>1, <2>4, <2>5 DEF ReadSoFar
  <2> QED BY <1>2, <2>3, <2>6 DEF ConfInv
<1> QED BY <1>3, <1>4

LEMMA ConfSteps == ConfInv /\ [ConfNext]_confVars => ConfInv'
<1>1. ConfInv /\ ConfNext => ConfInv'
  BY OptionStep, OperatorStep, AdjustStep, SaveStep, IncludeStep, StartSteps, LoadStep, Zenon DEF ConfNext
<1>2. ASSUME ConfInv, UNCHANGED confVars PROVE ConfInv'
  <2>1. ConfTypes' /\ ReadSoFar'
    BY <1>2 DEF ConfInv, ConfTypes, ReadSoFar, confVars
  <2>2. WrittenFrom(file, saved)'
    BY <1>2, Zenon DEF ConfInv, WrittenFrom, confVars
  <2> QED BY <2>1, <2>2 DEF ConfInv
<1> QED BY <1>1, <1>2

(* The settings write_config has a way to keep are read back as they were. *)
THEOREM SettingsAreReadBack == ConfSpec => []SettingsSurvive
<1>1. ConfInv => SettingsSurvive
  <2> SUFFICES ASSUME ConfInv PROVE SettingsSurvive
    OBVIOUS
  <2>1. ConfTypeOK
    BY DEF ConfInv, ConfTypes, SettingsTypes, ConfTypeOK
  <2>2. confpc = "loaded" /\ Keepable(saved) => Agrees(opts, saved)
    BY DEF ConfInv, ReadSoFar
  <2> QED BY <2>1, <2>2, Zenon DEF SettingsSurvive, Agrees
<1> QED BY <1>1, ConfInitially, ConfSteps, PTL DEF ConfSpec
========================================================================
