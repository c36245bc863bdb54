---------------------------- MODULE IcarusTiming ----------------------------
(***************************************************************************)
(* How long the Icarus driver lets its device search.  The device does not *)
(* say when it has tried all nonces: icarus_scanhash gives up a little     *)
(* before, after read_time.  In the timing modes short and long it         *)
(* measures how long the device takes, in sets of ever more nonces, and    *)
(* estimates read_time anew from the last sets whenever one is complete.   *)
(*                                                                         *)
(* The 2^32 nonces of a work are the numbers 0..Nonces-1; the line of best *)
(* fit, of measured times, may give any read_time.                         *)
(***************************************************************************)
EXTENDS Integers, Sequences, FiniteSetsExt

CONSTANTS Nonces, END_CONDITION,
          Found,        \* the nonces the device finds
          INFO_HISTORY, MIN_DATA_COUNT, MAX_MIN_DATA_COUNT, HISTORY_SEC,
          ICARUS_READ_COUNT_TIMING, ICARUS_READ_COUNT_MIN,
          OptionItems,  \* what --icarus-options may hold for a device
          TimingItems,  \* what --icarus-timing may hold for one
          Offsets,      \* numbers of devices looked at before
          ReadTimes,    \* the estimates
          MaxSets, MaxClock0  \* bounds: sets completed (and the nonces of one); the time

ASSUME IcarusTimingAssumption ==
    /\ {Nonces, INFO_HISTORY, MIN_DATA_COUNT, MAX_MIN_DATA_COUNT, HISTORY_SEC} \subseteq Nat \ {0}
    /\ {END_CONDITION, ICARUS_READ_COUNT_TIMING, ICARUS_READ_COUNT_MIN, MaxSets,
        MaxClock0} \subseteq Nat
    /\ Nonces % 8 = 0 /\ Found \subseteq Nat /\ Offsets \subseteq Nat /\ ReadTimes \subseteq Int
    /\ OptionItems \subseteq Seq([division : Nat, fpgas : Nat]) \ {<<>>}
    /\ TimingItems \subseteq
         Seq([mode : {"default", "short", "long", "value"}, time : Nat]) \ {<<>>}

VARIABLES
    tm_mode,      \* "none" before the device is set up, "quit", or the timing mode
    options,      \* work_division and fpga_count
    tm_read_time,
    do_icarus_timing,
    history,      \* history[i]: values, least and most hashes, and history[0]'s end
    min_data_count,
    summary,      \* count, values and hash_count_range of the last estimate
    clock0,       \* the time, since the current set began
    sets          \* history: the sets completed so far

measured == <<tm_read_time, do_icarus_timing, history, min_data_count, summary, sets>>
timingVars == <<tm_mode, options, measured, clock0>>

NoData == [values |-> 0, least |-> 0, most |-> 0]
NoSummary == [count |-> 0, values |-> 0, range |-> 0]

TimingTypeOK ==
    /\ tm_mode \in {"none", "quit", "default", "short", "long", "value"}
    /\ min_data_count \in Nat /\ do_icarus_timing \in BOOLEAN
    /\ DOMAIN history = 0..INFO_HISTORY

TimingInit ==
    /\ tm_mode = "none" /\ options = [division |-> 1, fpgas |-> 1]
    /\ tm_read_time = 0 /\ do_icarus_timing = FALSE
    /\ history = [i \in 0..INFO_HISTORY |-> NoData]
    /\ min_data_count = MIN_DATA_COUNT /\ summary = NoSummary
    /\ clock0 = 0 /\ sets = <<>>

-----------------------------------------------------------------------------
(* The devices' items are separated by commas; the last is for all others. *)
Item(items, offset) == items[IF offset + 1 <= Len(items) THEN offset + 1 ELSE Len(items)]

(* get_options: the division, then the number of FPGAs; what is missing is *)
(* the device's own or that of the division, what is wrong ends the        *)
(* program.                                                                *)
Own(ident) == IF ident = "AMU" THEN [division |-> 1, fpgas |-> 1] ELSE [division |-> 2, fpgas |-> 2]
get_options(item, ident) ==
    LET division == IF item.division = 0 THEN Own(ident).division ELSE item.division
    IN  [division |-> division,
         fpgas |-> IF item.fpgas # 0 THEN item.fpgas
                   ELSE IF item.division = 0 THEN Own(ident).fpgas ELSE division]
Wrong(item, ident) ==
    \/ item.division \notin {0, 1, 2, 4, 8}
    \/ item.fpgas \notin 0..get_options(item, ident).division

(* set_timing_mode *)
AtLeastMin(t) == IF t < ICARUS_READ_COUNT_MIN THEN ICARUS_READ_COUNT_MIN ELSE t
FirstReadTime(item, calculated) ==
    IF item.mode \in {"short", "long"} THEN ICARUS_READ_COUNT_TIMING
    ELSE IF item.time >= ICARUS_READ_COUNT_MIN THEN item.time
    ELSE AtLeastMin(calculated)

SetUp(ident, offset) ==
    /\ tm_mode = "none"
    /\ \E opts \in OptionItems, times \in TimingItems :
         LET o == Item(opts, offset)
             t == Item(times, offset)
         IN  IF Wrong(o, ident)
             THEN tm_mode' = "quit" /\ UNCHANGED <<options, tm_read_time, do_icarus_timing>>
             ELSE /\ options' = get_options(o, ident)
                  /\ tm_mode' = t.mode
                  /\ \E calculated \in ReadTimes : tm_read_time' = FirstReadTime(t, calculated)
                  /\ do_icarus_timing' = (t.mode \in {"short", "long"})
    /\ UNCHANGED <<history, min_data_count, summary, sets, clock0>>

-----------------------------------------------------------------------------
(* icarus_scanhash, when it got a nonce *)

mask == Nonces \div options.division - 1
HashCount(nonce) == ((nonce % (mask + 1)) + 1) * options.fpgas

(* Not the first ones, nor the last.                                       *)
Timed(nonce) ==
    LET n == nonce % (mask + 1)
    IN  do_icarus_timing /\ n > END_CONDITION /\ n < mask - END_CONDITION

With(set, n) ==
    [values |-> set.values + 1,
     least |-> IF set.least > n \/ set.least = 0 THEN n ELSE set.least,
     most |-> IF set.most < n THEN n ELSE set.most]

(* Each set moves one place; the oldest falls out.                         *)
Shifted(h, set) == [i \in 0..INFO_HISTORY |->
    CASE i = 0 -> NoData [] i = 1 -> set [] OTHER -> h[i - 1]]

Summary(h) ==
    LET full == {i \in 1..INFO_HISTORY : h[i].values >= MIN_DATA_COUNT}
    IN  [count |-> Cardinality(full),
         values |-> MapThenSumSet(LAMBDA i : h[i].values, full),
         range |-> Max({h[i].most : i \in full}) - Min({h[i].least : i \in full})]

Reestimate(set) ==
    LET h == Shifted(history, set)
    IN  /\ history' = h
        /\ summary' = Summary(h)
        /\ tm_read_time' \in ReadTimes
        /\ sets' = Append(sets, set) /\ Len(sets) < MaxSets
        /\ IF min_data_count < MAX_MIN_DATA_COUNT
           THEN min_data_count' = min_data_count * 2 /\ UNCHANGED do_icarus_timing
           ELSE /\ do_icarus_timing' = (do_icarus_timing /\ tm_mode # "short")
                /\ UNCHANGED min_data_count

(* The device found a nonce; the search began t after the set did.  One    *)
(* that is an error of the hardware is timed like any other: was_hw_error  *)
(* asks for their number to have become smaller.                           *)
NonceFound(nonce, t) ==
    /\ tm_mode \notin {"none", "quit"}
    /\ t >= clock0
    /\ Timed(nonce)
    /\ LET set == With(history[0], HashCount(nonce))
           start == IF history[0].values = 0 THEN 0 ELSE t
       IN  IF set.values >= min_data_count /\ start > HISTORY_SEC
           THEN Reestimate(set) /\ clock0' = 0
           ELSE /\ history' = [history EXCEPT ![0] = set]
                /\ clock0' = start
                /\ UNCHANGED <<tm_read_time, do_icarus_timing, min_data_count, summary, sets>>
    /\ UNCHANGED <<tm_mode, options>>

TimingNext ==
    \/ \E ident \in {"ICA", "AMU"}, offset \in Offsets : SetUp(ident, offset)
    \/ \E nonce \in Found, t \in 0..MaxClock0 :
          history[0].values <= MAX_MIN_DATA_COUNT /\ NonceFound(nonce, t)

TimingSpec == TimingInit /\ [][TimingNext]_timingVars

-----------------------------------------------------------------------------
(* "Re-estimate": the summary is that of the last INFO_HISTORY sets, none  *)
(* of them twice and none left out, whatever the order of the shifts.      *)
LastSets == {i \in DOMAIN sets : i > Len(sets) - INFO_HISTORY}
SummaryOfLast ==
    sets # <<>> =>
        /\ summary.count = Cardinality(LastSets)
        /\ summary.values = MapThenSumSet(LAMBDA i : sets[i].values, LastSets)
        /\ summary.range = Max({sets[i].most : i \in LastSets}) - Min({sets[i].least : i \in LastSets})

(* Each set an estimate is made from has twice the nonces of the one       *)
(* before, until there are enough of them; then mode short keeps what it   *)
(* has.                                                                    *)
SetsGrow ==
    /\ \A i \in DOMAIN sets :
         sets[i].values >= IF i = 1 THEN MIN_DATA_COUNT
                           ELSE Min({2 * MIN_DATA_COUNT, MAX_MIN_DATA_COUNT})
    /\ tm_mode = "short" /\ ~do_icarus_timing => min_data_count >= MAX_MIN_DATA_COUNT
ShortSettles ==
    [][tm_mode = "short" /\ min_data_count >= MAX_MIN_DATA_COUNT /\ tm_read_time' # tm_read_time
         => ~do_icarus_timing']_timingVars

(* The hashes reported for a nonce are never more than there are nonces.   *)
CountsInRange ==
    tm_mode \notin {"none", "quit"} => \A nonce \in 0..(Nonces - 1) : HashCount(nonce) <= Nonces
=============================================================================
