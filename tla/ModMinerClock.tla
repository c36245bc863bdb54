--------------------------- MODULE ModMinerClock ---------------------------
(***************************************************************************)
(* The clock of a ModMiner FPGA (driver-modminer.c): modminer_scanhash     *)
(* sends a work and polls for its nonces; good and bad shares, the         *)
(* temperature and silence move the clock up and down through              *)
(* modminer_delta_clock, which the API thread calls too, with no lock      *)
(* around the clock it reads, tests and changes.                           *)
(*                                                                         *)
(* Clocks are in steps of 2 MHz.  The time that passes decides only when a *)
(* work ends and when an FPGA counts as dead.                              *)
(***************************************************************************)
EXTENDS Integers

CONSTANTS MinClock, DefClock, MaxClock,   \* MODMINER_MIN_CLOCK, ...
          CutoffDrop, DeadDrop,           \* MODMINER_CLOCK_CUTOFF, MODMINER_CLOCK_DEAD
          EarlyUp, MinBack, TryUp,        \* bounds of shares_to_good
          ErrorPercent,                   \* MODMINER_HW_ERROR_PERCENT
          Targets,                        \* clocks the operator sets
          MaxShares, MaxOrders            \* bounds

ASSUME ClockAssumption ==
  /\ {MinClock, DefClock, MaxClock, CutoffDrop, DeadDrop, EarlyUp, MinBack, TryUp, ErrorPercent,
      MaxShares, MaxOrders} \subseteq Nat
  /\ MinClock <= DefClock /\ DefClock <= MaxClock /\ Targets \subseteq Int
  /\ {EarlyUp, MinBack} \subseteq 1..TryUp

VARIABLES clock,     \* modminer->clock
          state,     \* struct modminer_fpga_state
          temp,      \* what the sensor last said
          miner,     \* the mining thread: step and the change it is about to make
          api,       \* the API thread: step and change
          clock_seen \* what happened: good nonces since the last error, whether one of them was
                     \* taken twice, a race, orders

clockVars == <<clock, state, temp, miner, api, clock_seen>>

Temps == {"cool", "warm", "hot", "cutoff"}   \* below 46.5, 50, 60, above
NonceKinds == {"none", "good", "bad"}        \* 0xffffffff, a share, a hardware error
ClockUp == 1
ClockDown == 0 - 1

\* Type invariant of the FPGA's state and the two threads that change it.
ClockTypeOK ==
  /\ clock \in Int
  /\ state \in [shares: 0..MaxShares, shares_last_hw: 0..MaxShares, hw_errors: 0..MaxShares,
                shares_to_good: 1..TryUp, new_work: BOOLEAN, overheated: BOOLEAN,
                early: BOOLEAN, death_stage_one: BOOLEAN, nonce: NonceKinds]
  /\ temp \in Temps
  /\ miner \in [step: {"scan", "results", "poll", "adding", "dead"}, delta: Int]
  /\ api \in [step: {"idle", "test", "adding"}, delta: Int]
  /\ clock_seen \in [run: 0..MaxShares, twice: BOOLEAN, raced: BOOLEAN, orders: 0..MaxOrders]

ClockInit ==
  /\ clock = DefClock
  /\ state = [shares |-> 0, shares_last_hw |-> 0, hw_errors |-> 0, shares_to_good |-> EarlyUp,
              new_work |-> FALSE, overheated |-> FALSE, early |-> TRUE,
              death_stage_one |-> FALSE, nonce |-> "none"]
  /\ temp = "cool"
  /\ miner = [step |-> "scan", delta |-> 0]
  /\ api = [step |-> "idle", delta |-> 0]
  /\ clock_seen = [run |-> 0, twice |-> FALSE, raced |-> FALSE, orders |-> 0]

----------------------------------------------------------------------------
(* modminer_delta_clock *)

\* The change is tested against the clock as it is, not as it will be.
TooFarNow(delta) ==
  \/ (delta < 0 /\ clock < MinClock)
  \/ (delta > 0 /\ clock > MaxClock)

TooFar(delta) ==
  \/ (delta < 0 /\ clock + delta < MinClock)
  \/ (delta > 0 /\ clock + delta > MaxClock)

\* The counters start again, even if the clock cannot move that far.
Counted(s) == [s EXCEPT !.new_work = FALSE, !.shares = 0, !.shares_last_hw = 0, !.hw_errors = 0]

\* How many good shares the next step up will take.
ToGood(s, delta, hot) ==
  IF delta >= 0 THEN s.shares_to_good
  ELSE IF hot THEN MinBack
  ELSE IF s.shares_to_good * 2 < TryUp THEN s.shares_to_good * 2 ELSE TryUp

\* The first half: only once for a work unless it is forced.
Tested(s, delta, hot, force) ==
  IF ~s.new_work /\ ~force THEN s
  ELSE IF TooFar(delta) THEN Counted(s)
  ELSE [Counted(s) EXCEPT !.shares_to_good = ToGood(s, delta, hot)]

Changes(s, delta, force) == (s.new_work \/ force) /\ ~TooFar(delta)

\* The mining thread tests a change; it makes it in its next step.
MinerDelta(s, delta, hot, force) ==
  /\ state' = Tested(s, delta, hot, force)
  /\ miner' = IF Changes(s, delta, force)
              THEN [step |-> "adding", delta |-> delta] ELSE [miner EXCEPT !.step = "poll"]

\* clock += delta, and the command to the FPGA.  What another thread changed
\* since the test is not looked at again.
AddMiner ==
  /\ miner.step = "adding"
  /\ clock' = clock + miner.delta
  /\ miner' = [step |-> "poll", delta |-> 0]
  /\ clock_seen' = [clock_seen EXCEPT !.raced = @ \/ api.step = "adding"]
  /\ UNCHANGED <<state, temp, api>>

----------------------------------------------------------------------------
(* The API: pgaset|N,clock,V *)

\* modminer_set_device: the change is the difference to the clock as it is now.
SetDevice ==
  /\ api.step = "idle"
  /\ clock_seen.orders < MaxOrders
  /\ \E v \in Targets : api' = [step |-> "test", delta |-> v - clock]
  /\ clock_seen' = [clock_seen EXCEPT !.orders = @ + 1]
  /\ UNCHANGED <<clock, state, temp, miner>>

TestApi ==
  /\ api.step = "test"
  /\ state' = Tested(state, api.delta, FALSE, TRUE)
  /\ api' = IF Changes(state, api.delta, TRUE)
            THEN [api EXCEPT !.step = "adding"] ELSE [step |-> "idle", delta |-> 0]
  /\ UNCHANGED <<clock, temp, miner, clock_seen>>

AddApi ==
  /\ api.step = "adding"
  /\ clock' = clock + api.delta
  /\ api' = [step |-> "idle", delta |-> 0]
  /\ clock_seen' = [clock_seen EXCEPT !.raced = @ \/ miner.step = "adding"]
  /\ UNCHANGED <<state, temp, miner>>

----------------------------------------------------------------------------
(* The mining thread *)

\* check_temperature with what the sensor says now; a sensor that does not
\* answer changes nothing.
Heated(s, t) ==
  IF s.overheated THEN [s EXCEPT !.overheated = (t # "cool")]
  ELSE [s EXCEPT !.overheated = (t \in {"hot", "cutoff"})]

CutsOff(s, t) == ~s.overheated /\ t = "cutoff"

\* modminer_scanhash: no new work while the FPGA is too hot; otherwise it is
\* sent, and may fail.
Scan ==
  /\ miner.step = "scan"
  /\ IF state.overheated
     THEN \E t \in Temps :
            /\ temp' = t
            /\ state' = Heated(state, t)
            /\ UNCHANGED miner
     ELSE /\ UNCHANGED temp
          /\ \/ /\ state' = [state EXCEPT !.new_work = TRUE]
                /\ miner' = [miner EXCEPT !.step = "results"]
             \/ /\ miner' = [miner EXCEPT !.step = "dead"]
                /\ UNCHANGED state
  /\ UNCHANGED <<clock, api, clock_seen>>

\* The temperature is read before the polling begins, when the variable for the
\* nonces is not initialised, and, while the FPGA is too hot, now and then later.
Temperature ==
  /\ miner.step = "results" \/ (miner.step = "poll" /\ state.overheated)
  /\ \E t \in Temps, n \in IF miner.step = "results" THEN NonceKinds ELSE {state.nonce} :
       LET s == [state EXCEPT !.nonce = n]
       IN  /\ temp' = t
           /\ IF CutsOff(s, t)
              THEN MinerDelta(Heated(s, t), 0 - CutoffDrop, TRUE, FALSE)
              ELSE state' = Heated(s, t) /\ miner' = [miner EXCEPT !.step = "poll"]
  /\ UNCHANGED <<clock, api, clock_seen>>

\* The errors of the first seconds are forgotten.
EarlyError ==
  /\ state.early
  /\ state' = [Counted(state) EXCEPT !.new_work = state.new_work, !.nonce = "bad"]
  /\ clock_seen' = [clock_seen EXCEPT !.run = 0, !.twice = FALSE]
  /\ UNCHANGED miner

TooManyErrors(s) ==
  /\ clock > DefClock \/ s.hw_errors > 1
  /\ s.hw_errors * 100 >= ErrorPercent * s.shares

\* An error that leaves the shares before it in the count.
ErrorKeepsRun ==
  /\ ~state.early
  /\ LET s == [state EXCEPT !.shares = @ + 1, !.hw_errors = @ + 1, !.nonce = "bad"]
     IN  IF TooManyErrors(s)
         THEN MinerDelta([s EXCEPT !.shares_last_hw = s.shares], ClockDown, FALSE, FALSE)
         ELSE state' = s /\ UNCHANGED miner
  /\ clock_seen' = [clock_seen EXCEPT !.run = 0, !.twice = FALSE]

LaterError ==
  /\ ~state.early
  /\ LET s == [state EXCEPT !.shares = @ + 1, !.hw_errors = @ + 1, !.nonce = "bad",
                            !.shares_last_hw = state.shares + 1]
     IN  IF TooManyErrors(s)
         THEN MinerDelta(s, ClockDown, FALSE, FALSE)
         ELSE state' = s /\ UNCHANGED miner
  /\ clock_seen' = [clock_seen EXCEPT !.run = 0, !.twice = FALSE]

\* A good share, or the one before again: enough of them in a row and the clock
\* goes up.
GoodShare(again) ==
  LET s == [state EXCEPT !.shares = @ + 1, !.death_stage_one = FALSE, !.nonce = "good"]
  IN  /\ IF s.shares - s.shares_last_hw >= s.shares_to_good /\ temp = "cool"
         THEN MinerDelta(s, ClockUp, FALSE, FALSE)
         ELSE state' = s /\ UNCHANGED miner
      /\ clock_seen' = [clock_seen EXCEPT !.run = IF ~again /\ @ < MaxShares THEN @ + 1 ELSE @,
                                          !.twice = @ \/ again]

\* modminer_process_results: a nonce came, or the answer that there is none.
NonceCame ==
  /\ miner.step = "poll"
  /\ state.shares < MaxShares
  /\ EarlyError \/ LaterError \/ GoodShare(FALSE)
  /\ UNCHANGED <<clock, temp, api>>

NoNonce ==
  /\ miner.step = "poll"
  /\ state' = [state EXCEPT !.nonce = "none"]
  /\ UNCHANGED <<clock, temp, miner, api, clock_seen>>

\* The read failed, other than by a timeout: what is in the variable from before,
\* or a part of it with a part of what came, is taken for a nonce.
ResultsFail ==
  /\ miner.step = "poll"
  /\ state.shares < MaxShares
  /\ EarlyError \/ LaterError \/ (state.nonce = "good" /\ GoodShare(TRUE))
  /\ UNCHANGED <<clock, temp, api>>

\* No nonce for ITS_DEAD_JIM seconds, or twice that: the clock goes down a lot;
\* the second time the FPGA is given up.
Death ==
  /\ miner.step = "poll"
  /\ IF state.death_stage_one
     THEN /\ state' = [Tested(state, 0 - DeadDrop, FALSE, TRUE) EXCEPT !.death_stage_one = FALSE,
                                                                       !.nonce = "none"]
          /\ clock' = IF TooFar(0 - DeadDrop) THEN clock ELSE clock - DeadDrop
          /\ miner' = [miner EXCEPT !.step = "dead"]
          /\ clock_seen' = [clock_seen EXCEPT !.raced = @ \/ api.step = "adding"]
     ELSE /\ MinerDelta([state EXCEPT !.death_stage_one = TRUE, !.nonce = "none"],
                        0 - DeadDrop, FALSE, TRUE)
          /\ UNCHANGED <<clock, clock_seen>>
  /\ UNCHANGED <<temp, api>>

\* The time is up, the work is to be restarted, or a command could not be sent.
WorkEnds ==
  /\ miner.step = "poll"
  /\ miner' = [miner EXCEPT !.step = "scan"]
  /\ state' \in {state, [state EXCEPT !.early = FALSE]}
  /\ UNCHANGED <<clock, temp, api, clock_seen>>

SendFails ==
  /\ miner.step = "poll"
  /\ miner' = [miner EXCEPT !.step = "dead"]
  /\ UNCHANGED <<clock, state, temp, api, clock_seen>>

ClockNext ==
  \/ AddMiner \/ SetDevice \/ TestApi \/ AddApi
  \/ Scan \/ Temperature \/ NonceCame \/ NoNonce \/ ResultsFail \/ Death \/ WorkEnds \/ SendFails

ClockSpec == ClockInit /\ [][ClockNext]_clockVars

----------------------------------------------------------------------------

\* "If device gets shares_to_good good shares in a row": the driver speeds the
\* FPGA up only when so many nonces came since the last bad one - unless a
\* read that failed since then made it take one of them twice.
ClockUpEarned ==
  [][miner.step = "poll" /\ miner'.step = "adding" /\ miner'.delta > 0 /\ ~clock_seen'.twice
       => clock_seen'.run >= state.shares_to_good]_clockVars

\* The clock stays between MODMINER_MIN_CLOCK and MODMINER_MAX_CLOCK, unless the
\* API set it while the driver was changing it.
ClockInRange == ~clock_seen.raced => clock \in MinClock..MaxClock

\* The range the API answers with is kept whatever the threads do.
ClockAlwaysInRange == clock \in MinClock..MaxClock
=============================================================================
