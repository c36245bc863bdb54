----------------------------- MODULE AdlControl -----------------------------
(***************************************************************************)
(* adl.c: which card of AMD's display library a GPU is monitored through,  *)
(* and the automatic control of its fan and its engine clock.  init_adl    *)
(* runs once, the watchdog calls gpu_autotune for one GPU after the other, *)
(* the API and the console set fans and clocks at any time, and clear_adl  *)
(* puts everything back when the program ends.  Two GPUs of one card are   *)
(* twins: one of them has the fan.                                         *)
(*                                                                         *)
(* Temperatures are what the sensor gives, -1 when it cannot be read; a    *)
(* clock is a number of steps of sEngineClock.iStep.  Memory clock,        *)
(* voltage and powertune are set like the engine clock and nothing is      *)
(* decided by them: they are left out.                                     *)
(***************************************************************************)
EXTENDS Integers, Sequences, SequencesExt, FiniteSets, FiniteSetsExt

CONSTANTS
    NumGpus,        \* nDevs
    Listings,       \* what ADL_Adapter_AdapterInfo_Get may list: sequences of
                    \* [id, bus, fan]; a card is listed once for each display
    GpuMaps,        \* --gpu-map: functions from some GPUs to ADL devices
    Deselected,     \* the GPUs --device leaves out
    Reorder,        \* --gpu-reorder
    opt_restart,    \* --no-restart clears it
    Automatic,      \* sets of {"fan", "engine"}: --auto-fan, --auto-gpu
    Temps,          \* temperatures
    targettemp, overtemp, cutofftemp, opt_hysteresis,
    gpu_fan, min_fan,                   \* the range of the automatic fan
    DefaultFan, FanStep,                \* the card's own fan speed and resolution
    gpu_engine, min_engine,             \* --gpu-engine; 0 is not given
    DefaultClock, IdleClock,            \* the card's own clocks
    FanOrders, ClockOrders, MaxOrders,  \* what the operator may ask for, how often
    NoGpu, NoTuning

VARIABLES
    real,           \* adapters[]: the cards, in ADL's order
    gpumap,
    adl_active, adapter,                \* per GPU: the card, or 0 without has_adl
    twin, has_fanspeed, deven,
    ga,             \* per GPU: the settings of struct gpu_adl
    fan, clock, temp, idle,             \* per card: the hardware
    tuning,         \* gpu_autotune's local variables, between its two locks
    orders

adlHardware == <<fan, clock, temp, idle>>
adlVars == <<real, gpumap, adl_active, adapter, twin, has_fanspeed, deven, ga,
             fan, clock, temp, idle, tuning, orders>>

Gpus == 0..(NumGpus - 1)
iMaxPercent == 100

(* What struct gpu_adl keeps, and what gpu_autotune reads at first.        *)
Settings == [targetfan : 0..iMaxPercent, lastengine : Int, lasttemp : Int,
             maxspeed : Int, minspeed : Int,
             managed : BOOLEAN, autofan : BOOLEAN, autoengine : BOOLEAN]
Readings == [gpu : Gpus, temp : Int, fanpercent : Int, twintemp : Int]
Card == [id : Int, bus : Int, fan : BOOLEAN]

(* The range of the clock of a GPU at the beginning.                       *)
FirstMax == IF gpu_engine # 0 THEN gpu_engine ELSE DefaultClock
FirstMin == IF gpu_engine # 0 /\ min_engine # 0 THEN min_engine ELSE DefaultClock

AdlTypeOK ==
    /\ real \in Seq(Card)
    /\ adapter \in [Gpus -> 0..Len(real)]
    /\ twin \in [Gpus -> Gpus \union {NoGpu}]
    /\ has_fanspeed \in [Gpus -> BOOLEAN] /\ adl_active \in BOOLEAN
    /\ deven \in [Gpus -> {"enabled", "disabled", "recover"}]
    /\ ga \in [Gpus -> Settings]
    /\ FirstMin <= FirstMax => \A g \in Gpus : ga[g].minspeed <= ga[g].maxspeed
    /\ fan \in [DOMAIN real -> 0..iMaxPercent]
    /\ clock \in [DOMAIN real -> Int] /\ temp \in [DOMAIN real -> Int]
    /\ idle \in [DOMAIN real -> BOOLEAN]
    /\ tuning \in Readings \union {NoTuning}
    /\ orders \in 0..MaxOrders

-----------------------------------------------------------------------------
(* init_adl: which adapter is whose *)

(* The first of each run of entries with one adapter id.                   *)
RealAdapters(listing) ==
    FoldLeft(LAMBDA cards, a : IF cards # <<>> /\ Last(cards).id = a.id
                               THEN cards ELSE Append(cards, a), <<>>, listing)

VirtualAdl(m, g) == IF g \in DOMAIN m THEN m[g] ELSE g

(* The place of card i when the cards are ordered by decreasing bus.       *)
BusRank(cards, i) == Cardinality({j \in DOMAIN cards : cards[j].bus > cards[i].bus})

(* vadapters[v].id, counted from 1.  Cards are put in the order of their   *)
(* buses when asked to and their number is the number of GPUs.             *)
Vadapter(cards, v) ==
    LET moved == {i \in DOMAIN cards : BusRank(cards, i) = v /\ i # v + 1}
    IN  IF Reorder /\ Len(cards) = NumGpus /\ moved # {} THEN Max(moved) ELSE v + 1

(* The GPUs that are set up: as many as there are cards, from the first    *)
(* on, without those that are disabled.                                    *)
SetUp(cards, g) == g < Len(cards) /\ g \notin Deselected
AdapterOf(cards, m, g) == IF SetUp(cards, g) THEN Vadapter(cards, VirtualAdl(m, g)) ELSE 0

(* fanspeed_twin, and the loop that pairs.  A later pair replaces it.      *)
fanspeed_twin(cards, g, h) ==
    /\ g # 0 /\ h # 0
    /\ ~cards[g].fan /\ cards[h].fan
    /\ cards[g].bus - cards[h].bus \in {1, -1}

TwinOf(cards, of, g) ==
    LET pairs == {h \in Gpus : \/ fanspeed_twin(cards, of[g], of[h])
                               \/ fanspeed_twin(cards, of[h], of[g])}
    IN  IF pairs = {} THEN NoGpu ELSE Max(pairs)

(* The fan a card is left at at first: --gpu-fan, then the nominal 50 % of *)
(* the automatic control within its range.                                 *)
Nominal == Max({min_fan, Min({50, gpu_fan})})
Shown(percent) == (percent \div FanStep) * FanStep

AdlInit ==
    /\ \E l \in Listings : real = RealAdapters(l)
    /\ gpumap \in GpuMaps
    /\ adapter = [g \in Gpus |-> AdapterOf(real, gpumap, g)]
    /\ twin = [g \in Gpus |-> TwinOf(real, adapter, g)]
    /\ has_fanspeed = [g \in Gpus |-> adapter[g] # 0 /\ real[adapter[g]].fan]
    /\ adl_active = (\E g \in Gpus : adapter[g] # 0)
    /\ deven = [g \in Gpus |-> IF g \in Deselected THEN "disabled" ELSE "enabled"]
    /\ \E auto \in Automatic :
          /\ ga = [g \in Gpus |->
                [targetfan |-> IF has_fanspeed[g] /\ "fan" \in auto THEN Nominal ELSE 0,
                 lastengine |-> 0, lasttemp |-> Min(Temps \ {-1}),
                 maxspeed |-> FirstMax, minspeed |-> FirstMin,
                 managed |-> \/ gpu_engine # 0 \/ "engine" \in auto
                             \/ has_fanspeed[g] /\ "fan" \in auto,
                 autofan |-> "fan" \in auto, autoengine |-> "engine" \in auto]]
          /\ fan = [c \in DOMAIN real |->
                IF "fan" \in auto /\ \E g \in Gpus : adapter[g] = c /\ has_fanspeed[g]
                THEN Shown(Nominal) ELSE DefaultFan]
    /\ clock = [c \in DOMAIN real |-> IF gpu_engine # 0 /\ \E g \in Gpus : adapter[g] = c
                                      THEN gpu_engine ELSE DefaultClock]
    /\ temp = [c \in DOMAIN real |-> Min(Temps \ {-1})]
    /\ idle = [c \in DOMAIN real |-> FALSE]
    /\ tuning = NoTuning /\ orders = 0

(* What ADL lists are cards, one run of entries for each; --gpu-map names  *)
(* some of them; a temperature can be read when init_adl runs.             *)
ASSUME AdlAssumption ==
    /\ NumGpus \in Nat /\ NoGpu \notin Gpus /\ NoTuning \notin Readings
    /\ \A l \in Listings :
          /\ RealAdapters(l) \in Seq(Card)
          /\ \A m \in GpuMaps : \A g \in DOMAIN m : m[g] \in 0..Len(RealAdapters(l)) - 1
    /\ Reorder \in BOOLEAN /\ opt_restart \in BOOLEAN
    /\ Automatic \subseteq SUBSET {"fan", "engine"}
    /\ Temps \subseteq Nat \union {-1} /\ Temps \ {-1} # {}
    /\ targettemp \in Int /\ overtemp \in Int /\ cutofftemp \in Int /\ opt_hysteresis \in Int
    /\ gpu_fan \in 0..iMaxPercent /\ min_fan \in 0..iMaxPercent
    /\ DefaultFan \in 0..iMaxPercent /\ FanStep \in Nat \ {0}
    /\ gpu_engine \in Int /\ min_engine \in Int /\ DefaultClock \in Int /\ IdleClock \in Int
    /\ FanOrders \subseteq 0..iMaxPercent /\ ClockOrders \subseteq Int /\ MaxOrders \in Nat

-----------------------------------------------------------------------------
(* The hardware.  Sense alone reads the temperature and Tune alone the     *)
(* clock: what changes between the two may as well have changed before.    *)

TempChanges(c, t) ==
    /\ tuning = NoTuning /\ adl_active
    /\ temp[c] # t
    /\ temp' = [temp EXCEPT ![c] = t]
    /\ UNCHANGED <<real, gpumap, adl_active, adapter, twin, has_fanspeed, deven, ga,
                   fan, clock, idle, tuning, orders>>

(* A card without work falls back to a lower profile.                      *)
IdleChanges(c) ==
    /\ tuning = NoTuning /\ adl_active
    /\ idle' = [idle EXCEPT ![c] = ~@]
    /\ UNCHANGED <<real, gpumap, adl_active, adapter, twin, has_fanspeed, deven, ga,
                   fan, clock, temp, tuning, orders>>

EngineClock(g) == IF ~adl_active THEN -1
                  ELSE IF idle[adapter[g]] THEN IdleClock ELSE clock[adapter[g]]

-----------------------------------------------------------------------------
(* Setting a fan or a clock: the settings, the fans and the clocks of      *)
(* which the caller makes the next state.                                  *)

FanUnmanaged(settings, g, percent) ==
    IF adl_active /\ real[adapter[g]].fan
    THEN [settings EXCEPT ![g].targetfan = percent] ELSE settings

(* set_fanspeed: targetfan remembers what was asked for, because the card  *)
(* may only know coarser speeds.                                           *)
FanAsked(settings, g, percent) ==
    IF adl_active /\ real[adapter[g]].fan
    THEN [settings EXCEPT ![g].targetfan = percent, ![g].managed = TRUE] ELSE settings

FansAt(fans, g, percent) ==
    IF adl_active /\ real[adapter[g]].fan
    THEN [fans EXCEPT ![adapter[g]] = Shown(percent)] ELSE fans

(* set_engineclock: a speed beyond the range widens it.                    *)
ClockAsked(settings, g, speed) ==
    IF adl_active
    THEN [settings EXCEPT ![g].lastengine = speed, ![g].managed = TRUE,
                          ![g].maxspeed = Max({@, speed}), ![g].minspeed = Min({@, speed})]
    ELSE settings

ClocksAt(clocks, g, speed) ==
    IF adl_active THEN [clocks EXCEPT ![adapter[g]] = speed] ELSE clocks

-----------------------------------------------------------------------------
(* The watchdog *)

FanPercent(g) ==
    LET f == IF ~has_fanspeed[g] /\ twin[g] # NoGpu THEN twin[g] ELSE g
    IN  IF real[adapter[f]].fan THEN fan[adapter[f]] ELSE -1

(* The first critical section of gpu_autotune.                             *)
Sense(g) ==
    /\ tuning = NoTuning /\ adl_active /\ adapter[g] # 0
    /\ tuning' = [gpu |-> g, temp |-> temp[adapter[g]], fanpercent |-> FanPercent(g),
                  twintemp |-> IF twin[g] = NoGpu THEN 0 ELSE temp[adapter[twin[g]]]]
    /\ UNCHANGED <<real, gpumap, adl_active, adapter, twin, has_fanspeed, deven, ga, orders>>
    /\ UNCHANGED adlHardware

(* C's division rounds to zero.                                            *)
Fifth(n) == IF n < 0 THEN -((-n) \div 5) ELSE n \div 5

(* fan_autotune: the new speed, within the card's range.                   *)
NewPercent(g, t, fanpercent, lasttemp) ==
    LET tdiff == t - lasttemp
        asked == ga[g].targetfan
        new ==
            IF t > overtemp /\ fanpercent < iMaxPercent THEN iMaxPercent
            ELSE IF t > targettemp /\ fanpercent < gpu_fan /\ tdiff >= 0
                 THEN Min({gpu_fan, asked + IF t > targettemp + opt_hysteresis THEN 10 ELSE 5})
            ELSE IF fanpercent > min_fan /\ t < targettemp - opt_hysteresis
                 THEN IF tdiff <= 0 THEN asked - 1 + Fifth(tdiff)
                      ELSE IF tdiff >= 5 THEN asked + Fifth(tdiff) ELSE fanpercent
            ELSE IF fanpercent > min_fan /\ tdiff < 0 /\ lasttemp < targettemp THEN asked + tdiff
            ELSE IF fanpercent < gpu_fan /\ tdiff > 0 /\ t > targettemp - opt_hysteresis
                 THEN asked + tdiff
            ELSE fanpercent
    IN  Max({0, Min({iMaxPercent, new})})

(* The GPU whose fan is set for g: its own, its twin's when the twin does  *)
(* not look after it itself, or none.                                      *)
FanGpu(g) ==
    IF ~ga[g].autofan THEN NoGpu
    ELSE IF twin[g] = NoGpu \/ has_fanspeed[g] THEN g
    ELSE IF ~ga[twin[g]].autofan THEN twin[g] ELSE NoGpu

CoolerTwin(g) ==
    IF twin[g] # NoGpu /\ tuning.twintemp < tuning.temp
    THEN [temp |-> tuning.twintemp, last |-> ga[twin[g]].lasttemp]
    ELSE [temp |-> tuning.temp, last |-> ga[g].lasttemp]

(* The hotter of two twins counts.                                         *)
HotterTwin(g) ==
    IF twin[g] # NoGpu /\ tuning.twintemp > tuning.temp
    THEN [temp |-> tuning.twintemp, last |-> ga[twin[g]].lasttemp]
    ELSE [temp |-> tuning.temp, last |-> ga[g].lasttemp]

(* The new clock before it is brought into its range, and the new deven.   *)
NewEngine(g, t, engine, fan_optimal, fan_window) ==
    IF t > cutofftemp THEN ga[g].minspeed
    ELSE IF t > overtemp /\ engine > ga[g].minspeed THEN ga[g].minspeed
    ELSE IF t > targettemp + opt_hysteresis /\ engine > ga[g].minspeed /\ fan_optimal THEN engine - 1
    ELSE IF t < targettemp /\ engine < ga[g].maxspeed /\ fan_window /\ deven[g] = "enabled"
         THEN engine + IF t < targettemp - opt_hysteresis THEN 2 ELSE 1
    ELSE engine

InRange(g, speed) ==
    IF speed > ga[g].maxspeed THEN ga[g].maxspeed
    ELSE IF speed < ga[g].minspeed THEN ga[g].minspeed
    ELSE speed

NewEnable(g, t) ==
    IF t > cutofftemp THEN "recover"
    ELSE IF t < targettemp /\ deven[g] = "recover" /\ opt_restart THEN "enabled"
    ELSE deven[g]

(* The rest of gpu_autotune.  The fan first; the clock is only set when it *)
(* is lower, or higher than the last one asked for.                        *)
Tune ==
    /\ tuning # NoTuning
    /\ LET g == tuning.gpu
           t == tuning.temp
           f == IF t # 0 /\ tuning.fanpercent >= 0 THEN FanGpu(g) ELSE NoGpu
           hot == HotterTwin(g)
           percent == NewPercent(f, hot.temp, tuning.fanpercent, hot.last)
           fan_window == f = NoGpu \/ percent <= gpu_fan
           changed == f # NoGpu /\ percent # tuning.fanpercent
           fan_optimal == changed => percent < tuning.fanpercent /\ fan_window
           engine == EngineClock(g)
           tunes == engine # 0 /\ ga[g].autoengine
           new == InRange(g, NewEngine(g, t, engine, fan_optimal, fan_window))
           sets == tunes /\ (new < engine \/ (new > engine /\ new > ga[g].lastengine))
           fanned == IF changed THEN FanAsked(ga, f, percent) ELSE ga
           clocked == IF sets THEN ClockAsked(fanned, g, new) ELSE fanned
       IN  /\ ga' = [clocked EXCEPT ![g].lasttemp = t]
           /\ fan' = IF changed THEN FansAt(fan, f, percent) ELSE fan
           /\ clock' = IF sets THEN ClocksAt(clock, g, new) ELSE clock
           /\ deven' = [deven EXCEPT ![g] = IF tunes THEN NewEnable(g, t) ELSE @]
    /\ tuning' = NoTuning
    /\ UNCHANGED <<real, gpumap, adl_active, adapter, twin, has_fanspeed, temp, idle, orders>>

(* gpu_fanpercent, for the status line: a fan that can no longer be read   *)
(* is given up, and with it the link between twins; under opt_restart the  *)
(* program is restarted instead.                                           *)
FanLost(g) ==
    /\ tuning = NoTuning /\ ~opt_restart
    /\ adl_active /\ has_fanspeed[g]
    /\ has_fanspeed' = [has_fanspeed EXCEPT ![g] = FALSE]
    /\ twin' = [h \in Gpus |-> IF h = g \/ twin[g] = h THEN NoGpu ELSE twin[h]]
    /\ UNCHANGED <<real, gpumap, adl_active, adapter, deven, ga, tuning, orders>>
    /\ UNCHANGED adlHardware

-----------------------------------------------------------------------------
(* The operator: the API's gpufan and gpuengine, and the console           *)

Order ==
    /\ orders < MaxOrders
    /\ orders' = orders + 1

OrderFan(g, percent) ==
    /\ Order /\ adapter[g] # 0 /\ adl_active
    /\ ga' = FanAsked(ga, g, percent)
    /\ fan' = FansAt(fan, g, percent)
    /\ UNCHANGED <<real, gpumap, adl_active, adapter, twin, has_fanspeed, deven,
                   clock, temp, idle, tuning>>

OrderClock(g, speed) ==
    /\ Order /\ adapter[g] # 0 /\ adl_active
    /\ ga' = ClockAsked(ga, g, speed)
    /\ clock' = ClocksAt(clock, g, speed)
    /\ UNCHANGED <<real, gpumap, adl_active, adapter, twin, has_fanspeed, deven,
                   fan, temp, idle, tuning>>

(* change_autosettings: what is no longer automatic gets the value it had  *)
(* when the program began, which targetfan and lastengine do not learn.    *)
ToggleFan(g) ==
    /\ Order /\ adapter[g] # 0 /\ adl_active
    /\ ga' = [ga EXCEPT ![g].autofan = ~@]
    /\ fan' = IF ga[g].autofan THEN [fan EXCEPT ![adapter[g]] = DefaultFan] ELSE fan
    /\ UNCHANGED <<real, gpumap, adl_active, adapter, twin, has_fanspeed, deven,
                   clock, temp, idle, tuning>>

ToggleEngine(g) ==
    /\ Order /\ adapter[g] # 0 /\ adl_active
    /\ ga' = [ga EXCEPT ![g].autoengine = ~@]
    /\ clock' = IF ga[g].autoengine THEN [clock EXCEPT ![adapter[g]] = DefaultClock] ELSE clock
    /\ UNCHANGED <<real, gpumap, adl_active, adapter, twin, has_fanspeed, deven,
                   fan, temp, idle, tuning>>

(* clear_adl: the cards that were changed get back what they had.          *)
ClearAdl ==
    /\ adl_active
    /\ adl_active' = FALSE
    /\ LET back == {adapter[g] : g \in {h \in Gpus : adapter[h] # 0 /\ ga[h].managed}}
       IN  /\ clock' = [c \in DOMAIN real |-> IF c \in back THEN DefaultClock ELSE clock[c]]
           /\ fan' = [c \in DOMAIN real |-> IF c \in back THEN DefaultFan ELSE fan[c]]
    /\ UNCHANGED <<real, gpumap, adapter, twin, has_fanspeed, deven, ga, temp, idle,
                   tuning, orders>>

-----------------------------------------------------------------------------
AdlNext ==
    \/ \E c \in DOMAIN real : IdleChanges(c) \/ \E t \in Temps : TempChanges(c, t)
    \/ \E g \in Gpus :
          \/ Sense(g) \/ FanLost(g) \/ ToggleFan(g) \/ ToggleEngine(g)
          \/ \E p \in FanOrders : OrderFan(g, p)
          \/ \E s \in ClockOrders : OrderClock(g, s)
    \/ Tune \/ ClearAdl

(* The watchdog goes over the GPUs for as long as the program runs.        *)
AdlFairness == WF_adlVars(Tune) /\ \A g \in Gpus : SF_adlVars(Sense(g))

AdlSpec == AdlInit /\ [][AdlNext]_adlVars /\ AdlFairness

-----------------------------------------------------------------------------
(* The card of g is too hot, and its fan and its clock are automatic.      *)
Hot(g) == /\ adapter[g] # 0 /\ temp[adapter[g]] > overtemp /\ ~idle[adapter[g]]
          /\ ga[g].autofan /\ ga[g].autoengine
          /\ twin[g] # NoGpu => ga[twin[g]].autofan
FanOf(g) == IF ~has_fanspeed[g] /\ twin[g] # NoGpu THEN twin[g] ELSE g
Cooled(g) ==
    /\ has_fanspeed[FanOf(g)] => fan[adapter[FanOf(g)]] = Shown(iMaxPercent)
    /\ clock[adapter[g]] <= ga[g].minspeed

(* clear_adl: when the control ends, with nothing half done, every card is *)
(* as the program found it.                                                *)
RestoredAtExit ==
    ~adl_active /\ (\E g \in Gpus : adapter[g] # 0) =>
        \A c \in DOMAIN real : fan[c] = DefaultFan /\ clock[c] = DefaultClock

(* init_adl: when buses differ and --gpu-map is one-to-one, no two GPUs    *)
(* are monitored through one card.                                         *)
OneGpuPerCard ==
    \A g, h \in Gpus : g # h /\ adapter[g] # 0 => adapter[g] # adapter[h]

(* gpu_autotune and fan_autotune: the card of a GPU that stays above its   *)
(* overheat temperature gets its fan to 100 % and its clock to the lowest, *)
(* or the GPU is disabled, whichever of two twins has the fan; no card is  *)
(* the card of two GPUs.                                                   *)
HotIsCooled ==
    /\ [](AdlTypeOK /\ OneGpuPerCard)
    /\ \A g \in Gpus : <>[](adl_active /\ Hot(g)) => <>[]Cooled(g)

(* GPU-README on --gpu-map: a GPU that is mapped to an ADL device is       *)
(* monitored through it.  Does not hold: only the first GPUs are set up,   *)
(* as many as there are cards.                                             *)
MappedIsMonitored ==
    \A g \in DOMAIN gpumap : g \notin Deselected => adapter[g] = gpumap[g] + 1
=============================================================================
