------------------------------- MODULE Config -------------------------------
(***************************************************************************)
(* The settings of the program: given on the command line and in           *)
(* configuration files that may include others, changed while it runs,     *)
(* written by write_config and read back when the program is started       *)
(* again.  A file is the values it has for each option, and whether it     *)
(* parses as JSON.                                                         *)
(***************************************************************************)
EXTENDS Integers, Sequences, FiniteSets

CONSTANTS
    Gpus,            \* nDevs
    total_devices,   \* the devices there are
    Chosen,          \* lists of values the user gives for an option, by its name
    Dynamic,         \* the value "d" of an intensity
    Intensities,     \* the intensities the dynamic adjustment reaches
    JSON_MAX_DEPTH,  \* levels of includes
    MaxChanges,      \* bound: settings changed before a file is written
    MaxSaves         \* bound: files written

VARIABLES
    opts,      \* the settings of the running program
    file,      \* the configuration file
    saved,     \* the settings it was written from
    confpc,    \* "options", "running", "reading", "loaded" or "failed"
    depth,     \* include_count
    quality,   \* fileconf_load: 0 for none or a JSON error, 1, or -1 for options refused
    changes, saves

confVars == <<opts, file, saved, confpc, depth, quality, changes, saves>>

(* What each option of the GPUs accepts.                                   *)
set_vector == {1, 2, 4}
set_worksize == 1 .. 9999
set_kernel == {"diablo", "diakgcn", "poclbm", "phatk", "scrypt", "nscrypt", "scrypt-chacha"}
set_gpu_threads == 1 .. 10
set_gpu_engine == 0 .. 9999
set_gpu_fan == 0 .. 100
set_gpu_memclock == 0 .. 9998
set_temp_target == 0 .. 200
set_xintensity == 1 .. 9999
set_rawintensity == 1 .. 2 ^ 30 - 1 + 2 ^ 30
Accepted ==
    [vectors |-> set_vector, worksize |-> set_worksize, kernel |-> set_kernel,
     threads |-> set_gpu_threads, engine |-> set_gpu_engine, fan |-> set_gpu_fan,
     memclock |-> set_gpu_memclock, target |-> set_temp_target]
set_intensity == -10 .. 20
Listed == DOMAIN Accepted
Ranges == {r \in Nat \X Nat : r[1] <= r[2]}

IsSequence(vals) == Len(vals) \in Nat /\ DOMAIN vals = 1 .. Len(vals)
ASSUME ConfAssumption ==
    /\ Gpus \in Nat \ {0} /\ total_devices \in Nat /\ JSON_MAX_DEPTH \in Nat \ {0}
    /\ Intensities \subseteq set_intensity /\ Dynamic \notin set_intensity
    /\ DOMAIN Chosen.list \subseteq Listed
    /\ \A o \in DOMAIN Chosen.list : \A vals \in Chosen.list[o] : IsSequence(vals)
    /\ \A vals \in Chosen.intensity : IsSequence(vals)
    /\ \A vals \in Chosen.positive : IsSequence(vals)
    /\ \A vals \in Chosen.ranges : IsSequence(vals)
    /\ MaxChanges \in Nat /\ MaxSaves \in Nat

DefaultGpu ==
    [o \in Listed |-> CASE o = "kernel" -> "scrypt" [] o \in {"vectors", "threads", "worksize"} -> 1 [] OTHER -> 0]
Default ==
    [gpu |-> [g \in 1 .. Gpus |-> DefaultGpu],
     intensity |-> [g \in 1 .. Gpus |-> [dynamic |-> TRUE, i |-> 0, x |-> 0, raw |-> 0]],
     devices |-> {}, strategy |-> "failover", failonly |-> FALSE]

(* A list of values: one is for all GPUs, more are for the first ones; the *)
(* first value that is refused ends the option, what came before it stays. *)
Taken(vals, accepted) ==
    Cardinality({i \in DOMAIN vals : \A j \in 1 .. i : vals[j] \in accepted})
Given(vals, accepted, g) ==
    \/ g <= Taken(vals, accepted)
    \/ Len(vals) = 1 /\ Taken(vals, accepted) = 1
Value(vals, g) == vals[IF Len(vals) = 1 THEN 1 ELSE g]

SetList(s, o, vals) ==
    [s EXCEPT !.gpu = [g \in DOMAIN @ |->
        IF Given(vals, Accepted[o], g) THEN [@[g] EXCEPT ![o] = Value(vals, g)] ELSE @[g]]]
SetIntensity(s, vals) ==
    [s EXCEPT !.intensity = [g \in DOMAIN @ |->
        IF ~Given(vals, set_intensity \union {Dynamic}, g) THEN @[g]
        ELSE IF Value(vals, g) = Dynamic THEN [@[g] EXCEPT !.dynamic = TRUE]
        ELSE [dynamic |-> FALSE, i |-> Value(vals, g), x |-> 0, raw |-> 0]]]
SetXIntensity(s, vals) ==
    [s EXCEPT !.intensity = [g \in DOMAIN @ |->
        IF Given(vals, set_xintensity, g)
        THEN [dynamic |-> FALSE, i |-> 0, x |-> Value(vals, g), raw |-> 0] ELSE @[g]]]
SetRawIntensity(s, vals) ==
    [s EXCEPT !.intensity = [g \in DOMAIN @ |->
        IF Given(vals, set_rawintensity, g)
        THEN [dynamic |-> FALSE, i |-> 0, x |-> 0, raw |-> Value(vals, g)] ELSE @[g]]]
(* set_devices, of a sequence of ranges.                                   *)
SetDevices(s, ranges) ==
    [s EXCEPT !.devices =
        @ \union UNION {ranges[i][1] .. ranges[i][2] : i \in 1 .. Taken(ranges, Ranges)}]

----------------------------------------------------------------------------
(* write_config.  The intensities are written as the first GPU has them,   *)
(* and if it has none that is positive the quote that closes them stands   *)
(* alone; the numbers of threads are not written; nscrypt has no name; the *)
(* ranges of devices are written one behind another with nothing between.  *)
WrittenIntensity(s) ==
    LET first == s.intensity[1]
    IN  IF first.i > 0 THEN
            [name |-> "intensity",
             vals |-> [g \in 1 .. Gpus |-> IF s.intensity[g].dynamic THEN Dynamic ELSE s.intensity[g].i]]
        ELSE IF first.x > 0 THEN
            [name |-> "xintensity", vals |-> [g \in 1 .. Gpus |-> s.intensity[g].x]]
        ELSE IF first.raw > 0 THEN
            [name |-> "rawintensity", vals |-> [g \in 1 .. Gpus |-> s.intensity[g].raw]]
        ELSE [name |-> "none", vals |-> <<>>]
WrittenKernel(k) == IF k = "nscrypt" THEN "" ELSE k
WrittenSwapped(s) ==
    [o \in Listed \ {"threads"} |->
        [g \in 1 .. Gpus |->
            IF o = "kernel" THEN WrittenKernel(s.gpu[g][o])
            ELSE IF o = "fan" THEN s.gpu[1][o] ELSE s.gpu[g][o]]]
WrittenLists(s) ==
    [o \in Listed \ {"threads"} |->
        [g \in 1 .. Gpus |->
            IF o = "kernel" THEN WrittenKernel(s.gpu[g][o]) ELSE s.gpu[g][o]]]

RangesOf(devices) ==
    {r \in devices \X devices :
        /\ r[1] <= r[2]
        /\ r[1] .. r[2] \subseteq devices
        /\ r[1] - 1 \notin devices
        /\ r[2] + 1 \notin devices}
Glued(a, b) == 10 * a + b
WrittenDevices(devices) ==
    LET rs == RangesOf(devices)
    IN  IF rs = {} THEN <<>>
        ELSE LET r == CHOOSE r \in rs : \A q \in rs : r[1] <= q[1]
             IN  IF Cardinality(rs) = 1 THEN <<r>>
                 ELSE LET q == CHOOSE q \in rs : q # r
                      IN  IF r[1] = r[2] THEN <<<<Glued(r[1], q[1]), IF q[1] = q[2] THEN Glued(r[1], q[1]) ELSE q[2]>>>>
                          ELSE <<<<r[1], Glued(r[2], q[1])>>>>

write_config(s) ==
    [parses |-> WrittenIntensity(s).name # "none",
     intensity |-> WrittenIntensity(s),
     lists |-> WrittenLists(s),
     devices |-> WrittenDevices(s.devices),
     strategy |-> s.strategy,
     failonly |-> s.failonly,
     include |-> FALSE]

----------------------------------------------------------------------------
(* parse_config: every option of the file, a refused one is skipped.       *)
ParseIntensity(s, f) ==
    CASE f.intensity.name = "intensity" -> SetIntensity(s, f.intensity.vals)
      [] f.intensity.name = "xintensity" -> SetXIntensity(s, f.intensity.vals)
      [] f.intensity.name = "rawintensity" -> SetRawIntensity(s, f.intensity.vals)
      [] OTHER -> s
ParseLists(s, f) ==
    [s EXCEPT !.gpu = [g \in 1 .. Gpus |-> [o \in Listed |->
        IF o \in DOMAIN f.lists /\ (\A h \in 1 .. g : f.lists[o][h] \in Accepted[o])
        THEN f.lists[o][g] ELSE @[g][o]]]]
RefusedOption(f) ==
    \/ \E o \in DOMAIN f.lists : \E g \in 1 .. Gpus : f.lists[o][g] \notin Accepted[o]
    \/ f.devices # <<>> /\ f.devices[1][1] > f.devices[1][2]
parse_config(s, f) ==
    [SetDevices(ParseIntensity(ParseLists(s, f), f), f.devices)
        EXCEPT !.strategy = f.strategy, !.failonly = f.failonly]

ConfInit ==
    /\ opts = Default
    /\ file = write_config(Default)
    /\ saved = Default
    /\ confpc = "options"
    /\ depth = 0
    /\ quality = 0
    /\ changes = 0
    /\ saves = 0

(* One option of the command line, or one setting changed by the operator. *)
Change(new) ==
    /\ confpc \in {"options", "running"}
    /\ changes < MaxChanges
    /\ changes' = changes + 1
    /\ opts' = new
    /\ UNCHANGED <<file, saved, confpc, depth, quality, saves>>
SetOption ==
    /\ confpc = "options"
    /\ \/ \E o \in DOMAIN Chosen.list : \E vals \in Chosen.list[o] : Change(SetList(opts, o, vals))
       \/ \E vals \in Chosen.intensity : Change(SetIntensity(opts, vals))
       \/ \E vals \in Chosen.positive : Change(SetXIntensity(opts, vals))
       \/ \E vals \in Chosen.positive : Change(SetRawIntensity(opts, vals))
       \/ \E ranges \in Chosen.ranges : Change(SetDevices(opts, ranges))
       \/ \E st \in Chosen.strategy : Change([opts EXCEPT !.strategy = st])
(* The devices that were chosen must exist.                                *)
StartUp ==
    /\ confpc = "options"
    /\ confpc' = IF opts.devices \subseteq 0 .. total_devices - 1 THEN "running" ELSE "failed"
    /\ UNCHANGED <<opts, file, saved, depth, quality, changes, saves>>
(* gpuintensity of the API and of the screen; set_fanspeed; failover-only. *)
OperatorSets ==
    /\ confpc = "running"
    /\ \/ \E g \in 1 .. Gpus, v \in set_intensity \intersect Intensities :
            Change([opts EXCEPT !.intensity[g].dynamic = FALSE, !.intensity[g].i = v])
       \/ \E g \in 1 .. Gpus : Change([opts EXCEPT !.intensity[g].dynamic = TRUE])
       \/ Change([opts EXCEPT !.failonly = ~@])
(* The dynamic adjustment of the intensity.                                *)
Adjust(g, v) ==
    /\ confpc = "running"
    /\ opts.intensity[g].dynamic
    /\ opts' = [opts EXCEPT !.intensity[g].i = v]
    /\ changes < MaxChanges
    /\ changes' = changes + 1
    /\ UNCHANGED <<file, saved, confpc, depth, quality, saves>>

Save ==
    /\ confpc = "running"
    /\ saves < MaxSaves
    /\ file' = write_config(opts)
    /\ saved' = opts
    /\ saves' = saves + 1
    /\ UNCHANGED <<opts, confpc, depth, quality, changes>>
(* The user edits the file so that it includes itself, or another.         *)
Include ==
    /\ confpc = "running"
    /\ saves > 0
    /\ ~file.include
    /\ file' = [file EXCEPT !.include = TRUE]
    /\ UNCHANGED <<opts, saved, confpc, depth, quality, changes, saves>>

(* The program starts with the file: load_config, then its includes.       *)
StartAgain ==
    /\ confpc = "running"
    /\ saves > 0
    /\ opts' = Default
    /\ depth' = 0
    /\ quality' = 0
    /\ confpc' = "reading"
    /\ UNCHANGED <<file, saved, changes, saves>>
LoadConfig ==
    /\ confpc = "reading"
    /\ depth' = depth + 1
    /\ IF depth + 1 > JSON_MAX_DEPTH \/ ~file.parses THEN
            confpc' = "loaded" /\ UNCHANGED <<opts, quality>>
       ELSE /\ opts' = parse_config(opts, file)
            /\ quality' = IF RefusedOption(file) THEN -1 ELSE IF quality = 0 THEN 1 ELSE quality
            /\ confpc' = IF file.include THEN "reading" ELSE "loaded"
    /\ UNCHANGED <<file, saved, changes, saves>>
LoadDone ==
    /\ confpc = "loaded"
    /\ confpc' = IF opts.devices \subseteq 0 .. total_devices - 1 THEN "running" ELSE "failed"
    /\ UNCHANGED <<opts, file, saved, depth, quality, changes, saves>>

ConfNext ==
    \/ SetOption \/ StartUp \/ OperatorSets
    \/ \E g \in 1 .. Gpus, v \in Intensities : Adjust(g, v)
    \/ Save \/ Include \/ StartAgain \/ LoadConfig \/ LoadDone
ConfSpec == ConfInit /\ [][ConfNext]_confVars

----------------------------------------------------------------------------
ConfTypeOK ==
    /\ depth <= JSON_MAX_DEPTH + 1
    /\ quality \in {-1, 0, 1}
    /\ \A g \in 1 .. Gpus, o \in Listed : opts.gpu[g][o] \in Accepted[o]

(* What write_config has a way to keep: one kind of intensity for all      *)
(* GPUs, positive for the first; one range of devices; kernels it names.   *)
Keepable(s) ==
    /\ \/ /\ s.intensity[1].i > 0
          /\ \A g \in 1 .. Gpus : s.intensity[g].x = 0 /\ s.intensity[g].raw = 0
       \/ /\ s.intensity[1].i <= 0 /\ s.intensity[1].x > 0
          /\ \A g \in 1 .. Gpus : s.intensity[g].x > 0 /\ ~s.intensity[g].dynamic
       \/ /\ s.intensity[1].i <= 0 /\ s.intensity[1].raw > 0
          /\ \A g \in 1 .. Gpus : s.intensity[g].raw > 0 /\ ~s.intensity[g].dynamic
    /\ Cardinality(RangesOf(s.devices)) <= 1
    /\ \A g \in 1 .. Gpus : s.gpu[g].kernel # "nscrypt"
Effective(i) ==
    [x |-> i.x, raw |-> i.raw,
     own |-> IF i.x > 0 \/ i.raw > 0 THEN 0 ELSE IF i.dynamic THEN Dynamic ELSE i.i]

(* The settings write_config has a way to keep come back as they were when *)
(* the program is started with the file, but for the numbers of threads    *)
(* (README.md: Writing the configuration will save all settings).  With    *)
(* the module's types.                                                     *)
SettingsSurvive ==
    /\ ConfTypeOK
    /\ confpc = "loaded" /\ Keepable(saved) =>
          /\ opts.devices = saved.devices
          /\ opts.strategy = saved.strategy /\ opts.failonly = saved.failonly
          /\ \A g \in 1 .. Gpus :
                /\ Effective(opts.intensity[g]) = Effective(saved.intensity[g])
                /\ \A o \in Listed \ {"threads"} : opts.gpu[g][o] = saved.gpu[g][o]

(* After saving, the configuration is loaded without more arguments        *)
(* (README.md): the file must parse.  It does not when the first GPU's     *)
(* intensity is not positive.                                              *)
SavedFileParses == saves > 0 => file.parses
=============================================================================
