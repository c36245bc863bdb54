------------------------------ MODULE MCDrivers ------------------------------
(***************************************************************************)
(* The USB layer and the drivers of the FPGAs and ASICs for TLC. As they   *)
(* share no state, one of them runs: scenario says which.                  *)
(***************************************************************************)
EXTENDS Drivers

\* --icarus-options with nothing for the device, a division (and one that is none),
\* and more FPGAs than divisions; --icarus-timing for two devices.
IcarusOptions ==
    {<<[division |-> 0, fpgas |-> 0]>>,
     <<[division |-> 4, fpgas |-> 1], [division |-> 3, fpgas |-> 0]>>,
     <<[division |-> 0, fpgas |-> 3]>>}
IcarusTimings == {<<[mode |-> m, time |-> 0], [mode |-> "short", time |-> 0]>> : m \in {"default", "long"}}

TwoDrivers == <<"first", "second">>

ReadTimesFound == {-1, 3}

VARIABLE scenario

Scenarios == {"usb", "usb read", "bflsc", "avalon", "avalon stream", "modminer clock",
              "bitforce", "icarus", "icarus timing", "modminer board"}

mcVars == <<scenario, usbVars, usbReadVars, bflscVars, avVars, avStreamVars, clockVars,
            bitforceVars, icarusVars, timingVars, boardVars>>

MCInit ==
    /\ scenario \in Scenarios
    /\ UsbInit /\ UsbReadInit /\ BflscInit /\ AvalonInit /\ AvStreamInit
    /\ ClockInit /\ BitForceInit /\ IcarusInit /\ TimingInit /\ BoardInit
    /\ scenario # "modminer board" => board_pipe = <<>> /\ board.programmed
    /\ scenario # "bitforce" => nonce_range

\* The others stand still.
UsbRuns ==
    /\ scenario = "usb" /\ UsbNext
    /\ UNCHANGED <<scenario, usbReadVars, bflscVars, avVars, avStreamVars, clockVars,
                   bitforceVars, icarusVars, timingVars, boardVars>>
ReadRuns ==
    /\ scenario = "usb read" /\ UsbReadNext
    /\ UNCHANGED <<scenario, usbVars, bflscVars, avVars, avStreamVars, clockVars,
                   bitforceVars, icarusVars, timingVars, boardVars>>
BflscRuns ==
    /\ scenario = "bflsc" /\ BflscNext
    /\ UNCHANGED <<scenario, usbVars, usbReadVars, avVars, avStreamVars, clockVars,
                   bitforceVars, icarusVars, timingVars, boardVars>>
AvalonRuns ==
    /\ scenario = "avalon" /\ AvalonNext
    /\ UNCHANGED <<scenario, usbVars, usbReadVars, bflscVars, avStreamVars, clockVars,
                   bitforceVars, icarusVars, timingVars, boardVars>>
StreamRuns ==
    /\ scenario = "avalon stream" /\ AvStreamNext
    /\ UNCHANGED <<scenario, usbVars, usbReadVars, bflscVars, avVars, clockVars,
                   bitforceVars, icarusVars, timingVars, boardVars>>
ClockRuns ==
    /\ scenario = "modminer clock" /\ ClockNext
    /\ UNCHANGED <<scenario, usbVars, usbReadVars, bflscVars, avVars, avStreamVars,
                   bitforceVars, icarusVars, timingVars, boardVars>>
BitforceRuns ==
    /\ scenario = "bitforce" /\ BitForceNext
    /\ UNCHANGED <<scenario, usbVars, usbReadVars, bflscVars, avVars, avStreamVars,
                   clockVars, icarusVars, timingVars, boardVars>>
IcarusRuns ==
    /\ scenario = "icarus" /\ IcarusNext
    /\ UNCHANGED <<scenario, usbVars, usbReadVars, bflscVars, avVars, avStreamVars,
                   clockVars, bitforceVars, timingVars, boardVars>>
TimingRuns ==
    /\ scenario = "icarus timing" /\ TimingNext
    /\ UNCHANGED <<scenario, usbVars, usbReadVars, bflscVars, avVars, avStreamVars,
                   clockVars, bitforceVars, icarusVars, boardVars>>
BoardRuns ==
    /\ scenario = "modminer board" /\ BoardNext
    /\ UNCHANGED <<scenario, usbVars, usbReadVars, bflscVars, avVars, avStreamVars,
                   clockVars, bitforceVars, icarusVars, timingVars>>

MCNext ==
    \/ UsbRuns \/ ReadRuns \/ BflscRuns \/ AvalonRuns \/ StreamRuns
    \/ ClockRuns \/ BitforceRuns \/ IcarusRuns \/ TimingRuns \/ BoardRuns

MCSpec == MCInit /\ [][MCNext]_mcVars
=============================================================================
