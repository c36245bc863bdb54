------------------------------- MODULE Drivers -------------------------------
(***************************************************************************)
(* The USB layer and the drivers of the FPGAs and ASICs together.  They    *)
(* share no state here: what one says of another's device is an input.     *)
(* What is required of the drivers is the same of each: works and parts    *)
(* are counted, results are kept, replies are one's own, and clocks and    *)
(* times change on evidence.                                               *)
(***************************************************************************)
EXTENDS UsbLayer, UsbRead, BflscQueue, AvalonQueue, AvalonStream, ModMinerBoard,
        ModMinerClock, BitForce, IcarusWork, IcarusTiming

\* Every driver runs in threads of its own.
DriversSpec ==
    /\ UsbSpec /\ UsbReadSpec /\ BflscSpec /\ AvalonSpec /\ AvStreamSpec
    /\ BoardSpec /\ ClockSpec /\ BitForceSpec /\ IcarusSpec /\ TimingSpec

\* The works, parts of works and hashes that are counted: the count of the queued
\* works is their number, a part is handed out once, hashes are at most the nonces.
WorkCounted == BTypeOK /\ QueuedCounted /\ PartsOnce /\ CreditInRange /\ CountsInRange

\* A work the Avalon may still find nonces for is kept, and so is a result in the
\* stream of bytes that come from it; a BitForce's goes with the work it is for.
ResultsKept ==
    /\ []AvTypeOK /\ []SentIsKept
    /\ []AvStreamTypeOK /\ StreamResultsKept
    /\ NonceOfWork

\* An FPGA's clock stays in its range and goes up only after a run of good shares;
\* how long an Icarus searches is changed by whole sets of measurements, and the
\* wait for a BitForce never becomes zero.
TunedOnEvidence ==
    /\ []ClockTypeOK /\ []ClockInRange /\ ClockUpEarned
    /\ []TimingTypeOK /\ []SummaryOfLast /\ []SetsGrow /\ ShortSettles
    /\ []Sleeps

\* The FPGAs of a ModMiner and the threads of a BitForce read the replies to their
\* own commands, and what an Icarus takes for a nonce its device has sent.
OwnReplies ==
    /\ BoardTypeOK /\ BoardReplies /\ HolderTalks
    /\ BitForceTypeOK /\ InSync
    /\ IcarusTypeOK /\ BytesOfDevice /\ OwnNonce
=============================================================================
