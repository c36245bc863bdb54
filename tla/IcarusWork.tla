----------------------------- MODULE IcarusWork -----------------------------
(***************************************************************************)
(* The Icarus driver's conversation with its device.  A device is sent a   *)
(* work and sends back the bytes of a nonce, or nothing; nothing in them   *)
(* says what work they are for.  icarus_get_nonce puts a nonce together    *)
(* from the pieces that come before the timeout or a restart; then the     *)
(* device is sent the next work, whatever is still on its way.             *)
(***************************************************************************)
EXTENDS Integers, Sequences, SequencesExt

CONSTANTS ICARUS_READ_SIZE,  \* bytes of a nonce
          read_time,         \* passes of the loop of icarus_get_nonce until it gives up
          NonceRange,        \* nonces of a work (2^32 in the code)
          HashesPerPass,     \* what the device is thought to try in a pass
          MaxIcWorks,        \* bound: works (and of the wire: two nonces)
          MaxComms           \* bound: errors

ASSUME IcarusAssumption ==
    {ICARUS_READ_SIZE, read_time, NonceRange, HashesPerPass, MaxIcWorks} \subseteq Nat \ {0}

VARIABLES
    ica_pc,     \* "detect", "golden", "next", "again", "read", "taken" or "gone"
    tries,      \* of icarus_detect_one
    ic_work,    \* the work of scanhash; 0 is the golden one
    ic_device,  \* the work the device searches, or -1
    wire,       \* bytes it has sent, <<work, index>>, that nobody has read
    ic_buffer,  \* usb_buffer
    nonce_bin,  \* the bytes icarus_get_nonce has got
    passes,     \* passes until the first of them came, or until now
    credit,     \* the hashes scanhash returned for the work
    comms       \* counts towards MaxComms

icarusVars == <<ica_pc, tries, ic_work, ic_device, wire, ic_buffer, nonce_bin, passes, credit, comms>>

NoByte == <<-1, 0>>
NonceOf(w) == [i \in 1..ICARUS_READ_SIZE |-> <<w, i>>]

IcarusTypeOK ==
    /\ ica_pc \in {"detect", "golden", "next", "again", "read", "taken", "gone"}
    /\ tries \in 0..2 /\ ic_work \in 0..MaxIcWorks /\ ic_device \in -1..MaxIcWorks
    /\ Len(nonce_bin) <= ICARUS_READ_SIZE /\ passes \in 0..read_time

IcarusInit ==
    /\ ica_pc = "detect" /\ tries = 2 /\ ic_work = 0 /\ ic_device = -1
    /\ wire = <<>> /\ ic_buffer = <<>> /\ nonce_bin = <<>> /\ passes = 0
    /\ credit = 0 /\ comms = 0

-----------------------------------------------------------------------------
(* The device: it sends a nonce, and goes on or waits, or finds no more.   *)
DeviceFinds ==
    /\ ic_device # -1 /\ Len(wire) <= ICARUS_READ_SIZE
    /\ wire' = wire \o NonceOf(ic_device) /\ ic_device' \in {ic_device, -1}
    /\ UNCHANGED <<ica_pc, tries, ic_work, ic_buffer, nonce_bin, passes, credit, comms>>
DeviceExhausts ==
    /\ ic_device # -1
    /\ ic_device' = -1
    /\ UNCHANGED <<ica_pc, tries, ic_work, wire, ic_buffer, nonce_bin, passes, credit, comms>>

(* icarus_initialise clears what was received.                             *)
icarus_initialise == wire' \in {wire, <<>>}

CommsError == comms < MaxComms /\ comms' = comms + 1

-----------------------------------------------------------------------------
(* icarus_get_nonce *)

StartsReading == nonce_bin' = <<>> /\ passes' = 0

Wanted == ICARUS_READ_SIZE - Len(nonce_bin)

(* usb_read_timeout: what is in the buffer, then n bytes from the device.  *)
(* Of a read that got too much, the buffer is left with as many bytes, but *)
(* not the right ones.                                                     *)
usb_read(n) ==
    LET all == ic_buffer \o SubSeq(wire, 1, n)
        got == IF Len(all) > Wanted THEN Wanted ELSE Len(all)
    IN  /\ n <= Len(wire) /\ (Len(ic_buffer) >= Wanted => n = 0)
        /\ nonce_bin' = nonce_bin \o SubSeq(all, 1, got)
        /\ ic_buffer' = [i \in 1..(Len(all) - got) |-> NoByte]
        /\ wire' = SubSeq(wire, n + 1, Len(wire))

Pass(n) ==
    /\ usb_read(n)
    /\ passes' = IF nonce_bin = <<>> THEN passes + 1 ELSE passes

Whole == Len(nonce_bin') = ICARUS_READ_SIZE

(* It is enough for a while that there is not a whole nonce.               *)
KeepsReading(n) ==
    /\ ica_pc = "read" \/ ica_pc = "golden"
    /\ passes + 1 < read_time
    /\ Pass(n) /\ ~Whole
    /\ UNCHANGED <<ica_pc, tries, ic_work, ic_device, credit, comms>>

-----------------------------------------------------------------------------
(* icarus_detect_one: two tries to get the golden nonce.                   *)

TestSent ==
    /\ ica_pc = "detect" /\ tries > 0
    /\ tries' = tries - 1
    /\ icarus_initialise /\ StartsReading
    /\ \/ ica_pc' = "golden" /\ ic_device' = 0
       \/ ica_pc' = "detect" /\ UNCHANGED ic_device
    /\ UNCHANGED <<ic_work, ic_buffer, credit, comms>>

Answered(n) ==
    /\ ica_pc = "golden"
    /\ Pass(n)
    /\ \/ Whole /\ ica_pc' = IF nonce_bin' = NonceOf(0) THEN "next" ELSE "detect"
       \/ ~Whole /\ ica_pc' = "detect"
    /\ UNCHANGED <<tries, ic_work, ic_device, credit, comms>>

GivesUp ==
    /\ ica_pc = "detect" /\ tries = 0
    /\ ica_pc' = "gone"
    /\ UNCHANGED <<tries, ic_work, ic_device, wire, ic_buffer, nonce_bin, passes, credit, comms>>

-----------------------------------------------------------------------------
(* icarus_scanhash; a work it failed to search is given to it again.       *)

others == <<tries, ic_buffer>>

ClearsBuffer == ic_buffer' = <<>>

IcSendWork ==
    /\ ica_pc \in {"next", "again"}
    /\ ClearsBuffer
    /\ ic_work' = (IF ica_pc = "next" THEN ic_work + 1 ELSE ic_work) /\ ic_work' <= MaxIcWorks
    /\ credit' = 0
    /\ \/ /\ ic_device' = ic_work' /\ ica_pc' = "read"
          /\ StartsReading /\ UNCHANGED <<wire, comms>>
       \/ /\ CommsError /\ icarus_initialise
          /\ ica_pc' = "again" /\ UNCHANGED <<ic_device, nonce_bin, passes>>
    /\ UNCHANGED tries

ReadFails ==
    /\ ica_pc = "read" /\ CommsError
    /\ ica_pc' = "again"
    /\ UNCHANGED <<ic_work, ic_device, wire, nonce_bin, passes, credit>> /\ UNCHANGED others

(* What was tried until the nonces came, or all of them.                   *)
Capped(n) == IF n > NonceRange - 1 THEN NonceRange - 1 ELSE n

(* The timeout or work_restart.  The pieces that have come are lost.       *)
ReadEnds(n) ==
    /\ ica_pc = "read"
    /\ Pass(n) /\ ~Whole
    /\ credit' = Capped(passes' * HashesPerPass)
    /\ ica_pc' = "next"
    /\ UNCHANGED <<tries, ic_work, ic_device, comms>>

TakesNonce(n) ==
    /\ ica_pc = "read"
    /\ Pass(n) /\ Whole
    /\ ica_pc' = "taken"
    /\ UNCHANGED <<tries, ic_work, ic_device, credit, comms>>

(* ((nonce & nonce_mask) + 1) * fpga_count, and submit_nonce finds whether *)
(* it is one.                                                              *)
Credit ==
    /\ ica_pc = "taken"
    /\ credit' \in 1..NonceRange
    /\ ica_pc' = "next"
    /\ UNCHANGED <<ic_work, ic_device, wire, nonce_bin, passes, comms>> /\ UNCHANGED others

IcarusNext ==
    \/ DeviceFinds \/ DeviceExhausts \/ TestSent \/ GivesUp \/ IcSendWork \/ ReadFails \/ Credit
    \/ \E n \in 0..Len(wire) : KeepsReading(n) \/ Answered(n) \/ ReadEnds(n) \/ TakesNonce(n)

IcarusSpec == IcarusInit /\ [][IcarusNext]_icarusVars

-----------------------------------------------------------------------------
(* "We only want results for the work we are about to send": the four      *)
(* bytes that are taken for a nonce are ones the device sent one after the *)
(* other, none of them invented by the buffer.  They need not be of one    *)
(* nonce: the rest of one that was cut off comes first.                    *)
Follows(a, b) == b = <<a[1], a[2] + 1>> \/ (a[2] = ICARUS_READ_SIZE /\ b[1] >= a[1] /\ b[2] = 1)
BytesOfDevice ==
    ica_pc = "taken" =>
        /\ \A i \in 1..ICARUS_READ_SIZE : nonce_bin[i] # NoByte
        /\ \A i \in 1..(ICARUS_READ_SIZE - 1) : Follows(nonce_bin[i], nonce_bin[i + 1])

(* A nonce that begins with the work that is going on is the work's.       *)
OwnNonce ==
    ica_pc = "taken" /\ nonce_bin[1] = <<ic_work, 1>> => nonce_bin = NonceOf(ic_work)

(* No work is credited with more hashes than it has nonces.                *)
CreditInRange == credit <= NonceRange
=============================================================================
