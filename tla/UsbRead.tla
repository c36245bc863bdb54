------------------------------ MODULE UsbRead ------------------------------
(***************************************************************************)
(* _usb_read: a read is a loop of bulk transfers with a time limit.  A     *)
(* device with a buffer (usb_buffer_enable) is asked for as much as it     *)
(* has, and what a read has too much is kept for the next; a read may be   *)
(* told to stop at the end of a line.  The two bytes of status that FTDI   *)
(* chips put before each packet are left out.                              *)
(*                                                                         *)
(* Bytes are the numbers 1, 2, ... in the order in which the device sends  *)
(* them; a byte that never came from it is Garbage.                        *)
(***************************************************************************)
EXTENDS Integers, Sequences

CONSTANTS NBytes,     \* bound: the device sends 1..NBytes
          Ends,       \* those of them that end a line
          LineSizes,  \* the bufsiz of reads that stop at the end of a line
          RawSizes,   \* that of reads that do not
          Packet,     \* wMaxPacketSize
          USB_MAX_READ,
          buffered    \* the device has a buffer

Garbage == 0

ASSUME UsbReadAssumption ==
    /\ NBytes \in Nat /\ Ends \subseteq 1..NBytes
    /\ {Packet, USB_MAX_READ} \subseteq Nat \ {0}
    /\ LineSizes \union RawSizes \subseteq 1..USB_MAX_READ
    /\ buffered \in BOOLEAN

VARIABLES
    sent,       \* the bytes 1..sent have left the device
    taken,      \* of these 1..taken have been read from the bus
    usb_buffer, \* usbdev->buffer, its first bufamt bytes
    kind,       \* the read that is going on: "none", "line", "once" or "raw"
    bufsiz, usbbuf, ptr, bufleft,  \* its variables; ptr is an index of usbbuf
    expected,   \* history: bytes taken since the last usb_buffer_clear
    delivered   \* history: bytes that reads have returned since then

localVars == <<bufsiz, usbbuf, ptr, bufleft>>
usbReadVars == <<sent, taken, usb_buffer, kind, bufsiz, usbbuf, ptr, bufleft, expected,
                 delivered>>

UsbReadTypeOK ==
    /\ sent \in 0..NBytes /\ taken \in 0..sent
    /\ {usb_buffer, usbbuf, expected, delivered} \subseteq Seq(0..NBytes)
    /\ kind \in {"none", "line", "once", "raw", "finish line", "finish raw"}
    /\ bufsiz \in 0..USB_MAX_READ /\ ptr \in 0..USB_MAX_READ /\ bufleft \in Int

UsbReadInit ==
    /\ sent = 0 /\ taken = 0 /\ usb_buffer = <<>>
    /\ kind = "none" /\ bufsiz = 0 /\ usbbuf = <<>> /\ ptr = 0 /\ bufleft = 0
    /\ expected = <<>> /\ delivered = <<>>

DeviceSends ==
    /\ sent < NBytes
    /\ sent' = sent + 1
    /\ UNCHANGED <<taken, usb_buffer, kind, expected, delivered>> /\ UNCHANGED localVars

BufferClear ==
    /\ kind = "none"
    /\ usb_buffer' = <<>> /\ expected' = <<>> /\ delivered' = <<>>
    /\ UNCHANGED <<sent, taken, kind>> /\ UNCHANGED localVars

FinishOf(k) == IF k = "line" THEN "finish line" ELSE "finish raw"

(* What is in the buffer comes first.                                      *)
BeginRead(k, size) ==
    /\ kind = "none"
    /\ size \in (IF k = "line" THEN LineSizes ELSE RawSizes)
    /\ bufsiz' = size /\ usbbuf' = usb_buffer /\ ptr' = Len(usb_buffer)
    /\ bufleft' = size - Len(usb_buffer)
    /\ usb_buffer' = <<>>
    /\ kind' = IF bufleft' > 0 THEN k ELSE FinishOf(k)
    /\ UNCHANGED <<sent, taken, expected, delivered>>

HasEnd(s) == \E i \in DOMAIN s : s[i] \in Ends
FirstEnd(s) == CHOOSE i \in DOMAIN s : s[i] \in Ends /\ \A j \in 1..(i - 1) : s[j] \notin Ends

(* How much the loop asks for.                                             *)
Room == IF buffered THEN USB_MAX_READ - Len(usbbuf) ELSE bufleft

(* A transfer, the clearing of a pipe error and the further tries of it    *)
(* included, moves at most a packet.                                       *)
usb_bulk_transfer(got, length) ==
    /\ got <= sent - taken /\ got <= length /\ got <= Packet
    /\ taken' = taken + got
    /\ expected' = expected \o [i \in 1..got |-> taken + i]

(* The end of a pass of the loop that got some data.  ptr stays where it   *)
(* is if the loop ends on an error, on a single transfer or on the end of  *)
(* a line, and moves behind the data if it ends on a full buffer or the    *)
(* time limit.                                                             *)
Advance(got, stop, late) ==
    /\ usbbuf' = usbbuf \o [i \in 1..got |-> taken + i]
    /\ ptr' = IF stop THEN ptr ELSE ptr + got
    /\ bufleft' = IF stop THEN bufleft ELSE bufleft - got
    /\ kind' = IF stop \/ late \/ bufleft' <= 0 THEN FinishOf(kind) ELSE kind
    /\ UNCHANGED <<sent, usb_buffer, bufsiz, delivered>>

TransferRaw(got, err, late) ==
    /\ kind \in {"once", "raw"}
    /\ usb_bulk_transfer(got, Room)
    /\ Advance(got, err \/ kind = "once", late)

TransferLine(got, err, late) ==
    /\ kind = "line"
    /\ usb_bulk_transfer(got, Room)
    /\ Advance(got, err \/ HasEnd(usbbuf'), late)

Return(n, rest) ==
    /\ usb_buffer' = rest
    /\ delivered' = delivered \o SubSeq(usbbuf, 1, n)
    /\ kind' = "none"
    /\ bufsiz' = 0 /\ usbbuf' = <<>> /\ ptr' = 0 /\ bufleft' = 0
    /\ UNCHANGED <<sent, taken, expected>>

Beyond(s, from, n) == [i \in 1..n |-> IF from + i <= Len(s) THEN s[from + i] ELSE Garbage]

(* memcpy(usbdev->buffer, ptr + bufsiz, usbdev->bufamt)                    *)
FinishRaw ==
    /\ kind = "finish raw"
    /\ LET extra == IF buffered /\ Len(usbbuf) > bufsiz THEN Len(usbbuf) - bufsiz ELSE 0
       IN  Return(Len(usbbuf) - extra, Beyond(usbbuf, ptr + bufsiz, extra))

FinishAtSize ==
    /\ kind = "finish line"
    /\ LET n == IF buffered /\ Len(usbbuf) > bufsiz THEN bufsiz ELSE Len(usbbuf)
       IN  Return(n, SubSeq(usbbuf, n + 1, Len(usbbuf)))

(* Up to the first end of a line, if that is within bufsiz.                *)
FinishLine ==
    /\ kind = "finish line"
    /\ LET upto == IF HasEnd(usbbuf) THEN FirstEnd(usbbuf) ELSE Len(usbbuf)
           n == IF ~buffered THEN Len(usbbuf) ELSE IF upto > bufsiz THEN bufsiz ELSE upto
       IN  Return(n, SubSeq(usbbuf, n + 1, Len(usbbuf)))

UsbReadNext ==
    \/ DeviceSends \/ BufferClear
    \/ \E k \in {"line", "once", "raw"}, size \in LineSizes \union RawSizes : BeginRead(k, size)
    \/ \E got \in 0..Packet, err, late \in BOOLEAN :
          TransferRaw(got, err, late) \/ TransferLine(got, err, late)
    \/ FinishRaw \/ FinishLine

UsbReadSpec == UsbReadInit /\ [][UsbReadNext]_usbReadVars

-----------------------------------------------------------------------------
(* _usb_read ("buffering %d extra bytes"): however the transfers cut the   *)
(* stream, what reads return and what is buffered is what the device has   *)
(* sent, in order.  Does not hold with raw reads of less than the maximum: *)
(* they keep what is behind the data instead of what is behind bufsiz.     *)
NothingLost == kind = "none" => delivered \o usb_buffer = expected

(* A buffered device's read of a line returns nothing behind its end: a    *)
(* second answer that came along stays for the next read.                  *)
OneLine ==
    [][buffered /\ kind = "finish line" =>
         LET new == SubSeq(delivered', Len(delivered) + 1, Len(delivered'))
         IN  HasEnd(new) => FirstEnd(new) = Len(new)]_usbReadVars

(* No byte of a device is lost or moved by the buffer of _usb_read, and a  *)
(* read of a line returns one line (with the types of the module).         *)
StreamKept == []UsbReadTypeOK /\ []NothingLost /\ OneLine
=============================================================================
