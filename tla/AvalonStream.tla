---------------------------- MODULE AvalonStream ----------------------------
(***************************************************************************)
(* The reading thread of the Avalon driver puts a stream of bytes together *)
(* to results.                                                             *)
(*                                                                         *)
(* A result is READ_SIZE cells <<w, 1>>, <<w, 2>>, ...; anything else that *)
(* comes over the wire is Noise.  Which works are in the table is up to    *)
(* AvalonQueue: they come and go at any time here.                         *)
(***************************************************************************)
EXTENDS Integers, Sequences, FiniteSets, SequencesExt

CONSTANTS READ_SIZE,       \* AVALON_READ_SIZE, in cells
          READBUF,         \* AVALON_READBUF_SIZE, in cells
          Chunk,           \* AVALON_FTDI_READSIZE, in cells
          StreamWorks,
          MaxResults, MaxNoise \* bounds on what the device sends

ASSUME AvStreamAssumption ==
    /\ {READ_SIZE, READBUF, Chunk} \subseteq Nat \ {0} /\ StreamWorks \subseteq Nat \ {0}
    /\ {MaxResults, MaxNoise} \subseteq Nat

Noise == <<0, 0>>

VARIABLES
    matching,    \* works a result may be of: those in cgpu->queued_work
    pipe,        \* external: what the device has sent and was not read
    sent_results, noises,
    readbuf,
    reader       \* where the reading thread is

avStreamVars == <<matching, pipe, sent_results, noises, readbuf, reader>>

AvStreamTypeOK ==
    /\ matching \subseteq StreamWorks /\ Len(readbuf) < READBUF + Chunk
    /\ sent_results \in 0..MaxResults /\ noises \in 0..MaxNoise
    /\ reader \in {"parse", "check", "read"}

AvStreamInit ==
    /\ matching = StreamWorks /\ pipe = <<>> /\ sent_results = 0 /\ noises = 0
    /\ readbuf = <<>> /\ reader = "parse"

TableChanges(S) ==
    /\ matching' = S
    /\ UNCHANGED <<pipe, sent_results, noises, readbuf, reader>>

DeviceSendsResult(w) ==
    /\ sent_results < MaxResults
    /\ pipe' = pipe \o [i \in 1..READ_SIZE |-> <<w, i>>]
    /\ sent_results' = sent_results + 1
    /\ UNCHANGED <<matching, noises, readbuf, reader>>

DeviceSendsNoise ==
    /\ noises < MaxNoise
    /\ pipe' = Append(pipe, Noise) /\ noises' = noises + 1
    /\ UNCHANGED <<matching, sent_results, readbuf, reader>>

ResultAt(i) ==
    \E w \in matching : \A k \in 1..READ_SIZE : readbuf[i + k - 1] = <<w, k>>
ResultsInBuf == {i \in 1..(Len(readbuf) - READ_SIZE + 1) : ResultAt(i)}
FirstResult == CHOOSE i \in ResultsInBuf : \A j \in ResultsInBuf : i <= j
From(i) == SubSeq(readbuf, i, Len(readbuf))

(* avalon_parse_results: up to the end of the first result; without one,   *)
(* all but the last READ_SIZE bytes, once these are twice as many.         *)
ParsedAll(found) == IF found THEN From(FirstResult + READ_SIZE) ELSE <<>>

Parsed(found) ==
    IF found THEN From(FirstResult + READ_SIZE)
    ELSE IF Len(readbuf) < 2 * READ_SIZE THEN readbuf
    ELSE From(Len(readbuf) - READ_SIZE + 1)

(* One result for each read.                                               *)
ParseResults ==
    /\ reader = "parse"
    /\ readbuf' = IF Len(readbuf) < READ_SIZE THEN readbuf ELSE Parsed(ResultsInBuf # {})
    /\ reader' = "check"
    /\ UNCHANGED <<matching, pipe, sent_results, noises>>

(* A buffer that might not hold another read is emptied, and so it is by a *)
(* reset.                                                                  *)
CheckBuffer(reset) ==
    /\ reader = "check"
    /\ readbuf' = IF reset \/ Len(readbuf) + Chunk >= READBUF THEN <<>> ELSE readbuf
    /\ reader' = "read"
    /\ UNCHANGED <<matching, pipe, sent_results, noises>>

ReadChunk(n) ==
    /\ reader = "read" /\ n <= Len(pipe)
    /\ readbuf' = readbuf \o SubSeq(pipe, 1, n)
    /\ pipe' = SubSeq(pipe, n + 1, Len(pipe))
    /\ reader' = IF n = 0 THEN "read" ELSE "parse"
    /\ UNCHANGED <<matching, sent_results, noises>>

AvStreamNext ==
    \/ \E S \in SUBSET StreamWorks : TableChanges(S)
    \/ \E w \in StreamWorks : DeviceSendsResult(w)
    \/ DeviceSendsNoise \/ ParseResults
    \/ \E reset \in BOOLEAN : CheckBuffer(reset)
    \/ \E n \in 0..Chunk : ReadChunk(n)

AvStreamSpec == AvStreamInit /\ [][AvStreamNext]_avStreamVars

-----------------------------------------------------------------------------
(* avalon_parse_results puts the stream together again: whatever noise and *)
(* however the reads cut it, a parse throws away no result, whole or so    *)
(* far as it has come, of a work in the table, but the one it submits.     *)
ResultStarts(buf) ==
    {i \in DOMAIN buf :
        \E w \in matching : \A k \in 1..READ_SIZE :
                   i + k - 1 <= Len(buf) => buf[i + k - 1] = <<w, k>>}

StreamResultsKept ==
    [][reader = "parse" /\ reader' = "check" =>
         Cardinality(ResultStarts(readbuf')) >=
           Cardinality(ResultStarts(readbuf)) - (IF ResultsInBuf # {} THEN 1 ELSE 0)]_avStreamVars
=============================================================================
