--------------------------- MODULE ModMinerBoard ---------------------------
(***************************************************************************)
(* The FPGAs of one ModMiner board (driver-modminer.c): each has a mining  *)
(* thread, and all talk through one USB pipe, a command and its reply at a *)
(* time under modminer_mutex.  Nothing in a reply says which command it    *)
(* answers; only the mutex keeps the conversations apart.                  *)
(*                                                                         *)
(* The commands' contents are left out, and so is what ModMinerClock says  *)
(* of the clock; a thread whose FPGA fails is not enabled again, and a     *)
(* piece of the bitstream may be cut short any number of times.            *)
(***************************************************************************)
EXTENDS Naturals, Sequences

CONSTANTS Fpga,        \* the FPGAs a board can have
          NumChunks,   \* WRITE_SIZE pieces of the bitstream
          MaxLate      \* bound on the replies that come after their reader gave up

ASSUME BoardAssumption ==
  {NumChunks, MaxLate} \subseteq Nat /\ Fpga \intersect {"free", "nobody"} = {}

VARIABLES mutex,       \* who holds modminer_mutex, or "free"
          board_pipe,  \* replies on their way, oldest first
          board,       \* detection's step, and whether the board holds the bitstream
          fpga,        \* the threads
          board_seen   \* late replies, an unlock of another's mutex, a foreign reply read

boardVars == <<mutex, board_pipe, board, fpga, board_seen>>

\* A query asks for the temperature or for nonces, or sets the clock: all three
\* are a command with one reply, and when it fails the thread goes on.
Kinds == {"usercode", "start", "chunk", "final", "work", "query"}
Upload == {"start", "chunk", "final"}
OldReply == [of |-> "nobody", kind |-> "noise"]

\* Type invariant of the board and its threads.
BoardTypeOK ==
  /\ mutex \in Fpga \cup {"free"}
  /\ board_pipe \in Seq([of: Fpga, kind: Kinds] \cup {OldReply})
  /\ board \in [step: {"ping", "version", "count", "found", "no"}, programmed: BOOLEAN]
  /\ fpga \in [Fpga -> [pc: {"off", "init", "load", "write", "wait", "undame", "idle", "poll", "gone"},
                        kind: Kinds, left: 0..NumChunks]]
  /\ board_seen \in [late: 0..MaxLate, twice: BOOLEAN, foreign: BOOLEAN]

\* The board may hold replies of an earlier program, and a bitstream.
BoardInit ==
  /\ mutex = "free"
  /\ board_pipe \in {<<>>, <<OldReply>>}
  /\ \E p \in BOOLEAN : board = [step |-> "ping", programmed |-> p]
  /\ fpga = [f \in Fpga |-> [pc |-> "off", kind |-> "usercode", left |-> NumChunks]]
  /\ board_seen = [late |-> 0, twice |-> FALSE, foreign |-> FALSE]

----------------------------------------------------------------------------
(* modminer_detect_one: no other thread knows the board yet *)

\* do_ping: noops are sent, and what is in the pipe is read until nothing comes.
Ping ==
  /\ board.step = "ping"
  /\ board_pipe' = <<>>
  /\ board' = [board EXCEPT !.step = "version"]
  /\ UNCHANGED <<mutex, fpga, board_seen>>

\* The version and the number of FPGAs are asked for; a reply that is late,
\* empty or out of range ends the detection.
Version ==
  /\ board.step = "version"
  /\ board' \in {[board EXCEPT !.step = s] : s \in {"count", "no"}}
  /\ board_seen' = [board_seen EXCEPT !.foreign = @ \/ board_pipe # <<>>]
  /\ UNCHANGED <<mutex, board_pipe, fpga>>

\* As many copies as the count says, until add_cgpu refuses one; each starts a thread.
Count ==
  /\ board.step = "count"
  /\ \E found \in SUBSET Fpga :
       /\ board' = [board EXCEPT !.step = IF found = {} THEN "no" ELSE "found"]
       /\ fpga' = [f \in Fpga |-> IF f \in found THEN [fpga[f] EXCEPT !.pc = "init"] ELSE fpga[f]]
  /\ UNCHANGED <<mutex, board_pipe, board_seen>>

----------------------------------------------------------------------------
(* A conversation *)

Goes(f, pc) == fpga' = [fpga EXCEPT ![f].pc = pc]

\* Where a thread goes on when its command or its reply failed.
Fallback(f) == IF fpga[f].kind = "query" THEN "poll" ELSE "gone"

\* A query does not wait for the mutex.
LockButForQuery(f, kind) == (kind = "query" \/ mutex = "free") /\ mutex' = f

\* After a foreign reply no conversation begins or goes on: what the threads make
\* of replies that are one off from then on is not followed.
LockBoard(f, kind) == ~board_seen.foreign /\ mutex = "free" /\ mutex' = f

\* What a thread may ask next: the user code first; then a work, and queries.
Asks(f) == CASE fpga[f].pc = "init" -> {"usercode"}
             [] fpga[f].pc = "idle" -> {"work", "query"}
             [] fpga[f].pc = "poll" -> {"query"}
             [] OTHER -> {}

\* The mutex is taken; the command is written in the next step.
Ask(f) ==
  /\ \E kind \in Asks(f) :
       /\ LockBoard(f, kind)
       /\ fpga' = [fpga EXCEPT ![f].pc = "write", ![f].kind = kind]
  /\ UNCHANGED <<board_pipe, board, board_seen>>

Write(f) ==
  /\ fpga[f].pc = "write"
  /\ board_pipe' = Append(board_pipe, [of |-> f, kind |-> fpga[f].kind])
  /\ Goes(f, "wait")
  /\ UNCHANGED <<mutex, board, board_seen>>

\* usb_write failed, or wrote less: no reply will come.
BoardWriteFails(f) ==
  /\ fpga[f].pc = "write"
  /\ mutex' = "free"
  /\ Goes(f, Fallback(f))
  /\ UNCHANGED <<board_pipe, board, board_seen>>

\* A write of bitstream that was cut short is answered and goes on with the rest.
WriteSplit(f) ==
  /\ fpga[f].pc = "write" /\ fpga[f].kind = "chunk"
  /\ board_pipe' = Append(board_pipe, [of |-> f, kind |-> "chunk"])
  /\ fpga' = [fpga EXCEPT ![f].pc = "wait", ![f].left = @ + 1]
  /\ UNCHANGED <<mutex, board, board_seen>>

\* The oldest reply is taken for the thread's own.
TakesReply(f) ==
  /\ fpga[f].pc = "wait" /\ ~board_seen.foreign
  /\ board_pipe # <<>>
  /\ board_pipe' = Tail(board_pipe)
  /\ board_seen' = [board_seen EXCEPT !.foreign = @ \/ Head(board_pipe) # [of |-> f, kind |-> fpga[f].kind]]

\* A reply to anything but the upload ends the conversation; modminer_fpga_init
\* keeps the mutex if the board is not programmed.
Reply(f) ==
  /\ fpga[f].kind \notin Upload
  /\ TakesReply(f)
  /\ IF fpga[f].kind # "usercode"
     THEN mutex' = "free" /\ Goes(f, "poll")
     ELSE \E programmed \in IF Head(board_pipe).kind = "usercode" THEN {board.programmed} ELSE BOOLEAN :
            IF programmed THEN mutex' = "free" /\ Goes(f, "idle")
            ELSE UNCHANGED mutex /\ Goes(f, "load")
  /\ UNCHANGED board

\* No reply in time, or one that says no (get_status): the mutex is given back.
NoReply(f) ==
  /\ fpga[f].kind \notin Upload
  /\ \/ /\ fpga[f].pc = "wait" /\ board_seen.late < MaxLate
        /\ board_seen' = [board_seen EXCEPT !.late = @ + 1]
        /\ UNCHANGED board_pipe
     \/ fpga[f].kind = "work" /\ TakesReply(f)
  /\ mutex' = "free"
  /\ Goes(f, Fallback(f))
  /\ UNCHANGED board

\* The work's time is up.
BoardWorkEnds(f) ==
  /\ fpga[f].pc = "poll"
  /\ Goes(f, "idle")
  /\ UNCHANGED <<mutex, board_pipe, board, board_seen>>

----------------------------------------------------------------------------
(* modminer_fpga_upload_bitstream: one long conversation *)

\* The file cannot be opened or is not a bitstream, in one of many ways; each
\* gives the mutex back once.
BadFile(f) ==
  /\ fpga[f].pc = "load"
  /\ mutex' = "free"
  /\ Goes(f, "gone")
  /\ UNCHANGED <<board_pipe, board, board_seen>>

Programs(f) ==
  /\ fpga[f].pc = "load"
  /\ fpga' = [fpga EXCEPT ![f].pc = "write", ![f].kind = "start", ![f].left = NumChunks]
  /\ UNCHANGED <<mutex, board_pipe, board, board_seen>>

\* A piece was answered: the next one, and the board answers once more at the end.
NextPiece(f) ==
  IF fpga[f].kind = "final" THEN [fpga[f] EXCEPT !.pc = "idle"]
  ELSE IF fpga[f].left = 0 THEN [fpga[f] EXCEPT !.pc = "wait", !.kind = "final"]
  ELSE [fpga[f] EXCEPT !.pc = "write", !.kind = "chunk", !.left = @ - 1]

Programmed(f) ==
  /\ fpga[f].kind \in Upload
  /\ TakesReply(f)
  /\ fpga' = [fpga EXCEPT ![f] = NextPiece(f)]
  /\ board' = [board EXCEPT !.programmed = @ \/ fpga[f].kind = "final"]
  /\ mutex' = IF fpga[f].kind = "final" THEN "free" ELSE mutex

\* The board's own last word, after the last piece.
Finished(f) ==
  /\ fpga[f].pc = "wait" /\ fpga[f].kind = "final"
  /\ ~\E i \in DOMAIN board_pipe : board_pipe[i] = [of |-> f, kind |-> "final"]
  /\ board_pipe' = Append(board_pipe, [of |-> f, kind |-> "final"])
  /\ UNCHANGED <<mutex, board, fpga, board_seen>>

\* get_status gives the mutex back itself.  After the start command and after
\* the last piece the upload goes to undame, which unlocks once more.
NotProgrammed(f) ==
  /\ fpga[f].kind \in Upload
  /\ \/ /\ fpga[f].pc = "wait" /\ board_seen.late < MaxLate
        /\ board_seen' = [board_seen EXCEPT !.late = @ + 1]
        /\ UNCHANGED board_pipe
     \/ TakesReply(f)
  /\ mutex' = "free"
  /\ Goes(f, IF fpga[f].kind = "chunk" THEN "gone" ELSE "undame")
  /\ UNCHANGED board

Undame(f) ==
  /\ fpga[f].pc = "undame"
  /\ mutex' = "free"
  /\ board_seen' = [board_seen EXCEPT !.twice = @ \/ mutex # "free"]
  /\ Goes(f, "gone")
  /\ UNCHANGED <<board_pipe, board>>

BoardNext ==
  \/ Ping \/ Version \/ Count
  \/ \E f \in Fpga :
       \/ Ask(f) \/ Write(f) \/ BoardWriteFails(f) \/ WriteSplit(f) \/ Reply(f) \/ NoReply(f) \/ BoardWorkEnds(f)
       \/ BadFile(f) \/ Programs(f) \/ Programmed(f) \/ Finished(f) \/ NotProgrammed(f) \/ Undame(f)

BoardSpec == BoardInit /\ [][BoardNext]_boardVars

----------------------------------------------------------------------------

\* modminer_mutex keeps the FPGAs' conversations apart: a thread reads the
\* reply to its own command, unless an earlier reply came late or an upload
\* that failed has unlocked the mutex another thread held.
BoardReplies == board_seen.late = 0 /\ ~board_seen.twice => ~board_seen.foreign

\* "mutex must always be locked before calling": nobody is left holding the
\* mutex when no conversation is going on.
HolderTalks == mutex # "free" => fpga[mutex].pc \in {"write", "wait", "load"}
=============================================================================
