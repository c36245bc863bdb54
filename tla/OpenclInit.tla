----------------------------- MODULE OpenclInit -----------------------------
(***************************************************************************)
(* initCl (ocl.c): how a GPU thread divides the memory of its card, and of *)
(* the system, into the pad buffers of ROMix, gets the kernel compiled for *)
(* that division - from source, or from the binary an earlier start left   *)
(* on the disk - and creates the buffers.                                  *)
(*                                                                         *)
(* Sizes are in units of which a group of work items takes GroupSize; a    *)
(* work group is one thread.  A program is known by the division it was    *)
(* compiled for (-D THREADS_PER_BUFFER_0=... and the others).              *)
(***************************************************************************)
EXTENDS Naturals, Sequences

CONSTANTS GroupSize,    \* each_group_size
          OtherSize,    \* CLbuffer0 and outputBuffer
          TempSize,     \* temp_X (and temp_X2) for each thread
          DefaultReserve,\* the 200 MB kept when the free memory is not known
          Platforms,    \* number of devices of each platform, one choice or more
          Cards,        \* [global_mem_size, max_alloc, amd]
          Rams,         \* the system memory available at a start
          NumEnabled,   \* enabled GPUs, which share the system memory
          Options,      \* what the operator asks for
          MaxStarts     \* bound: starts of the program

ASSUME InitClAssumption ==
  /\ GroupSize \in Nat \ {0} /\ NumEnabled \in Nat \ {0}
  /\ OtherSize \in Nat /\ TempSize \in Nat /\ DefaultReserve \in Nat /\ MaxStarts \in Nat
  /\ Cards \subseteq [global_mem_size: Nat, max_alloc: Nat, amd: BOOLEAN]
  /\ \A c \in Cards: c.global_mem_size >= OtherSize
  /\ Rams \subseteq Nat
  /\ \A o \in Options: o.tc \in Nat /\ o.reserve_vram \in Nat /\ o.reserve_ram \in Nat
  /\ Cards # {} /\ Options # {} /\ Rams # {}

VARIABLES step,      \* where initCl is
          card, option, ram,
          layout,    \* thread_concurrency and the groups of each buffer
          program,   \* the layout the program was compiled for
          held,      \* units of card memory and buffers created so far
          disk,      \* the .bin files, by what their name tells
          starts

initClVars == <<step, card, option, ram, layout, program, held, disk, starts>>

MaxVramBuffers == 5
MaxRamBuffers == 2
NoLayout == [tc |-> 0, vram |-> <<>>, ram |-> <<>>]
NoFile == [whole |-> FALSE, of |-> NoLayout]
Free == [vram |-> 0, ram |-> 0, memory |-> 0]
Least(a, b) == IF a < b THEN a ELSE b
Ceiling(a, b) == (a + b - 1) \div b
Total(s) ==
  LET sum[i \in 0..Len(s)] == IF i = 0 THEN 0 ELSE sum[i - 1] + s[i]
  IN  sum[Len(s)]

InitSteps == {"idle", "detect", "device", "layout", "open", "build", "save", "kernels",
              "pads", "others", "ready", "failed", "quit"}

InitTypeOK ==
  /\ step \in InitSteps
  /\ card \in Cards /\ option \in Options /\ ram \in Rams
  /\ layout \in [tc: Nat, vram: Seq(Nat), ram: Seq(Nat)]
  /\ program \in [tc: Nat, vram: Seq(Nat), ram: Seq(Nat)]
  /\ held \in [vram: 0..MaxVramBuffers, ram: 0..MaxRamBuffers, memory: Nat]
  /\ starts \in 0..MaxStarts

----------------------------------------------------------------------------
(* Devices: clDevicesNum *)

\* The platform with the most devices, the first of them.
MostDevices(platforms) ==
  CHOOSE p \in DOMAIN platforms :
    /\ \A q \in DOMAIN platforms : platforms[q] <= platforms[p]
    /\ \A q \in 1..p - 1 : platforms[q] < platforms[p]

----------------------------------------------------------------------------
(* The division of the memory *)

\* get_available_system_ram_per_gpu
AvailableRam(available, reserve) ==
  (IF available > reserve THEN available - reserve ELSE 0) \div NumEnabled

\* What is left of the card for pad buffers.  use_split_kernels is still false
\* when this is computed: the temporary buffers are not counted.
RemainingVram(c, o) ==
  LET reserve == IF o.reserve_vram > 0 THEN o.reserve_vram
                 ELSE IF c.amd THEN 0 ELSE DefaultReserve
      reserved == reserve + OtherSize
  IN  IF c.global_mem_size > reserved THEN c.global_mem_size - reserved ELSE 0

\* n groups over so many buffers, none with more than most of them: each takes
\* its share of what is left, rounded up.
Share(left, i, buffers, most) == Least(Ceiling(left, buffers - i + 1), most)
Left(n, buffers, most) ==
  LET left[i \in 0..buffers] ==
        IF i = 0 THEN n ELSE left[i - 1] - Share(left[i - 1], i, buffers, most)
  IN  left
Spread(n, buffers, most) ==
  [i \in 1..buffers |-> Share(Left(n, buffers, most)[i - 1], i, buffers, most)]

\* configure_vram_padbuffers: no buffer at all unless the memory that is left is
\* larger than one allocation can be.
VramGroups(c, need, remaining) ==
  LET most == c.max_alloc \div GroupSize
  IN  IF remaining > c.max_alloc /\ need > 0 /\ most > 0
      THEN Spread(need, Least(Ceiling(need, most), MaxVramBuffers), most)
      ELSE <<>>

\* configure_ram_padbuffers
RamGroups(c, o, need) ==
  LET most == IF o.limit_ram THEN c.max_alloc \div GroupSize ELSE need
  IN  IF need = 0 \/ most = 0 THEN <<>>
      ELSE Spread(need, Least(Ceiling(need, most), MaxRamBuffers), most)

\* The division for a card, or NoLayout where initCl gives up.
Layout(c, o, available) ==
  LET remaining == RemainingVram(c, o)
      groups == IF o.tc = 0 THEN remaining \div GroupSize + available \div GroupSize ELSE o.tc
      vram == VramGroups(c, Least(groups, remaining \div GroupSize), remaining)
      forRam == groups - Total(vram)
      inRam == IF available > 0 THEN RamGroups(c, o, forRam) ELSE <<>>
  IN  [tc |-> groups, vram |-> vram, ram |-> inRam]

\* Takes the division as it comes.
LayoutUnchecked(c, o, available, l) == c.max_alloc \div GroupSize > 0

\* What initCl insists on: a group fits an allocation, all of them fit the
\* memory, the system has room for its part, and every group has a buffer.
LayoutAccepted(c, o, available, l) ==
  LET remaining == RemainingVram(c, o)
  IN  /\ remaining + available > 0 => l.tc * GroupSize <= remaining + available
      /\ c.max_alloc \div GroupSize > 0
      /\ available > 0 => l.tc - Total(l.vram) <= available \div GroupSize
      /\ Total(l.vram) + Total(l.ram) = l.tc

----------------------------------------------------------------------------

InitClInit ==
  /\ step = "idle"
  /\ card = (CHOOSE c \in Cards : TRUE) /\ option = (CHOOSE o \in Options : TRUE)
  /\ ram = (CHOOSE r \in Rams : TRUE)
  /\ layout = NoLayout /\ program = NoLayout
  /\ held = Free
  /\ disk = [f \in {} |-> NoFile]
  /\ starts = 0

\* The program starts: other programs may leave more or less memory free, and
\* the operator may have other wishes.
Start ==
  /\ step = "idle"
  /\ starts < MaxStarts
  /\ starts' = starts + 1
  /\ card' \in Cards /\ option' \in Options /\ ram' \in Rams
  /\ step' = "detect"
  /\ UNCHANGED <<layout, program, held, disk>>

\* clDevicesNum and opencl_detect; -1 or no device: nothing to initialise.
Detect ==
  /\ step = "detect"
  /\ \E platforms \in Platforms :
       step' = IF platforms # <<>> /\ platforms[MostDevices(platforms)] > 0
               THEN "device" ELSE "failed"
  /\ UNCHANGED <<card, option, ram, layout, program, held, disk, starts>>

\* The platform, the device, its context, command queue and properties.
Device ==
  /\ step = "device"
  /\ step' \in {"layout", "failed"}
  /\ UNCHANGED <<card, option, ram, layout, program, held, disk, starts>>

Configure ==
  LET available == IF option.use_system_ram THEN AvailableRam(ram, option.reserve_ram) ELSE 0
      l == Layout(card, option, available)
  IN  /\ step = "layout"
      /\ IF LayoutAccepted(card, option, available, l)
         THEN layout' = l /\ step' = "open"
         ELSE layout' = NoLayout /\ step' = "failed"
      /\ UNCHANGED <<card, option, ram, program, held, disk, starts>>

\* The name of the .bin file: kernel, device, lookup gap, thread concurrency and
\* work size - all the same here but the concurrency.
FileName(l) == l.tc
OnDisk(f) == IF f \in DOMAIN disk THEN disk[f] ELSE NoFile
Writes(f, content) == disk' = [g \in DOMAIN disk \union {f} |-> IF g = f THEN content ELSE disk[g]]

\* A file of that name is loaded, whatever it was compiled for; an empty or a
\* broken one is compiled again.
OpenBinary ==
  /\ step = "open"
  /\ LET found == OnDisk(FileName(layout))
     IN  IF found.whole
         THEN step' = "kernels" /\ program' = found.of
         ELSE step' = "build" /\ UNCHANGED program
  /\ UNCHANGED <<card, option, ram, layout, held, disk, starts>>

Build ==
  /\ step = "build"
  /\ \/ step' = "save" /\ program' = layout
     \/ step' = "failed" /\ UNCHANGED program
  /\ UNCHANGED <<card, option, ram, layout, held, disk, starts>>

\* The binary is saved for the next start: the file cannot be opened (no
\* matter), or not all of it can be written (initCl gives up).
Save ==
  /\ step = "save"
  /\ \/ step' = "kernels" /\ UNCHANGED disk
     \/ step' = "kernels" /\ Writes(FileName(layout), [whole |-> TRUE, of |-> program])
     \/ step' = "failed" /\ Writes(FileName(layout), NoFile)
  /\ UNCHANGED <<card, option, ram, layout, program, held, starts>>

Kernels ==
  /\ step = "kernels"
  /\ step' \in {"pads", "failed"}
  /\ UNCHANGED <<card, option, ram, layout, program, held, disk, starts>>

InVram == held.vram < Len(layout.vram)
InRam == ~InVram /\ held.ram < Len(layout.ram)

\* The next pad buffer, on the card and then in the system's memory.
CreatePad ==
  /\ step = "pads"
  /\ \/ /\ InVram
        /\ held' = [held EXCEPT !.vram = @ + 1, !.memory = @ + layout.vram[held.vram + 1] * GroupSize]
        /\ UNCHANGED step
     \/ /\ InRam
        /\ held' = [held EXCEPT !.ram = @ + 1]
        /\ UNCHANGED step
     \/ /\ ~InVram /\ ~InRam
        /\ step' = "others" /\ UNCHANGED held
  /\ UNCHANGED <<card, option, ram, layout, program, disk, starts>>

\* A pad buffer cannot be created: those there are go, and the GPU is given up,
\* or the program if it is the system's memory that is missing.
PadFails ==
  /\ step = "pads"
  /\ \/ InVram /\ step' = "failed"
     \/ InRam /\ step' \in {"quit"} \union
                 (IF option.limit_ram /\ layout.ram[held.ram + 1] * GroupSize > card.max_alloc
                  THEN {"failed"} ELSE {})
  /\ held' = [held EXCEPT !.vram = 0, !.ram = 0, !.memory = 0]
  /\ UNCHANGED <<card, option, ram, layout, program, disk, starts>>

TempBuffers(o, l) == IF o.split THEN 2 * TempSize * l.tc ELSE 0

\* CLbuffer0, outputBuffer and, for the split kernels, temp_X and temp_X2.
CreateOthers ==
  /\ step = "others"
  /\ \/ /\ held' = [held EXCEPT !.memory = @ + OtherSize + TempBuffers(option, layout)]
        /\ step' = "ready"
     \/ step' = "failed" /\ UNCHANGED held
  /\ UNCHANGED <<card, option, ram, layout, program, disk, starts>>

\* The driver takes back what the program held when it ends.
Released ==
  /\ step' = "idle"
  /\ layout' = NoLayout /\ program' = NoLayout /\ held' = Free
  /\ UNCHANGED <<card, option, ram, disk, starts>>

\* opencl_thread_prepare: the thread has its clState and mines, until the end.
Prepared == step = "ready" /\ Released

\* The device is disabled, never started; or the whole program has quit.
GivenUp == step = "failed" /\ Released
Quit == step = "quit" /\ Released

InitClNext ==
  \/ Start \/ Detect \/ Device \/ Configure \/ OpenBinary \/ Build \/ Save
  \/ Kernels \/ CreatePad \/ PadFails \/ CreateOthers
  \/ Prepared \/ GivenUp \/ Quit

InitClSpec == InitClInit /\ [][InitClNext]_initClVars

----------------------------------------------------------------------------

\* A GPU that is ready has a place for every group of its work items, in buffers
\* the device can allocate and that fit what was left of the card - the
\* temporary buffers of the split kernels apart, which come on top.  With the
\* module's types.
GroupsHaveRoom ==
  /\ InitTypeOK
  /\ step = "ready" =>
    /\ Total(layout.vram) + Total(layout.ram) = layout.tc
    /\ held.vram = Len(layout.vram) /\ held.ram = Len(layout.ram)
    /\ \A i \in DOMAIN layout.vram : layout.vram[i] * GroupSize <= card.max_alloc
    /\ held.memory - TempBuffers(option, layout) <= card.global_mem_size

\* "ensure we only load a binary that matches what would have otherwise
\* created" (ocl.c): the kernels run with the buffers they were compiled for.
BinaryMatches == step = "ready" => program = layout
=============================================================================
