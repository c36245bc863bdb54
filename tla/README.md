# A verification project for YACMiner

YACMiner is a fork of cgminer for scrypt-chacha coins: a C program of some
twenty kinds of threads that fetches work from mining pools, queues it, hands it
to the threads that drive the devices, and submits what they find.  This
directory holds TLA+ models of it, configurations that check them with TLC, and
theorems that TLAPS checks.  `PROJECT.json` has the list of runs, the source
lines of every definition, the hazards and the theorems.

## The system and its models

| part | its state | what is hard | module |
|---|---|---|---|
| three-mode locks (`miner.h` cg_ilock, cg_rlock, cg_wlock, ...) | a mutex and a rwlock | no window in a downgrade; a writer is not starved | CgLock, WriteBiasedLock |
| stratum work generation (`gen_stratum_work`, `parse_notify`) | `pool->swork`, `nonce1`, `nonce2` under `data_lock` | a work is read over several steps while a notification resets `nonce2` | StratumWork |
| staged work (`hash_push`, `hash_pop`, `clone_work`, `roll_work`, `discard_stale`, `clear_pool_work`) | `staged_work`, `staged_rollable` | a counter kept by hand; structs passed between threads; the same search twice | StagedWork |
| fresh work (`abandon_work`, `share_result`, the scheduler) | `gws_cond`, `getq->cond`, `fresh_work_cond` | lost signals, waits without predicates | FreshWork |
| pools (`switch_pools`, `remove_pool`, `share_result`, `watchpool_thread`, API, screen) | `pools[]`, `prio`, `idle`, `enabled`, `currentpool` | fields written without the lock that `switch_pools` holds | PoolManager |
| long polls (`longpoll_thread`, `wait_lpcurrent`) | `lp_lock`, `lp_cond` | the condition is tested outside the lock | LongPoll |
| blocks (`test_work_current`, `stage_work`, `stale_work`) | `blocks`, `work_block`, `new_blocks` | look, then insert under another lock; counters without a lock | BlockDetect |
| getwork submission (`submit_work_thread`, `pop_curl_entry`, `reap_curl`) | each pool's ring of curl handles | a thread per share, retried until stale; the scheduler waits for a handle behind them | SubmitWork |
| stratum shares (`stratum_sthread`, `stratum_rthread`) | `stratum_q`, `stratum_shares`, `sessionid` | lost connections, resumed sessions, answers out of order | StratumShares |
| stratum connection (`initiate_stratum`, `auth_stratum`, `recv_line`, `parse_method`) | the socket, `sockbuf`, `stratum_active` | another thread closes the connection and clears the buffer | StratumClient |
| GPU threads (`miner_thread`, `watchdog_thread`, `reinit_gpu`, `gpuenable`, `gpu_autotune`) | `deven`, `status`, `pause`, a semaphore per thread | a flag and a post must go together, by five agents | DeviceControl |
| GPU search (`hash_sole_work`, `opencl_scanhash`, `postcalc_hash`) | `blk.nonce`, `max_hashes`, the output buffer | a field shared by the threads of a GPU; calls that fail half way | OpenclHash |
| GPU start (`initCl`, `clDevicesNum`) | memory, pad buffers, binaries on the disk | divisions with roundings; a cached binary | OpenclInit |
| fans, clocks, temperatures (`adl.c`) | a table of adapters, twins, `autofan` | which of two GPUs of one card has the fan; giving the card back as it was | AdlControl |
| queued devices and BFLSC (`hash_queued_work`, `driver-bflsc.c`) | `queued_work`, `queued_count`, `device_mutex` | three threads and a second try | BflscQueue |
| Avalon (`driver-avalon.c`) | a ring of arrays of works, a stream of bytes | a result may come late, in pieces, with noise | AvalonQueue, AvalonStream |
| ModMiner (`driver-modminer.c`) | a clock per FPGA, one pipe for four FPGAs | replies that do not say what they answer | ModMinerClock, ModMinerBoard |
| BitForce (`driver-bitforce.c`) | one serial line for the miner and the watchdog, `nonce_range`, `sleep_ms` | the same, and replies that are late | BitForce |
| Icarus (`driver-icarus.c`) | the bytes of a nonce, `read_time`, the history of measurements | nothing says what work a nonce is for | IcarusWork, IcarusTiming |
| USB (`usbutils.c`) | devices in use, locks for other programs, a buffer per device | a resource thread that takes and gives back locks; hotplug, which is cancelled wherever it is | UsbLayer, UsbRead |
| API (`api.c`) | groups of callers, the reply buffer | a buffer that is full; who may do what | ApiServer |
| settings (`yacminer.c` options, `write_config`) | options per GPU, files | what is saved must be read back for the same GPU | Config |
| start and end (`main`, `kill_work`, `app_restart`, `quit`) | the threads there are, the console lock | threads are cancelled with a lock held | Shutdown |

How they meet.  The scheduler, which `main` has become, calls work generation
and `stage_work`; miners call `hash_pop` and, through `submit_work_async`, the
send thread of a pool or a thread of their own.  `share_result`, `pool_died` and
the operator call `switch_pools`, which clears staged work and wakes the long
polls.  `restart_threads`, called for a new block, a switch or a lost connection,
makes every miner give up its work.  Drivers call `submit_nonce` and the USB
layer.  The watchdog looks at devices and temperatures.  The API and the screen
act on everything.

`opt_scrypt` starts true (yacminer.c:113) and no option clears it, so `main`
(7989, 8273) detects FPGAs and ASICs only in a build without `USE_SCRYPT`
(miner.h:1012); the drivers are modelled as they run there.

## How the modules are put together

StratumWork EXTENDS CgLock: each of its steps happens under the locks of the
code.  CgLock implements WriteBiasedLock through a refinement mapping.  The
others meet at seams, where one module takes as an input what another makes:
StagedWork takes a stratum job as a number, FreshWork the queue as two counts,
PoolManager "rejects" and "accepts" as events, StratumShares the connection's
coming and going, DeviceControl the end of a scan, AvalonQueue the results that
AvalonStream puts together, BlockDetect the headers that long polls and the
scheduler bring.

In all modules a critical section that calls nothing else is one step, a wait on
a condition variable ends a step, and what a thread reads outside a lock and uses
later is a variable of its own.  Variables and actions have the source's names;
names that begin otherwise are of the environment (a pool, a device, the
operator) or histories that a property needs, and are marked so.

The MC modules but MCStaged are umbrellas: each joins modules that belong
together but share no state, and `scenario`, chosen in the initial state, says
which of them runs while the others stand still.  The modules that have theorems
are EXTENDED, with their constants in the `.cfg`, so that TLC checks their
assumptions and the very definitions the theorems state; the others, and further
settings of the same module, are instantiated.  Drivers joins the USB layer and the
drivers of FPGAs and ASICs by the conjunction of their specifications, as each runs
in threads of its own, and states what is required of them together; a run in which
one moves while the others stand still is one of its behaviours.  A property of an umbrella is one of
an extended module, or the conjunction of what its name says about several, in
either case with the type invariants.  Operators that are model parameters (allow
lists, files, memories) are defined there.

## Runs

| run | instances and bounds | what it shows |
|---|---|---|
| MCStaged | 3 structs, 1 miner, rolling, in four settings of pools (getwork and stratum with `opt_fail_only`; both without it, with more jobs; getwork alone with a longer clock; more blocks) | one owner per struct; the counter is never below the truth; the search in `hash_pop` ends on a work; no search twice |
| DeviceControl | 1 GPU, 2 threads, commands, failed scans, dynamic mode, restarts | no thread waits without a reason; a GPU left enabled mines |
| DeviceAll | 1 GPU, 1 thread, all nine features, 2 tokens at most | a GPU disabled for good stops |
| FreshWork | 2 miners, `max_staged` 1, one share at a time | no miner sleeps while something is staged; requests are served; mining goes on |
| MCShares | 2 stratum shares, 2 sessions, 3 connections; a connection with lines in 2 cells and an end, reads of 2; 2 getwork shares, the scheduler and 2 curl handles | each work is freed once and counted; no share holds up the others; lines are whole; the connection comes back; handles are counted, a share counts once, the fetch of work goes on |
| MCGpu | 2 cards with 3 listings of which two are twins; 1 GPU with 2 threads, a work each and 9 nonces between 2 devices; memories of up to 17 units | a hot GPU is cooled and each card is given back; no nonce twice as long as no other thread of the GPU takes a work and its intensity does not grow, results posted; every group of work items has its pad |
| MCControl | 3 callers, a reply buffer of 5 units; 2 GPUs, 2 changes, 1 save; 2 ways to end at a time; the lock with 3 threads; under it 2 threads, 3 notifications, 2 sessions, 3 works | replies but those to quit and restart parse; groups get what they are allowed; settings survive saving and loading; the program ends; the lock implements the abstract one and a waiting writer gets in; works are snapshots of one job and none is made twice |
| MCPools | 3 pools that die, 3 that reject, a table of 2 to 3, changes of strategy; 3 long polls; 2 threads, 2 chain tips and a database of 2 blocks | the best usable pool is mined for when all is quiet; priorities are a permutation, `poolpriority`'s rounds end in the order asked for, whatever runs between them; no long poll sleeps that is needed; old work is stale |
| MCDrivers | USB: 2 addresses, 2 drivers, a limit of 1; reads: 6 bytes; BFLSC: 3 works; Avalon: a ring of 2 arrays of 2; its stream: results of 3 cells with noise; ModMiner: clocks of 3 steps, 3 FPGAs; BitForce: 2 works of 2 parts, 1 late reply; Icarus: nonces of 3 bytes, 2 works; its timing: 8 nonces, sets of 1 and 2 | locks are kept and, at the end, given back but for what hotplug was cut off from; works, parts and hashes are counted; the buffer keeps the stream; results are kept and go with their work; replies are one's own; clocks and times change on evidence |
| FreshBenchmark, DeviceRecover, WorkNotRepeated | | expected to fail, see below |

Why the bounds are enough.  Three threads are a writer, a reader and one that
comes between them.  Three structs are a master, its clone and one more.  Two
blocks, jobs or sessions are an old and a new one; a second change of the same
kind starts from a state like the first.  Three pools are the least with a backup
of a backup.  Two threads of a GPU are the one a loop has passed and the one it
has yet to reach.  A ring of two arrays wraps after the second; a database of two
blocks is full after the second.  Sizes are scaled so that each comparison goes
both ways: the reply buffer ends inside a record, a line ends in each place of a
transfer, raw reads (UsbRead) are as large as the buffer as in the drivers that
make them, a BitForce's milliseconds are the ratios of its three constants, the
Icarus's 2^32 nonces are 8 so that each `work_division` divides them.

Deadlock checking is off because the bounds, or the program's end, stop each
system.

Fairness.  Threads that can run do; beyond this:

* LockFairness: a thread inside the lock keeps running.  Of the mutex nothing is
  assumed, as a pthread mutex promises nothing to those that wait: the writer
  that is shown to get in has the mutex and waits for readers.
* FreshFairness: the watchdog's two-second timer fires and staged work expires;
  `Disturbance` names what comes from outside, and mining goes on if that does
  not come between every time.
* ShareFairness: `Discard` is strongly fair because its 120 seconds pass.
* SubmitFairness: calls end within their 60 s and works go stale.  No answer of
  the pool is assumed.
* ClientFairness: the server answers sometimes before the client's 60 s end.
* DeviceFairness: the driver returns; `Check` is strongly fair because scans
  reach a second's worth (yacminer.c:6268), after which `pause` and `deven` are
  looked at.
* AdlFairness: the watchdog goes round; a sensor is read in the end.
* ShutFairness: `KillWork` is strongly fair, as `quit_restart_lock` and the
  console lock are released again and again by those that live.

The operator is never assumed to act.

## Where the code and its words differ

Three runs show such differences.

* **DeviceRecover.**  `gpu_autotune` logs "Device recovered to temperature below
  target, re-enabling" (adl.c:1322) and sets `deven`, but posts no semaphore; a
  thread that had found `DEV_RECOVER` stays in `mt_disable`, and `gpuenable`
  refuses a GPU that is already enabled (api.c:2217).
* **FreshBenchmark.**  `abandon_work` waits on `fresh_work_cond` with no
  predicate (yacminer.c:6124).  In benchmark mode no work becomes stale and no
  share is accepted, so once the queue is full and every miner has found
  something, nobody pushes again; FRESH_WORK_SOLUTION.md:218 says "No deadlocks
  through careful lock management".
* **WorkNotRepeated.**  The threads of a GPU share `max_hashes`.  One that takes
  a new work sets it to 0 (yacminer.c:6185) between the other's kernel and its
  `work->blk.nonce += gpu->max_hashes` (driver-opencl.c:2192), which then
  searches the same nonces again; driver-opencl.c:2190 says "we increment the
  work more than enough to prevent repeating work".

For these, a module states the words as a definition that the code does not
satisfy ("Does not hold" in its comment), and no run checks it:

| definition | module | what happens |
|---|---|---|
| SharesAreFreed | SubmitWork | submitted works are not freed by `submit_work_thread` unless stale (yacminer.c:1775 says `clean_work` is the central place) |
| RejectingPolls | LongPoll | a rejecting pool's long poll sleeps like any other |
| AbsoluteLimit | UsbLayer | `release_cgpu` counts down devices that were not counted, and multi-chip devices once per chip |
| OneConversation, NotFreedInUse | BflscQueue | the second try after ERR:TIMEOUT goes out without the lock (driver-bflsc.c:1872); `scanwork` frees works the results thread has found |
| AlwaysCounted | BflscQueue | such a work is completed once more: its struct is zeroed, so `HASH_DEL` takes it for the only element and frees the table (uthash.h:198), while `queued_count` stays: `fill_queue` (yacminer.c:6334), which gets work only when both are equal, gets none any more unless the count was 0 |
| GoneCloses | AvalonQueue | when the device has gone the writing thread waits for `write_sem` for ever |
| GotReply | ApiServer | `send_result` sends from the start of the reply again when `send` takes only a part |
| JsonIsAnswered | ApiServer | the reply to `quit` and `restart` is `{"BYE","id":1}`, a name without a value (api.c:2802), though API-README:57 says that a JSON request gets a JSON reply |
| SavedFileParses | Config | with the first GPU's intensity not positive the file has a list that begins with a comma (yacminer.c:4294) |
| JobIsOfSession | StratumClient | `stratum_notify` outlives its session |
| MappedIsMonitored | AdlControl | with `--gpu-map` only the first GPUs, as many as there are cards, are set up |
| BinaryMatches | OpenclInit | a binary's name does not tell the division among buffers it was compiled for (ocl.c:734) |

Others were met on the way; the models behave so and nothing speaks against it.

* Pools: `pool_resus` (yacminer.c:5754) does not switch to a backup that returns
  when the dead current pool has the better priority; `disablepool` does not
  count (api.c:2591); `removepool` tests and removes with a gap (api.c:2630);
  late shares reject or enable a pool the operator has disabled (yacminer.c:2742,
  2664).
* Stratum: a share enters `stratum_shares` after it has been sent
  (yacminer.c:5502), so an early answer counts it twice; shares go out between
  subscription and authorisation (util.c:1722); shares kept for a session to be
  resumed are never cleared if it is not (yacminer.c:5384); work generation can
  meet a session that has just been forgotten (util.c:1736).
* Work: removing rollable work leaves `staged_rollable` too high
  (yacminer.c:3826); old work staged late is stamped as current (yacminer.c:4139).
* GPUs: `gpuenable` racing with a failed scan (api.c:2230), the schedule's resume
  with disabled devices (yacminer.c:6938), `pause_dynamic_threads` with several
  GPUs (driver-opencl.c:763), `reinit_gpu` cancelling a thread that holds
  `stgd_lock` (driver-opencl.c:1461).
* Ends: a cancelled thread is never joined (util.c:801, yacminer.c:3222).
* USB: `hotplug_thread` is cancelled asynchronously (yacminer.c:3184, 7733).  The
  device it was detecting stays open and locked, and so do those it has found but
  not counted in `total_devices`, though `usb_cleanup` is there because a restart
  does not release locks by itself (usbutils.c:2872).  If it had `cgusbres_lock`
  (usbutils.c:1232), nobody gets that again: `usb_cleanup` waits for ever in its
  first `release_cgpu`.  Not modelled: what else it may hold, such as malloc's
  lock or `devices_lock`.
* BFLSC: a restart's flag is cleared at the top of the loop (yacminer.c:6459) and
  `scanwork` takes the oldest from its start again (driver-bflsc.c:1745).
* Avalon: `avalon_read` looks at `buf[0]` before anything is read
  (driver-avalon.c:250).
* BitForce: a late reply makes `bitforce_send_work` disable nonce ranges for good
  and send the whole work, whose first parts were searched
  (driver-bitforce.c:470); the watchdog may re-initialise the device between two
  polls of the miner.
* Icarus: nonces of old works are still taken after the buffer has been cleared
  (driver-icarus.c:883); `was_hw_error` compares the wrong way round
  (driver-icarus.c:941), so hardware errors are timed too; `read_time` has no
  lower bound after an estimate; the zero nonces that had a second nonce left out
  ("#if 0", driver-icarus.c:948) are what `_usb_read` leaves in its buffer.

## Proofs

Each theorem holds for every value of the constants that the module's named
assumption allows.  These say little: sizes are numbers, the special values are
not among the others, limits are not zero.  Some say more.  `InitClAssumption`:
a card has room for the two small buffers that are not pads (OtherSize).
`BflscAssumption`: the devices are numbered from 0.  `IcarusTimingAssumption`: eight
divides the number of nonces, which is 2^32.  `BitForceAssumption`: the device is
looked at more often than a work takes (driver-bitforce.c:59).
`ClockAssumption`: the default clock is between the least and the greatest.
`RawReadsAreFull`, a hypothesis of one theorem: reads of a buffered device that do
not stop at the end of a line ask for `USB_MAX_READ`, as those of the drivers do;
for others the theorem is false.  `CalmFeatures`, of another: see DeviceControl.

Every safety invariant and action property that a passing run checks is stated by a
theorem.  Few are inductive as they are checked.  What each needs besides is said
here; the definitions are at the head of each part of the proof modules.

**StratumWorkProofs** (CgLock, StratumWork).
`LockInvariant`: types and ownership of the two pthread locks, inductive as they
stand.  `Implements`: each of their steps is a step of WriteBiasedLock or a
stutter, under the map that takes a control point to the mode it has reached.
`NoWorkTwice` and `Snapshot` stand on that, because each step of StratumWork is a
step of CgLock: a thread uses the job and `nonce2` only while it owns the mutex
or reads (`Stored`, `Current`), and within a notification the numbers given out
rise (`Rising`), so two works of one notification differ.  `WorksAreSound` adds the
types of the works, which need that a thread that has a task is in the lock, and
gives all three as a run checks them.

**StagedWorkProofs** (StagedWork).
TypeOK, OneOwner and RollableBound are inductive together: ownership is needed to
know that a step through one pointer leaves the other structs alone, and the
counter's bound follows from the count of the staged masters before and after
each step (`Ownership`, `CounterBound`).  `PopIsSafe` follows: if more is staged
than the counter says, something that is not rollable is staged, and the search
finds it.  `NoSearchTwice` adds `Searches`: the master of a header is rolled
further than each clone made of it and each search that was taken up, or just as
far while the thread that cloned it has yet to roll it; clones of one header
differ from each other and from what was searched.

**DeviceControlProofs** (DeviceControl).
`TypeCorrect` is for every history.  `WaitsAreJustified` is for those without
thermal cutoff, schedule, hangs and failed starts, without both `gpuenable` and
failed scans, and with dynamic mode on a single GPU only (`CalmFeatures`): each of
these exclusions is a way in which the code leaves a thread asleep, some of them
listed above.  Beyond WaitJustified the invariant says that a thread that has yet
to start (`init`) has its token or someone to post it, and that the loop of
`gpuenable` has enabled the GPU by the time it has passed the first thread
(`Asleep`, `Jobs`).

**SharesProofs** (StratumShares, SubmitWork, FreshWork, StratumClient).

* `WorkFreedOnce`, `FreedHasBeenCounted`, `SharesCountedWhenFreed`: a share is in
  one place at most (the queue, the hands of the send thread, the table of sent
  shares), and one that is in any of them has not been freed; neither is inductive
  without the other.
* `SharesCountedOnce`: a share that is still on its way, sending and retrying
  included, has not been counted; from there it is counted once, and only
  `opt_lowmem` lets it leave uncounted.
* `HandlesAreCounted`: a thread has a curl handle exactly at the points where the
  code uses one, no two threads have the same, and none in use is in the ring.
  The ring ages from its head, so the model keeps how many at the head are old
  (`unused`), and `reap_curl` leaves a tail (SubSeq) instead of filtering.
* `NoPopperSleeps`: inductive as it stands, with types; a miner goes to sleep with
  the lock held and the queue empty, and every push wakes all of them in the same
  critical section.
* `LinesAreWhole`: on a connection nobody disturbed, the buffer and then what the
  server has sent are the next lines up to the last sent.  When a session begins
  that is its answer or nothing, because the pool is not active until subscribed
  and so no thread writes to it.

**PoolsProofs** (PoolManager, LongPoll, BlockDetect).

* `BestPoolIsCurrent`: priorities are a permutation but while one list of them is
  half written (`PrioInv`), and whenever a pool that
  could be used has a better priority than the current one, some thread is between
  a change and its call of `switch_pools` (`DebtInv`).  The second part is for
  tables no pool was removed from: during a removal two pools have one priority.
* `ReorderedAsAsked`: between the rounds of `poolpriority`'s loop the pools that
  have their new priority hold 0 to one less than their number, in the order asked
  for, and the others still have the priority they had, which no round has come to
  yet (`Ordered`, with `PrioInv`).  Other threads may switch pools between two
  rounds; none of them promotes one (`SelectedInv`).
* `SleepIsJustified`: AsleepForAReason is inductive; a broadcast that is on its
  way, or a record of one that came too early, covers each step that could strand
  a sleeping thread.
* `OldWorkGoesStale`: a work from before the last block that is staged, or carried
  to be, has a `work_block` below the current one, or the thread that has added
  the block has yet to increment it; and nobody else increments meanwhile
  (`Counting`, `OneIncrement`) unless two increments met, which `overlapped`
  records.

**GpuProofs** (OpenclHash, AdlControl, OpenclInit).

* `SearchedOnce`: the nonces of a work that were searched are below its next one,
  which moves on by what the kernel covered as long as `max_hashes` does not
  change in between; if it does (a failed call, a larger intensity, another
  thread's new work) nothing is claimed, and WorkNotRepeated shows why.
* `FindsArePosted`: the header in each kernel's buffer is the thread's work, and
  what was posted and what is still on the card are the finds among the nonces
  searched.
* `CardsAreRestored`: a card that is not as the program found it is that of a GPU
  with `managed` set, while the control is active; `AdlTypes` includes that the
  limits of a clock never cross.
* `GroupsFit`: each pad buffer is at most what the device allocates, and the
  buffers in the card are a walk down from what was free (`Rooms`: what is left
  after each), so that no sum over buffers is needed; what has been created so
  far is the part of the walk that is done.

**DriversProofs** (UsbLayer, UsbRead, the drivers, Drivers).

* `LocksAreKept`: there is at most one request for a lock, or one answer to it, and
  the thread that detects waits for it; an unlock is asked for once, and is served
  before the device is looked at again, as long as none failed in the middle of
  its detection (`torn`).  The thread may be cancelled at any step: an open device
  has an owner or is the one it was at (`CleanedUp`), so when `usb_cleanup` is
  through and its requests are served, no other lock is left.
* `StreamIsKept`: what reads have returned, followed by the read that is going on
  or else by what is buffered, is what was taken from the bus; a read never holds
  more than `USB_MAX_READ` bytes because the loop asks for what is left of it, so
  a full raw read leaves nothing over.
* `QueueIsCounted`: a work is in the table before it has the queued flag, and has
  that before a flush flags it, so what goes from the table with a flag goes with
  its count; and a thread that is busy with a work or an answer has one.  All this
  ends (`dropped`) when a work that had been freed is completed and takes the table
  with it; if its memory is a work of the table again, that one goes, counted.
* `AvSentIsKept`: what was sent i arrays ago stands in the array that is i behind
  the one in use, no work stands in two places, and one leaves the table only when
  its array is filled again (`SentInRing`, `AvNumbers`).
* `AvStreamIsKept`: types suffice, and that a reader that will read has room for a
  chunk, or nothing in its buffer.  A parse throws away a prefix: what begins in it
  and is a result, or the beginning of one, of a work in the table can only be the
  first result, as the search for that goes from the front and results do not
  overlap (`BeforeFirst`); the others are shifted, one to one.
* `BoardIsOrderly`: as long as no reply came late and no mutex was given back by one
  that did not hold it, one thread talks, it has `modminer_mutex`, and the pipe
  holds nothing but the reply it waits for (`PipeOwned`).
* `ClockIsEarned`: the good shares in a row that the driver counts have come, if it
  took none of them twice after a failed read (`RunCounted`), and a change that was tested and not yet made is good for the
  clock as it is, unless the API's thread and the miner's met (`ClockTested`).
* `BitForceIsOrderly`, `BitForceResults`: at most one command or its reply is on the
  line, and it is one of who has `device_mutex`, unless a read was given up
  (`BfSync`); what the device searches is then the miner's work, or nothing
  (`BfSearch`), so the reply to a poll is about it.
* `IcarusIsOrderly`: what a read has got and what is still on the wire is one
  stream (`Stream`): bytes of works up to the one going on, each nonce whole but
  perhaps the first, of which a read that was given up may have taken the beginning.
* `TimesAreMeasured`: the history holds the last sets, the newest first
  (`HistoryOf`), the least size grew with each, and the summary is the sum over
  them.  `MapThenSumSet` takes the elements of a set in an order of its own; that
  the sum does not depend on it, nor on how the sets are numbered after a shift,
  is shown by taking the least size at which it would (`SumTakes`, `SumsEqual`).
* `WorkIsCounted`, `RepliesAreOwn`, `ResultsAreKept`, `TuningIsJustified`: the drivers
  running together (`DriversSpec`).  They share no variable, so each property of
  all is the conjunction of what the theorems above say of each.

**ControlProofs** (ApiServer, Config).

* `RepliesCanBeParsed`: unless it answers quit or restart, the reply is a status, or
  a status and an open list that will be closed; where the buffer is full, the
  records in it are the first of the list.  `WritersArePermitted`: a command that writes runs for group W, or for a
  group whose list on the command line names it, because "*" is expanded to the
  commands that report.
* `SettingsAreReadBack`: each value in the file is within the range its option
  accepts, the lists are written for the GPUs in order, and the file is that of
  the settings that were saved; so `parse_config` gives the same settings whether
  it starts from the defaults or from what it has read already.

Only model-checked is liveness (SharesMoveOn, FetchGoesOn, Reconnects,
RequestServed, MiningGoesOn, EnabledMines, DisabledStops, HotIsCooled,
ShutdownEnds, WriterGetsIn): fairness and ENABLED are beyond the prover.

## Not modelled

* JSON and its conversion to headers (`gbt_decode`, `getwork_decode`), merkle
  trees, targets, difficulties, hash functions and kernels: conversions without
  state, or arithmetic beyond TLC's integers.
* libusb, OpenCL, ADL and sockets: external, by what the code makes of their
  answers.
* The Ztex driver and libztex: uploads, and a loop like the ModMiner's.
* Statistics (hash meter, utility, difficulty sums), the layout of the screen, the
  texts of the API's replies and of the log.
* `select_pool`'s quotas under the balance strategies.
* Data races on counters (`total_work`, `new_blocks`, the statistics) other than
  `work_block`, and spurious wakeups of condition variables.
