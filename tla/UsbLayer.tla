------------------------------ MODULE UsbLayer ------------------------------
(***************************************************************************)
(* Who has which USB device.  The detecting thread (main(), then           *)
(* hotplug_thread) looks through the bus for each driver in turn, has the  *)
(* resource thread take a lock that other programs respect, opens the      *)
(* device and lets the driver talk to it.  Driver threads use devices      *)
(* until a transfer fails for good; release_cgpu then gives the lock back. *)
(* At the end the detecting thread is cancelled wherever it is, and        *)
(* usb_cleanup gives back the locks of all devices that are registered.    *)
(*                                                                         *)
(* Calls of libusb and semop are external and may fail at any time.  What  *)
(* happens under a device's devlock is one step, but release_cgpu leaves   *)
(* the lock's return to the resource thread.                               *)
(***************************************************************************)
EXTENDS Integers, Sequences, FiniteSets, SequencesExt

CONSTANTS Addrs,       \* bus numbers and device addresses
          UsbDrivers,  \* the drivers in the order of detection; each knows every device
          Chips,       \* chips of a device: one cgpu each (MMQ has several)
          total_limit, \* --usb :N
          NoAddr,
          MaxPlugs     \* bound on devices plugged in again, and on searches

ASSUME UsbAssumption ==
    /\ NoAddr \notin Addrs /\ Len(UsbDrivers) \in Nat \ {0}
    /\ total_limit \in Nat /\ MaxPlugs \in Nat /\ Chips \in Nat \ {0}

VARIABLES
    plugged,     \* the devices there are
    plugs,
    in_use,      \* in_use_head: the devices whose lock is ours
    res_work,    \* res_work_head, a stack
    replies,     \* res_reply_head
    found_step, found_drv, found_addr, found_list, \* usb_detect, in that thread
    open,        \* devices with an open handle (usbdev)
    owner,       \* devices in devices[] with nodev = FALSE
    registered,  \* those of them counted in total_devices
    mining,      \* those whose threads run
    total_count, \* devices, by hand
    zombie_devs,
    hotplug_mode, \* hotplug_thread detects, no more main()
    cancelled,   \* the detecting thread: "no", "free", "held" (with cgusbres_lock)
    cleaning,    \* where usb_cleanup is
    torn         \* history: a device failed while it was being detected

detectVars == <<found_step, found_drv, found_addr, found_list>>
endVars == <<hotplug_mode, cancelled, cleaning>>
usbVars == <<plugged, plugs, in_use, res_work, replies, found_step, found_drv, found_addr,
             found_list, open, owner, registered, mining, total_count, zombie_devs,
             hotplug_mode, cancelled, cleaning, torn>>

DetectSteps == {"rest", "next", "reply", "init", "talk", "failed"}

UsbTypeOK ==
    /\ plugged \subseteq Addrs /\ plugs \in 0..MaxPlugs
    /\ in_use \subseteq Addrs
    /\ res_work \in Seq([lock : BOOLEAN, addr : Addrs])
    /\ replies \in Seq([addr : Addrs, got : BOOLEAN])
    /\ found_step \in DetectSteps /\ found_drv \in 0..(Len(UsbDrivers) + 1)
    /\ found_addr \in Addrs \union {NoAddr} /\ found_list \subseteq Addrs
    /\ open \subseteq Addrs /\ owner \subseteq Addrs /\ mining \subseteq Addrs
    /\ registered \subseteq Addrs
    /\ total_count \in Int /\ zombie_devs \in Nat
    /\ hotplug_mode \in BOOLEAN /\ cancelled \in {"no", "free", "held"}
    /\ cleaning \in {"no", "releases", "blocked", "done"} /\ torn \in BOOLEAN

UsbInit ==
    /\ plugged = Addrs /\ plugs = 0
    /\ in_use = {} /\ res_work = <<>> /\ replies = <<>>
    /\ found_step = "rest" /\ found_drv = 0 /\ found_addr = NoAddr /\ found_list = {}
    /\ open = {} /\ owner = {} /\ registered = {} /\ mining = {}
    /\ total_count = 0 /\ zombie_devs = 0
    /\ hotplug_mode = FALSE /\ cancelled = "no" /\ cleaning = "no" /\ torn = FALSE

-----------------------------------------------------------------------------
(* The world *)

Unplug(a) ==
    /\ a \in plugged
    /\ plugged' = plugged \ {a}
    /\ UNCHANGED <<plugs, in_use, res_work, replies, open, owner, registered, mining,
                   total_count, zombie_devs, endVars, torn>>
    /\ UNCHANGED detectVars

Plug(a) ==
    /\ a \notin plugged /\ plugs < MaxPlugs
    /\ plugged' = plugged \union {a} /\ plugs' = plugs + 1
    /\ UNCHANGED <<in_use, res_work, replies, open, owner, registered, mining,
                   total_count, zombie_devs, endVars, torn>>
    /\ UNCHANGED detectVars

-----------------------------------------------------------------------------
(* The resource thread: all there is to do, the newest first, under        *)
(* cgusbres_lock.  A lock that another program has is not got.  It is      *)
(* cancelled when usb_cleanup has returned.                                *)

LockTaken ==
    /\ cancelled # "held" /\ cleaning # "done"
    /\ res_work # <<>> /\ Head(res_work).lock
    /\ LET a == Head(res_work).addr
       IN  \E got \in BOOLEAN :
             /\ a \in in_use => ~got
             /\ replies' = <<[addr |-> a, got |-> got]>> \o replies
             /\ in_use' = IF got THEN in_use \union {a} ELSE in_use
    /\ res_work' = Tail(res_work)
    /\ UNCHANGED <<plugged, plugs, open, owner, registered, mining, total_count,
                   zombie_devs, endVars, torn>>
    /\ UNCHANGED detectVars

(* resource_unlock; a lock that is not ours is only reported.              *)
LockGiven ==
    /\ cancelled # "held" /\ cleaning # "done"
    /\ res_work # <<>> /\ ~Head(res_work).lock
    /\ in_use' = in_use \ {Head(res_work).addr}
    /\ res_work' = Tail(res_work)
    /\ UNCHANGED <<plugged, plugs, replies, open, owner, registered, mining,
                   total_count, zombie_devs, endVars, torn>>
    /\ UNCHANGED detectVars

(* cgminer_usb_lock_bd, cgminer_usb_unlock_bd: to the head, and a post.    *)
AskLock(a) == res_work' = <<[lock |-> TRUE, addr |-> a]>> \o res_work
AskUnlock(a) == res_work' = <<[lock |-> FALSE, addr |-> a]>> \o res_work

-----------------------------------------------------------------------------
(* release_cgpu, usb_uninit *)

(* Once per device: each cgpu that shares it and is registered is marked   *)
(* and counted down.                                                       *)
Freed(a) ==
    /\ a \in open
    /\ zombie_devs' = zombie_devs + 1
    /\ total_count' = total_count - (IF a \in registered THEN Chips ELSE 1)
    /\ open' = open \ {a}
    /\ owner' = owner \ {a} /\ registered' = registered \ {a} /\ mining' = mining \ {a}

ReleaseForgets(a) == Freed(a) /\ UNCHANGED res_work

(* Whoever asks for the unlock waits for cgusbres_lock, for ever if the    *)
(* cancelled thread has it.                                                *)
Release(a) ==
    /\ Freed(a)
    /\ IF cancelled = "held" THEN UNCHANGED res_work ELSE AskUnlock(a)

(* A driver's thread: a transfer that fails with NODEV, which the device's *)
(* absence is one reason for.  The miners have ended before usb_cleanup,   *)
(* but for one whose thread was not yet counted.                           *)
TransferFails(a) ==
    /\ a \in mining
    /\ cleaning # "no" => a \notin registered
    /\ Release(a)
    /\ UNCHANGED <<plugged, plugs, in_use, replies, endVars, torn>> /\ UNCHANGED detectVars

-----------------------------------------------------------------------------
(* The end *)

(* __kill_work cancels hotplug_thread, which has asked for asynchronous    *)
(* cancellation: it stops in whatever it does, cgusbres_lock held or not;  *)
(* only under a devlock it may not be cancelled.  In main()'s own search   *)
(* it is a signal's handler that does not return.                          *)
HotplugCancelled(held) ==
    /\ cancelled = "no"
    /\ held => found_step \in {"next", "reply", "failed"}
    /\ cancelled' = IF held THEN "held" ELSE "free"
    /\ UNCHANGED <<plugged, plugs, in_use, res_work, replies, open, owner, registered,
                   mining, total_count, zombie_devs, hotplug_mode, cleaning, torn>>
    /\ UNCHANGED detectVars

Cleanup ==
    /\ cancelled # "no" /\ cleaning = "no"
    /\ cleaning' = "releases"
    /\ UNCHANGED <<plugged, plugs, in_use, res_work, replies, open, owner, registered,
                   mining, total_count, zombie_devs, hotplug_mode, cancelled, torn>>
    /\ UNCHANGED detectVars

CleanupReleases(a) ==
    /\ cleaning = "releases" /\ a \in registered
    /\ Release(a)
    /\ cleaning' = IF cancelled = "held" THEN "blocked" ELSE cleaning
    /\ UNCHANGED <<plugged, plugs, in_use, replies, hotplug_mode, cancelled, torn>>
    /\ UNCHANGED detectVars

(* It waits 0.366 s at most for the resource thread, which is then         *)
(* cancelled.                                                              *)
CleanupEnds ==
    /\ cleaning = "releases" /\ registered = {}
    /\ cleaning' = "done"
    /\ UNCHANGED <<plugged, plugs, in_use, res_work, replies, open, owner, registered,
                   mining, total_count, zombie_devs, hotplug_mode, cancelled, torn>>
    /\ UNCHANGED detectVars

-----------------------------------------------------------------------------
(* usb_detect *)

Limited == total_count >= total_limit

(* main(), then hotplug_thread each time it has slept: a search for each   *)
(* driver, from the start, after the devices of the last have their threads. *)
Search ==
    /\ found_step = "rest" /\ cancelled = "no"
    /\ \/ found_drv < Len(UsbDrivers) /\ plugs' = plugs
       \/ /\ found_drv = Len(UsbDrivers) /\ plugs < MaxPlugs /\ plugs' = plugs + 1
          /\ owner = mining /\ mining \subseteq registered
    /\ hotplug_mode' = (hotplug_mode \/ found_drv = Len(UsbDrivers))
    /\ found_drv' = (found_drv % Len(UsbDrivers)) + 1
    /\ found_list' = plugged
    /\ found_step' = "next"
    /\ UNCHANGED <<plugged, in_use, res_work, replies, found_addr, open, owner,
                   registered, mining, total_count, zombie_devs, cancelled, cleaning,
                   torn>>

(* The limit, usb_check and is_in_use; then the lock is asked for.         *)
LookAt(a) ==
    /\ found_step = "next" /\ cancelled = "no" /\ ~Limited
    /\ a \in found_list
    /\ found_list' = found_list \ {a}
    /\ IF a \in in_use
       THEN UNCHANGED <<found_step, found_addr, res_work>>
       ELSE found_step' = "reply" /\ found_addr' = a /\ AskLock(a)
    /\ UNCHANGED <<plugged, plugs, in_use, replies, found_drv, open, owner,
                   registered, mining, total_count, zombie_devs, endVars, torn>>

Searched ==
    /\ found_step = "next" /\ cancelled = "no"
    /\ Limited \/ found_list = {}
    /\ found_step' = "rest" /\ found_list' = {}
    /\ UNCHANGED <<plugged, plugs, in_use, res_work, replies, found_drv, found_addr,
                   open, owner, registered, mining, total_count, zombie_devs,
                   endVars, torn>>

(* Every 50 ms it looks for the reply about its device.                    *)
TakeReply ==
    /\ found_step = "reply" /\ cancelled = "no"
    /\ \E i \in DOMAIN replies :
         /\ replies[i].addr = found_addr
         /\ \A j \in 1..(i - 1) : replies[j].addr # found_addr
         /\ found_step' = IF replies[i].got THEN "init" ELSE "next"
         /\ replies' = RemoveAt(replies, i)
    /\ UNCHANGED <<plugged, plugs, in_use, res_work, found_drv, found_addr,
                   found_list, open, owner, registered, mining, total_count,
                   zombie_devs, endVars, torn>>

(* _usb_init: the device cannot be opened, is in use, or is another one    *)
(* that shares the numbers; a handle that was opened is closed.            *)
UsbRefused ==
    /\ found_step = "init" /\ cancelled = "no"
    /\ found_step' = "failed"
    /\ UNCHANGED <<plugged, plugs, in_use, res_work, replies, found_drv, found_addr,
                   found_list, open, owner, registered, mining, total_count,
                   zombie_devs, endVars, torn>>

(* Configured and claimed: usbdev is set and nodev reset.                  *)
UsbClaims ==
    /\ found_step = "init" /\ cancelled = "no"
    /\ found_addr \in plugged /\ found_addr \notin open
    /\ open' = open \union {found_addr}
    /\ found_step' = "talk"
    /\ UNCHANGED <<plugged, plugs, in_use, res_work, replies, found_drv, found_addr,
                   found_list, owner, registered, mining, total_count, zombie_devs,
                   endVars, torn>>

(* The driver asks the device who it is.  A transfer without a device      *)
(* makes release_cgpu run in the middle of the detection.                  *)
TalkTorn ==
    /\ found_step = "talk" /\ cancelled = "no"
    /\ Release(found_addr)
    /\ torn' = TRUE
    /\ found_step' = "failed"
    /\ UNCHANGED <<plugged, plugs, in_use, replies, found_drv, found_addr,
                   found_list, endVars>>

(* Any other failure, or an answer that is not the driver's: usb_uninit.   *)
TalkFails ==
    /\ found_step = "talk" /\ cancelled = "no"
    /\ open' = open \ {found_addr}
    /\ found_step' = "failed"
    /\ UNCHANGED <<plugged, plugs, in_use, res_work, replies, found_drv, found_addr,
                   found_list, owner, registered, mining, total_count, zombie_devs,
                   endVars, torn>>

(* add_cgpu for each chip, and the detection counts one device; in         *)
(* total_devices hotplug_process counts it, later.                         *)
Detected ==
    /\ found_step = "talk" /\ cancelled = "no" /\ found_addr \in plugged
    /\ owner' = owner \union {found_addr}
    /\ registered' = IF hotplug_mode THEN registered ELSE registered \union {found_addr}
    /\ total_count' = total_count + 1
    /\ found_step' = "next"
    /\ UNCHANGED <<plugged, plugs, in_use, res_work, replies, found_drv, found_addr,
                   found_list, open, mining, zombie_devs, endVars, torn>>

(* device_detect has returned false.                                       *)
NotDetected ==
    /\ found_step = "failed" /\ cancelled = "no"
    /\ AskUnlock(found_addr)
    /\ found_step' = "next"
    /\ UNCHANGED <<plugged, plugs, in_use, replies, found_drv, found_addr,
                   found_list, open, owner, registered, mining, total_count,
                   zombie_devs, endVars, torn>>

(* main() or hotplug_process makes the threads of a new device, which use  *)
(* it before hotplug_process has counted it.                               *)
StartThreads(a) ==
    /\ found_step = "rest" /\ found_drv = Len(UsbDrivers) /\ cancelled = "no"
    /\ a \in owner \ mining /\ mining \subseteq registered
    /\ mining' = mining \union {a}
    /\ UNCHANGED <<plugged, plugs, in_use, res_work, replies, open, owner,
                   registered, total_count, zombie_devs, endVars, torn>>
    /\ UNCHANGED detectVars

CountDevice(a) ==
    /\ cancelled = "no"
    /\ a \in mining \ registered
    /\ registered' = registered \union {a}
    /\ UNCHANGED <<plugged, plugs, in_use, res_work, replies, open, owner, mining,
                   total_count, zombie_devs, endVars, torn>>
    /\ UNCHANGED detectVars

-----------------------------------------------------------------------------
UsbNext ==
    \/ LockTaken \/ LockGiven \/ Cleanup \/ CleanupEnds
    \/ Search \/ Searched \/ TakeReply \/ UsbRefused \/ UsbClaims \/ TalkTorn \/ TalkFails \/ Detected
    \/ NotDetected
    \/ \E held \in BOOLEAN : HotplugCancelled(held)
    \/ \E a \in Addrs : \/ Unplug(a) \/ Plug(a) \/ LookAt(a) \/ StartThreads(a) \/ CountDevice(a)
                        \/ TransferFails(a) \/ CleanupReleases(a)

UsbSpec == UsbInit /\ [][UsbNext]_usbVars

-----------------------------------------------------------------------------
Asked(a) == \E i \in DOMAIN res_work : res_work[i] = [lock |-> FALSE, addr |-> a]
Looking(a) == found_addr = a /\ found_step \in {"reply", "init", "talk", "failed"}

(* usb_detect, release_cgpu, usb_cleanup and the resource thread: a lock   *)
(* is never left behind.  Whoever has a device's lock uses the device, is  *)
(* detecting it (or was, when it was cancelled), or has asked for the      *)
(* unlock; otherwise the device could not be detected again, by this       *)
(* program or another.  Unless the detecting thread was cancelled with     *)
(* cgusbres_lock held, after which nobody can ask.                         *)
NoLockLeaked ==
    cancelled # "held" => \A a \in in_use : a \in open \/ Looking(a) \/ Asked(a)

(* usb_cleanup: "during a restart it won't automatically release them":    *)
(* when it is through and the resource thread had the time to serve what   *)
(* it asked for, no lock is left but that of the device whose detection    *)
(* was cut off, and those of devices found but not yet registered.         *)
GivenBack ==
    cleaning = "done" /\ cancelled = "free" /\ res_work = <<>>
        => \A a \in in_use : Looking(a) \/ a \in owner \ registered

(* An open device is locked, so that no other program opens it, though     *)
(* requests are served the newest first; unless a device failed during     *)
(* its detection, after which its unlock is asked for twice and may undo   *)
(* a later lock.                                                           *)
ClaimedIsLocked ==
    ~torn => \A a \in open : a \in in_use

(* All three, with the types of the module.                                *)
UsbLocksKept == UsbTypeOK /\ NoLockLeaked /\ ClaimedIsLocked /\ GivenBack

(* usb_initialise: "Absolute device limit".  Does not hold: release_cgpu   *)
(* counts down devices that were not counted, and each chip of one that    *)
(* was counted once.                                                       *)
AbsoluteLimit == Cardinality(owner) <= total_limit
=============================================================================
