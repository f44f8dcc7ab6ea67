------------------------------- MODULE Device -------------------------------
(***************************************************************************)
(* Block requests: the elevator of device_request in src/kernel/device.c   *)
(* over the PIO driver of src/kernel/ide.c, for the disks of one           *)
(* controller, which its lock, its one waiter and its registers serve.     *)
(*                                                                         *)
(* pc[t] is at "do_request" once the request of t is in its list, at       *)
(* "ide_lock" when it waits for the lock of the controller, at "ide_pio"   *)
(* in the loop over the sectors, at "ide_done" when the driver returns.    *)
(* The sectors of a partition are those of its disk: device_request adds   *)
(* the start of the partition and takes the parent device.                 *)
(***************************************************************************)
EXTENDS Kernel

CONSTANTS
    Disk,       \* the disks of the controller
    Request,    \* requests: [disk, idx, count, type]
    NoRequest

ASSUME DeviceAssumption ==
    /\ Request \subseteq [disk : Disk, idx : Nat, count : Nat \ {0},
                          type : {"REQ_READ", "REQ_WRITE"}]
    /\ NoRequest \notin Request

VARIABLES
    req,            \* the request of every task
    reqTask,        \* req->task: the task itself if it queued, Boot for NULL
    request_list,   \* device->request_list
    direct,         \* device->direct
    holder,         \* ctrl->lock.holder, Boot for NULL
    waiters,        \* ctrl->lock.mutex.waiters
    waiter,         \* ctrl->waiter, Boot for NULL
    drive,          \* registers and phase of the selected drive (hardware)
    irq,            \* the controller's interrupt is pending
    got             \* the sectors moved so far for the request of every task

lists == <<req, reqTask, request_list, direct>>
lock == <<holder, waiters>>
hardware == <<drive, irq>>
deviceVars == <<lists, lock, waiter, hardware, got>>
vars == <<taskVars, pc, deviceVars>>

DeviceTypeOK ==
    /\ TaskTypeOK
    /\ pc \in [Task -> {"user", "do_request", "ide_lock", "ide_pio", "ide_done"}]
    /\ req \in [Task -> Request \cup {NoRequest}]
    /\ reqTask \in [Task -> Task \cup {Boot}]
    /\ request_list \in [Disk -> Seq(Task)]
    /\ direct \in [Disk -> {"DIRECT_UP", "DIRECT_DOWN"}]
    /\ holder \in Task \cup {Boot} /\ waiters \in Seq(Task)
    /\ waiter \in Task \cup {Boot}
    /\ drive \in [disk : Disk, lba : Nat, left : Nat,
                  type : {"REQ_READ", "REQ_WRITE"}, phase : {"idle", "busy", "data"}]
    /\ irq \in BOOLEAN
    /\ got \in [Task -> Seq(Disk \X Nat)]

DeviceInit ==
    /\ KernelInit
    /\ req = [t \in Task |-> NoRequest]
    /\ reqTask = [t \in Task |-> Boot]
    /\ request_list = [d \in Disk |-> <<>>]
    /\ direct = [d \in Disk |-> "DIRECT_UP"]
    /\ holder = Boot /\ waiters = <<>>
    /\ waiter = Boot
    /\ drive \in [disk : Disk, lba : {0}, left : {0}, type : {"REQ_READ"},
                  phase : {"idle"}]
    /\ irq = FALSE
    /\ got = [t \in Task |-> <<>>]

-----------------------------------------------------------------------------
\* A slice ends, or a task calls yield().
Preempt == Preempted /\ UNCHANGED deviceVars

\* Faulty variant: every request is served at once.
NeverWaits(list) == FALSE

\* The others of the list are being served.
MustWait(list) == ~list_empty(list)

(***************************************************************************)
(* device_request links the request by its sector; when others are in the  *)
(* list, one of them is being served and the task waits for its turn.      *)
(***************************************************************************)
device_request(t) ==
    /\ current = t /\ t # Idle
    /\ pc[t] = "user"
    /\ \E r \in Request :
          LET list == request_list[r.disk]
              keys == [i \in DOMAIN list |-> req[list[i]].idx]
          IN  /\ req' = [req EXCEPT ![t] = r]
              /\ \E k \in 1..(Len(list) + 1) :
                    /\ InsertPosition(keys, r.idx, k)
                    /\ request_list' = [request_list EXCEPT ![r.disk] =
                                            InsertAt(@, k, t)]
              /\ IF MustWait(list)
                 THEN /\ reqTask' = [reqTask EXCEPT ![t] = t]
                      /\ schedule(Entering(state, t, "BLOCKED"))
                 ELSE /\ reqTask' = [reqTask EXCEPT ![t] = Boot]
                      /\ Stay
    /\ Goto(t, "do_request")
    /\ UNCHANGED <<direct, lock, waiter, hardware, got>>

-----------------------------------------------------------------------------
(***************************************************************************)
(* The drive moves one sector through its data register, and is busy with  *)
(* the next one until it interrupts: a read has its sectors ready one by   *)
(* one, a write stores each sector it was given.                           *)
(***************************************************************************)
PioSector(t, d) ==
    /\ got' = [got EXCEPT ![t] = Append(@, <<d.disk, d.lba>>)]
    /\ drive' = [d EXCEPT !.lba = @ + 1, !.left = @ - 1,
                          !.phase = IF d.type = "REQ_WRITE" \/ d.left > 1
                                    THEN "busy" ELSE "idle"]

\* The driver waits for the interrupt of the drive.
ide_wait(t) ==
    /\ waiter' = t
    /\ schedule(Entering(state, t, "BLOCKED"))
    /\ Goto(t, "ide_pio")

\* Faulty variant: one sector less is asked for.
SelectedShort(r) == [disk |-> r.disk, lba |-> r.idx, left |-> r.count - 1,
                     type |-> r.type,
                     phase |-> IF r.type = "REQ_READ" THEN "busy" ELSE "data"]

\* ide_select_drive, ide_select_sector and the command, on an idle drive.
Selected(r) == [disk |-> r.disk, lba |-> r.idx, left |-> r.count, type |-> r.type,
                phase |-> IF r.type = "REQ_READ" THEN "busy" ELSE "data"]

\* lock_acquire of the free lock.
Locked(t) == holder = Boot /\ holder' = t

(***************************************************************************)
(* ide_pio_read and ide_pio_write up to the first wait: with the lock, a   *)
(* read sends its command, a write its command and its first sector.       *)
(***************************************************************************)
ide_start(t) ==
    /\ current = t
    /\ pc[t] \in {"do_request", "ide_lock"}
    /\ Locked(t)
    /\ drive.phase # "busy"
    /\ IF req[t].type = "REQ_READ"
       THEN /\ drive' = Selected(req[t])
            /\ UNCHANGED got
       ELSE PioSector(t, Selected(req[t]))
    /\ ide_wait(t)
    /\ UNCHANGED <<lists, waiters, irq>>

\* lock_acquire of a controller that serves its other disk.
ide_lock(t) ==
    /\ current = t
    /\ pc[t] \in {"do_request", "ide_lock"}
    /\ holder # Boot
    /\ waiters' = list_push(waiters, t)
    /\ schedule(Entering(state, t, "BLOCKED"))
    /\ Goto(t, "ide_lock")
    /\ UNCHANGED <<lists, holder, waiter, hardware, got>>

\* lock_release, which yields when it has woken a task.
ide_return(t) ==
    /\ holder' = Boot
    /\ Goto(t, "ide_done")
    /\ IF list_empty(waiters)
       THEN Stay /\ UNCHANGED waiters
       ELSE /\ waiters' = list_remove(waiters, list_last(waiters))
            /\ schedule(Unblocked(state, {list_last(waiters)}))

(***************************************************************************)
(* The driver runs again: once ide_busy_wait has seen the data (a read) or *)
(* the end of the write, it goes on to the next sector or returns.         *)
(***************************************************************************)
ide_read_sector(t) ==
    /\ current = t
    /\ pc[t] = "ide_pio" /\ req[t].type = "REQ_READ"
    /\ drive.phase = "data"
    /\ PioSector(t, drive)
    /\ IF Len(got[t]) + 1 < req[t].count
       THEN ide_wait(t) /\ UNCHANGED lock
       ELSE ide_return(t) /\ UNCHANGED waiter
    /\ UNCHANGED <<lists, irq>>

\* Faulty variant: the last sector is left out.
UnwrittenButOne(t) == Len(got[t]) + 1 < req[t].count

Unwritten(t) == Len(got[t]) < req[t].count

ide_write_sector(t) ==
    /\ current = t
    /\ pc[t] = "ide_pio" /\ req[t].type = "REQ_WRITE"
    /\ drive.phase # "busy"
    /\ IF Unwritten(t)
       THEN PioSector(t, drive) /\ ide_wait(t) /\ UNCHANGED lock
       ELSE ide_return(t) /\ UNCHANGED <<waiter, drive, got>>
    /\ UNCHANGED <<lists, irq>>

\* The drive has the next sector, or has stored the last one it was given.
DriveDone ==
    /\ drive.phase = "busy"
    /\ drive' = [drive EXCEPT !.phase = IF drive.type = "REQ_WRITE" /\ drive.left = 0
                                        THEN "idle" ELSE "data"]
    /\ irq' = TRUE
    /\ UNCHANGED <<taskVars, pc, lists, lock, waiter, got>>

\* Faulty variant: the waiter is not forgotten.
WaiterKept == state' = Unblocked(state, {waiter}) /\ UNCHANGED waiter

WaiterWoken == state' = Unblocked(state, {waiter}) /\ waiter' = Boot

\* The interrupt of the controller wakes its waiter.
ide_handler ==
    /\ InUserMode
    /\ irq
    /\ irq' = FALSE
    /\ IF waiter # Boot THEN WaiterWoken ELSE UNCHANGED <<state, waiter>>
    /\ UNCHANGED <<current, pc, lists, lock, drive, got>>

-----------------------------------------------------------------------------
(***************************************************************************)
(* request_nextreq: the direction after the request at place k of list,    *)
(* and the place of the next one, outside 1..Len(list) for NULL.           *)
(***************************************************************************)
Turned(list, k, dir) ==
    IF dir = "DIRECT_UP" /\ k = Len(list) THEN "DIRECT_DOWN"
    ELSE IF dir = "DIRECT_DOWN" /\ k = 1 THEN "DIRECT_UP"
    ELSE dir

\* Faulty variant: the disk goes back to the first request of the list.
NextFromStart(list, k, dir) == IF k = 1 THEN 2 ELSE 1

NextPlace(list, k, dir) ==
    IF Turned(list, k, dir) = "DIRECT_UP" THEN k + 1 ELSE k - 1

WithoutRequest(list, t) == list_remove(list, t)

(***************************************************************************)
(* The end of device_request: it chooses the next request in the direction *)
(* of the sweep, unlinks and frees its own, and wakes the next one's task. *)
(***************************************************************************)
request_done(t) ==
    /\ current = t
    /\ pc[t] = "ide_done"
    /\ LET d == req[t].disk
           list == request_list[d]
           k == CHOOSE i \in DOMAIN list : list[i] = t
           n == NextPlace(list, k, direct[d])
       IN  /\ direct' = [direct EXCEPT ![d] = Turned(list, k, @)]
           /\ request_list' = [request_list EXCEPT ![d] = WithoutRequest(@, t)]
           /\ state' = IF n \in DOMAIN list
                       THEN Unblocked(state, {reqTask[list[n]]})
                       ELSE state
    /\ req' = [req EXCEPT ![t] = NoRequest]
    /\ reqTask' = [reqTask EXCEPT ![t] = Boot]
    /\ got' = [got EXCEPT ![t] = <<>>]
    /\ Goto(t, "user")
    /\ UNCHANGED <<current, lock, waiter, hardware>>

DeviceNext ==
    \/ Preempt
    \/ DriveDone
    \/ ide_handler
    \/ \E t \in Task : \/ device_request(t)
                       \/ ide_start(t) \/ ide_lock(t)
                       \/ ide_read_sector(t) \/ ide_write_sector(t)
                       \/ request_done(t)

DeviceSpec == DeviceInit /\ [][DeviceNext]_vars

-----------------------------------------------------------------------------
\* The tasks whose request is being served: the others of a list wait.
Served(d) == {t \in Task : /\ Linked(request_list[d], t)
                           /\ pc[t] = "do_request" => state[t] # "BLOCKED"}

(***************************************************************************)
(* The list of a disk has the request of every task that is in             *)
(* device_request for it, once, and no other; and if it is not empty,      *)
(* exactly one of them is being served: the task that ends one hands the   *)
(* disk to the next, although requests are linked in front of it and       *)
(* behind it in the meantime.                                              *)
(***************************************************************************)
OneServed == \A d \in Disk :
    /\ IsInjective(request_list[d])
    /\ \A t \in Task : Linked(request_list[d], t) <=> pc[t] # "user" /\ req[t].disk = d
    /\ request_list[d] # <<>> => \E t \in Task : Served(d) = {t}

(***************************************************************************)
(* No interrupt is lost: a task that waits for the drive is the waiter of  *)
(* the controller and holds its lock, and the drive is about to interrupt; *)
(* an interrupt finds a waiter.                                            *)
(***************************************************************************)
InterruptComes ==
    /\ \A t \in Task : pc[t] = "ide_pio" /\ state[t] = "BLOCKED" <=> waiter = t
    /\ waiter # Boot => holder = waiter /\ (drive.phase = "busy" \/ irq)
    /\ irq => waiter # Boot

(***************************************************************************)
(* The elevator skips nobody: between the request that ends and the one    *)
(* that is woken, in the direction of the sweep, no other request waits.   *)
(***************************************************************************)
SkipsNobody ==
    [][\A t, u \in Task :
         LET d == req[t].disk
             Between(v) == IF direct'[d] = "DIRECT_UP"
                           THEN req[t].idx < req[v].idx /\ req[v].idx < req[u].idx
                           ELSE req[u].idx < req[v].idx /\ req[v].idx < req[t].idx
         IN  /\ pc[t] = "ide_done" /\ pc'[t] = "user"
             /\ state[u] = "BLOCKED" /\ state'[u] = "READY"
             => /\ Linked(request_list[d], u)
                /\ IF direct'[d] = "DIRECT_UP" THEN req[t].idx <= req[u].idx
                                               ELSE req[u].idx <= req[t].idx
                /\ ~ \E v \in Task : Linked(request_list[d], v) /\ Between(v)]_vars

\* The disk as the code above the driver sees it.
DiskService == INSTANCE AbstractDisk WITH
    Client <- Task, asked <- req, moved <- got

\* The driver implements it.
ImplementsDisk == DiskService!DiskSpec
=============================================================================
