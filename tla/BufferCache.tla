---------------------------- MODULE BufferCache ----------------------------
(***************************************************************************)
(* The block cache of src/kernel/buffer.c on one device, and the system    *)
(* calls that read, change and release blocks through it.                  *)
(*                                                                         *)
(* pc[t] is at "fs" between two calls of the cache, at the label of the    *)
(* call in which t is blocked otherwise.  The disk is that of              *)
(* AbstractDisk.tla: a request moves its block some time before it         *)
(* returns.  The contents of a block are the number of changes made to it. *)
(***************************************************************************)
EXTENDS Kernel

CONSTANTS
    Block,
    NoBlock,
    BufferCount,    \* how many buffers fit into the cache's memory
    MaxHeld,        \* bound: buffers a task holds at a time
    MaxChanges,     \* bound: changes made to a block
    WhileWritten    \* whether a block may be changed while it is being written

ASSUME BufferAssumption ==
    /\ IsFiniteSet(Task)
    /\ NoBlock \notin Block
    /\ BufferCount \in Nat /\ MaxHeld \in Nat /\ MaxChanges \in Nat
    /\ WhileWritten \in BOOLEAN

Buffer == 1..BufferCount
Content == 0..MaxChanges

VARIABLES
    buf,            \* the buffer the call of every task is about
    held,           \* how often each task holds each buffer
    buffer_count,   \* buffers made so far: 1 to buffer_count
    block,          \* bf->block of the buffers in the hash table
    count, dirty, valid, data,      \* fields of every buffer
    lock,           \* bf->lock: its holder, Boot when free, and its waiters
    free_list, wait_list,
    disk,           \* contents of every block on the disk
    latest          \* how often every block has been changed

fields == <<count, dirty, valid, data>>
table == <<buffer_count, block>>
contents == <<disk, latest>>
cacheVars == <<table, fields, lock, free_list, wait_list>>
vars == <<taskVars, pc, buf, held, cacheVars, contents>>

BufferTypeOK ==
    /\ TaskTypeOK
    /\ pc \in [Task -> {"user", "fs", "get_free_buffer", "lock", "bread",
                        "bwrite", "brelse", "panic"}]
    /\ buf \in [Task -> Buffer \cup {0}]
    /\ held \in [Task -> [Buffer -> 0..MaxHeld]]
    /\ buffer_count \in 0..BufferCount
    /\ block \in [Buffer -> Block \cup {NoBlock}]
    /\ count \in [Buffer -> Nat]
    /\ dirty \in [Buffer -> BOOLEAN] /\ valid \in [Buffer -> BOOLEAN]
    /\ data \in [Buffer -> Content]
    /\ lock \in [Buffer -> [holder : Task \cup {Boot}, waiters : Seq(Task)]]
    /\ free_list \in Seq(Buffer) /\ wait_list \in Seq(Task)
    /\ disk \in [Block -> Content] /\ latest \in [Block -> Content]

BufferInit ==
    /\ KernelInit
    /\ buf = [t \in Task |-> 0]
    /\ held = [t \in Task |-> [bf \in Buffer |-> 0]]
    /\ buffer_count = 0
    /\ block = [bf \in Buffer |-> NoBlock]
    /\ count = [bf \in Buffer |-> 0]
    /\ dirty = [bf \in Buffer |-> FALSE]
    /\ valid = [bf \in Buffer |-> FALSE]
    /\ data = [bf \in Buffer |-> 0]
    /\ lock = [bf \in Buffer |-> [holder |-> Boot, waiters |-> <<>>]]
    /\ free_list = <<>> /\ wait_list = <<>>
    /\ disk = [b \in Block |-> 0]
    /\ latest = [b \in Block |-> 0]

-----------------------------------------------------------------------------
\* A slice ends, or a task calls yield().
Preempt == Preempted /\ UNCHANGED <<buf, held, cacheVars, contents>>

\* A system call of the file system starts ...
enter(t) ==
    /\ current = t /\ t # Idle
    /\ pc[t] = "user"
    /\ Goto(t, "fs")
    /\ Stay
    /\ UNCHANGED <<buf, held, cacheVars, contents>>

\* ... and returns when it has released its buffers.
leave(t) ==
    /\ current = t
    /\ pc[t] = "fs"
    /\ \A bf \in Buffer : held[t][bf] = 0
    /\ Goto(t, "user")
    /\ Stay
    /\ UNCHANGED <<buf, held, cacheVars, contents>>

-----------------------------------------------------------------------------
\* Task t blocks at label for buffer bf.
BlockAt(t, label, bf) ==
    /\ schedule(Entering(state, t, "BLOCKED"))
    /\ Goto(t, label)
    /\ buf' = [buf EXCEPT ![t] = bf]

\* bread or bwrite returns to the system call with the buffer.
Holds(t, bf) == held' = [held EXCEPT ![t][bf] = @ + 1]
BackToFs(t) ==
    /\ Goto(t, "fs")
    /\ buf' = [buf EXCEPT ![t] = 0]

\* lock_acquire for the reading of a buffer that is not valid.
LockToRead(t, bf) ==
    IF lock[bf].holder = Boot
    THEN /\ lock' = [lock EXCEPT ![bf].holder = t]
         /\ BlockAt(t, "bread", bf)
    ELSE /\ lock' = [lock EXCEPT ![bf].waiters = list_push(@, t)]
         /\ BlockAt(t, "lock", bf)

\* The rest of bread once getblk has returned bf: return it, or read it.
ReadIfInvalid(t, bf) ==
    IF valid'[bf]
    THEN /\ Holds(t, bf)
         /\ Stay
         /\ UNCHANGED <<pc, buf, lock>>
    ELSE /\ LockToRead(t, bf)
         /\ UNCHANGED held

\* Faulty variant: the user of a cached buffer is not counted.
Uncounted(bf) == UNCHANGED count

Counted(bf) == count' = [count EXCEPT ![bf] = @ + 1]

\* Faulty variant: the buffer stays on the free list.
StillFree(bf) == UNCHANGED free_list

OffFreeList(bf) ==
    free_list' = IF Linked(free_list, bf) THEN list_remove(free_list, bf) ELSE free_list

\* getblk finds block b in the hash table, and takes it off the free list.
bread_cached(t, b) ==
    \E bf \in Buffer :
       /\ block[bf] = b
       /\ Counted(bf)
       /\ OffFreeList(bf)
       /\ UNCHANGED <<table, dirty, valid, data, wait_list>>
       /\ ReadIfInvalid(t, bf)

\* It makes a new buffer, or takes the one released longest ago ...
bread_new(t, b) ==
    /\ buffer_count < BufferCount
    /\ LET bf == buffer_count + 1
       IN  /\ buffer_count' = bf
           /\ block' = [block EXCEPT ![bf] = b]
           /\ count' = [count EXCEPT ![bf] = 1]
           /\ UNCHANGED <<dirty, valid, data, free_list, wait_list>>
           /\ ReadIfInvalid(t, bf)

\* Faulty variant: a buffer taken from the free list stays valid.
StillValid(bf) == UNCHANGED valid

Invalidated(bf) == valid' = [valid EXCEPT ![bf] = FALSE]

bread_recycled(t, b) ==
    /\ buffer_count = BufferCount
    /\ ~list_empty(free_list)
    /\ LET bf == list_last(free_list)
       IN  /\ free_list' = list_remove(free_list, bf)
           /\ block' = [block EXCEPT ![bf] = b]
           /\ count' = [count EXCEPT ![bf] = 1]
           /\ Invalidated(bf)
           /\ UNCHANGED <<buffer_count, dirty, data, wait_list>>
           /\ ReadIfInvalid(t, bf)

\* ... or waits for one to be released.
bread_waits(t) ==
    /\ buffer_count = BufferCount
    /\ list_empty(free_list)
    /\ wait_list' = list_push(wait_list, t)
    /\ BlockAt(t, "get_free_buffer", 0)
    /\ UNCHANGED <<held, table, fields, lock, free_list>>

\* Faulty variant: the hash table is not searched.
NotSearched(b) == TRUE

NotCached(b) == \A bf \in Buffer : block[bf] # b

\* The buffers that t holds, each as often as it holds it.
HeldBy(t) == {x \in Buffer \X (1..MaxHeld) : x[2] <= held[t][x[1]]}

\* bread(dev, b): getblk's asserts hold of the buffers it recycles.
bread(t, b) ==
    /\ current = t
    /\ pc[t] = "fs"
    /\ Cardinality(HeldBy(t)) < MaxHeld
    /\ \/ bread_cached(t, b)
       \/ /\ NotCached(b)
          /\ bread_new(t, b) \/ bread_recycled(t, b) \/ bread_waits(t)
    /\ UNCHANGED contents

-----------------------------------------------------------------------------
\* Faulty variant: nobody is woken.
UnlockSilently(bf) ==
    /\ lock' = [lock EXCEPT ![bf].holder = Boot]
    /\ Stay

\* The states after mutex_unlock of the lock of bf, which yields to a waiter.
Unlock(bf) ==
    LET w == lock[bf].waiters
    IN  IF list_empty(w)
        THEN /\ lock' = [lock EXCEPT ![bf].holder = Boot]
             /\ Stay
        ELSE /\ lock' = [lock EXCEPT ![bf] =
                            [holder |-> Boot, waiters |-> list_remove(w, list_last(w))]]
             /\ schedule(Unblocked(state, {list_last(w)}))

\* A task that waited for the lock tests "valid" again.
bread_again(t) ==
    /\ current = t
    /\ pc[t] = "lock"
    /\ LET bf == buf[t]
       IN  IF lock[bf].holder = Boot /\ valid[bf]
           THEN Unlock(bf) /\ Holds(t, bf) /\ BackToFs(t)
           ELSE LockToRead(t, bf) /\ UNCHANGED held
    /\ UNCHANGED <<table, fields, free_list, wait_list, contents>>

\* The block has been read.
bread_done(t) ==
    /\ current = t
    /\ pc[t] = "bread"
    /\ LET bf == buf[t]
       IN  /\ dirty' = [dirty EXCEPT ![bf] = FALSE]
           /\ valid' = [valid EXCEPT ![bf] = TRUE]
           /\ Unlock(bf)
           /\ Holds(t, bf)
    /\ BackToFs(t)
    /\ UNCHANGED <<table, count, data, free_list, wait_list, contents>>

\* The system call changes a block it holds and marks it.
change(t, bf) ==
    /\ current = t
    /\ pc[t] = "fs"
    /\ held[t][bf] > 0
    /\ WhileWritten \/ \A u \in Task : ~(pc[u] \in {"bwrite", "brelse"} /\ buf[u] = bf)
    /\ LET b == block[bf]
       IN  /\ latest[b] < MaxChanges
           /\ latest' = [latest EXCEPT ![b] = @ + 1]
           /\ data' = [data EXCEPT ![bf] = latest'[b]]
    /\ dirty' = [dirty EXCEPT ![bf] = TRUE]
    /\ Stay
    /\ UNCHANGED <<pc, buf, held, table, count, valid, lock, free_list, wait_list,
                   disk>>

\* bwrite of a buffer that has been changed.
bwrite(t, bf) ==
    /\ current = t
    /\ pc[t] = "fs"
    /\ held[t][bf] > 0
    /\ dirty[bf]
    /\ BlockAt(t, "bwrite", bf)
    /\ UNCHANGED <<held, cacheVars, contents>>

\* The block has been written.
bwrite_done(t) ==
    /\ current = t
    /\ pc[t] = "bwrite"
    /\ dirty' = [dirty EXCEPT ![buf[t]] = FALSE]
    /\ valid' = [valid EXCEPT ![buf[t]] = TRUE]
    /\ BackToFs(t)
    /\ Stay
    /\ UNCHANGED <<held, table, count, data, lock, free_list, wait_list,
                   contents>>

(***************************************************************************)
(* The end of brelse.  When tasks wait for a buffer, list_popback unlinks  *)
(* the last of them and task_unblock unlinks it once more: the assertions  *)
(* of list_remove fail and the kernel stops.                               *)
(***************************************************************************)
Drop(t, bf) ==
    /\ held' = [held EXCEPT ![t][bf] = @ - 1]
    /\ count' = [count EXCEPT ![bf] = @ - 1]
    /\ buf' = [buf EXCEPT ![t] = 0]
    /\ IF count'[bf] > 0
       THEN Goto(t, "fs") /\ UNCHANGED <<free_list, wait_list>>
       ELSE /\ free_list' = list_push(free_list, bf)
            /\ IF list_empty(wait_list)
               THEN Goto(t, "fs") /\ UNCHANGED wait_list
               ELSE /\ wait_list' = list_remove(wait_list, list_last(wait_list))
                    /\ Goto(t, "panic")
    /\ Stay

\* brelse, which writes a buffer that has been changed first.
brelse(t, bf) ==
    /\ current = t
    /\ pc[t] = "fs"
    /\ held[t][bf] > 0
    /\ IF dirty[bf]
       THEN /\ BlockAt(t, "brelse", bf)
            /\ UNCHANGED <<held, count, free_list, wait_list>>
       ELSE Drop(t, bf)
    /\ UNCHANGED <<table, dirty, valid, data, lock, contents>>

brelse_written(t) ==
    /\ current = t
    /\ pc[t] = "brelse"
    /\ dirty' = [dirty EXCEPT ![buf[t]] = FALSE]
    /\ valid' = [valid EXCEPT ![buf[t]] = TRUE]
    /\ Drop(t, buf[t])
    /\ UNCHANGED <<table, data, lock, contents>>

\* The disk moves the block of a request and its interrupt wakes the task.
disk_interrupt(t) ==
    /\ InUserMode
    /\ pc[t] \in {"bread", "bwrite", "brelse"} /\ state[t] = "BLOCKED"
    /\ state' = Unblocked(state, {t})
    /\ LET bf == buf[t]
       IN  IF pc[t] = "bread"
           THEN /\ data' = [data EXCEPT ![bf] = disk[block[bf]]]
                /\ UNCHANGED disk
           ELSE /\ disk' = [disk EXCEPT ![block[bf]] = data[bf]]
                /\ UNCHANGED data
    /\ UNCHANGED <<current, pc, buf, held, table, count, dirty, valid, lock,
                   free_list, wait_list, latest>>

BufferNext ==
    \/ Preempt
    \/ \E t \in Task :
          \/ enter(t) \/ leave(t)
          \/ \E b \in Block : bread(t, b)
          \/ bread_again(t) \/ bread_done(t)
          \/ \E bf \in Buffer : change(t, bf) \/ bwrite(t, bf) \/ brelse(t, bf)
          \/ bwrite_done(t) \/ brelse_written(t)
          \/ disk_interrupt(t)

BufferSpec == BufferInit /\ [][BufferNext]_vars

-----------------------------------------------------------------------------
\* A block has one buffer: getblk looks before every buffer it hashes.
OneBufferPerBlock ==
    \A bf, bg \in Buffer : block[bf] = block[bg] /\ block[bf] # NoBlock => bf = bg

(***************************************************************************)
(* The count of a buffer is the number of tasks that hold it or wait in    *)
(* bread for its contents, and exactly the buffers without one are free,   *)
(* and clean, as getblk asserts: a buffer is never recycled under a task   *)
(* or with a change in it, and none is leaked.                             *)
(***************************************************************************)
Users(bf) ==
    {x \in Task \X (0..MaxHeld) :
        IF x[2] = 0 THEN pc[x[1]] \in {"lock", "bread"} /\ buf[x[1]] = bf
                    ELSE x[2] <= held[x[1]][bf]}

CountsUsers ==
    /\ \A bf \in Buffer : /\ count[bf] = Cardinality(Users(bf))
                          /\ Linked(free_list, bf)
                                <=> count[bf] = 0 /\ bf <= buffer_count
                          /\ count[bf] = 0 => ~dirty[bf]
    /\ IsInjective(free_list)

(***************************************************************************)
(* What bread returns has been read, although its reader and those that    *)
(* wait for the lock find the same buffer invalid, and it is the latest    *)
(* contents of the block, whatever was written or recycled in between.     *)
(***************************************************************************)
CacheIsCoherent ==
    \A t \in Task, bf \in Buffer :
       held[t][bf] > 0 => valid[bf] /\ data[bf] = latest[block[bf]]

\* The tasks that wait for a buffer's lock will be woken: a task has the lock.
BufferLockHeld ==
    \A bf \in Buffer :
       /\ lock[bf].holder # Boot
             <=> \E t \in Task : pc[t] = "bread" /\ buf[t] = bf
       /\ lock[bf].waiters # <<>> /\ lock[bf].holder = Boot
             => \E t \in Task : pc[t] = "lock" /\ buf[t] = bf /\ state[t] # "BLOCKED"

(***************************************************************************)
(* The assertions of list_remove (list.c:77) hold whenever it is called:   *)
(* the node it unlinks is linked.                                          *)
(***************************************************************************)
NoPanic == \A t \in Task : pc[t] # "panic"
=============================================================================
