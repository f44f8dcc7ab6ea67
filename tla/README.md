# A TLA+ model of the onix teaching kernel

This directory holds TLA+ modules that model the kernel of this repository
(`src/`), TLC configurations that check them on small instances, and proofs
that TLAPS checks for every value of the constants. Every definition is
translated from the C and assembly sources; `PROJECT.json` names, for each
definition, the lines it models.

## 1. The system

onix is a small kernel for one 32-bit x86 CPU: tasks, a PIO disk driver, a
buffer cache, a Minix file system, virtual memory and a shell.

### How kernel code runs

Everything rests on one fact. Every gate of the IDT is an interrupt gate
(`src/kernel/interrupt.c:144`), so a system call and an interrupt handler both
run with interrupts off. Kernel code of a task is alone on the machine until it
calls `schedule()`: in `task_block`, `task_sleep`, `task_yield`, `task_exit`, in
`mutex_unlock` when a task waits, and in the tick that ends a slice. Interrupts
are taken in user mode, in the `hlt` of the idle thread and in the test thread.
So an action of the models is the code between two calls of `schedule()`, and
the interleavings are those of tasks that block in the middle of a system call.
`Kernel.tla` states this once for all drivers: `pc[t]` is `"user"` or the label
at which task `t` last called `schedule()`, a kernel action requires
`current = t`, an interrupt requires `InUserMode`.

The context that runs `kernel_init` is in no slot of the task table: the first
tick switches it out for ever. It is the constant `Boot`, which also stands for
a NULL task pointer.

### Components

| component | source | state | operations | what makes it correct |
|---|---|---|---|---|
| scheduler | `kernel/task.c`, `clock.c`, `thread.c` | `task_table`, states, slices, `jiffies`, `sleep_list`, wait lists | `schedule`, `task_yield/block/unblock/sleep/wakeup`, tick | one running task; state and list agree; sleepers wake on time; the idle task can always run |
| process life cycle | `kernel/task.c` | the same table, descriptor tables, status | `fork`, `exit`, `waitpid` | a child is reaped once and only when it has finished; nothing is used after it is freed |
| lists | `lib/list.c` | two pointers in every node | push, pop, remove, sorted insertion | the directions agree; a node is in one list |
| mutex and lock | `kernel/mutex.c` | value, waiters, holder, repeat | `lock_acquire`, `lock_release` | exclusion, re-entrance, no lost wake-up |
| request queue | `kernel/device.c` | a sorted request list and a direction per disk | `device_request` | one request served at a time, none forgotten, order of the sweep |
| disk driver | `kernel/ide.c` | lock and waiter of the controller, registers | `ide_pio_read/write`, `ide_handler` | no lost interrupt; every sector moved once, in order |
| buffer cache | `kernel/buffer.c` | hash table, free list, wait list, fields of buffers | `bread`, `bwrite`, `brelse` | one buffer for a block, coherent contents, counts, no lost change |
| bitmaps and block map | `fs/bmap.c`, `fs/super.c` | bitmap blocks, block pointers | `balloc/bfree/ialloc/ifree/bmap` | a block is free or in one place of one file |
| inodes | `fs/inode.c` | `inode_table` | `iget/iput`, read, write, truncate | one descriptor for an inode; a file is a text of its own |
| directories | `fs/namei.c` | directory blocks | lookup, link, unlink, mkdir, rmdir | a name refers to an allocated inode; link counts |
| files | `fs/file.c` | `file_table`, offsets | open, close, read, write, lseek | an entry lives as long as a descriptor refers to it |
| memory | `kernel/memory.c` | page counts, page tables | fork copies, faults, `brk` | a page is freed when its last mapping goes, and only then |
| heap | `kernel/arena.c` | arenas and free lists | `kmalloc`, `kfree` | a block is free or in use, never both |
| keyboard | `kernel/keyboard.c`, `lib/fifo.c` | modifier keys, queue, waiter | handler, `keyboard_read` | keys are read once and in order; a reader is woken |
| console | `kernel/console.c` | screen, cursor as address and as coordinate | `console_write` | the two cursors agree; the screen stays in the display memory |
| time, shell, boot | `time.c`, `rtc.c`, `osh.c`, `boot/` | | | see section 7 |

Calls go down this table: the file system calls the buffer cache, which calls
`device_request`, which calls the driver, which takes the lock of the controller
and blocks until the interrupt of the disk. All blocking ends in the scheduler.
What is hard is everything a second task may do while the first one is blocked
in the middle: state read before and used after (`dirty`, offsets, directory
slots, freed blocks), one waiter field for two disks, lists that change around
the request being served, wake-ups that arrive before or after their waiter.
The hazards with their lines are listed in `PROJECT.json`.

## 2. The modules

```
Tasks ------------ what schedule() promises (abstract)
  Sched            task.c + clock.c + the idle thread, integers with their width
  Kernel           + pc: how system calls and interrupts interleave
    Mutex          mutex.c                        implements AbstractLock
      Keyboard     keyboard.c + fifo.c
    Device         device.c + ide.c + the drive   implements AbstractDisk
    BufferCache    buffer.c over AbstractDisk's promise
Lists              lists as sequences, used by all of them
  LinkedList       list.c with its pointers       implements AbstractList
Paging             memory.c, fork and exit        implements AddressSpaces
FileSystem         namei.c, inode.c, file.c, and the inode bitmap of bmap.c
Zone               bmap.c, the transfers of inode.c and file.c
                                                  implements AbstractFiles
Heap               arena.c and the kernel pages of memory.c
Console            console.c
*Proofs            theorems;  MC*: instances for TLC
```

**Tasks.** `state` (`task->state` of every slot, `"NONE"` for NULL) and
`current`. `schedule()` may pick any ready task other than the current one, or
the idle task when there is none (`Candidates`). Modules above use `Switched`,
`Unblocked` and `Entering`, so what holds for them holds for every order of
scheduling. *Sched* refines it with the code's `task_search`, whose comparison
is no order and depends on the order of the slots.

**Sched.** `ticks` is an `int` and is both the rest of the slice and the wake-up
time; `jiffies` and `task->jiffies` are `u32`. `Signed` and `Unsigned` keep the
width. The constant `WordSize` is 2^32 in the code. `clock_handler` is one
action: it wakes the due prefix of `sleep_list`, advances `jiffies`, charges the
running task and switches when its slice is 0. `task_block` puts a task into one
list that stands for the wait lists of all drivers. The idle thread yields only
after an interrupt has ended its `hlt` (`idleWoken`).

**Lists, LinkedList.** A list is the sequence of its nodes. `InsertPosition`
states where `list_insert_sort` links a node. `LinkedList` has the functions of
list.c pointer by pointer and implements `AbstractList`, whose steps are the
operators of `Lists`.

**Mutex.** `value`, `waiters`, `holder`, `repeat` and the loop of `mutex_lock`.
A holder may wait for a device while it holds the lock. `mutex_unlock` wakes the
waiter at the tail, then yields. It implements `AbstractLock`: `depth[t]`, how
often each task has taken the lock.

**Device.** `request_list` and `direct` of every disk, the tasks that wait for
their turn, the lock and the waiter of the controller, and the drive: its
command registers and its phase (`idle`, `busy`, `data`), which only `DriveDone`
changes on its own. `ide_busy_wait` is a guard: the CPU polls with interrupts
off until the drive is there. It implements `AbstractDisk`: a request moves its
sectors once, in order, before it returns.

**BufferCache.** The disk moves a block some time before the call returns, as
`AbstractDisk` promises; contents are the number of changes made to a block, so
"the latest" can be told. `enter`/`leave` bracket a system call; in between it
holds buffers. The lock of a buffer is taken once per read and is kept as
`holder` and `waiters`. `Drop` ends in `"panic"` where the assertion of
`list_remove` fails. `WhileWritten` says whether a task may change a block while
another one waits in `bwrite` or `brelse` for its write; see section 4.

**Paging.** `memory_map`, the page directory and the page tables of every
process, the bitmap `vmap` and `brk`. None of this code calls `schedule()`, so a
system call or a fault is one step, and it needs nothing of *Tasks*: any process
may be `current`. `stopped` ends a behaviour where the kernel panics, fails an
assertion or loops: out of memory, an illegal access, a smaller `brk`, and every
`exit`, whose `free_pde` gives back page tables of the kernel. It implements
`AddressSpaces`: every process has memory of its own. `WriteProtect`, the bit WP
of `cr0`, is clear in the code, so that the kernel's own stores (a `read` into a
page that fork has shared) skip the copy although memory.c:441 calls these pages
read-only; `kernel_store` has this behaviour. The run `paging` sets `WriteProtect`
and shows the rest right. The TLB is left out: `copy_page` writes through address 0 without a
flush (memory.c:405), so that on a processor which keeps that translation a
second copy goes over the first one.

**Keyboard.** The handler with `extcode_state`, `capslock_state` and the columns
2 and 3 of `keymap`, the ring of fifo.c, and `keyboard_read` as a user of the
lock of *Mutex*. `down` and `port` are the hardware: the keys that are down and
the bytes that wait in the controller. `set_leds` drops what it finds there
besides the acknowledgements; `QuietLeds` keeps keys from moving meanwhile, and
without it `KnowsKeys` does not hold.

**FileSystem.** The names of the root directory (`entries`), the inode bitmap,
`desc->nlinks` and the kind of every inode, `inode_table`, `file_table` and the
descriptors of the processes. A system call waits wherever `bread`, `bwrite` or
`brelse` may; `pc` names these places and any task may go on from its own, so
the module needs neither the scheduler nor the cache. `held` are the inodes a
call will give back. `iget` of a listed inode returns at once and the call goes
on in the same step; otherwise the task waits for its block (`desc = 0`).
`find_entry` matches names and not numbers, as the code does: after an unlink it
finds the entry with number 0. `stopped` ends a behaviour where the kernel
panics, fails an assertion, or follows an inode that has no block or has not
been read (the second `iget` of an inode being read returns it as it is,
inode.c:68). Whether a directory is empty is left open, and so are the contents
of files. In `sys_close` and `sys_chdir` the descriptor and the working
directory change with the step that counts, as no other task reads them.

**Zone.** Below the names: the zone bitmap, `desc->zone` and the contents of index
and data blocks, the size and the offset of every file, and the calls `read`,
`write`, `lseek` and the `inode_truncate` of a file that is emptied. The geometry
is a parameter; the run has one direct slot and two numbers in an index block, so
that a file of four blocks reaches into the double index. Index blocks and data
live in the same array `content`, as they do on the disk: a stale number is
followed. A block has its place in the tree of an inode: a slot of `desc->zone`,
and an index in each index block below it (`Leaf`, `IndexPlace`). `bmap` goes down
the path of a position (`Path`), one index block a wait; `inode_truncate` visits
the places in order (`Before`), goes from one that is due to the next (`GoOn`), and
what it has behind it is free (`Freed`). `call[t]` holds the local variables over the waits that `pc` names, and
`stopped` says which assertion failed or where the code defines nothing any more.
It implements `AbstractFiles`, in which every file is a text of its own, a
write replaces a piece of it and emptying it makes it empty. These constants say
how the code is used:

- `Zeroed`: does a block come out of `balloc` with zeros in it? In the code it
  does not (FALSE). `zone` sets it, because nothing else holds otherwise:
  `zone_stale` shows what happens.
- `Sharing`: may two calls work on one inode at a time? Nothing in the code keeps
  processes that share a file over `fork` from it. `zone` does not let them; with
  TRUE, two writers enter a block each at the same place, one of the two is lost,
  and a file emptied under a writer frees what the writer fills.
- `Maps`, `Stride`: `balloc` counts a bitmap block for `BLOCK_SIZE` blocks
  (bmap.c:25) and `bfree` for `BLOCK_BITS`. The run has one bitmap block, for which
  the two agree. With two, the first block of the second one is freed under
  another number.
- `Zones`: the end of the numbers of blocks, which `balloc` and `bfree` assert. Bits
  past it are set when the disk is formatted and never change, so that they are no
  part of `Bit`. `bfree` takes numbers over `BLOCK_BITS` for those of the second
  bitmap block, so that one bitmap block serves up to `BlockBits + 1` of them.

**Heap.** `kernel_map`, the `arena_t` at the start of every page, the free list of
every descriptor as a set, the blocks in use and the pages given to others. It
contains no wait, so a call is a step. The number of pages, the descriptors and
how many blocks each has in a page are parameters.

**Console.** `screen`, `pos`, `x`, `y` at the real geometry, and which bytes a step
stores. One action for each kind of character.

## 3. The runs

| run | what it asks | bounds and why they are enough |
|---|---|---|
| `sched` | states, lists and wake-up times agree; implements *Tasks* | idle and two tasks, sleeps of one and two ticks: equal and different wake-up times, slices that end with sleepers in the list; words of 3 bits, a clock that never stops, and no sleep that reaches the sign bit (`MaxWake`) |
| `sched_live` | sleepers wake, the idle task gives way | words of 2 bits: `jiffies` wraps every fourth tick; `MaxWake` lets a sleep end where it wraps |
| `mutex` | exclusion, no lost wake-up, implements *AbstractLock* (that it uses *Tasks* rightly is proved) | four tasks: holder, woken task, waiter and newcomer; nesting of two |
| `lists` | pointers and sequences agree | four nodes, two of equal key, two lists |
| `device` | one served, none forgotten or skipped; no lost interrupt; implements *AbstractDisk* | four tasks; one disk with three sectors, so that requests arrive on both sides of and at the sector served, and requests of two sectors on the other disk of the controller |
| `buffer` | one buffer for a block, coherent reads, counts, free list, the lock of a buffer | three tasks that hold two buffers each, two buffers for three blocks, so that buffers are recycled; two changes of a block, so that it is written, recycled, read and changed again; no change of a block while it is being written |
| `keyboard` | no reader sleeps over a key, reads are not mixed, the ring is a queue, the driver knows which keys are down | two readers of up to two characters: one waits for the lock, one for a key; a ring of three places fills and wraps; a lock key and two keys of one make code, one of them extended |
| `files` | counts of inodes and of files, one slot for an inode | two processes, the second one forked; two names, two inodes and two slots, so that numbers and slots are used again; five calls with a name (`MaxCalls`), enough for a directory that is made, removed and opened while another call is given its inode; any number of closes |
| `paging` | page counts, private pages, the bitmap, implements *AddressSpaces* | three processes share a heap page and a stack page, each under a table of its own; eight frames run out in forks and faults |
| `zone` | a block is in one place, transfers are exact, implements *AbstractFiles* | two tasks and two files on a disk of five data blocks: a file takes up to seven with its index blocks, so the disk fills up; transfers of one cell and of three cross blocks and index levels; five calls, enough to write, empty and write again while the other task is in a call; `Zeroed` and no `Sharing`, see section 2 |

Two more runs show a property that an assertion of the code states and the code
does not keep:

| run | what TLC shows |
|---|---|
| `buffer_wait` | the release that should wake a task waiting for a buffer unlinks it twice and fails the assertion at list.c:77 |
| `zone_stale` | `balloc` gives out a block with its old contents; as an index block it names blocks of a file that was emptied, and emptying the new file frees them once more: the assertion at bmap.c:63 fails |

`CHECK_DEADLOCK FALSE` is set where the system may really stop: in `buffer` the
kernel may panic, as `buffer_wait` shows; in `paging` and `files` it stops for the
reasons given above, and in `zone` when the disk is full or the bounded calls are
over.

## 4. What the code says and does not do

Claims of comments and assertions that the models contradict, besides the two runs
above. They were met while modelling; the models have the behaviour of the code.

- buffer.h:21 calls `dirty` "different from the disk". `bwrite` clears it after
  its blocking write (buffer.c:177), and so does `brelse`, so that a change made
  meanwhile by another holder is marked clean. With `WhileWritten = TRUE` in
  `MCBuffer.cfg`, `CacheIsCoherent` fails: the buffer is recycled and the block is
  read back without the change.
- memory.c:441 sets the pages of a fork read-only; without WP the kernel writes to
  them all the same. With `WriteProtect = FALSE`, the invariants of `paging`
  still hold and `ImplementsSpaces` fails: the memory of the parent changes under a
  `read` of its child.
- task.h:32 calls `ticks` the rest of the slice; `task_wakeup` leaves it 0, the
  first tick makes it -1, and the woken task is not switched out by the clock any
  more. *Sched* has this behaviour.
- mutex.c:51 says that the yield in `mutex_unlock` gives the mutex to the woken
  task; another task may take it first, and no property rests on it.
- `task_sleep` keeps its promise only up to the sign bit of `ticks`, which
  `jiffies` reaches after 248 days: `WakesOnTime` is checked and proved with
  `MaxWake` below it.
- `add_entry` finds a free slot and its number is set after `ialloc` has waited, so
  that two creations may take one entry; `nlinks` is then not the number of names
  (fs.h:51). *FileSystem* has this behaviour, and claims nothing of `nlinks`.
- `lseek` past the end and a `read` there meet a hole and fail the assertion at
  inode.c:152; a full disk ends in an assertion of `balloc` or in EOF as a block
  number. *Zone* stops there (`"hole"`, `"full"`).
- `scroll_up` erases `WIDTH` words of four bytes where a row has `WIDTH` cells of
  two: two rows, every second cell of them NUL, and up to 96 bytes past the end of
  the display memory. `ConsoleStores` proves that bound; TLC finds 95 violated.

Every property of a passing run has a mutant in `PROJECT.json`: a faulty variant
of a definition, kept in the module before it, under which TLC finds the
property violated.

## 5. Fairness

Only `sched_live` needs fairness: the timer keeps ticking
(`WF_vars(clock_handler)`), and the idle thread, once woken from `hlt`, goes on
to its `yield()`. Nothing is assumed of what tasks do. No fairness is assumed of
the choice of a ready task, since the code has none (`task_search` may pass a
ready task over as long as two others keep the CPU busy). *Mutex*, *Device*,
*BufferCache*, *Keyboard*, *Paging*, *FileSystem* and *Zone* are checked for safety
only.

## 6. The proofs

| theorem | module | for every |
|---|---|---|
| `TaskSafety` | TaskProofs | set of tasks |
| `SchedImplementsTasks`, `SchedTypeCorrect`, `SchedLists` | SchedProofs | table, priorities, word size, sleep arguments |
| `ListsTwoWays`, `PointersImplementLists` | SchedProofs | set of lists, finite set of nodes, keys |
| `SchedNoOversleep`, `SchedWakesOnTime` | SchedProofs | the same, under `NoWrap`: `MaxWake`, the latest wake-up time, is below the sign bit |
| `MutexTypeCorrect`, `MutualExclusion`, `MutexNoLostWakeup`, `MutexWaiters`, `MutexImplementsTasks`, `MutexImplementsLock` | LockProofs | set of tasks, nesting |
| `KeyboardTypes`, `KeyboardUsesLock`, `KeyboardReaderIsWoken`, `KeyboardOneReader`, `KeyboardRing` | LockProofs | set of tasks and keys, length of the ring and of reads |
| `KeyboardKnowsKeys` | LockProofs | the same, under `QuietLeds` |
| `DeviceTypes`, `DeviceServesOne`, `DeviceInterrupts`, `DeviceSkipsNobody`, `DeviceImplementsTasks`, `DeviceImplementsDisk` | DeviceProofs | set of tasks, disks and requests |
| `BufferTypes`, `BufferOnePerBlock`, `BufferLocks`, `BufferCounts`, `BufferImplementsTasks` | BufferProofs | set of tasks and blocks, number of buffers, with and without `WhileWritten` |
| `BufferCoherent` | BufferProofs | the same, without `WhileWritten` |
| `PagingTypes`, `PagingCounts`, `PagingPrivate`, `PagingCountsFit`, `PagingSeparates` | MemoryProofs | set of processes, frames, size of tables, with and without `WriteProtect` |
| `PagingImplementsSpaces` | MemoryProofs | the same, with `WriteProtect` |
| `FilesTypes`, `FilesCounted`, `FilesOneDescriptor` | FileProofs | set of processes, names, inodes, slots of the tables, descriptors |
| `HeapKfreeAsserts`, `HeapPagesAreOwned`, `HeapReturnsUnused` | MemoryProofs | number of pages, descriptors and blocks in a page (`HeapAssumption`) |
| `ZoneTypes` | ZoneProofs | set of tasks and files, size of inodes, index blocks and bitmaps, with and without `Zeroed` and `Sharing` |
| `BlocksOnce`, `TransfersExact`, `ZoneImplementsFiles` | ZoneProofs | the same, with `Zeroed`, without `Sharing`, and with one bitmap block (`OneMap`) |
| `ConsoleCursor`, `ConsoleStores` | DeviceProofs | sequence of characters, at the geometry of the code |

*Tasks.* `TaskInv` is inductive: types, one running task, the idle task ready or
running. *TaskProofs* also holds the lemmas that the drivers share: what insertion
and removal do to the elements of a list without repetition, and what `schedule`,
`task_block` and `task_yield` do to the states.

*Sched.* The inductive invariant `SchedInv` adds to these that a task
is in exactly the list its state says. For the wake-up times it is
strengthened to `TimelyInv`: `sleep_list` is sorted by `ticks`, and no sleeper
is past `jiffies`; the sorted order is what makes the prefix that `task_wakeup`
takes the set of all due tasks. Without `NoWrap` it is false: a wake-up time
over the sign bit is sorted in front.

*LinkedList.* `ChainInv` says that there are sequences, one for each list, whose
places (head, nodes, tail) the pointers link in order in both directions, no node
being at two places (`Chains`). Insertion links a node between two neighbouring
places and removal takes one out (`InsertChains`, `RemoveChains`); each function of
list.c does one of the two, at a place that `list_insert_sort` finds by its walk.
That the walk reads the chain (`WalkIs`) is proved by a least counterexample in
the number of its steps, which stands in for the induction that the installed provers
cannot do. These theorems are in *SchedProofs*, whose lists are the first to rest on
them.

*Mutex.* `MutexInv` is the conjunction of the invariants of the run with
`WaitersAreBlocked` and the fact that a task blocked in kernel code is not the
current one; `NoLostWakeup` is not inductive alone, since a woken task must be
known to be in the loop of `mutex_lock`. The refinements follow step by step from
the invariants: each action of the detailed module is a step or a stutter of the
abstract one.

*Keyboard.* `keyboard_handler` unblocks its waiter without a test. That this is
the interrupt a holder of the lock waits for (`device_interrupt` of *Mutex*) needs
`WaiterWaits`: the field names exactly the task that waits, and only while the
queue is empty. With it every step is a step or a stutter of *Mutex*, and
`MutexInv` carries over. `ReadInv` adds that every place between `tail` and `head`
holds a visible character; `RingIsQueue` follows after the arithmetic modulo the
length has been replaced by two cases (`RingPlaces`). That the driver knows the
keys is not inductive, because bytes wait in the controller: `DecodesInv` says
instead that the last byte of a key which waits tells its state, and that the driver
is right about every key without one. It needs that a prefix byte is
never the last one, and, with `QuietLeds`, that no byte waits behind the press of a
lock key, where `set_leds` would drop it.

*Device.* `DeviceInv` has one part for the tasks (`KernelOK`), one for the request
lists (`ListsOK`) and one for the controller (`ControllerOK`). `OneServed` is not
inductive alone: the task that ends its request hands the disk to the one it finds
next to its place, and that this one waits follows because all tasks in the list but
the one that is served wait. That it passes nobody over (`SkipsNobody`) needs the
list to be sorted whenever a request ends (`Sorted`), though sectors are compared
only when a request is linked. `ControllerOK` joins the lock of the controller to the
drive: only the holder is in the loop over the sectors, a waiter is set exactly
while the drive is busy or its interrupt pending, and the drive is as many
sectors past the start of the holder's request as it has moved. From the last part the
refinement of `AbstractDisk` follows.

*BufferCache.* `BufferInv` has one part for the tasks (`KernelOK`), one for the hash
table (`CacheOK`) and one for the locks (`LockOK`). The last one is the argument of
*Mutex* for every buffer at once: the holder is the task in `bread` with that
buffer, the list holds the tasks blocked for it, and a free lock with waiters has
a woken one, which has not yet given the buffer up. `UseInv` is for the counts: what
every call holds, and in which place of its code a task is a user without holding
(`Users`). Each action is one of three kinds, a task becomes a user, ceases to be
one, or stays one in another way, and the cardinalities are followed once for each
kind. `ContentInv` is for the coherence: a block that differs from the disk is in a
dirty buffer, and once the disk has served a request, the caller's copy and the
disk are the latest until it runs again. The second part is what
`WhileWritten` breaks.

*Paging.* `PagingInv` adds to the invariants of the run what the page tables need
to be told from the pages they map: no frame is the table of two slots, none is both a
table and a mapped page, no process maps a frame twice, and a process that does not
live has no tables. The count of a frame is then the number of processes that map it
or have it as a table, and a step changes this set by one process, for every frame
(`copy_pde`: by the child). `PagingCountsFit` bounds it by the number
of processes, of which the code has 64: the byte in `memory_map` never overflows.
`PagingSeparates` holds with either `WriteProtect`: each step is one of
`AddressSpaces`, or a store of the kernel past the protection; the latter
is impossible if the bit is set, which gives `PagingImplementsSpaces`.

*FileSystem.* `CountsReferences` counts what the calls hold and says nothing of where
they are, so that it is not inductive: `rmdir`, say, would give back an inode that is
not its own. `FileInv` adds what a call holds and knows at each place of its
code (`CallsOK`): the directory until it has its inode, then both, then what is left
of them. It also adds that the slot of the root is never emptied (`TableOK`: two
users, the super block's, are never given back), without which `iget` could find
another inode there, and that only processes have descriptors. Most steps change
what one call holds and the count of one slot (`CallStep`); `open`, `close` and
`chdir` hand an inode from the call to a file or a process or back, and `fork`
gives the child all descriptors of its parent at once (`SharedDescriptors`). That
`iget` enters no inode twice (`OneDescriptor`) needs only that the search and the
entry are one step, as in the code, which waits for the disk after both; that the
slot may be unread until then is why `find_inode` must look at the number and not at
the descriptor (the mutant `OnlyRead`).

*Zone.* `EveryBlockOnce` counts blocks and says nothing of where the calls are. The
inductive invariant is `TypesInv /\ TreeInv`. The first part gives the types and what
each call knows where it waits. The second says of every number in a tree that it is
marked and at no other place (`OwnedOnce`), of every block from `balloc` that it is
marked, empty and in no tree (`NewOnce`), and of every bit that is set that it is one of
these (`Covered`); that no two calls work on one file (`Exclusive`); that `bmap` is in
the block its path leads to (`Following`); and that `inode_truncate` is in the index
blocks above its visit, behind which every slot is 0 (`Emptying`). A step then does one
of four things to the set of places and blocks: nothing, a block becomes a new one, a
new one comes to the place that `bmap` found 0, or the place visited is free. That
the first visit due is in an index block still held, which is where a stale or shared
index block would break the argument, rests on the order of the visits (`VisitOrder`,
`FirstWithin`). TLC has checked `TreeInv` on the instance of `zone`. The count in
`EveryBlockOnce` follows by bijections from places and calls to bits.

`TransfersExact` adds `WritesInv`, that what a write has passed is in the file. Every
step but three changes no text of a file that is not being emptied (`Still`):
`inode_write` changes the cells of one block, which are those of the positions that it
transfers (`BlockCells`); `inode_truncate` makes the file empty for its readers when it
begins; and when it ends the tree is empty as well. With the lengths, the same three
cases give `ZoneImplementsFiles`. The conditions are those under which the code keeps
its promise: `zone_stale` shows what the first one hides, and section 2 what happens
without the others.

*Heap.* The invariant says for each small arena that its blocks are divided into
those in use and those on the free list of its descriptor, that its count is the
cardinality of the latter, and that the pages of arenas, large blocks and others
are apart. From the count follows that a full arena has no block in use.

*Console.* The position is the sum of screen, rows and columns; with `x <= WIDTH`
and `y < HEIGHT` every address follows.

*Heap* and *Console* have no run: they are proved instead, and were explored with
TLC first (four pages and descriptors of three blocks and of one; the whole state
space of the console).

The assumptions are those the modules name (`DeviceAssumption`, `BufferAssumption`,
`PagingAssumption`, ...): types of the constants, that there is an idle task and a
`Boot`, and finite sets where something is counted.

Only model-checked: liveness (`SleepersWake`, `IdleGivesWay`), which is out of the
prover's reach. All other properties of the passing runs are proved.

## 7. What is not modelled and why

- `boot/`, the descriptor tables of the CPU and the 8259: run once, straight-line.
- String and formatting functions, `printk`, the stubs of system calls: no
  property tells their results apart.
- `time.c` is a pure function of a date, and `rtc.c` is never initialised.
- The shell is a user program of one process that only makes calls modelled here.
- Of `task.c`: pids, parents and exit status, which are written once and read by
  `waitpid`; the copied kernel stack of a child, which is an assembly frame. The
  second half of `task_exit` is never reached: `free_pde` (memory.c:465) gives back
  the kernel's own page tables and stops on an assertion of `put_page`.
- Of `ide.c`: identification, partition tables and the error paths of a disk that
  does not answer; `ide_busy_wait` never gives up on it. Of `device.c`: the table of
  devices, set up at boot.
- Of `namei.c`: paths of several components, permissions, the text of the working
  directory. *FileSystem* and *Zone* are not composed: an inode is given back in the
  first with its contents left open, and emptied in the second.
- Crashes: the kernel keeps no journal and `sync`s nothing on its own, so that it
  promises nothing after one.

Left open: `list_popback` (list.c:54) has no return statement, so that its result is
whatever the register holds; the build happens to leave the node there, and the
models take it as returned. The TLB is left out of *Paging*, see section 2.
