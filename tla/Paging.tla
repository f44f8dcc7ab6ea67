------------------------------- MODULE Paging -------------------------------
(***************************************************************************)
(* User memory: src/kernel/memory.c with the parts of task_fork and        *)
(* task_exit (src/kernel/task.c) that call it.  fork shares the pages of   *)
(* the parent read-only and counts their users in memory_map; a write      *)
(* fault copies a page that others still use.                              *)
(*                                                                         *)
(* A page is <<s, i>>: entry i of the page table in slot s of the page     *)
(* directory.  The heap is in one slot, below brk, the stack in the other. *)
(* None of this code calls schedule(): a system call or a fault is one     *)
(* step of the current process.                                            *)
(***************************************************************************)
EXTENDS Integers, FiniteSets

CONSTANTS
    Process,        \* slots of task_table for user processes
    InitTask,       \* the one that task_to_user_mode has made first
    TableSize,      \* entries of a page table, 1024 in the code
    KernelTables,   \* KERNEL_PAGE_TABLE[2] and [3]: pages below start_page
    Frame,          \* the pages from start_page on that the kernel does not map
    NoFrame,
    UserValue,      \* contents of a user page
    WriteProtect    \* bit WP of cr0, FALSE in the code: enable_page sets only PG

ASSUME PagingAssumption ==
    /\ InitTask \in Process /\ IsFiniteSet(Process)
    /\ TableSize \in Nat \ {0}
    /\ Frame \subseteq Nat /\ IsFiniteSet(Frame)
    /\ NoFrame \notin Frame \cup UserValue \cup [frame : Frame, write : BOOLEAN]
    /\ WriteProtect \in BOOLEAN
    /\ KernelTables # {} /\ KernelTables \cap Frame = {}

Slot == {"heap", "stack"}
Index == 0..(TableSize - 1)
Page == Slot \X Index
Entry == [frame : Frame, write : BOOLEAN] \cup {NoFrame}
NoEntries == [i \in Index |-> NoFrame]

VARIABLES
    live,           \* the processes
    current,        \* running_task(), whose page directory is in cr3
    memory_map,     \* users of every page
    pde,            \* the page directory of every process: pages of its tables
    table,          \* page tables, by the page they are in
    data,           \* contents of user pages
    vmap,           \* task->vmap: the pages that are mapped
    brk,            \* task->brk, in pages of the heap
    stopped         \* has the kernel stopped?

vars == <<live, current, memory_map, pde, table, data, vmap, brk, stopped>>

PagingTypeOK ==
    /\ live \subseteq Process /\ current \in live
    /\ memory_map \in [Frame -> Nat]
    /\ pde \in [Process -> [Slot -> Frame \cup {NoFrame}]]
    /\ table \in [Frame -> [Index -> Entry]]
    /\ data \in [Frame -> UserValue]
    /\ vmap \in [Process -> SUBSET Page]
    /\ brk \in [Process -> 0..TableSize]
    /\ stopped \in BOOLEAN

PagingInit ==
    /\ live = {InitTask} /\ current = InitTask
    /\ memory_map = [f \in Frame |-> 0]
    /\ pde = [p \in Process |-> [s \in Slot |-> NoFrame]]
    /\ table = [f \in Frame |-> NoEntries]
    /\ \E x \in UserValue : data = [f \in Frame |-> x]
    /\ vmap = [p \in Process |-> {}]
    /\ brk = [p \in Process |-> 0]
    /\ stopped = FALSE

-----------------------------------------------------------------------------
\* The entry of page v in the tables of p.
Mapping(p, v) ==
    IF pde[p][v[1]] = NoFrame THEN NoFrame ELSE table[pde[p][v[1]]][v[2]]

Present(p, v) == Mapping(p, v) # NoFrame

\* Faulty variant: the search of get_one_page starts below start_page.
UnusedAnywhere == KernelTables \cup {f \in Frame : memory_map[f] = 0}

Unused == {f \in Frame : memory_map[f] = 0}

\* The page that the k-th call of get_one_page returns.
Fresh(k) == CHOOSE f \in Unused : Cardinality({g \in Unused : g <= f}) = k

Left == Cardinality(Unused)

\* A panic, an assertion that fails, or a loop that does not end.
Stop ==
    /\ stopped' = TRUE
    /\ UNCHANGED <<live, current, memory_map, pde, table, data, vmap, brk>>

\* Addresses for which page_fault maps a page.
Legal(p, v) == v[1] = "stack" \/ v[2] < brk[p]

-----------------------------------------------------------------------------
Marked(p, v) == vmap' = [vmap EXCEPT ![p] = @ \cup {v}]

\* link_page: a new page for v, and a new table if the slot has none.
link_page(p, v) ==
    LET s == v[1]
        isNew == pde[p][s] = NoFrame
        t == IF isNew THEN Fresh(1) ELSE pde[p][s]
        f == IF isNew THEN Fresh(2) ELSE Fresh(1)
        entries == IF isNew THEN NoEntries ELSE table[t]
    IN  /\ pde' = [pde EXCEPT ![p][s] = t]
        /\ table' = [table EXCEPT ![t] =
                        [entries EXCEPT ![v[2]] = [frame |-> f, write |-> TRUE]]]
        /\ memory_map' = [g \in Frame |-> IF g \in {t, f} THEN 1 ELSE memory_map[g]]
        /\ Marked(p, v)
        /\ UNCHANGED <<live, current, data, brk, stopped>>

\* page_fault for a page that is not present: anywhere else the kernel panics.
page_fault_absent(p, v) ==
    /\ ~Present(p, v)
    /\ IF Legal(p, v) /\ Left >= IF pde[p][v[1]] = NoFrame THEN 2 ELSE 1
       THEN link_page(p, v)
       ELSE Stop

Remap(p, v, f) ==
    table' = [table EXCEPT ![pde[p][v[1]]][v[2]] = [frame |-> f, write |-> TRUE]]

\* Faulty variant: a shared page is not copied.
NeverShared(f) == TRUE

OnlyUser(f) == memory_map[f] = 1

(***************************************************************************)
(* copy_page maps f at address 0 and copies to there; a TLB that has kept  *)
(* address 0 from an earlier copy, which nothing flushes, is left out.     *)
(***************************************************************************)
copy_page(x, f) == data' = [data EXCEPT ![f] = x]

\* page_fault for a write to a page that is read-only.
page_fault_write(p, v) ==
    /\ Present(p, v) /\ ~Mapping(p, v).write
    /\ LET f == Mapping(p, v).frame
       IN  IF OnlyUser(f)
           THEN /\ Remap(p, v, f)
                /\ UNCHANGED <<live, current, memory_map, pde, data, vmap, brk, stopped>>
           ELSE IF Left > 0
           THEN /\ copy_page(data[f], Fresh(1))
                /\ Remap(p, v, Fresh(1))
                /\ memory_map' = [memory_map EXCEPT ![f] = @ - 1, ![Fresh(1)] = 1]
                /\ UNCHANGED <<live, current, pde, vmap, brk, stopped>>
           ELSE Stop

StoreInto(p, v, x) ==
    /\ data' = [data EXCEPT ![Mapping(p, v).frame] = x]
    /\ UNCHANGED <<live, current, memory_map, pde, table, vmap, brk, stopped>>

\* The program stores into a page that it may write.
store(p, v, x) ==
    /\ Present(p, v) /\ Mapping(p, v).write
    /\ StoreInto(p, v, x)

\* read, waitpid and others store for it, with the rights of the kernel.
kernel_store(p, v, x) ==
    /\ Present(p, v)
    /\ WriteProtect => Mapping(p, v).write
    /\ StoreInto(p, v, x)

(***************************************************************************)
(* brk.  A smaller one unmaps the first page and then never leaves its     *)
(* loop, whose step compares instead of adding.  A request that is refused *)
(* changes nothing.                                                        *)
(***************************************************************************)
sys_brk(p, n) ==
    IF n < brk[p]
    THEN Stop
    ELSE /\ brk' = [brk EXCEPT ![p] = n]
         /\ UNCHANGED <<live, current, memory_map, pde, table, data, vmap, stopped>>

-----------------------------------------------------------------------------
\* Faulty variant: the entries stay writable.
StillWritable(entries) == entries

ReadOnly(entries) ==
    [i \in Index |-> IF entries[i] = NoFrame THEN NoFrame
                     ELSE [entries[i] EXCEPT !.write = FALSE]]

\* Faulty variant: the pages are not counted once more.
NotShared(p, f) == 0

\* How often copy_pde meets page f in the tables of p.
Shared(p, f) ==
    Cardinality({v \in Page : Present(p, v) /\ Mapping(p, v).frame = f})

(***************************************************************************)
(* copy_pde: the pages of p become read-only and have one user more; the   *)
(* child gets a copy of every table, in the order of the slots.            *)
(***************************************************************************)
copy_pde(p, child) ==
    LET slots == {s \in Slot : pde[p][s] # NoFrame}
        Copy(s) == Fresh(IF s = "stack" /\ "heap" \in slots THEN 2 ELSE 1)
        Copied(f) == {s \in slots : f \in {pde[p][s], Copy(s)}}
    IN  IF Left < Cardinality(slots)
        THEN Stop
        ELSE /\ pde' = [pde EXCEPT ![child] =
                           [s \in Slot |-> IF s \in slots THEN Copy(s) ELSE NoFrame]]
             /\ table' = [f \in Frame |->
                             IF Copied(f) = {} THEN table[f]
                             ELSE ReadOnly(table[pde[p][CHOOSE s \in Copied(f) : TRUE]])]
             /\ memory_map' = [f \in Frame |->
                                  IF \E s \in slots : Copy(s) = f THEN 1
                                  ELSE memory_map[f] + Shared(p, f)]
             /\ live' = live \cup {child}
             /\ vmap' = [vmap EXCEPT ![child] = vmap[p]]
             /\ brk' = [brk EXCEPT ![child] = brk[p]]
             /\ UNCHANGED <<current, data, stopped>>

\* fork, in as far as it is about memory.
task_fork(p) ==
    IF live = Process
    THEN Stop
    ELSE \E child \in Process \ live : copy_pde(p, child)

(***************************************************************************)
(* exit.  free_pde goes through slots 2 and 3 of the page directory, which *)
(* hold tables of the kernel, and gives these tables back: put_page finds  *)
(* them below start_page, if its test of free_pages has not failed before. *)
(***************************************************************************)
task_exit ==
    /\ \E f \in KernelTables : f \notin Frame
    /\ Stop

\* task_activate, when another process runs, loads its page directory.
task_activate(p) ==
    /\ p # current
    /\ current' = p
    /\ UNCHANGED <<live, memory_map, pde, table, data, vmap, brk, stopped>>

PagingNext ==
    /\ ~stopped
    /\ \/ \E v \in Page :
             \/ page_fault_absent(current, v)
             \/ page_fault_write(current, v)
             \/ \E x \in UserValue : store(current, v, x) \/ kernel_store(current, v, x)
       \/ \E n \in 0..TableSize : sys_brk(current, n)
       \/ task_fork(current)
       \/ task_exit
       \/ \E p \in live : task_activate(p)

PagingSpec == PagingInit /\ [][PagingNext]_vars

-----------------------------------------------------------------------------
\* Where f is mapped, and where it is a page table.
Mappers(f) ==
    {x \in live \X Page : Present(x[1], x[2]) /\ Mapping(x[1], x[2]).frame = f}

TablesIn(f) == {x \in live \X Slot : pde[x[1]][x[2]] = f}

(***************************************************************************)
(* memory_map counts the users of every page: the processes that map it,   *)
(* after any sequence of forks and faults, and the process whose table it  *)
(* holds.  A count too low frees or shares a page in use, one too high     *)
(* makes page_fault copy for ever.  The bitmap of a process says which     *)
(* pages it maps, as link_page asserts.                                    *)
(***************************************************************************)
CountsMappings ==
    /\ \A f \in Frame :
          memory_map[f] = Cardinality(Mappers(f)) + Cardinality(TablesIn(f))
    /\ \A p \in live : vmap[p] = {v \in Page : Present(p, v)}

\* A page that a process may write is mapped by no other.
WritableIsPrivate ==
    \A p, q \in live : \A v, w \in Page :
       /\ Present(p, v) /\ Mapping(p, v).write
       /\ Present(q, w) /\ Mapping(q, w).frame = Mapping(p, v).frame
       => p = q /\ v = w

\* The pages of the processes as their programs see them.
contentsOf ==
    [p \in Process |-> [v \in Page |->
        IF p \in live /\ Present(p, v) THEN data[Mapping(p, v).frame] ELSE NoFrame]]

Spaces == INSTANCE AddressSpaces WITH
    Value <- UserValue, NoValue <- NoFrame, contents <- contentsOf

\* Every process has an address space of its own.
ImplementsSpaces == Spaces!SpacesSpec

=============================================================================
