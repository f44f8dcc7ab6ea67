-------------------------------- MODULE Heap --------------------------------
(***************************************************************************)
(* The heap of the kernel: kmalloc and kfree of src/kernel/arena.c on the  *)
(* bitmap of kernel pages of src/kernel/memory.c.                          *)
(*                                                                         *)
(* A block is <<page of its arena, number>>; what kmalloc returns for a    *)
(* large request is the address of block 0.  The order of a free list does *)
(* not matter here, so that it is a set and list_pop takes any of it.      *)
(* Kernel code that does not wait is not interrupted: a call is one step.  *)
(* A call that finds no pages stops the kernel and is no step.             *)
(***************************************************************************)
EXTENDS Integers, FiniteSets

CONSTANTS
    Pages,          \* how many pages kernel_map is for
    Desc,           \* the descriptors, one for each size of blocks
    TotalBlock,     \* desc->total_block, the blocks in a page
    NoArena,        \* the contents of a page that is no arena
    NoDesc          \* arena->desc of a large one

HeapAssumption ==
    /\ Pages \in Nat
    /\ TotalBlock \in [Desc -> Nat \ {0}]
    /\ NoDesc \notin Desc
    /\ NoArena \notin [desc : Desc \cup {NoDesc}, count : Nat, large : BOOLEAN]

KernelPage == 0..(Pages - 1)

VARIABLES
    kernel_map,     \* the pages whose bit is 1
    arena,          \* the arena_t at the start of every page
    free_list,      \* of every descriptor
    in_use,         \* the blocks that kmalloc returned and kfree did not get
    kpages          \* the <<page, count>> that alloc_kpage gave to others

heapVars == <<kernel_map, arena, free_list, in_use, kpages>>

Arena == [desc : Desc \cup {NoDesc}, count : Nat, large : BOOLEAN]
Small(p) == arena[p] # NoArena /\ ~arena[p].large
Large(p) == arena[p] # NoArena /\ arena[p].large

HeapTypeOK ==
    /\ kernel_map \subseteq KernelPage
    /\ arena \in [KernelPage -> Arena \cup {NoArena}]
    /\ free_list \in [Desc -> SUBSET (KernelPage \X Nat)]
    /\ in_use \subseteq KernelPage \X Nat
    /\ kpages \subseteq KernelPage \X Nat

\* The n pages from p on, and those of the arena at p.
Run(p, n) == p..(p + n - 1)
Arenas == {p \in KernelPage : arena[p] # NoArena}
Span(p) == IF arena[p].large THEN Run(p, arena[p].count) ELSE {p}

\* get_arena_block for every number.
Blocks(p, d) == {p} \X (0..(TotalBlock[d] - 1))

HeapInit ==
    /\ kernel_map = {}
    /\ arena = [p \in KernelPage |-> NoArena]
    /\ free_list = [d \in Desc |-> {}]
    /\ in_use = {}
    /\ kpages = {}

\* scan_page finds the first n pages in a row that are free, at p.
scan_page(p, n) ==
    LET Fits(q) == Run(q, n) \subseteq KernelPage \ kernel_map
    IN  Fits(p) /\ \A q \in 0..(p - 1) : ~Fits(q)

\* kmalloc of a small block from the free list of its descriptor ...
kmalloc_free(d) == \E b \in free_list[d] :
    /\ free_list' = [free_list EXCEPT ![d] = @ \ {b}]
    /\ in_use' = in_use \cup {b}
    /\ arena' = [arena EXCEPT ![b[1]].count = @ - 1]
    /\ UNCHANGED <<kernel_map, kpages>>

\* ... and with a new page for it.
kmalloc_page(d) ==
    /\ free_list[d] = {}
    /\ \E p \in KernelPage : \E b \in Blocks(p, d) :
          /\ scan_page(p, 1)
          /\ kernel_map' = kernel_map \cup {p}
          /\ arena' = [arena EXCEPT ![p] =
                          [desc |-> d, count |-> TotalBlock[d] - 1, large |-> FALSE]]
          /\ free_list' = [free_list EXCEPT ![d] = Blocks(p, d) \ {b}]
          /\ in_use' = in_use \cup {b}
    /\ UNCHANGED kpages

\* kmalloc of more than 1024 bytes, which take n pages with their header.
kmalloc_large(n) == \E p \in KernelPage :
    /\ scan_page(p, n)
    /\ kernel_map' = kernel_map \cup Run(p, n)
    /\ arena' = [arena EXCEPT ![p] = [desc |-> NoDesc, count |-> n, large |-> TRUE]]
    /\ in_use' = in_use \cup {<<p, 0>>}
    /\ UNCHANGED <<free_list, kpages>>

\* kfree of a small block, which gives the page back with its last one ...
kfree(b) ==
    LET p == b[1]
        d == arena[p].desc
        freed == free_list[d] \cup {b}
    IN  /\ b \in in_use /\ Small(p)
        /\ in_use' = in_use \ {b}
        /\ IF arena[p].count + 1 = TotalBlock[d]
           THEN /\ free_list' = [free_list EXCEPT ![d] = freed \ Blocks(p, d)]
                /\ kernel_map' = kernel_map \ {p}
                /\ arena' = [arena EXCEPT ![p] = NoArena]
           ELSE /\ free_list' = [free_list EXCEPT ![d] = freed]
                /\ arena' = [arena EXCEPT ![p].count = @ + 1]
                /\ UNCHANGED kernel_map
        /\ UNCHANGED kpages

\* ... and of a large one.
kfree_large(b) ==
    LET p == b[1] IN
    /\ b \in in_use /\ Large(p)
    /\ in_use' = in_use \ {b}
    /\ kernel_map' = kernel_map \ Run(p, arena[p].count)
    /\ arena' = [arena EXCEPT ![p] = NoArena]
    /\ UNCHANGED <<free_list, kpages>>

\* Pages for page tables, stacks of tasks and bitmaps.
alloc_kpage(n) == \E p \in KernelPage :
    /\ scan_page(p, n)
    /\ kernel_map' = kernel_map \cup Run(p, n)
    /\ kpages' = kpages \cup {<<p, n>>}
    /\ UNCHANGED <<arena, free_list, in_use>>

free_kpage(k) ==
    /\ k \in kpages
    /\ kernel_map' = kernel_map \ Run(k[1], k[2])
    /\ kpages' = kpages \ {k}
    /\ UNCHANGED <<arena, free_list, in_use>>

HeapNext ==
    \/ \E d \in Desc : kmalloc_free(d) \/ kmalloc_page(d)
    \/ \E n \in 1..Pages : kmalloc_large(n) \/ alloc_kpage(n)
    \/ \E b \in in_use : kfree(b) \/ kfree_large(b)
    \/ \E k \in kpages : free_kpage(k)

HeapSpec == HeapInit /\ [][HeapNext]_heapVars

-----------------------------------------------------------------------------
(***************************************************************************)
(* What kfree asserts of a block it is given: its page is an arena, and    *)
(* when the count says that this was the last block in use, all others are *)
(* on the free list; the pages it returns are marked.  The block itself is *)
(* not on the free list yet.                                               *)
(***************************************************************************)
KfreeAsserts == \A b \in in_use :
    LET p == b[1] IN
    /\ Small(p) =>
          LET d == arena[p].desc IN
          /\ b \notin free_list[d]
          /\ p \in kernel_map
          /\ arena[p].count + 1 = TotalBlock[d]
                => Blocks(p, d) \subseteq free_list[d] \cup {b}
    /\ Large(p) => Run(p, arena[p].count) \subseteq kernel_map
    /\ Small(p) \/ Large(p)

(***************************************************************************)
(* No page has two owners: the pages of the arenas, large or small, and    *)
(* those given to others are marked and apart from each other.             *)
(***************************************************************************)
PagesAreOwned ==
    /\ \A p \in Arenas : Span(p) \subseteq kernel_map
    /\ \A k \in kpages : Run(k[1], k[2]) \subseteq kernel_map
    /\ \A p, q \in Arenas : p # q => Span(p) \cap Span(q) = {}
    /\ \A p \in Arenas, k \in kpages : Span(p) \cap Run(k[1], k[2]) = {}
    /\ \A k, l \in kpages : k # l => Run(k[1], k[2]) \cap Run(l[1], l[2]) = {}

\* A page that is returned has no block in use, nor one on a free list.
PageReturned == \A p \in kernel_map \ kernel_map' :
    /\ \A b \in in_use' : b[1] # p
    /\ \A d \in Desc : \A b \in free_list'[d] : b[1] # p

PagesReturnedUnused == [][PageReturned]_heapVars
=============================================================================
