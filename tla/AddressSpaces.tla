--------------------------- MODULE AddressSpaces ---------------------------
(***************************************************************************)
(* What fork and the page faults of src/kernel/memory.c promise to user    *)
(* programs: every process has an address space of its own.  A child       *)
(* starts with the contents of its parent, and from then on a store of one *)
(* process is seen by no other.                                            *)
(***************************************************************************)
CONSTANTS Process, Page, Value, NoValue

VARIABLES
    live,       \* the processes
    contents    \* of every page of every process, NoValue if it has none

spaceVars == <<live, contents>>

SpacesInit ==
    /\ \E p \in Process : live = {p}
    /\ contents = [p \in Process |-> [v \in Page |-> NoValue]]

Put(p, v, x) == contents' = [contents EXCEPT ![p][v] = x]

\* A page appears when it is first used, with anything in it.
Appear(p, v) ==
    /\ contents[p][v] = NoValue
    /\ \E x \in Value : Put(p, v, x)
    /\ UNCHANGED live

Store(p, v) ==
    /\ contents[p][v] # NoValue
    /\ \E x \in Value : Put(p, v, x)
    /\ UNCHANGED live

Disappear(p, v) ==
    /\ Put(p, v, NoValue)
    /\ UNCHANGED live

Fork(p, child) ==
    /\ child \notin live
    /\ live' = live \cup {child}
    /\ contents' = [contents EXCEPT ![child] = contents[p]]

SpacesNext ==
    \E p \in live : \/ \E v \in Page : Appear(p, v) \/ Store(p, v) \/ Disappear(p, v)
                    \/ \E child \in Process : Fork(p, child)

SpacesSpec == SpacesInit /\ [][SpacesNext]_spaceVars
=============================================================================
