---------------------------- MODULE AbstractDisk ----------------------------
(***************************************************************************)
(* What device_request of src/kernel/device.c promises to the code above   *)
(* it: the sectors a caller asks for are moved between its buffer and its  *)
(* disk, each once and in order, before the call returns.  Nothing is      *)
(* promised about the order in which the requests of several callers are   *)
(* served.                                                                 *)
(***************************************************************************)
EXTENDS Naturals, Sequences

CONSTANTS
    Client,     \* the callers
    Request,    \* records with the fields disk, idx, count and type
    NoRequest

VARIABLES
    asked,      \* the request of every caller that has one
    moved       \* the sectors moved for it so far, as <<disk, idx>>

diskVars == <<asked, moved>>

DiskInit ==
    /\ asked = [c \in Client |-> NoRequest]
    /\ moved = [c \in Client |-> <<>>]

Submit(c) ==
    /\ asked[c] = NoRequest
    /\ \E r \in Request : asked' = [asked EXCEPT ![c] = r]
    /\ UNCHANGED moved

\* The next sector of c's request.
Move(c) ==
    /\ asked[c] # NoRequest
    /\ Len(moved[c]) < asked[c].count
    /\ moved' = [moved EXCEPT ![c] =
                    Append(@, <<asked[c].disk, asked[c].idx + Len(@)>>)]
    /\ UNCHANGED asked

Return(c) ==
    /\ asked[c] # NoRequest
    /\ Len(moved[c]) = asked[c].count
    /\ asked' = [asked EXCEPT ![c] = NoRequest]
    /\ moved' = [moved EXCEPT ![c] = <<>>]

DiskNext == \E c \in Client : Submit(c) \/ Move(c) \/ Return(c)

DiskSpec == DiskInit /\ [][DiskNext]_diskVars
=============================================================================
