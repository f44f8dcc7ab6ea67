------------------------------ MODULE MCDevice ------------------------------
(***************************************************************************)
(* The instance of Device for TLC.                                         *)
(***************************************************************************)
EXTENDS Device, TLC

CONSTANTS hda, hdb

\* One-sector reads of three places of one disk, so that requests arrive on
\* both sides of the one being served, and a block of two sectors of the
\* other disk.
MixedRequests ==
    [disk : {hda}, idx : 1..3, count : {1}, type : {"REQ_READ"}]
       \cup [disk : {hdb}, idx : {0}, count : {2}, type : {"REQ_READ", "REQ_WRITE"}]

\* The tasks that make requests are alike.
TaskSymmetry == Permutations(Task \ {Idle})
=============================================================================
