----------------------------- MODULE FileProofs -----------------------------
(***************************************************************************)
(* Theorems about FileSystem, for every number of processes, names, inodes *)
(* and slots of the tables.                                                *)
(*                                                                         *)
(* CountsReferences says nothing of where a call is, so it is not          *)
(* inductive: a call that goes on does so with the inodes that it should   *)
(* hold at that place.  FileInv adds what a call holds and knows at each   *)
(* place of its code (CallsOK), that the root keeps its slot (TableOK),    *)
(* and that only processes have descriptors (OpensOK).                     *)
(*                                                                         *)
(* A step changes the number of elements of Holds, OpenOn, WorksIn and     *)
(* Descriptors by one at most (ChangeAt), but for fork, which gives the    *)
(* child all the descriptors of its parent at once (SharedDescriptors).    *)
(***************************************************************************)
EXTENDS FileSystem, FiniteSetTheorems, WellFoundedInduction, SequenceTheorems, TLAPS

Slots == Inode \cup {Root}
Label == {"user", "find", "find new", "add", "slot", "ialloc", "iget", "iget new",
          "namei", "empty", "truncate", "ifree", "opened", "iput"}

DiskOK ==
    /\ entries \in Seq([name : Name, nr : Nr \cup {0}])
    /\ Len(entries) <= MaxEntries
    /\ imap \subseteq Nr \cup {0}
    /\ nlinks \in [Nr -> 0..255] /\ isdir \in [Nr -> BOOLEAN]

\* The local variables c of a call at a place of its code.
CallFits(c, label) ==
    /\ IF label \in {"user", "iput"} THEN c = NoCall ELSE c \in Call
    /\ label = "find new" => c.op = "link"
    /\ label = "ialloc" => c.op # "link"

\* What a call holds at a place of its code: the directory, until it has its
\* inode, then both; at the end, what is left of them.
Fits(L, c, label) ==
    /\ L \in Seq(Slots) /\ Len(L) <= 2
    /\ label = "user" => L = <<>>
    /\ label = "iput" => Len(L) >= 1
    /\ label = "find" \/ (label \in {"add", "slot", "ialloc"} /\ c.op # "link")
          => L = <<Root>>
    /\ label \in Label \ {"user", "iput", "find", "add", "slot", "ialloc"}
       \/ (label \in {"add", "slot"} /\ c.op = "link")
          => Len(L) = 2 /\ L[1] = Root /\ L[2] \in Inode

CallsOK ==
    /\ live \subseteq Task
    /\ pc \in [Task -> Label]
    /\ call \in [Task -> Call \cup {NoCall}]
    /\ held \in [Task -> Seq(Slots)]
    /\ \A t \in Task : CallFits(call[t], pc[t]) /\ Fits(held[t], call[t], pc[t])
    /\ \A t \in Task \ live : pc[t] = "user"

\* The first slot is the root's, and no other slot has its number.
TableOK ==
    /\ inode \in [Slots -> [nr : Nr \cup {0, RootNr}, count : Nat,
                            desc : Nr \cup {0, RootNr}]]
    /\ inode[Root].nr = RootNr
    /\ \A s \in Inode : inode[s].nr # RootNr /\ inode[s].desc # RootNr
    /\ OneDescriptor

OpensOK ==
    /\ file \in [File -> [count : Nat, inode : Slots]]
    /\ files \in [Task -> [Fd -> File \cup {NoFile}]]
    /\ ipwd \in [Task -> Slots]
    /\ \A t \in Task \ live, fd \in Fd : files[t][fd] = NoFile

FileInv ==
    /\ DiskOK /\ CallsOK /\ TableOK /\ OpensOK /\ CountsReferences
    /\ calls \in 0..MaxCalls /\ stopped \in BOOLEAN

-----------------------------------------------------------------------------
\* What a search from the start of a table finds.
LEMMA LeastIs ==
    ASSUME NEW S \in SUBSET Nat, S # {}
    PROVE  Least(S) \in S
<1> DEFINE R == {ss \in Nat \X Nat : ss[1] < ss[2]}
<1>1. IsWellFoundedOn(R, Nat)
  BY NatLessThanWellFounded DEF OpToRel
<1>2. PICK x \in S : \A y \in S : <<y, x>> \notin R
  <2> HIDE DEF R
  <2> QED BY <1>1, WFMin
<1>3. \A y \in S : x <= y
  <2> SUFFICES ASSUME NEW y \in S PROVE ~(y < x)
    OBVIOUS
  <2>1. ASSUME y < x PROVE <<y, x>> \in R
    BY <2>1
  <2> QED BY <1>2, <2>1
<1> QED BY <1>3 DEF Least

\* Two sets that differ in one element at most.
LEMMA ChangeAt ==
    ASSUME NEW A, NEW B, NEW x, IsFiniteSet(A), \A y : y # x => (y \in A <=> y \in B)
    PROVE  /\ IsFiniteSet(B) /\ Cardinality(A) \in Nat /\ Cardinality(B) \in Nat
           /\ Cardinality(B) + (IF x \in A THEN 1 ELSE 0)
                = Cardinality(A) + (IF x \in B THEN 1 ELSE 0)
<1>1. Cardinality(A) \in Nat
  BY FS_CardinalityType
<1>2. CASE x \in A <=> x \in B
  <2>1. A = B
    BY <1>2
  <2> QED BY <1>1, <2>1
<1>3. CASE x \in A /\ x \notin B
  <2>1. B = A \ {x}
    BY <1>3
  <2>2. IsFiniteSet(B) /\ Cardinality(B) = Cardinality(A) - 1
    BY <1>3, <2>1, FS_RemoveElement
  <2> QED BY <1>1, <1>3, <2>2, FS_CardinalityType
<1>4. CASE x \notin A /\ x \in B
  <2>1. B = A \cup {x}
    BY <1>4
  <2>2. IsFiniteSet(B) /\ Cardinality(B) = Cardinality(A) + 1
    BY <1>4, <2>1, FS_AddElement
  <2> QED BY <1>1, <1>4, <2>2
<1> QED BY <1>2, <1>3, <1>4

\* The sets of users are finite.
LEMMA Finite ==
    /\ \A s : IsFiniteSet(Holds(s)) /\ IsFiniteSet(OpenOn(s))
    /\ \A f : IsFiniteSet(Descriptors(f))
    /\ CallsOK => IsFiniteSet(live) /\ \A s : IsFiniteSet(WorksIn(s))
<1>1. IsFiniteSet(Task \X (1..2)) /\ IsFiniteSet(Task \X Fd) /\ IsFiniteSet(File)
  <2>1. IsFiniteSet(1..2)
    BY 1 \in Int, 2 \in Int, FS_Interval
  <2> QED BY <2>1, FileSystemAssumption, FS_Product
<1>2. ASSUME NEW s PROVE IsFiniteSet(Holds(s)) /\ IsFiniteSet(OpenOn(s))
  <2>1. Holds(s) \in SUBSET (Task \X (1..2)) /\ OpenOn(s) \in SUBSET File
    BY DEF Holds, OpenOn
  <2> QED BY <1>1, <2>1, FS_Subset
<1>3. ASSUME NEW f PROVE IsFiniteSet(Descriptors(f))
  <2>1. Descriptors(f) \in SUBSET (Task \X Fd)
    BY DEF Descriptors
  <2> QED BY <1>1, <2>1, FS_Subset
<1>4. ASSUME CallsOK PROVE IsFiniteSet(live) /\ \A s : IsFiniteSet(WorksIn(s))
  <2>1. IsFiniteSet(live)
    BY <1>4, FileSystemAssumption, FS_Subset DEF CallsOK
  <2>2. ASSUME NEW s PROVE IsFiniteSet(WorksIn(s))
    <3>1. WorksIn(s) \in SUBSET live
      BY DEF WorksIn
    <3> QED BY <2>1, <3>1, FS_Subset
  <2> QED BY <2>1, <2>2
<1> QED BY <1>2, <1>3, <1>4

\* How often slot s is among the inodes L that a call holds.
Occurs(L, s) == (IF Len(L) >= 1 /\ L[1] = s THEN 1 ELSE 0)
              + (IF Len(L) >= 2 /\ L[2] = s THEN 1 ELSE 0)

\* A task lets go of some inodes and takes others.
LEMMA HoldStep ==
    ASSUME CallsOK, NEW t \in Task, NEW L \in Seq(Slots), Len(L) <= 2,
           held' = [held EXCEPT ![t] = L], NEW s
    PROVE  /\ Cardinality(Holds(s)) \in Nat /\ Cardinality(Holds(s)') \in Nat
           /\ Cardinality(Holds(s)') + Occurs(held[t], s)
                = Cardinality(Holds(s)) + Occurs(L, s)
<1> DEFINE one == <<t, 1>>
           two == <<t, 2>>
           Middle == {x \in Holds(s) : x # one} \cup {x \in Holds(s)' : x = one}
<1>1. /\ held'[t] = L /\ \A u \in Task : u # t => held'[u] = held[u]
      /\ held[t] \in Seq(Slots) /\ Len(held[t]) \in Nat /\ Len(L) \in Nat
      /\ DOMAIN held[t] = 1..Len(held[t]) /\ DOMAIN L = 1..Len(L)
  BY DEF CallsOK
<1>2. \A x \in Task \X (1..2) : x = <<x[1], x[2]>> /\ x[1] \in Task /\ x[2] \in 1..2
  OBVIOUS
<1>3. \A y : y # one => (y \in Holds(s) <=> y \in Middle)
  BY DEF Holds
<1>4. \A y : y # two => (y \in Middle <=> y \in Holds(s)')
  <2>1. ASSUME NEW y \in Task \X (1..2), y # two, y # one
        PROVE  y \in Holds(s) <=> y \in Holds(s)'
    <3>1. y[1] # t /\ y[1] \in Task
      BY <1>2, <2>1
    <3> QED BY <1>1, <3>1 DEF Holds
  <2>2. \A y : y \in Holds(s) \/ y \in Holds(s)' => y \in Task \X (1..2)
    BY DEF Holds
  <2> QED BY <2>1, <2>2
<1>5. /\ one \in Holds(s) <=> Len(held[t]) >= 1 /\ held[t][1] = s
      /\ two \in Holds(s) <=> Len(held[t]) >= 2 /\ held[t][2] = s
      /\ one \in Holds(s)' <=> Len(L) >= 1 /\ L[1] = s
      /\ two \in Holds(s)' <=> Len(L) >= 2 /\ L[2] = s
  BY <1>1 DEF Holds
<1>6. /\ one \in Middle <=> one \in Holds(s)'
      /\ two \in Middle <=> two \in Holds(s)
  OBVIOUS
<1>7. IsFiniteSet(Holds(s))
  BY Finite
<1>10. PICK A, B : A = Holds(s) /\ B = Holds(s)'
  OBVIOUS
<1> HIDE DEF one, two, Middle
<1>8. /\ IsFiniteSet(Middle) /\ Cardinality(Holds(s)) \in Nat /\ Cardinality(Middle) \in Nat
      /\ Cardinality(Middle) + (IF one \in Holds(s) THEN 1 ELSE 0)
           = Cardinality(Holds(s)) + (IF one \in Middle THEN 1 ELSE 0)
  BY <1>3, <1>7, ChangeAt
<1>9. /\ Cardinality(Holds(s)') \in Nat
      /\ Cardinality(Holds(s)') + (IF two \in Middle THEN 1 ELSE 0)
           = Cardinality(Middle) + (IF two \in Holds(s)' THEN 1 ELSE 0)
  <2>1. IsFiniteSet(Middle) /\ \A y : y # two => (y \in Middle <=> y \in B)
    BY <1>4, <1>8, <1>10
  <2>2. /\ Cardinality(B) \in Nat
        /\ Cardinality(B) + (IF two \in Middle THEN 1 ELSE 0)
             = Cardinality(Middle) + (IF two \in B THEN 1 ELSE 0)
    BY ONLY <2>1, ChangeAt
  <2> QED BY ONLY <1>10, <2>2
<1>11. PICK a, b, m \in Nat : a = Cardinality(Holds(s)) /\ b = Cardinality(Holds(s)')
                               /\ m = Cardinality(Middle)
  BY <1>8, <1>9
<1>12. /\ m + (IF one \in Holds(s) THEN 1 ELSE 0) = a + (IF one \in Holds(s)' THEN 1 ELSE 0)
       /\ b + (IF two \in Holds(s) THEN 1 ELSE 0) = m + (IF two \in Holds(s)' THEN 1 ELSE 0)
  <2>1. m + (IF one \in Holds(s) THEN 1 ELSE 0) = a + (IF one \in Middle THEN 1 ELSE 0)
    BY ONLY <1>8, <1>11
  <2>2. b + (IF two \in Middle THEN 1 ELSE 0) = m + (IF two \in Holds(s)' THEN 1 ELSE 0)
    BY ONLY <1>9, <1>11
  <2>3. (IF one \in Middle THEN 1 ELSE 0) = (IF one \in Holds(s)' THEN 1 ELSE 0)
    BY ONLY <1>6
  <2>4. (IF two \in Middle THEN 1 ELSE 0) = (IF two \in Holds(s) THEN 1 ELSE 0)
    BY ONLY <1>6
  <2>5. m + (IF one \in Holds(s) THEN 1 ELSE 0) = a + (IF one \in Holds(s)' THEN 1 ELSE 0)
    BY ONLY <2>1, <2>3
  <2>6. b + (IF two \in Holds(s) THEN 1 ELSE 0) = m + (IF two \in Holds(s)' THEN 1 ELSE 0)
    BY ONLY <2>2, <2>4
  <2> QED BY ONLY <2>5, <2>6
<1>13. \A P \in BOOLEAN : (IF P THEN 1 ELSE 0) \in {0, 1}
  OBVIOUS
<1>14. PICK p \in {0, 1} : p = IF one \in Holds(s) THEN 1 ELSE 0
  BY ONLY <1>13
<1>15. PICK q \in {0, 1} : q = IF two \in Holds(s) THEN 1 ELSE 0
  BY ONLY <1>13
<1>16. PICK u \in {0, 1} : u = IF one \in Holds(s)' THEN 1 ELSE 0
  BY ONLY <1>13
<1>17. PICK v \in {0, 1} : v = IF two \in Holds(s)' THEN 1 ELSE 0
  BY ONLY <1>13
<1>18. Occurs(held[t], s) = p + q
  BY ONLY <1>5, <1>14, <1>15 DEF Occurs
<1>19. Occurs(L, s) = u + v
  BY ONLY <1>5, <1>16, <1>17 DEF Occurs
<1>20. b + (p + q) = a + (u + v)
  <2>1. m + p = a + u /\ b + q = m + v
    BY ONLY <1>12, <1>14, <1>15, <1>16, <1>17
  <2>2. /\ a \in Int /\ b \in Int /\ m \in Int
        /\ p \in Int /\ q \in Int /\ u \in Int /\ v \in Int
    BY ONLY <1>11, <1>14, <1>15, <1>16, <1>17
  <2> QED BY ONLY <2>1, <2>2
<1> QED BY ONLY <1>11, <1>18, <1>19, <1>20

\* What a call holds has a user, and the root more than one.
LEMMA HeldIsUsed ==
    ASSUME FileInv, NEW t \in Task, NEW k \in DOMAIN held[t]
    PROVE  /\ inode[held[t][k]].count \in Nat \ {0}
           /\ held[t][k] = Root => inode[Root].count > 1
<1> DEFINE s == held[t][k]
<1>1. held[t] \in Seq(Slots) /\ Len(held[t]) \in 0..2 /\ k \in 1..2 /\ s \in Slots
  <2>1. held[t] \in Seq(Slots) /\ Len(held[t]) <= 2
    BY DEF FileInv, CallsOK, Fits
  <2>2. Len(held[t]) \in Nat /\ DOMAIN held[t] = 1..Len(held[t])
    BY <2>1, LenProperties
  <2>3. held[t][k] \in Slots
    BY <2>1, <2>2
  <2>4. k \in 1..Len(held[t])
    BY <2>2
  <2>5. ASSUME NEW n \in Nat, n <= 2, k \in 1..n PROVE n \in 0..2 /\ k \in 1..2
    BY <2>5
  <2>6. Len(held[t]) \in 0..2 /\ k \in 1..2
    BY ONLY <2>1, <2>2, <2>4, <2>5
  <2> QED BY <2>1, <2>3, <2>6
<1>2. <<t, k>> \in Holds(s)
  BY <1>1 DEF Holds
<1>3. IsFiniteSet(Holds(s)) /\ IsFiniteSet(OpenOn(s)) /\ IsFiniteSet(WorksIn(s)) /\ IsFiniteSet(live)
  BY Finite DEF FileInv
<1>4. /\ Cardinality(Holds(s)) \in Nat /\ Cardinality(Holds(s)) # 0
      /\ Cardinality(OpenOn(s)) \in Nat /\ Cardinality(WorksIn(s)) \in Nat /\ Cardinality(live) \in Nat
  BY <1>2, <1>3, FS_CardinalityType, FS_EmptySet
<1>5. inode[s].count = Cardinality(Holds(s)) + Cardinality(OpenOn(s)) + Cardinality(WorksIn(s)) + Roots(s)
  BY <1>1 DEF FileInv, CountsReferences, Slots
<1> QED BY <1>4, <1>5 DEF Roots

Desc == [nr : Nr \cup {0, RootNr}, count : Nat, desc : Nr \cup {0, RootNr}]

\* A record of the table with one field changed, field by field.
LEMMA EditedDesc ==
    ASSUME NEW r \in Desc, NEW n
    PROVE  /\ [r EXCEPT !.count = n] = [nr |-> r.nr, count |-> n, desc |-> r.desc]
           /\ [r EXCEPT !.nr = n] = [nr |-> n, count |-> r.count, desc |-> r.desc]
           /\ [r EXCEPT !.desc = n] = [nr |-> r.nr, count |-> r.count, desc |-> n]
BY DEF Desc

\* The count of slot s has changed by n - m, and no other.
Shifted(s, m, n) ==
    \A x \in Slots : inode'[x].count + (IF x = s THEN m ELSE 0)
                       = inode[x].count + (IF x = s THEN n ELSE 0)

\* The table is as before.
LEMMA SameTable == ASSUME TableOK, UNCHANGED inode PROVE TableOK'
BY DEF TableOK, OneDescriptor

\* A used slot has one more user.
LEMMA CountedTable ==
    ASSUME TableOK, NEW s \in Slots, inode[s].count # 0, inode' = Counted(inode, s)
    PROVE  TableOK' /\ Shifted(s, 0, 1)
<1>1. inode' = [inode EXCEPT ![s] = [nr |-> inode[s].nr, count |-> inode[s].count + 1,
                                     desc |-> inode[s].desc]]
  <2>1. inode[s] \in Desc /\ s \in DOMAIN inode
    BY DEF TableOK, Desc
  <2>2. inode' = [inode EXCEPT ![s] = [inode[s] EXCEPT !.count = inode[s].count + 1]]
    BY <2>1 DEF Counted
  <2> QED BY <2>1, <2>2, EditedDesc
<1>2. \A x \in Slots : inode'[x].nr = inode[x].nr /\ inode'[x].desc = inode[x].desc
  BY <1>1 DEF TableOK
<1>3. Shifted(s, 0, 1)
  BY <1>1 DEF TableOK, Shifted
<1>4. \A x \in Slots : inode'[x].count > 0 => inode[x].count > 0
  BY <1>1 DEF TableOK
<1>5. inode' \in [Slots -> [nr : Nr \cup {0, RootNr}, count : Nat, desc : Nr \cup {0, RootNr}]]
  BY <1>1 DEF TableOK
<1> QED BY <1>2, <1>3, <1>4, <1>5 DEF TableOK, OneDescriptor, Slots

\* A slot has one user less, and is emptied if that was the last one.
LEMMA PutTable ==
    ASSUME TableOK, NEW s \in Slots, inode[s].count # 0, s = Root => inode[s].count > 1,
           inode' = Put(inode, s)
    PROVE  TableOK' /\ Shifted(s, 1, 0)
<1>1. inode' = [inode EXCEPT ![s] = IF inode[s].count = 1 THEN NoInode
                  ELSE [nr |-> inode[s].nr, count |-> inode[s].count - 1, desc |-> inode[s].desc]]
  <2>1. inode[s] \in Desc /\ s \in DOMAIN inode
    BY DEF TableOK, Desc
  <2>2. inode' = [inode EXCEPT ![s] = IF inode[s].count = 1 THEN NoInode
                                      ELSE [inode[s] EXCEPT !.count = inode[s].count - 1]]
    <3>1. CASE inode[s].count = 1
      BY <3>1 DEF Put
    <3>2. CASE inode[s].count # 1
      BY <3>2 DEF Put
    <3> QED BY <3>1, <3>2
  <2>3. [inode[s] EXCEPT !.count = inode[s].count - 1]
           = [nr |-> inode[s].nr, count |-> inode[s].count - 1, desc |-> inode[s].desc]
    BY <2>1, EditedDesc
  <2> QED BY <2>2, <2>3
<1>2. \A x \in Slots : inode'[x].count > 0 =>
          /\ inode'[x].nr = inode[x].nr /\ inode'[x].desc = inode[x].desc
          /\ inode[x].count > 0
  BY <1>1 DEF TableOK, NoInode
<1>3. Shifted(s, 1, 0)
  BY <1>1 DEF TableOK, Shifted, NoInode
<1>4. inode' \in [Slots -> [nr : Nr \cup {0, RootNr}, count : Nat, desc : Nr \cup {0, RootNr}]]
  <2>1. inode \in [Slots -> Desc]
    BY DEF TableOK, Desc
  <2>2. NoInode \in Desc
    BY DEF NoInode, Desc
  <2>3. [nr |-> inode[s].nr, count |-> inode[s].count - 1, desc |-> inode[s].desc] \in Desc
    <3>1. inode[s].nr \in Nr \cup {0, RootNr} /\ inode[s].desc \in Nr \cup {0, RootNr}
          /\ inode[s].count \in Nat
      BY <2>1 DEF Desc
    <3>2. inode[s].count - 1 \in Nat
      BY <3>1
    <3> QED BY <3>1, <3>2 DEF Desc
  <2>4. inode' \in [Slots -> Desc]
    BY <1>1, <2>1, <2>2, <2>3
  <2> QED BY <2>4 DEF Desc
<1>5. inode'[Root].nr = RootNr
  BY <1>1 DEF TableOK, Slots
<1>6. \A x \in Inode : inode'[x].nr # RootNr /\ inode'[x].desc # RootNr
  BY <1>1, FileSystemAssumption DEF TableOK, Slots, NoInode
<1>7. OneDescriptor'
  BY <1>2 DEF TableOK, OneDescriptor, Slots
<1> QED BY <1>3, <1>4, <1>5, <1>6, <1>7 DEF TableOK

\* The inode of a slot has been read.
LEMMA ReadTable ==
    ASSUME TableOK, NEW s \in Inode, inode' = [inode EXCEPT ![s].desc = inode[s].nr]
    PROVE  TableOK' /\ Shifted(s, 0, 0)
<1>1. inode' = [inode EXCEPT ![s] = [nr |-> inode[s].nr, count |-> inode[s].count,
                                     desc |-> inode[s].nr]]
  <2>1. inode[s] \in Desc /\ s \in DOMAIN inode
    BY DEF TableOK, Desc, Slots
  <2>2. inode' = [inode EXCEPT ![s] = [inode[s] EXCEPT !.desc = inode[s].nr]]
    BY <2>1
  <2>3. [inode[s] EXCEPT !.desc = inode[s].nr] = [nr |-> inode[s].nr, count |-> inode[s].count,
                                                  desc |-> inode[s].nr]
    BY <2>1, EditedDesc
  <2> QED BY <2>2, <2>3
<1>2. \A x \in Slots : inode'[x].nr = inode[x].nr /\ inode'[x].count = inode[x].count
  BY <1>1 DEF TableOK, Slots
<1>3. Shifted(s, 0, 0)
  BY <1>2 DEF TableOK, Shifted
<1>4. inode' \in [Slots -> [nr : Nr \cup {0, RootNr}, count : Nat, desc : Nr \cup {0, RootNr}]]
  BY <1>1 DEF TableOK, Slots
<1>5. \A x \in Inode : inode'[x].nr # RootNr /\ inode'[x].desc # RootNr
  BY <1>1 DEF TableOK, Slots
<1> QED BY <1>2, <1>3, <1>4, <1>5 DEF TableOK, OneDescriptor, Slots

\* A free slot is taken for an inode that is in none.
LEMMA ListTable ==
    ASSUME TableOK, NEW s \in Inode, inode[s].count = 0, NEW i \in Nr, find_inode(i) = {},
           inode' = [inode EXCEPT ![s] = [nr |-> i, count |-> 1, desc |-> 0]]
    PROVE  TableOK' /\ Shifted(s, 0, 1)
<1>1. \A x \in Slots : inode'[x] = IF x = s THEN [nr |-> i, count |-> 1, desc |-> 0]
                                            ELSE inode[x]
  BY DEF TableOK, Slots
<1>2. i # RootNr /\ i # 0
  BY FileSystemAssumption
<1>3. Shifted(s, 0, 1)
  BY <1>1 DEF TableOK, Shifted
<1>4. inode' \in [Slots -> [nr : Nr \cup {0, RootNr}, count : Nat, desc : Nr \cup {0, RootNr}]]
  BY DEF TableOK, Slots
<1>5. \A x \in Inode : inode'[x].nr # RootNr /\ inode'[x].desc # RootNr
  BY <1>1, <1>2, FileSystemAssumption DEF TableOK, Slots
<1>6. \A x \in Slots : x # s /\ inode[x].count > 0 => inode[x].nr # i
  BY <1>2 DEF find_inode, TableOK, Slots
<1>7. OneDescriptor'
  <2>1. \A x, y \in Slots : x # y /\ inode[x].count > 0 /\ inode[y].count > 0
           => inode[x].nr # inode[y].nr \/ inode[x].nr = 0
    BY DEF TableOK, OneDescriptor, Slots
  <2>2. s \in Slots
    BY DEF Slots
  <2> HIDE DEF Slots
  <2>3. \A x, y \in Slots : x # y /\ inode'[x].count > 0 /\ inode'[y].count > 0
           => inode'[x].nr # inode'[y].nr \/ inode'[x].nr = 0
    BY <1>1, <1>6, <2>1, <2>2
  <2> QED BY <2>3 DEF OneDescriptor, Slots
<1>8. inode'[Root].nr = RootNr
  BY <1>1, FileSystemAssumption DEF TableOK, Slots
<1> QED BY <1>3, <1>4, <1>5, <1>7, <1>8 DEF TableOK

\* rmdir takes the number of a slot away.
LEMMA ClearTable ==
    ASSUME TableOK, NEW s \in Inode, inode' = [inode EXCEPT ![s].nr = 0]
    PROVE  TableOK' /\ Shifted(s, 0, 0)
<1>1. inode' = [inode EXCEPT ![s] = [nr |-> 0, count |-> inode[s].count,
                                     desc |-> inode[s].desc]]
  <2>1. inode[s] \in Desc /\ s \in DOMAIN inode
    BY DEF TableOK, Desc, Slots
  <2>2. inode' = [inode EXCEPT ![s] = [inode[s] EXCEPT !.nr = 0]]
    BY <2>1
  <2> QED BY <2>1, <2>2, EditedDesc
<1>2. \A x \in Slots : /\ inode'[x].nr = inode[x].nr \/ (inode'[x].nr = 0 /\ x # Root)
                       /\ inode'[x].count = inode[x].count
  BY <1>1, FileSystemAssumption DEF TableOK, Slots
<1>3. Shifted(s, 0, 0)
  BY <1>2 DEF TableOK, Shifted
<1>4. inode' \in [Slots -> [nr : Nr \cup {0, RootNr}, count : Nat, desc : Nr \cup {0, RootNr}]]
  BY <1>1 DEF TableOK, Slots
<1>5. \A x \in Inode : inode'[x].nr # RootNr /\ inode'[x].desc # RootNr
  BY <1>1, FileSystemAssumption DEF TableOK, Slots
<1>6. OneDescriptor'
  <2>1. \A x, y \in Slots : x # y /\ inode[x].count > 0 /\ inode[y].count > 0
           => inode[x].nr # inode[y].nr \/ inode[x].nr = 0
    BY DEF TableOK, OneDescriptor, Slots
  <2>2. \A x, y \in Slots : x # y /\ inode'[x].count > 0 /\ inode'[y].count > 0
           => inode'[x].nr # inode'[y].nr \/ inode'[x].nr = 0
    BY <1>2, <2>1
  <2> QED BY <2>2 DEF OneDescriptor, Slots
<1>7. inode'[Root].nr = RootNr
  BY <1>1, FileSystemAssumption DEF TableOK, Slots
<1> QED BY <1>3, <1>4, <1>5, <1>6, <1>7 DEF TableOK

-----------------------------------------------------------------------------
\* The step of a call: where it goes, its variables, what it holds.
Moves(t, label, c, L) ==
    /\ pc' = [pc EXCEPT ![t] = label]
    /\ call' = [call EXCEPT ![t] = c]
    /\ held' = [held EXCEPT ![t] = L]
    /\ label \in Label /\ CallFits(c, label) /\ Fits(L, c, label)

\* Such a step leaves every call with what it should hold.
LEMMA MovesKeepCalls ==
    ASSUME CallsOK, NEW t \in live, UNCHANGED live, NEW label, NEW c, NEW L, Moves(t, label, c, L)
    PROVE  CallsOK'
<1>1. t \in Task /\ L \in Seq(Slots)
  BY DEF CallsOK, Moves, Fits
<1>2. c \in Call \cup {NoCall}
  BY DEF Moves, CallFits
<1>3. /\ pc'[t] = label /\ call'[t] = c /\ held'[t] = L
      /\ \A u \in Task : u # t => pc'[u] = pc[u] /\ call'[u] = call[u] /\ held'[u] = held[u]
  BY <1>1 DEF Moves, CallsOK
<1>4. pc' \in [Task -> Label] /\ call' \in [Task -> Call \cup {NoCall}] /\ held' \in [Task -> Seq(Slots)]
  BY <1>1, <1>2 DEF Moves, CallsOK
<1>5. \A u \in Task : CallFits(call'[u], pc'[u]) /\ Fits(held'[u], call'[u], pc'[u])
  BY <1>3 DEF Moves, CallsOK
<1> QED BY <1>3, <1>4, <1>5 DEF CallsOK

\* The counts follow what the call holds.
Balanced(t, L) ==
    \A x \in Slots : inode'[x].count + Occurs(held[t], x) = inode[x].count + Occurs(L, x)

\* A step that leaves files and directories of processes alone.
LEMMA CallStep ==
    ASSUME FileInv, NEW t \in live, NEW label, NEW c, NEW L, Moves(t, label, c, L),
           TableOK', Balanced(t, L), DiskOK', UNCHANGED <<live, stopped, opens>>,
           calls' \in 0..MaxCalls
    PROVE  FileInv'
<1> USE DEF opens
<1>1. CallsOK'
  BY MovesKeepCalls DEF FileInv
<1>2. OpensOK'
  BY DEF FileInv, OpensOK
<1>3. CountsReferences'
  <2>1. ASSUME NEW s \in Slots
        PROVE  inode'[s].count = Cardinality(Holds(s)') + Cardinality(OpenOn(s)')
                                   + Cardinality(WorksIn(s)') + Roots(s)'
    <3>1. OpenOn(s)' = OpenOn(s) /\ WorksIn(s)' = WorksIn(s) /\ Roots(s)' = Roots(s)
      BY DEF OpenOn, WorksIn, Roots
    <3>2. L \in Seq(Slots) /\ Len(L) <= 2 /\ t \in Task /\ held' = [held EXCEPT ![t] = L]
      BY DEF Moves, Fits, FileInv, CallsOK
    <3>3. /\ Cardinality(Holds(s)) \in Nat /\ Cardinality(Holds(s)') \in Nat
          /\ Cardinality(Holds(s)') + Occurs(held[t], s) = Cardinality(Holds(s)) + Occurs(L, s)
      BY <3>2, HoldStep DEF FileInv
    <3>4. inode'[s].count + Occurs(held[t], s) = inode[s].count + Occurs(L, s)
      BY DEF Balanced
    <3>5. inode[s].count \in Nat /\ inode'[s].count \in Nat
      BY DEF FileInv, TableOK
    <3>6. inode[s].count = Cardinality(Holds(s)) + Cardinality(OpenOn(s))
                              + Cardinality(WorksIn(s)) + Roots(s)
      BY DEF FileInv, CountsReferences, Slots
    <3>7. /\ Cardinality(OpenOn(s)) \in Nat /\ Cardinality(WorksIn(s)) \in Nat /\ Roots(s) \in Nat
          /\ Occurs(held[t], s) \in Nat /\ Occurs(L, s) \in Nat
      <4>1. IsFiniteSet(OpenOn(s)) /\ IsFiniteSet(WorksIn(s)) /\ IsFiniteSet(live)
        BY Finite DEF FileInv
      <4> QED BY <4>1, FS_CardinalityType DEF Roots, Occurs
    <3>8. inode'[s].count = Cardinality(Holds(s)') + Cardinality(OpenOn(s))
                              + Cardinality(WorksIn(s)) + Roots(s)
      <4> PICK i \in Nat, h \in Nat, o \in Nat, w \in Nat, r \in Nat, m \in Nat, n \in Nat,
                d \in Nat :
             /\ i = Cardinality(Holds(s)') /\ h = Cardinality(Holds(s))
             /\ o = Cardinality(OpenOn(s)) /\ w = Cardinality(WorksIn(s)) /\ r = Roots(s)
             /\ m = Occurs(held[t], s) /\ n = Occurs(L, s) /\ d = inode'[s].count
        BY <3>3, <3>5, <3>7
      <4>1. d + m = (h + o + w + r) + n /\ i + m = h + n
        BY <3>3, <3>4, <3>6
      <4>2. d = i + o + w + r
        BY ONLY <4>1, d \in Nat, i \in Nat, m \in Nat, h \in Nat, n \in Nat, o \in Nat, w \in Nat, r \in Nat
      <4> QED BY <4>2
    <3> QED BY ONLY <3>1, <3>8
  <2>2. \A f \in File : file'[f].count = Cardinality(Descriptors(f)')
    BY DEF FileInv, CountsReferences, Descriptors
  <2> QED BY <2>1, <2>2 DEF CountsReferences, Slots
<1> QED BY <1>1, <1>2, <1>3 DEF FileInv

\* The kernel stops.
LEMMA StopStep ==
    ASSUME FileInv, Stop, calls' \in 0..MaxCalls PROVE FileInv'
<1> USE DEF Stop, disk, opens
<1>1. DiskOK' /\ CallsOK' /\ OpensOK'
  BY DEF FileInv, DiskOK, CallsOK, OpensOK
<1>2. TableOK'
  BY SameTable DEF FileInv
<1>3. CountsReferences'
  BY DEF FileInv, CountsReferences, Holds, OpenOn, WorksIn, Roots, Descriptors
<1> QED BY <1>1, <1>2, <1>3 DEF FileInv

Entry == [name : Name, nr : Nr \cup {0}]

\* An entry is given another number, or none.
LEMMA EditEntries ==
    ASSUME NEW ents \in Seq(Entry), Len(ents) <= MaxEntries, NEW j, NEW i \in Nr \cup {0}
    PROVE  /\ [ents EXCEPT ![j].nr = i] \in Seq(Entry)
           /\ Len([ents EXCEPT ![j].nr = i]) <= MaxEntries
<1> DEFINE e == [ents EXCEPT ![j].nr = i]
<1>1. ents \in [1..Len(ents) -> Entry] /\ Len(ents) \in Nat
  BY LenProperties
<1>2. e \in [1..Len(ents) -> Entry]
  <2>1. ASSUME NEW k \in 1..Len(ents) PROVE [ents[k] EXCEPT !.nr = i] \in Entry
    <3>1. ents[k] \in [name : Name, nr : Nr \cup {0}]
      BY <1>1 DEF Entry
    <3> QED BY <3>1 DEF Entry
  <2> QED BY <1>1, <2>1
<1> HIDE DEF e
<1>3. e \in Seq(Entry) /\ Len(e) = Len(ents)
  BY <1>1, <1>2, LenProperties
<1> QED BY <1>3 DEF e

\* The directory, with the name of the type of its entries.
LEMMA EntriesType == ASSUME DiskOK PROVE entries \in Seq(Entry) /\ Len(entries) <= MaxEntries
BY DEF DiskOK, Entry

\* The disk is as before.
LEMMA SameDisk == ASSUME DiskOK, UNCHANGED disk PROVE DiskOK'
BY DEF DiskOK, disk

\* The number of links keeps its byte.
LEMMA EditLinks ==
    ASSUME DiskOK, NEW d
    PROVE  /\ [nlinks EXCEPT ![d] = Unlinked(@)] \in [Nr -> 0..255]
           /\ [nlinks EXCEPT ![d] = (@ + 1) % 256] \in [Nr -> 0..255]
<1>1. ASSUME NEW x \in 0..255 PROVE Unlinked(x) \in 0..255 /\ (x + 1) % 256 \in 0..255
  BY DEF Unlinked
<1>2. nlinks \in [Nr -> 0..255]
  BY DEF DiskOK
<1>3. CASE d \in Nr
  <2>1. /\ Unlinked(nlinks[d]) \in 0..255 /\ (nlinks[d] + 1) % 256 \in 0..255
    <3>1. nlinks[d] \in 0..255
      BY ONLY <1>2, <1>3
    <3> QED BY ONLY <1>1, <3>1
  <2> QED BY ONLY <1>2, <2>1
<1>4. CASE d \notin Nr
  BY ONLY <1>2, <1>4
<1> QED BY <1>3, <1>4

\* A pair of the directory and an inode is what most places of a call hold.
PairLabel == {"find new", "iget", "iget new", "namei", "empty", "truncate", "ifree", "opened"}

\* The elements of a pair.
LEMMA Pair ==
    ASSUME NEW a \in Slots, NEW b \in Slots
    PROVE  /\ <<a, b>> \in Seq(Slots) /\ Len(<<a, b>>) = 2
           /\ <<a, b>>[1] = a /\ <<a, b>>[2] = b
OBVIOUS

\* The step of a call that holds such a pair.
LEMMA PairMoves ==
    ASSUME NEW t, NEW c \in Call, NEW s \in Inode, NEW label \in PairLabel, NEW tbl,
           label = "find new" => c.op = "link",
           Proceed(t, c, label, <<Root, s>>, tbl)
    PROVE  Moves(t, label, c, <<Root, s>>) /\ inode' = tbl /\ UNCHANGED <<live, stopped>>
<1>1. Fits(<<Root, s>>, c, label)
  <2>1. /\ <<Root, s>> \in Seq(Slots) /\ Len(<<Root, s>>) = 2
        /\ <<Root, s>>[1] = Root /\ <<Root, s>>[2] = s
    BY Pair DEF Slots
  <2>2. label \notin {"user", "iput", "find", "add", "slot", "ialloc"}
    BY DEF PairLabel
  <2>3. ASSUME NEW L, L \in Seq(Slots), Len(L) = 2, L[1] = Root, L[2] = s
        PROVE  Fits(L, c, label)
    <3>1. Len(L) <= 2 /\ Len(L) >= 1
      BY ONLY <2>3
    <3>2. /\ label # "find" /\ label \notin {"add", "slot", "ialloc"}
          /\ label # "user" /\ label # "iput"
      BY <2>2
    <3> QED BY ONLY <2>3, <3>1, <3>2, s \in Inode DEF Fits
  <2> QED BY <2>1, <2>3
<1>2. label \in Label /\ CallFits(c, label)
  BY DEF Label, PairLabel, CallFits
<1> QED BY <1>1, <1>2 DEF Moves, Proceed

\* A call that ends gives back one inode or two.
LEMMA EndMoves ==
    ASSUME NEW t, NEW L \in Seq(Slots), Len(L) \in {1, 2}, NEW tbl, Return(t, L, tbl)
    PROVE  Moves(t, "iput", NoCall, L) /\ inode' = tbl /\ UNCHANGED <<live, stopped>>
<1>1. Len(L) >= 1 /\ Len(L) <= 2
  <2>1. CASE Len(L) = 1
    BY ONLY <2>1
  <2>2. CASE Len(L) = 2
    BY ONLY <2>2
  <2> QED BY <2>1, <2>2
<1>2. Fits(L, NoCall, "iput")
  BY <1>1 DEF Fits
<1>3. CallFits(NoCall, "iput") /\ "iput" \in Label
  BY DEF CallFits, Label
<1> QED BY <1>2, <1>3 DEF Moves, Return, Proceed

\* The directory and inode s, in either order.
Both(s) == {<<Root, s>>, <<s, Root>>}

\* The order does not matter for the users of a slot.
LEMMA BothAre ==
    ASSUME NEW s \in Inode, NEW L \in Both(s)
    PROVE  /\ L \in Seq(Slots) /\ Len(L) \in {1, 2}
           /\ \A x : Occurs(L, x) = Occurs(<<Root, s>>, x)
<1>1. /\ <<Root, s>> \in Seq(Slots) /\ Len(<<Root, s>>) = 2
      /\ <<Root, s>>[1] = Root /\ <<Root, s>>[2] = s
      /\ <<s, Root>> \in Seq(Slots) /\ Len(<<s, Root>>) = 2
      /\ <<s, Root>>[1] = s /\ <<s, Root>>[2] = Root
  BY Pair DEF Slots
<1>2. CASE L = <<Root, s>>
  BY <1>1, <1>2
<1>3. CASE L = <<s, Root>>
  <2>1. L \in Seq(Slots) /\ Len(L) = 2
    BY <1>1, <1>3
  <2>2. ASSUME NEW x PROVE Occurs(L, x) = Occurs(<<Root, s>>, x)
    BY <1>1, <1>3 DEF Occurs
  <2> QED BY <2>1, <2>2
<1> QED BY <1>2, <1>3 DEF Both

\* What a step of a call with inode s does besides: the table is as it should
\* be whenever it is tbl.
GoodTable(t, s, tbl) == inode' = tbl => TableOK' /\ Balanced(t, <<Root, s>>)

\* A step of a call that holds the directory and inode s afterwards.
LEMMA BothStep ==
    ASSUME FileInv, NEW t \in live, NEW s \in Inode, NEW L \in Both(s), NEW label, NEW c,
           Moves(t, label, c, L), TableOK', Balanced(t, <<Root, s>>), DiskOK',
           UNCHANGED <<live, stopped, opens>>, calls' \in 0..MaxCalls
    PROVE  FileInv'
<1>1. Balanced(t, L)
  BY BothAre DEF Balanced
<1> QED BY <1>1, CallStep

\* The call ends, and gives both back.
LEMMA BothEnd ==
    ASSUME FileInv, NEW t \in live, NEW s \in Inode, NEW L \in Both(s), NEW tbl,
           Return(t, L, tbl), GoodTable(t, s, tbl), DiskOK', UNCHANGED opens,
           calls' \in 0..MaxCalls
    PROVE  FileInv'
<1>1. L \in Seq(Slots) /\ Len(L) \in {1, 2}
  BY BothAre
<1>2. Moves(t, "iput", NoCall, L) /\ inode' = tbl /\ UNCHANGED <<live, stopped>>
  BY <1>1, EndMoves
<1> QED BY <1>2, BothStep DEF GoodTable

\* The call goes on to a place where it holds both.
LEMMA BothGoOn ==
    ASSUME FileInv, NEW t \in live, NEW c \in Call, NEW s \in Inode, NEW label \in PairLabel,
           label = "find new" => c.op = "link", NEW tbl,
           Proceed(t, c, label, <<Root, s>>, tbl), GoodTable(t, s, tbl), DiskOK',
           UNCHANGED opens, calls' \in 0..MaxCalls
    PROVE  FileInv'
<1>1. Moves(t, label, c, <<Root, s>>) /\ inode' = tbl /\ UNCHANGED <<live, stopped>>
  BY PairMoves
<1>2. <<Root, s>> \in Both(s)
  BY DEF Both
<1> QED BY <1>1, <1>2, BothStep DEF GoodTable

-----------------------------------------------------------------------------
\* The inode of the name is there.
LEMMA FoundStep ==
    ASSUME FileInv, NEW t \in live, NEW c \in Call, NEW s \in Inode, NEW tbl,
           GoodTable(t, s, tbl), Found(t, c, s, tbl), UNCHANGED calls
    PROVE  FileInv'
<1>1. DiskOK /\ calls' \in 0..MaxCalls
  BY DEF FileInv
<1>2. <<Root, s>> \in Both(s) /\ <<s, Root>> \in Both(s)
  BY DEF Both
<1>3. {"opened", "truncate", "empty", "namei"} \subseteq PairLabel
  BY DEF PairLabel
<1>4. ASSUME inode_open(t, c, s, tbl) PROVE FileInv'
  <2>1. DiskOK' /\ UNCHANGED opens
    BY <1>1, <1>4, SameDisk DEF inode_open
  <2>2. Return(t, <<Root, s>>, tbl) \/ Proceed(t, c, "opened", <<Root, s>>, tbl)
    BY <1>4 DEF inode_open
  <2> QED BY <1>1, <1>2, <1>3, <2>1, <2>2, BothEnd, BothGoOn
<1>5. ASSUME sys_unlink(t, c, s, tbl) PROVE FileInv'
  <2>1. UNCHANGED opens
    BY <1>5 DEF sys_unlink
  <2>2. DiskOK'
    <3>1. CASE UNCHANGED disk
      BY <1>1, <3>1, SameDisk
    <3>2. CASE /\ entries' = [entries EXCEPT ![c.entry].nr = 0]
               /\ nlinks' = [nlinks EXCEPT ![tbl[s].desc] = Unlinked(@)]
               /\ UNCHANGED <<imap, isdir>>
      <4>1. entries' \in Seq(Entry) /\ Len(entries') <= MaxEntries
        BY <1>1, <3>2, EntriesType, EditEntries
      <4>2. nlinks' \in [Nr -> 0..255]
        BY <1>1, <3>2, EditLinks
      <4> QED BY <1>1, <3>2, <4>1, <4>2 DEF DiskOK, Entry
    <3> QED BY <1>5, <3>1, <3>2 DEF sys_unlink
  <2>3. Return(t, <<s, Root>>, tbl) \/ Proceed(t, c, "truncate", <<Root, s>>, tbl)
    BY <1>5 DEF sys_unlink
  <2> QED BY <1>1, <1>2, <1>3, <2>1, <2>2, <2>3, BothEnd, BothGoOn
<1>6. ASSUME sys_rmdir(t, c, s, tbl) PROVE FileInv'
  <2>1. DiskOK' /\ UNCHANGED opens
    BY <1>1, <1>6, SameDisk DEF sys_rmdir
  <2>2. Return(t, <<s, Root>>, tbl) \/ Proceed(t, c, "empty", <<Root, s>>, tbl)
    BY <1>6 DEF sys_rmdir
  <2> QED BY <1>1, <1>2, <1>3, <2>1, <2>2, BothEnd, BothGoOn
<1>7. ASSUME Proceed(t, c, "namei", <<Root, s>>, tbl), UNCHANGED <<disk, opens>> PROVE FileInv'
  <2>1. DiskOK'
    BY <1>1, <1>7, SameDisk
  <2> QED BY <1>1, <1>2, <1>3, <1>7, <2>1, BothGoOn
<1> QED BY <1>4, <1>5, <1>6, <1>7 DEF Found

\* open and mkdir have their inode.
LEMMA CreatedStep ==
    ASSUME FileInv, NEW t \in live, NEW c \in Call, NEW s \in Inode, NEW tbl,
           NEW ents \in Seq(Entry), Len(ents) <= MaxEntries,
           GoodTable(t, s, tbl), Created(t, c, s, tbl, ents), UNCHANGED calls
    PROVE  FileInv'
<1>1. DiskOK /\ calls' \in 0..MaxCalls
  BY DEF FileInv
<1>2. <<s, Root>> \in Both(s) /\ "opened" \in PairLabel
  BY DEF Both, PairLabel
<1>3. UNCHANGED opens
  BY DEF Created
<1>4. DiskOK'
  <2>1. PICK n \in 0..255, b \in BOOLEAN :
           /\ nlinks' = [nlinks EXCEPT ![tbl[s].desc] = n]
           /\ isdir' = [isdir EXCEPT ![tbl[s].desc] = b]
    <3>1. (IF c.op = "mkdir" THEN 2 ELSE 1) \in 0..255 /\ (c.op = "mkdir") \in BOOLEAN
      OBVIOUS
    <3> QED BY <3>1 DEF Created
  <2>2. nlinks' \in [Nr -> 0..255]
    BY <1>1, <2>1 DEF DiskOK
  <2>3. isdir' \in [Nr -> BOOLEAN]
    BY <1>1, <2>1 DEF DiskOK
  <2>4. entries' = ents /\ UNCHANGED imap
    BY DEF Created
  <2> QED BY <1>1, <2>2, <2>3, <2>4 DEF DiskOK, Entry
<1>5. Return(t, <<s, Root>>, tbl) \/ Proceed(t, c, "opened", <<Root, s>>, tbl)
  BY DEF Created
<1> QED BY <1>1, <1>2, <1>3, <1>4, <1>5, BothEnd, BothGoOn

\* Used by leaves that need no other arithmetic.
LEMMA Positive == \A n \in Nat : n > 0 => n # 0
OBVIOUS

\* The users that a short list of inodes stands for.
LEMMA OccursAre ==
    /\ \A x : Occurs(<<>>, x) = 0
    /\ \A a, x : Occurs(<<a>>, x) = IF x = a THEN 1 ELSE 0
    /\ \A a, b, x : Occurs(<<a, b>>, x) = (IF x = a THEN 1 ELSE 0) + (IF x = b THEN 1 ELSE 0)
BY DEF Occurs

\* A call at these places has its inode.
LEMMA PairHeld ==
    ASSUME FileInv, NEW t \in Task,
           pc[t] \in PairLabel \/ (pc[t] \in {"add", "slot"} /\ call[t].op = "link")
    PROVE  /\ Got(t) \in Inode /\ held[t] = <<Root, Got(t)>>
           /\ t \in live /\ call[t] \in Call
<1>1. CallFits(call[t], pc[t]) /\ Fits(held[t], call[t], pc[t]) /\ pc[t] \in Label
  BY DEF FileInv, CallsOK
<1>2. pc[t] # "user" /\ pc[t] # "iput"
  BY DEF PairLabel
<1>3. pc[t] \in Label \ {"user", "iput", "find", "add", "slot", "ialloc"}
         \/ (pc[t] \in {"add", "slot"} /\ call[t].op = "link")
  BY <1>1 DEF PairLabel
<1>4. held[t] \in Seq(Slots) /\ Len(held[t]) = 2 /\ held[t][1] = Root /\ held[t][2] \in Inode
  BY <1>1, <1>3 DEF Fits
<1>5. held[t] = <<Root, held[t][2]>>
  BY <1>4
<1> QED BY <1>1, <1>2, <1>4, <1>5 DEF Got, CallFits, FileInv, CallsOK

\* Before it has found one, it holds the directory.
LEMMA RootHeld ==
    ASSUME FileInv, NEW t \in Task,
           pc[t] \in {"find", "ialloc"} \/ (pc[t] \in {"add", "slot"} /\ call[t].op # "link")
    PROVE  held[t] = <<Root>> /\ t \in live /\ call[t] \in Call
<1>1. CallFits(call[t], pc[t]) /\ Fits(held[t], call[t], pc[t]) /\ pc[t] \in Label
  BY DEF FileInv, CallsOK
<1>2. pc[t] = "ialloc" => call[t].op # "link"
  BY <1>1 DEF CallFits
<1>3. pc[t] = "find" \/ (pc[t] \in {"add", "slot", "ialloc"} /\ call[t].op # "link")
  BY <1>2
<1>4. held[t] = <<Root>>
  BY <1>1, <1>3 DEF Fits
<1>5. pc[t] # "user" /\ pc[t] # "iput"
  BY <1>3
<1> QED BY <1>1, <1>4, <1>5 DEF CallFits, FileInv, CallsOK

\* A call that holds the directory takes inode s.
LEMMA OneMore ==
    ASSUME TableOK, TableOK', NEW t, NEW s \in Inode, held[t] = <<Root>>, Shifted(s, 0, 1)
    PROVE  Balanced(t, <<Root, s>>)
<1> SUFFICES ASSUME NEW x \in Slots
             PROVE  inode'[x].count + Occurs(held[t], x) = inode[x].count + Occurs(<<Root, s>>, x)
  BY DEF Balanced
<1>1. inode'[x].count + 0 = inode[x].count + (IF x = s THEN 1 ELSE 0)
  BY DEF Shifted
<1>2. inode'[x].count \in Nat /\ inode[x].count \in Nat
  BY DEF TableOK
<1>3. /\ Occurs(held[t], x) = IF x = Root THEN 1 ELSE 0
      /\ Occurs(<<Root, s>>, x) = (IF x = Root THEN 1 ELSE 0) + (IF x = s THEN 1 ELSE 0)
  BY OccursAre
<1> QED BY <1>1, <1>2, <1>3

\* A call keeps what it holds.
LEMMA NoMore ==
    ASSUME TableOK, TableOK', NEW t, NEW s, Shifted(s, 0, 0), NEW L, L = held[t]
    PROVE  Balanced(t, L)
<1>1. \A x \in Slots : inode'[x].count \in Nat /\ inode[x].count \in Nat
  BY DEF TableOK
<1> QED BY <1>1 DEF Shifted, Balanced

\* The table is as before, or an inode has been read.
LEMMA SameGood ==
    ASSUME FileInv, NEW t \in Task, NEW s \in Inode, held[t] = <<Root, s>>
    PROVE  /\ GoodTable(t, s, inode)
           /\ GoodTable(t, s, [inode EXCEPT ![s].desc = inode[s].nr])
<1>1. TableOK
  BY DEF FileInv
<1>2. ASSUME inode' = inode PROVE TableOK' /\ Balanced(t, <<Root, s>>)
  BY <1>1, <1>2, SameTable DEF Balanced
<1>3. ASSUME inode' = [inode EXCEPT ![s].desc = inode[s].nr]
      PROVE  TableOK' /\ Balanced(t, <<Root, s>>)
  <2>1. TableOK' /\ Shifted(s, 0, 0)
    BY <1>1, <1>3, ReadTable
  <2> QED BY <1>1, <2>1, NoMore
<1> QED BY <1>2, <1>3 DEF GoodTable

\* The next place of a call, which holds what it held.
LEMMA KeepStep ==
    ASSUME FileInv, NEW t \in live, NEW label \in Label, NEW c, NEW L, L = held[t],
           CallFits(c, label), Fits(L, c, label), Proceed(t, c, label, L, inode),
           DiskOK', UNCHANGED opens, calls' \in 0..MaxCalls
    PROVE  FileInv'
<1>1. Moves(t, label, c, L) /\ inode' = inode /\ UNCHANGED <<live, stopped>>
  BY DEF Moves, Proceed
<1>2. TableOK'
  BY <1>1, SameTable DEF FileInv
<1>3. Balanced(t, L)
  BY <1>1 DEF Balanced
<1> QED BY <1>1, <1>2, <1>3, CallStep

-----------------------------------------------------------------------------
\* iget: a listed inode has one more user, another takes the first free slot.
LEMMA IgetStep ==
    ASSUME FileInv, NEW t \in live, NEW c \in Call, NEW i \in Nr \cup {0},
           NEW ents \in Seq(Entry), Len(ents) <= MaxEntries, NEW label \in {"iget", "iget new"},
           held[t] = <<Root>>, iget(t, c, i, ents, label), UNCHANGED calls
    PROVE  FileInv'
<1>1. calls' \in 0..MaxCalls /\ TableOK /\ DiskOK
  BY DEF FileInv
<1>2. ASSUME NEW s \in Inode, inode[s].count > 0
      PROVE  GoodTable(t, s, Counted(inode, s))
  <2> SUFFICES ASSUME inode' = Counted(inode, s) PROVE TableOK' /\ Balanced(t, <<Root, s>>)
    BY DEF GoodTable
  <2>1. s \in Slots /\ inode[s].count # 0
    <3>1. s \in Slots /\ inode[s].count \in Nat
      BY <1>1 DEF TableOK, Slots
    <3> QED BY <1>2, <3>1, Positive, Zenon
  <2>2. TableOK' /\ Shifted(s, 0, 1)
    BY <1>1, <2>1, CountedTable
  <2> QED BY <1>1, <2>2, OneMore
<1>3. ASSUME NEW s \in find_inode(i),
             Created(t, c, s, Counted(inode, s), ents) \/ Found(t, c, s, Counted(inode, s))
      PROVE  FileInv'
  <2>1. s \in Inode /\ inode[s].count > 0
    BY DEF find_inode
  <2>2. GoodTable(t, s, Counted(inode, s))
    BY <1>2, <2>1
  <2> QED BY <1>3, <2>1, <2>2, FoundStep, CreatedStep
<1>4. ASSUME find_inode(i) = {}, i # 0,
             NEW unused, unused = {s \in Inode : inode[s].count = 0}, unused # {},
             Proceed(t, c, label, <<Root, Least(unused)>>,
                     [inode EXCEPT ![Least(unused)] = [nr |-> i, count |-> 1, desc |-> 0]]),
             entries' = ents, UNCHANGED <<imap, nlinks, isdir, opens>>
      PROVE  FileInv'
  <2>1. PICK s : s = Least(unused)
    OBVIOUS
  <2>2. s \in unused
    <3>1. unused \in SUBSET Nat
      BY <1>4, FileSystemAssumption
    <3> QED BY <1>4, <2>1, <3>1, LeastIs
  <2>3. s \in Inode /\ inode[s].count = 0 /\ i \in Nr
    BY <1>4, <2>2
  <2>4. PICK tbl : tbl = [inode EXCEPT ![s] = [nr |-> i, count |-> 1, desc |-> 0]]
    OBVIOUS
  <2>5. GoodTable(t, s, tbl)
    <3> SUFFICES ASSUME inode' = tbl PROVE TableOK' /\ Balanced(t, <<Root, s>>)
      BY DEF GoodTable
    <3>1. TableOK' /\ Shifted(s, 0, 1)
      BY <1>1, <1>4, <2>3, <2>4, ListTable
    <3> QED BY <1>1, <2>3, <3>1, OneMore
  <2>6. DiskOK'
    BY <1>1, <1>4 DEF DiskOK, Entry
  <2>7. Proceed(t, c, label, <<Root, s>>, tbl)
    BY <1>4, <2>1, <2>4
  <2>8. label \in PairLabel /\ label # "find new"
    BY DEF PairLabel
  <2> QED BY <1>1, <1>4, <2>3, <2>5, <2>6, <2>7, <2>8, BothGoOn
<1>5. CASE Stop
  BY <1>1, <1>5, StopStep
<1> QED
  <2>1. CASE find_inode(i) # {}
    BY <1>3, <1>5, <2>1 DEF iget
  <2>2. CASE find_inode(i) = {} /\ ~Stop
    BY <1>4, <2>2 DEF iget
  <2> QED BY <1>5, <2>1, <2>2

\* The name is entered: link refers to its inode, the others allocate one.
LEMMA EnterStep ==
    ASSUME FileInv, NEW t \in live, pc[t] \in {"add", "slot"}, NEW j \in 0..MaxEntries,
           NEW ents \in Seq(Entry), Len(ents) <= MaxEntries,
           Enter(t, j, ents), UNCHANGED calls
    PROVE  FileInv'
<1>1. calls' \in 0..MaxCalls /\ DiskOK /\ t \in Task
  BY DEF FileInv, CallsOK
<1>2. CASE call[t].op = "link"
  <2>1. Got(t) \in Inode /\ held[t] = <<Root, Got(t)>>
    BY <1>1, <1>2, PairHeld
  <2>2. PICK s \in Inode : s = Got(t)
    BY <2>1
  <2>3. /\ entries' = [ents EXCEPT ![j].nr = inode[s].nr]
        /\ nlinks' = [nlinks EXCEPT ![inode[s].desc] = (@ + 1) % 256]
        /\ Return(t, <<s, Root>>, inode)
        /\ UNCHANGED <<imap, isdir, opens>>
    BY <1>2, <2>2 DEF Enter
  <2>4. inode[s].nr \in Nr \cup {0}
    BY DEF FileInv, TableOK, Slots
  <2>5. DiskOK'
    <3>1. entries' \in Seq(Entry) /\ Len(entries') <= MaxEntries
      BY <2>3, <2>4, EditEntries
    <3>2. nlinks' \in [Nr -> 0..255]
      <4>1. PICK d : d = inode[s].desc
        OBVIOUS
      <4>2. nlinks' = [nlinks EXCEPT ![d] = (@ + 1) % 256]
        BY <2>3, <4>1
      <4>3. [nlinks EXCEPT ![d] = (@ + 1) % 256] \in [Nr -> 0..255]
        BY ONLY <1>1, EditLinks
      <4> QED BY ONLY <4>2, <4>3
    <3> QED BY <1>1, <2>3, <3>1, <3>2 DEF DiskOK, Entry
  <2>6. GoodTable(t, s, inode) /\ <<s, Root>> \in Both(s)
    BY <1>1, <2>1, <2>2, SameGood DEF Both
  <2> QED BY <1>1, <2>3, <2>5, <2>6, BothEnd
<1>3. CASE call[t].op # "link"
  <2>1. held[t] = <<Root>> /\ call[t] \in Call
    BY <1>1, <1>3, RootHeld
  <2>2. PICK c : c = [call[t] EXCEPT !.entry = j]
    OBVIOUS
  <2>3. c \in Call /\ c.op # "link"
    BY <1>3, <2>1, <2>2 DEF Call
  <2>4. CASE Stop
    BY <1>1, <2>4, StopStep
  <2>5. CASE ~Stop
    <3>1. PICK free : free = (Nr \cup {0}) \ imap
      OBVIOUS
    <3>2. /\ free # {} /\ entries' = ents /\ imap' = imap \cup {Least(free)}
          /\ Proceed(t, [c EXCEPT !.nr = Least(free)], "ialloc", held[t], inode)
          /\ UNCHANGED <<nlinks, isdir, opens>>
      BY <2>2, <2>3, <2>5, <3>1 DEF Enter
    <3>3. PICK n : n = Least(free)
      OBVIOUS
    <3>4. n \in Nr \cup {0}
      <4>1. free \in SUBSET Nat
        <5>1. \A x \in Nr \cup {0} : x \in Nat
          BY FileSystemAssumption
        <5> QED BY <3>1, <5>1
      <4> QED BY <3>1, <3>2, <3>3, <4>1, LeastIs
    <3>5. PICK d : d = [c EXCEPT !.nr = n]
      OBVIOUS
    <3>6. d \in Call /\ d.op # "link"
      BY <2>3, <3>4, <3>5 DEF Call
    <3>7. Proceed(t, d, "ialloc", <<Root>>, inode)
      BY <2>1, <3>2, <3>3, <3>5
    <3>8. DiskOK'
      BY <1>1, <3>2, <3>3, <3>4 DEF DiskOK, Entry
    <3>9. CallFits(d, "ialloc") /\ "ialloc" \in Label
      BY <3>6 DEF CallFits, Label
    <3>10. Fits(<<Root>>, d, "ialloc")
      <4>1. PICK L : L = <<Root>>
        OBVIOUS
      <4>2. L \in Seq(Slots) /\ Len(L) = 1
        BY <4>1 DEF Slots
      <4>3. Len(L) <= 2
        BY ONLY <4>2
      <4>4. Fits(L, d, "ialloc")
        BY <3>6, <4>1, <4>2, <4>3 DEF Fits
      <4> QED BY <4>1, <4>4
    <3> QED BY <1>1, <2>1, <3>2, <3>7, <3>8, <3>9, <3>10, KeepStep
  <2> QED BY <2>4, <2>5
<1> QED BY <1>2, <1>3

\* find_entry gives a place of the directory, or none.
LEMMA FindEntryIs ==
    ASSUME DiskOK, NEW n
    PROVE  find_entry(n) \in 0..MaxEntries /\ (find_entry(n) # 0 => find_entry(n) \in DOMAIN entries)
<1> DEFINE found == {j \in DOMAIN entries : entries[j].name = n}
<1>1. DOMAIN entries = 1..Len(entries) /\ Len(entries) \in Nat /\ Len(entries) <= MaxEntries
  BY LenProperties DEF DiskOK
<1>2. CASE found = {}
  BY <1>2, FileSystemAssumption DEF find_entry
<1>3. CASE found # {}
  <2>1. found \in SUBSET Nat
    BY <1>1
  <2>2. Least(found) \in found
    BY <1>3, <2>1, LeastIs
  <2>3. find_entry(n) = Least(found)
    BY <1>3 DEF find_entry
  <2>4. find_entry(n) \in 1..Len(entries)
    BY <1>1, <2>2, <2>3
  <2> QED BY <1>1, <2>4, FileSystemAssumption
<1> QED BY <1>2, <1>3

\* add_entry has looked for the name.
LEMMA AddEntryStep ==
    ASSUME FileInv, NEW t \in Task, add_entry(t), UNCHANGED calls PROVE FileInv'
<1>1. pc[t] = "add" /\ calls' \in 0..MaxCalls /\ DiskOK
  BY DEF add_entry, FileInv
<1>2. t \in live
  BY <1>1 DEF FileInv, CallsOK
<1>3. PICK n : n = IF call[t].op = "link" THEN call[t].target ELSE call[t].name
  OBVIOUS
<1>4. find_entry(n) \in 0..MaxEntries
  BY <1>1, FindEntryIs
<1>5. CASE Enter(t, find_entry(n), entries)
  BY <1>1, <1>2, <1>4, <1>5, EntriesType, EnterStep
<1>6. CASE Proceed(t, call[t], "slot", held[t], inode) /\ UNCHANGED <<disk, opens>>
  <2>1. CallFits(call[t], "add") /\ Fits(held[t], call[t], "add")
    BY <1>1 DEF FileInv, CallsOK
  <2>2. CallFits(call[t], "slot") /\ "slot" \in Label
    BY <2>1 DEF CallFits, Label
  <2>3. Fits(held[t], call[t], "slot")
    BY <2>1 DEF Fits
  <2>4. DiskOK'
    BY <1>1, <1>6, SameDisk
  <2> QED BY <1>1, <1>2, <1>6, <2>2, <2>3, <2>4, KeepStep
<1> QED BY <1>3, <1>5, <1>6 DEF add_entry

\* add_entry has found a free entry, or makes the directory longer.
LEMMA AddEntrySlotStep ==
    ASSUME FileInv, NEW t \in Task, add_entry_slot(t), UNCHANGED calls PROVE FileInv'
<1>1. pc[t] = "slot" /\ DiskOK
  BY DEF add_entry_slot, FileInv
<1>2. t \in live
  BY <1>1 DEF FileInv, CallsOK
<1>3. call[t] \in Call
  BY <1>1, RootHeld, PairHeld
<1>4. PICK n \in Name : n = IF call[t].op = "link" THEN call[t].target ELSE call[t].name
  BY <1>3 DEF Call
<1>5. PICK free : free = {j \in DOMAIN entries : entries[j].nr = 0}
  OBVIOUS
<1>6. PICK j : j = IF free = {} THEN Len(entries) + 1 ELSE Least(free)
  OBVIOUS
<1>7. PICK last : last = IF free = {} THEN j ELSE Len(entries)
  OBVIOUS
<1>8. PICK ents : ents = [k \in 1..last |-> IF k = j THEN [name |-> n, nr |-> 0] ELSE entries[k]]
  OBVIOUS
<1>9. j <= MaxEntries /\ Enter(t, j, ents)
  BY <1>4, <1>5, <1>6, <1>7, <1>8 DEF add_entry_slot
<1>10. /\ DOMAIN entries = 1..Len(entries) /\ Len(entries) \in Nat /\ Len(entries) <= MaxEntries
       /\ \A k \in 1..Len(entries) : entries[k] \in Entry
  BY <1>1, LenProperties, EntriesType
<1>11. j \in Nat /\ last \in Nat /\ last <= MaxEntries /\ \A k \in 1..last : k # j => k \in 1..Len(entries)
  <2>1. CASE free = {}
    BY <1>6, <1>7, <1>9, <1>10, <2>1
  <2>2. CASE free # {}
    <3>1. free \in SUBSET Nat
      BY <1>5, <1>10
    <3>2. Least(free) \in free
      BY <2>2, <3>1, LeastIs
    <3>3. j = Least(free) /\ last = Len(entries) /\ j \in Nat
      BY <1>6, <1>7, <2>2, <3>1, <3>2
    <3> QED BY <1>10, <3>3
  <2> QED BY <2>1, <2>2
<1>12. ents \in Seq(Entry) /\ Len(ents) = last
  <2>1. \A k \in 1..last : (IF k = j THEN [name |-> n, nr |-> 0] ELSE entries[k]) \in Entry
    BY <1>10, <1>11 DEF Entry
  <2>2. ents \in [1..last -> Entry]
    BY <1>8, <2>1
  <2> QED BY <1>11, <2>2, LenProperties
<1>13. j \in 0..MaxEntries
  BY <1>9, <1>11, FileSystemAssumption
<1> QED BY <1>1, <1>2, <1>9, <1>11, <1>12, <1>13, EnterStep

\* The count of a slot, with the types that its sum needs.
LEMMA SlotSum ==
    ASSUME FileInv, NEW x \in Slots
    PROVE  /\ Cardinality(Holds(x)) \in Nat /\ Cardinality(OpenOn(x)) \in Nat
           /\ Cardinality(WorksIn(x)) \in Nat /\ Roots(x) \in Nat
           /\ x = Root => Roots(x) >= 2
           /\ inode[x].count \in Nat
           /\ inode[x].count = Cardinality(Holds(x)) + Cardinality(OpenOn(x))
                                 + Cardinality(WorksIn(x)) + Roots(x)
<1>1. /\ IsFiniteSet(Holds(x)) /\ IsFiniteSet(OpenOn(x)) /\ IsFiniteSet(WorksIn(x))
      /\ IsFiniteSet(live)
  BY Finite DEF FileInv
<1>2. /\ Cardinality(Holds(x)) \in Nat /\ Cardinality(OpenOn(x)) \in Nat
      /\ Cardinality(WorksIn(x)) \in Nat /\ Cardinality(live) \in Nat
  BY <1>1, FS_CardinalityType
<1>3. inode[x].count \in Nat
  BY DEF FileInv, TableOK
<1>4. inode[x].count = Cardinality(Holds(x)) + Cardinality(OpenOn(x))
                         + Cardinality(WorksIn(x)) + Roots(x)
  BY DEF FileInv, CountsReferences, Slots
<1> QED BY <1>2, <1>3, <1>4 DEF Roots

\* The root is never given back for the last time.
LEMMA RootUsed == ASSUME FileInv PROVE inode[Root].count # 0 /\ inode[Root].count > 1 /\ Root \in Slots
<1>1. Root \in Slots
  BY DEF Slots
<1>2. PICK h \in Nat, o \in Nat, w \in Nat, r \in Nat, d \in Nat :
         r >= 2 /\ d = inode[Root].count /\ d = h + o + w + r
  BY <1>1, SlotSum
<1>3. d # 0 /\ d > 1
  BY <1>2
<1> QED BY <1>1, <1>2, <1>3

\* A process that is in no call holds nothing.
LEMMA UserHeld ==
    ASSUME FileInv, NEW t \in Task, pc[t] = "user"
    PROVE  held[t] = <<>> /\ call[t] = NoCall
BY DEF FileInv, CallsOK, CallFits, Fits

\* The list of the directory alone.
LEMMA RootOnly == <<Root>> \in Seq(Slots) /\ Len(<<Root>>) = 1 /\ Len(<<Root>>) \in {1, 2}
                  /\ Len(<<Root>>) <= 2
BY DEF Slots

\* A call begins, with the directory.
LEMMA NamedStep ==
    ASSUME FileInv, NEW t \in Task, NEW o \in Op, NEW n \in Name, NEW m \in Name, named(t, o, n, m)
    PROVE  FileInv'
<1>1. PICK c : c = [op |-> o, name |-> n, target |-> m, entry |-> 0, nr |-> 0]
  OBVIOUS
<1>2. /\ t \in live /\ pc[t] = "user" /\ calls < MaxCalls /\ calls' = calls + 1
      /\ Proceed(t, c, "find", <<Root>>, Counted(inode, Root)) /\ UNCHANGED <<disk, opens>>
  BY <1>1 DEF named
<1>3. calls' \in 0..MaxCalls /\ DiskOK' /\ TableOK
  BY <1>2, SameDisk, FileSystemAssumption DEF FileInv
<1>4. c \in Call
  BY <1>1, FileSystemAssumption DEF Call
<1>5. inode' = Counted(inode, Root) /\ UNCHANGED <<live, stopped>>
  BY <1>2 DEF Proceed
<1>6. CallFits(c, "find") /\ Fits(<<Root>>, c, "find") /\ "find" \in Label
  BY <1>4, RootOnly DEF CallFits, Fits, Label
<1>7. Moves(t, "find", c, <<Root>>)
  BY <1>2, <1>6 DEF Proceed, Moves
<1>8. TableOK' /\ Shifted(Root, 0, 1)
  BY <1>3, <1>5, RootUsed, CountedTable
<1>9. Balanced(t, <<Root>>)
  <2> SUFFICES ASSUME NEW x \in Slots
               PROVE  inode'[x].count + Occurs(held[t], x) = inode[x].count + Occurs(<<Root>>, x)
    BY DEF Balanced
  <2>1. inode'[x].count + 0 = inode[x].count + (IF x = Root THEN 1 ELSE 0)
    BY <1>8 DEF Shifted
  <2>2. inode'[x].count \in Nat /\ inode[x].count \in Nat
    BY <1>3, <1>8 DEF TableOK
  <2>3. Occurs(held[t], x) = 0 /\ Occurs(<<Root>>, x) = IF x = Root THEN 1 ELSE 0
    BY <1>2, UserHeld, OccursAre DEF FileInv, CallsOK
  <2> QED BY <2>1, <2>2, <2>3
<1> QED BY <1>2, <1>3, <1>5, <1>7, <1>8, <1>9, CallStep

\* find_entry has an answer.
LEMMA FindStep ==
    ASSUME FileInv, NEW t \in Task, find(t), UNCHANGED calls
    PROVE  FileInv'
<1>1. pc[t] = "find" /\ DiskOK /\ calls' \in 0..MaxCalls
  BY DEF find, FileInv
<1>2. held[t] = <<Root>> /\ t \in live /\ call[t] \in Call
  BY <1>1, RootHeld
<1>3. PICK c \in Call : c = call[t]
  BY <1>2
<1>4. PICK j : j = find_entry(c.name)
  OBVIOUS
<1>5. j \in 0..MaxEntries /\ (j # 0 => j \in DOMAIN entries)
  BY <1>1, <1>4, FindEntryIs
<1>6. ASSUME j # 0, iget(t, [c EXCEPT !.entry = j], entries[j].nr, entries, "iget") PROVE FileInv'
  <2>1. PICK d : d = [c EXCEPT !.entry = j]
    OBVIOUS
  <2>2. d \in Call
    BY <1>5, <2>1 DEF Call
  <2>3. PICK i : i = entries[j].nr
    OBVIOUS
  <2>4. entries \in Seq(Entry) /\ Len(entries) <= MaxEntries
    BY <1>1, EntriesType
  <2>5. i \in Nr \cup {0}
    <3>1. entries[j] \in Entry
      BY <1>5, <1>6, <2>4
    <3> QED BY <2>3, <3>1 DEF Entry
  <2>6. iget(t, d, i, entries, "iget")
    BY <1>6, <2>1, <2>3
  <2> QED BY <1>2, <2>2, <2>4, <2>5, <2>6, IgetStep
<1>7. ASSUME c.op \in {"creat", "mkdir"}, Proceed(t, c, "add", <<Root>>, inode), UNCHANGED <<disk, opens>>
      PROVE  FileInv'
  <2>1. CallFits(c, "add") /\ Fits(<<Root>>, c, "add") /\ "add" \in Label
    BY <1>7, RootOnly DEF CallFits, Fits, Label
  <2> QED BY <1>1, <1>2, <1>7, <2>1, SameDisk, KeepStep
<1>8. ASSUME Return(t, <<Root>>, inode), UNCHANGED <<disk, opens>> PROVE FileInv'
  <2>1. CallFits(NoCall, "iput") /\ Fits(<<Root>>, NoCall, "iput") /\ "iput" \in Label
    BY RootOnly DEF CallFits, Fits, Label
  <2>2. Proceed(t, NoCall, "iput", <<Root>>, inode)
    BY <1>8 DEF Return
  <2> QED BY <1>1, <1>2, <1>8, <2>1, <2>2, SameDisk, KeepStep
<1> QED BY <1>3, <1>4, <1>6, <1>7, <1>8 DEF find

\* iget has read its inode.
LEMMA IgetDoneStep ==
    ASSUME FileInv, NEW t \in Task, iget_done(t), UNCHANGED calls
    PROVE  FileInv'
<1>1. pc[t] = "iget"
  BY DEF iget_done
<1>2. Got(t) \in Inode /\ held[t] = <<Root, Got(t)>> /\ t \in live /\ call[t] \in Call
  BY <1>1, PairHeld DEF PairLabel
<1>3. PICK s \in Inode : s = Got(t)
  BY <1>2
<1>4. PICK tbl : tbl = [inode EXCEPT ![s].desc = inode[s].nr]
  OBVIOUS
<1>5. Found(t, call[t], s, tbl)
  BY <1>3, <1>4 DEF iget_done
<1>6. GoodTable(t, s, tbl)
  BY <1>2, <1>3, <1>4, SameGood
<1> QED BY <1>2, <1>5, <1>6, FoundStep

\* iget has read the inode that is new.
LEMMA IgetNewDoneStep ==
    ASSUME FileInv, NEW t \in Task, iget_new_done(t), UNCHANGED calls
    PROVE  FileInv'
<1>1. pc[t] = "iget new"
  BY DEF iget_new_done
<1>2. Got(t) \in Inode /\ held[t] = <<Root, Got(t)>> /\ t \in live /\ call[t] \in Call
  BY <1>1, PairHeld DEF PairLabel
<1>3. PICK s \in Inode : s = Got(t)
  BY <1>2
<1>4. PICK tbl : tbl = [inode EXCEPT ![s].desc = inode[s].nr]
  OBVIOUS
<1>5. Created(t, call[t], s, tbl, entries)
  BY <1>3, <1>4 DEF iget_new_done
<1>6. GoodTable(t, s, tbl)
  BY <1>2, <1>3, <1>4, SameGood
<1>7. entries \in Seq(Entry) /\ Len(entries) <= MaxEntries
  BY EntriesType DEF FileInv
<1> QED BY <1>2, <1>5, <1>6, <1>7, CreatedStep

\* ialloc has written the bitmap.
LEMMA IallocDoneStep ==
    ASSUME FileInv, NEW t \in Task, ialloc_done(t), UNCHANGED calls
    PROVE  FileInv'
<1>1. pc[t] = "ialloc"
  BY DEF ialloc_done
<1>2. held[t] = <<Root>> /\ t \in live /\ call[t] \in Call
  BY <1>1, RootHeld
<1>3. PICK c \in Call : c = call[t]
  BY <1>2
<1>4. c.nr \in Nr \cup {0}
  BY DEF Call
<1>5. PICK ents : ents = [entries EXCEPT ![c.entry].nr = c.nr]
  OBVIOUS
<1>6. ents \in Seq(Entry) /\ Len(ents) <= MaxEntries
  BY <1>4, <1>5, EntriesType, EditEntries DEF FileInv
<1>7. iget(t, c, c.nr, ents, "iget new")
  BY <1>3, <1>5 DEF ialloc_done
<1> QED BY <1>2, <1>4, <1>6, <1>7, IgetStep

\* link has looked for its new name.
LEMMA FindNewStep ==
    ASSUME FileInv, NEW t \in Task, find_new(t), UNCHANGED calls
    PROVE  FileInv'
<1>1. pc[t] = "find new" /\ UNCHANGED <<disk, opens>> /\ DiskOK /\ calls' \in 0..MaxCalls
  BY DEF find_new, FileInv
<1>2. Got(t) \in Inode /\ held[t] = <<Root, Got(t)>> /\ t \in live /\ call[t] \in Call
  BY <1>1, PairHeld DEF PairLabel
<1>3. CallFits(call[t], "find new") /\ Fits(held[t], call[t], "find new")
  BY <1>1 DEF FileInv, CallsOK
<1>4. DiskOK'
  BY <1>1, SameDisk
<1>5. ASSUME Proceed(t, call[t], "add", held[t], inode) PROVE FileInv'
  <2>1. call[t].op = "link"
    BY <1>3 DEF CallFits
  <2>2. CallFits(call[t], "add") /\ "add" \in Label
    BY <1>2 DEF CallFits, Label
  <2>3. Fits(held[t], call[t], "add")
    <3>1. held[t] \in Seq(Slots) /\ Len(held[t]) <= 2
      BY <1>3 DEF Fits
    <3>2. Len(held[t]) = 2 /\ held[t][1] = Root /\ held[t][2] \in Inode
      BY <1>3 DEF Fits, Label
    <3> QED BY <2>1, <3>1, <3>2 DEF Fits
  <2> QED BY <1>1, <1>2, <1>4, <1>5, <2>2, <2>3, KeepStep
<1>6. ASSUME Return(t, <<Got(t), Root>>, inode) PROVE FileInv'
  <2>1. PICK s \in Inode : s = Got(t)
    BY <1>2
  <2>2. Return(t, <<s, Root>>, inode)
    BY <1>6, <2>1
  <2>3. GoodTable(t, s, inode) /\ <<s, Root>> \in Both(s)
    BY <1>2, <2>1, SameGood DEF Both
  <2> QED BY <1>1, <1>2, <1>4, <2>2, <2>3, BothEnd
<1> QED BY <1>5, <1>6 DEF find_new

\* is_empty has an answer.
LEMMA IsEmptyStep ==
    ASSUME FileInv, NEW t \in Task, is_empty_done(t), UNCHANGED calls
    PROVE  FileInv'
<1>1. pc[t] = "empty" /\ DiskOK /\ calls' \in 0..MaxCalls
  BY DEF is_empty_done, FileInv
<1>2. Got(t) \in Inode /\ held[t] = <<Root, Got(t)>> /\ t \in live /\ call[t] \in Call
  BY <1>1, PairHeld DEF PairLabel
<1>3. PICK s \in Inode : s = Got(t)
  BY <1>2
<1>4. GoodTable(t, s, inode) /\ <<s, Root>> \in Both(s) /\ "truncate" \in PairLabel
  BY <1>2, <1>3, SameGood DEF Both, PairLabel
<1>5. \/ Return(t, <<s, Root>>, inode) /\ UNCHANGED <<disk, opens>>
      \/ Proceed(t, call[t], "truncate", <<Root, s>>, inode) /\ UNCHANGED <<disk, opens>>
      \/ Stop
  BY <1>2, <1>3 DEF is_empty_done
<1>6. CASE Stop
  BY <1>1, <1>6, StopStep
<1>7. CASE UNCHANGED <<disk, opens>>
  <2>1. DiskOK'
    BY <1>1, <1>7, SameDisk
  <2> QED BY <1>1, <1>2, <1>4, <1>5, <1>6, <1>7, <2>1, BothEnd, BothGoOn
<1> QED BY <1>5, <1>6, <1>7

\* ifree clears the bit of the inode.
LEMMA IfreeStep ==
    ASSUME FileInv, NEW t \in Task, ifree(t), UNCHANGED calls
    PROVE  FileInv'
<1>1. pc[t] = "truncate" /\ DiskOK /\ calls' \in 0..MaxCalls
  BY DEF ifree, FileInv
<1>2. Got(t) \in Inode /\ held[t] = <<Root, Got(t)>> /\ t \in live /\ call[t] \in Call
  BY <1>1, PairHeld DEF PairLabel
<1>3. PICK s \in Inode : s = Got(t)
  BY <1>2
<1>4. GoodTable(t, s, inode) /\ <<s, Root>> \in Both(s) /\ "ifree" \in PairLabel
  BY <1>2, <1>3, SameGood DEF Both, PairLabel
<1>5. CASE Stop
  BY <1>1, <1>5, StopStep
<1>6. CASE ~Stop
  <2>1. /\ imap' = imap \ {inode[s].nr}
        /\ \/ Proceed(t, call[t], "ifree", <<Root, s>>, inode)
           \/ Return(t, <<s, Root>>, inode)
        /\ UNCHANGED <<entries, nlinks, isdir, opens>>
    BY <1>2, <1>3, <1>6 DEF ifree
  <2>2. DiskOK'
    BY <1>1, <2>1 DEF DiskOK
  <2> QED BY <1>1, <1>2, <1>4, <2>1, <2>2, BothEnd, BothGoOn
<1> QED BY <1>5, <1>6

\* rmdir ends with the number of the slot cleared.
LEMMA RmdirDoneStep ==
    ASSUME FileInv, NEW t \in Task, rmdir_done(t), UNCHANGED calls
    PROVE  FileInv'
<1>1. pc[t] = "ifree" /\ DiskOK /\ TableOK /\ calls' \in 0..MaxCalls
  BY DEF rmdir_done, FileInv
<1>2. Got(t) \in Inode /\ held[t] = <<Root, Got(t)>> /\ t \in live /\ call[t] \in Call
  BY <1>1, PairHeld DEF PairLabel
<1>3. PICK s \in Inode : s = Got(t)
  BY <1>2
<1>4. PICK tbl : tbl = [inode EXCEPT ![s].nr = 0]
  OBVIOUS
<1>5. /\ nlinks' = [nlinks EXCEPT ![inode[s].desc] = 0]
      /\ entries' = [entries EXCEPT ![call[t].entry].nr = 0]
      /\ Return(t, <<s, Root>>, tbl)
      /\ UNCHANGED <<imap, isdir, opens>>
  BY <1>3, <1>4 DEF rmdir_done
<1>6. DiskOK'
  <2>1. entries' \in Seq(Entry) /\ Len(entries') <= MaxEntries
    BY <1>1, <1>5, EntriesType, EditEntries
  <2>2. nlinks' \in [Nr -> 0..255]
    <3>1. 0 \in 0..255
      OBVIOUS
    <3>2. nlinks \in [Nr -> 0..255]
      BY <1>1 DEF DiskOK
    <3> QED BY <1>5, <3>1, <3>2
  <2>3. UNCHANGED <<imap, isdir>>
    BY <1>5
  <2> QED BY <1>1, <2>1, <2>2, <2>3 DEF DiskOK, Entry
<1>7. GoodTable(t, s, tbl)
  <2> SUFFICES ASSUME inode' = tbl PROVE TableOK' /\ Balanced(t, <<Root, s>>)
    BY DEF GoodTable
  <2>1. TableOK' /\ Shifted(s, 0, 0)
    BY <1>1, <1>4, ClearTable
  <2> QED BY <1>1, <1>2, <1>3, <2>1, NoMore
<1>8. <<s, Root>> \in Both(s)
  BY DEF Both
<1> QED BY <1>1, <1>2, <1>5, <1>6, <1>7, <1>8, BothEnd

\* The last inode but one, or the last one, is given back.
\* iput gives back the first of the inodes that the call holds.
LEMMA IputStep ==
    ASSUME FileInv, NEW t \in Task, iput(t), UNCHANGED calls
    PROVE  FileInv'
<1>1. /\ pc[t] = "iput" /\ DiskOK /\ TableOK /\ calls' \in 0..MaxCalls
      /\ UNCHANGED <<disk, opens>>
  BY DEF iput, FileInv
<1>2. t \in live /\ held[t] \in Seq(Slots) /\ Len(held[t]) >= 1 /\ Len(held[t]) <= 2
  BY <1>1 DEF FileInv, CallsOK, Fits
<1>3. PICK n \in Nat : n = Len(held[t])
  BY <1>2, LenProperties
<1>4. n \in {1, 2} /\ 1 \in DOMAIN held[t] /\ held[t] # <<>>
  <2>1. n >= 1 /\ n <= 2
    BY <1>2, <1>3
  <2>2. n = 1 \/ n = 2
    BY ONLY n \in Nat, <2>1
  <2>3. DOMAIN held[t] = 1..n
    BY <1>2, <1>3, LenProperties
  <2>4. 1 \in 1..n
    BY ONLY <2>2
  <2> QED BY <1>3, <2>2, <2>3, <2>4
<1>5. PICK s : s = held[t][1]
  OBVIOUS
<1>6. s \in Slots /\ inode[s].count # 0 /\ (s = Root => inode[s].count > 1)
  <2>1. s \in Slots
    BY <1>2, <1>4, <1>5
  <2> QED BY <1>4, <1>5, <2>1, HeldIsUsed
<1>7. PICK L : L = Tail(held[t])
  OBVIOUS
<1>8. /\ L \in Seq(Slots)
      /\ \A x : Occurs(held[t], x) = Occurs(L, x) + (IF x = s THEN 1 ELSE 0)
      /\ n = 1 => L = <<>>
      /\ n = 2 => Len(L) = 1
  <2>1. /\ L \in Seq(Slots) /\ Len(L) = n - 1
        /\ \A i \in 1..(n - 1) : L[i] = held[t][i + 1]
    BY <1>2, <1>3, <1>4, <1>7, HeadTailProperties
  <2>2. CASE n = 1
    <3>1. L = <<>> /\ Len(L) = 0
      BY <2>1, <2>2, EmptySeq
    <3>2. ASSUME NEW x PROVE Occurs(held[t], x) = Occurs(L, x) + (IF x = s THEN 1 ELSE 0)
      BY <1>3, <1>5, <2>2, <3>1 DEF Occurs
    <3> QED BY <2>1, <2>2, <3>1, <3>2
  <2>3. CASE n = 2
    <3>1. Len(L) = 1 /\ L[1] = held[t][2]
      BY <2>1, <2>3
    <3>2. ASSUME NEW x PROVE Occurs(held[t], x) = Occurs(L, x) + (IF x = s THEN 1 ELSE 0)
      BY <1>3, <1>5, <2>3, <3>1 DEF Occurs
    <3> QED BY <2>1, <2>3, <3>1, <3>2
  <2> QED BY <1>4, <2>2, <2>3
<1>9. PICK label : label = IF n = 1 THEN "user" ELSE "iput"
  OBVIOUS
<1>10. Proceed(t, NoCall, label, L, Put(inode, s))
  BY <1>2, <1>3, <1>4, <1>5, <1>7, <1>9 DEF iput
<1>11. label \in Label /\ CallFits(NoCall, label)
  BY <1>9 DEF Label, CallFits
<1>12. Fits(L, NoCall, label)
  <2>1. CASE n = 1
    <3>1. L = <<>> /\ label = "user"
      BY <1>8, <1>9, <2>1
    <3>2. Len(<<>>) = 0 /\ 0 <= 2
      OBVIOUS
    <3>3. <<>> \in Seq(Slots) /\ Len(<<>>) <= 2
      BY <3>2
    <3> QED BY <3>1, <3>3 DEF Fits
  <2>2. CASE n = 2
    <3>1. Len(L) = 1 /\ label = "iput"
      BY <1>8, <1>9, <2>2
    <3>2. Len(L) <= 2 /\ Len(L) >= 1
      BY ONLY <3>1
    <3> QED BY <1>8, <3>1, <3>2 DEF Fits
  <2> QED BY <1>4, <2>1, <2>2
<1>13. Moves(t, label, NoCall, L) /\ inode' = Put(inode, s) /\ UNCHANGED <<live, stopped>>
  BY <1>10, <1>11, <1>12 DEF Moves, Proceed
<1>14. TableOK' /\ Shifted(s, 1, 0)
  BY <1>1, <1>6, <1>13, PutTable
<1>15. Balanced(t, L)
  <2> SUFFICES ASSUME NEW x \in Slots
               PROVE  inode'[x].count + Occurs(held[t], x) = inode[x].count + Occurs(L, x)
    BY DEF Balanced
  <2>1. PICK a \in Nat, b \in Nat, k \in Nat, e \in Nat :
           /\ a = inode'[x].count /\ b = inode[x].count /\ k = Occurs(L, x)
           /\ e = IF x = s THEN 1 ELSE 0
    BY <1>1, <1>14 DEF TableOK, Occurs
  <2>2. a + e = b + 0 /\ Occurs(held[t], x) = k + e
    BY <1>8, <1>14, <2>1 DEF Shifted
  <2> QED BY <2>1, <2>2
<1>16. DiskOK'
  BY <1>1, SameDisk
<1> QED BY <1>1, <1>2, <1>13, <1>14, <1>15, <1>16, CallStep

\* The root is given back, and stays in its slot.
LEMMA PutRoot ==
    ASSUME FileInv, inode' = Put(inode, Root)
    PROVE  TableOK' /\ Shifted(Root, 1, 0)
BY RootUsed, PutTable DEF FileInv

\* A call ends with one inode to give back.
LEMMA OneEnds ==
    ASSUME NEW a \in Slots
    PROVE  Fits(<<a>>, NoCall, "iput") /\ CallFits(NoCall, "iput") /\ "iput" \in Label
<1>1. PICK L : L = <<a>>
  OBVIOUS
<1>2. L \in Seq(Slots) /\ Len(L) = 1
  BY <1>1
<1>3. Len(L) <= 2 /\ Len(L) >= 1
  BY ONLY <1>2
<1>4. Fits(L, NoCall, "iput")
  BY <1>2, <1>3 DEF Fits
<1> QED BY <1>1, <1>4 DEF CallFits, Label

\* A call ends with none.
LEMMA NoneEnds == Fits(<<>>, NoCall, "user") /\ CallFits(NoCall, "user") /\ "user" \in Label
<1>1. <<>> \in Seq(Slots) /\ Len(<<>>) = 0
  BY EmptySeq
<1>2. Len(<<>>) <= 2
  BY ONLY <1>1
<1> QED BY <1>1, <1>2 DEF Fits, CallFits, Label

-----------------------------------------------------------------------------
\* chdir: the call gives the old directory of its task back, and the task has
\* the new one.
LEMMA ChdirStep ==
    ASSUME FileInv, NEW t \in live, NEW s \in Inode, held[t] = <<Root, s>>,
           Return(t, <<ipwd[t]>>, Put(inode, Root)), ipwd' = [ipwd EXCEPT ![t] = s],
           UNCHANGED <<file, files, disk, calls>>
    PROVE  FileInv'
<1>1. /\ DiskOK' /\ calls' \in 0..MaxCalls /\ TableOK /\ CallsOK
      /\ file \in [File -> [count : Nat, inode : Slots]]
      /\ files \in [Task -> [Fd -> File \cup {NoFile}]]
      /\ ipwd \in [Task -> Slots] /\ t \in Task
  BY SameDisk DEF FileInv, OpensOK, CallsOK
<1>2. PICK p \in Slots : p = ipwd[t]
  BY <1>1
<1>3. Moves(t, "iput", NoCall, <<p>>) /\ inode' = Put(inode, Root) /\ UNCHANGED <<live, stopped>>
  <2>1. Return(t, <<p>>, Put(inode, Root))
    BY <1>2
  <2>2. Fits(<<p>>, NoCall, "iput") /\ CallFits(NoCall, "iput") /\ "iput" \in Label
    BY OneEnds
  <2> QED BY <2>1, <2>2 DEF Moves, Return, Proceed
<1>4. CallsOK' /\ TableOK' /\ Shifted(Root, 1, 0)
  BY <1>1, <1>3, MovesKeepCalls, PutRoot
<1>5. OpensOK'
  <2>1. ipwd' \in [Task -> Slots]
    BY <1>1 DEF Slots
  <2> QED BY <1>1, <1>3, <2>1 DEF FileInv, OpensOK
<1>6. ASSUME NEW x \in Slots
      PROVE  inode'[x].count = Cardinality(Holds(x)') + Cardinality(OpenOn(x)')
                                 + Cardinality(WorksIn(x)') + Roots(x)'
  <2>1. OpenOn(x)' = OpenOn(x) /\ Roots(x)' = Roots(x)
    BY <1>3 DEF OpenOn, Roots
  <2>2. PICK a \in Nat, b \in Nat, c \in Nat :
           /\ a = IF x = Root THEN 1 ELSE 0
           /\ b = IF x = s THEN 1 ELSE 0
           /\ c = IF x = p THEN 1 ELSE 0
    OBVIOUS
  <2>3. Occurs(held[t], x) = a + b /\ Occurs(<<p>>, x) = c
    BY <2>2, OccursAre
  <2>4. /\ Cardinality(Holds(x)') \in Nat
        /\ Cardinality(Holds(x)') + (a + b) = Cardinality(Holds(x)) + c
    <3>1. <<p>> \in Seq(Slots) /\ Len(<<p>>) <= 2 /\ held' = [held EXCEPT ![t] = <<p>>]
      BY <1>3 DEF Moves, Fits
    <3>2. PICK L : L = <<p>>
      OBVIOUS
    <3>3. /\ Cardinality(Holds(x)') \in Nat
          /\ Cardinality(Holds(x)') + Occurs(held[t], x) = Cardinality(Holds(x)) + Occurs(L, x)
      BY <1>1, <3>1, <3>2, HoldStep
    <3> QED BY <2>3, <3>2, <3>3
  <2>5. /\ Cardinality(WorksIn(x)') \in Nat
        /\ Cardinality(WorksIn(x)') + c = Cardinality(WorksIn(x)) + b
    <3>1. \A y : y # t => (y \in WorksIn(x) <=> y \in WorksIn(x)')
      BY <1>1, <1>3 DEF WorksIn, CallsOK
    <3>2. t \in WorksIn(x) <=> x = p
      BY <1>2 DEF WorksIn
    <3>3. t \in WorksIn(x)' <=> x = s
      BY <1>1, <1>3 DEF WorksIn
    <3>4. IsFiniteSet(WorksIn(x))
      BY <1>1, Finite
    <3>5. /\ Cardinality(WorksIn(x)') \in Nat
          /\ Cardinality(WorksIn(x)') + (IF t \in WorksIn(x) THEN 1 ELSE 0)
               = Cardinality(WorksIn(x)) + (IF t \in WorksIn(x)' THEN 1 ELSE 0)
      BY <3>1, <3>4, ChangeAt
    <3> QED BY <2>2, <3>2, <3>3, <3>5
  <2>6. PICK d \in Nat, e \in Nat, h \in Nat, i \in Nat, o \in Nat, w \in Nat, v \in Nat, r \in Nat :
           /\ d = inode[x].count /\ e = inode'[x].count
           /\ h = Cardinality(Holds(x)) /\ i = Cardinality(Holds(x)')
           /\ o = Cardinality(OpenOn(x)) /\ r = Roots(x)
           /\ w = Cardinality(WorksIn(x)) /\ v = Cardinality(WorksIn(x)')
    <3>1. inode'[x].count \in Nat
      BY <1>4 DEF TableOK
    <3> QED BY <2>4, <2>5, <3>1, SlotSum
  <2>7. e + a = d + 0
    BY <1>4, <2>2, <2>6 DEF Shifted
  <2>8. d = h + o + w + r /\ i + (a + b) = h + c /\ v + c = w + b
    BY <2>4, <2>5, <2>6, SlotSum
  <2>9. e = i + o + v + r
    BY ONLY <2>7, <2>8, a \in Nat, b \in Nat, c \in Nat, d \in Nat, e \in Nat, h \in Nat, i \in Nat,
            o \in Nat, w \in Nat, v \in Nat, r \in Nat
  <2> QED BY <2>1, <2>6, <2>9
<1>7. \A f \in File : file'[f].count = Cardinality(Descriptors(f)')
  BY DEF FileInv, CountsReferences, Descriptors
<1>8. CountsReferences'
  BY <1>6, <1>7 DEF CountsReferences, Slots
<1> QED BY <1>1, <1>3, <1>4, <1>5, <1>8 DEF FileInv

\* namei has given its directory back, for link and for chdir.
LEMMA NameiDoneStep ==
    ASSUME FileInv, NEW t \in Task, namei_done(t), UNCHANGED calls
    PROVE  FileInv'
<1>1. /\ pc[t] = "namei" /\ DiskOK /\ TableOK /\ calls' \in 0..MaxCalls
      /\ UNCHANGED disk
  BY DEF namei_done, FileInv
<1>2. Got(t) \in Inode /\ held[t] = <<Root, Got(t)>> /\ t \in live /\ call[t] \in Call
  BY <1>1, PairHeld DEF PairLabel
<1>3. PICK s \in Inode : s = Got(t)
  BY <1>2
<1>4. DiskOK'
  BY <1>1, SameDisk
<1>5. ASSUME call[t].op = "link", Proceed(t, call[t], "find new", <<Root, s>>, inode), UNCHANGED opens
      PROVE  FileInv'
  <2>1. GoodTable(t, s, inode) /\ "find new" \in PairLabel
    BY <1>2, <1>3, SameGood DEF PairLabel
  <2> QED BY <1>1, <1>2, <1>4, <1>5, <2>1, BothGoOn
<1>6. ASSUME Return(t, <<ipwd[t]>>, Put(inode, Root)), ipwd' = [ipwd EXCEPT ![t] = s],
             UNCHANGED <<file, files>>
      PROVE  FileInv'
  BY <1>1, <1>2, <1>3, <1>6, ChdirStep
<1>7. ASSUME Return(t, <<s>>, Put(inode, Root)), UNCHANGED opens PROVE FileInv'
  <2>1. PICK L : L = <<s>>
    OBVIOUS
  <2>2. Fits(L, NoCall, "iput") /\ CallFits(NoCall, "iput") /\ "iput" \in Label
    BY <2>1, OneEnds DEF Slots
  <2>3. Moves(t, "iput", NoCall, L) /\ inode' = Put(inode, Root) /\ UNCHANGED <<live, stopped>>
    BY <1>7, <2>1, <2>2 DEF Moves, Return, Proceed
  <2>4. TableOK' /\ Shifted(Root, 1, 0)
    BY <2>3, PutRoot
  <2>5. Balanced(t, L)
    <3> SUFFICES ASSUME NEW x \in Slots
                 PROVE  inode'[x].count + Occurs(held[t], x) = inode[x].count + Occurs(L, x)
      BY DEF Balanced
    <3> inode[x].count \in Nat /\ inode'[x].count \in Nat
      BY <1>1, <2>4 DEF TableOK
    <3>1. PICK a \in Nat, b \in Nat, d \in Nat, e \in Nat :
             /\ d = inode[x].count /\ e = inode'[x].count
             /\ a = (IF x = Root THEN 1 ELSE 0)
             /\ b = (IF x = s THEN 1 ELSE 0)
      OBVIOUS
    <3>2. Occurs(held[t], x) = a + b /\ Occurs(L, x) = b
      BY <1>2, <1>3, <2>1, <3>1, OccursAre
    <3>3. e + a = d + 0
      BY <2>4, <3>1 DEF Shifted
    <3> QED BY <3>1, <3>2, <3>3
  <2> QED BY <1>1, <1>2, <1>4, <1>7, <2>3, <2>4, <2>5, CallStep
<1> QED BY <1>3, <1>5, <1>6, <1>7 DEF namei_done

\* sys_open: a free file refers to the inode, and a free descriptor to the file.
LEMMA OpenedStep ==
    ASSUME FileInv, NEW t \in live, NEW s \in Inode, held[t] = <<Root, s>>,
           NEW fd \in Fd, files[t][fd] = NoFile, NEW f \in File, file[f].count = 0,
           files' = [files EXCEPT ![t][fd] = f],
           file' = [file EXCEPT ![f] = [count |-> 1, inode |-> s]],
           Proceed(t, NoCall, "user", <<>>, Put(inode, Root)),
           UNCHANGED <<disk, ipwd, calls>>
    PROVE  FileInv'
<1>1. /\ DiskOK' /\ calls' \in 0..MaxCalls /\ TableOK /\ CallsOK
      /\ file \in [File -> [count : Nat, inode : Slots]]
      /\ files \in [Task -> [Fd -> File \cup {NoFile}]]
      /\ t \in Task /\ s \in Slots
  BY SameDisk DEF FileInv, OpensOK, CallsOK, Slots
<1>2. Moves(t, "user", NoCall, <<>>) /\ inode' = Put(inode, Root) /\ UNCHANGED <<live, stopped>>
  BY NoneEnds DEF Moves, Proceed
<1>3. CallsOK' /\ TableOK' /\ Shifted(Root, 1, 0)
  BY <1>1, <1>2, MovesKeepCalls, PutRoot
<1>4. /\ file'[f].count = 1 /\ file'[f].inode = s
      /\ \A g \in File : g # f => file'[g] = file[g]
      /\ files'[t][fd] = f
      /\ \A u \in Task, d \in Fd : u # t \/ d # fd => files'[u][d] = files[u][d]
  BY <1>1
<1>5. OpensOK'
  <2>1. file' \in [File -> [count : Nat, inode : Slots]]
    BY <1>1
  <2>2. files' \in [Task -> [Fd -> File \cup {NoFile}]]
    BY <1>1
  <2> QED BY <1>1, <1>2, <1>4, <2>1, <2>2 DEF FileInv, OpensOK
<1>6. ASSUME NEW x \in Slots
      PROVE  inode'[x].count = Cardinality(Holds(x)') + Cardinality(OpenOn(x)')
                                 + Cardinality(WorksIn(x)') + Roots(x)'
  <2>1. WorksIn(x)' = WorksIn(x) /\ Roots(x)' = Roots(x)
    BY <1>2 DEF WorksIn, Roots
  <2>2. PICK a \in Nat, b \in Nat :
           /\ a = (IF x = Root THEN 1 ELSE 0)
           /\ b = (IF x = s THEN 1 ELSE 0)
    OBVIOUS
  <2>3. Occurs(held[t], x) = a + b /\ Occurs(<<>>, x) = 0
    BY <2>2, OccursAre
  <2>4. /\ Cardinality(Holds(x)') \in Nat
        /\ Cardinality(Holds(x)') + (a + b) = Cardinality(Holds(x)) + 0
    <3>1. <<>> \in Seq(Slots) /\ Len(<<>>) <= 2 /\ held' = [held EXCEPT ![t] = <<>>]
      BY <1>2 DEF Moves, Fits
    <3>2. PICK L : L = <<>>
      OBVIOUS
    <3>3. /\ Cardinality(Holds(x)') \in Nat
          /\ Cardinality(Holds(x)') + Occurs(held[t], x) = Cardinality(Holds(x)) + Occurs(L, x)
      BY <1>1, <3>1, <3>2, HoldStep
    <3> QED BY <2>3, <3>2, <3>3
  <2>5. /\ Cardinality(OpenOn(x)') \in Nat
        /\ Cardinality(OpenOn(x)') + 0 = Cardinality(OpenOn(x)) + b
    <3>1. \A y : y # f => (y \in OpenOn(x) <=> y \in OpenOn(x)')
      BY <1>4 DEF OpenOn
    <3>2. f \notin OpenOn(x)
      BY DEF OpenOn
    <3>3. f \in OpenOn(x)' <=> x = s
      BY <1>4 DEF OpenOn
    <3>4. IsFiniteSet(OpenOn(x))
      BY Finite
    <3>5. /\ Cardinality(OpenOn(x)') \in Nat
          /\ Cardinality(OpenOn(x)') + (IF f \in OpenOn(x) THEN 1 ELSE 0)
               = Cardinality(OpenOn(x)) + (IF f \in OpenOn(x)' THEN 1 ELSE 0)
      BY <3>1, <3>4, ChangeAt
    <3> QED BY <2>2, <3>2, <3>3, <3>5
  <2>6. PICK d \in Nat, e \in Nat, h \in Nat, i \in Nat, o \in Nat, w \in Nat, v \in Nat, r \in Nat :
           /\ d = inode[x].count /\ e = inode'[x].count
           /\ h = Cardinality(Holds(x)) /\ i = Cardinality(Holds(x)')
           /\ o = Cardinality(OpenOn(x)) /\ v = Cardinality(OpenOn(x)')
           /\ r = Roots(x) /\ w = Cardinality(WorksIn(x))
    <3>1. inode'[x].count \in Nat
      BY <1>3 DEF TableOK
    <3> QED BY <2>4, <2>5, <3>1, SlotSum
  <2>7. e + a = d + 0
    BY <1>3, <2>2, <2>6 DEF Shifted
  <2>8. d = h + o + w + r /\ i + (a + b) = h + 0 /\ v + 0 = o + b
    BY <2>4, <2>5, <2>6, SlotSum
  <2>9. e = i + v + w + r
    BY ONLY <2>7, <2>8, a \in Nat, b \in Nat, d \in Nat, e \in Nat, h \in Nat, i \in Nat,
            o \in Nat, w \in Nat, v \in Nat, r \in Nat
  <2> QED BY <2>1, <2>6, <2>9
<1>7. ASSUME NEW g \in File PROVE file'[g].count = Cardinality(Descriptors(g)')
  <2>1. PICK x : x = <<t, fd>>
    OBVIOUS
  <2>2. \A y \in Task \X Fd : y # x => y[1] # t \/ y[2] # fd
    BY <2>1
  <2>3. \A y : y # x => (y \in Descriptors(g) <=> y \in Descriptors(g)')
    <3>1. ASSUME NEW y \in Task \X Fd, y # x PROVE files'[y[1]][y[2]] = files[y[1]][y[2]]
      <4>1. y[1] \in Task /\ y[2] \in Fd
        BY <3>1
      <4> QED BY <1>4, <2>2, <3>1, <4>1
    <3> QED BY <3>1 DEF Descriptors
  <2>4. x \notin Descriptors(g)
    BY <2>1, FileSystemAssumption DEF Descriptors
  <2>5. x \in Descriptors(g)' <=> g = f
    BY <1>1, <1>4, <2>1 DEF Descriptors
  <2>6. IsFiniteSet(Descriptors(g))
    BY Finite
  <2>7. /\ Cardinality(Descriptors(g)) \in Nat /\ Cardinality(Descriptors(g)') \in Nat
        /\ Cardinality(Descriptors(g)') + (IF x \in Descriptors(g) THEN 1 ELSE 0)
             = Cardinality(Descriptors(g)) + (IF x \in Descriptors(g)' THEN 1 ELSE 0)
    BY <2>3, <2>6, ChangeAt
  <2>8. Cardinality(Descriptors(g)') = Cardinality(Descriptors(g)) + (IF g = f THEN 1 ELSE 0)
    BY <2>4, <2>5, <2>7
  <2>9. file[g].count = Cardinality(Descriptors(g))
    BY DEF FileInv, CountsReferences
  <2>10. CASE g = f
    BY <1>4, <2>8, <2>9, <2>10
  <2>11. CASE g # f
    BY <1>4, <2>7, <2>8, <2>9, <2>11
  <2> QED BY <2>10, <2>11
<1>8. CountsReferences'
  BY <1>6, <1>7 DEF CountsReferences, Slots
<1> QED BY <1>1, <1>2, <1>3, <1>5, <1>8 DEF FileInv

\* sys_open: the first free descriptor and the first free file.
LEMMA SysOpenStep ==
    ASSUME FileInv, NEW t \in Task, sys_open(t), UNCHANGED calls
    PROVE  FileInv'
<1>1. pc[t] = "opened" /\ calls' \in 0..MaxCalls
  BY DEF sys_open, FileInv
<1>2. Got(t) \in Inode /\ held[t] = <<Root, Got(t)>> /\ t \in live
  BY <1>1, PairHeld DEF PairLabel
<1>3. CASE Stop
  BY <1>1, <1>3, StopStep
<1>4. CASE ~Stop
  <2>1. PICK fds : fds = {fd \in Fd : files[t][fd] = NoFile}
    OBVIOUS
  <2>2. PICK unused : unused = {f \in File : file[f].count = 0}
    OBVIOUS
  <2>3. PICK fd : fd = Least(fds)
    OBVIOUS
  <2>4. PICK f : f = Least(unused)
    OBVIOUS
  <2>5. PICK s \in Inode : s = Got(t)
    BY <1>2
  <2>6. /\ fds # {} /\ unused # {}
        /\ files' = [files EXCEPT ![t][fd] = f]
        /\ file' = [file EXCEPT ![f] = [count |-> 1, inode |-> s]]
        /\ Proceed(t, NoCall, "user", <<>>, Put(inode, Root))
        /\ UNCHANGED <<disk, ipwd>>
    BY <1>4, <2>1, <2>2, <2>3, <2>4, <2>5 DEF sys_open
  <2>7. fd \in Fd /\ files[t][fd] = NoFile
    <3>1. fds \in SUBSET Nat
      BY <2>1, FileSystemAssumption
    <3>2. Least(fds) \in fds
      BY <2>6, <3>1, LeastIs
    <3> QED BY <2>1, <2>3, <3>2
  <2>8. f \in File /\ file[f].count = 0
    <3>1. unused \in SUBSET Nat
      BY <2>2, FileSystemAssumption
    <3>2. Least(unused) \in unused
      BY <2>6, <3>1, LeastIs
    <3> QED BY <2>2, <2>4, <3>2
  <2> QED BY <1>2, <2>5, <2>6, <2>7, <2>8, OpenedStep
<1> QED BY <1>3, <1>4

\* A descriptor has a file, which has it among its users.
LEMMA FileUsed ==
    ASSUME FileInv, NEW t \in Task, NEW fd \in Fd, NEW f \in File, files[t][fd] = f
    PROVE  file[f].count \in Nat \ {0} /\ file[f].count > 0
<1>1. PICK x : x = <<t, fd>>
  OBVIOUS
<1>2. x \in Descriptors(f)
  BY <1>1 DEF Descriptors
<1>3. IsFiniteSet(Descriptors(f))
  BY Finite
<1>4. Cardinality(Descriptors(f)) \in Nat /\ Cardinality(Descriptors(f)) # 0
  BY <1>2, <1>3, FS_CardinalityType, FS_EmptySet
<1>5. file[f].count = Cardinality(Descriptors(f))
  BY DEF FileInv, CountsReferences
<1> QED BY <1>4, <1>5

\* put_file: the call has the inode to give back if that was the last user.
LEMMA ClosedStep ==
    ASSUME FileInv, NEW t \in live, pc[t] = "user", NEW fd \in Fd, NEW f \in File,
           files[t][fd] = f,
           file' = [file EXCEPT ![f] = [count |-> file[f].count - 1, inode |-> file[f].inode]],
           files' = [files EXCEPT ![t][fd] = NoFile],
           NEW L, NEW label, Proceed(t, NoCall, label, L, inode),
           IF file'[f].count = 0 THEN L = <<file[f].inode>> /\ label = "iput"
                                 ELSE L = <<>> /\ label = "user",
           UNCHANGED <<disk, ipwd, calls>>
    PROVE  FileInv'
<1>1. /\ DiskOK' /\ calls' \in 0..MaxCalls /\ TableOK /\ CallsOK
      /\ file \in [File -> [count : Nat, inode : Slots]]
      /\ files \in [Task -> [Fd -> File \cup {NoFile}]]
      /\ t \in Task /\ held[t] = <<>>
  BY SameDisk, UserHeld DEF FileInv, OpensOK, CallsOK
<1>2. PICK s \in Slots, m \in Nat, n \in Nat :
         s = file[f].inode /\ m = file[f].count /\ m > 0 /\ n = m - 1
  <2>1. file[f].inode \in Slots /\ file[f].count \in Nat
    BY <1>1
  <2>2. file[f].count > 0
    BY <1>1, FileUsed
  <2> QED BY <2>1, <2>2
<1>3. /\ file'[f].count = n /\ file'[f].inode = s
      /\ \A g \in File : g # f => file'[g] = file[g]
      /\ files'[t][fd] = NoFile
      /\ \A u \in Task, d \in Fd : u # t \/ d # fd => files'[u][d] = files[u][d]
  BY <1>1, <1>2
<1>4. Moves(t, label, NoCall, L) /\ inode' = inode /\ UNCHANGED <<live, stopped>>
  <2>1. CASE n = 0
    <3>1. L = <<s>> /\ label = "iput"
      BY <1>2, <1>3, <2>1
    <3>2. Fits(<<s>>, NoCall, "iput") /\ CallFits(NoCall, "iput") /\ "iput" \in Label
      BY OneEnds
    <3> QED BY <3>1, <3>2 DEF Moves, Proceed
  <2>2. CASE n # 0
    <3>1. L = <<>> /\ label = "user"
      BY <1>3, <2>2
    <3> QED BY <3>1, NoneEnds DEF Moves, Proceed
  <2> QED BY <2>1, <2>2
<1>5. CallsOK' /\ TableOK'
  BY <1>1, <1>4, MovesKeepCalls, SameTable
<1>6. OpensOK'
  <2>1. file' \in [File -> [count : Nat, inode : Slots]]
    BY <1>1, <1>2
  <2>2. files' \in [Task -> [Fd -> File \cup {NoFile}]]
    BY <1>1
  <2> QED BY <1>1, <1>3, <1>4, <2>1, <2>2 DEF FileInv, OpensOK
<1>7. ASSUME NEW x \in Slots
      PROVE  inode'[x].count = Cardinality(Holds(x)') + Cardinality(OpenOn(x)')
                                 + Cardinality(WorksIn(x)') + Roots(x)'
  <2>1. WorksIn(x)' = WorksIn(x) /\ Roots(x)' = Roots(x) /\ inode'[x].count = inode[x].count
    BY <1>4 DEF WorksIn, Roots
  <2>2. PICK a \in Nat, b \in Nat :
           /\ a = (IF x = s THEN 1 ELSE 0)
           /\ b = (IF x = s /\ n # 0 THEN 1 ELSE 0)
    OBVIOUS
  <2>3. Occurs(held[t], x) = 0 /\ Occurs(L, x) + b = a
    <3>1. CASE n = 0
      <4>1. L = <<s>>
        BY <1>2, <1>3, <3>1
      <4>2. Occurs(L, x) = a /\ b = 0
        BY <2>2, <3>1, <4>1, OccursAre
      <4> QED BY <1>1, <4>2, OccursAre
    <3>2. CASE n # 0
      <4>1. L = <<>>
        BY <1>3, <3>2
      <4> QED BY <1>1, <2>2, <3>2, <4>1, OccursAre
    <3> QED BY <3>1, <3>2
  <2>4. /\ Cardinality(Holds(x)') \in Nat
        /\ Cardinality(Holds(x)') + 0 = Cardinality(Holds(x)) + Occurs(L, x)
    <3>1. L \in Seq(Slots) /\ Len(L) <= 2 /\ held' = [held EXCEPT ![t] = L]
      BY <1>4 DEF Moves, Fits
    <3>2. /\ Cardinality(Holds(x)') \in Nat
          /\ Cardinality(Holds(x)') + Occurs(held[t], x) = Cardinality(Holds(x)) + Occurs(L, x)
      BY <1>1, <3>1, HoldStep
    <3> QED BY <2>3, <3>2
  <2>5. /\ Cardinality(OpenOn(x)') \in Nat
        /\ Cardinality(OpenOn(x)') + a = Cardinality(OpenOn(x)) + b
    <3>1. \A y : y # f => (y \in OpenOn(x) <=> y \in OpenOn(x)')
      BY <1>3 DEF OpenOn
    <3>2. f \in OpenOn(x) <=> x = s
      BY <1>2 DEF OpenOn
    <3>3. f \in OpenOn(x)' <=> x = s /\ n # 0
      <4>1. n > 0 <=> n # 0
        BY <1>2
      <4> QED BY <1>3, <4>1 DEF OpenOn
    <3>4. IsFiniteSet(OpenOn(x))
      BY Finite
    <3>5. /\ Cardinality(OpenOn(x)') \in Nat
          /\ Cardinality(OpenOn(x)') + (IF f \in OpenOn(x) THEN 1 ELSE 0)
               = Cardinality(OpenOn(x)) + (IF f \in OpenOn(x)' THEN 1 ELSE 0)
      BY <3>1, <3>4, ChangeAt
    <3> QED BY <2>2, <3>2, <3>3, <3>5
  <2>6. PICK d \in Nat, h \in Nat, i \in Nat, o \in Nat, w \in Nat, v \in Nat, r \in Nat, k \in Nat :
           /\ d = inode[x].count /\ k = Occurs(L, x)
           /\ h = Cardinality(Holds(x)) /\ i = Cardinality(Holds(x)')
           /\ o = Cardinality(OpenOn(x)) /\ v = Cardinality(OpenOn(x)')
           /\ r = Roots(x) /\ w = Cardinality(WorksIn(x))
    <3>1. Occurs(L, x) \in Nat
      BY DEF Occurs
    <3> QED BY <2>4, <2>5, <3>1, SlotSum
  <2>7. d = h + o + w + r /\ i + 0 = h + k /\ v + a = o + b /\ k + b = a
    BY <2>3, <2>4, <2>5, <2>6, SlotSum
  <2>8. d = i + v + w + r
    BY ONLY <2>7, a \in Nat, b \in Nat, d \in Nat, k \in Nat, h \in Nat, i \in Nat,
            o \in Nat, w \in Nat, v \in Nat, r \in Nat
  <2> QED BY <2>1, <2>6, <2>8
<1>8. ASSUME NEW g \in File PROVE file'[g].count = Cardinality(Descriptors(g)')
  <2>1. PICK x : x = <<t, fd>>
    OBVIOUS
  <2>2. \A y \in Task \X Fd : y # x => y[1] # t \/ y[2] # fd
    BY <2>1
  <2>3. \A y : y # x => (y \in Descriptors(g) <=> y \in Descriptors(g)')
    <3>1. ASSUME NEW y \in Task \X Fd, y # x PROVE files'[y[1]][y[2]] = files[y[1]][y[2]]
      <4>1. y[1] \in Task /\ y[2] \in Fd
        BY <3>1
      <4> QED BY <1>3, <2>2, <3>1, <4>1
    <3> QED BY <3>1 DEF Descriptors
  <2>4. x \in Descriptors(g) <=> g = f
    BY <1>1, <2>1 DEF Descriptors
  <2>5. x \notin Descriptors(g)'
    BY <1>3, <2>1, FileSystemAssumption DEF Descriptors
  <2>6. IsFiniteSet(Descriptors(g))
    BY Finite
  <2>7. /\ Cardinality(Descriptors(g)) \in Nat /\ Cardinality(Descriptors(g)') \in Nat
        /\ Cardinality(Descriptors(g)') + (IF x \in Descriptors(g) THEN 1 ELSE 0)
             = Cardinality(Descriptors(g)) + (IF x \in Descriptors(g)' THEN 1 ELSE 0)
    BY <2>3, <2>6, ChangeAt
  <2>8. Cardinality(Descriptors(g)') + (IF g = f THEN 1 ELSE 0) = Cardinality(Descriptors(g))
    BY <2>4, <2>5, <2>7
  <2>9. file[g].count = Cardinality(Descriptors(g))
    BY DEF FileInv, CountsReferences
  <2>10. CASE g = f
    <3>1. Cardinality(Descriptors(g)') + 1 = m
      BY <1>2, <2>8, <2>9, <2>10
    <3> QED BY <1>2, <1>3, <2>7, <2>10, <3>1
  <2>11. CASE g # f
    BY <1>3, <2>7, <2>8, <2>9, <2>11
  <2> QED BY <2>10, <2>11
<1>9. CountsReferences'
  BY <1>7, <1>8 DEF CountsReferences, Slots
<1> QED BY <1>1, <1>4, <1>5, <1>6, <1>9 DEF FileInv

\* sys_close of any descriptor that has a file.
LEMMA SysCloseStep ==
    ASSUME FileInv, NEW t \in Task, NEW fd \in Fd, sys_close(t, fd), UNCHANGED calls
    PROVE  FileInv'
<1>1. t \in live /\ pc[t] = "user" /\ files[t][fd] # NoFile
  BY DEF sys_close
<1>2. PICK f \in File : f = files[t][fd]
  BY <1>1 DEF FileInv, OpensOK
<1>3. file' = [file EXCEPT ![f] = [count |-> file[f].count - 1, inode |-> file[f].inode]]
  <2>1. file[f] \in [count : Nat, inode : Slots] /\ f \in DOMAIN file
    BY DEF FileInv, OpensOK
  <2>2. file' = [file EXCEPT ![f] = [file[f] EXCEPT !.count = file[f].count - 1]]
    BY <1>2, <2>1 DEF sys_close
  <2>3. [file[f] EXCEPT !.count = file[f].count - 1]
           = [count |-> file[f].count - 1, inode |-> file[f].inode]
    BY <2>1
  <2> QED BY <2>2, <2>3
<1>4. /\ files' = [files EXCEPT ![t][fd] = NoFile]
      /\ UNCHANGED <<disk, ipwd>>
      /\ \/ /\ file'[f].count = 0
            /\ Proceed(t, NoCall, "iput", <<file[f].inode>>, inode)
         \/ /\ file'[f].count # 0
            /\ Proceed(t, NoCall, "user", <<>>, inode)
  BY <1>2 DEF sys_close, Return
<1>5. CASE file'[f].count = 0
  <2>1. PICK L : L = <<file[f].inode>>
    OBVIOUS
  <2>2. Proceed(t, NoCall, "iput", L, inode)
    BY <1>4, <1>5, <2>1
  <2> QED BY <1>1, <1>2, <1>3, <1>4, <1>5, <2>1, <2>2, ClosedStep
<1>6. CASE file'[f].count # 0
  <2>1. PICK L : L = <<>>
    OBVIOUS
  <2>2. Proceed(t, NoCall, "user", L, inode)
    BY <1>4, <1>6, <2>1
  <2> QED BY <1>1, <1>2, <1>3, <1>4, <1>6, <2>1, <2>2, ClosedStep
<1> QED BY <1>5, <1>6

\* The child has every descriptor of its parent, and no other.
LEMMA SharedDescriptors ==
    ASSUME FileInv, NEW t \in Task, NEW u \in Task \ live,
           files' = [files EXCEPT ![u] = files[t]], NEW f \in File
    PROVE  /\ Cardinality({fd \in Fd : files[t][fd] = f}) \in Nat
           /\ Cardinality(Descriptors(f)')
                = Cardinality(Descriptors(f)) + Cardinality({fd \in Fd : files[t][fd] = f})
<1> DEFINE N == {fd \in Fd : files[t][fd] = f}
           New == {u} \X N
<1>1. /\ files \in [Task -> [Fd -> File \cup {NoFile}]]
      /\ \A fd \in Fd : files[u][fd] = NoFile
  BY DEF FileInv, OpensOK
<1>2. \A x \in Task, fd \in Fd : files'[x][fd] = IF x = u THEN files[t][fd] ELSE files[x][fd]
  BY <1>1
<1>3. \A fd \in Fd : files[u][fd] # f
  BY <1>1, FileSystemAssumption
<1>4. Descriptors(f)' = Descriptors(f) \cup New
  <2>1. ASSUME NEW x \in Task, NEW fd \in Fd
        PROVE  <<x, fd>> \in Descriptors(f)' <=> <<x, fd>> \in Descriptors(f) \/ <<x, fd>> \in New
    <3>1. /\ <<x, fd>> \in Descriptors(f)' <=> files'[x][fd] = f
          /\ <<x, fd>> \in Descriptors(f) <=> files[x][fd] = f
          /\ <<x, fd>> \in New <=> x = u /\ files[t][fd] = f
      BY DEF Descriptors
    <3> QED BY <1>2, <1>3, <3>1
  <2>2. ASSUME NEW y, y \in Descriptors(f)' \/ y \in Descriptors(f) \/ y \in New
        PROVE  \E x \in Task, fd \in Fd : y = <<x, fd>>
    <3>1. y \in Task \X Fd
      BY <2>2 DEF Descriptors
    <3> QED BY <3>1
  <2> HIDE DEF New
  <2>3. ASSUME NEW y PROVE y \in Descriptors(f)' <=> y \in Descriptors(f) \cup New
    <3>1. CASE \E x \in Task, fd \in Fd : y = <<x, fd>>
      BY <2>1, <3>1
    <3> QED BY <2>2, <3>1
  <2> QED BY <2>3
<1>5. Descriptors(f) \cap New = {}
  BY <1>3 DEF Descriptors
<1>6. IsFiniteSet(N)
  BY FileSystemAssumption, FS_Subset
<1>7. IsFiniteSet(New) /\ Cardinality(New) = Cardinality(N) /\ Cardinality(N) \in Nat
  <2> HIDE DEF N
  <2>1. IsFiniteSet({u}) /\ Cardinality({u}) = 1 /\ Cardinality(N) \in Nat
    BY <1>6, FS_Singleton, FS_CardinalityType
  <2>2. IsFiniteSet(New) /\ Cardinality(New) = 1 * Cardinality(N)
    BY <1>6, <2>1, FS_Product
  <2> QED BY <2>1, <2>2
<1>8. IsFiniteSet(Descriptors(f)) /\ Cardinality(Descriptors(f)) \in Nat
  BY Finite, FS_CardinalityType
<1> HIDE DEF New
<1>9. Cardinality(Descriptors(f) \cup New)
        = Cardinality(Descriptors(f)) + Cardinality(New) - Cardinality(Descriptors(f) \cap New)
  BY <1>7, <1>8, FS_Union
<1>10. Cardinality({}) = 0
  BY FS_EmptySet
<1>11. Cardinality(Descriptors(f)') = Cardinality(Descriptors(f)) + Cardinality(N)
  <2>1. Cardinality(Descriptors(f)')
          = Cardinality(Descriptors(f)) + Cardinality(New) - Cardinality({})
    BY <1>4, <1>5, <1>9
  <2> HIDE DEF N
  <2>2. PICK a \in Nat, b \in Nat : a = Cardinality(Descriptors(f)) /\ b = Cardinality(N)
    BY <1>7, <1>8
  <2> QED BY <1>7, <1>10, <2>1, <2>2
<1> QED BY <1>7, <1>11

\* Two more users, of the directory of the parent and of the root.
LEMMA CountedTwice ==
    ASSUME TableOK, NEW p \in Slots, NEW q \in Slots, inode[p].count # 0, inode[q].count # 0,
           inode' = Counted(Counted(inode, p), q)
    PROVE  /\ TableOK'
           /\ \A x \in Slots : inode'[x].count = inode[x].count + (IF x = p THEN 1 ELSE 0)
                                                  + (IF x = q THEN 1 ELSE 0)
<1>1. PICK tbl : tbl = Counted(inode, p)
  OBVIOUS
<1>2. /\ \A x \in Slots : inode[x] \in Desc
      /\ DOMAIN inode = Slots
  BY DEF TableOK, Desc
<1>3. tbl = [x \in Slots |-> [nr |-> inode[x].nr, count |-> inode[x].count + (IF x = p THEN 1 ELSE 0),
                              desc |-> inode[x].desc]]
  <2>1. tbl = [inode EXCEPT ![p] = [inode[p] EXCEPT !.count = inode[p].count + 1]]
    BY <1>1, <1>2 DEF Counted
  <2>2. [inode[p] EXCEPT !.count = inode[p].count + 1]
           = [nr |-> inode[p].nr, count |-> inode[p].count + 1, desc |-> inode[p].desc]
    BY <1>2, EditedDesc
  <2>3. \A x \in Slots : tbl[x] = IF x = p THEN [nr |-> inode[p].nr, count |-> inode[p].count + 1,
                                                 desc |-> inode[p].desc]
                                           ELSE inode[x]
    BY <1>2, <2>1, <2>2
  <2>4. \A x \in Slots : inode[x] = [nr |-> inode[x].nr, count |-> inode[x].count + 0,
                                     desc |-> inode[x].desc]
    BY <1>2 DEF Desc
  <2>5. tbl = [x \in Slots |-> tbl[x]]
    BY <1>2, <2>1
  <2> QED BY <2>3, <2>4, <2>5
<1>4. /\ \A x \in Slots : tbl[x] \in Desc
      /\ DOMAIN tbl = Slots
  BY <1>2, <1>3 DEF Desc
<1>5. inode' = [x \in Slots |-> [nr |-> tbl[x].nr, count |-> tbl[x].count + (IF x = q THEN 1 ELSE 0),
                                 desc |-> tbl[x].desc]]
  <2>1. inode' = [tbl EXCEPT ![q] = [tbl[q] EXCEPT !.count = tbl[q].count + 1]]
    BY <1>1, <1>4 DEF Counted
  <2>2. [tbl[q] EXCEPT !.count = tbl[q].count + 1]
           = [nr |-> tbl[q].nr, count |-> tbl[q].count + 1, desc |-> tbl[q].desc]
    BY <1>4, EditedDesc
  <2>3. \A x \in Slots : inode'[x] = IF x = q THEN [nr |-> tbl[q].nr, count |-> tbl[q].count + 1,
                                                    desc |-> tbl[q].desc]
                                              ELSE tbl[x]
    BY <1>4, <2>1, <2>2
  <2>4. \A x \in Slots : tbl[x] = [nr |-> tbl[x].nr, count |-> tbl[x].count + 0, desc |-> tbl[x].desc]
    <3> TAKE x \in Slots
    <3>1. tbl[x] \in Desc
      BY <1>4
    <3> QED BY <3>1 DEF Desc
  <2>5. inode' = [x \in Slots |-> inode'[x]]
    BY <1>4, <2>1
  <2>6. \A x \in Slots : inode'[x] = [nr |-> tbl[x].nr, desc |-> tbl[x].desc,
                                     count |-> tbl[x].count + (IF x = q THEN 1 ELSE 0)]
    <3> TAKE x \in Slots
    <3>1. CASE x = q
      BY ONLY <2>3, <3>1
    <3>2. CASE x # q
      BY ONLY <2>3, <2>4, <3>2
    <3> QED BY <3>1, <3>2
  <2> QED BY ONLY <2>5, <2>6
<1>6. \A x \in Slots : /\ inode'[x].nr = inode[x].nr /\ inode'[x].desc = inode[x].desc
                       /\ inode'[x].count = inode[x].count + (IF x = p THEN 1 ELSE 0)
                                              + (IF x = q THEN 1 ELSE 0)
                       /\ inode'[x].count \in Nat /\ (inode[x].count = 0 => inode'[x].count = 0)
                       /\ inode[x].count \in Nat
  BY <1>2, <1>3, <1>5 DEF Desc
<1>7. inode' \in [Slots -> [nr : Nr \cup {0, RootNr}, count : Nat, desc : Nr \cup {0, RootNr}]]
  BY <1>4, <1>5 DEF Desc
<1>8. inode'[Root].nr = RootNr /\ \A s \in Inode : inode'[s].nr # RootNr /\ inode'[s].desc # RootNr
  BY <1>6 DEF TableOK, Slots
<1>9. OneDescriptor'
  <2>1. \A x, y \in Slots : x # y /\ inode[x].count > 0 /\ inode[y].count > 0
           => inode[x].nr # inode[y].nr \/ inode[x].nr = 0
    BY DEF TableOK, OneDescriptor, Slots
  <2>2. \A x \in Slots : inode'[x].count > 0 => inode[x].count > 0
    BY <1>6
  <2>3. \A x, y \in Slots : x # y /\ inode'[x].count > 0 /\ inode'[y].count > 0
           => inode'[x].nr # inode'[y].nr \/ inode'[x].nr = 0
    BY <1>6, <2>1, <2>2
  <2> QED BY <2>3 DEF OneDescriptor, Slots
<1> QED BY <1>6, <1>7, <1>8, <1>9 DEF TableOK

\* task_fork: the child shares the files, the directory and the root.
LEMMA ForkStep ==
    ASSUME FileInv, NEW t \in Task, NEW u \in Task, task_fork(t, u)
    PROVE  FileInv'
<1>1. /\ t \in live /\ u \notin live /\ live' = live \cup {u}
      /\ files' = [files EXCEPT ![u] = files[t]]
      /\ ipwd' = [ipwd EXCEPT ![u] = ipwd[t]]
      /\ inode' = Counted(Counted(inode, ipwd[t]), Root)
      /\ UNCHANGED <<calls, pc, call, held, disk, stopped>>
  BY DEF task_fork
<1>2. /\ TableOK /\ CallsOK /\ live \subseteq Task
      /\ file \in [File -> [count : Nat, inode : Slots]]
      /\ files \in [Task -> [Fd -> File \cup {NoFile}]] /\ ipwd \in [Task -> Slots]
  BY DEF FileInv, OpensOK, CallsOK
<1>3. DiskOK' /\ calls' \in 0..MaxCalls /\ stopped' \in BOOLEAN
  BY <1>1, SameDisk DEF FileInv
<1>4. CallsOK'
  BY <1>1, <1>2 DEF CallsOK
<1>5. PICK p \in Slots : p = ipwd[t]
  BY <1>2
<1>6. inode[p].count # 0
  <2>1. t \in WorksIn(p) /\ IsFiniteSet(WorksIn(p))
    BY <1>1, <1>2, <1>5, Finite DEF WorksIn
  <2>2. Cardinality(WorksIn(p)) # 0
    BY <2>1, FS_EmptySet
  <2>3. PICK h \in Nat, o \in Nat, w \in Nat, r \in Nat, d \in Nat :
           d = inode[p].count /\ d = h + o + w + r /\ w = Cardinality(WorksIn(p))
    BY SlotSum
  <2>4. w # 0
    BY <2>2, <2>3
  <2>5. d # 0
    <3>1. d = h + o + w + r
      BY ONLY <2>3
    <3> QED BY ONLY <2>4, <3>1, h \in Nat, o \in Nat, w \in Nat, r \in Nat, d \in Nat
  <2>6. inode[p].count = d
    BY ONLY <2>3
  <2> QED BY ONLY <2>5, <2>6
<1>7. /\ TableOK'
      /\ \A x \in Slots : inode'[x].count = inode[x].count + (IF x = p THEN 1 ELSE 0)
                                              + (IF x = Root THEN 1 ELSE 0)
  BY <1>1, <1>2, <1>5, <1>6, RootUsed, CountedTwice
<1>8. ASSUME NEW f \in File
      PROVE  /\ file'[f].count \in Nat /\ file'[f].count = Cardinality(Descriptors(f)')
             /\ file'[f].inode = file[f].inode
             /\ file'[f].count > 0 <=> file[f].count > 0
             /\ file'[f] \in [count : Nat, inode : Slots]
  <2>1. PICK n : n = Cardinality({fd \in Fd : files[t][fd] = f})
    OBVIOUS
  <2>2. n \in Nat /\ Cardinality(Descriptors(f)') = Cardinality(Descriptors(f)) + n
    BY <1>1, <2>1, SharedDescriptors
  <2>3. file[f] \in [count : Nat, inode : Slots] /\ file[f].count = Cardinality(Descriptors(f))
    BY <1>2 DEF FileInv, CountsReferences
  <2>4. file'[f] = [file[f] EXCEPT !.count = file[f].count + n]
    BY <2>1 DEF task_fork
  <2>5. [file[f] EXCEPT !.count = file[f].count + n]
           = [count |-> file[f].count + n, inode |-> file[f].inode]
    BY <2>3
  <2>6. file[f].count = 0 => n = 0
    <3>1. ASSUME file[f].count = 0, NEW fd \in Fd, files[t][fd] = f PROVE FALSE
      BY <3>1, FileUsed
    <3>2. ASSUME file[f].count = 0 PROVE {fd \in Fd : files[t][fd] = f} = {}
      BY <3>1, <3>2
    <3> QED BY <2>1, <3>2, FS_EmptySet
  <2>7. PICK m \in Nat : m = file[f].count
    BY <2>3
  <2>8. m + n \in Nat /\ (m + n > 0 <=> m > 0)
    BY <2>2, <2>6, <2>7
  <2> QED BY <2>2, <2>3, <2>4, <2>5, <2>7, <2>8
<1>9. OpensOK'
  <2>1. file' \in [File -> [count : Nat, inode : Slots]]
    <3>1. file' = [f \in File |-> file'[f]]
      BY DEF task_fork
    <3> QED BY <1>8, <3>1
  <2>2. files' \in [Task -> [Fd -> File \cup {NoFile}]] /\ ipwd' \in [Task -> Slots]
    BY <1>1, <1>2
  <2>3. \A x \in Task \ live', fd \in Fd : files'[x][fd] = NoFile
    BY <1>1, <1>2 DEF FileInv, OpensOK
  <2> QED BY <2>1, <2>2, <2>3 DEF OpensOK
<1>10. ASSUME NEW x \in Slots
      PROVE  inode'[x].count = Cardinality(Holds(x)') + Cardinality(OpenOn(x)')
                                 + Cardinality(WorksIn(x)') + Roots(x)'
  <2>1. Holds(x)' = Holds(x)
    BY <1>1 DEF Holds
  <2>2. OpenOn(x)' = OpenOn(x)
    BY <1>8 DEF OpenOn
  <2>3. PICK a \in Nat, b \in Nat :
           /\ a = (IF x = p THEN 1 ELSE 0)
           /\ b = (IF x = Root THEN 1 ELSE 0)
    OBVIOUS
  <2>4. /\ Cardinality(WorksIn(x)') \in Nat
        /\ Cardinality(WorksIn(x)') + 0 = Cardinality(WorksIn(x)) + a
    <3>1. \A y : y # u => (y \in WorksIn(x) <=> y \in WorksIn(x)')
      BY <1>1, <1>2 DEF WorksIn
    <3>2. u \notin WorksIn(x)
      BY <1>1 DEF WorksIn
    <3>3. u \in WorksIn(x)' <=> x = p
      BY <1>1, <1>2, <1>5 DEF WorksIn
    <3>4. IsFiniteSet(WorksIn(x))
      BY <1>2, Finite
    <3>5. /\ Cardinality(WorksIn(x)') \in Nat
          /\ Cardinality(WorksIn(x)') + (IF u \in WorksIn(x) THEN 1 ELSE 0)
               = Cardinality(WorksIn(x)) + (IF u \in WorksIn(x)' THEN 1 ELSE 0)
      BY <3>1, <3>4, ChangeAt
    <3> QED BY <2>3, <3>2, <3>3, <3>5
  <2>5. Roots(x)' = Roots(x) + b
    <3>1. IsFiniteSet(live) /\ Cardinality(live) \in Nat
      BY <1>2, Finite, FS_CardinalityType
    <3>2. Cardinality(live') = Cardinality(live) + 1
      BY <1>1, <3>1, FS_AddElement
    <3> QED BY <2>3, <3>1, <3>2 DEF Roots
  <2>6. PICK d \in Nat, h \in Nat, o \in Nat, w \in Nat, v \in Nat, r \in Nat :
           /\ d = inode[x].count
           /\ h = Cardinality(Holds(x)) /\ o = Cardinality(OpenOn(x)) /\ r = Roots(x)
           /\ w = Cardinality(WorksIn(x)) /\ v = Cardinality(WorksIn(x)')
    BY <2>4, SlotSum
  <2>7. d = h + o + w + r /\ v + 0 = w + a /\ inode'[x].count = d + a + b
    BY <1>7, <2>3, <2>4, <2>6, SlotSum
  <2>8. d + a + b = h + o + v + (r + b)
    BY ONLY <2>7, a \in Nat, b \in Nat, d \in Nat, h \in Nat, o \in Nat, w \in Nat, v \in Nat, r \in Nat
  <2> QED BY <2>1, <2>2, <2>5, <2>6, <2>7, <2>8
<1>11. CountsReferences'
  BY <1>8, <1>10 DEF CountsReferences, Slots
<1> QED BY <1>3, <1>4, <1>7, <1>9, <1>11 DEF FileInv

\* The root has four users at first, the other slots none.
LEMMA InitFileInv == FileSystemInit => FileInv
<1> SUFFICES ASSUME FileSystemInit PROVE FileInv
  OBVIOUS
<1> USE DEF FileSystemInit
<1>1. DiskOK
  <2>1. Len(<<>>) = 0 /\ 0 <= MaxEntries
    BY FileSystemAssumption
  <2>2. Len(entries) <= MaxEntries
    BY <2>1
  <2> QED BY <2>2 DEF DiskOK
<1>2. CallsOK
  <2>1. Fits(<<>>, NoCall, "user") /\ CallFits(NoCall, "user") /\ "user" \in Label
    BY NoneEnds
  <2> QED BY <2>1, FileSystemAssumption DEF CallsOK
<1>3. TableOK
  <2>1. \A s \in Slots : inode[s] = IF s = Root THEN [nr |-> RootNr, count |-> 4, desc |-> RootNr]
                                               ELSE NoInode
    BY DEF Slots
  <2>2. inode \in [Slots -> [nr : Nr \cup {0, RootNr}, count : Nat, desc : Nr \cup {0, RootNr}]]
    BY DEF Slots, NoInode
  <2>3. \A s \in Inode : s # Root /\ s \in Slots
    BY FileSystemAssumption DEF Slots
  <2>4. /\ inode[Root].nr = RootNr
        /\ \A s \in Inode : inode[s].nr # RootNr /\ inode[s].desc # RootNr
    BY <2>1, <2>3, FileSystemAssumption DEF Slots, NoInode
  <2>5. OneDescriptor
    BY <2>1 DEF OneDescriptor, Slots, NoInode
  <2> QED BY <2>2, <2>4, <2>5 DEF TableOK
<1>4. OpensOK
  BY DEF OpensOK, Slots
<1>5. CountsReferences
  <2>1. ASSUME NEW s \in Slots
        PROVE  inode[s].count = Cardinality(Holds(s)) + Cardinality(OpenOn(s))
                                  + Cardinality(WorksIn(s)) + Roots(s)
    <3>1. Holds(s) = {}
      BY DEF Holds
    <3>2. OpenOn(s) = {}
      BY DEF OpenOn
    <3>3. WorksIn(s) = IF s = Root THEN {InitTask} ELSE {}
      <4>1. ipwd[InitTask] = Root
        BY FileSystemAssumption
      <4> QED BY <4>1 DEF WorksIn
    <3>4. Cardinality({}) = 0 /\ Cardinality({InitTask}) = 1
      BY FS_EmptySet, FS_Singleton
    <3>5. Cardinality(live) = 1
      BY <3>4
    <3>6. CASE s = Root
      <4>1. inode[s].count = 4
        BY <3>6 DEF Slots
      <4> QED BY <3>1, <3>2, <3>3, <3>4, <3>5, <3>6, <4>1 DEF Roots
    <3>7. CASE s # Root
      <4>1. inode[s].count = 0
        BY <3>7 DEF Slots, NoInode
      <4> QED BY <3>1, <3>2, <3>3, <3>4, <3>7, <4>1 DEF Roots
    <3> QED BY <3>6, <3>7
  <2>2. ASSUME NEW f \in File PROVE file[f].count = Cardinality(Descriptors(f))
    <3>1. Descriptors(f) = {}
      BY FileSystemAssumption DEF Descriptors
    <3> QED BY <3>1, FS_EmptySet
  <2> QED BY <2>1, <2>2 DEF CountsReferences, Slots
<1>6. 0 \in 0..MaxCalls
  BY ONLY FileSystemAssumption
<1>7. calls \in 0..MaxCalls /\ stopped \in BOOLEAN
  BY <1>6
<1> QED BY <1>1, <1>2, <1>3, <1>4, <1>5, <1>7 DEF FileInv

\* FileInv is inductive.
LEMMA StepFileInv == FileInv /\ [FileSystemNext]_vars => FileInv'
<1> SUFFICES ASSUME FileInv, [FileSystemNext]_vars PROVE FileInv'
  OBVIOUS
<1>1. CASE UNCHANGED vars
  <2> USE <1>1 DEF vars, disk, opens
  <2>1. DiskOK' /\ CallsOK' /\ OpensOK'
    BY DEF FileInv, DiskOK, CallsOK, OpensOK
  <2>2. TableOK'
    BY SameTable DEF FileInv
  <2>3. CountsReferences'
    BY DEF FileInv, CountsReferences, Holds, OpenOn, WorksIn, Roots, Descriptors
  <2> QED BY <2>1, <2>2, <2>3 DEF FileInv
<1>2. CASE FileSystemNext
  <2> PICK t \in Task :
         \/ \E o \in Op \ {"link"}, n \in Name : named(t, o, n, n)
         \/ \E n \in Name, m \in Name : named(t, "link", n, m)
         \/ Resume(t) /\ UNCHANGED calls
         \/ \E fd \in Fd : sys_close(t, fd) /\ UNCHANGED calls
         \/ \E u \in Task : task_fork(t, u)
    BY <1>2 DEF FileSystemNext
  <2>1. CASE \E o \in Op \ {"link"}, n \in Name : named(t, o, n, n)
    BY <2>1, NamedStep
  <2>2. CASE \E n \in Name, m \in Name : named(t, "link", n, m)
    BY <2>2, NamedStep DEF Op
  <2>3. CASE Resume(t) /\ UNCHANGED calls
    BY <2>3, FindStep, IgetDoneStep, NameiDoneStep, FindNewStep, AddEntryStep,
       AddEntrySlotStep, IallocDoneStep, IgetNewDoneStep, IsEmptyStep, IfreeStep,
       RmdirDoneStep, SysOpenStep, IputStep, Zenon DEF Resume
  <2>4. CASE \E fd \in Fd : sys_close(t, fd) /\ UNCHANGED calls
    BY <2>4, SysCloseStep
  <2>5. CASE \E u \in Task : task_fork(t, u)
    BY <2>5, ForkStep
  <2> QED BY <2>1, <2>2, <2>3, <2>4, <2>5
<1> QED BY <1>1, <1>2

\* The type invariant of the runs is a part of FileInv.
LEMMA FileInvTypes == FileInv => FileSystemTypeOK
BY DEF FileInv, DiskOK, CallsOK, CallFits, TableOK, OpensOK, FileSystemTypeOK, Label, Slots

\* The invariant of the theorems below.
LEMMA FileInvHolds == FileSystemSpec => []FileInv
BY InitFileInv, StepFileInv, PTL DEF FileSystemSpec

(***************************************************************************)
(* The variables have their types; in particular no link count leaves the  *)
(* width of its byte (the subtraction in sys_unlink wraps), and a call has *)
(* its local variables from the first wait of its code to the last.        *)
(***************************************************************************)
THEOREM FilesTypes == FileSystemSpec => []FileSystemTypeOK
BY FileInvHolds, FileInvTypes, PTL

(***************************************************************************)
(* inode->count (iget, iput) is the number of calls, open files and        *)
(* processes that use the slot, and file->count (task_fork, put_file) the  *)
(* number of descriptors, wherever the calls of all processes are waiting. *)
(***************************************************************************)
THEOREM FilesCounted == FileSystemSpec => []CountsReferences
<1>1. FileInv => CountsReferences
  BY DEF FileInv
<1> QED BY <1>1, FileInvHolds, PTL

(***************************************************************************)
(* iget never lists an inode in a second slot while the first is in use,   *)
(* although it waits for the disk between the search and the answer.       *)
(***************************************************************************)
THEOREM FilesOneDescriptor == FileSystemSpec => []OneDescriptor
<1>1. FileInv => OneDescriptor
  BY DEF FileInv, TableOK
<1> QED BY <1>1, FileInvHolds, PTL
=============================================================================
