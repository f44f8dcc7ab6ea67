----------------------------- MODULE ZoneProofs -----------------------------
(***************************************************************************)
(* Theorems about Zone, for every number of tasks, files, slots and        *)
(* indexes.  TypesInv says where every call is, TreeInv whose every block  *)
(* is, and WritesInv what the calls that write have left in their files.   *)
(* The last two need that a block comes empty out of balloc (Zeroed), that *)
(* calls do not share a file (~Sharing), and that balloc and bfree agree   *)
(* on the bit of a block (OneMap).                                         *)
(***************************************************************************)
EXTENDS Zone, FiniteSetTheorems, WellFoundedInduction, TLAPS

LEMMA Division ==
    ASSUME NEW p \in Nat, NEW n \in Nat \ {0}
    PROVE  /\ p \div n \in Nat /\ p % n \in 0..(n - 1)
           /\ p = n * (p \div n) + (p % n)
OBVIOUS

LEMMA Quotient ==
    ASSUME NEW p \in Nat, NEW n \in Nat \ {0}, NEW q \in Nat, p < n * q
    PROVE  p \div n < q
<1>1. PICK d \in Nat, r \in Nat : d = p \div n /\ r = p % n /\ p = n * d + r
  <2>1. /\ p \div n \in Nat /\ p % n \in Nat
        /\ p = n * (p \div n) + (p % n)
    OBVIOUS
  <2> QED BY ONLY <2>1
<1>2. ASSUME d >= q PROVE FALSE
  <2>1. n * q <= n * d
    BY ONLY <1>2, <1>1, n \in Nat, q \in Nat, d \in Nat
  <2> QED BY ONLY <2>1, <1>1, p < n * q, n \in Nat, q \in Nat, d \in Nat, r \in Nat, p \in Nat
<1> QED BY <1>1, <1>2

LEMMA SameQuotient ==
    ASSUME NEW p \in Nat, NEW n \in Nat \ {0}, NEW i \in 0..(n - 1), NEW d \in Nat, p = n * d + i
    PROVE  p \div n = d /\ p % n = i
<1>1. PICK e \in Nat, j \in 0..(n - 1) : e = p \div n /\ j = p % n /\ p = n * e + j
  BY Division
<1>2. n * d + i = n * e + j
  BY <1>1
<1>3. ASSUME d < e PROVE FALSE
  <2>1. n * (d + 1) <= n * e
    BY ONLY <1>3, n \in Nat, d \in Nat, e \in Nat
  <2>2. n * (d + 1) = n * d + n
    BY ONLY n \in Nat, d \in Nat
  <2>3. PICK a \in Int, b \in Int : a = n * d /\ b = n * e
    OBVIOUS
  <2> QED BY ONLY <2>1, <2>2, <2>3, <1>2, i \in 0..(n - 1), j \in 0..(n - 1), n \in Nat
<1>4. ASSUME e < d PROVE FALSE
  <2>1. n * (e + 1) <= n * d
    BY ONLY <1>4, n \in Nat, d \in Nat, e \in Nat
  <2>2. n * (e + 1) = n * e + n
    BY ONLY n \in Nat, e \in Nat
  <2>3. PICK a \in Int, b \in Int : a = n * d /\ b = n * e
    OBVIOUS
  <2> QED BY ONLY <2>1, <2>2, <2>3, <1>2, i \in 0..(n - 1), j \in 0..(n - 1), n \in Nat
<1> QED BY <1>1, <1>2, <1>3, <1>4

\* What the places and visits look like.
LEMMA Constants ==
    /\ Direct \in Nat /\ Indexes \in Nat \ {0} /\ None = -1
    /\ Slot = 0..(Direct + 1) /\ Cells = 0..(Indexes - 1)
BY ZoneAssumption DEF Slot, Cells, None

LEMMA Shapes ==
    ASSUME NEW v \in Visits
    PROVE  /\ v = <<v[1], v[2], v[3]>>
           /\ v[1] \in Slot /\ v[2] \in -1..Indexes /\ v[3] \in -1..Indexes
           /\ v[2] = None => v[3] = None
           /\ v[1] < Direct => v[2] = None
           /\ v[3] # None => v[1] = Direct + 1 /\ v[2] \in Cells
           /\ v \in Leaf <=> \/ v[1] < Direct
                             \/ v[1] = Direct /\ v[2] \in Cells
                             \/ v[1] = Direct + 1 /\ v[3] \in Cells
           /\ v \in IndexPlace <=> \/ v[1] >= Direct /\ v[2] = None
                                   \/ v[1] = Direct + 1 /\ v[2] \in Cells /\ v[3] = None
           /\ v \in Leaving <=> v[2] = Indexes \/ v[3] = Indexes
<1> USE Constants
<1>1. CASE v \in Leaf
  <2>1. PICK a \in Slot, b \in {None} \cup Cells, c \in {None} \cup Cells :
           /\ v = <<a, b, c>>
           /\ \/ a < Direct /\ b = None /\ c = None
              \/ a = Direct /\ b \in Cells /\ c = None
              \/ a = Direct + 1 /\ b \in Cells /\ c \in Cells
    BY <1>1 DEF Leaf
  <2> QED BY <1>1, <2>1 DEF Leaf, IndexPlace, Leaving
<1>2. CASE v \in IndexPlace
  <2>1. PICK a \in Slot, b \in {None} \cup Cells :
           /\ v = <<a, b, None>>
           /\ \/ a >= Direct /\ b = None
              \/ a = Direct + 1 /\ b \in Cells
    BY <1>2 DEF IndexPlace
  <2> QED BY <1>2, <2>1 DEF Leaf, IndexPlace, Leaving
<1>3. CASE v \in Leaving
  <2>1. PICK a \in Slot, b \in Cells \cup {Indexes}, c \in {None, Indexes} :
           /\ v = <<a, b, c>>
           /\ \/ a >= Direct /\ b = Indexes /\ c = None
              \/ a = Direct + 1 /\ b \in Cells /\ c = Indexes
    BY <1>3 DEF Leaving
  <2> QED BY <1>3, <2>1 DEF Leaf, IndexPlace, Leaving
<1> QED BY <1>1, <1>2, <1>3 DEF Visits

LEMMA MakeVisit ==
    ASSUME NEW a, NEW b, NEW c
    PROVE  /\ a \in Slot => <<a, None, None>> \in Leaf \cup IndexPlace
           /\ a \in {Direct, Direct + 1} => /\ <<a, None, None>> \in IndexPlace
                                            /\ <<a, Indexes, None>> \in Leaving
           /\ b \in Cells => /\ <<Direct, b, None>> \in Leaf
                             /\ <<Direct + 1, b, None>> \in IndexPlace
                             /\ <<Direct + 1, b, Indexes>> \in Leaving
                             /\ c \in Cells => <<Direct + 1, b, c>> \in Leaf
BY Constants DEF Leaf, IndexPlace, Leaving

LEMMA PlaceIs ==
    ASSUME NEW v \in Visits
    PROVE  /\ PlaceOf(v) \in Leaf \cup IndexPlace
           /\ v \notin Leaving => PlaceOf(v) = v
           /\ v \in Leaving => PlaceOf(v) \in IndexPlace
           /\ PlaceOf(v) \in Leaf => v \in Leaf
           /\ PlaceOf(v)[1] = v[1]
           /\ PlaceOf(v)[2] = None <=> v[2] = None \/ v[2] = Indexes
           /\ PlaceOf(v)[2] # None => PlaceOf(v)[2] = v[2]
           /\ PlaceOf(v)[3] = IF v[3] = Indexes THEN None ELSE v[3]
<1> USE Constants
<1>1. PICK a, b, c : v = <<a, b, c>> /\ a = v[1] /\ b = v[2] /\ c = v[3]
  BY Shapes
<1>2. CASE c = Indexes
  <2>1. a = Direct + 1 /\ b \in Cells /\ v \in Leaving /\ v \notin Leaf
    BY <1>1, <1>2, Shapes
  <2>2. PlaceOf(v) = <<a, b, None>> /\ PlaceOf(v) \in IndexPlace
    BY <1>1, <1>2, <2>1, MakeVisit DEF PlaceOf
  <2>3. PlaceOf(v) \notin Leaf
    BY <2>1, <2>2, Shapes DEF Visits
  <2> QED BY <1>1, <1>2, <2>1, <2>2, <2>3
<1>3. CASE c # Indexes /\ b = Indexes
  <2>1. a \in {Direct, Direct + 1} /\ v \in Leaving /\ v \notin Leaf /\ c = None
    BY <1>1, <1>3, Shapes
  <2>2. PlaceOf(v) = <<a, None, None>> /\ PlaceOf(v) \in IndexPlace
    BY <1>1, <1>3, <2>1, MakeVisit DEF PlaceOf
  <2>3. PlaceOf(v) \notin Leaf
    BY <2>1, <2>2, Shapes DEF Visits
  <2> QED BY <1>1, <1>3, <2>1, <2>2, <2>3
<1>4. CASE c # Indexes /\ b # Indexes
  <2>1. PlaceOf(v) = v /\ v \notin Leaving
    BY <1>1, <1>4, Shapes DEF PlaceOf
  <2>2. v \in Leaf \cup IndexPlace
    BY <2>1 DEF Visits
  <2> QED BY <1>1, <1>4, <2>1, <2>2
<1> QED BY <1>2, <1>3, <1>4

\* Where the blocks of a file are, and that no two are at one place.
LEMMA PathIs ==
    ASSUME NEW k \in 0..(Direct + Indexes + Indexes * Indexes - 1)
    PROVE  Path(k) \in Leaf
<1> USE Constants
<1>1. CASE k < Direct
  BY <1>1 DEF Path, Leaf
<1>2. CASE k >= Direct /\ k - Direct < Indexes
  <2>1. PICK j \in Cells : j = k - Direct
    BY <1>2
  <2>2. Path(k) = <<Direct, j, None>>
    BY <1>2, <2>1 DEF Path
  <2> QED BY <2>2, MakeVisit
<1>3. CASE k >= Direct /\ k - Direct >= Indexes
  <2>1. PICK q \in Nat : q = k - Direct - Indexes
    BY <1>3
  <2>2. q < Indexes * Indexes
    <3>1. PICK sq \in Int : sq = Indexes * Indexes
      OBVIOUS
    <3> QED BY <2>1, <3>1
  <2>3. q \div Indexes \in Nat /\ q % Indexes \in Cells
    <3>1. Indexes \in Nat \ {0} /\ Cells = 0..(Indexes - 1)
      OBVIOUS
    <3> QED BY ONLY <3>1, q \in Nat
  <2>4. q \div Indexes < Indexes
    BY <2>2, Quotient
  <2>5. Path(k) = <<Direct + 1, q \div Indexes, q % Indexes>>
    BY <1>3, <2>1 DEF Path
  <2>6. q \div Indexes \in Cells
    BY <2>3, <2>4
  <2> QED BY <2>3, <2>5, <2>6, MakeVisit
<1> QED BY <1>1, <1>2, <1>3

LEMMA PathCases ==
    ASSUME NEW k \in Nat
    PROVE  /\ k < Direct => Path(k) = <<k, None, None>>
           /\ k >= Direct /\ k < Direct + Indexes => Path(k) = <<Direct, k - Direct, None>>
           /\ k >= Direct + Indexes =>
                Path(k) = <<Direct + 1, (k - Direct - Indexes) \div Indexes,
                            (k - Direct - Indexes) % Indexes>>
<1> DEFINE q == (k - Direct - Indexes) \div Indexes
           r == (k - Direct - Indexes) % Indexes
<1>1. Path(k) = IF k < Direct THEN <<k, None, None>>
                ELSE IF k - Direct < Indexes THEN <<Direct, k - Direct, None>>
                ELSE <<Direct + 1, q, r>>
  BY DEF Path
<1> HIDE DEF q, r
<1>2. k < Direct => Path(k) = <<k, None, None>>
  BY <1>1
<1>3. k >= Direct /\ k < Direct + Indexes => Path(k) = <<Direct, k - Direct, None>>
  BY <1>1, Constants
<1>4. k >= Direct + Indexes => Path(k) = <<Direct + 1, q, r>>
  BY <1>1, Constants
<1> QED BY <1>2, <1>3, <1>4 DEF q, r

LEMMA PathInjective ==
    ASSUME NEW k \in Nat, NEW l \in Nat, Path(k) = Path(l)
    PROVE  k = l
<1> USE Constants
<1>1. CASE k < Direct \/ l < Direct
  <2>1. \A n \in Nat : n >= Direct => Path(n)[1] \in {Direct, Direct + 1}
    BY PathCases
  <2> QED BY <1>1, <2>1, PathCases
<1>2. CASE k >= Direct /\ l >= Direct /\ (k < Direct + Indexes \/ l < Direct + Indexes)
  BY <1>2, PathCases
<1>3. CASE k >= Direct + Indexes /\ l >= Direct + Indexes
  <2>1. PICK q \in Nat, r \in Nat : q = k - Direct - Indexes /\ r = l - Direct - Indexes
    BY <1>3
  <2>2. /\ Path(k) = <<Direct + 1, q \div Indexes, q % Indexes>>
        /\ Path(l) = <<Direct + 1, r \div Indexes, r % Indexes>>
    <3>1. /\ Path(k) = <<Direct + 1, (k - Direct - Indexes) \div Indexes, (k - Direct - Indexes) % Indexes>>
          /\ Path(l) = <<Direct + 1, (l - Direct - Indexes) \div Indexes, (l - Direct - Indexes) % Indexes>>
      BY <1>3, PathCases
    <3> DEFINE Two(x) == <<Direct + 1, x \div Indexes, x % Indexes>>
    <3>2. Path(k) = Two(k - Direct - Indexes) /\ Path(l) = Two(l - Direct - Indexes)
      BY ONLY <3>1 DEF Two
    <3> HIDE DEF Two
    <3>3. Path(k) = Two(q) /\ Path(l) = Two(r)
      BY ONLY <2>1, <3>2
    <3> QED BY ONLY <3>3 DEF Two
  <2>3. q \div Indexes = r \div Indexes /\ q % Indexes = r % Indexes
    <3>1. PICK a, b, c, d : /\ a = q \div Indexes /\ b = q % Indexes
                            /\ c = r \div Indexes /\ d = r % Indexes
      OBVIOUS
    <3>2. <<Direct + 1, a, b>> = <<Direct + 1, c, d>>
      BY ONLY <2>2, <3>1, Path(k) = Path(l)
    <3>3. a = c /\ b = d
      BY ONLY <3>2
    <3> QED BY ONLY <3>1, <3>3
  <2>4. q = Indexes * (q \div Indexes) + (q % Indexes) /\ r = Indexes * (r \div Indexes) + (r % Indexes)
    <3>1. Indexes \in Nat \ {0}
      OBVIOUS
    <3> QED BY ONLY <3>1, q \in Nat, r \in Nat
  <2>5. q = r
    BY ONLY <2>3, <2>4
  <2> QED BY <2>1, <2>5
<1> QED BY <1>1, <1>2, <1>3

LEMMA BlockOf ==
    ASSUME NEW p \in 0..(MaxSize - 1)
    PROVE  /\ p \div Indexes \in 0..(Direct + Indexes + Indexes * Indexes - 1)
           /\ p % Indexes \in Cells
           /\ p = Indexes * (p \div Indexes) + (p % Indexes)
           /\ Path(p \div Indexes) \in Leaf
<1> USE Constants
<1>1. PICK q \in Nat : q = Direct + Indexes + Indexes * Indexes
  OBVIOUS
<1>2. p \in Nat /\ p < Indexes * q
  BY <1>1, ZoneAssumption
<1>3. p \div Indexes \in Nat /\ p \div Indexes < q
  BY <1>2, Quotient, Division
<1>4. p \div Indexes \in 0..(Direct + Indexes + Indexes * Indexes - 1)
  BY <1>1, <1>3
<1> QED BY <1>2, <1>4, Division, PathIs

(***************************************************************************)
(* Where bmap is in the tree, and how far inode_truncate is, agrees with   *)
(* the place a call waits at.                                              *)
(***************************************************************************)
Locating == {"balloc", "release", "index", "data"}

TransferOK(c, label) ==
    /\ c \in Transfer /\ label \in Locating \cup {"written", "sync"}
    /\ c.from <= c.pos /\ c.pos <= c.to /\ c.to <= MaxSize
    /\ label \in Locating => c.pos < c.to /\ Index(c) # None /\ (c.depth = 1 <=> c.at = 0)

TruncationOK(c, label) ==
    /\ c \in Truncation /\ label \in {"enter", "bfree", "sync"}
    /\ label = "enter" => c.visit \in IndexPlace /\ c.nr \in Block
    /\ label = "bfree" => c.visit \in Leaf \cup Leaving

CallOK(c, label) ==
    \/ label = "user" /\ c = NoCall
    \/ TransferOK(c, label)
    \/ TruncationOK(c, label)

CallsInv == /\ pc \in [Task -> {"user", "balloc", "release", "index", "data", "written",
                                "enter", "bfree", "sync"}]
            /\ call \in [Task -> Transfer \cup Truncation \cup {NoCall}]
            /\ \A t \in Task : CallOK(call[t], pc[t])

DiskInv == /\ zmap \subseteq Bit
           /\ zone \in [Inode -> [Slot -> Nat]]
           /\ size \in [Inode -> 0..MaxSize]
           /\ content \in [Block -> [Cells -> Nat]]
           /\ offset \in [Inode -> Nat]

\* The types of the variables, with the places that calls have come to.
TypesInv == /\ CallsInv /\ DiskInv
            /\ calls \in 0..MaxCalls
            /\ stopped \in {"no", "full", "unmarked", "hole", "garbage"}

LEMMA CallKinds ==
    /\ NoCall \notin Transfer \cup Truncation
    /\ \A c \in Transfer : c.op \in {"read", "write"} /\ c.inode \in Inode
    /\ \A c \in Truncation : c.op = "truncate" /\ c.inode \in Inode
    /\ Transfer \cap Truncation = {}
    /\ NoCall.op = "none"
BY DEF NoCall, Transfer, Truncation

LEMMA TypesInvType == TypesInv => ZoneTypeOK
<1> SUFFICES ASSUME TypesInv PROVE ZoneTypeOK
  OBVIOUS
<1>1. ASSUME NEW t \in Task PROVE pc[t] = "user" <=> call[t] = NoCall
  BY CallKinds DEF TypesInv, CallsInv, CallOK, TransferOK, TruncationOK, Locating
<1> QED BY <1>1 DEF TypesInv, CallsInv, DiskInv, ZoneTypeOK

\* Blocks have numbers of the disk, and none the number 0.
LEMMA BlocksAre ==
    /\ Block \subseteq Nat \ {0}
    /\ \A b \in Bit : NumberOf(b) \in Nat /\ b[1] \in Nat /\ b[2] \in Nat
    /\ \A b \in Bit : b[1] * Stride + FirstZone - 1 + b[2] \in Nat
<1>1. ASSUME NEW b \in Bit
      PROVE  /\ b[1] \in Nat /\ b[2] \in Nat
             /\ NumberOf(b) \in Nat /\ NumberOf(b) >= FirstZone - 1
             /\ b[1] * Stride + FirstZone - 1 + b[2] \in Nat
  <2>1. b[1] \in Nat /\ b[2] \in Nat
    BY ZoneAssumption DEF Bit
  <2>2. /\ BlockBits \in Nat /\ Stride \in Nat /\ FirstZone \in Nat /\ FirstZone >= 1
    BY ZoneAssumption
  <2>3. PICK m \in Nat, n \in Nat : m = b[1] * BlockBits /\ n = b[1] * Stride
    BY <2>1, <2>2
  <2> QED BY <2>1, <2>2, <2>3 DEF NumberOf
<1>2. ASSUME NEW n \in Block PROVE n \in Nat \ {0}
  <2>1. PICK b \in Bit : n = NumberOf(b) /\ n # FirstZone - 1
    BY DEF Block
  <2> QED BY <1>1, <2>1, ZoneAssumption
<1> QED BY <1>1, <1>2

-----------------------------------------------------------------------------
\* bmap looks its index up in the array it has come to.
LEMMA TargetIs ==
    ASSUME NEW c, NEW label \in Locating, TransferOK(c, label)
    PROVE  /\ c \in Transfer /\ c.pos \in 0..(MaxSize - 1)
           /\ c.pos \div Indexes \in 0..(Direct + Indexes + Indexes * Indexes - 1)
           /\ Path(c.pos \div Indexes) \in Leaf
<1>1. c \in Transfer /\ c.pos \in 0..(MaxSize - 1)
  <2>1. /\ c \in Transfer /\ c.pos \in Nat /\ c.to \in Nat /\ c.pos < c.to /\ c.to <= MaxSize
    BY DEF TransferOK, Transfer
  <2> QED BY ONLY <2>1, ZoneAssumption
<1> QED BY <1>1, BlockOf

LEMMA IndexIs ==
    ASSUME NEW c, NEW label \in Locating, TransferOK(c, label)
    PROVE  /\ c.depth = 1 => c.at = 0 /\ Index(c) \in Slot
           /\ c.depth # 1 => c.at \in Block /\ c.at # 0 /\ Index(c) \in Cells
<1>1. PICK p \in Leaf : p = Path(c.pos \div Indexes)
  BY TargetIs
<1>2. /\ c.depth \in 1..3 /\ c.at \in Block \cup {0} /\ Index(c) = p[c.depth]
      /\ Index(c) # None /\ (c.depth = 1 <=> c.at = 0)
  BY <1>1 DEF TransferOK, Transfer, Index
<1>3. p[1] \in Slot /\ p[2] \in {None} \cup Cells /\ p[3] \in {None} \cup Cells
  BY <1>1, Constants DEF Leaf
<1>4. CASE c.depth = 1
  BY ONLY <1>2, <1>3, <1>4, BlocksAre
<1>5. CASE c.depth = 2
  BY ONLY <1>2, <1>3, <1>5, BlocksAre
<1>6. CASE c.depth = 3
  BY ONLY <1>2, <1>3, <1>6, BlocksAre
<1> QED BY ONLY <1>2, <1>4, <1>5, <1>6

LEMMA EntryIs ==
    ASSUME DiskInv, NEW c, NEW label \in Locating, TransferOK(c, label)
    PROVE  Entry(c) \in Nat
<1>1. c.inode \in Inode
  BY CallKinds DEF TransferOK
<1>2. CASE c.depth = 1
  <2>1. c.at = 0 /\ Index(c) \in Slot
    BY <1>2, IndexIs
  <2> QED BY <1>1, <2>1 DEF Entry, DiskInv
<1>3. CASE c.depth # 1
  <2>1. c.at \in Block /\ c.at # 0 /\ Index(c) \in Cells
    BY <1>3, IndexIs
  <2> QED BY <2>1 DEF Entry, DiskInv
<1> QED BY <1>2, <1>3

LEMMA DeeperOK ==
    ASSUME NEW c, NEW label \in Locating, TransferOK(c, label), ~LastIndex(c), NEW e \in Block
    PROVE  TransferOK([c EXCEPT !.at = e, !.depth = @ + 1], "index")
<1>1. c \in Transfer /\ c.depth \in 1..2 /\ Path(c.pos \div Indexes)[c.depth + 1] # None
  BY DEF TransferOK, Transfer, LastIndex
<1>2. PICK d : d = [c EXCEPT !.at = e, !.depth = @ + 1]
  OBVIOUS
<1>3. /\ d \in Transfer /\ d.from = c.from /\ d.pos = c.pos /\ d.to = c.to
      /\ d.at = e /\ d.depth = c.depth + 1
  <2>1. PICK n \in 1..3 : n = c.depth + 1
    BY <1>1
  <2>2. d = [op |-> c.op, inode |-> c.inode, from |-> c.from, pos |-> c.pos, to |-> c.to,
             at |-> e, depth |-> n, nr |-> c.nr]
    BY <1>1, <1>2, <2>1 DEF Transfer
  <2>3. /\ c.op \in {"read", "write"} /\ c.inode \in Inode /\ c.from \in Nat
        /\ c.pos \in Nat /\ c.to \in Nat /\ c.nr \in Nat
    BY <1>1 DEF Transfer
  <2> QED BY ONLY <2>1, <2>2, <2>3, e \in Block DEF Transfer
<1>4. Index(d) # None
  BY <1>1, <1>3 DEF Index
<1>5. d.depth # 1 /\ d.at # 0
  BY <1>1, <1>3, BlocksAre
<1> QED BY <1>2, <1>3, <1>4, <1>5 DEF TransferOK, Locating

\* The first index of a block is in the inode.
LEMMA NextBlockOK ==
    ASSUME NEW c \in Transfer, c.from <= c.pos, c.pos < c.to, c.to <= MaxSize,
           NEW label \in Locating
    PROVE  TransferOK(NextBlock(c), label)
<1>1. PICK d : d = NextBlock(c)
  OBVIOUS
<1>2. /\ d \in Transfer /\ d.from = c.from /\ d.pos = c.pos /\ d.to = c.to
      /\ d.at = 0 /\ d.depth = 1
  <2>1. d = [op |-> c.op, inode |-> c.inode, from |-> c.from, pos |-> c.pos, to |-> c.to,
             at |-> 0, depth |-> 1, nr |-> 0]
    BY <1>1 DEF NextBlock, Transfer
  <2>2. /\ c.op \in {"read", "write"} /\ c.inode \in Inode /\ c.from \in Nat
        /\ c.pos \in Nat /\ c.to \in Nat
    BY DEF Transfer
  <2> QED BY ONLY <2>1, <2>2 DEF Transfer
<1>3. c.pos \in 0..(MaxSize - 1)
  <2>1. c.pos \in Nat /\ c.to \in Nat
    BY DEF Transfer
  <2> QED BY <2>1, ZoneAssumption
<1>4. PICK p \in Leaf : p = Path(c.pos \div Indexes)
  BY <1>3, BlockOf
<1>5. p[1] # None
  BY Constants DEF Leaf
<1>6. c.pos <= c.to
  BY <1>2 DEF Transfer
<1> QED BY <1>1, <1>2, <1>4, <1>5, <1>6 DEF TransferOK, Locating, Index

LEMMA NumberedOK ==
    ASSUME NEW c, NEW label \in Locating, TransferOK(c, label), NEW n \in Nat, NEW next \in Locating
    PROVE  TransferOK([c EXCEPT !.nr = n], next)
<1>1. PICK d : d = [c EXCEPT !.nr = n]
  OBVIOUS
<1>2. /\ d \in Transfer /\ d.from = c.from /\ d.pos = c.pos /\ d.to = c.to
      /\ d.at = c.at /\ d.depth = c.depth
  BY <1>1 DEF Transfer, TransferOK
<1>3. Index(d) = Index(c)
  BY <1>2 DEF Index
<1> QED BY <1>1, <1>2, <1>3 DEF TransferOK, Locating

-----------------------------------------------------------------------------
\* A set of numbers has a least one, and so have bits and visits.
LEMMA LeastOf ==
    ASSUME NEW S \in SUBSET Nat, S # {}
    PROVE  \E m \in S : \A n \in S : m <= n
<1> DEFINE R == {ss \in Nat \X Nat : ss[1] < ss[2]}
<1>1. IsWellFoundedOn(R, Nat)
  BY NatLessThanWellFounded DEF OpToRel
<1>2. PICK m \in S : \A n \in S : <<n, m>> \notin R
  <2> HIDE DEF R
  <2> QED BY <1>1, WFMin
<1>3. \A n \in S : ~(n < m)
  BY <1>2
<1> QED BY <1>3

LEMMA EarliestBit ==
    ASSUME NEW free \in SUBSET Bit, free # {}
    PROVE  (CHOOSE x \in free : \A y \in free : Earlier(x, y)) \in free
<1>1. \A x \in free : x = <<x[1], x[2]>> /\ x[1] \in Nat /\ x[2] \in Nat
  BY ZoneAssumption DEF Bit
<1>2. PICK x1 \in {x[1] : x \in free} : \A n \in {x[1] : x \in free} : x1 <= n
  <2>1. {x[1] : x \in free} \in SUBSET Nat /\ {x[1] : x \in free} # {}
    BY <1>1
  <2> QED BY <2>1, LeastOf
<1> DEFINE Row == {x \in free : x[1] = x1}
<1>3. PICK x2 \in {x[2] : x \in Row} : \A n \in {x[2] : x \in Row} : x2 <= n
  <2>1. {x[2] : x \in Row} \in SUBSET Nat /\ {x[2] : x \in Row} # {}
    BY <1>1, <1>2
  <2> HIDE DEF Row
  <2> QED BY <2>1, LeastOf
<1>4. PICK x \in free : x[1] = x1 /\ x[2] = x2
  BY <1>3
<1>5. ASSUME NEW y \in free PROVE Earlier(x, y)
  <2>1. /\ x[1] \in Nat /\ y[1] \in Nat /\ x[2] \in Nat /\ y[2] \in Nat
        /\ x[1] <= y[1] /\ (y[1] = x[1] => x[2] <= y[2])
    BY <1>1, <1>2, <1>3, <1>4
  <2> QED BY ONLY <2>1 DEF Earlier
<1> QED BY <1>5

LEMMA FirstVisit ==
    ASSUME NEW due \in SUBSET Visits, due # {},
           NEW first, first = CHOOSE w \in due : \A u \in due : u = w \/ Before(w, u)
    PROVE  first \in due /\ \A u \in due : u = first \/ Before(first, u)
<1>1. \A v \in due : /\ v = <<v[1], v[2], v[3]>> /\ v[1] \in Nat
                     /\ v[2] \in Int /\ v[3] \in Int /\ v[2] + 1 \in Nat /\ v[3] + 1 \in Nat
  <2> TAKE v \in due
  <2>1. /\ v = <<v[1], v[2], v[3]>>
        /\ v[1] \in Slot /\ v[2] \in -1..Indexes /\ v[3] \in -1..Indexes
    BY Shapes
  <2> QED BY ONLY <2>1, Constants
<1>2. PICK a \in {v[1] : v \in due} : \A n \in {v[1] : v \in due} : a <= n
  <2>1. {v[1] : v \in due} \in SUBSET Nat /\ {v[1] : v \in due} # {}
    BY <1>1
  <2> QED BY <2>1, LeastOf
<1> DEFINE Slots == {v \in due : v[1] = a}
<1>3. PICK b \in {v[2] + 1 : v \in Slots} : \A n \in {v[2] + 1 : v \in Slots} : b <= n
  <2>1. {v[2] + 1 : v \in Slots} \in SUBSET Nat /\ {v[2] + 1 : v \in Slots} # {}
    BY <1>1, <1>2
  <2> HIDE DEF Slots
  <2> QED BY <2>1, LeastOf
<1> DEFINE Ones == {v \in Slots : v[2] + 1 = b}
<1>4. PICK c \in {v[3] + 1 : v \in Ones} : \A n \in {v[3] + 1 : v \in Ones} : c <= n
  <2>1. {v[3] + 1 : v \in Ones} \in SUBSET Nat /\ {v[3] + 1 : v \in Ones} # {}
    BY <1>1, <1>3
  <2> HIDE DEF Ones
  <2> QED BY <2>1, LeastOf
<1>5. PICK w \in due : w[1] = a /\ w[2] + 1 = b /\ w[3] + 1 = c
  BY <1>4
<1>6. ASSUME NEW u \in due PROVE u = w \/ Before(w, u)
  <2>1. /\ w[1] \in Nat /\ u[1] \in Nat /\ w[2] \in Int /\ u[2] \in Int /\ w[3] \in Int /\ u[3] \in Int
        /\ u = <<u[1], u[2], u[3]>> /\ w = <<w[1], w[2], w[3]>>
    BY <1>1
  <2>2. w[1] <= u[1]
    BY <1>2, <1>5
  <2>3. u[1] = w[1] => w[2] + 1 <= u[2] + 1
    BY <1>3, <1>5
  <2>4. u[1] = w[1] /\ u[2] = w[2] => w[3] + 1 <= u[3] + 1
    BY <1>4, <1>5
  <2>5. CASE w[1] < u[1]
    BY ONLY <2>5 DEF Before
  <2>6. CASE u[1] = w[1] /\ w[2] < u[2]
    BY ONLY <2>6 DEF Before
  <2>7. CASE u[1] = w[1] /\ u[2] = w[2] /\ w[3] < u[3]
    BY ONLY <2>7 DEF Before
  <2>8. CASE u[1] = w[1] /\ u[2] = w[2] /\ u[3] = w[3]
    BY ONLY <2>1, <2>8
  <2> QED BY ONLY <2>1, <2>2, <2>3, <2>4, <2>5, <2>6, <2>7, <2>8
<1>7. \E z \in due : \A u \in due : u = z \/ Before(z, u)
  BY <1>6
<1> HIDE DEF Slots, Ones
<1> QED BY <1>7

-----------------------------------------------------------------------------
\* Types, one action after the other.
LEMMA ProceedOK ==
    ASSUME CallsInv, NEW t \in Task, NEW c, NEW label, Proceed(t, c, label), CallOK(c, label)
    PROVE  /\ CallsInv' /\ stopped' = stopped
           /\ pc'[t] = label /\ call'[t] = c
           /\ \A u \in Task : u # t => pc'[u] = pc[u] /\ call'[u] = call[u]
<1>1. /\ label \in {"user", "balloc", "release", "index", "data", "written", "enter", "bfree", "sync"}
      /\ c \in Transfer \cup Truncation \cup {NoCall}
  BY DEF CallOK, TransferOK, TruncationOK, Locating
<1>2. /\ pc' \in [Task -> {"user", "balloc", "release", "index", "data", "written",
                           "enter", "bfree", "sync"}]
      /\ call' \in [Task -> Transfer \cup Truncation \cup {NoCall}]
      /\ pc'[t] = label /\ call'[t] = c
      /\ \A u \in Task : u # t => pc'[u] = pc[u] /\ call'[u] = call[u]
  BY <1>1 DEF Proceed, CallsInv
<1>3. ASSUME NEW u \in Task PROVE CallOK(call'[u], pc'[u])
  BY <1>2 DEF CallsInv
<1> QED BY <1>2, <1>3 DEF CallsInv, Proceed

LEMMA SameTypes ==
    ASSUME TypesInv, UNCHANGED <<pc, call, zmap, zone, size, content, offset>>,
           calls' \in 0..MaxCalls, stopped' \in {"no", "full", "unmarked", "hole", "garbage"}
    PROVE  TypesInv'
BY DEF TypesInv, CallsInv, DiskInv

LEMMA BallocTypes ==
    ASSUME TypesInv, NEW t \in Task, NEW c, NEW label \in Locating, TransferOK(c, label),
           calls' \in 0..MaxCalls, balloc(t, c)
    PROVE  TypesInv'
<1> DEFINE free == Bit \ zmap
           bit == CHOOSE x \in free : \A y \in free : Earlier(x, y)
           nr == bit[1] * Stride + FirstZone - 1 + bit[2]
<1>1. CASE free = {}
  <2>1. Stop("full")
    BY <1>1 DEF balloc
  <2> QED BY <2>1, SameTypes DEF Stop
<1>2. CASE free # {}
  <2>1. bit \in free
    <3> HIDE DEF free
    <3>1. free \in SUBSET Bit
      BY DEF free
    <3> QED BY <1>2, <3>1, EarliestBit
  <2>2. bit \in Bit /\ nr \in Nat
    BY <2>1, BlocksAre
  <2>3. /\ zmap' = bitmap_scan(zmap, bit)
        /\ content' = IF Zeroed THEN [content EXCEPT ![nr] = Empty] ELSE content
        /\ Proceed(t, [c EXCEPT !.nr = nr], "balloc")
        /\ UNCHANGED <<zone, size, offset>>
    BY <1>2 DEF balloc
  <2> HIDE DEF bit, nr
  <2>4. TransferOK([c EXCEPT !.nr = nr], "balloc")
    BY <2>2, NumberedOK DEF Locating
  <2>5. CallsInv' /\ stopped' = stopped
    BY <2>3, <2>4, ProceedOK DEF TypesInv, CallOK
  <2>6. Empty \in [Cells -> Nat]
    BY DEF Empty
  <2>7. DiskInv'
    BY <2>2, <2>3, <2>6 DEF TypesInv, DiskInv, bitmap_scan
  <2> QED BY <2>5, <2>7 DEF TypesInv
<1> QED BY <1>1, <1>2

LEMMA RelabelOK ==
    ASSUME NEW c, NEW label \in Locating, TransferOK(c, label), NEW next \in Locating
    PROVE  TransferOK(c, next)
BY DEF TransferOK

LEMMA ProceedTypes ==
    ASSUME TypesInv, NEW t \in Task, NEW c, NEW label, Proceed(t, c, label), CallOK(c, label),
           calls' \in 0..MaxCalls, DiskInv'
    PROVE  TypesInv'
BY ProceedOK DEF TypesInv

LEMMA VisitTypes ==
    ASSUME TypesInv, NEW t \in Task, NEW c, NEW label \in Locating, TransferOK(c, label),
           calls' \in 0..MaxCalls, Visit(t, c)
    PROVE  TypesInv'
<1>1. CASE balloc(t, c)
  BY <1>1, BallocTypes
<1>2. CASE Proceed(t, c, "release") /\ UNCHANGED <<zmap, zone, size, content, offset>>
  <2>1. CallOK(c, "release")
    BY RelabelOK DEF CallOK, Locating
  <2>2. DiskInv'
    BY <1>2 DEF TypesInv, DiskInv
  <2> QED BY <1>2, <2>1, <2>2, ProceedTypes
<1> QED BY <1>1, <1>2 DEF Visit

\* A call of a task that is at a label.
LEMMA CallAt ==
    ASSUME TypesInv, NEW t \in Task, NEW label, At(t, label), label # "user"
    PROVE  /\ TransferOK(call[t], label) \/ TruncationOK(call[t], label)
           /\ label \in Locating \cup {"written"} => TransferOK(call[t], label)
           /\ label \in {"enter", "bfree"} => TruncationOK(call[t], label)
           /\ calls' \in 0..MaxCalls
BY DEF At, TypesInv, CallsInv, CallOK, TransferOK, TruncationOK, Locating

LEMMA BeginTypes ==
    ASSUME TypesInv, NEW t \in Task, Begin(t)
    PROVE  calls' \in 0..MaxCalls
BY ZoneAssumption DEF TypesInv, Begin

LEMMA FirstBlock ==
    ASSUME NEW op \in {"read", "write"}, NEW i \in Inode, NEW from \in Nat, NEW to \in Nat,
           from < to, to <= MaxSize, NEW c,
           c = [op |-> op, inode |-> i, from |-> from, pos |-> from, to |-> to,
                at |-> 0, depth |-> 1, nr |-> 0]
    PROVE  TransferOK(c, "release")
<1>1. c \in Transfer /\ c.from <= c.pos /\ c.pos < c.to /\ c.to <= MaxSize
  BY DEF Transfer
<1>2. /\ c.op = op /\ c.inode = i /\ c.from = from /\ c.pos = from /\ c.to = to
      /\ c.at = 0 /\ c.depth = 1 /\ c.nr = 0
  OBVIOUS
<1>3. c \in Transfer
  BY <1>1
<1>4. \A d \in Transfer : NextBlock(d) = [op |-> d.op, inode |-> d.inode, from |-> d.from,
                      pos |-> d.pos, to |-> d.to, at |-> 0, depth |-> 1, nr |-> 0]
  <2> TAKE d \in Transfer
  <2>1. PICK e : e = NextBlock(d)
    OBVIOUS
  <2>2. e = [op |-> d.op, inode |-> d.inode, from |-> d.from, pos |-> d.pos, to |-> d.to,
             at |-> 0, depth |-> 1, nr |-> 0]
    BY <2>1 DEF NextBlock, Transfer
  <2> QED BY <2>1, <2>2
<1>5. NextBlock(c) = c
  BY <1>2, <1>3, <1>4
<1> QED BY <1>1, <1>5, NextBlockOK DEF Locating

LEMMA ReadTypes ==
    ASSUME TypesInv, NEW t \in Task, NEW i \in Inode, NEW len \in Lengths, Read(t, i, len)
    PROVE  TypesInv'
<1> DEFINE left == IF len < size[i] - offset[i] THEN len ELSE size[i] - offset[i]
           c == [op |-> "read", inode |-> i, from |-> offset[i], pos |-> offset[i],
                 to |-> offset[i] + left, at |-> 0, depth |-> 1, nr |-> 0]
<1>1. /\ offset[i] \in Nat /\ size[i] \in 0..MaxSize /\ len \in Nat \ {0} /\ MaxSize \in Nat
      /\ offset[i] < size[i]
  BY ZoneAssumption DEF TypesInv, DiskInv, Read
<1>2. left \in Nat \ {0} /\ offset[i] + left <= MaxSize
  BY ONLY <1>1
<1>3. PICK from \in Nat, to \in Nat : from = offset[i] /\ to = offset[i] + left /\ from < to
  BY ONLY <1>1, <1>2
<1>4. CallOK(c, "release")
  BY <1>2, <1>3, FirstBlock DEF CallOK
<1>5. /\ pc' = [pc EXCEPT ![t] = "release"] /\ call' = [call EXCEPT ![t] = c]
      /\ UNCHANGED <<zmap, zone, size, content, offset, stopped>> /\ Begin(t)
  BY DEF Read
<1> HIDE DEF c
<1>6. DiskInv' /\ Proceed(t, c, "release")
  BY <1>5 DEF TypesInv, DiskInv, Proceed
<1> QED BY <1>4, <1>5, <1>6, BeginTypes, ProceedTypes

LEMMA WriteTypes ==
    ASSUME TypesInv, NEW t \in Task, NEW i \in Inode, NEW len \in Lengths, Write(t, i, len)
    PROVE  TypesInv'
<1> DEFINE c == [op |-> "write", inode |-> i, from |-> offset[i], pos |-> offset[i],
                 to |-> offset[i] + len, at |-> 0, depth |-> 1, nr |-> 0]
<1>1. /\ offset[i] \in Nat /\ len \in Nat \ {0} /\ offset[i] + len <= MaxSize
  BY ZoneAssumption DEF TypesInv, DiskInv, Write
<1>2. PICK from \in Nat, to \in Nat : from = offset[i] /\ to = offset[i] + len /\ from < to
  BY ONLY <1>1
<1>3. TransferOK(c, "release")
  BY <1>1, <1>2, FirstBlock
<1>4. Visit(t, c) /\ Begin(t)
  BY DEF Write
<1> HIDE DEF c
<1> QED BY <1>3, <1>4, BeginTypes, VisitTypes DEF Locating

LEMMA BmapTypes ==
    ASSUME TypesInv, NEW t \in Task, bmap_balloc(t) \/ bmap_release(t) \/ bmap_index(t)
    PROVE  TypesInv'
<1> DEFINE c == call[t]
<1>1. CASE bmap_balloc(t)
  <2>1. TransferOK(c, "balloc") /\ calls' \in 0..MaxCalls /\ c.nr \in Nat /\ c.inode \in Inode
    BY <1>1, CallAt DEF bmap_balloc, Locating, TransferOK, Transfer
  <2>2. CallOK(c, "release")
    BY <2>1, RelabelOK DEF CallOK, Locating
  <2>3. DiskInv'
    <3>1. CASE c.at = 0
      <4>1. Index(c) \in Slot
        BY <2>1, <3>1, IndexIs, BlocksAre DEF Locating
      <4>2. zone' = [zone EXCEPT ![c.inode][Index(c)] = c.nr]
            /\ UNCHANGED <<zmap, size, content, offset>>
        BY <1>1, <3>1 DEF bmap_balloc
      <4> HIDE DEF c
      <4> QED BY <2>1, <4>1, <4>2 DEF TypesInv, DiskInv
    <3>2. CASE c.at # 0
      <4>1. Index(c) \in Cells /\ c.at \in Block
        BY <2>1, <3>2, IndexIs DEF Locating
      <4>2. content' = [content EXCEPT ![c.at][Index(c)] = c.nr]
            /\ UNCHANGED <<zmap, size, zone, offset>>
        BY <1>1, <3>2 DEF bmap_balloc
      <4> HIDE DEF c
      <4> QED BY <2>1, <4>1, <4>2 DEF TypesInv, DiskInv
    <3> QED BY <3>1, <3>2
  <2> QED BY <1>1, <2>1, <2>2, <2>3, ProceedTypes DEF bmap_balloc
<1>2. CASE bmap_release(t)
  <2>1. TransferOK(c, "release") /\ calls' \in 0..MaxCalls
    BY <1>2, CallAt DEF bmap_release, Locating
  <2>2. CASE Stop("hole") \/ Stop("garbage")
    BY <2>1, <2>2, SameTypes DEF Stop
  <2>3. ASSUME NEW e, e = Entry(c), e \in Block,
               Proceed(t, [c EXCEPT !.nr = e], "data"),
               UNCHANGED <<zmap, zone, size, content, offset>>
        PROVE  TypesInv'
    <3>1. TransferOK([c EXCEPT !.nr = e], "data")
      BY <2>1, <2>3, NumberedOK, BlocksAre DEF Locating
    <3>2. DiskInv'
      BY <2>3 DEF TypesInv, DiskInv
    <3> QED BY <2>1, <2>3, <3>1, <3>2, ProceedTypes DEF CallOK
  <2>4. ASSUME NEW e, e = Entry(c), e \in Block, ~LastIndex(c),
               Proceed(t, [c EXCEPT !.at = e, !.depth = @ + 1], "index"),
               UNCHANGED <<zmap, zone, size, content, offset>>
        PROVE  TypesInv'
    <3>1. TransferOK([c EXCEPT !.at = e, !.depth = @ + 1], "index")
      BY <2>1, <2>4, DeeperOK DEF Locating
    <3>2. DiskInv'
      BY <2>4 DEF TypesInv, DiskInv
    <3> QED BY <2>1, <2>4, <3>1, <3>2, ProceedTypes DEF CallOK
  <2> QED BY <1>2, <2>2, <2>3, <2>4 DEF bmap_release
<1>3. CASE bmap_index(t)
  <2>1. TransferOK(c, "index") /\ calls' \in 0..MaxCalls
    BY <1>3, CallAt DEF bmap_index, Locating
  <2> QED BY <1>3, <2>1, VisitTypes DEF bmap_index, Locating
<1> QED BY <1>1, <1>2, <1>3

\* A transfer moves on, and not over the end of the block.
LEMMA CharsAre ==
    ASSUME NEW c, NEW label \in Locating, TransferOK(c, label)
    PROVE  /\ Chars(c) \in Nat \ {0} /\ c.pos + Chars(c) \in Nat
           /\ c.pos + Chars(c) <= c.to
           /\ (c.pos % Indexes) + Chars(c) <= Indexes
<1>1. PICK pos \in Nat, to \in Nat : pos = c.pos /\ to = c.to /\ pos < to
  BY DEF TransferOK, Transfer
<1>2. PICK start \in 0..(Indexes - 1) : start = pos % Indexes
  BY Constants, Division
<1>3. Chars(c) = IF Indexes - start < to - pos THEN Indexes - start ELSE to - pos
  BY <1>1, <1>2 DEF Chars
<1>4. Indexes \in Nat \ {0}
  BY Constants
<1>5. PICK n \in Nat : n = Chars(c) /\ n # 0 /\ pos + n <= to /\ start + n <= Indexes
  BY ONLY <1>1, <1>2, <1>3, <1>4
<1> QED BY <1>1, <1>2, <1>5

LEMMA MovedIs ==
    ASSUME NEW c \in Transfer, NEW pos \in Nat, NEW d, d = [c EXCEPT !.pos = pos]
    PROVE  /\ d \in Transfer /\ d.pos = pos /\ d.op = c.op /\ d.inode = c.inode
           /\ d.from = c.from /\ d.to = c.to /\ d.nr = c.nr /\ d.at = c.at /\ d.depth = c.depth
<1>1. d = [op |-> c.op, inode |-> c.inode, from |-> c.from, pos |-> pos, to |-> c.to,
           at |-> c.at, depth |-> c.depth, nr |-> c.nr]
  BY DEF Transfer
<1>2. /\ c.op \in {"read", "write"} /\ c.inode \in Inode /\ c.from \in Nat
      /\ c.to \in Nat /\ c.at \in Block \cup {0} /\ c.depth \in 1..3 /\ c.nr \in Nat
  BY DEF Transfer
<1> QED BY ONLY <1>1, <1>2, pos \in Nat DEF Transfer

LEMMA FinishTypes ==
    ASSUME TypesInv, NEW t \in Task, NEW c \in Transfer, c.from <= c.to, Finish(t, c),
           calls' \in 0..MaxCalls, UNCHANGED <<zmap, zone, size, content>>
    PROVE  TypesInv'
<1>1. c.inode \in Inode /\ c.from \in Nat /\ c.to \in Nat
  BY DEF Transfer
<1>2. PICK n \in Nat : n = c.to - c.from
  BY <1>1
<1>3. /\ Proceed(t, NoCall, "user")
      /\ offset' = [offset EXCEPT ![c.inode] = @ + n]
  BY <1>2 DEF Finish
<1>4. DiskInv'
  BY <1>1, <1>3 DEF TypesInv, DiskInv
<1> QED BY <1>3, <1>4, ProceedTypes DEF CallOK

LEMMA ReadDataTypes ==
    ASSUME TypesInv, NEW t \in Task, inode_read_data(t)
    PROVE  TypesInv'
<1>1. TransferOK(call[t], "data") /\ calls' \in 0..MaxCalls
  BY CallAt DEF inode_read_data, Locating
<1>2. PICK pos \in Nat : /\ pos = call[t].pos + Chars(call[t]) /\ pos <= call[t].to
                         /\ call[t].pos <= pos
  <2>1. call[t].pos \in Nat
    BY <1>1 DEF TransferOK, Transfer
  <2>2. /\ Chars(call[t]) \in Nat
        /\ call[t].pos + Chars(call[t]) <= call[t].to
    BY <1>1, CharsAre DEF Locating
  <2> QED BY <2>1, <2>2
<1>3. PICK c : c = [call[t] EXCEPT !.pos = pos]
  OBVIOUS
<1>4. /\ c \in Transfer /\ c.from <= c.pos /\ c.pos <= c.to /\ c.to <= MaxSize
      /\ c.from <= c.to
  <2>1. /\ c \in Transfer /\ c.from = call[t].from /\ c.to = call[t].to /\ c.pos = pos
    BY <1>1, <1>3, MovedIs DEF TransferOK
  <2>2. call[t].from <= call[t].pos /\ call[t].to <= MaxSize
    BY <1>1 DEF TransferOK
  <2>3. call[t].from \in Nat /\ call[t].pos \in Nat /\ call[t].to \in Nat
    BY <1>1 DEF TransferOK, Transfer
  <2> QED BY ONLY <2>1, <2>2, <2>3, <1>2
<1>5. /\ IF c.pos = c.to THEN Finish(t, c)
         ELSE Proceed(t, NextBlock(c), "release") /\ UNCHANGED offset
      /\ UNCHANGED <<zmap, zone, size, content>>
  BY <1>2, <1>3 DEF inode_read_data
<1>6. CASE c.pos = c.to
  BY <1>1, <1>4, <1>5, <1>6, FinishTypes
<1>7. CASE c.pos # c.to
  <2>1. c.pos < c.to
    BY <1>4, <1>7 DEF Transfer
  <2>2. CallOK(NextBlock(c), "release")
    BY <1>4, <2>1, NextBlockOK DEF CallOK, Locating
  <2>3. DiskInv'
    BY <1>5, <1>7 DEF TypesInv, DiskInv
  <2> QED BY <1>1, <1>5, <1>7, <2>2, <2>3, ProceedTypes
<1> QED BY <1>6, <1>7

LEMMA WriteDataTypes ==
    ASSUME TypesInv, NEW t \in Task, inode_write_data(t)
    PROVE  TypesInv'
<1> DEFINE c == call[t]
           pos == c.pos + Chars(c)
           first == c.pos - (c.pos % Indexes)
           cells == [k \in Cells |-> IF first + k \in c.pos..(pos - 1)
                                     THEN Written(c.inode, first + k) ELSE content[c.nr][k]]
<1>1. TransferOK(c, "data") /\ calls' \in 0..MaxCalls
  BY CallAt DEF inode_write_data, Locating
<1>2. /\ c \in Transfer /\ c.inode \in Inode /\ c.pos \in Nat /\ c.to \in Nat /\ c.from \in Nat
      /\ c.from <= c.pos /\ c.to <= MaxSize
  BY <1>1 DEF TransferOK, Transfer
<1>3. pos \in Nat /\ c.pos <= pos /\ pos <= c.to
  <2>1. Chars(c) \in Nat /\ pos <= c.to
    BY <1>1, CharsAre DEF Locating
  <2> QED BY <1>2, <2>1
<1>4. first \in Nat
  <2>1. PICK start \in Nat : start = c.pos % Indexes /\ start <= c.pos
    <3>1. Indexes \in Nat \ {0}
      BY Constants
    <3> QED BY ONLY <1>2, <3>1
  <2> QED BY <1>2, <2>1
<1>5. /\ content' = [content EXCEPT ![c.nr] = [k \in Cells |->
                        IF first + k \in c.pos..(pos - 1) THEN Written(c.inode, first + k) ELSE @[k]]]
      /\ size' = [size EXCEPT ![c.inode] = IF pos > @ THEN pos ELSE @]
      /\ Proceed(t, [c EXCEPT !.pos = pos], "written")
      /\ UNCHANGED <<zmap, zone, offset>>
  BY DEF inode_write_data
<1>6. PICK d : d = [c EXCEPT !.pos = pos]
  OBVIOUS
<1>7. CallOK(d, "written")
  <2> HIDE DEF c, pos
  <2>1. /\ d \in Transfer /\ d.from = c.from /\ d.to = c.to /\ d.pos = pos
    BY <1>2, <1>3, <1>6, MovedIs
  <2>2. d.from <= d.pos
    BY ONLY <1>2, <1>3, <2>1
  <2> QED BY <1>2, <1>3, <2>1, <2>2 DEF CallOK, TransferOK, Locating
<1>8. size' \in [Inode -> 0..MaxSize]
  <2>1. pos \in 0..MaxSize
    <3> HIDE DEF c, pos
    <3> QED BY <1>2, <1>3, ZoneAssumption
  <2> HIDE DEF c, pos
  <2> QED BY <1>2, <1>5, <2>1 DEF TypesInv, DiskInv
<1>9. content' \in [Block -> [Cells -> Nat]]
  <2>1. content' = [content EXCEPT ![c.nr] = cells]
    BY <1>5
  <2>2. ASSUME c.nr \in Block PROVE cells \in [Cells -> Nat]
    <3>1. ASSUME NEW k \in Cells PROVE Written(c.inode, first + k) \in Nat
      <4>5. FirstZone \in Nat /\ Maps \in Nat /\ BlockBits \in Nat /\ MaxSize \in Nat
        BY ONLY ZoneAssumption
      <4>6. c.inode \in Nat
        <5> HIDE DEF c
        <5>1. Inode \subseteq Nat
          BY ONLY ZoneAssumption
        <5> QED BY <1>2, <5>1
      <4>1. /\ FirstZone \in Nat /\ Maps \in Nat /\ BlockBits \in Nat /\ MaxSize \in Nat
            /\ c.inode \in Nat
        BY ONLY <4>5, <4>6
      <4>2. PICK m \in Nat, n \in Nat : m = Maps * BlockBits /\ n = c.inode * MaxSize
        BY <4>1
      <4>3. first + k \in Nat
        BY <1>4, Constants
      <4> HIDE DEF first, c
      <4> QED BY <4>1, <4>2, <4>3 DEF Written
    <3>2. ASSUME NEW k \in Cells PROVE content[c.nr][k] \in Nat
      BY <2>2 DEF TypesInv, DiskInv
    <3> HIDE DEF first, c, pos
    <3> QED BY <3>1, <3>2
  <2> HIDE DEF c, cells
  <2> QED BY <2>1, <2>2 DEF TypesInv, DiskInv
<1>10. DiskInv'
  BY <1>5, <1>8, <1>9 DEF TypesInv, DiskInv
<1> QED BY <1>1, <1>5, <1>6, <1>7, <1>10, ProceedTypes

LEMMA WriteNextTypes ==
    ASSUME TypesInv, NEW t \in Task, inode_write_next(t)
    PROVE  TypesInv'
<1> DEFINE c == call[t]
<1>1. TransferOK(c, "written") /\ calls' \in 0..MaxCalls
  BY CallAt DEF inode_write_next, Locating
<1>2. CASE c.pos = c.to
  <2>1. Proceed(t, c, "sync") /\ UNCHANGED <<zmap, zone, size, content, offset>>
    BY <1>2 DEF inode_write_next
  <2>2. CallOK(c, "sync")
    BY <1>1 DEF CallOK, TransferOK, Locating
  <2>3. DiskInv'
    BY <2>1 DEF TypesInv, DiskInv
  <2> QED BY <1>1, <2>1, <2>2, <2>3, ProceedTypes
<1>3. CASE c.pos # c.to
  <2>1. Visit(t, NextBlock(c))
    BY <1>3 DEF inode_write_next
  <2>2. c \in Transfer /\ c.from <= c.pos /\ c.pos < c.to /\ c.to <= MaxSize
    BY <1>1, <1>3 DEF TransferOK, Transfer
  <2>3. TransferOK(NextBlock(c), "release")
    BY <2>2, NextBlockOK DEF Locating
  <2> QED BY <1>1, <2>1, <2>3, VisitTypes DEF Locating
<1> QED BY <1>2, <1>3

LEMMA SyncTypes ==
    ASSUME TypesInv, NEW t \in Task, inode_sync(t)
    PROVE  TypesInv'
<1> DEFINE c == call[t]
<1>1. /\ TransferOK(c, "sync") \/ TruncationOK(c, "sync")
      /\ calls' \in 0..MaxCalls
  BY CallAt DEF inode_sync, Locating
<1>2. CASE c.op = "write"
  <2>1. Finish(t, c) /\ UNCHANGED <<zmap, zone, size, content>>
    BY <1>2 DEF inode_sync
  <2>2. c \in Transfer /\ c.from <= c.pos /\ c.pos <= c.to
    BY <1>1, <1>2, CallKinds DEF TransferOK, TruncationOK
  <2>3. c.from <= c.to
    BY <2>2 DEF Transfer
  <2> QED BY <1>1, <2>1, <2>2, <2>3, FinishTypes
<1>3. CASE c.op # "write"
  <2>1. Proceed(t, NoCall, "user") /\ UNCHANGED <<zmap, zone, size, content, offset>>
    BY <1>3 DEF inode_sync
  <2>2. DiskInv'
    BY <2>1 DEF TypesInv, DiskInv
  <2> QED BY <1>1, <2>1, <2>2, ProceedTypes DEF CallOK
<1> QED BY <1>2, <1>3

LEMMA LseekTypes ==
    ASSUME TypesInv, NEW i \in Inode, NEW to \in Targets, sys_lseek(i, to)
    PROVE  TypesInv'
<1>1. to \in Nat /\ calls' \in 0..MaxCalls
  BY ZoneAssumption DEF sys_lseek, TypesInv
<1> QED BY <1>1 DEF TypesInv, CallsInv, DiskInv, sys_lseek

\* The entry of a visit that is due is a number.
LEMMA EntryAtNat ==
    ASSUME DiskInv, NEW c \in Truncation, NEW zones \in [Slot -> Nat], NEW v \in Visits,
           Due(c, v, zones)
    PROVE  EntryAt(c, v, zones) \in Nat
<1>1. /\ v[1] \in Slot /\ v[2] \in -1..Indexes /\ v[3] \in -1..Indexes
      /\ v[2] = None => v[3] = None
  BY Shapes
<1>2. c.one \in Block \cup {0} /\ c.two \in Block \cup {0}
  BY DEF Truncation
<1>3. CASE v[2] = None \/ v[2] = Indexes
  BY <1>1, <1>3 DEF EntryAt
<1>4. CASE ~(v[2] = None \/ v[2] = Indexes) /\ (v[3] = None \/ v[3] = Indexes)
  <2>1. c.one \in Block /\ v[2] \in Cells
    BY <1>1, <1>2, <1>4, Constants DEF Due
  <2> QED BY <1>4, <2>1 DEF EntryAt, DiskInv
<1>5. CASE ~(v[2] = None \/ v[2] = Indexes) /\ ~(v[3] = None \/ v[3] = Indexes)
  <2>1. c.two \in Block /\ v[3] \in Cells
    BY <1>1, <1>2, <1>5, Constants DEF Due
  <2> QED BY <1>5, <2>1 DEF EntryAt, DiskInv
<1> QED BY <1>3, <1>4, <1>5

LEMMA NumberedIs ==
    ASSUME NEW c \in Truncation, NEW nr \in Nat, NEW d, d = [c EXCEPT !.nr = nr]
    PROVE  /\ d \in Truncation /\ d.nr = nr /\ d.visit = c.visit /\ d.inode = c.inode
           /\ d.one = c.one /\ d.two = c.two
<1>1. /\ c.op = "truncate" /\ c.inode \in Inode /\ c.visit \in Visits \cup {Start}
      /\ c.one \in Block \cup {0} /\ c.two \in Block \cup {0}
  BY DEF Truncation
<1>2. d = [op |-> c.op, inode |-> c.inode, visit |-> c.visit, one |-> c.one, two |-> c.two, nr |-> nr]
  BY DEF Truncation
<1> QED BY ONLY <1>1, <1>2, nr \in Nat DEF Truncation

LEMMA VisitingIs ==
    ASSUME NEW c \in Truncation, NEW v \in Visits, NEW d, d = [c EXCEPT !.visit = v]
    PROVE  /\ d \in Truncation /\ d.visit = v /\ d.inode = c.inode
           /\ d.one = c.one /\ d.two = c.two
<1>1. /\ c.op = "truncate" /\ c.inode \in Inode /\ c.nr \in Nat
      /\ c.one \in Block \cup {0} /\ c.two \in Block \cup {0}
  BY DEF Truncation
<1>2. d = [op |-> c.op, inode |-> c.inode, visit |-> v, one |-> c.one, two |-> c.two, nr |-> c.nr]
  BY DEF Truncation
<1> QED BY ONLY <1>1, <1>2, v \in Visits DEF Truncation

LEMMA IntoIs ==
    ASSUME NEW c, TruncationOK(c, "enter")
    PROVE  /\ Into(c) \in Truncation /\ Into(c).inode = c.inode /\ Into(c).visit = c.visit
           /\ Into(c).nr = c.nr
           /\ c.visit[2] = None => Into(c).one = c.nr /\ Into(c).two = c.two
           /\ c.visit[2] # None => Into(c).one = c.one /\ Into(c).two = c.nr
<1>1. /\ c \in Truncation /\ c.op = "truncate" /\ c.inode \in Inode /\ c.visit \in Visits \cup {Start}
      /\ c.one \in Block \cup {0} /\ c.two \in Block \cup {0} /\ c.nr \in Nat /\ c.nr \in Block
  BY DEF TruncationOK, Truncation
<1>2. PICK d : d = Into(c)
  OBVIOUS
<1>3. CASE c.visit[2] = None
  <2>1. d = [op |-> c.op, inode |-> c.inode, visit |-> c.visit, one |-> c.nr, two |-> c.two, nr |-> c.nr]
    BY <1>1, <1>2, <1>3 DEF Into, Truncation
  <2>2. /\ d \in Truncation /\ d.inode = c.inode /\ d.visit = c.visit /\ d.nr = c.nr
        /\ d.one = c.nr /\ d.two = c.two
    BY ONLY <1>1, <2>1 DEF Truncation
  <2> QED BY <1>2, <1>3, <2>2
<1>4. CASE c.visit[2] # None
  <2>1. d = [op |-> c.op, inode |-> c.inode, visit |-> c.visit, one |-> c.one, two |-> c.nr, nr |-> c.nr]
    BY <1>1, <1>2, <1>4 DEF Into, Truncation
  <2>2. /\ d \in Truncation /\ d.inode = c.inode /\ d.visit = c.visit /\ d.nr = c.nr
        /\ d.one = c.one /\ d.two = c.nr
    BY ONLY <1>1, <2>1 DEF Truncation
  <2> QED BY <1>2, <1>4, <2>2
<1> QED BY <1>3, <1>4

LEMMA OutOfIs ==
    ASSUME NEW c \in Truncation
    PROVE  /\ OutOf(c) \in Truncation /\ OutOf(c).inode = c.inode /\ OutOf(c).visit = c.visit
           /\ c.visit \notin Leaving => OutOf(c) = c
           /\ c.visit \in Leaving /\ c.visit[3] = None => OutOf(c).one = 0 /\ OutOf(c).two = c.two
           /\ c.visit \in Leaving /\ c.visit[3] # None => OutOf(c).one = c.one /\ OutOf(c).two = 0
<1>1. /\ c.op = "truncate" /\ c.inode \in Inode /\ c.visit \in Visits \cup {Start}
      /\ c.one \in Block \cup {0} /\ c.two \in Block \cup {0} /\ c.nr \in Nat
  BY DEF Truncation
<1>2. PICK d : d = OutOf(c)
  OBVIOUS
<1>3. CASE c.visit \in Leaving /\ c.visit[3] = None
  <2>1. d = [op |-> c.op, inode |-> c.inode, visit |-> c.visit, one |-> 0, two |-> c.two, nr |-> c.nr]
    BY <1>2, <1>3 DEF OutOf, Truncation
  <2>2. /\ d \in Truncation /\ d.inode = c.inode /\ d.visit = c.visit /\ d.one = 0 /\ d.two = c.two
    BY ONLY <1>1, <2>1 DEF Truncation
  <2> QED BY <1>2, <1>3, <2>2
<1>4. CASE c.visit \in Leaving /\ c.visit[3] # None
  <2>1. d = [op |-> c.op, inode |-> c.inode, visit |-> c.visit, one |-> c.one, two |-> 0, nr |-> c.nr]
    BY <1>2, <1>4 DEF OutOf, Truncation
  <2>2. /\ d \in Truncation /\ d.inode = c.inode /\ d.visit = c.visit /\ d.one = c.one /\ d.two = 0
    BY ONLY <1>1, <2>1 DEF Truncation
  <2> QED BY <1>2, <1>4, <2>2
<1>5. CASE c.visit \notin Leaving
  BY <1>5 DEF OutOf
<1> QED BY <1>3, <1>4, <1>5

LEMMA BfreeTypes ==
    ASSUME TypesInv, NEW t \in Task, NEW c \in Truncation, NEW zones \in [Slot -> Nat],
           NEW nr \in Nat, c.visit \in Leaf \cup Leaving, bfree(t, c, nr, zones),
           calls' \in 0..MaxCalls
    PROVE  TypesInv'
<1>1. CASE Stop("unmarked")
  BY <1>1, SameTypes DEF Stop
<1>2. CASE /\ zmap' = bitmap_clear(zmap, nr)
           /\ zone' = [zone EXCEPT ![c.inode] = zones]
           /\ Proceed(t, [c EXCEPT !.nr = nr], "bfree")
           /\ UNCHANGED <<size, content, offset>>
  <2>1. CallOK([c EXCEPT !.nr = nr], "bfree")
    <3>1. c.visit \in Visits
      BY DEF Visits
    <3>2. PICK d : d = [c EXCEPT !.nr = nr]
      OBVIOUS
    <3>3. d \in Truncation /\ d.visit = c.visit
      BY <3>2, NumberedIs
    <3>4. CallOK(d, "bfree")
      BY <3>3 DEF CallOK, TruncationOK
    <3> QED BY <3>2, <3>4
  <2>2. c.inode \in Inode
    BY DEF Truncation
  <2>3. DiskInv'
    BY <1>2, <2>2 DEF TypesInv, DiskInv, bitmap_clear
  <2> QED BY <1>2, <2>1, <2>3, ProceedTypes
<1> QED BY <1>1, <1>2 DEF bfree

LEMMA GoOnTypes ==
    ASSUME TypesInv, NEW t \in Task, NEW c \in Truncation, NEW zones \in [Slot -> Nat],
           GoOn(t, c, zones), calls' \in 0..MaxCalls
    PROVE  TypesInv'
<1> DEFINE due == {v \in Visits : Before(c.visit, v) /\ Due(c, v, zones)}
           v == CHOOSE w \in due : \A u \in due : u = w \/ Before(w, u)
           nr == EntryAt(c, v, zones)
<1>1. c.inode \in Inode
  BY DEF Truncation
<1>2. CASE due = {}
  <2>1. /\ zone' = [zone EXCEPT ![c.inode] = zones]
        /\ size' = [size EXCEPT ![c.inode] = 0]
        /\ Proceed(t, c, "sync")
        /\ UNCHANGED <<zmap, content, offset>>
    BY <1>2 DEF GoOn
  <2>2. 0 \in 0..MaxSize
    BY ZoneAssumption
  <2>3. DiskInv'
    BY <1>1, <2>1, <2>2 DEF TypesInv, DiskInv
  <2>4. CallOK(c, "sync")
    BY DEF CallOK, TruncationOK
  <2> QED BY <2>1, <2>3, <2>4, ProceedTypes
<1>3. CASE due # {}
  <2>1. v \in due
    <3>1. due \in SUBSET Visits
      OBVIOUS
    <3> HIDE DEF due
    <3> QED BY <1>3, <3>1, FirstVisit
  <2>2. v \in Visits /\ Due(c, v, zones)
    <3> HIDE DEF v
    <3> QED BY <2>1
  <2>3. IF v \notin IndexPlace THEN bfree(t, [c EXCEPT !.visit = v], nr, zones)
        ELSE IF nr \notin Block THEN Stop("garbage")
        ELSE /\ zone' = [zone EXCEPT ![c.inode] = zones]
             /\ Proceed(t, [c EXCEPT !.visit = v, !.nr = nr], "enter")
             /\ UNCHANGED <<zmap, size, content, offset>>
    BY <1>3 DEF GoOn
  <2> HIDE DEF v
  <2>4. nr \in Nat
    BY <2>2, EntryAtNat DEF TypesInv
  <2> HIDE DEF nr
  <2>5. CASE v \notin IndexPlace
    <3>1. v \in Leaf \cup Leaving
      BY <2>2, <2>5 DEF Visits
    <3>2. PICK d : d = [c EXCEPT !.visit = v]
      OBVIOUS
    <3>3. d \in Truncation /\ d.visit = v
      BY <2>2, <3>2, VisitingIs
    <3>4. bfree(t, d, nr, zones)
      BY <2>3, <2>5, <3>2
    <3> QED BY <2>4, <3>1, <3>3, <3>4, BfreeTypes
  <2>6. CASE v \in IndexPlace /\ nr \notin Block
    <3>1. Stop("garbage")
      BY <2>3, <2>6
    <3>2. /\ stopped' = "garbage"
          /\ UNCHANGED <<pc, call, zmap, zone, size, content, offset>>
      BY <3>1 DEF Stop
    <3> QED BY <3>2, SameTypes
  <2>7. CASE v \in IndexPlace /\ nr \in Block
    <3>1. CallOK([c EXCEPT !.visit = v, !.nr = nr], "enter")
      <4>1. PICK d : d = [c EXCEPT !.visit = v, !.nr = nr]
        OBVIOUS
      <4>2. d \in Truncation /\ d.visit = v /\ d.nr = nr
        <5>1. PICK e : e = [c EXCEPT !.visit = v]
          OBVIOUS
        <5>2. d = [e EXCEPT !.nr = nr]
          BY <4>1, <5>1
        <5>3. e \in Truncation /\ e.visit = v
          BY <2>2, <5>1, VisitingIs
        <5> QED BY <2>4, <5>2, <5>3, NumberedIs
      <4>3. CallOK(d, "enter")
        BY <2>7, <4>2 DEF CallOK, TruncationOK
      <4> QED BY <4>1, <4>3
    <3>2. DiskInv'
      BY <1>1, <2>3, <2>7 DEF TypesInv, DiskInv
    <3> QED BY <2>3, <2>7, <3>1, <3>2, ProceedTypes
  <2> QED BY <2>5, <2>6, <2>7
<1> QED BY <1>2, <1>3

LEMMA TruncateTypes ==
    ASSUME TypesInv, NEW t \in Task, NEW i \in Inode, Truncate(t, i)
    PROVE  TypesInv'
<1>1. PICK c : c = [op |-> "truncate", inode |-> i, visit |-> Start, one |-> 0, two |-> 0, nr |-> 0]
  OBVIOUS
<1>2. c \in Truncation
  BY <1>1 DEF Truncation
<1>3. Begin(t) /\ GoOn(t, c, zone[i])
  BY <1>1 DEF Truncate
<1>4. zone[i] \in [Slot -> Nat]
  BY DEF TypesInv, DiskInv
<1> QED BY <1>2, <1>3, <1>4, BeginTypes, GoOnTypes

LEMMA EnterTypes ==
    ASSUME TypesInv, NEW t \in Task, inode_bfree_enter(t)
    PROVE  TypesInv'
<1>1. TruncationOK(call[t], "enter") /\ calls' \in 0..MaxCalls
  BY CallAt DEF inode_bfree_enter
<1>2. Into(call[t]) \in Truncation /\ call[t].inode \in Inode
  BY <1>1, IntoIs, CallKinds DEF TruncationOK
<1>3. zone[call[t].inode] \in [Slot -> Nat]
  BY <1>2 DEF TypesInv, DiskInv
<1> QED BY <1>1, <1>2, <1>3, GoOnTypes DEF inode_bfree_enter

LEMMA FreedTypes ==
    ASSUME TypesInv, NEW t \in Task, inode_bfree_freed(t)
    PROVE  TypesInv'
<1>1. TruncationOK(call[t], "bfree") /\ calls' \in 0..MaxCalls
  BY CallAt DEF inode_bfree_freed
<1>2. OutOf(call[t]) \in Truncation /\ call[t].inode \in Inode
  BY <1>1, OutOfIs, CallKinds DEF TruncationOK
<1>3. zone[call[t].inode] \in [Slot -> Nat]
  BY <1>2 DEF TypesInv, DiskInv
<1>4. Cleared(zone[call[t].inode], call[t].visit) \in [Slot -> Nat]
  BY <1>3 DEF Cleared
<1> QED BY <1>1, <1>2, <1>4, GoOnTypes DEF inode_bfree_freed

LEMMA InitTypes == ZoneInit => TypesInv
<1> SUFFICES ASSUME ZoneInit PROVE TypesInv
  OBVIOUS
<1>1. <<0, 0>> \in Bit
  <2>1. NumberOf(<<0, 0>>) = FirstZone - 1
    BY ZoneAssumption DEF NumberOf
  <2> QED BY <2>1, ZoneAssumption DEF Bit
<1>2. Empty \in [Cells -> Nat] /\ 0 \in 0..MaxSize /\ 0 \in 0..MaxCalls
  BY ZoneAssumption DEF Empty
<1>3. CallsInv
  BY DEF ZoneInit, CallsInv, CallOK
<1>4. DiskInv
  BY <1>1, <1>2 DEF ZoneInit, DiskInv
<1> QED BY <1>2, <1>3, <1>4 DEF ZoneInit, TypesInv

LEMMA StepTypes == TypesInv /\ [ZoneNext]_vars => TypesInv'
<1> SUFFICES ASSUME TypesInv, [ZoneNext]_vars PROVE TypesInv'
  OBVIOUS
<1>1. CASE UNCHANGED vars
  BY <1>1, SameTypes DEF vars, TypesInv
<1>2. CASE \E t \in Task, i \in Inode : Truncate(t, i)
  BY <1>2, TruncateTypes
<1>3. CASE \E t \in Task, i \in Inode : \E len \in Lengths : Read(t, i, len) \/ Write(t, i, len)
  BY <1>3, ReadTypes, WriteTypes
<1>4. CASE \E i \in Inode, to \in Targets : sys_lseek(i, to)
  BY <1>4, LseekTypes
<1>5. ASSUME NEW t \in Task,
             \/ bmap_balloc(t) \/ bmap_release(t) \/ bmap_index(t)
             \/ inode_read_data(t) \/ inode_write_data(t) \/ inode_write_next(t)
             \/ inode_bfree_enter(t) \/ inode_bfree_freed(t) \/ inode_sync(t)
      PROVE  TypesInv'
  BY <1>5, BmapTypes, ReadDataTypes, WriteDataTypes, WriteNextTypes, EnterTypes, FreedTypes,
     SyncTypes
<1> QED BY <1>1, <1>2, <1>3, <1>4, <1>5 DEF ZoneNext

(***************************************************************************)
(* The variables keep their types; a call that reads or writes never has a *)
(* position behind its end, and bmap never looks behind the end of a path. *)
(***************************************************************************)
THEOREM ZoneTypes == ZoneSpec => []ZoneTypeOK
<1>1. ZoneInit => TypesInv
  BY InitTypes
<1>2. TypesInv /\ [ZoneNext]_vars => TypesInv'
  BY StepTypes
<1> QED BY <1>1, <1>2, TypesInvType, PTL DEF ZoneSpec

-----------------------------------------------------------------------------
(***************************************************************************)
(* The tree, read off the array of an inode and the contents of blocks.    *)
(***************************************************************************)
Places == Leaf \cup IndexPlace
Up(p) == IF p[3] # None THEN <<p[1], p[2], None>> ELSE <<p[1], None, None>>
Last(p) == IF p[3] # None THEN p[3] ELSE IF p[2] # None THEN p[2] ELSE p[1]

HeldIn(z, k, p) ==
    LET one == z[p[1]]
        two == IF one \in Block THEN k[one][p[2]] ELSE 0
    IN  IF p[2] = None THEN one
        ELSE IF p[3] = None THEN two
        ELSE IF two \in Block THEN k[two][p[3]] ELSE 0

\* The visit that frees the block at a place.
Exit(p) == IF p \in Leaf THEN p
           ELSE IF p[2] = None THEN <<p[1], Indexes, None>> ELSE <<p[1], p[2], Indexes>>

Behind(v) == {p \in Places : ~Before(v, Exit(p))}

\* The place at which bmap looks, and the one it came from.
Prefix(p, n) == IF n = 1 THEN <<p[1], None, None>>
                ELSE IF n = 2 THEN <<p[1], p[2], None>> ELSE p
PathOf(c) == Path(c.pos \div Indexes)
PlaceAt(c) == Prefix(PathOf(c), c.depth)

-----------------------------------------------------------------------------
Exclusive == \A t, u \in Task :
    pc[t] # "user" /\ pc[u] # "user" /\ call[t].inode = call[u].inode => t = u

Owns(i, p) == p \in Places /\ Held(i, p) # 0 /\ p \notin Freed(i)

Marked(n) == n \in Block /\ \E x \in zmap : NumberOf(x) = n

\* What is in a tree is marked and nowhere else.
OwnedOnce ==
    /\ \A i \in Inode, p \in Places : Owns(i, p) => Marked(Held(i, p))
    /\ \A i, j \in Inode, p, q \in Places :
          Owns(i, p) /\ Owns(j, q) /\ Held(i, p) = Held(j, q) => i = j /\ p = q

\* A new block is marked, empty and nowhere.
NewOnce ==
    /\ \A t \in Allocating : Marked(call[t].nr) /\ content[call[t].nr] = Empty
    /\ \A t, u \in Allocating : call[t].nr = call[u].nr => t = u
    /\ \A t \in Allocating, i \in Inode, p \in Places : Owns(i, p) => Held(i, p) # call[t].nr

Covered ==
    /\ <<0, 0>> \in zmap
    /\ \A x \in zmap \ {<<0, 0>>} :
          \/ \E i \in Inode, p \in Places : Owns(i, p) /\ Held(i, p) = NumberOf(x)
          \/ \E t \in Allocating : call[t].nr = NumberOf(x)

\* bmap is where the path leads.
Following(t) ==
    LET c == call[t] IN
    pc[t] \in {"balloc", "release", "index", "data"} =>
        /\ c.depth # 1 => c.at = Held(c.inode, Prefix(PathOf(c), c.depth - 1))
        /\ pc[t] = "balloc" => Held(c.inode, PlaceAt(c)) = 0
        /\ pc[t] = "data" => c.nr = Held(c.inode, PathOf(c)) /\ c.nr # 0

\* inode_truncate is in the blocks above its visit.
Inside(c, i, v) ==
    /\ c.one = (IF v[2] = None THEN 0 ELSE Held(i, <<v[1], None, None>>))
    /\ c.two = (IF v[3] = None THEN 0 ELSE Held(i, <<v[1], v[2], None>>))
    /\ v[2] # None => c.one # 0
    /\ v[3] # None => c.two # 0
    /\ \A s \in Slot : s < v[1] => zone[i][s] = 0

Emptying(t) ==
    LET c == call[t] IN
    /\ pc[t] \in {"enter", "bfree"} => Inside(c, c.inode, c.visit)
    /\ pc[t] = "enter" => c.nr = Held(c.inode, c.visit)
    /\ pc[t] = "bfree" => c.nr = Held(c.inode, PlaceOf(c.visit))
    /\ pc[t] = "sync" /\ c.op = "truncate" =>
          size[c.inode] = 0 /\ \A s \in Slot : zone[c.inode][s] = 0

BlocksInv ==
    /\ OwnedOnce
    /\ NewOnce
    /\ Covered

(***************************************************************************)
(* Every block is at most at one place of one file, every call is where    *)
(* its path or its visit leads, and no two work on one file.               *)
(***************************************************************************)
TreeInv ==
    /\ Exclusive
    /\ BlocksInv
    /\ \A t \in Task : Following(t)
    /\ \A t \in Task : Emptying(t)
    /\ stopped # "unmarked"

LEMMA PlaceShape ==
    ASSUME NEW p \in Places
    PROVE  /\ p = <<p[1], p[2], p[3]>> /\ p \in Visits /\ p \notin Leaving
           /\ p[1] \in Slot /\ p[2] \in {None} \cup Cells /\ p[3] \in {None} \cup Cells
           /\ p[2] = None => p[3] = None
           /\ p[2] # None => p[1] \in {Direct, Direct + 1}
           /\ p[3] # None => p[1] = Direct + 1
           /\ p \in Leaf <=> \/ p[1] < Direct
                             \/ p[1] = Direct /\ p[2] # None
                             \/ p[1] = Direct + 1 /\ p[3] # None
           /\ p \in IndexPlace <=> p \notin Leaf
<1>1. p \in Visits
  BY DEF Places, Visits
<1>2. p \notin Leaving
  BY Constants DEF Places, Leaf, IndexPlace, Leaving
<1>3. /\ p = <<p[1], p[2], p[3]>>
      /\ p[1] \in Slot /\ p[2] \in {None} \cup Cells /\ p[3] \in {None} \cup Cells
      /\ p[2] = None => p[3] = None
      /\ p[2] # None => p[1] \in {Direct, Direct + 1}
      /\ p[3] # None => p[1] = Direct + 1 /\ p[2] # None
  BY Constants DEF Places, Leaf, IndexPlace
<1>4. /\ p \in Leaf <=> \/ p[1] < Direct
                        \/ p[1] = Direct /\ p[2] # None
                        \/ p[1] = Direct + 1 /\ p[3] # None
  BY <1>1, <1>3, Shapes, Constants
<1>5. p \in IndexPlace <=> p \notin Leaf
  <2>1. p \in IndexPlace <=> \/ p[1] >= Direct /\ p[2] = None
                             \/ p[1] = Direct + 1 /\ p[2] \in Cells /\ p[3] = None
    BY <1>1, Shapes
  <2>2. p[1] \in Nat /\ Direct \in Nat /\ p[1] <= Direct + 1 /\ None \notin Cells
    BY <1>3, Constants
  <2> QED BY ONLY <1>3, <1>4, <2>1, <2>2
<1> QED BY <1>1, <1>2, <1>3, <1>4, <1>5

LEMMA UpIs ==
    ASSUME NEW p \in Places, p[2] # None
    PROVE  /\ Up(p) \in Places /\ Up(p) \in IndexPlace /\ Up(p)[1] = p[1]
           /\ Last(p) \in Cells
           /\ p[3] = None => Up(p)[2] = None /\ Up(p)[3] = None /\ Last(p) = p[2]
           /\ p[3] # None => Up(p)[2] = p[2] /\ Up(p)[3] = None /\ Last(p) = p[3]
<1>1. /\ p[1] \in {Direct, Direct + 1} /\ p[2] \in Cells
      /\ p[3] # None => p[1] = Direct + 1 /\ p[3] \in Cells
  BY PlaceShape
<1>2. CASE p[3] = None
  BY <1>1, <1>2, MakeVisit DEF Up, Last, Places
<1>3. CASE p[3] # None
  BY <1>1, <1>3, MakeVisit DEF Up, Last, Places
<1> QED BY <1>2, <1>3

\* A place is given by the one above it and the index there.
LEMMA UpInjective ==
    ASSUME NEW p \in Places, NEW q \in Places, p[2] # None, q[2] # None,
           Up(p) = Up(q), Last(p) = Last(q)
    PROVE  p = q
<1>1. /\ p = <<p[1], p[2], p[3]>> /\ q = <<q[1], q[2], q[3]>>
      /\ p[1] = q[1]
  BY PlaceShape, UpIs
<1>2. p[3] = None <=> q[3] = None
  BY UpIs
<1>3. p[2] = q[2] /\ p[3] = q[3]
  BY <1>2, UpIs
<1> QED BY <1>1, <1>3

\* Of two indexes looked up on the way to a place.
LEMMA HeldSteps ==
    ASSUME NEW p \in Places, NEW z, NEW k
    PROVE  /\ p[2] = None => HeldIn(z, k, p) = z[p[1]]
           /\ p[2] # None /\ HeldIn(z, k, Up(p)) \in Block =>
                HeldIn(z, k, p) = k[HeldIn(z, k, Up(p))][Last(p)]
           /\ p[2] # None /\ HeldIn(z, k, Up(p)) \notin Block => HeldIn(z, k, p) = 0
<1>1. CASE p[2] = None
  BY <1>1 DEF HeldIn
<1>2. CASE p[2] # None /\ p[3] = None
  <2>1. Up(p) = <<p[1], None, None>> /\ Last(p) = p[2]
    BY <1>2 DEF Up, Last
  <2>2. HeldIn(z, k, Up(p)) = z[p[1]]
    BY <2>1 DEF HeldIn
  <2> QED BY <1>2, <2>1, <2>2 DEF HeldIn
<1>3. CASE p[2] # None /\ p[3] # None
  <2>1. Up(p) = <<p[1], p[2], None>> /\ Last(p) = p[3]
    BY <1>3 DEF Up, Last
  <2>2. HeldIn(z, k, Up(p)) = IF z[p[1]] \in Block THEN k[z[p[1]]][p[2]] ELSE 0
    BY <1>3, <2>1 DEF HeldIn
  <2> QED BY <1>3, <2>1, <2>2 DEF HeldIn
<1>4. p[2] = None => p[3] = None
  BY PlaceShape
<1> QED BY <1>1, <1>2, <1>3, <1>4

LEMMA HeldNat ==
    ASSUME NEW p \in Places, NEW z \in [Slot -> Nat], NEW k \in [Block -> [Cells -> Nat]]
    PROVE  HeldIn(z, k, p) \in Nat
<1>1. p[1] \in Slot
  BY PlaceShape
<1>2. p[2] # None => Last(p) \in Cells
  BY UpIs
<1> QED BY <1>1, <1>2, HeldSteps

LEMMA HeldIs ==
    /\ \A i, p : Held(i, p) = HeldIn(zone[i], content, p)
    /\ \A i, p : Held(i, p)' = HeldIn(zone'[i], content', p)
BY DEF Held, HeldIn

-----------------------------------------------------------------------------
LEMMA VisitOrder ==
    /\ \A v \in Visits \cup {Start} : ~Before(v, v)
    /\ \A v, w \in Visits \cup {Start} : v = w \/ Before(v, w) \/ Before(w, v)
    /\ \A v, w, x \in Visits \cup {Start} : Before(v, w) /\ Before(w, x) => Before(v, x)
    /\ \A v, w \in Visits \cup {Start} : ~(Before(v, w) /\ Before(w, v))
    /\ \A v \in Visits : Before(Start, v)
<1>1. \A v \in Visits \cup {Start} :
          v = <<v[1], v[2], v[3]>> /\ v[1] \in Int /\ v[2] \in Int /\ v[3] \in Int
  <2>1. \A v \in Visits : v = <<v[1], v[2], v[3]>> /\ v[1] \in Int /\ v[2] \in Int /\ v[3] \in Int
    <3> TAKE v \in Visits
    <3>1. v = <<v[1], v[2], v[3]>> /\ v[1] \in Slot /\ v[2] \in -1..Indexes /\ v[3] \in -1..Indexes
      BY Shapes
    <3> QED BY <3>1, Constants
  <2> QED BY <2>1, Constants DEF Start
<1>2. ASSUME NEW v \in Visits PROVE Before(Start, v)
  <2>1. v[1] \in Nat
    BY Shapes, Constants
  <2> QED BY <2>1, Constants DEF Before, Start
<1> QED BY <1>1, <1>2 DEF Before

LEMMA ExitIs ==
    ASSUME NEW p \in Places
    PROVE  /\ Exit(p) \in Leaf \cup Leaving /\ PlaceOf(Exit(p)) = p
           /\ Exit(p) \in Visits /\ Exit(p)[1] = p[1]
           /\ p \in Leaf => Exit(p) = p
           /\ p \notin Leaf => Exit(p) \in Leaving
           /\ p \notin Leaf /\ p[2] = None => Exit(p) = <<p[1], Indexes, None>>
           /\ p \notin Leaf /\ p[2] # None => Exit(p) = <<p[1], p[2], Indexes>>
<1>1. CASE p \in Leaf
  BY <1>1, PlaceShape, PlaceIs DEF Exit
<1>2. CASE p \notin Leaf /\ p[2] = None
  <2>1. Exit(p) = <<p[1], Indexes, None>>
    BY <1>2 DEF Exit
  <2>2. p[1] \in {Direct, Direct + 1} /\ p = <<p[1], None, None>>
    BY <1>2, PlaceShape, Constants
  <2>3. Exit(p) \in Leaving
    BY <2>1, <2>2, MakeVisit
  <2>4. PlaceOf(Exit(p)) = p
    BY <2>1, <2>2, Constants DEF PlaceOf
  <2> QED BY <1>2, <2>1, <2>3, <2>4 DEF Visits
<1>3. CASE p \notin Leaf /\ p[2] # None
  <2>1. Exit(p) = <<p[1], p[2], Indexes>>
    BY <1>3 DEF Exit
  <2>2. p[1] = Direct + 1 /\ p[2] \in Cells /\ p[3] = None /\ p = <<p[1], p[2], p[3]>>
    BY <1>3, PlaceShape
  <2>3. Exit(p) \in Leaving
    BY <2>1, <2>2, MakeVisit
  <2>4. PlaceOf(Exit(p)) = p
    BY <2>1, <2>2 DEF PlaceOf
  <2> QED BY <1>3, <2>1, <2>3, <2>4 DEF Visits
<1> QED BY <1>1, <1>2, <1>3

LEMMA ExitOf ==
    ASSUME NEW v \in Leaf \cup Leaving
    PROVE  PlaceOf(v) \in Places /\ Exit(PlaceOf(v)) = v /\ v \in Visits
<1>1. v \in Visits
  BY DEF Visits
<1>2. PlaceOf(v) \in Places
  BY <1>1, PlaceIs DEF Places
<1>3. CASE v \in Leaf
  <2>1. v \in Places /\ v \notin Leaving
    BY <1>3, PlaceShape DEF Places
  <2>2. PlaceOf(v) = v
    BY <1>1, <2>1, PlaceIs
  <2> QED BY <1>1, <1>2, <1>3, <2>2, ExitIs
<1>4. CASE v \in Leaving
  <2>1. PlaceOf(v) \in IndexPlace /\ PlaceOf(v) \notin Leaf
    BY <1>1, <1>2, <1>4, PlaceIs, PlaceShape
  <2>2. /\ v = <<v[1], v[2], v[3]>> /\ (v[2] = None => v[3] = None)
        /\ v[2] = Indexes \/ v[3] = Indexes
        /\ v[3] # None => v[2] \in Cells
    BY <1>1, <1>4, Shapes
  <2>3. CASE v[3] = Indexes
    <3>1. v[2] \in Cells /\ PlaceOf(v) = <<v[1], v[2], None>>
      BY <2>2, <2>3, Constants DEF PlaceOf
    <3>2. Exit(PlaceOf(v)) = <<v[1], v[2], Indexes>>
      BY <1>2, <2>1, <3>1, ExitIs, Constants
    <3> QED BY <1>1, <1>2, <2>2, <2>3, <3>2
  <2>4. CASE v[3] # Indexes
    <3>1. v[2] = Indexes /\ v[3] = None /\ PlaceOf(v) = <<v[1], None, None>>
      BY <2>2, <2>4, Constants DEF PlaceOf
    <3>2. Exit(PlaceOf(v)) = <<v[1], Indexes, None>>
      BY <1>2, <2>1, <3>1, ExitIs
    <3> QED BY <1>1, <1>2, <2>2, <3>1, <3>2
  <2> QED BY <2>3, <2>4
<1> QED BY <1>3, <1>4

LEMMA ExitUp ==
    ASSUME NEW p \in Places, p[2] # None
    PROVE  Before(Exit(p), Exit(Up(p)))
<1>1. /\ Up(p) \in Places /\ Up(p) \notin Leaf /\ Up(p)[1] = p[1]
      /\ p[1] \in Int /\ p[2] \in Cells /\ Indexes \in Nat
  BY UpIs, PlaceShape, Constants
<1>2. CASE p[3] = None
  <2>1. Exit(Up(p)) = <<p[1], Indexes, None>>
    BY <1>1, <1>2, UpIs, ExitIs
  <2>2. Exit(p)[1] = p[1] /\ Exit(p)[2] = p[2]
    BY <1>2, ExitIs
  <2> QED BY <1>1, <2>1, <2>2, Constants DEF Before
<1>3. CASE p[3] # None
  <2>1. Exit(Up(p)) = <<p[1], p[2], Indexes>>
    BY <1>1, <1>3, UpIs, ExitIs
  <2>2. p \in Leaf /\ p[3] \in Cells
    BY <1>3, PlaceShape
  <2>3. Exit(p) = p
    BY <2>2, ExitIs
  <2> QED BY <1>1, <2>1, <2>2, <2>3, Constants DEF Before
<1> QED BY <1>2, <1>3

\* What is above an unfreed place is not freed either.
LEMMA Downward ==
    ASSUME NEW v \in Visits \cup {Start}, NEW p \in Places, p[2] # None, p \notin Behind(v)
    PROVE  Up(p) \notin Behind(v)
<1>1. Before(v, Exit(p)) /\ Before(Exit(p), Exit(Up(p)))
  BY ExitUp DEF Behind
<1>2. Exit(p) \in Visits /\ Exit(Up(p)) \in Visits
  BY ExitIs, UpIs
<1> QED BY <1>1, <1>2, VisitOrder DEF Behind

LEMMA BehindStart == Behind(Start) = {}
BY VisitOrder, ExitIs DEF Behind

LEMMA FreedIs ==
    ASSUME NEW i
    PROVE  Freed(i) = {p \in Places : \E t \in Task : /\ call[t].op = "truncate"
                                                      /\ call[t].inode = i
                                                      /\ p \in Behind(call[t].visit)}
<1>1. ASSUME NEW p \in Places, NEW w
      PROVE  (\E v \in Leaf \cup Leaving : PlaceOf(v) = p /\ ~Before(w, v)) <=> p \in Behind(w)
  BY ExitIs, ExitOf DEF Behind
<1> QED BY <1>1 DEF Freed, Places

(***************************************************************************)
(* inode_truncate behind a visit: c has the blocks it is in, and what it   *)
(* has left behind in the inode is 0.                                      *)
(***************************************************************************)
WithinOne(v) == v[1] >= Direct /\ v[2] # Indexes
WithinTwo(v) == v[1] = Direct + 1 /\ v[2] \in Cells /\ v[3] # Indexes

Ready(c, z) ==
    /\ c \in Truncation /\ z \in [Slot -> Nat]
    /\ IF WithinOne(c.visit) THEN c.one \in Block /\ c.one = z[c.visit[1]] ELSE c.one = 0
    /\ IF WithinTwo(c.visit) THEN c.two \in Block /\ c.two = content[c.one][c.visit[2]]
                             ELSE c.two = 0
    /\ \A s \in Slot : s < c.visit[1] => z[s] = 0
    /\ c.visit \in Visits /\ ~WithinOne(c.visit) => z[c.visit[1]] = 0

DueOf(c, z) == {v \in Visits : Before(c.visit, v) /\ Due(c, v, z)}

\* The shape of where it is.
LEMMA AtVisit ==
    ASSUME NEW c, NEW z, Ready(c, z)
    PROVE  /\ c.visit \in Visits \cup {Start} /\ c.visit = <<c.visit[1], c.visit[2], c.visit[3]>>
           /\ c.visit[1] \in Int /\ c.visit[2] \in Int /\ c.visit[3] \in Int
           /\ c.visit[2] = None => c.visit[3] = None
           /\ c.visit[1] < Direct => c.visit[2] = None
           /\ c.visit[3] # None => c.visit[1] = Direct + 1 /\ c.visit[2] \in Cells
           /\ c.visit[1] >= Direct => c.visit \in Visits /\ c.visit[1] \in {Direct, Direct + 1}
           /\ c.visit[1] >= 0 => c.visit \in Visits
           /\ c.visit[1] <= Direct + 1 /\ c.visit[2] <= Indexes /\ c.visit[3] <= Indexes
           /\ c.visit[1] >= -1 /\ c.visit[2] >= -1 /\ c.visit[3] >= -1
           /\ WithinTwo(c.visit) => WithinOne(c.visit)
<1> USE Constants
<1>1. c.visit \in Visits \cup {Start}
  BY DEF Ready, Truncation
<1>2. CASE c.visit = Start
  BY <1>2 DEF Start, WithinTwo, WithinOne
<1>3. CASE c.visit \in Visits
  <2>1. PICK v \in Visits : v = c.visit
    BY <1>3
  <2>2. /\ v = <<v[1], v[2], v[3]>>
        /\ v[1] \in Slot /\ v[2] \in -1..Indexes /\ v[3] \in -1..Indexes
        /\ v[2] = None => v[3] = None
        /\ v[1] < Direct => v[2] = None
        /\ v[3] # None => v[1] = Direct + 1 /\ v[2] \in Cells
    BY Shapes
  <2> QED BY <2>1, <2>2 DEF WithinTwo, WithinOne
<1> QED BY <1>1, <1>2, <1>3

\* The end of the loop it is in is due.
LEMMA LeavingDue ==
    ASSUME NEW c, NEW z, Ready(c, z)
    PROVE  /\ c.one # 0 => <<c.visit[1], Indexes, None>> \in DueOf(c, z) /\ c.visit[1] \in {Direct, Direct + 1}
           /\ c.two # 0 => <<c.visit[1], c.visit[2], Indexes>> \in DueOf(c, z) /\ c.one # 0
                           /\ c.visit[1] = Direct + 1 /\ c.visit[2] \in Cells
           /\ c.one # 0 <=> WithinOne(c.visit)
           /\ c.two # 0 <=> WithinTwo(c.visit)
<1>1. /\ c.one # 0 <=> WithinOne(c.visit)
      /\ c.two # 0 <=> WithinTwo(c.visit)
  BY BlocksAre DEF Ready
<1>2. ASSUME c.one # 0
      PROVE  <<c.visit[1], Indexes, None>> \in DueOf(c, z) /\ c.visit[1] \in {Direct, Direct + 1}
  <2>1. c.visit[1] >= Direct /\ c.visit[2] # Indexes
    BY <1>1, <1>2 DEF WithinOne
  <2>2. c.visit[1] \in {Direct, Direct + 1}
    BY <2>1, AtVisit
  <2>3. <<c.visit[1], Indexes, None>> \in Leaving
    BY <2>2, MakeVisit
  <2>4. Before(c.visit, <<c.visit[1], Indexes, None>>)
    BY <2>1, AtVisit, Constants DEF Before
  <2>5. Due(c, <<c.visit[1], Indexes, None>>, z)
    BY <1>2, <2>3 DEF Due
  <2> QED BY <2>2, <2>3, <2>4, <2>5 DEF DueOf, Visits
<1>3. ASSUME c.two # 0
      PROVE  /\ <<c.visit[1], c.visit[2], Indexes>> \in DueOf(c, z) /\ c.one # 0
             /\ c.visit[1] = Direct + 1 /\ c.visit[2] \in Cells
  <2>1. c.visit[1] = Direct + 1 /\ c.visit[2] \in Cells /\ c.visit[3] # Indexes /\ c.one # 0
    BY <1>1, <1>3, AtVisit DEF WithinTwo
  <2>2. <<c.visit[1], c.visit[2], Indexes>> \in Leaving
    BY <2>1, MakeVisit
  <2>3. Before(c.visit, <<c.visit[1], c.visit[2], Indexes>>)
    BY <2>1, AtVisit, Constants DEF Before
  <2>4. Due(c, <<c.visit[1], c.visit[2], Indexes>>, z)
    BY <1>3, <2>1, <2>2 DEF Due
  <2> QED BY <2>1, <2>2, <2>3, <2>4 DEF DueOf, Visits
<1> QED BY <1>1, <1>2, <1>3

\* A slot ahead with a number in it is due.
LEMMA SlotDue ==
    ASSUME NEW c, NEW z, Ready(c, z), NEW s \in Slot, c.visit[1] < s, z[s] # 0
    PROVE  <<s, None, None>> \in DueOf(c, z)
<1>1. <<s, None, None>> \in Visits
  BY MakeVisit DEF Visits
<1>2. Before(c.visit, <<s, None, None>>)
  BY DEF Before
<1>3. Due(c, <<s, None, None>>, z)
  BY DEF Due, EntryAt
<1> QED BY <1>1, <1>2, <1>3 DEF DueOf

\* Nothing is due any more: the inode is empty.
LEMMA NoneDue ==
    ASSUME NEW c, NEW z, Ready(c, z), DueOf(c, z) = {}
    PROVE  \A s \in Slot : z[s] = 0
<1> TAKE s \in Slot
<1>1. s \in Int /\ s >= 0 /\ c.visit[1] \in Int
  BY AtVisit, Constants
<1>2. CASE s < c.visit[1]
  BY <1>2 DEF Ready
<1>3. CASE s = c.visit[1]
  <2>1. c.visit \in Visits
    BY <1>1, <1>3, AtVisit
  <2>2. ~WithinOne(c.visit)
    BY LeavingDue
  <2> QED BY <1>3, <2>1, <2>2 DEF Ready
<1>4. CASE c.visit[1] < s
  BY <1>4, SlotDue
<1> QED BY <1>1, <1>2, <1>3, <1>4

-----------------------------------------------------------------------------
\* The first visit that is due, and what was left out on the way to it.
First(c, z, v) == v \in DueOf(c, z) /\ \A u \in DueOf(c, z) : u = v \/ Before(v, u)

LEMMA VisitShape ==
    ASSUME NEW v \in Visits
    PROVE  /\ v = <<v[1], v[2], v[3]>> /\ v[1] \in Int /\ v[2] \in Int /\ v[3] \in Int
           /\ v[2] = None => v[3] = None
           /\ v[1] \in Slot /\ v[1] >= 0 /\ v[2] >= -1 /\ v[3] >= -1
           /\ v[2] <= Indexes /\ v[3] <= Indexes
           /\ v[2] # None => v[1] \in {Direct, Direct + 1}
           /\ v[3] # None => v[1] = Direct + 1 /\ v[2] \in Cells
<1>1. /\ v = <<v[1], v[2], v[3]>>
      /\ v[1] \in Slot /\ v[2] \in -1..Indexes /\ v[3] \in -1..Indexes
      /\ v[2] = None => v[3] = None
      /\ v[1] < Direct => v[2] = None
      /\ v[3] # None => v[1] = Direct + 1 /\ v[2] \in Cells
  BY Shapes
<1> QED BY <1>1, Constants

LEMMA FirstWithin ==
    ASSUME NEW c, NEW z, Ready(c, z), NEW v, First(c, z, v)
    PROVE  /\ v \in Visits /\ Before(c.visit, v) /\ Due(c, v, z)
           /\ v[2] = None => c.one = 0
           /\ v[2] # None => c.one \in Block /\ c.one = z[v[1]] /\ c.visit[1] = v[1]
           /\ v[3] = None => c.two = 0
           /\ v[3] # None => c.two \in Block /\ c.two = content[c.one][v[2]] /\ c.visit[2] = v[2]
<1> USE Constants
<1>1. v \in Visits /\ Before(c.visit, v) /\ Due(c, v, z)
  BY DEF First, DueOf
<1>2. /\ c.one # 0 => c.visit[1] = v[1] /\ v[2] # None
  <2> SUFFICES ASSUME c.one # 0 PROVE c.visit[1] = v[1] /\ v[2] # None
    OBVIOUS
  <2>1. PICK w : w = <<c.visit[1], Indexes, None>>
    OBVIOUS
  <2>2. v = w \/ Before(v, w)
    BY <2>1, LeavingDue DEF First
  <2>3. c.visit[1] = v[1]
    BY <1>1, <2>1, <2>2, VisitShape, AtVisit DEF Before
  <2>4. ASSUME v[2] = None PROVE FALSE
    <3>1. v[3] = None
      BY <1>1, <2>4, VisitShape
    <3> QED BY <1>1, <2>3, <2>4, <3>1, AtVisit DEF Before
  <2> QED BY <2>3, <2>4
<1>3. /\ c.two # 0 => c.visit[2] = v[2] /\ v[3] # None
  <2> SUFFICES ASSUME c.two # 0 PROVE c.visit[2] = v[2] /\ v[3] # None
    OBVIOUS
  <2>1. PICK w : w = <<c.visit[1], c.visit[2], Indexes>>
    OBVIOUS
  <2>2. v = w \/ Before(v, w)
    BY <2>1, LeavingDue DEF First
  <2>3. c.visit[1] = v[1] /\ c.visit[2] = v[2]
    BY <1>1, <2>1, <2>2, VisitShape, AtVisit DEF Before
  <2> QED BY <1>1, <2>3, AtVisit DEF Before
<1>4. ASSUME v[2] # None PROVE c.one \in Block /\ c.one = z[v[1]] /\ c.visit[1] = v[1]
  <2>1. c.one # 0
    BY <1>1, <1>4 DEF Due
  <2> QED BY <1>2, <2>1, LeavingDue DEF Ready
<1>5. ASSUME v[3] # None
      PROVE  c.two \in Block /\ c.two = content[c.one][v[2]] /\ c.visit[2] = v[2]
  <2>1. c.two # 0
    BY <1>1, <1>5 DEF Due
  <2> QED BY <1>3, <2>1, LeavingDue DEF Ready
<1> QED BY <1>1, <1>2, <1>3, <1>4, <1>5

LEMMA FirstEntry ==
    ASSUME NEW c, NEW z, Ready(c, z), NEW v, First(c, z, v)
    PROVE  /\ EntryAt(c, v, z) = HeldIn(z, content, PlaceOf(v))
           /\ HeldIn(z, content, PlaceOf(v)) # 0
<1> USE Constants
<1>1. /\ v \in Visits /\ Due(c, v, z)
      /\ v[2] # None => c.one \in Block /\ c.one # 0 /\ c.one = z[v[1]]
      /\ v[3] # None => c.two \in Block /\ c.two # 0 /\ c.two = content[c.one][v[2]]
  BY FirstWithin, BlocksAre
<1>2. v \in Leaving <=> v[2] = Indexes \/ v[3] = Indexes
  BY <1>1, Shapes
<1>3. v[3] # None => v[2] \in Cells
  BY <1>1, VisitShape
<1>4. v = <<v[1], v[2], v[3]>> /\ (v[2] = None => v[3] = None)
  BY <1>1, VisitShape
<1>5. CASE v[2] = None \/ v[2] = Indexes
  <2>1. v[3] = None
    BY <1>3, <1>4, <1>5
  <2>2. PlaceOf(v) = <<v[1], None, None>>
    BY <1>4, <1>5, <2>1 DEF PlaceOf
  <2>3. HeldIn(z, content, PlaceOf(v)) = z[v[1]] /\ EntryAt(c, v, z) = z[v[1]]
    BY <1>5, <2>2 DEF HeldIn, EntryAt
  <2>4. z[v[1]] # 0
    BY <1>1, <1>2, <1>5, <2>1, <2>3 DEF Due
  <2> QED BY <2>3, <2>4
<1>6. CASE v[2] # None /\ v[2] # Indexes /\ (v[3] = None \/ v[3] = Indexes)
  <2>1. PlaceOf(v) = <<v[1], v[2], None>>
    BY <1>4, <1>6 DEF PlaceOf
  <2>2. /\ HeldIn(z, content, PlaceOf(v)) = content[c.one][v[2]]
        /\ EntryAt(c, v, z) = content[c.one][v[2]]
    BY <1>1, <1>6, <2>1 DEF HeldIn, EntryAt
  <2>3. content[c.one][v[2]] # 0
    BY <1>1, <1>2, <1>6, <2>2 DEF Due
  <2> QED BY <2>2, <2>3
<1>7. CASE v[2] # None /\ v[2] # Indexes /\ v[3] # None /\ v[3] # Indexes
  <2>1. PlaceOf(v) = v
    BY <1>7 DEF PlaceOf
  <2>2. HeldIn(z, content, v) = content[c.two][v[3]] /\ EntryAt(c, v, z) = content[c.two][v[3]]
    BY <1>1, <1>7 DEF HeldIn, EntryAt
  <2>3. content[c.two][v[3]] # 0
    BY <1>1, <1>2, <1>7, <2>2 DEF Due
  <2> QED BY <2>1, <2>2, <2>3
<1> QED BY <1>5, <1>6, <1>7

LEMMA FirstBehind ==
    ASSUME NEW c, NEW z, Ready(c, z), NEW v, First(c, z, v)
    PROVE  \A s \in Slot : s < v[1] => z[s] = 0
<1> TAKE s \in Slot
<1> HAVE s < v[1]
<1>1. /\ s \in Int /\ s >= 0 /\ c.visit[1] \in Int /\ v[1] \in Int
      /\ v \in Visits /\ Before(c.visit, v)
  BY AtVisit, FirstWithin, VisitShape, Constants
<1>2. CASE s < c.visit[1]
  BY <1>2 DEF Ready
<1>3. CASE s = c.visit[1]
  <2>1. c.visit \in Visits
    BY <1>1, <1>3, AtVisit
  <2>2. ASSUME c.one # 0 PROVE FALSE
    <3>1. PICK w : w = <<c.visit[1], Indexes, None>>
      OBVIOUS
    <3>2. v = w \/ Before(v, w)
      BY <2>2, <3>1, LeavingDue DEF First
    <3> QED BY <1>1, <1>3, <3>1, <3>2 DEF Before
  <2>3. ~WithinOne(c.visit)
    BY <2>2, LeavingDue
  <2> QED BY <1>3, <2>1, <2>3 DEF Ready
<1>4. CASE c.visit[1] < s
  <2>1. ASSUME z[s] # 0 PROVE FALSE
    <3>1. PICK w : w = <<s, None, None>>
      OBVIOUS
    <3>2. v = w \/ Before(v, w)
      BY <1>4, <2>1, <3>1, SlotDue DEF First
    <3> QED BY <1>1, <3>1, <3>2 DEF Before
  <2> QED BY <2>1
<1> QED BY <1>1, <1>2, <1>3, <1>4

LEMMA EnterLeave ==
    ASSUME NEW p \in IndexPlace
    PROVE  p \in Visits /\ p \in Places /\ Before(p, Exit(p)) /\ PlaceOf(p) = p
<1>1. p \in Places /\ p \in Visits
  BY DEF Places, Visits
<1>2. p \notin Leaf /\ p \notin Leaving
  BY <1>1, PlaceShape
<1>3. PlaceOf(p) = p
  BY <1>1, <1>2, PlaceIs
<1>4. p[1] \in Int /\ p[2] \in Int /\ p[3] \in Int /\ p[2] <= Indexes - 1 /\ p[3] <= Indexes - 1
  BY <1>1, PlaceShape, Constants
<1>5. CASE p[2] = None
  <2>1. Exit(p) = <<p[1], Indexes, None>>
    BY <1>1, <1>2, <1>5, ExitIs
  <2> QED BY <1>1, <1>3, <1>4, <2>1, Constants DEF Before
<1>6. CASE p[2] # None
  <2>1. Exit(p) = <<p[1], p[2], Indexes>>
    BY <1>1, <1>2, <1>6, ExitIs
  <2> QED BY <1>1, <1>3, <1>4, <2>1, Constants DEF Before
<1> QED BY <1>5, <1>6

\* The place of the first visit was not freed before.
LEMMA FirstAhead ==
    ASSUME NEW c, NEW z, Ready(c, z), NEW v, First(c, z, v)
    PROVE  PlaceOf(v) \in Places /\ PlaceOf(v) \notin Behind(c.visit)
<1>1. v \in Visits /\ Before(c.visit, v) /\ c.visit \in Visits \cup {Start}
  BY FirstWithin, AtVisit
<1>2. CASE v \in Leaf \cup Leaving
  BY <1>1, <1>2, ExitOf DEF Behind
<1>3. CASE v \in IndexPlace
  <2>1. v \in Places /\ Before(v, Exit(v)) /\ PlaceOf(v) = v /\ Exit(v) \in Visits
    BY <1>3, EnterLeave, ExitIs
  <2>2. Before(c.visit, Exit(v))
    BY <1>1, <2>1, VisitOrder
  <2> QED BY <2>1, <2>2 DEF Behind
<1> QED BY <1>1, <1>2, <1>3 DEF Visits

\* What a visit leaves unfreed is free of blocks, but for the place of the visit itself.
LEMMA FirstSkips ==
    ASSUME DiskInv, NEW c, NEW z, Ready(c, z), NEW v, First(c, z, v), NEW p \in Places,
           p \notin Behind(c.visit), p \in Behind(v)
    PROVE  HeldIn(z, content, p) = 0 \/ (p = PlaceOf(v) /\ v \notin IndexPlace)
<1> USE Constants
<1> DEFINE e == Exit(p)
<1>1. /\ e \in Leaf \cup Leaving /\ e \in Visits /\ PlaceOf(e) = p /\ e[1] = p[1]
      /\ Before(c.visit, e) /\ ~Before(v, e)
      /\ v \in Visits /\ Before(c.visit, v) /\ c.visit \in Visits \cup {Start}
  BY ExitIs, FirstWithin, AtVisit DEF Behind
<1>2. CASE e = v
  <2>1. v \notin IndexPlace
    <3>1. ASSUME v \in IndexPlace PROVE FALSE
      <4>1. PlaceOf(v) = v /\ Before(v, Exit(v))
        BY <3>1, EnterLeave
      <4>2. p = v
        BY <1>1, <1>2, <4>1
      <4> QED BY <1>1, <1>2, <4>1, <4>2, VisitOrder
    <3> QED BY <3>1
  <2> QED BY <1>1, <1>2, <2>1
<1>3. CASE Before(e, v)
  <2>1. \A w \in DueOf(c, z) : ~Before(w, v)
    BY <1>1, VisitOrder DEF First, DueOf
  <2>2. /\ p = <<p[1], p[2], p[3]>> /\ p[1] \in Int /\ p[1] \in Slot /\ p[2] \in Int /\ p[3] \in Int
        /\ p[2] \in {None} \cup Cells /\ p[3] \in {None} \cup Cells
        /\ (p[2] = None => p[3] = None)
    BY PlaceShape
  <2>3. /\ v[1] \in Int /\ v[2] \in Int /\ v[3] \in Int /\ v[2] >= -1 /\ v[3] >= -1
        /\ v[3] # None => v[2] \in Cells
        /\ v[2] = None => v[3] = None
    BY <1>1, VisitShape
  <2>4. CASE p[1] < v[1]
    <3>1. z[p[1]] = 0 /\ 0 \notin Block
      BY <2>2, <2>4, FirstBehind, BlocksAre
    <3> QED BY <3>1 DEF HeldIn
  <2>5. CASE p[1] = v[1]
    <3>1. /\ e[2] \in Int /\ e[3] \in Int /\ e[2] >= -1 /\ e[3] >= -1
          /\ e[2] <= Indexes /\ e[3] <= Indexes
          /\ e[2] < v[2] \/ (e[2] = v[2] /\ e[3] < v[3])
      <4>1. /\ e[2] \in Int /\ e[3] \in Int /\ e[2] >= -1 /\ e[3] >= -1
            /\ e[2] <= Indexes /\ e[3] <= Indexes
        BY <1>1, VisitShape
      <4> HIDE DEF e
      <4> QED BY <1>1, <1>3, <2>2, <2>3, <2>5, <4>1 DEF Before
    <3>2. v[2] # None
      BY <2>3, <3>1
    <3>3. c.one \in Block /\ c.one = z[p[1]] /\ c.visit[1] = p[1]
      BY <2>5, <3>2, FirstWithin
    <3>4. v[1] \in {Direct, Direct + 1} /\ v[2] <= Indexes
      BY <1>1, <3>2, VisitShape
    <3>5. p[2] \in Cells
      <4>1. ASSUME p[2] = None PROVE FALSE
        <5>1. p \notin Leaf
          BY <2>2, <2>5, <3>4, <4>1, PlaceShape
        <5>2. e[2] = Indexes /\ e[3] = None
          BY <4>1, <5>1, ExitIs
        <5> QED BY <2>3, <3>1, <3>4, <5>2
      <4> QED BY <2>2, <4>1
    <3>6. c.one # 0
      BY <3>3, BlocksAre
    \* The entry of one level up is looked at first, unless it is behind.
    <3>7. \A q \in Visits : Before(c.visit, q) /\ Before(q, v) => ~Due(c, q, z)
      BY <2>1 DEF DueOf
    <3>8. CASE p[3] = None
      <4>1. HeldIn(z, content, p) = content[c.one][p[2]]
        BY <3>3, <3>5, <3>8 DEF HeldIn
      <4>2. CASE Before(c.visit, p)
        <5>1. p \in Visits /\ Before(p, v)
          <6>1. p = e \/ Before(p, e)
            BY ExitIs, EnterLeave, PlaceShape
          <6>2. p \in Visits
            BY PlaceShape
          <6> QED BY <1>1, <1>3, <6>1, <6>2, VisitOrder
        <5>2. ~Due(c, p, z)
          BY <3>7, <4>2, <5>1
        <5>3. EntryAt(c, p, z) = content[c.one][p[2]]
          BY <3>5, <3>8 DEF EntryAt
        <5> QED BY <3>6, <3>8, <4>1, <5>2, <5>3 DEF Due
      <4>3. CASE ~Before(c.visit, p)
        <5>1. p \notin Leaf
          BY <1>1, <4>3, ExitIs
        <5>2. e = <<p[1], p[2], Indexes>> /\ p[1] = Direct + 1
          BY <3>5, <5>1, ExitIs, PlaceShape
        <5>3. c.visit[2] = p[2] /\ c.visit[3] < Indexes
          <6>1. /\ c.visit[1] \in Int /\ c.visit[2] \in Int /\ c.visit[3] \in Int
            BY AtVisit
          <6>2. /\ c.visit[2] < p[2] \/ (c.visit[2] = p[2] /\ c.visit[3] < Indexes)
            BY <1>1, <2>2, <3>3, <5>2, <6>1 DEF Before
          <6>3. ~(c.visit[2] < p[2])
            BY <2>2, <3>3, <4>3, <6>1 DEF Before
          <6> QED BY <6>2, <6>3
        <5>4. WithinTwo(c.visit)
          BY <3>3, <3>5, <5>2, <5>3, AtVisit DEF WithinTwo
        <5>5. e \in DueOf(c, z)
          <6>1. c.two # 0
            BY <5>4, LeavingDue
          <6> QED BY <3>3, <5>2, <5>3, <6>1, LeavingDue
        <5> QED BY <1>3, <2>1, <5>5
      <4> QED BY <4>2, <4>3
    <3>9. CASE p[3] # None
      <4>1. p \in Leaf /\ p[1] = Direct + 1 /\ p[3] \in Cells /\ e = p
        BY <2>2, <3>9, PlaceShape, ExitIs
      <4> DEFINE u == content[c.one][p[2]]
      <4>2. HeldIn(z, content, p) = IF u \in Block THEN content[u][p[3]] ELSE 0
        BY <3>3, <3>5, <3>9 DEF HeldIn
      <4>3. CASE c.two = 0
        <5>1. PICK q : q = <<p[1], p[2], None>>
          OBVIOUS
        <5>2. q \in IndexPlace /\ q \in Visits
          BY <3>5, <4>1, <5>1, MakeVisit DEF Visits
        <5>3. Before(q, p)
          BY <2>2, <4>1, <5>1 DEF Before
        <5>4. Before(q, v)
          BY <1>1, <1>3, <4>1, <5>2, <5>3, VisitOrder
        <5>5. CASE Before(c.visit, q)
          <6>1. ~Due(c, q, z)
            BY <3>7, <5>2, <5>4, <5>5
          <6>2. EntryAt(c, q, z) = u /\ q[3] = None
            BY <3>5, <5>1 DEF EntryAt
          <6>3. u = 0
            BY <3>6, <6>1, <6>2 DEF Due
          <6> QED BY <4>2, <6>3, BlocksAre
        <5>6. CASE ~Before(c.visit, q)
          <6>1. /\ c.visit[1] \in Int /\ c.visit[2] \in Int /\ c.visit[3] \in Int
            BY AtVisit
          <6>2. c.visit[2] = p[2] /\ c.visit[3] < p[3]
            <7>1. q[1] = p[1] /\ q[2] = p[2]
              BY <5>1
            <7>2. c.visit[2] < p[2] \/ (c.visit[2] = p[2] /\ c.visit[3] < p[3])
              BY <1>1, <2>2, <3>3, <4>1, <6>1 DEF Before
            <7>3. ~(c.visit[2] < p[2])
              BY <2>2, <3>3, <5>6, <6>1, <7>1 DEF Before
            <7> QED BY <7>2, <7>3
          <6>3. c.visit[3] # Indexes
            BY <4>1, <6>1, <6>2
          <6>4. WithinTwo(c.visit)
            BY <3>3, <3>5, <4>1, <6>2, <6>3 DEF WithinTwo
          <6> QED BY <4>3, <6>4, LeavingDue
        <5> QED BY <5>5, <5>6
      <4>4. CASE c.two # 0
        <5>1. WithinTwo(c.visit) /\ c.two \in Block /\ c.two = content[c.one][c.visit[2]]
          BY <4>4, LeavingDue DEF Ready
        <5>2. PICK w : w = <<c.visit[1], c.visit[2], Indexes>> /\ w \in DueOf(c, z)
          BY <4>4, LeavingDue
        <5>3. c.visit[2] = p[2]
          <6>1. v = w \/ Before(v, w)
            BY <5>2 DEF First
          <6>2. Before(p, w)
            BY <1>1, <1>3, <4>1, <5>2, <6>1, VisitOrder DEF DueOf
          <6>3. /\ c.visit[1] \in Int /\ c.visit[2] \in Int /\ c.visit[3] \in Int
                /\ w[1] = p[1] /\ w[2] = c.visit[2]
            BY <3>3, <5>2, AtVisit
          <6>4. ~(p[2] > c.visit[2])
            BY <2>2, <6>2, <6>3 DEF Before
          <6>5. ~(p[2] < c.visit[2])
            BY <1>1, <2>2, <3>3, <4>1, <6>3 DEF Before
          <6> QED BY <2>2, <6>3, <6>4, <6>5
        <5>4. c.two = u
          BY <5>1, <5>3
        <5>5. ~Due(c, p, z)
          BY <1>1, <1>3, <3>7, <4>1
        <5>6. EntryAt(c, p, z) = content[c.two][p[3]]
          BY <3>5, <4>1 DEF EntryAt
        <5>7. content[c.two][p[3]] = 0
          BY <3>6, <4>4, <5>5, <5>6 DEF Due
        <5> QED BY <4>2, <5>4, <5>7
      <4> QED BY <4>3, <4>4
    <3> QED BY <3>8, <3>9
  <2>6. ~(p[1] > v[1])
    BY <1>1, <1>3, <2>2, <2>3 DEF Before
  <2> QED BY <2>2, <2>3, <2>4, <2>5, <2>6
<1>4. e = v \/ Before(e, v)
  BY <1>1, VisitOrder
<1> QED BY <1>2, <1>3, <1>4

\* The one bitmap block of the disk has a bit for every number, so that balloc
\* and bfree, which count the blocks of a bitmap differently, agree.
OneMap == Maps = 1 /\ Zones <= BlockBits + 1

\* The bits of one bitmap block, and their numbers.
LEMMA BitsAre ==
    ASSUME OneMap
    PROVE  /\ \A x \in Bit : /\ x = <<0, x[2]>> /\ NumberOf(x) = FirstZone - 1 + x[2] /\ x[2] \in Nat
                             /\ NumberOf(x) \in Nat /\ NumberOf(x) <= BlockBits
                             /\ x[1] * Stride + FirstZone - 1 + x[2] = NumberOf(x)
           /\ \A x, y \in Bit : NumberOf(x) = NumberOf(y) => x = y
           /\ <<0, 0>> \in Bit /\ NumberOf(<<0, 0>>) = FirstZone - 1
           /\ \A x \in Bit \ {<<0, 0>>} : NumberOf(x) \in Block
<1>1. FirstZone \in Nat \ {0} /\ Zones \in Nat /\ BlockBits \in Nat \ {0} /\ Stride \in Nat
      /\ FirstZone < Zones
  BY ZoneAssumption
<1>2. ASSUME NEW x \in Bit
      PROVE  /\ x = <<0, x[2]>> /\ NumberOf(x) = FirstZone - 1 + x[2] /\ x[2] \in Nat
             /\ NumberOf(x) \in Nat /\ NumberOf(x) <= BlockBits
             /\ x[1] * Stride + FirstZone - 1 + x[2] = NumberOf(x)
  <2>1. /\ x \in (0..(Maps - 1)) \X (0..(BlockBits - 1)) /\ NumberOf(x) < Zones
    BY DEF Bit
  <2>2. x[1] = 0 /\ x[2] \in Nat /\ x = <<x[1], x[2]>>
    BY <1>1, <2>1 DEF OneMap
  <2>3. NumberOf(x) = FirstZone - 1 + x[2] /\ x[1] * Stride + FirstZone - 1 + x[2] = FirstZone - 1 + x[2]
    BY <1>1, <2>2 DEF NumberOf
  <2> QED BY <1>1, <2>1, <2>2, <2>3 DEF OneMap
<1>3. \A x, y \in Bit : NumberOf(x) = NumberOf(y) => x = y
  BY <1>1, <1>2
<1>4. <<0, 0>> \in Bit /\ NumberOf(<<0, 0>>) = FirstZone - 1
  <2>1. NumberOf(<<0, 0>>) = FirstZone - 1
    BY <1>1 DEF NumberOf
  <2> QED BY <1>1, <2>1 DEF Bit, OneMap
<1>5. ASSUME NEW x \in Bit \ {<<0, 0>>} PROVE NumberOf(x) \in Block
  BY <1>3, <1>4, <1>5 DEF Block
<1> QED BY <1>2, <1>3, <1>4, <1>5

\* With one bitmap block, bfree finds the bit of any block that is marked.
LEMMA MarkedFound ==
    ASSUME OneMap, DiskInv, NEW n, Marked(n)
    PROVE  IsMarked(n)
<1>1. PICK x \in zmap : NumberOf(x) = n
  BY DEF Marked
<1>2. x \in Bit /\ x[1] = 0 /\ n \in Nat /\ n <= BlockBits
  BY <1>1, BitsAre DEF DiskInv
<1>3. n <= BlockBits * (x[1] + 1)
  BY <1>2, ZoneAssumption
<1> QED BY <1>1, <1>2, <1>3 DEF IsMarked

LEMMA FreedNext ==
    ASSUME NEW i
    PROVE  Freed(i)' = {p \in Places : \E t \in Task : /\ call'[t].op = "truncate"
                                                       /\ call'[t].inode = i
                                                       /\ p \in Behind(call'[t].visit)}
<1>1. ASSUME NEW p \in Places, NEW w
      PROVE  (\E v \in Leaf \cup Leaving : PlaceOf(v) = p /\ ~Before(w, v)) <=> p \in Behind(w)
  BY ExitIs, ExitOf DEF Behind
<1> QED BY <1>1 DEF Freed, Places

\* The visit of a call that empties a file.
LEMMA TruncatingVisit ==
    ASSUME CallsInv, NEW t \in Task, call[t].op = "truncate"
    PROVE  call[t] \in Truncation /\ call[t].visit \in Visits \cup {Start} /\ pc[t] # "user"
           /\ call[t].inode \in Inode
BY CallKinds DEF CallsInv, CallOK, TransferOK, TruncationOK, Truncation

LEMMA FreedDownward ==
    ASSUME CallsInv, NEW i, NEW p \in Places, p[2] # None, Up(p) \in Freed(i)
    PROVE  p \in Freed(i)
<1>1. PICK t \in Task : call[t].op = "truncate" /\ call[t].inode = i /\ Up(p) \in Behind(call[t].visit)
  BY FreedIs
<1>2. p \in Behind(call[t].visit)
  BY <1>1, TruncatingVisit, Downward
<1> QED BY <1>1, <1>2, FreedIs

\* What is freed of the file that a call empties, and of the others.
LEMMA FreedOf ==
    ASSUME CallsInv, Exclusive, NEW t \in Task, pc[t] # "user"
    PROVE  Freed(call[t].inode) = IF call[t].op = "truncate" THEN Behind(call[t].visit) ELSE {}
<1>1. ASSUME NEW u \in Task, call[u].op = "truncate", call[u].inode = call[t].inode
      PROVE  u = t
  BY <1>1, TruncatingVisit DEF Exclusive
<1>2. \A v : Behind(v) \subseteq Places
  BY DEF Behind
<1>3. CASE call[t].op = "truncate"
  BY <1>1, <1>2, <1>3, FreedIs
<1>4. CASE call[t].op # "truncate"
  BY <1>1, <1>4, FreedIs
<1> QED BY <1>3, <1>4

-----------------------------------------------------------------------------
(***************************************************************************)
(* A change of blocks that are no index blocks of a file changes nothing   *)
(* in its tree, down to the places below those that are not freed.         *)
(***************************************************************************)
Steady(i) == \A p \in Places : p[2] = None \/ Up(p) \notin Freed(i) => Held(i, p)' = Held(i, p)

LEMMA TreeFrame ==
    ASSUME TypesInv, NEW i \in Inode, zone'[i] = zone[i], NEW S,
           \A b \in Block \ S : content'[b] = content[b],
           \A p \in IndexPlace : Owns(i, p) => Held(i, p) \notin S
    PROVE  Steady(i)
<1>1. ASSUME NEW p \in Places, p[2] # None, Up(p) \notin Freed(i), Held(i, Up(p))' = Held(i, Up(p))
      PROVE  Held(i, p)' = Held(i, p)
  <2>1. Up(p) \in Places /\ Up(p) \in IndexPlace
    BY <1>1, UpIs
  <2>2. HeldIn(zone'[i], content', Up(p)) = HeldIn(zone[i], content, Up(p))
    BY <1>1, HeldIs
  <2>3. CASE HeldIn(zone[i], content, Up(p)) \in Block
    <3>1. Owns(i, Up(p))
      BY <1>1, <2>1, <2>3, HeldIs, BlocksAre DEF Owns
    <3>2. content'[HeldIn(zone[i], content, Up(p))] = content[HeldIn(zone[i], content, Up(p))]
      BY <2>1, <2>3, <3>1, HeldIs
    <3> QED BY <1>1, <2>2, <2>3, <3>2, HeldSteps, HeldIs
  <2>4. CASE HeldIn(zone[i], content, Up(p)) \notin Block
    BY <1>1, <2>2, <2>4, HeldSteps, HeldIs
  <2> QED BY <2>3, <2>4
<1>2. ASSUME NEW p \in Places, p[2] = None
      PROVE  Held(i, p)' = Held(i, p)
  BY <1>2, HeldSteps, HeldIs
<1>3. ASSUME NEW p \in Places, p[2] # None, p[3] = None, Up(p) \notin Freed(i)
      PROVE  Held(i, p)' = Held(i, p)
  BY <1>1, <1>2, <1>3, UpIs
<1>4. ASSUME NEW p \in Places, p[2] # None, p[3] # None, Up(p) \notin Freed(i)
      PROVE  Held(i, p)' = Held(i, p)
  <2>1. Up(p) \in Places /\ Up(p)[2] # None /\ Up(p)[3] = None
    BY <1>4, UpIs
  <2>2. Up(Up(p)) \notin Freed(i)
    BY <1>4, <2>1, FreedDownward DEF TypesInv
  <2> QED BY <1>1, <1>3, <1>4, <2>1, <2>2
<1> QED BY <1>2, <1>3, <1>4 DEF Steady

LEMMA SteadyOwns ==
    ASSUME TypesInv, NEW i, Steady(i), Freed(i)' = Freed(i)
    PROVE  \A p \in Places : /\ Owns(i, p)' <=> Owns(i, p)
                             /\ Owns(i, p) => Held(i, p)' = Held(i, p)
<1> TAKE p \in Places
<1>1. ASSUME p \notin Freed(i) PROVE Held(i, p)' = Held(i, p)
  BY <1>1, FreedDownward DEF Steady, TypesInv
<1> QED BY <1>1 DEF Owns

-----------------------------------------------------------------------------
LEMMA PlaceUpFree ==
    ASSUME NEW v \in Visits
    PROVE  /\ v[2] # None => <<v[1], None, None>> \in Places
           /\ v[3] # None => /\ <<v[1], v[2], None>> \in Places
                             /\ Up(<<v[1], v[2], None>>) \notin Behind(v)
           /\ PlaceOf(v) \in Places
           /\ PlaceOf(v)[2] # None => Up(PlaceOf(v)) \notin Behind(v)
<1> USE Constants
<1>1. /\ v = <<v[1], v[2], v[3]>>
      /\ v[1] \in Slot /\ v[2] \in -1..Indexes /\ v[3] \in -1..Indexes
      /\ v[2] = None => v[3] = None
      /\ v[2] # None => v[1] \in {Direct, Direct + 1}
      /\ v[3] # None => v[1] = Direct + 1 /\ v[2] \in Cells
  BY Shapes, VisitShape
<1>2. v[2] # None => <<v[1], None, None>> \in Places
  BY <1>1, MakeVisit DEF Places
<1>3. ASSUME v[3] # None
      PROVE  /\ <<v[1], v[2], None>> \in Places
             /\ Up(<<v[1], v[2], None>>) \notin Behind(v)
  <2>1. PICK q : q = <<v[1], None, None>>
    OBVIOUS
  <2>2. <<v[1], v[2], None>> \in Places /\ q \in IndexPlace
    BY <1>1, <1>3, <2>1, MakeVisit DEF Places
  <2>3. Up(<<v[1], v[2], None>>) = q
    BY <2>1 DEF Up
  <2>4. Exit(q) = <<v[1], Indexes, None>>
    <3>1. q \in Places /\ q \notin Leaf /\ q[2] = None /\ q[1] = v[1]
      BY <2>1, <2>2, EnterLeave, PlaceShape
    <3> QED BY <3>1, ExitIs
  <2>5. Before(v, Exit(q))
    BY <1>1, <1>3, <2>4 DEF Before
  <2> QED BY <2>2, <2>3, <2>5 DEF Behind
<1>4. PlaceOf(v) \in Places
  BY PlaceIs DEF Places
<1>5. ASSUME PlaceOf(v)[2] # None PROVE Up(PlaceOf(v)) \notin Behind(v)
  <2>1. PICK p \in Places : p = PlaceOf(v)
    BY <1>4
  <2>2. Before(Exit(p), Exit(Up(p))) /\ Exit(p) \in Visits /\ Exit(Up(p)) \in Visits
    BY <1>5, <2>1, ExitUp, ExitIs, UpIs
  <2>3. v = Exit(p) \/ Before(v, Exit(p))
    <3>1. CASE v \in Leaf \cup Leaving
      BY <2>1, <3>1, ExitOf
    <3>2. CASE v \in IndexPlace
      BY <2>1, <3>2, EnterLeave
    <3> QED BY <3>1, <3>2 DEF Visits
  <2>4. Before(v, Exit(Up(p)))
    BY <2>2, <2>3, VisitOrder
  <2> QED BY <2>1, <2>4 DEF Behind
<1> QED BY <1>2, <1>3, <1>4, <1>5

\* Prefixes of a path are places.
LEMMA PrefixIs ==
    ASSUME NEW c, NEW label \in Locating, TransferOK(c, label)
    PROVE  /\ PathOf(c) \in Leaf /\ PathOf(c) \in Places
           /\ PlaceAt(c) \in Places
           /\ c.depth = 1 => PlaceAt(c)[2] = None /\ PlaceAt(c)[1] = Index(c)
           /\ c.depth # 1 => /\ PlaceAt(c)[2] # None /\ Last(PlaceAt(c)) = Index(c)
                             /\ Up(PlaceAt(c)) = Prefix(PathOf(c), c.depth - 1)
                             /\ Prefix(PathOf(c), c.depth - 1) \in Places
           /\ LastIndex(c) => PlaceAt(c) = PathOf(c)
           /\ ~LastIndex(c) => PlaceAt(c) \in IndexPlace
<1> USE Constants
<1>1. PICK p \in Leaf : p = PathOf(c)
  BY TargetIs DEF PathOf
<1>2. /\ c.depth \in 1..3 /\ Index(c) = p[c.depth] /\ p[c.depth] # None
      /\ LastIndex(c) <=> c.depth = 3 \/ p[c.depth + 1] = None
  BY <1>1 DEF TransferOK, Transfer, Index, PathOf, LastIndex
<1>3. /\ p \in Places /\ p = <<p[1], p[2], p[3]>> /\ p[1] \in Slot
      /\ p[2] = None => p[3] = None
      /\ p[2] # None => p[1] \in {Direct, Direct + 1} /\ p[2] \in Cells
      /\ p[3] # None => p[1] = Direct + 1 /\ p[3] \in Cells
      /\ \/ p[1] < Direct
         \/ p[1] = Direct /\ p[2] # None
         \/ p[1] = Direct + 1 /\ p[3] # None
  <2>1. p \in Places
    BY DEF Places
  <2> QED BY <2>1, PlaceShape
<1>4. CASE c.depth = 1
  <2>1. PlaceAt(c) = <<p[1], None, None>>
    BY <1>1, <1>4 DEF PlaceAt, Prefix
  <2>2. PlaceAt(c) \in Places
    BY <1>3, <2>1, MakeVisit DEF Places
  <2>3. LastIndex(c) => PlaceAt(c) = p
    BY <1>2, <1>3, <1>4, <2>1
  <2>4. ~LastIndex(c) => PlaceAt(c) \in IndexPlace
    <3> SUFFICES ASSUME ~LastIndex(c) PROVE PlaceAt(c) \in IndexPlace
      OBVIOUS
    <3>1. p[2] # None
      BY <1>2, <1>4
    <3>2. p[1] \in {Direct, Direct + 1}
      BY <1>3, <3>1
    <3> QED BY <2>1, <3>2, MakeVisit
  <2> QED BY <1>1, <1>2, <1>3, <1>4, <2>1, <2>2, <2>3, <2>4
<1>5. CASE c.depth = 2
  <2>1. PlaceAt(c) = <<p[1], p[2], None>> /\ Prefix(p, c.depth - 1) = <<p[1], None, None>>
    BY <1>1, <1>5 DEF PlaceAt, Prefix
  <2>2. p[2] # None
    BY <1>2, <1>5
  <2>3. PlaceAt(c) \in Places /\ <<p[1], None, None>> \in Places
    BY <1>3, <2>1, <2>2, MakeVisit DEF Places
  <2>4. Up(PlaceAt(c)) = <<p[1], None, None>> /\ Last(PlaceAt(c)) = p[2] /\ PlaceAt(c)[2] # None
    BY <2>1, <2>2 DEF Up, Last
  <2>5. LastIndex(c) => PlaceAt(c) = p
    BY <1>2, <1>3, <1>5, <2>1
  <2>6. ~LastIndex(c) => PlaceAt(c) \in IndexPlace
    <3> SUFFICES ASSUME ~LastIndex(c) PROVE PlaceAt(c) \in IndexPlace
      OBVIOUS
    <3>1. p[3] # None
      BY <1>2, <1>5
    <3>2. p[1] = Direct + 1 /\ p[2] \in Cells
      BY <1>3, <2>2, <3>1
    <3> QED BY <2>1, <3>2, MakeVisit
  <2> QED BY <1>1, <1>2, <1>3, <1>5, <2>1, <2>2, <2>3, <2>4, <2>5, <2>6
<1>6. CASE c.depth = 3
  <2>1. PlaceAt(c) = p /\ Prefix(p, c.depth - 1) = <<p[1], p[2], None>>
    BY <1>1, <1>6 DEF PlaceAt, Prefix
  <2>2. p[3] # None /\ p[2] # None
    BY <1>2, <1>3, <1>6
  <2>3. <<p[1], p[2], None>> \in Places
    BY <1>3, <2>2, MakeVisit DEF Places
  <2>4. Up(p) = <<p[1], p[2], None>> /\ Last(p) = p[3]
    BY <2>2 DEF Up, Last
  <2> QED BY <1>1, <1>2, <1>3, <1>6, <2>1, <2>2, <2>3, <2>4
<1> QED BY <1>2, <1>4, <1>5, <1>6

\* bmap reads the entry of the tree that it looks for.
LEMMA EntryHeld ==
    ASSUME TypesInv, NEW t \in Task, Following(t), pc[t] \in Locating
    PROVE  /\ TransferOK(call[t], pc[t])
           /\ Entry(call[t]) = Held(call[t].inode, PlaceAt(call[t]))
<1> DEFINE c == call[t]
<1>1. TransferOK(c, pc[t])
  BY DEF TypesInv, CallsInv, CallOK, TruncationOK, Locating
<1>2. CASE c.depth = 1
  <2>1. c.at = 0
    BY <1>1, <1>2 DEF TransferOK
  <2>2. PlaceAt(c) \in Places /\ PlaceAt(c)[2] = None /\ PlaceAt(c)[1] = Index(c)
    BY <1>1, <1>2, PrefixIs
  <2> QED BY <1>1, <2>1, <2>2, HeldIs, HeldSteps DEF Entry
<1>3. CASE c.depth # 1
  <2>1. c.at \in Block /\ c.at # 0
    BY <1>1, <1>3, IndexIs
  <2>2. c.at = Held(c.inode, Prefix(PathOf(c), c.depth - 1))
    BY <1>3 DEF Following, Locating
  <2>3. /\ PlaceAt(c) \in Places /\ PlaceAt(c)[2] # None /\ Last(PlaceAt(c)) = Index(c)
        /\ Up(PlaceAt(c)) = Prefix(PathOf(c), c.depth - 1)
    BY <1>1, <1>3, PrefixIs
  <2>4. Held(c.inode, Up(PlaceAt(c))) = c.at
    BY <2>2, <2>3
  <2>5. Held(c.inode, PlaceAt(c)) = content[c.at][Index(c)]
    BY <2>1, <2>3, <2>4, HeldIs, HeldSteps
  <2> QED BY <1>1, <2>1, <2>5 DEF Entry
<1> QED BY <1>2, <1>3

\* What holds of a task at work goes on to hold if its file stays steady.
LEMMA OtherTask ==
    ASSUME TypesInv, Exclusive, NEW t \in Task, Following(t), Emptying(t),
           pc'[t] = pc[t], call'[t] = call[t],
           pc[t] # "user" => LET i == call[t].inode
                             IN  zone'[i] = zone[i] /\ size'[i] = size[i] /\ Steady(i)
    PROVE  Following(t)' /\ Emptying(t)'
<1> DEFINE c == call[t]
           i == c.inode
<1>1. ASSUME pc[t] \in Locating PROVE Following(t)'
  <2>1. TransferOK(c, pc[t]) /\ c.op # "truncate"
    BY <1>1, EntryHeld, CallKinds DEF TransferOK
  <2>2. Freed(i) = {} /\ Steady(i)
    BY <1>1, <2>1, FreedOf DEF TypesInv, Locating
  <2>3. \A p \in Places : Held(i, p)' = Held(i, p)
    BY <2>2 DEF Steady
  <2>4. /\ PathOf(c) \in Places /\ PlaceAt(c) \in Places
        /\ c.depth # 1 => Prefix(PathOf(c), c.depth - 1) \in Places
    BY <1>1, <2>1, PrefixIs
  <2>5. /\ Held(i, PathOf(c))' = Held(i, PathOf(c))
        /\ Held(i, PlaceAt(c))' = Held(i, PlaceAt(c))
        /\ c.depth # 1 => Held(i, Prefix(PathOf(c), c.depth - 1))' = Held(i, Prefix(PathOf(c), c.depth - 1))
    BY <2>3, <2>4
  <2>6. call'[t] = c
    OBVIOUS
  <2>7. /\ c.depth # 1 => c.at = Held(i, Prefix(PathOf(c), c.depth - 1))
        /\ pc[t] = "balloc" => Held(i, PlaceAt(c)) = 0
        /\ pc[t] = "data" => c.nr = Held(i, PathOf(c)) /\ c.nr # 0
    BY <1>1 DEF Following, Locating
  <2> QED BY <2>5, <2>7, HeldIs DEF Following
<1>2. ASSUME pc[t] \in {"enter", "bfree"} PROVE Emptying(t)'
  <2>1. c \in Truncation /\ c.op = "truncate" /\ c.visit \in Visits
        /\ (pc[t] = "enter" => c.visit \in IndexPlace)
    BY <1>2, CallKinds DEF TypesInv, CallsInv, CallOK, TransferOK, TruncationOK, Locating, Visits
  <2>2. PICK v \in Visits : v = c.visit
    BY <2>1
  <2>3. Freed(i) = Behind(v) /\ Steady(i) /\ zone'[i] = zone[i]
    BY <1>2, <2>1, <2>2, FreedOf DEF TypesInv
  <2>4. v[2] # None => Held(i, <<v[1], None, None>>)' = Held(i, <<v[1], None, None>>)
    BY <2>3, PlaceUpFree DEF Steady
  <2>5. v[3] # None => Held(i, <<v[1], v[2], None>>)' = Held(i, <<v[1], v[2], None>>)
    BY <2>3, PlaceUpFree DEF Steady
  <2>6. Held(i, PlaceOf(v))' = Held(i, PlaceOf(v))
    BY <2>3, PlaceUpFree DEF Steady
  <2>7. pc[t] = "enter" => PlaceOf(v) = v
    BY <2>1, <2>2, EnterLeave
  <2>8. Inside(c, i, v)
    BY <1>2, <2>2 DEF Emptying
  <2>9. Inside(c, i, v)'
    BY <2>3, <2>4, <2>5, <2>8 DEF Inside
  <2>10. /\ pc[t] = "enter" => c.nr = Held(i, v)'
         /\ pc[t] = "bfree" => c.nr = Held(i, PlaceOf(v))'
    BY <1>2, <2>2, <2>6, <2>7 DEF Emptying
  <2> QED BY <1>2, <2>2, <2>9, <2>10 DEF Emptying, Inside
<1>3. CASE pc[t] \in Locating
  BY <1>1, <1>3 DEF Emptying, Locating
<1>4. CASE pc[t] \in {"enter", "bfree"}
  BY <1>2, <1>4 DEF Following
<1>5. CASE pc[t] \notin Locating \cup {"enter", "bfree"}
  BY <1>5 DEF Following, Emptying, Locating
<1> QED BY <1>3, <1>4, <1>5

-----------------------------------------------------------------------------
(***************************************************************************)
(* The four things that a step may do to the blocks: nothing, allocate     *)
(* one, put it into a tree, and free one.                                  *)
(***************************************************************************)
SameOwned == \A i \in Inode, p \in Places : /\ Owns(i, p)' <=> Owns(i, p)
                                            /\ Owns(i, p) => Held(i, p)' = Held(i, p)

SameNew(t) == /\ pc'[t] = "balloc" <=> pc[t] = "balloc"
              /\ pc[t] = "balloc" => /\ call'[t].nr = call[t].nr
                                     /\ content'[call[t].nr] = content[call[t].nr]

LEMMA KeepBlocks ==
    ASSUME BlocksInv, zmap' = zmap, SameOwned, \A t \in Task : SameNew(t)
    PROVE  BlocksInv'
<1>1. \A n : Marked(n) => n \in Block /\ \E x \in zmap' : NumberOf(x) = n
  BY DEF Marked
<1>2. OwnedOnce'
  <2>1. ASSUME NEW i \in Inode, NEW p \in Places, Owns(i, p)' PROVE Marked(Held(i, p))'
    <3>1. Owns(i, p) /\ Held(i, p)' = Held(i, p)
      BY <2>1 DEF SameOwned
    <3>2. Marked(Held(i, p))
      BY <3>1 DEF BlocksInv, OwnedOnce
    <3> QED BY <3>1, <3>2 DEF Marked
  <2>2. ASSUME NEW i \in Inode, NEW j \in Inode, NEW p \in Places, NEW q \in Places,
               Owns(i, p)', Owns(j, q)', Held(i, p)' = Held(j, q)'
        PROVE  i = j /\ p = q
    BY <2>2 DEF SameOwned, BlocksInv, OwnedOnce
  <2> QED BY <2>1, <2>2 DEF OwnedOnce
<1>3. NewOnce'
  <2>1. ASSUME NEW t \in Allocating'
        PROVE  /\ t \in Allocating /\ call'[t].nr = call[t].nr
               /\ content'[call[t].nr] = content[call[t].nr]
    BY <2>1 DEF SameNew, Allocating
  <2>2. ASSUME NEW t \in Allocating' PROVE Marked(call[t].nr)' /\ content'[call'[t].nr] = Empty
    <3>1. Marked(call[t].nr) /\ content[call[t].nr] = Empty
      BY <2>1 DEF BlocksInv, NewOnce
    <3> QED BY <2>1, <3>1 DEF Marked
  <2>3. \A t, u \in Allocating' : call'[t].nr = call'[u].nr => t = u
    BY <2>1 DEF BlocksInv, NewOnce
  <2>4. \A t \in Allocating', i \in Inode, p \in Places : Owns(i, p)' => Held(i, p)' # call'[t].nr
    BY <2>1 DEF BlocksInv, NewOnce, SameOwned
  <2> QED BY <2>2, <2>3, <2>4 DEF NewOnce
<1>4. Covered'
  <2>1. <<0, 0>> \in zmap'
    BY DEF BlocksInv, Covered
  <2>2. ASSUME NEW x \in zmap' \ {<<0, 0>>}
        PROVE  \/ \E i \in Inode, p \in Places : Owns(i, p)' /\ Held(i, p)' = NumberOf(x)
               \/ \E t \in Allocating' : call'[t].nr = NumberOf(x)
    <3>1. x \in zmap \ {<<0, 0>>}
      BY <2>2
    <3>2. CASE \E i \in Inode, p \in Places : Owns(i, p) /\ Held(i, p) = NumberOf(x)
      BY <3>2 DEF SameOwned
    <3>3. CASE \E t \in Allocating : call[t].nr = NumberOf(x)
      BY <3>3 DEF SameNew, Allocating
    <3> QED BY <3>1, <3>2, <3>3 DEF BlocksInv, Covered
  <2> QED BY <2>1, <2>2 DEF Covered, NumberOf
<1> QED BY <1>2, <1>3, <1>4 DEF BlocksInv

LEMMA NewBlock ==
    ASSUME OneMap, DiskInv, BlocksInv, SameOwned, NEW t \in Task, NEW x \in Bit \ zmap,
           zmap' = zmap \cup {x}, content' = [content EXCEPT ![NumberOf(x)] = Empty],
           pc[t] # "balloc", pc'[t] = "balloc", call'[t].nr = NumberOf(x),
           \A u \in Task \ {t} : pc'[u] = pc[u] /\ call'[u] = call[u]
    PROVE  BlocksInv'
<1> DEFINE nr == NumberOf(x)
<1>1. nr \in Block /\ ~Marked(nr) /\ x # <<0, 0>>
  <2>1. x # <<0, 0>>
    BY DEF BlocksInv, Covered
  <2>2. nr \in Block
    BY <2>1, BitsAre
  <2>3. ~Marked(nr)
    BY BitsAre DEF Marked, DiskInv
  <2> QED BY <2>1, <2>2, <2>3
<1>2. Allocating' = Allocating \cup {t} /\ t \notin Allocating
  BY DEF Allocating
<1>3. OwnedOnce'
  <2>1. ASSUME NEW i \in Inode, NEW p \in Places, Owns(i, p)' PROVE Marked(Held(i, p))'
    <3>1. Owns(i, p) /\ Held(i, p)' = Held(i, p)
      BY <2>1 DEF SameOwned
    <3>2. Marked(Held(i, p))
      BY <3>1 DEF BlocksInv, OwnedOnce
    <3> QED BY <3>1, <3>2 DEF Marked
  <2>2. ASSUME NEW i \in Inode, NEW j \in Inode, NEW p \in Places, NEW q \in Places,
               Owns(i, p)', Owns(j, q)', Held(i, p)' = Held(j, q)'
        PROVE  i = j /\ p = q
    BY <2>2 DEF SameOwned, BlocksInv, OwnedOnce
  <2> QED BY <2>1, <2>2 DEF OwnedOnce
<1>4. ASSUME NEW u \in Allocating
      PROVE  /\ call'[u].nr = call[u].nr /\ Marked(call[u].nr) /\ call[u].nr # nr
             /\ content'[call[u].nr] = Empty
  <2>1. Marked(call[u].nr) /\ content[call[u].nr] = Empty
    BY DEF BlocksInv, NewOnce
  <2>2. call[u].nr # nr /\ call[u].nr \in Block
    BY <1>1, <2>1 DEF Marked
  <2>3. call'[u] = call[u]
    BY <1>2 DEF Allocating
  <2> QED BY <2>1, <2>2, <2>3 DEF DiskInv
<1>5. NewOnce'
  <2>1. ASSUME NEW u \in Allocating' PROVE Marked(call[u].nr)' /\ content'[call'[u].nr] = Empty
    <3>1. CASE u = t
      BY <1>1, <3>1 DEF Marked, DiskInv
    <3>2. CASE u # t
      <4>1. u \in Allocating
        BY <1>2, <3>2
      <4> QED BY <1>4, <4>1 DEF Marked
    <3> QED BY <3>1, <3>2
  <2>2. \A u, w \in Allocating' : call'[u].nr = call'[w].nr => u = w
    BY <1>2, <1>4 DEF BlocksInv, NewOnce
  <2>3. ASSUME NEW u \in Allocating', NEW i \in Inode, NEW p \in Places, Owns(i, p)'
        PROVE  Held(i, p)' # call'[u].nr
    <3>1. Owns(i, p) /\ Held(i, p)' = Held(i, p)
      BY <2>3 DEF SameOwned
    <3>2. Marked(Held(i, p))
      BY <3>1 DEF BlocksInv, OwnedOnce
    <3>3. CASE u = t
      BY <1>1, <3>1, <3>2, <3>3
    <3>4. CASE u # t
      <4>1. u \in Allocating
        BY <1>2, <3>4
      <4> QED BY <1>4, <3>1, <4>1 DEF BlocksInv, NewOnce
    <3> QED BY <3>3, <3>4
  <2> QED BY <2>1, <2>2, <2>3 DEF NewOnce
<1>6. Covered'
  <2>1. <<0, 0>> \in zmap'
    BY DEF BlocksInv, Covered
  <2>2. ASSUME NEW y \in zmap' \ {<<0, 0>>}
        PROVE  \/ \E i \in Inode, p \in Places : Owns(i, p)' /\ Held(i, p)' = NumberOf(y)
               \/ \E u \in Allocating' : call'[u].nr = NumberOf(y)
    <3>1. CASE y = x
      BY <1>2, <3>1
    <3>2. CASE y \in zmap \ {<<0, 0>>}
      <4>1. CASE \E i \in Inode, p \in Places : Owns(i, p) /\ Held(i, p) = NumberOf(y)
        BY <4>1 DEF SameOwned
      <4>2. CASE \E u \in Allocating : call[u].nr = NumberOf(y)
        BY <1>2, <1>4, <4>2
      <4> QED BY <3>2, <4>1, <4>2 DEF BlocksInv, Covered
    <3> QED BY <2>2, <3>1, <3>2
  <2> QED BY <2>1, <2>2 DEF Covered, NumberOf
<1> QED BY <1>3, <1>5, <1>6 DEF BlocksInv

LEMMA NewPlace ==
    ASSUME BlocksInv, zmap' = zmap, NEW t \in Task, NEW i \in Inode, NEW p \in Places,
           pc[t] = "balloc", pc'[t] # "balloc", \A u \in Task \ {t} : SameNew(u),
           ~Owns(i, p), Owns(i, p)', Held(i, p)' = call[t].nr,
           \A j \in Inode, q \in Places : j # i \/ q # p =>
              (Owns(j, q)' <=> Owns(j, q)) /\ (Owns(j, q) => Held(j, q)' = Held(j, q))
    PROVE  BlocksInv'
<1> DEFINE nr == call[t].nr
<1>1. Allocating' = Allocating \ {t} /\ t \in Allocating
  BY DEF Allocating, SameNew
<1>2. \A j \in Inode, q \in Places :
          Owns(j, q)' => (j = i /\ q = p) \/ (Owns(j, q) /\ Held(j, q)' = Held(j, q))
  OBVIOUS
<1>3. \A j \in Inode, q \in Places : Owns(j, q) => Owns(j, q)' /\ Held(j, q)' = Held(j, q)
  OBVIOUS
<1>4. \A u \in Allocating' : /\ u \in Allocating /\ u # t /\ call'[u].nr = call[u].nr
                             /\ content'[call[u].nr] = content[call[u].nr]
  BY <1>1 DEF Allocating, SameNew
<1>5. /\ \A j \in Inode, q \in Places : Owns(j, q) => Marked(Held(j, q)) /\ Held(j, q) # nr
      /\ Marked(nr)
  BY <1>1 DEF BlocksInv, OwnedOnce, NewOnce
<1>6. OwnedOnce'
  <2>1. ASSUME NEW j \in Inode, NEW q \in Places, Owns(j, q)' PROVE Marked(Held(j, q))'
    <3>1. Held(j, q)' \in {nr, Held(j, q)} /\ Marked(Held(j, q)')
      BY <1>2, <1>5, <2>1
    <3> QED BY <3>1 DEF Marked
  <2>2. ASSUME NEW j \in Inode, NEW l \in Inode, NEW q \in Places, NEW r \in Places,
               Owns(j, q)', Owns(l, r)', Held(j, q)' = Held(l, r)'
        PROVE  j = l /\ q = r
    <3>1. CASE j = i /\ q = p
      BY <1>2, <1>5, <2>2, <3>1
    <3>2. CASE l = i /\ r = p
      BY <1>2, <1>5, <2>2, <3>2
    <3>3. CASE ~(j = i /\ q = p) /\ ~(l = i /\ r = p)
      BY <1>2, <2>2, <3>3 DEF BlocksInv, OwnedOnce
    <3> QED BY <3>1, <3>2, <3>3
  <2> QED BY <2>1, <2>2 DEF OwnedOnce
<1>7. NewOnce'
  <2>1. ASSUME NEW u \in Allocating' PROVE Marked(call[u].nr)' /\ content'[call'[u].nr] = Empty
    <3>1. Marked(call[u].nr) /\ content[call[u].nr] = Empty
      BY <1>4 DEF BlocksInv, NewOnce
    <3> QED BY <1>4, <3>1 DEF Marked
  <2>2. \A u, w \in Allocating' : call'[u].nr = call'[w].nr => u = w
    BY <1>4 DEF BlocksInv, NewOnce
  <2>3. ASSUME NEW u \in Allocating', NEW j \in Inode, NEW q \in Places, Owns(j, q)'
        PROVE  Held(j, q)' # call'[u].nr
    <3>1. CASE j = i /\ q = p
      BY <1>1, <1>4, <3>1 DEF BlocksInv, NewOnce
    <3>2. CASE ~(j = i /\ q = p)
      BY <1>2, <1>4, <2>3, <3>2 DEF BlocksInv, NewOnce
    <3> QED BY <3>1, <3>2
  <2> QED BY <2>1, <2>2, <2>3 DEF NewOnce
<1>8. Covered'
  <2>1. <<0, 0>> \in zmap'
    BY DEF BlocksInv, Covered
  <2>2. ASSUME NEW x \in zmap' \ {<<0, 0>>}
        PROVE  \/ \E j \in Inode, q \in Places : Owns(j, q)' /\ Held(j, q)' = NumberOf(x)
               \/ \E u \in Allocating' : call'[u].nr = NumberOf(x)
    <3>1. CASE \E j \in Inode, q \in Places : Owns(j, q) /\ Held(j, q) = NumberOf(x)
      BY <1>3, <3>1
    <3>2. CASE \E u \in Allocating : call[u].nr = NumberOf(x)
      <4>1. PICK u \in Allocating : call[u].nr = NumberOf(x)
        BY <3>2
      <4>2. CASE u = t
        BY <4>1, <4>2
      <4>3. CASE u # t
        <5>1. u \in Allocating' /\ call'[u].nr = call[u].nr
          BY <1>1, <1>4, <4>3
        <5> QED BY <4>1, <5>1
      <4> QED BY <4>2, <4>3
    <3> QED BY <2>2, <3>1, <3>2 DEF BlocksInv, Covered
  <2> QED BY <2>1, <2>2 DEF Covered, NumberOf
<1> QED BY <1>6, <1>7, <1>8 DEF BlocksInv

LEMMA OldBlock ==
    ASSUME OneMap, DiskInv, BlocksInv, NEW i \in Inode, NEW p \in Places, Owns(i, p),
           zmap' = bitmap_clear(zmap, Held(i, p)), \A t \in Task : SameNew(t), ~Owns(i, p)',
           \A j \in Inode, q \in Places : j # i \/ q # p =>
              (Owns(j, q)' <=> Owns(j, q)) /\ (Owns(j, q) => Held(j, q)' = Held(j, q))
    PROVE  BlocksInv'
<1> DEFINE nr == Held(i, p)
<1>1. Allocating' = Allocating
  BY DEF Allocating, SameNew
<1>2. \A j \in Inode, q \in Places : Owns(j, q)' =>
          Owns(j, q) /\ Held(j, q)' = Held(j, q) /\ ~(j = i /\ q = p)
  OBVIOUS
<1>3. \A j \in Inode, q \in Places : Owns(j, q) =>
          (j = i /\ q = p) \/ (Owns(j, q)' /\ Held(j, q)' = Held(j, q))
  OBVIOUS
<1>4. \A u \in Allocating : /\ call'[u].nr = call[u].nr
                            /\ content'[call[u].nr] = content[call[u].nr]
  BY DEF Allocating, SameNew
<1>5. \A n : Marked(n) /\ n # nr => n \in Block /\ \E x \in zmap' : NumberOf(x) = n
  BY DEF Marked, bitmap_clear
<1>6. nr \in Block
  BY DEF BlocksInv, OwnedOnce, Marked
<1>7. OwnedOnce'
  <2>1. ASSUME NEW j \in Inode, NEW q \in Places, Owns(j, q)' PROVE Marked(Held(j, q))'
    <3>1. Marked(Held(j, q)) /\ Held(j, q) # nr /\ Held(j, q)' = Held(j, q)
      BY <1>2, <2>1 DEF BlocksInv, OwnedOnce
    <3> QED BY <1>5, <3>1 DEF Marked
  <2>2. ASSUME NEW j \in Inode, NEW l \in Inode, NEW q \in Places, NEW r \in Places,
               Owns(j, q)', Owns(l, r)', Held(j, q)' = Held(l, r)'
        PROVE  j = l /\ q = r
    BY <1>2, <2>2 DEF BlocksInv, OwnedOnce
  <2> QED BY <2>1, <2>2 DEF OwnedOnce
<1>8. NewOnce'
  <2>1. ASSUME NEW u \in Allocating' PROVE Marked(call[u].nr)' /\ content'[call'[u].nr] = Empty
    <3>1. Marked(call[u].nr) /\ content[call[u].nr] = Empty /\ call[u].nr # nr
      BY <1>1 DEF BlocksInv, NewOnce
    <3>2. \E x \in zmap' : NumberOf(x) = call[u].nr
      BY <1>5, <3>1
    <3> QED BY <1>1, <1>4, <3>1, <3>2 DEF Marked
  <2>2. \A u, w \in Allocating' : call'[u].nr = call'[w].nr => u = w
    BY <1>1, <1>4 DEF BlocksInv, NewOnce
  <2>3. ASSUME NEW u \in Allocating', NEW j \in Inode, NEW q \in Places, Owns(j, q)'
        PROVE  Held(j, q)' # call'[u].nr
    BY <1>1, <1>2, <1>4, <2>3 DEF BlocksInv, NewOnce
  <2> QED BY <2>1, <2>2, <2>3 DEF NewOnce
<1>9. Covered'
  <2>1. <<0, 0>> \in zmap'
    <3>1. NumberOf(<<0, 0>>) = FirstZone - 1
      BY BitsAre
    <3>2. NumberOf(<<0, 0>>) # nr
      BY <1>6, <3>1 DEF Block
    <3> QED BY <3>2 DEF BlocksInv, Covered, bitmap_clear
  <2>2. ASSUME NEW x \in zmap' \ {<<0, 0>>}
        PROVE  \/ \E j \in Inode, q \in Places : Owns(j, q)' /\ Held(j, q)' = NumberOf(x)
               \/ \E u \in Allocating' : call'[u].nr = NumberOf(x)
    <3>1. x \in zmap \ {<<0, 0>>} /\ NumberOf(x) # nr
      BY <2>2 DEF bitmap_clear
    <3>2. CASE \E j \in Inode, q \in Places : Owns(j, q) /\ Held(j, q) = NumberOf(x)
      BY <1>3, <3>1, <3>2
    <3>3. CASE \E u \in Allocating : call[u].nr = NumberOf(x)
      BY <1>1, <1>4, <3>3
    <3> QED BY <3>1, <3>2, <3>3 DEF BlocksInv, Covered
  <2> QED BY <2>1, <2>2 DEF Covered, NumberOf
<1> QED BY <1>7, <1>8, <1>9 DEF BlocksInv

\* A task that has the file, or takes one that nobody has.
MayWork(t, i) == \/ pc[t] = "user" /\ Usable(i)
                 \/ pc[t] # "user" /\ call[t].inode = i

LEMMA ExclusiveStep ==
    ASSUME CallsInv, Exclusive, ~Sharing, NEW t \in Task, NEW c, NEW label,
           Proceed(t, c, label), label = "user" \/ MayWork(t, c.inode)
    PROVE  Exclusive'
<1>1. /\ pc'[t] = label /\ call'[t] = c
      /\ \A u \in Task : u # t => pc'[u] = pc[u] /\ call'[u] = call[u]
  BY DEF Proceed, CallsInv
<1>2. ASSUME NEW u \in Task, u # t, pc[u] # "user", label # "user" PROVE call[u].inode # c.inode
  BY <1>2 DEF MayWork, Usable, Exclusive
<1> QED BY <1>1, <1>2 DEF Exclusive

LEMMA FreedNone ==
    ASSUME CallsInv, Exclusive, ~Sharing, NEW t \in Task, NEW i, MayWork(t, i),
           call[t].op # "truncate"
    PROVE  Freed(i) = {}
<1>1. ASSUME NEW u \in Task, call[u].op = "truncate", call[u].inode = i PROVE FALSE
  BY <1>1, TruncatingVisit DEF MayWork, Usable, Exclusive
<1> QED BY <1>1, FreedIs

LEMMA FreedStep ==
    ASSUME CallsInv, NEW t \in Task, NEW c, NEW label, Proceed(t, c, label),
           call[t].op # "truncate", c.op # "truncate"
    PROVE  \A i : Freed(i)' = Freed(i)
<1>1. /\ call'[t] = c
      /\ \A u \in Task : u # t => call'[u] = call[u]
  BY DEF Proceed, CallsInv
<1>2. ASSUME NEW i, NEW p \in Places
      PROVE  (\E u \in Task : call'[u].op = "truncate" /\ call'[u].inode = i /\ p \in Behind(call'[u].visit))
             <=> (\E u \in Task : call[u].op = "truncate" /\ call[u].inode = i /\ p \in Behind(call[u].visit))
  BY <1>1
<1> QED BY <1>2, FreedIs, FreedNext

LEMMA FreedTo ==
    ASSUME CallsInv, Exclusive, ~Sharing, NEW t \in Task, NEW c, NEW label, Proceed(t, c, label),
           MayWork(t, c.inode), c.op = "truncate"
    PROVE  /\ Freed(c.inode)' = Behind(c.visit)
           /\ \A i : i # c.inode => Freed(i)' = Freed(i)
<1>1. /\ call'[t] = c
      /\ \A u \in Task : u # t => call'[u] = call[u]
  BY DEF Proceed, CallsInv
<1>2. \A p : p \in Behind(c.visit) => p \in Places
  BY DEF Behind
<1>3. ASSUME NEW u \in Task, u # t, call[u].op = "truncate" PROVE call[u].inode # c.inode
  BY <1>3, TruncatingVisit DEF MayWork, Usable, Exclusive
<1>4. call[t].op = "truncate" => call[t].inode = c.inode
  BY TruncatingVisit DEF MayWork
<1>5. ASSUME NEW p \in Places
      PROVE  (\E u \in Task : call'[u].op = "truncate" /\ call'[u].inode = c.inode /\ p \in Behind(call'[u].visit))
             <=> p \in Behind(c.visit)
  BY <1>1, <1>3
<1>6. Freed(c.inode)' = Behind(c.visit)
  BY <1>2, <1>5, FreedNext
<1>7. ASSUME NEW i, i # c.inode, NEW p \in Places
      PROVE  (\E u \in Task : call'[u].op = "truncate" /\ call'[u].inode = i /\ p \in Behind(call'[u].visit))
             <=> (\E u \in Task : call[u].op = "truncate" /\ call[u].inode = i /\ p \in Behind(call[u].visit))
  BY <1>1, <1>4, <1>7
<1>8. ASSUME NEW i, i # c.inode PROVE Freed(i)' = Freed(i)
  BY <1>7, <1>8, FreedIs, FreedNext
<1> QED BY <1>6, <1>8

LEMMA SameSteady ==
    ASSUME zone' = zone, content' = content
    PROVE  /\ \A i, p : Held(i, p)' = Held(i, p)
           /\ \A i : Steady(i)
BY HeldIs DEF Steady

\* The rest of the invariant after a step of task t.
LEMMA Together ==
    ASSUME TypesInv, TreeInv, ~Sharing, NEW t \in Task, NEW c, NEW label, Proceed(t, c, label),
           label = "user" \/ MayWork(t, c.inode),
           BlocksInv', Following(t)', Emptying(t)',
           \A u \in Task \ {t} : pc[u] # "user" =>
              LET i == call[u].inode IN zone'[i] = zone[i] /\ size'[i] = size[i] /\ Steady(i)
    PROVE  TreeInv'
<1>1. /\ stopped' = stopped
      /\ \A u \in Task : u # t => pc'[u] = pc[u] /\ call'[u] = call[u]
  BY DEF Proceed, TypesInv, CallsInv
<1>2. Exclusive'
  BY ExclusiveStep DEF TypesInv, TreeInv
<1>3. ASSUME NEW u \in Task PROVE Following(u)' /\ Emptying(u)'
  <2>1. CASE u = t
    BY <2>1
  <2>2. CASE u # t
    <3>1. Exclusive /\ Following(u) /\ Emptying(u)
      BY DEF TreeInv
    <3> QED BY <1>1, <2>2, <3>1, OtherTask
  <2> QED BY <2>1, <2>2
<1> QED BY <1>1, <1>2, <1>3 DEF TreeInv

LEMMA SameTree ==
    ASSUME TypesInv, TreeInv, UNCHANGED <<pc, call, zmap, zone, size, content>>, stopped' # "unmarked"
    PROVE  TreeInv'
<1>1. \A i, p : Held(i, p)' = Held(i, p)
  BY SameSteady
<1>2. \A i : Freed(i)' = Freed(i)
  BY FreedIs, FreedNext
<1>3. SameOwned
  BY <1>1, <1>2 DEF SameOwned, Owns
<1>4. \A t \in Task : SameNew(t)
  BY DEF SameNew
<1>5. BlocksInv'
  BY <1>3, <1>4, KeepBlocks DEF TreeInv
<1>6. Exclusive'
  BY DEF TreeInv, Exclusive
<1>7. ASSUME NEW t \in Task PROVE Following(t)' /\ Emptying(t)'
  BY SameSteady, OtherTask DEF TreeInv
<1> QED BY <1>5, <1>6, <1>7 DEF TreeInv

\* A step that leaves the disk alone.
LEMMA QuietStep ==
    ASSUME TypesInv, TreeInv, ~Sharing, NEW t \in Task, NEW c, NEW label, Proceed(t, c, label),
           label = "user" \/ MayWork(t, c.inode), label \notin {"balloc", "enter", "bfree"},
           pc[t] # "balloc",
           UNCHANGED <<zmap, zone, size, content>>,
           call[t].op # "truncate", c.op # "truncate",
           Following(t)'
    PROVE  TreeInv'
<1>1. /\ pc'[t] = label /\ call'[t] = c
      /\ \A u \in Task : u # t => pc'[u] = pc[u] /\ call'[u] = call[u]
  BY DEF Proceed, TypesInv, CallsInv
<1>2. SameOwned
  BY SameSteady, FreedStep DEF SameOwned, Owns, TypesInv
<1>3. ASSUME NEW u \in Task PROVE SameNew(u)
  BY <1>1 DEF SameNew
<1>4. BlocksInv'
  BY <1>2, <1>3, KeepBlocks DEF TreeInv
<1>5. Emptying(t)'
  BY <1>1 DEF Emptying
<1> QED BY <1>4, <1>5, SameSteady, Together

\* Nobody else has the file of a transfer, and nothing of it is freed.
LEMMA TransferTree ==
    ASSUME TypesInv, TreeInv, ~Sharing, NEW t \in Task, NEW c \in Transfer, MayWork(t, c.inode),
           call[t].op # "truncate", Steady(c.inode)
    PROVE  \A p \in Places : Held(c.inode, p)' = Held(c.inode, p)
<1>1. Freed(c.inode) = {}
  BY FreedNone DEF TypesInv, TreeInv
<1> QED BY <1>1 DEF Steady

\* bmap is where the path leads, before it has come to a label.
Looking(c) == c.depth # 1 => c.at = Held(c.inode, Prefix(PathOf(c), c.depth - 1))

LEMMA BallocStep ==
    ASSUME OneMap, Zeroed, ~Sharing, TypesInv, TreeInv, NEW t \in Task, NEW c,
           NEW label \in Locating, TransferOK(c, label),
           MayWork(t, c.inode), call[t].op # "truncate", pc[t] # "balloc",
           Looking(c), Held(c.inode, PlaceAt(c)) = 0, balloc(t, c)
    PROVE  TreeInv'
<1> DEFINE free == Bit \ zmap
           x == CHOOSE y \in free : \A z \in free : Earlier(y, z)
           nr == x[1] * Stride + FirstZone - 1 + x[2]
<1>1. CASE free = {}
  <2>1. Stop("full")
    BY <1>1 DEF balloc
  <2>2. stopped' # "unmarked" /\ UNCHANGED <<pc, call, zmap, zone, size, content>>
    BY <2>1 DEF Stop
  <2> QED BY <2>2, SameTree
<1>2. CASE free # {}
  <2>1. x \in free
    <3> HIDE DEF free
    <3>1. free \in SUBSET Bit
      BY DEF free
    <3> QED BY <1>2, <3>1, EarliestBit
  <2>2. /\ zmap' = bitmap_scan(zmap, x)
        /\ content' = [content EXCEPT ![nr] = Empty]
        /\ Proceed(t, [c EXCEPT !.nr = nr], "balloc")
        /\ UNCHANGED <<zone, size, offset>>
    BY <1>2 DEF balloc
  <2> HIDE DEF x
  <2>3. x \in Bit \ zmap /\ nr = NumberOf(x) /\ nr \in Nat
    BY <2>1, BitsAre
  <2> HIDE DEF nr
  <2>4. PICK d : d = [c EXCEPT !.nr = nr]
    OBVIOUS
  <2>5. /\ d \in Transfer /\ d.nr = nr /\ d.inode = c.inode /\ d.pos = c.pos
        /\ d.at = c.at /\ d.depth = c.depth /\ d.op # "truncate"
        /\ PlaceAt(d) = PlaceAt(c) /\ PathOf(d) = PathOf(c)
    <3>1. /\ d \in Transfer /\ d.nr = nr /\ d.inode = c.inode /\ d.pos = c.pos
          /\ d.at = c.at /\ d.depth = c.depth
      BY <2>3, <2>4 DEF TransferOK, Transfer
    <3> QED BY <3>1, CallKinds DEF PlaceAt, PathOf
  <2>6. /\ pc'[t] = "balloc" /\ call'[t] = d
        /\ \A u \in Task : u # t => pc'[u] = pc[u] /\ call'[u] = call[u]
    BY <2>2, <2>4 DEF Proceed, TypesInv, CallsInv
  <2>7. x # <<0, 0>> /\ nr \in Block /\ ~Marked(nr)
    <3>1. x # <<0, 0>>
      BY <2>3 DEF TreeInv, BlocksInv, Covered
    <3> QED BY <2>3, <3>1, BitsAre DEF Marked, TypesInv, DiskInv
  <2>8. ASSUME NEW i \in Inode PROVE Steady(i)
    <3>1. \A b \in Block \ {nr} : content'[b] = content[b]
      BY <2>2 DEF TypesInv, DiskInv
    <3>2. \A p \in IndexPlace : Owns(i, p) => Held(i, p) \notin {nr}
      BY <2>7 DEF Owns, TreeInv, BlocksInv, OwnedOnce
    <3> QED BY <2>2, <3>1, <3>2, TreeFrame
  <2>9. \A i : Freed(i)' = Freed(i)
    BY <2>2, <2>4, <2>5, FreedStep DEF TypesInv
  <2>10. SameOwned
    BY <2>8, <2>9, SteadyOwns DEF SameOwned
  <2>11. BlocksInv'
    <3>1. zmap' = zmap \cup {x} /\ content' = [content EXCEPT ![NumberOf(x)] = Empty]
      BY <2>2, <2>3 DEF bitmap_scan
    <3>2. pc[t] # "balloc" /\ pc'[t] = "balloc" /\ call'[t].nr = NumberOf(x)
      BY <2>3, <2>5, <2>6
    <3> QED BY <2>3, <2>6, <2>10, <3>1, <3>2, NewBlock DEF TypesInv, TreeInv
  <2>12. Following(t)' /\ Emptying(t)'
    <3>1. c \in Transfer /\ c.inode \in Inode
      BY CallKinds DEF TransferOK
    <3>2. \A p \in Places : Held(c.inode, p)' = Held(c.inode, p)
      BY <2>8, <3>1, TransferTree
    <3>3. /\ PlaceAt(c) \in Places
          /\ c.depth # 1 => Prefix(PathOf(c), c.depth - 1) \in Places
      BY PrefixIs
    <3>4. /\ Held(c.inode, PlaceAt(c))' = 0
          /\ c.depth # 1 => c.at = Held(c.inode, Prefix(PathOf(c), c.depth - 1))'
      BY <3>2, <3>3 DEF Looking
    <3> QED BY <2>5, <2>6, <3>4, HeldIs DEF Following, Emptying
  <2>13. Proceed(t, d, "balloc") /\ MayWork(t, d.inode)
    BY <2>2, <2>4, <2>5
  <2>14. \A u \in Task \ {t} : pc[u] # "user" =>
            zone'[call[u].inode] = zone[call[u].inode] /\ size'[call[u].inode] = size[call[u].inode]
            /\ Steady(call[u].inode)
    BY <2>2, <2>8, CallKinds DEF TypesInv, CallsInv, CallOK, TransferOK, TruncationOK
  <2> QED BY <2>11, <2>12, <2>13, <2>14, Together
<1> QED BY <1>1, <1>2

LEMMA VisitStep ==
    ASSUME OneMap, Zeroed, ~Sharing, TypesInv, TreeInv, NEW t \in Task, NEW c,
           NEW label \in Locating, TransferOK(c, label),
           MayWork(t, c.inode), call[t].op # "truncate", pc[t] # "balloc",
           Looking(c), Entry(c) = Held(c.inode, PlaceAt(c)), Visit(t, c)
    PROVE  TreeInv'
<1>1. CASE c.op = "write" /\ Entry(c) = 0
  BY <1>1, BallocStep DEF Visit
<1>2. CASE ~(c.op = "write" /\ Entry(c) = 0)
  <2>1. Proceed(t, c, "release") /\ UNCHANGED <<zmap, zone, size, content, offset>>
    BY <1>2 DEF Visit
  <2>2. pc'[t] = "release" /\ call'[t] = c
    BY <2>1 DEF Proceed, TypesInv, CallsInv
  <2>3. Following(t)'
    BY <2>1, <2>2, HeldIs DEF Following, Looking
  <2>4. c.op # "truncate"
    BY CallKinds DEF TransferOK
  <2> QED BY <2>1, <2>3, <2>4, QuietStep
<1> QED BY <1>1, <1>2

\* The first index of the next block of a file is in the inode.
LEMMA FirstLook ==
    ASSUME NEW c, NEW label \in Locating, TransferOK(c, label), c.depth = 1
    PROVE  Looking(c) /\ Entry(c) = Held(c.inode, PlaceAt(c))
<1>1. c.at = 0
  BY DEF TransferOK
<1>2. PlaceAt(c) \in Places /\ PlaceAt(c)[2] = None /\ PlaceAt(c)[1] = Index(c)
  BY PrefixIs
<1> QED BY <1>1, <1>2, HeldIs, HeldSteps DEF Entry, Looking

LEMMA ReadStep ==
    ASSUME ~Sharing, TypesInv, TreeInv, NEW t \in Task, NEW i \in Inode, NEW len \in Lengths,
           Read(t, i, len)
    PROVE  TreeInv'
<1>1. PICK c : /\ c.op = "read" /\ c.inode = i /\ c.depth = 1
               /\ pc' = [pc EXCEPT ![t] = "release"] /\ call' = [call EXCEPT ![t] = c]
  <2> DEFINE left == IF len < size[i] - offset[i] THEN len ELSE size[i] - offset[i]
             c == [op |-> "read", inode |-> i, from |-> offset[i], pos |-> offset[i],
                   to |-> offset[i] + left, at |-> 0, depth |-> 1, nr |-> 0]
  <2>1. pc' = [pc EXCEPT ![t] = "release"] /\ call' = [call EXCEPT ![t] = c]
    BY DEF Read
  <2>2. c.op = "read" /\ c.inode = i /\ c.depth = 1
    OBVIOUS
  <2> HIDE DEF c
  <2> QED BY <2>1, <2>2
<1>2. /\ UNCHANGED <<zmap, zone, size, content, offset, stopped>>
      /\ pc[t] = "user" /\ Usable(i)
  BY DEF Read, Begin
<1>3. Proceed(t, c, "release") /\ MayWork(t, c.inode)
  BY <1>1, <1>2 DEF Proceed, MayWork
<1>4. call[t].op # "truncate"
  BY <1>2, TruncatingVisit DEF TypesInv
<1>5. pc'[t] = "release" /\ call'[t] = c
  BY <1>1 DEF TypesInv, CallsInv
<1>6. Following(t)'
  BY <1>1, <1>5 DEF Following
<1> QED BY <1>1, <1>2, <1>3, <1>4, <1>6, QuietStep

LEMMA WriteStep ==
    ASSUME OneMap, Zeroed, ~Sharing, TypesInv, TreeInv,
           NEW t \in Task, NEW i \in Inode, NEW len \in Lengths, Write(t, i, len)
    PROVE  TreeInv'
<1> DEFINE c == [op |-> "write", inode |-> i, from |-> offset[i], pos |-> offset[i],
                 to |-> offset[i] + len, at |-> 0, depth |-> 1, nr |-> 0]
<1>1. /\ offset[i] \in Nat /\ len \in Nat \ {0} /\ offset[i] + len <= MaxSize
  BY ZoneAssumption DEF TypesInv, DiskInv, Write
<1>2. PICK from \in Nat, to \in Nat : from = offset[i] /\ to = offset[i] + len /\ from < to
  BY ONLY <1>1
<1>3. TransferOK(c, "release") /\ c.inode = i /\ c.depth = 1
  BY <1>1, <1>2, FirstBlock
<1>4. Visit(t, c) /\ pc[t] = "user" /\ Usable(i)
  BY DEF Write, Begin
<1> HIDE DEF c
<1>5. MayWork(t, c.inode) /\ call[t].op # "truncate"
  BY <1>3, <1>4, TruncatingVisit DEF MayWork, TypesInv
<1>6. Looking(c) /\ Entry(c) = Held(c.inode, PlaceAt(c))
  BY <1>3, FirstLook DEF Locating
<1> QED BY <1>3, <1>4, <1>5, <1>6, VisitStep DEF Locating

LEMMA IndexStep ==
    ASSUME OneMap, Zeroed, ~Sharing, TypesInv, TreeInv, NEW t \in Task, bmap_index(t)
    PROVE  TreeInv'
<1>1. pc[t] = "index" /\ Visit(t, call[t]) /\ Following(t)
  BY DEF bmap_index, At, TreeInv
<1>2. TransferOK(call[t], "index") /\ Entry(call[t]) = Held(call[t].inode, PlaceAt(call[t]))
  BY <1>1, EntryHeld DEF Locating
<1>3. Looking(call[t])
  BY <1>1 DEF Following, Looking
<1>4. MayWork(t, call[t].inode) /\ call[t].op # "truncate"
  BY <1>1, <1>2, CallKinds DEF MayWork, TransferOK
<1> QED BY <1>1, <1>2, <1>3, <1>4, VisitStep DEF Locating

LEMMA ReleaseStep ==
    ASSUME ~Sharing, TypesInv, TreeInv, NEW t \in Task, bmap_release(t)
    PROVE  TreeInv'
<1> DEFINE c == call[t]
           e == Entry(c)
           i == c.inode
<1>1. pc[t] = "release" /\ Following(t)
  BY DEF bmap_release, At, TreeInv
<1>2. TransferOK(c, "release") /\ e = Held(i, PlaceAt(c)) /\ c \in Transfer
  BY <1>1, EntryHeld DEF Locating, TransferOK
<1>3. MayWork(t, c.inode) /\ c.op # "truncate"
  BY <1>1, <1>2, CallKinds DEF MayWork
<1>4. CASE e = 0 \/ e \notin Block
  <2>1. Stop("hole") \/ Stop("garbage")
    BY <1>4 DEF bmap_release
  <2>2. stopped' # "unmarked" /\ UNCHANGED <<pc, call, zmap, zone, size, content>>
    BY <2>1 DEF Stop
  <2> QED BY <2>2, SameTree
<1>5. CASE e \in Block /\ e # 0 /\ LastIndex(c)
  <2>1. PICK d : d = [c EXCEPT !.nr = e]
    OBVIOUS
  <2>2. Proceed(t, d, "data") /\ UNCHANGED <<zmap, zone, size, content, offset>>
    BY <1>5, <2>1 DEF bmap_release
  <2>3. e \in Nat
    BY <1>5, BlocksAre
  <2> HIDE DEF e
  <2>4. /\ d \in Transfer /\ d.nr = e /\ d.inode = i /\ d.pos = c.pos
        /\ d.at = c.at /\ d.depth = c.depth /\ PathOf(d) = PathOf(c)
    <3>1. /\ d \in Transfer /\ d.nr = e /\ d.inode = i /\ d.pos = c.pos
          /\ d.at = c.at /\ d.depth = c.depth
      BY <1>2, <2>1, <2>3 DEF Transfer
    <3> QED BY <3>1 DEF PathOf
  <2>5. pc'[t] = "data" /\ call'[t] = d
    BY <2>2 DEF Proceed, TypesInv, CallsInv
  <2>6. e = Held(i, PathOf(c))
    BY <1>2, <1>5, PrefixIs DEF Locating
  <2>7. c.depth # 1 => c.at = Held(i, Prefix(PathOf(c), c.depth - 1))
    BY <1>1 DEF Following
  <2>8. Following(t)'
    BY <1>5, <2>2, <2>4, <2>5, <2>6, <2>7, HeldIs DEF Following
  <2>9. d.op # "truncate"
    BY <2>4, CallKinds
  <2> QED BY <1>1, <1>3, <2>2, <2>4, <2>8, <2>9, QuietStep
<1>6. CASE e \in Block /\ e # 0 /\ ~LastIndex(c)
  <2>1. PICK d : d = [c EXCEPT !.at = e, !.depth = @ + 1]
    OBVIOUS
  <2>2. Proceed(t, d, "index") /\ UNCHANGED <<zmap, zone, size, content, offset>>
    BY <1>6, <2>1 DEF bmap_release
  <2>3. TransferOK(d, "index")
    BY <1>2, <1>6, <2>1, DeeperOK DEF Locating
  <2> HIDE DEF e
  <2>4. /\ d.inode = i /\ d.pos = c.pos /\ d.at = e /\ d.depth = c.depth + 1
        /\ PathOf(d) = PathOf(c) /\ c.depth \in 1..3
    <3>1. d.inode = i /\ d.pos = c.pos /\ d.at = e /\ d.depth = c.depth + 1 /\ c.depth \in 1..3
      BY <1>2, <2>1 DEF Transfer
    <3> QED BY <3>1 DEF PathOf
  <2>5. pc'[t] = "index" /\ call'[t] = d
    BY <2>2 DEF Proceed, TypesInv, CallsInv
  <2>6. e = Held(i, Prefix(PathOf(d), d.depth - 1))
    <3>1. d.depth - 1 = c.depth
      BY <2>4
    <3> QED BY <1>2, <2>4, <3>1 DEF PlaceAt
  <2>7. Following(t)'
    BY <2>2, <2>4, <2>5, <2>6, HeldIs DEF Following
  <2>8. d.op # "truncate"
    BY <2>3, CallKinds DEF TransferOK
  <2> QED BY <1>1, <1>3, <2>2, <2>4, <2>7, <2>8, QuietStep
<1> QED BY <1>4, <1>5, <1>6

(***************************************************************************)
(* bmap enters a number at a place that had none, and the new block has    *)
(* no numbers: no other place of the tree changes.                         *)
(***************************************************************************)
LEMMA EntryTree ==
    ASSUME NEW p \in Places, NEW z, NEW z2, NEW k, NEW k2, NEW nr \in Block,
           HeldIn(z, k, p) = 0, k2[nr] = Empty,
           p[2] = None => /\ z2[p[1]] = nr /\ k2 = k
                          /\ \A s : s # p[1] => z2[s] = z[s],
           p[2] # None =>
              LET at == HeldIn(z, k, Up(p))
              IN  /\ at \in Block /\ z2 = z
                  /\ k2[at][Last(p)] = nr
                  /\ \A b \in Block, j \in Cells : b # at \/ j # Last(p) => k2[b][j] = k[b][j]
                  /\ \A q \in Places : q # Up(p) => HeldIn(z, k, q) # at
    PROVE  /\ HeldIn(z2, k2, p) = nr
           /\ \A q \in Places : q # p => HeldIn(z2, k2, q) = HeldIn(z, k, q)
<1>1. ASSUME NEW q \in Places, q # p, q[2] = None
      PROVE  HeldIn(z2, k2, q) = HeldIn(z, k, q)
  <2>1. HeldIn(z2, k2, q) = z2[q[1]] /\ HeldIn(z, k, q) = z[q[1]]
    BY <1>1, HeldSteps
  <2>2. CASE p[2] = None
    <3>1. p = <<p[1], None, None>> /\ q = <<q[1], None, None>>
      BY <1>1, <2>2, PlaceShape
    <3> QED BY <1>1, <2>1, <2>2, <3>1
  <2> QED BY <2>1, <2>2
<1>2. HeldIn(z2, k2, p) = nr
  <2>1. CASE p[2] = None
    BY <2>1, HeldSteps
  <2>2. CASE p[2] # None
    <3>1. Up(p) \in Places /\ Up(p) # p
      <4>1. /\ p[3] = None => Up(p)[2] = None
            /\ p[3] # None => Up(p)[3] = None
        BY <2>2, UpIs
      <4> QED BY <2>2, <4>1, UpIs
    <3>2. HeldIn(z2, k2, Up(p)) = HeldIn(z, k, Up(p))
      <4>1. CASE Up(p)[2] = None
        BY <1>1, <3>1, <4>1
      <4>2. CASE Up(p)[2] # None
        <5> DEFINE w == Up(p)
        <5>1. Up(w) \in Places /\ Up(w)[2] = None /\ Last(w) \in Cells /\ w # Up(w)
          <6>1. w[3] = None
            BY <2>2, UpIs
          <6>2. Up(w)[2] = None
            BY <3>1, <4>2, <6>1, UpIs
          <6> QED BY <3>1, <4>2, <6>2, UpIs
        <5>2. Up(w) # p
          BY <2>2, <5>1
        <5>3. HeldIn(z2, k2, Up(w)) = HeldIn(z, k, Up(w))
          BY <1>1, <5>1, <5>2
        <5>4. HeldIn(z, k, Up(w)) # HeldIn(z, k, w)
          BY <2>2, <5>1
        <5> HIDE DEF w
        <5>5. CASE HeldIn(z, k, Up(w)) \in Block
          <6>1. k2[HeldIn(z, k, Up(w))][Last(w)] = k[HeldIn(z, k, Up(w))][Last(w)]
            BY <2>2, <5>1, <5>4, <5>5 DEF w
          <6> QED BY <3>1, <4>2, <5>3, <5>5, <6>1, HeldSteps DEF w
        <5>6. CASE HeldIn(z, k, Up(w)) \notin Block
          BY <3>1, <4>2, <5>3, <5>6, HeldSteps DEF w
        <5> QED BY <5>5, <5>6
      <4> QED BY <4>1, <4>2
    <3> QED BY <2>2, <3>2, HeldSteps
  <2> QED BY <2>1, <2>2
\* One level down from a place that has not changed, or from the new one.
<1>3. ASSUME NEW q \in Places, q # p, q[2] # None,
             Up(q) = p \/ HeldIn(z2, k2, Up(q)) = HeldIn(z, k, Up(q))
      PROVE  HeldIn(z2, k2, q) = HeldIn(z, k, q)
  <2>1. Up(q) \in Places /\ Last(q) \in Cells
    BY <1>3, UpIs
  <2>2. CASE Up(q) = p
    <3>1. HeldIn(z2, k2, q) = k2[nr][Last(q)]
      BY <1>2, <1>3, <2>2, HeldSteps
    <3>2. k2[nr][Last(q)] = 0
      BY <2>1 DEF Empty
    <3>3. HeldIn(z, k, q) = 0
      BY <1>3, <2>2, HeldSteps, BlocksAre
    <3> QED BY <3>1, <3>2, <3>3
  <2>3. CASE Up(q) # p /\ HeldIn(z2, k2, Up(q)) = HeldIn(z, k, Up(q))
    <3> DEFINE b == HeldIn(z, k, Up(q))
    <3>1. CASE b \in Block
      <4>1. k2[b][Last(q)] = k[b][Last(q)]
        <5>1. CASE p[2] = None
          BY <5>1
        <5>2. CASE p[2] # None /\ Up(q) # Up(p)
          BY <2>1, <3>1, <5>2
        <5>3. CASE p[2] # None /\ Up(q) = Up(p)
          <6>1. Last(q) # Last(p)
            BY <1>3, <5>3, UpInjective
          <6> QED BY <2>1, <3>1, <5>3, <6>1
        <5> QED BY <5>1, <5>2, <5>3
      <4> QED BY <1>3, <2>3, <3>1, <4>1, HeldSteps
    <3>2. CASE b \notin Block
      BY <1>3, <2>3, <3>2, HeldSteps
    <3> QED BY <3>1, <3>2
  <2> QED BY <1>3, <2>2, <2>3
<1>4. ASSUME NEW q \in Places, q # p, q[2] # None, q[3] = None
      PROVE  HeldIn(z2, k2, q) = HeldIn(z, k, q)
  <2>1. Up(q) \in Places /\ Up(q)[2] = None
    BY <1>4, UpIs
  <2> QED BY <1>1, <1>3, <1>4, <2>1
<1>5. ASSUME NEW q \in Places, q # p, q[2] # None, q[3] # None
      PROVE  HeldIn(z2, k2, q) = HeldIn(z, k, q)
  <2>1. Up(q) \in Places /\ Up(q)[2] # None /\ Up(q)[3] = None
    BY <1>5, UpIs
  <2> QED BY <1>3, <1>4, <1>5, <2>1
<1> QED BY <1>1, <1>2, <1>4, <1>5

(***************************************************************************)
(* What bmap changes when it enters the number of a new block.             *)
(***************************************************************************)
EntryDone(t, c, i, p) ==
    /\ pc[t] = "balloc" /\ Proceed(t, c, "release") /\ UNCHANGED <<zmap, size, offset>>
    /\ i = c.inode /\ i \in Inode /\ c.op # "truncate" /\ p = PlaceAt(c) /\ p \in Places
    /\ Held(i, p) = 0 /\ Held(i, p)' = c.nr /\ c.nr # 0
    /\ \A q \in Places : q # p => Held(i, q)' = Held(i, q)
    /\ \A j \in Inode : j # i => zone'[j] = zone[j] /\ Steady(j)
    /\ content'[c.nr] = Empty
    /\ \A u \in Allocating : content'[call[u].nr] = content[call[u].nr]
    /\ \A j \in Inode, q \in Leaf : Owns(j, q) => content'[Held(j, q)] = content[Held(j, q)]
    /\ c.depth # 1 => /\ Up(p) = Prefix(PathOf(c), c.depth - 1) /\ Up(p) \in Places /\ Up(p) # p
                      /\ c.at = Held(i, Up(p))
    /\ Freed(i) = {} /\ \A j : Freed(j)' = Freed(j)

LEMMA EntryChange ==
    ASSUME ~Sharing, TypesInv, TreeInv, NEW t \in Task, NEW c, c = call[t], bmap_balloc(t)
    PROVE  EntryDone(t, c, c.inode, PlaceAt(c))
<1>0. c = call[t]
  OBVIOUS
<1> DEFINE i == c.inode
           p == PlaceAt(c)
           nr == c.nr
<1>1. pc[t] = "balloc" /\ Following(t) /\ Proceed(t, c, "release") /\ UNCHANGED <<zmap, size, offset>>
  BY <1>0 DEF bmap_balloc, At, TreeInv
<1>2. /\ TransferOK(c, "balloc") /\ c \in Transfer /\ i \in Inode /\ c.op # "truncate"
      /\ p \in Places /\ PathOf(c) \in Places
  BY <1>0, <1>1, EntryHeld, PrefixIs, CallKinds DEF Locating, TransferOK
<1>3. Held(i, p) = 0 /\ (c.depth # 1 => c.at = Held(i, Prefix(PathOf(c), c.depth - 1)))
  BY <1>0, <1>1 DEF Following
<1>4. t \in Allocating /\ nr \in Block /\ content[nr] = Empty /\ nr # 0
  BY <1>0, <1>1, BlocksAre DEF Allocating, TreeInv, BlocksInv, NewOnce, Marked
<1>5. MayWork(t, i)
  BY <1>0, <1>1 DEF MayWork
<1>6. Freed(i) = {} /\ \A j : Freed(j)' = Freed(j)
  BY <1>0, <1>1, <1>2, <1>5, FreedNone, FreedStep DEF TypesInv, TreeInv
<1>7. /\ pc'[t] = "release" /\ call'[t] = c
      /\ \A u \in Task : u # t => pc'[u] = pc[u] /\ call'[u] = call[u]
  BY <1>1 DEF Proceed, TypesInv, CallsInv
<1>8. /\ c.depth = 1 <=> p[2] = None
      /\ c.depth = 1 => p[1] = Index(c) /\ c.at = 0
      /\ c.depth # 1 => /\ Last(p) = Index(c) /\ Up(p) = Prefix(PathOf(c), c.depth - 1)
                        /\ c.at \in Block /\ c.at # 0 /\ Index(c) \in Cells
                        /\ Held(i, Up(p)) = c.at /\ Owns(i, Up(p)) /\ Up(p) \in Places
  <2>1. /\ c.depth = 1 => p[2] = None /\ p[1] = Index(c)
        /\ c.depth # 1 => /\ p[2] # None /\ Last(p) = Index(c)
                          /\ Up(p) = Prefix(PathOf(c), c.depth - 1) /\ Up(p) \in Places
    BY <1>2, PrefixIs DEF Locating
  <2>2. /\ c.depth = 1 => c.at = 0
        /\ c.depth # 1 => c.at \in Block /\ c.at # 0 /\ Index(c) \in Cells
    BY <1>2, IndexIs DEF Locating
  <2>3. c.depth # 1 => Held(i, Up(p)) = c.at /\ Owns(i, Up(p))
    BY <1>3, <1>6, <2>1, <2>2 DEF Owns
  <2> QED BY <2>1, <2>2, <2>3
<1>9. /\ c.depth = 1 => /\ zone' = [zone EXCEPT ![i][Index(c)] = nr] /\ content' = content
      /\ c.depth # 1 => /\ content' = [content EXCEPT ![c.at][Index(c)] = nr] /\ zone' = zone
  BY <1>0, <1>8 DEF bmap_balloc
<1>10. /\ zone \in [Inode -> [Slot -> Nat]] /\ content \in [Block -> [Cells -> Nat]]
       /\ c.depth = 1 => p[1] \in Slot
  BY <1>2, PlaceShape DEF TypesInv, DiskInv
<1>11. c.depth # 1 => /\ \A j \in Inode, q \in Places : Owns(j, q) /\ Held(j, q) = c.at => j = i /\ q = Up(p)
                      /\ \A u \in Allocating : call[u].nr # c.at
  BY <1>2, <1>8 DEF TreeInv, BlocksInv, OwnedOnce, NewOnce
<1>12. /\ content'[nr] = Empty
       /\ \A u \in Allocating : content'[call[u].nr] = content[call[u].nr]
       /\ \A j \in Inode : j # i => zone'[j] = zone[j]
  <2>1. c.depth # 1 => nr # c.at
    BY <1>0, <1>4, <1>11
  <2>2. \A u \in Allocating : call[u].nr \in Block
    BY DEF TreeInv, BlocksInv, NewOnce, Marked
  <2> HIDE DEF nr
  <2> QED BY <1>4, <1>8, <1>9, <1>10, <1>11, <2>1, <2>2
<1>13. /\ Held(i, p)' = nr
       /\ \A q \in Places : q # p => Held(i, q)' = Held(i, q)
  <2> DEFINE z == zone[i]
             z2 == zone'[i]
  <2>1. HeldIn(z, content, p) = 0
    BY <1>3, HeldIs
  <2>2. p[2] = None => z2[p[1]] = nr /\ content' = content /\ \A s : s # p[1] => z2[s] = z[s]
    <3> SUFFICES ASSUME p[2] = None
                 PROVE  z2[p[1]] = nr /\ content' = content /\ \A s : s # p[1] => z2[s] = z[s]
      OBVIOUS
    <3>1. c.depth = 1 /\ p[1] = Index(c) /\ p[1] \in Slot
      BY <1>8, <1>10
    <3>2. zone' = [zone EXCEPT ![i][p[1]] = nr] /\ content' = content
      BY <1>9, <3>1
    <3> HIDE DEF p, nr
    <3>3. z2 = [z EXCEPT ![p[1]] = nr]
      BY <1>2, <1>10, <3>2
    <3>4. z \in [Slot -> Nat]
      BY <1>2, <1>10
    <3> HIDE DEF z, z2
    <3> QED BY <3>1, <3>2, <3>3, <3>4
  <2>3. p[2] # None =>
              LET at == HeldIn(z, content, Up(p))
              IN  /\ at \in Block /\ z2 = z
                  /\ content'[at][Last(p)] = nr
                  /\ \A b \in Block, j \in Cells : b # at \/ j # Last(p) => content'[b][j] = content[b][j]
                  /\ \A q \in Places : q # Up(p) => HeldIn(z, content, q) # at
    <3> SUFFICES ASSUME p[2] # None
                 PROVE  LET at == HeldIn(z, content, Up(p))
                        IN  /\ at \in Block /\ z2 = z
                            /\ content'[at][Last(p)] = nr
                            /\ \A b \in Block, j \in Cells : b # at \/ j # Last(p) => content'[b][j] = content[b][j]
                            /\ \A q \in Places : q # Up(p) => HeldIn(z, content, q) # at
      OBVIOUS
    <3>1. /\ c.depth # 1 /\ HeldIn(z, content, Up(p)) = c.at /\ c.at \in Block /\ c.at # 0
          /\ Last(p) = Index(c) /\ Index(c) \in Cells
      BY <1>8, HeldIs
    <3>2. z2 = z /\ content' = [content EXCEPT ![c.at][Index(c)] = nr]
      BY <1>9, <3>1
    <3>3. ASSUME NEW q \in Places, q # Up(p) PROVE HeldIn(z, content, q) # c.at
      <4>1. ASSUME Held(i, q) = c.at PROVE FALSE
        <5>1. Owns(i, q)
          BY <1>6, <3>1, <4>1 DEF Owns
        <5> QED BY <1>2, <1>11, <3>1, <3>3, <4>1, <5>1
      <4> QED BY <4>1, HeldIs
    <3> HIDE DEF z, z2, p, nr
    <3>4. content'[c.at][Last(p)] = nr
      BY <1>10, <3>1, <3>2
    <3>5. \A b \in Block, j \in Cells : b # c.at \/ j # Last(p) => content'[b][j] = content[b][j]
      BY <1>10, <3>1, <3>2
    <3> QED BY <3>1, <3>2, <3>3, <3>4, <3>5
  <2> HIDE DEF nr, p, z, z2
  <2>4. /\ HeldIn(z2, content', p) = nr
        /\ \A q \in Places : q # p => HeldIn(z2, content', q) = HeldIn(z, content, q)
    BY <1>2, <1>4, <1>12, <2>1, <2>2, <2>3, EntryTree
  <2> QED BY <2>4, HeldIs DEF z, z2
<1>14. ASSUME NEW j \in Inode, j # i PROVE Steady(j)
  <2>1. CASE c.depth = 1
    <3>0. PICK S : S = {}
      OBVIOUS
    <3>1. \A b \in Block \ S : content'[b] = content[b]
      BY <1>9, <2>1
    <3>2. \A q \in IndexPlace : Owns(j, q) => Held(j, q) \notin S
      BY <3>0
    <3>3. zone'[j] = zone[j]
      BY <1>12, <1>14
    <3> QED BY <3>1, <3>2, <3>3, TreeFrame
  <2>2. CASE c.depth # 1
    <3>0. PICK S : S = {c.at}
      OBVIOUS
    <3>1. \A b \in Block \ S : content'[b] = content[b]
      <4>1. content' = [content EXCEPT ![c.at][Index(c)] = nr]
        BY <1>9, <2>2
      <4> HIDE DEF nr
      <4>2. PICK f : f = [content[c.at] EXCEPT ![Index(c)] = nr]
        OBVIOUS
      <4>3. content' = [content EXCEPT ![c.at] = f]
        BY <4>1, <4>2
      <4> QED BY <1>10, <3>0, <4>3
    <3>2. \A q \in IndexPlace : Owns(j, q) => Held(j, q) \notin S
      BY <1>11, <1>14, <2>2, <3>0 DEF Places
    <3>3. zone'[j] = zone[j]
      BY <1>12, <1>14
    <3> QED BY <3>1, <3>2, <3>3, TreeFrame
  <2> QED BY <2>1, <2>2
<1>15. ASSUME NEW j \in Inode, NEW q \in Leaf, Owns(j, q)
       PROVE  content'[Held(j, q)] = content[Held(j, q)]
  <2>1. Held(j, q) \in Block /\ q \in Places /\ q \notin IndexPlace
    BY <1>15, PlaceShape DEF TreeInv, BlocksInv, OwnedOnce, Marked, Places
  <2>2. CASE c.depth = 1
    BY <1>9, <2>2
  <2>3. CASE c.depth # 1
    <3>1. content' = [content EXCEPT ![c.at][Index(c)] = nr]
      BY <1>9, <2>3
    <3> HIDE DEF nr
    <3>2. PICK f : f = [content[c.at] EXCEPT ![Index(c)] = nr]
      OBVIOUS
    <3>3. content' = [content EXCEPT ![c.at] = f]
      BY <3>1, <3>2
    <3>4. Held(j, q) # c.at
      <4>1. p[2] # None
        BY <1>8, <2>3
      <4>2. Up(p) \in IndexPlace
        BY <1>2, <4>1, UpIs
      <4> QED BY <1>11, <1>15, <2>1, <2>3, <4>2
    <3> QED BY <1>10, <2>1, <3>3, <3>4
  <2> QED BY <2>2, <2>3
<1>16. c.depth # 1 => Up(p) # p
  BY <1>3, <1>8
<1> QED BY <1>1, <1>2, <1>3, <1>4, <1>6, <1>8, <1>12, <1>13, <1>14, <1>15, <1>16 DEF EntryDone

LEMMA EntryStep ==
    ASSUME ~Sharing, TypesInv, TreeInv, NEW t \in Task, bmap_balloc(t)
    PROVE  TreeInv'
<1>1. PICK c, i, p : c = call[t] /\ EntryDone(t, c, i, p)
  BY EntryChange
<1>2. /\ pc[t] = "balloc" /\ Proceed(t, c, "release") /\ UNCHANGED <<zmap, size, offset>>
      /\ i = c.inode /\ i \in Inode /\ c.op # "truncate" /\ p = PlaceAt(c) /\ p \in Places
      /\ Held(i, p) = 0 /\ Held(i, p)' = c.nr /\ c.nr # 0
      /\ Freed(i) = {} /\ \A j : Freed(j)' = Freed(j)
  BY <1>1 DEF EntryDone
<1>3. \A q \in Places : q # p => Held(i, q)' = Held(i, q)
  BY <1>1 DEF EntryDone
<1>4. \A j \in Inode : j # i => zone'[j] = zone[j] /\ Steady(j)
  BY <1>1 DEF EntryDone
<1>5. /\ pc'[t] = "release" /\ call'[t] = c
      /\ \A u \in Task : u # t => pc'[u] = pc[u] /\ call'[u] = call[u]
  BY <1>2 DEF Proceed, TypesInv, CallsInv
<1>6. MayWork(t, i)
  BY <1>1, <1>2 DEF MayWork
<1>7. BlocksInv'
  <2>1. ~Owns(i, p) /\ Owns(i, p)' /\ Held(i, p)' = call[t].nr
    BY <1>1, <1>2 DEF Owns
  <2>2. ASSUME NEW j \in Inode, NEW q \in Places, j # i \/ q # p
        PROVE  (Owns(j, q)' <=> Owns(j, q)) /\ (Owns(j, q) => Held(j, q)' = Held(j, q))
    <3>1. CASE j # i
      BY <1>2, <1>4, <3>1, SteadyOwns
    <3>2. CASE j = i
      BY <1>2, <1>3, <2>2, <3>2 DEF Owns
    <3> QED BY <3>1, <3>2
  <2>3. \A u \in Task \ {t} : SameNew(u)
    BY <1>1, <1>5 DEF SameNew, Allocating, EntryDone
  <2>4. zmap' = zmap /\ pc'[t] # "balloc" /\ BlocksInv
    BY <1>2, <1>5 DEF TreeInv
  <2> QED BY <1>2, <2>1, <2>2, <2>3, <2>4, NewPlace
<1>8. Following(t)' /\ Emptying(t)'
  <2>1. c.depth # 1 => c.at = Held(i, Prefix(PathOf(c), c.depth - 1))'
    BY <1>1, <1>3 DEF EntryDone
  <2> QED BY <1>2, <1>5, <2>1 DEF Following, Emptying
<1>9. \A u \in Task \ {t} : pc[u] # "user" =>
         zone'[call[u].inode] = zone[call[u].inode] /\ size'[call[u].inode] = size[call[u].inode]
         /\ Steady(call[u].inode)
  <2>1. \A u \in Task \ {t} : pc[u] # "user" => call[u].inode # i /\ call[u].inode \in Inode
    BY <1>1, <1>2, CallKinds DEF TypesInv, CallsInv, CallOK, TransferOK, TruncationOK, TreeInv, Exclusive
  <2> QED BY <1>2, <1>4, <2>1
<1> QED BY <1>2, <1>6, <1>7, <1>8, <1>9, Together

\* The end of a transfer leaves the disk alone.
LEMMA FinishStep ==
    ASSUME ~Sharing, TypesInv, TreeInv, NEW t \in Task, NEW c, Finish(t, c),
           pc[t] # "balloc", call[t].op # "truncate", UNCHANGED <<zmap, zone, size, content>>
    PROVE  TreeInv'
<1>1. Proceed(t, NoCall, "user")
  BY DEF Finish
<1>2. Following(t)'
  BY <1>1 DEF Following, Proceed, TypesInv, CallsInv
<1>3. NoCall.op # "truncate"
  BY DEF NoCall
<1> QED BY <1>1, <1>2, <1>3, QuietStep

LEMMA ReadDataStep ==
    ASSUME ~Sharing, TypesInv, TreeInv, NEW t \in Task, inode_read_data(t)
    PROVE  TreeInv'
<1>1. /\ TransferOK(call[t], "data") /\ pc[t] = "data"
  BY CallAt DEF inode_read_data, Locating, At
<1>2. call[t] \in Transfer /\ call[t].inode \in Inode /\ call[t].op # "truncate"
  BY <1>1, CallKinds DEF TransferOK
<1>3. PICK c : c = [call[t] EXCEPT !.pos = @ + Chars(call[t])]
  OBVIOUS
<1>4. /\ IF c.pos = c.to THEN Finish(t, c)
         ELSE Proceed(t, NextBlock(c), "release") /\ UNCHANGED offset
      /\ UNCHANGED <<zmap, zone, size, content>>
  BY <1>3 DEF inode_read_data
<1>5. CASE c.pos = c.to
  BY <1>1, <1>2, <1>4, <1>5, FinishStep
<1>6. CASE c.pos # c.to
  <2>1. PICK d : d = NextBlock(c)
    OBVIOUS
  <2>2. d.inode = call[t].inode /\ d.op = call[t].op /\ d.depth = 1
    <3>1. c.inode = call[t].inode /\ c.op = call[t].op /\ "at" \in DOMAIN c /\ "depth" \in DOMAIN c
          /\ "inode" \in DOMAIN c /\ "op" \in DOMAIN c
      BY <1>2, <1>3 DEF Transfer
    <3> QED BY <2>1, <3>1, <1>2, <1>3 DEF NextBlock, Transfer
  <2>3. Proceed(t, d, "release")
    BY <1>4, <1>6, <2>1
  <2>4. pc'[t] = "release" /\ call'[t] = d
    BY <2>3 DEF Proceed, TypesInv, CallsInv
  <2>5. Following(t)'
    BY <2>2, <2>4 DEF Following
  <2>6. MayWork(t, d.inode)
    BY <1>1, <2>2 DEF MayWork
  <2> QED BY <1>1, <1>2, <1>4, <2>2, <2>3, <2>5, <2>6, QuietStep
<1> QED BY <1>5, <1>6

(***************************************************************************)
(* The block that inode_write fills is the data of its file, so that no    *)
(* index block of a file and no new block changes.                         *)
(***************************************************************************)
LEMMA WriteChange ==
    ASSUME ~Sharing, TypesInv, TreeInv, NEW t \in Task, NEW c, c = call[t], inode_write_data(t)
    PROVE  /\ TransferOK(c, "data") /\ pc[t] = "data" /\ c \in Transfer /\ c.inode \in Inode
           /\ c.op # "truncate"
           /\ PathOf(c) \in Leaf /\ c.nr = Held(c.inode, PathOf(c)) /\ Owns(c.inode, PathOf(c))
           /\ \A b \in Block : b # c.nr => content'[b] = content[b]
           /\ \A i \in Inode : Steady(i)
<1>1. /\ TransferOK(c, "data") /\ pc[t] = "data" /\ Following(t)
  BY CallAt DEF inode_write_data, Locating, At, TreeInv
<1>2. c \in Transfer /\ c.inode \in Inode /\ c.op # "truncate"
  BY <1>1, CallKinds DEF TransferOK
<1>3. \A b \in Block : b # c.nr => content'[b] = content[b]
  BY DEF inode_write_data, TypesInv, DiskInv
<1>4. Owns(c.inode, PathOf(c)) /\ c.nr = Held(c.inode, PathOf(c)) /\ PathOf(c) \in Leaf
  <2>1. PathOf(c) \in Leaf /\ PathOf(c) \in Places
    BY <1>1, PrefixIs DEF Locating
  <2>2. c.nr = Held(c.inode, PathOf(c)) /\ c.nr # 0
    BY <1>1 DEF Following
  <2>3. Freed(c.inode) = {}
    BY <1>1, <1>2, FreedNone DEF TypesInv, TreeInv, MayWork
  <2> QED BY <2>1, <2>2, <2>3 DEF Owns
<1>5. ASSUME NEW i \in Inode PROVE Steady(i)
  <2>0. PICK S : S = {c.nr}
    OBVIOUS
  <2>1. \A b \in Block \ S : content'[b] = content[b]
    BY <1>3, <2>0
  <2>2. ASSUME NEW p \in IndexPlace, Owns(i, p) PROVE Held(i, p) \notin S
    <3>1. p \in Places /\ p # PathOf(c) /\ PathOf(c) \in Places
      BY <1>4, PlaceShape DEF Places
    <3>2. Held(i, p) # Held(c.inode, PathOf(c))
      BY <1>2, <1>4, <2>2, <3>1 DEF TreeInv, BlocksInv, OwnedOnce
    <3> QED BY <1>4, <2>0, <3>2
  <2>3. zone'[i] = zone[i]
    BY DEF inode_write_data
  <2> QED BY <2>1, <2>2, <2>3, TreeFrame
<1> QED BY <1>1, <1>2, <1>3, <1>4, <1>5

LEMMA WriteDataStep ==
    ASSUME ~Sharing, TypesInv, TreeInv, NEW t \in Task, inode_write_data(t)
    PROVE  TreeInv'
<1>1. PICK c : c = call[t]
  OBVIOUS
<1>2. /\ TransferOK(c, "data") /\ pc[t] = "data" /\ c \in Transfer /\ c.inode \in Inode
      /\ c.op # "truncate" /\ PathOf(c) \in Places
      /\ c.nr = Held(c.inode, PathOf(c)) /\ Owns(c.inode, PathOf(c))
      /\ \A b \in Block : b # c.nr => content'[b] = content[b]
      /\ \A i \in Inode : Steady(i)
  BY <1>1, WriteChange DEF Places
<1>3. PICK n \in Nat : n = c.pos + Chars(c)
  BY <1>2, CharsAre DEF Locating
<1>4. PICK d : d = [c EXCEPT !.pos = n]
  OBVIOUS
<1>5. d.inode = c.inode /\ d.op = c.op
  BY <1>2, <1>4, MovedIs
<1>6. Proceed(t, d, "written") /\ UNCHANGED <<zmap, zone, offset>>
  BY <1>1, <1>3, <1>4 DEF inode_write_data
<1>7. \A i \in Inode : i # c.inode => size'[i] = size[i]
  BY <1>1 DEF inode_write_data, TypesInv, DiskInv
<1>8. /\ pc'[t] = "written" /\ call'[t] = d
      /\ \A u \in Task : u # t => pc'[u] = pc[u] /\ call'[u] = call[u]
  BY <1>6 DEF Proceed, TypesInv, CallsInv
<1>9. \A i : Freed(i)' = Freed(i)
  BY <1>1, <1>2, <1>5, <1>6, FreedStep DEF TypesInv
<1>10. BlocksInv'
  <2>1. SameOwned
    BY <1>2, <1>9, SteadyOwns DEF SameOwned
  <2>2. ASSUME NEW u \in Task PROVE SameNew(u)
    <3>1. CASE u = t
      BY <1>2, <1>8, <3>1 DEF SameNew
    <3>2. CASE u # t
      <4>1. ASSUME pc[u] = "balloc" PROVE content'[call[u].nr] = content[call[u].nr]
        <5>1. u \in Allocating /\ call[u].nr \in Block
          BY <4>1 DEF Allocating, TreeInv, BlocksInv, NewOnce, Marked
        <5>2. call[u].nr # c.nr
          BY <1>2, <5>1 DEF TreeInv, BlocksInv, NewOnce
        <5> QED BY <1>2, <5>1, <5>2
      <4> QED BY <1>8, <3>2, <4>1 DEF SameNew
    <3> QED BY <3>1, <3>2
  <2> QED BY <1>6, <2>1, <2>2, KeepBlocks DEF TreeInv
<1>11. Following(t)' /\ Emptying(t)'
  BY <1>8 DEF Following, Emptying
<1>12. MayWork(t, d.inode)
  BY <1>1, <1>2, <1>5 DEF MayWork
<1>13. ASSUME NEW u \in Task \ {t}, pc[u] # "user"
       PROVE  zone'[call[u].inode] = zone[call[u].inode] /\ size'[call[u].inode] = size[call[u].inode]
              /\ Steady(call[u].inode)
  <2>1. call[u].inode # c.inode /\ call[u].inode \in Inode
    BY <1>1, <1>2, <1>13, CallKinds DEF TypesInv, CallsInv, CallOK, TransferOK, TruncationOK, TreeInv, Exclusive
  <2> QED BY <1>2, <1>6, <1>7, <2>1
<1> QED BY <1>6, <1>10, <1>11, <1>12, <1>13, Together

LEMMA WriteNextStep ==
    ASSUME OneMap, Zeroed, ~Sharing, TypesInv, TreeInv, NEW t \in Task, inode_write_next(t)
    PROVE  TreeInv'
<1>1. PICK c : c = call[t]
  OBVIOUS
<1>2. TransferOK(c, "written") /\ pc[t] = "written"
  BY <1>1, CallAt DEF inode_write_next, Locating, At
<1>3. c \in Transfer /\ c.inode \in Inode /\ c.op # "truncate" /\ MayWork(t, c.inode)
  BY <1>1, <1>2, CallKinds DEF TransferOK, MayWork
<1>4. CASE c.pos = c.to
  <2>1. Proceed(t, c, "sync") /\ UNCHANGED <<zmap, zone, size, content, offset>>
    BY <1>1, <1>4 DEF inode_write_next
  <2>2. Following(t)'
    BY <2>1 DEF Proceed, TypesInv, CallsInv, Following
  <2> QED BY <1>1, <1>2, <1>3, <2>1, <2>2, QuietStep
<1>5. CASE c.pos # c.to
  <2>1. PICK d : d = NextBlock(c)
    OBVIOUS
  <2>2. Visit(t, d)
    BY <1>1, <1>5, <2>1 DEF inode_write_next
  <2>3. c \in Transfer /\ c.from <= c.pos /\ c.pos < c.to /\ c.to <= MaxSize
    BY <1>2, <1>5 DEF TransferOK, Transfer
  <2>4. TransferOK(d, "release")
    BY <2>1, <2>3, NextBlockOK DEF Locating
  <2>5. d.inode = c.inode /\ d.depth = 1
    BY <1>3, <2>1 DEF NextBlock, Transfer
  <2>6. Looking(d) /\ Entry(d) = Held(d.inode, PlaceAt(d))
    BY <2>4, <2>5, FirstLook DEF Locating
  <2> QED BY <1>1, <1>2, <1>3, <2>2, <2>4, <2>5, <2>6, VisitStep DEF Locating
<1> QED BY <1>4, <1>5

LEMMA LseekStep ==
    ASSUME TypesInv, TreeInv, NEW i \in Inode, NEW to \in Targets, sys_lseek(i, to)
    PROVE  TreeInv'
<1>1. UNCHANGED <<pc, call, zmap, zone, size, content>> /\ stopped' # "unmarked"
  BY DEF sys_lseek
<1> QED BY <1>1, SameTree

\* Where the array of an inode has no number there is no block.
LEMMA NothingIn ==
    ASSUME NEW z, \A s \in Slot : z[s] = 0, NEW k, NEW p \in Places
    PROVE  HeldIn(z, k, p) = 0
<1>1. p[1] \in Slot
  BY PlaceShape
<1>2. 0 \notin Block
  BY BlocksAre
<1> QED BY <1>1, <1>2 DEF HeldIn

\* Once a file is emptied there is nothing left to be freed.
LEMMA EmptiedStep ==
    ASSUME ~Sharing, TypesInv, TreeInv, NEW t \in Task, pc[t] = "sync", call[t].op = "truncate",
           inode_sync(t)
    PROVE  TreeInv'
<1>1. Proceed(t, NoCall, "user") /\ UNCHANGED <<offset, zmap, zone, size, content>>
  BY DEF inode_sync
<1>2. PICK i : i = call[t].inode
  OBVIOUS
<1>3. \A p \in Places : Held(i, p) = 0
  BY <1>2, NothingIn, HeldIs DEF TreeInv, Emptying
<1>4. /\ pc'[t] = "user" /\ call'[t] = NoCall
      /\ \A u \in Task : u # t => pc'[u] = pc[u] /\ call'[u] = call[u]
  BY <1>1 DEF Proceed, TypesInv, CallsInv
<1>5. ASSUME NEW j, j # i PROVE Freed(j)' = Freed(j)
  <2>1. ASSUME NEW p \in Places
        PROVE  (\E u \in Task : call'[u].op = "truncate" /\ call'[u].inode = j /\ p \in Behind(call'[u].visit))
               <=> (\E u \in Task : call[u].op = "truncate" /\ call[u].inode = j /\ p \in Behind(call[u].visit))
    <3>1. NoCall.op # "truncate"
      BY DEF NoCall
    <3> QED BY <1>2, <1>4, <1>5, <3>1
  <2> QED BY <2>1, FreedIs, FreedNext
<1>6. SameOwned
  <2>1. ASSUME NEW j \in Inode, NEW p \in Places
        PROVE  (Owns(j, p)' <=> Owns(j, p)) /\ (Owns(j, p) => Held(j, p)' = Held(j, p))
    <3>1. Held(j, p)' = Held(j, p)
      BY <1>1, SameSteady
    <3>2. CASE j = i
      BY <1>3, <3>1, <3>2 DEF Owns
    <3>3. CASE j # i
      BY <1>5, <3>1, <3>3 DEF Owns
    <3> QED BY <3>2, <3>3
  <2> QED BY <2>1 DEF SameOwned
<1>7. \A u \in Task : SameNew(u)
  BY <1>1, <1>4 DEF SameNew
<1>8. BlocksInv'
  BY <1>1, <1>6, <1>7, KeepBlocks DEF TreeInv
<1>9. Following(t)' /\ Emptying(t)'
  BY <1>4 DEF Following, Emptying, NoCall
<1> QED BY <1>1, <1>8, <1>9, SameSteady, Together

LEMMA SyncStep ==
    ASSUME ~Sharing, TypesInv, TreeInv, NEW t \in Task, inode_sync(t)
    PROVE  TreeInv'
<1>1. /\ TransferOK(call[t], "sync") \/ TruncationOK(call[t], "sync")
      /\ pc[t] = "sync"
  BY CallAt DEF inode_sync, Locating, At
<1>2. CASE call[t].op = "truncate"
  BY <1>1, <1>2, EmptiedStep
<1>3. CASE call[t].op = "write"
  BY <1>1, <1>3, FinishStep DEF inode_sync
<1>4. CASE call[t].op = "read"
  <2>1. Proceed(t, NoCall, "user") /\ UNCHANGED <<offset, zmap, zone, size, content>>
    BY <1>4 DEF inode_sync
  <2>2. Following(t)'
    BY <2>1 DEF Following, Proceed, TypesInv, CallsInv
  <2>3. NoCall.op # "truncate"
    BY DEF NoCall
  <2> QED BY <1>1, <1>4, <2>1, <2>2, <2>3, QuietStep
<1> QED BY <1>1, <1>2, <1>3, <1>4, CallKinds DEF TransferOK, TruncationOK

\* Where a call that empties a file comes to, it is in the blocks above.
LEMMA InsideNow ==
    ASSUME NEW c, NEW z, Ready(c, z), NEW v, First(c, z, v), NEW i, zone'[i] = z, content' = content,
           NEW d, d.one = c.one, d.two = c.two
    PROVE  Inside(d, i, v)'
<1>1. /\ v \in Visits
      /\ v[2] = None => c.one = 0
      /\ v[2] # None => c.one \in Block /\ c.one = z[v[1]]
      /\ v[3] = None => c.two = 0
      /\ v[3] # None => c.two \in Block /\ c.two = content[c.one][v[2]]
  BY FirstWithin
<1>2. v[2] # None => Held(i, <<v[1], None, None>>)' = c.one
  <2>1. ASSUME v[2] # None PROVE Held(i, <<v[1], None, None>>)' = z[v[1]]
    BY DEF Held
  <2> QED BY <1>1, <2>1
<1>3. v[3] # None => Held(i, <<v[1], v[2], None>>)' = c.two
  <2>1. ASSUME v[3] # None PROVE v[2] # None
    BY <1>1, <2>1, VisitShape
  <2>2. ASSUME v[3] # None PROVE Held(i, <<v[1], v[2], None>>)' = content[c.one][v[2]]
    BY <1>1, <2>1, <2>2 DEF Held
  <2> QED BY <1>1, <2>2
<1>4. \A s \in Slot : s < v[1] => zone'[i][s] = 0
  BY FirstBehind
<1>5. 0 \notin Block
  BY BlocksAre
<1> QED BY <1>1, <1>2, <1>3, <1>4, <1>5 DEF Inside

LEMMA BehindGrows ==
    ASSUME NEW v \in Visits \cup {Start}, NEW w \in Visits, Before(v, w)
    PROVE  Behind(v) \subseteq Behind(w)
<1>1. ASSUME NEW p \in Places, ~Before(v, Exit(p)), Before(w, Exit(p)) PROVE FALSE
  <2>1. Exit(p) \in Visits
    BY ExitIs
  <2> QED BY <1>1, <2>1, VisitOrder
<1> QED BY <1>1 DEF Behind

\* What the emptying of a file leaves alone.
LEMMA OtherFiles ==
    ASSUME TypesInv, NEW i, NEW z, zone' = [zone EXCEPT ![i] = z], content' = content
    PROVE  /\ \A j \in Inode : j # i => zone'[j] = zone[j] /\ Steady(j)
           /\ \A j \in Inode : j # i => \A p : Held(j, p)' = Held(j, p)
           /\ i \in Inode => /\ zone'[i] = z
                             /\ \A p : Held(i, p)' = HeldIn(z, content, p)
<1>1. \A j \in Inode : j # i => zone'[j] = zone[j]
  BY DEF TypesInv, DiskInv
<1>2. i \in Inode => zone'[i] = z
  BY DEF TypesInv, DiskInv
<1>3. \A j \in Inode : j # i => \A p : Held(j, p)' = Held(j, p)
  BY <1>1, HeldIs
<1>4. \A j \in Inode : j # i => Steady(j)
  BY <1>3 DEF Steady
<1>5. i \in Inode => \A p : Held(i, p)' = HeldIn(z, content, p)
  BY <1>2, HeldIs
<1> QED BY <1>1, <1>2, <1>3, <1>4, <1>5

(***************************************************************************)
(* From one visit to the next, the blocks of the file are those that it    *)
(* had, but for the one that is freed.                                     *)
(***************************************************************************)
LEMMA VisitOwns ==
    ASSUME ~Sharing, TypesInv, TreeInv, NEW t \in Task, NEW c, NEW z, Ready(c, z), MayWork(t, c.inode),
           Freed(c.inode) = Behind(c.visit),
           \A p \in Places : p \notin Behind(c.visit) => HeldIn(z, content, p) = Held(c.inode, p),
           NEW v, First(c, z, v), NEW d, d.visit = v, d.inode = c.inode, d.op = "truncate",
           NEW label, Proceed(t, d, label), zone' = [zone EXCEPT ![c.inode] = z], content' = content
    PROVE  \A j \in Inode, p \in Places :
              \/ j = c.inode /\ p = PlaceOf(v) /\ v \notin IndexPlace /\ ~Owns(j, p)'
              \/ (Owns(j, p)' <=> Owns(j, p)) /\ (Owns(j, p) => Held(j, p)' = Held(j, p))
<1>0. /\ \A j \in Inode : j # c.inode => zone'[j] = zone[j] /\ Steady(j)
      /\ \A j \in Inode : j # c.inode => \A p : Held(j, p)' = Held(j, p)
      /\ c.inode \in Inode => /\ zone'[c.inode] = z
                              /\ \A p : Held(c.inode, p)' = HeldIn(z, content, p)
  BY OtherFiles
<1>1. PICK i \in Inode : i = c.inode
  BY CallKinds DEF Ready
<1>2. v \in Visits /\ c.visit \in Visits \cup {Start} /\ Before(c.visit, v)
  BY FirstWithin, AtVisit
<1>3. Freed(i)' = Behind(v) /\ \A j : j # i => Freed(j)' = Freed(j)
  BY <1>1, FreedTo DEF TypesInv, TreeInv
<1>4. ASSUME NEW j \in Inode, j # i, NEW p \in Places
      PROVE  (Owns(j, p)' <=> Owns(j, p)) /\ (Owns(j, p) => Held(j, p)' = Held(j, p))
  <2>1. \A q : Held(j, q)' = Held(j, q)
    BY <1>0, <1>1, <1>4
  <2> QED BY <1>3, <1>4, <2>1 DEF Owns
<1>5. ASSUME NEW p \in Places, p \in Behind(c.visit)
      PROVE  ~Owns(i, p)' /\ ~Owns(i, p)
  <2>1. p \in Behind(v)
    BY <1>2, <1>5, BehindGrows
  <2> QED BY <1>1, <1>3, <1>5, <2>1 DEF Owns
<1>6. \A p : Held(i, p)' = HeldIn(z, content, p)
  BY <1>0, <1>1
<1>7. ASSUME NEW p \in Places, p \notin Behind(c.visit), p \notin Behind(v)
      PROVE  (Owns(i, p)' <=> Owns(i, p)) /\ Held(i, p)' = Held(i, p)
  <2>1. Held(i, p)' = Held(i, p)
    BY <1>1, <1>6, <1>7
  <2> QED BY <1>1, <1>3, <1>7, <2>1 DEF Owns
<1>8. ASSUME NEW p \in Places, p \notin Behind(c.visit), p \in Behind(v)
      PROVE  \/ p = PlaceOf(v) /\ v \notin IndexPlace /\ ~Owns(i, p)'
             \/ ~Owns(i, p)' /\ ~Owns(i, p)
  <2>1. ~Owns(i, p)'
    BY <1>3, <1>8 DEF Owns
  <2>2. HeldIn(z, content, p) = 0 \/ (p = PlaceOf(v) /\ v \notin IndexPlace)
    BY <1>8, FirstSkips DEF TypesInv
  <2>3. HeldIn(z, content, p) = 0 => ~Owns(i, p)
    BY <1>1, <1>8 DEF Owns
  <2> QED BY <2>1, <2>2, <2>3
<1> QED BY <1>1, <1>4, <1>5, <1>7, <1>8

LEMMA NothingDue ==
    ASSUME ~Sharing, TypesInv, TreeInv, NEW t \in Task, NEW c, NEW z, Ready(c, z), MayWork(t, c.inode),
           pc[t] # "balloc", Freed(c.inode) = Behind(c.visit),
           \A p \in Places : p \notin Behind(c.visit) => HeldIn(z, content, p) = Held(c.inode, p),
           DueOf(c, z) = {}, Proceed(t, c, "sync"),
           zone' = [zone EXCEPT ![c.inode] = z], size' = [size EXCEPT ![c.inode] = 0],
           UNCHANGED <<zmap, content>>
    PROVE  TreeInv'
<1>0. /\ \A j \in Inode : j # c.inode => zone'[j] = zone[j] /\ Steady(j)
      /\ \A j \in Inode : j # c.inode => \A p : Held(j, p)' = Held(j, p)
      /\ c.inode \in Inode => /\ zone'[c.inode] = z
                              /\ \A p : Held(c.inode, p)' = HeldIn(z, content, p)
  BY OtherFiles
<1>1. PICK i \in Inode : i = c.inode
  BY CallKinds DEF Ready
<1>2. /\ pc'[t] = "sync" /\ call'[t] = c /\ c.op = "truncate"
      /\ \A u \in Task : u # t => pc'[u] = pc[u] /\ call'[u] = call[u]
  BY CallKinds DEF Proceed, TypesInv, CallsInv, Ready
<1>3. zone'[i] = z /\ size'[i] = 0 /\ \A s \in Slot : z[s] = 0
  <2>1. zone'[i] = z
    BY <1>0, <1>1
  <2>2. size'[i] = 0
    BY <1>1 DEF TypesInv, DiskInv
  <2>3. \A s \in Slot : z[s] = 0
    BY NoneDue
  <2> QED BY <2>1, <2>2, <2>3
<1>4. \A p \in Places : Held(i, p)' = 0
  BY <1>0, <1>1, <1>3, NothingIn
<1>5. \A p \in Places : ~Owns(i, p) /\ ~Owns(i, p)'
  <2>1. ASSUME NEW p \in Places, Owns(i, p) PROVE FALSE
    <3>1. p \notin Behind(c.visit) /\ Held(i, p) # 0
      BY <1>1, <2>1 DEF Owns
    <3>2. HeldIn(z, content, p) = Held(i, p) /\ Held(i, p)' = HeldIn(z, content, p)
      BY <1>0, <1>1, <3>1
    <3> QED BY <1>4, <3>1, <3>2
  <2> QED BY <1>4, <2>1 DEF Owns
<1>6. \A j : j # i => Freed(j)' = Freed(j)
  BY <1>1, <1>2, FreedTo DEF TypesInv, TreeInv
<1>7. SameOwned
  <2>1. ASSUME NEW j \in Inode, NEW p \in Places, j # i
        PROVE  (Owns(j, p)' <=> Owns(j, p)) /\ Held(j, p)' = Held(j, p)
    <3>1. \A q : Held(j, q)' = Held(j, q)
      BY <1>0, <1>1, <2>1
    <3> QED BY <1>6, <2>1, <3>1 DEF Owns
  <2> QED BY <1>5, <2>1 DEF SameOwned
<1>8. \A u \in Task : SameNew(u)
  BY <1>2 DEF SameNew
<1>9. BlocksInv'
  BY <1>7, <1>8, KeepBlocks DEF TreeInv
<1>10. Following(t)' /\ Emptying(t)'
  BY <1>1, <1>2, <1>3 DEF Following, Emptying
<1>11. ASSUME NEW u \in Task \ {t}, pc[u] # "user"
       PROVE  zone'[call[u].inode] = zone[call[u].inode] /\ size'[call[u].inode] = size[call[u].inode]
              /\ Steady(call[u].inode)
  <2>1. call[u].inode # i /\ call[u].inode \in Inode
    BY <1>1, <1>11, CallKinds DEF TypesInv, CallsInv, CallOK, TransferOK, TruncationOK, TreeInv, Exclusive,
       MayWork, Usable
  <2>2. size'[call[u].inode] = size[call[u].inode]
    BY <1>1, <2>1 DEF TypesInv, DiskInv
  <2> QED BY <1>0, <1>1, <2>1, <2>2
<1> QED BY <1>9, <1>10, <1>11, Together

LEMMA FirstDue ==
    ASSUME ~Sharing, OneMap, TypesInv, TreeInv, NEW t \in Task, NEW c, NEW z, Ready(c, z),
           MayWork(t, c.inode), pc[t] # "balloc", Freed(c.inode) = Behind(c.visit),
           \A p \in Places : p \notin Behind(c.visit) => HeldIn(z, content, p) = Held(c.inode, p),
           NEW v, First(c, z, v), NEW nr, nr = EntryAt(c, v, z),
           NEW d, d \in Truncation, d.visit = v, d.nr = nr, d.inode = c.inode,
           d.one = c.one, d.two = c.two,
           NEW label, Proceed(t, d, label),
           zone' = [zone EXCEPT ![c.inode] = z], UNCHANGED <<size, content>>,
           \/ label = "enter" /\ v \in IndexPlace /\ zmap' = zmap
           \/ label = "bfree" /\ v \notin IndexPlace /\ zmap' = bitmap_clear(zmap, nr)
    PROVE  TreeInv'
<1>0. /\ \A j \in Inode : j # c.inode => zone'[j] = zone[j] /\ Steady(j)
      /\ c.inode \in Inode => /\ zone'[c.inode] = z
                              /\ \A p : Held(c.inode, p)' = HeldIn(z, content, p)
  <2>1. zone' = [zone EXCEPT ![c.inode] = z] /\ content' = content
    OBVIOUS
  <2> QED BY ONLY TypesInv, <2>1, OtherFiles
<1>1. PICK i \in Inode : i = c.inode
  BY CallKinds DEF Ready
<1>2. /\ pc'[t] = label /\ call'[t] = d /\ d.op = "truncate"
      /\ \A u \in Task : u # t => pc'[u] = pc[u] /\ call'[u] = call[u]
  BY CallKinds DEF Proceed, TypesInv, CallsInv
<1>3. nr = Held(i, PlaceOf(v))' /\ nr = HeldIn(z, content, PlaceOf(v)) /\ nr # 0
  BY <1>0, <1>1, FirstEntry
<1>4. \A j \in Inode, p \in Places :
         \/ j = i /\ p = PlaceOf(v) /\ v \notin IndexPlace /\ ~Owns(j, p)'
         \/ (Owns(j, p)' <=> Owns(j, p)) /\ (Owns(j, p) => Held(j, p)' = Held(j, p))
  <2>1. \A j \in Inode, p \in Places :
           \/ j = c.inode /\ p = PlaceOf(v) /\ v \notin IndexPlace /\ ~Owns(j, p)'
           \/ (Owns(j, p)' <=> Owns(j, p)) /\ (Owns(j, p) => Held(j, p)' = Held(j, p))
    <3>1. content' = content /\ d.op = "truncate"
      BY <1>2
    <3> QED BY <3>1, VisitOwns
  <2> QED BY <1>1, <2>1
<1>5. \A u \in Task : SameNew(u)
  BY <1>2 DEF SameNew
<1>6. CASE label = "enter"
  <2>1. SameOwned
    BY <1>4, <1>6 DEF SameOwned
  <2>2. BlocksInv'
    BY <1>5, <1>6, <2>1, KeepBlocks DEF TreeInv
  <2>3. PlaceOf(v) = v
    BY <1>6, EnterLeave
  <2>4. Inside(d, i, v)'
    BY <1>0, <1>1, InsideNow
  <2>5. Following(t)' /\ Emptying(t)'
    BY <1>1, <1>2, <1>3, <1>6, <2>3, <2>4 DEF Following, Emptying, Inside
  <2>6. ASSUME NEW u \in Task \ {t}, pc[u] # "user"
        PROVE  zone'[call[u].inode] = zone[call[u].inode] /\ size'[call[u].inode] = size[call[u].inode]
               /\ Steady(call[u].inode)
    <3>1. call[u].inode # i /\ call[u].inode \in Inode
      BY <1>1, <2>6, CallKinds DEF TypesInv, CallsInv, CallOK, TransferOK, TruncationOK, TreeInv, Exclusive,
         MayWork, Usable
    <3> QED BY <1>0, <1>1, <3>1
  <2> QED BY <2>2, <2>5, <2>6, Together
<1>7. CASE label = "bfree"
  <2>1. PICK p \in Places : p = PlaceOf(v) /\ p \notin Behind(c.visit)
    BY FirstAhead
  <2>2. Held(i, p) = nr /\ Owns(i, p)
    BY <1>1, <1>3, <2>1 DEF Owns
  <2>3. ~Owns(i, p)'
    <3>1. Freed(i)' = Behind(v)
      BY <1>1, <1>2, FreedTo DEF TypesInv, TreeInv
    <3>2. v \in Leaf \cup Leaving
      BY <1>7, FirstWithin DEF Visits
    <3>3. Exit(p) = v /\ v \in Visits
      BY <2>1, <3>2, ExitOf
    <3>4. p \in Behind(v)
      BY <3>3, VisitOrder DEF Behind
    <3> QED BY <3>1, <3>4 DEF Owns
  <2>4. \A j \in Inode, q \in Places : j # i \/ q # p =>
           (Owns(j, q)' <=> Owns(j, q)) /\ (Owns(j, q) => Held(j, q)' = Held(j, q))
    BY <1>4, <2>1
  <2>5. BlocksInv'
    BY <1>5, <1>7, <2>2, <2>3, <2>4, OldBlock DEF TypesInv, TreeInv
  <2>6. Inside(d, i, v)'
    BY <1>0, <1>1, InsideNow
  <2>7. Following(t)' /\ Emptying(t)'
    BY <1>1, <1>2, <1>3, <1>7, <2>6 DEF Following, Emptying, Inside
  <2>8. ASSUME NEW u \in Task \ {t}, pc[u] # "user"
        PROVE  zone'[call[u].inode] = zone[call[u].inode] /\ size'[call[u].inode] = size[call[u].inode]
               /\ Steady(call[u].inode)
    <3>1. call[u].inode # i /\ call[u].inode \in Inode
      BY <1>1, <2>8, CallKinds DEF TypesInv, CallsInv, CallOK, TransferOK, TruncationOK, TreeInv, Exclusive,
         MayWork, Usable
    <3> QED BY <1>0, <1>1, <3>1
  <2> QED BY <2>5, <2>7, <2>8, Together
<1> QED BY <1>6, <1>7

(***************************************************************************)
(* inode_truncate goes on: the next block of its file that is due is one   *)
(* that the file has, and so bfree finds its bit.                          *)
(***************************************************************************)
LEMMA GoOnStep ==
    ASSUME ~Sharing, OneMap, TypesInv, TreeInv, NEW t \in Task, NEW c, NEW z, Ready(c, z),
           MayWork(t, c.inode), pc[t] # "balloc", Freed(c.inode) = Behind(c.visit),
           \A p \in Places : p \notin Behind(c.visit) => HeldIn(z, content, p) = Held(c.inode, p),
           GoOn(t, c, z)
    PROVE  TreeInv'
<1> DEFINE due == {v \in Visits : Before(c.visit, v) /\ Due(c, v, z)}
           v == CHOOSE w \in due : \A u \in due : u = w \/ Before(w, u)
           nr == EntryAt(c, v, z)
<1>1. due = DueOf(c, z)
  BY DEF DueOf
<1>2. CASE due = {}
  <2>1. /\ zone' = [zone EXCEPT ![c.inode] = z]
        /\ size' = [size EXCEPT ![c.inode] = 0]
        /\ Proceed(t, c, "sync")
        /\ UNCHANGED <<zmap, content, offset>>
    BY <1>2 DEF GoOn
  <2>2. DueOf(c, z) = {}
    BY <1>1, <1>2
  <2> HIDE DEF due, v, nr
  <2> QED BY <2>1, <2>2, NothingDue
<1>3. CASE due # {}
  <2>1. v \in due /\ \A u \in due : u = v \/ Before(v, u)
    <3>1. due \in SUBSET Visits
      OBVIOUS
    <3> HIDE DEF due
    <3> QED BY <1>3, <3>1, FirstVisit
  <2>2. IF v \notin IndexPlace THEN bfree(t, [c EXCEPT !.visit = v], nr, z)
        ELSE IF nr \notin Block THEN Stop("garbage")
        ELSE /\ zone' = [zone EXCEPT ![c.inode] = z]
             /\ Proceed(t, [c EXCEPT !.visit = v, !.nr = nr], "enter")
             /\ UNCHANGED <<zmap, size, content, offset>>
    BY <1>3 DEF GoOn
  <2> HIDE DEF v
  <2>3. First(c, z, v)
    <3> HIDE DEF due
    <3> QED BY <1>1, <2>1 DEF First
  <2> HIDE DEF due
  <2>4. v \in Visits /\ nr = HeldIn(z, content, PlaceOf(v)) /\ nr # 0 /\ PlaceOf(v) \in Places
        /\ PlaceOf(v) \notin Behind(c.visit)
    BY <2>3, FirstWithin, FirstEntry, FirstAhead
  <2>5. nr = EntryAt(c, v, z)
    OBVIOUS
  <2> HIDE DEF nr
  <2>6. nr \in Nat /\ c \in Truncation
    <3>1. z \in [Slot -> Nat] /\ c \in Truncation
      BY DEF Ready
    <3> QED BY <2>4, <3>1, HeldNat DEF TypesInv, DiskInv
  <2>7. PICK e : e = [c EXCEPT !.visit = v]
    OBVIOUS
  <2>8. e \in Truncation /\ e.visit = v /\ e.inode = c.inode /\ e.one = c.one /\ e.two = c.two
    BY <2>4, <2>6, <2>7, VisitingIs
  <2>9. PICK d : d = [e EXCEPT !.nr = nr]
    OBVIOUS
  <2>10. /\ d \in Truncation /\ d.visit = v /\ d.nr = nr /\ d.inode = c.inode
         /\ d.one = c.one /\ d.two = c.two
    BY <2>6, <2>8, <2>9, NumberedIs
  <2>11. CASE v \notin IndexPlace
    <3>1. bfree(t, e, nr, z)
      BY <2>2, <2>7, <2>11
    <3>2. IsMarked(nr)
      <4>1. Owns(c.inode, PlaceOf(v)) /\ Held(c.inode, PlaceOf(v)) = nr
        BY <2>4 DEF Owns
      <4>2. c.inode \in Inode
        BY <2>6, CallKinds
      <4>3. Marked(nr)
        BY <2>4, <4>1, <4>2 DEF TreeInv, BlocksInv, OwnedOnce
      <4> QED BY <4>3, MarkedFound DEF TypesInv
    <3>3. /\ zmap' = bitmap_clear(zmap, nr)
          /\ zone' = [zone EXCEPT ![c.inode] = z]
          /\ Proceed(t, d, "bfree")
          /\ UNCHANGED <<size, content>>
      BY <2>8, <2>9, <3>1, <3>2 DEF bfree
    <3> QED BY <2>3, <2>5, <2>10, <2>11, <3>3, FirstDue
  <2>12. CASE v \in IndexPlace /\ nr \notin Block
    <3>1. Stop("garbage")
      BY <2>2, <2>12
    <3>2. stopped' # "unmarked" /\ UNCHANGED <<pc, call, zmap, zone, size, content>>
      BY <3>1 DEF Stop
    <3> QED BY <3>2, SameTree
  <2>13. CASE v \in IndexPlace /\ nr \in Block
    <3>1. /\ zone' = [zone EXCEPT ![c.inode] = z]
          /\ Proceed(t, d, "enter")
          /\ UNCHANGED <<zmap, size, content>>
      BY <2>2, <2>7, <2>9, <2>13
    <3> QED BY <2>3, <2>5, <2>10, <2>13, <3>1, FirstDue
  <2> QED BY <2>11, <2>12, <2>13
<1> QED BY <1>2, <1>3

LEMMA TruncateStep ==
    ASSUME ~Sharing, OneMap, TypesInv, TreeInv, NEW t \in Task, NEW i \in Inode, Truncate(t, i)
    PROVE  TreeInv'
<1>1. PICK c : c = [op |-> "truncate", inode |-> i, visit |-> Start, one |-> 0, two |-> 0, nr |-> 0]
  OBVIOUS
<1>2. c \in Truncation /\ c.inode = i /\ c.visit = Start /\ c.one = 0 /\ c.two = 0
  BY <1>1 DEF Truncation
<1>3. pc[t] = "user" /\ Usable(i) /\ GoOn(t, c, zone[i])
  BY <1>1 DEF Truncate, Begin
<1>4. Ready(c, zone[i])
  <2>1. Start[1] = -1 /\ Start[2] = -1
    BY DEF Start, None
  <2>2. ~WithinOne(c.visit) /\ ~WithinTwo(c.visit) /\ c.visit \notin Visits
    <3>1. \A v \in Visits : v[1] >= 0
      BY VisitShape
    <3> QED BY <1>2, <2>1, <3>1, Constants DEF WithinOne, WithinTwo
  <2>3. \A s \in Slot : ~(s < c.visit[1])
    BY <1>2, <2>1, Constants
  <2>4. zone[i] \in [Slot -> Nat]
    BY DEF TypesInv, DiskInv
  <2> QED BY <1>2, <2>2, <2>3, <2>4 DEF Ready
<1>5. MayWork(t, i)
  BY <1>3 DEF MayWork
<1>6. Freed(i) = {}
  BY <1>3, <1>5, FreedNone, TruncatingVisit DEF TypesInv, TreeInv
<1>7. Behind(c.visit) = {}
  BY <1>2, BehindStart
<1> QED BY <1>2, <1>3, <1>4, <1>5, <1>6, <1>7, HeldIs, GoOnStep

\* What a call that empties a file has at hand where it waits.
LEMMA AtHand ==
    ASSUME TypesInv, TreeInv, NEW t \in Task, NEW c, c = call[t],
           NEW label \in {"enter", "bfree"}, At(t, label)
    PROVE  /\ TruncationOK(c, label) /\ pc[t] = label /\ c \in Truncation /\ c.inode \in Inode
           /\ c.visit \in Visits /\ MayWork(t, c.inode) /\ Freed(c.inode) = Behind(c.visit)
           /\ zone[c.inode] \in [Slot -> Nat]
           /\ c.visit[2] = None => c.one = 0
           /\ c.visit[2] # None => c.one \in Block /\ c.one = zone[c.inode][c.visit[1]]
           /\ c.visit[3] = None => c.two = 0
           /\ c.visit[3] # None => c.two \in Block /\ c.two = content[c.one][c.visit[2]]
           /\ \A s \in Slot : s < c.visit[1] => zone[c.inode][s] = 0
<1>1. TruncationOK(c, label) /\ pc[t] = label /\ Emptying(t)
  BY CallAt DEF TreeInv, At
<1>2. c \in Truncation /\ c.inode \in Inode /\ c.visit \in Visits /\ c.op = "truncate"
  BY <1>1, CallKinds DEF TruncationOK, Visits
<1>3. MayWork(t, c.inode) /\ Freed(c.inode) = Behind(c.visit)
  BY <1>1, <1>2, FreedOf DEF MayWork, TypesInv, TreeInv
<1>4. zone[c.inode] \in [Slot -> Nat]
  BY <1>2 DEF TypesInv, DiskInv
<1>5. Inside(c, c.inode, c.visit)
  BY <1>1 DEF Emptying
<1>6. c.visit[3] # None => c.visit[2] # None
  BY <1>2, VisitShape
<1>7. c.one \in Block \cup {0} /\ c.two \in Block \cup {0}
  BY <1>2 DEF Truncation
<1>8. c.visit[2] # None => c.one \in Block /\ c.one = zone[c.inode][c.visit[1]]
  <2>1. Held(c.inode, <<c.visit[1], None, None>>) = zone[c.inode][c.visit[1]]
    BY DEF Held
  <2> QED BY <1>5, <1>7, <2>1 DEF Inside
<1>9. c.visit[3] # None => c.two \in Block /\ c.two = content[c.one][c.visit[2]]
  <2>1. ASSUME c.visit[3] # None PROVE c.two = Held(c.inode, <<c.visit[1], c.visit[2], None>>) /\ c.two # 0
    BY <1>5, <2>1 DEF Inside
  <2>2. ASSUME c.visit[3] # None
        PROVE  Held(c.inode, <<c.visit[1], c.visit[2], None>>) = content[c.one][c.visit[2]]
    BY <1>6, <1>8, <2>2 DEF Held
  <2> QED BY <1>7, <2>1, <2>2
<1> QED BY <1>1, <1>2, <1>3, <1>4, <1>5, <1>8, <1>9 DEF Inside

LEMMA EnterStep ==
    ASSUME ~Sharing, OneMap, TypesInv, TreeInv, NEW t \in Task, inode_bfree_enter(t)
    PROVE  TreeInv'
<1>1. PICK c : c = call[t]
  OBVIOUS
<1>2. PICK i : i = c.inode
  OBVIOUS
<1>3. At(t, "enter") /\ GoOn(t, Into(c), zone[i])
  BY <1>1, <1>2 DEF inode_bfree_enter
<1>4. PICK v : v = c.visit
  OBVIOUS
<1>5. /\ TruncationOK(c, "enter") /\ pc[t] = "enter" /\ i \in Inode
      /\ v \in Visits /\ MayWork(t, i) /\ Freed(i) = Behind(v) /\ zone[i] \in [Slot -> Nat]
      /\ v[2] = None => c.one = 0
      /\ v[2] # None => c.one \in Block /\ c.one = zone[i][v[1]]
      /\ v[3] = None => c.two = 0
      /\ \A s \in Slot : s < v[1] => zone[i][s] = 0
  BY <1>1, <1>2, <1>3, <1>4, AtHand
<1>6. v \in IndexPlace /\ c.nr \in Block /\ c.nr = Held(i, v)
  BY <1>1, <1>2, <1>4, <1>5 DEF TruncationOK, Emptying, TreeInv
<1>7. PICK d : d = Into(c)
  OBVIOUS
<1>8. /\ d \in Truncation /\ d.inode = i /\ d.visit = v
      /\ v[2] = None => d.one = c.nr /\ d.two = c.two
      /\ v[2] # None => d.one = c.one /\ d.two = c.nr
  BY <1>2, <1>4, <1>5, <1>7, IntoIs
<1>9. /\ v[1] >= Direct /\ v[3] = None
      /\ v[2] # None => v[1] = Direct + 1 /\ v[2] \in Cells
      /\ v[2] # Indexes
  <2>1. /\ v \in Places /\ v \notin Leaf
    BY <1>6, PlaceShape DEF Places
  <2>2. /\ v[1] \in Slot /\ v[2] \in {None} \cup Cells /\ v[3] \in {None} \cup Cells
        /\ v[2] = None => v[3] = None
        /\ v[2] # None => v[1] \in {Direct, Direct + 1}
        /\ v[3] # None => v[1] = Direct + 1
        /\ ~(v[1] < Direct)
        /\ ~(v[1] = Direct /\ v[2] # None)
        /\ ~(v[1] = Direct + 1 /\ v[3] # None)
    BY <2>1, PlaceShape
  <2> QED BY ONLY <2>2, Constants
<1>10. /\ WithinOne(v)
       /\ WithinTwo(v) <=> v[2] # None
  <2>1. None \notin Cells /\ None # Indexes
    BY Constants
  <2> QED BY <1>9, <2>1 DEF WithinOne, WithinTwo
<1>11. Held(i, v) = IF v[2] = None THEN zone[i][v[1]] ELSE content[c.one][v[2]]
  BY <1>5, <1>9 DEF Held
<1>12. Ready(d, zone[i])
  <2>1. CASE v[2] = None
    BY <1>5, <1>6, <1>8, <1>9, <1>10, <1>11, <2>1 DEF Ready
  <2>2. CASE v[2] # None
    BY <1>5, <1>6, <1>8, <1>9, <1>10, <1>11, <2>2 DEF Ready
  <2> QED BY <2>1, <2>2
<1> QED BY <1>3, <1>5, <1>7, <1>8, <1>12, HeldIs, GoOnStep

LEMMA FreedBlockStep ==
    ASSUME ~Sharing, OneMap, TypesInv, TreeInv, NEW t \in Task, inode_bfree_freed(t)
    PROVE  TreeInv'
<1>1. PICK c : c = call[t]
  OBVIOUS
<1>2. PICK i : i = c.inode
  OBVIOUS
<1>3. PICK v : v = c.visit
  OBVIOUS
<1>4. PICK z : z = Cleared(zone[i], v)
  OBVIOUS
<1>5. At(t, "bfree") /\ GoOn(t, OutOf(c), z)
  BY <1>1, <1>2, <1>3, <1>4 DEF inode_bfree_freed
<1>6. /\ TruncationOK(c, "bfree") /\ pc[t] = "bfree" /\ i \in Inode /\ c \in Truncation
      /\ v \in Visits /\ MayWork(t, i) /\ Freed(i) = Behind(v) /\ zone[i] \in [Slot -> Nat]
      /\ v[2] = None => c.one = 0
      /\ v[2] # None => c.one \in Block /\ c.one = zone[i][v[1]]
      /\ v[3] = None => c.two = 0
      /\ v[3] # None => c.two \in Block /\ c.two = content[c.one][v[2]]
      /\ \A s \in Slot : s < v[1] => zone[i][s] = 0
  BY <1>1, <1>2, <1>3, <1>5, AtHand
<1>7. PICK d : d = OutOf(c)
  OBVIOUS
<1>8. /\ d \in Truncation /\ d.inode = i /\ d.visit = v
      /\ v \notin Leaving => d = c
      /\ v \in Leaving /\ v[3] = None => d.one = 0 /\ d.two = c.two
      /\ v \in Leaving /\ v[3] # None => d.one = c.one /\ d.two = 0
  BY <1>2, <1>3, <1>6, <1>7, OutOfIs
<1>9. /\ v = <<v[1], v[2], v[3]>> /\ v[1] \in Slot /\ v[2] \in -1..Indexes /\ v[3] \in -1..Indexes
      /\ v \in Leaving <=> v[2] = Indexes \/ v[3] = Indexes
      /\ \/ v[1] < Direct /\ v[2] = None /\ v[3] = None /\ v \in Leaf
         \/ v[1] = Direct /\ v[2] \in Cells /\ v[3] = None
         \/ v[1] = Direct + 1 /\ v[2] \in Cells /\ v[3] \in Cells
         \/ v[1] \in {Direct, Direct + 1} /\ v[2] = Indexes /\ v[3] = None
         \/ v[1] = Direct + 1 /\ v[2] \in Cells /\ v[3] = Indexes
  <2>1. v \in Leaf \cup Leaving
    BY <1>3, <1>6 DEF TruncationOK
  <2>2. CASE v \in Leaf
    BY <1>6, <2>2, Shapes, Constants
  <2>3. CASE v \in Leaving
    <3>1. PICK s \in {Direct, Direct + 1}, j \in Cells :
             v = <<s, Indexes, None>> \/ v = <<Direct + 1, j, Indexes>>
      <4>1. 0 \in Cells
        BY Constants
      <4> QED BY <2>3, <4>1 DEF Leaving
    <3> QED BY <1>6, <3>1, Shapes
  <2> QED BY <2>1, <2>2, <2>3
<1>10. PlaceOf(v)[2] = None <=> v[2] = None \/ v[2] = Indexes
  BY <1>6, PlaceIs
<1>11. /\ z \in [Slot -> Nat]
       /\ v[2] = None \/ v[2] = Indexes => z = [zone[i] EXCEPT ![v[1]] = 0]
       /\ ~(v[2] = None \/ v[2] = Indexes) => z = zone[i]
  BY <1>4, <1>6, <1>10 DEF Cleared
<1>12. /\ WithinOne(v) <=> v[2] \in Cells
       /\ WithinTwo(v) <=> v[3] \in Cells
       /\ v[2] \in Cells => v[2] # None /\ v[2] # Indexes
       /\ v[3] \in Cells => v[3] # None /\ v[2] \in Cells
       /\ v[3] \in Cells => v \notin Leaving
       /\ v[2] \notin Cells => (v[2] = None \/ v[2] = Indexes) /\ v[3] = None
  <2>1. None \notin Cells /\ Indexes \notin Cells /\ None # Indexes
    BY Constants
  <2>2. v[1] \in Nat /\ Direct \in Nat
    BY <1>9, Constants
  <2> QED BY <1>9, <2>1, <2>2 DEF WithinOne, WithinTwo
<1>13. Ready(d, z)
  <2>1. IF WithinOne(v) THEN d.one \in Block /\ d.one = z[v[1]] ELSE d.one = 0
    <3>1. CASE v[2] \in Cells
      <4>1. d.one = c.one
        <5>1. v \in Leaving => v[3] # None
          BY <1>9, <1>12, <3>1, Constants
        <5> QED BY <1>8, <5>1
      <4> QED BY <1>6, <1>11, <1>12, <3>1, <4>1
    <3>2. CASE v[2] \notin Cells
      BY <1>6, <1>8, <1>9, <1>12, <3>2
    <3> QED BY <3>1, <3>2
  <2>2. IF WithinTwo(v) THEN d.two \in Block /\ d.two = content[d.one][v[2]] ELSE d.two = 0
    <3>1. CASE v[3] \in Cells
      BY <1>6, <1>8, <1>12, <3>1
    <3>2. CASE v[3] = Indexes
      <4>1. v \in Leaving /\ v[3] # None
        BY <1>9, <3>2, Constants
      <4> QED BY <1>8, <1>12, <3>2, <4>1, Constants
    <3>3. CASE v[3] = None
      BY <1>6, <1>8, <1>12, <3>3
    <3> QED BY <1>9, <3>1, <3>2, <3>3
  <2>3. \A s \in Slot : s < v[1] => z[s] = 0
    BY <1>6, <1>11
  <2>4. ~WithinOne(v) => z[v[1]] = 0
    BY <1>6, <1>9, <1>11, <1>12
  <2> QED BY <1>8, <1>11, <2>1, <2>2, <2>3, <2>4 DEF Ready
<1>14. ASSUME NEW p \in Places, p \notin Behind(v)
       PROVE  HeldIn(z, content, p) = Held(i, p)
  <2>1. HeldIn(z, content, p) = Held(i, p) \/ p[1] = v[1]
    <3>1. p[1] \in Slot
      BY PlaceShape
    <3>2. p[1] # v[1] => z[p[1]] = zone[i][p[1]]
      BY <1>6, <1>11, <3>1
    <3> QED BY <3>2, HeldIs DEF HeldIn
  <2>2. CASE v[2] = None \/ v[2] = Indexes
    <3>1. ASSUME p[1] = v[1] PROVE FALSE
      <4>1. Before(v, Exit(p)) /\ Exit(p) \in Visits /\ Exit(p)[1] = v[1]
        BY <1>14, <3>1, ExitIs DEF Behind
      <4>2. CASE v[2] = None
        <5>1. v[1] < Direct
          BY <1>9, <4>2, Constants
        <5>2. p = v
          BY <1>9, <3>1, <4>2, <5>1, PlaceShape, Constants
        <5> QED BY <1>6, <1>9, <4>1, <5>1, <5>2, ExitIs, VisitOrder, Constants
      <4>3. CASE v[2] = Indexes
        <5>1. PICK w \in Visits : w = Exit(p)
          BY <4>1
        <5>2. /\ w[2] \in Int /\ w[3] \in Int /\ w[2] <= Indexes
              /\ w[3] # None => w[2] \in Cells
              /\ w[1] \in Int
          BY <5>1, VisitShape
        <5>3. v[3] = None
          BY <1>9, <4>3, Constants
        <5>4. w[2] = Indexes /\ w[3] > -1
          BY <4>1, <4>3, <5>1, <5>2, <5>3, Constants DEF Before
        <5> QED BY <5>2, <5>4, Constants
      <4> QED BY <2>2, <4>2, <4>3
    <3> QED BY <2>1, <3>1
  <2>3. CASE ~(v[2] = None \/ v[2] = Indexes)
    BY <1>11, <2>3, HeldIs
  <2> QED BY <2>2, <2>3
<1> QED BY <1>5, <1>6, <1>7, <1>8, <1>13, <1>14, GoOnStep

LEMMA TreeInit ==
    ASSUME OneMap, ZoneInit
    PROVE  TreeInv
<1>1. \A i \in Inode, p \in Places : Held(i, p) = 0
  <2>1. \A i \in Inode : \A s \in Slot : zone[i][s] = 0
    BY DEF ZoneInit
  <2> QED BY <2>1, NothingIn, HeldIs
<1>2. Allocating = {} /\ \A t \in Task : pc[t] = "user"
  BY DEF ZoneInit, Allocating
<1>3. BlocksInv
  <2>1. OwnedOnce /\ NewOnce
    BY <1>1, <1>2 DEF OwnedOnce, NewOnce, Owns
  <2>2. Covered
    BY DEF ZoneInit, Covered
  <2> QED BY <2>1, <2>2 DEF BlocksInv
<1>4. \A t \in Task : Following(t) /\ Emptying(t)
  BY <1>2 DEF Following, Emptying
<1>5. Exclusive /\ stopped # "unmarked"
  BY <1>2 DEF Exclusive, ZoneInit
<1> QED BY <1>3, <1>4, <1>5 DEF TreeInv

LEMMA TreeNext ==
    ASSUME OneMap, Zeroed, ~Sharing, TypesInv, TreeInv, [ZoneNext]_vars
    PROVE  TreeInv'
<1>1. CASE UNCHANGED vars
  <2>1. UNCHANGED <<pc, call, zmap, zone, size, content>> /\ stopped' # "unmarked"
    BY <1>1 DEF vars, TreeInv
  <2> QED BY <2>1, SameTree
<1>2. CASE \E t \in Task, i \in Inode : Truncate(t, i)
  BY <1>2, TruncateStep
<1>3. CASE \E t \in Task, i \in Inode : \E len \in Lengths : Read(t, i, len)
  BY <1>3, ReadStep
<1>4. CASE \E t \in Task, i \in Inode : \E len \in Lengths : Write(t, i, len)
  BY <1>4, WriteStep
<1>5. CASE \E i \in Inode, to \in Targets : sys_lseek(i, to)
  BY <1>5, LseekStep
<1>6. ASSUME NEW t \in Task, bmap_balloc(t) \/ bmap_release(t) \/ bmap_index(t)
      PROVE  TreeInv'
  BY <1>6, EntryStep, ReleaseStep, IndexStep
<1>7. ASSUME NEW t \in Task, inode_read_data(t) \/ inode_write_data(t) \/ inode_write_next(t)
      PROVE  TreeInv'
  BY <1>7, ReadDataStep, WriteDataStep, WriteNextStep
<1>8. ASSUME NEW t \in Task, inode_bfree_enter(t) \/ inode_bfree_freed(t) \/ inode_sync(t)
      PROVE  TreeInv'
  BY <1>8, EnterStep, FreedBlockStep, SyncStep
<1> QED BY <1>1, <1>2, <1>3, <1>4, <1>5, <1>6, <1>7, <1>8 DEF ZoneNext

LEMMA TreeAlways ==
    ASSUME OneMap, Zeroed, ~Sharing
    PROVE  ZoneSpec => [](TypesInv /\ TreeInv)
<1>1. ZoneInit => TypesInv /\ TreeInv
  BY InitTypes, TreeInit
<1>2. TypesInv /\ TreeInv /\ [ZoneNext]_vars => TypesInv' /\ TreeInv'
  BY StepTypes, TreeNext
<1> QED BY <1>1, <1>2, PTL DEF ZoneSpec

-----------------------------------------------------------------------------
\* Counting: the bits are those of the blocks in trees and of the new ones.
LEMMA BitsFinite ==
    ASSUME OneMap, DiskInv
    PROVE  IsFiniteSet(zmap)
<1> DEFINE f == [x \in zmap |-> x[2]]
           T == 0..(BlockBits - 1)
<1>1. \A x \in zmap : x[2] \in T /\ x = <<0, x[2]>>
  BY BitsAre DEF DiskInv, Bit
<1>2. f \in Injection(zmap, T)
  <2>1. f \in [zmap -> T]
    BY <1>1
  <2>2. ASSUME NEW x \in zmap, NEW y \in zmap, f[x] = f[y] PROVE x = y
    BY <1>1, <2>2
  <2> HIDE DEF f, T
  <2> QED BY <2>1, <2>2 DEF Injection, IsInjective
<1>3. IsFiniteSet(T)
  BY ZoneAssumption, FS_Interval
<1> HIDE DEF f, T
<1> QED BY <1>2, <1>3, FS_Injection

LEMMA Counted ==
    ASSUME NEW S, NEW T, IsFiniteSet(T), NEW f \in [S -> T],
           \A x, y \in S : f[x] = f[y] => x = y, \A y \in T : \E x \in S : f[x] = y
    PROVE  IsFiniteSet(S) /\ Cardinality(S) = Cardinality(T)
<1>1. f \in Injection(S, T)
  BY DEF Injection, IsInjective
<1>2. f \in Surjection(S, T)
  BY DEF Surjection
<1> QED BY <1>1, <1>2, FS_Injection

LEMMA TreeBlocks ==
    ASSUME OneMap, TypesInv, TreeInv
    PROVE  EveryBlockOnce
<1> DEFINE A == {x \in zmap \ {<<0, 0>>} : \E o \in Owned : Held(o[1], o[2]) = NumberOf(x)}
           C == {x \in zmap \ {<<0, 0>>} : \E t \in Allocating : call[t].nr = NumberOf(x)}
<1>1. /\ \A i \in Inode, p \in Places : Owns(i, p) => <<i, p>> \in Owned
      /\ \A o \in Owned : o[1] \in Inode /\ o[2] \in Places /\ Owns(o[1], o[2]) /\ o = <<o[1], o[2]>>
  BY DEF Owns, Owned, Places
<1>2. OwnedOnce /\ NewOnce /\ Covered /\ zmap \subseteq Bit
  BY DEF TreeInv, BlocksInv, TypesInv, DiskInv
<1>3. \A n : Marked(n) => \E x \in zmap \ {<<0, 0>>} : NumberOf(x) = n /\ n # FirstZone - 1
  <2>1. FirstZone - 1 \notin Block
    BY DEF Block
  <2> QED BY <2>1, BitsAre DEF Marked
<1>4. \A o \in Owned : \E x \in A : NumberOf(x) = Held(o[1], o[2])
  BY <1>1, <1>2, <1>3 DEF OwnedOnce
<1>5. \A t \in Allocating : \E x \in C : NumberOf(x) = call[t].nr
  BY <1>2, <1>3 DEF NewOnce
<1>6. zmap = (A \cup C) \cup {<<0, 0>>} /\ A \cap C = {} /\ <<0, 0>> \notin A \cup C
  <2>1. zmap \ {<<0, 0>>} \subseteq A \cup C
    BY <1>1, <1>2 DEF Covered
  <2>2. A \cap C = {}
    BY <1>1, <1>2 DEF NewOnce
  <2> QED BY <1>2, <2>1, <2>2 DEF Covered
<1>7. \A x, y \in zmap : NumberOf(x) = NumberOf(y) => x = y
  BY <1>2, BitsAre
<1>8. IsFiniteSet(zmap)
  BY BitsFinite DEF TypesInv
<1>9. IsFiniteSet(A) /\ IsFiniteSet(C)
  <2>1. A \in SUBSET zmap /\ C \in SUBSET zmap
    OBVIOUS
  <2> HIDE DEF A, C
  <2> QED BY <1>8, <2>1, FS_Subset
<1>10. IsFiniteSet(Owned) /\ Cardinality(Owned) = Cardinality(A)
  <2>1. PICK f : f = [o \in Owned |-> CHOOSE x \in A : NumberOf(x) = Held(o[1], o[2])]
    OBVIOUS
  <2>2. \A o \in Owned : f[o] \in A /\ NumberOf(f[o]) = Held(o[1], o[2])
    <3> HIDE DEF A
    <3> QED BY <1>4, <2>1
  <2>3. f \in [Owned -> A]
    <3> HIDE DEF A
    <3> QED BY <2>1, <2>2
  <2>4. ASSUME NEW o \in Owned, NEW u \in Owned, f[o] = f[u] PROVE o = u
    <3>1. Held(o[1], o[2]) = Held(u[1], u[2])
      BY <2>2, <2>4
    <3> QED BY <1>1, <1>2, <3>1 DEF OwnedOnce
  <2>5. ASSUME NEW x \in A PROVE \E o \in Owned : f[o] = x
    <3>1. PICK o \in Owned : Held(o[1], o[2]) = NumberOf(x)
      OBVIOUS
    <3>2. f[o] \in zmap /\ x \in zmap
      BY <2>2
    <3> QED BY <1>7, <2>2, <3>1, <3>2
  <2> HIDE DEF A
  <2> QED BY <1>9, <2>3, <2>4, <2>5, Counted
<1>11. IsFiniteSet(Allocating) /\ Cardinality(Allocating) = Cardinality(C)
  <2>1. PICK f : f = [t \in Allocating |-> CHOOSE x \in C : NumberOf(x) = call[t].nr]
    OBVIOUS
  <2>2. \A t \in Allocating : f[t] \in C /\ NumberOf(f[t]) = call[t].nr
    <3> HIDE DEF C
    <3> QED BY <1>5, <2>1
  <2>3. f \in [Allocating -> C]
    <3> HIDE DEF C
    <3> QED BY <2>1, <2>2
  <2>4. ASSUME NEW t \in Allocating, NEW u \in Allocating, f[t] = f[u] PROVE t = u
    BY <1>2, <2>2, <2>4 DEF NewOnce
  <2>5. ASSUME NEW x \in C PROVE \E t \in Allocating : f[t] = x
    <3>1. PICK t \in Allocating : call[t].nr = NumberOf(x)
      OBVIOUS
    <3>2. f[t] \in zmap /\ x \in zmap
      BY <2>2
    <3> QED BY <1>7, <2>2, <3>1, <3>2
  <2> HIDE DEF C
  <2> QED BY <1>9, <2>3, <2>4, <2>5, Counted
<1>12. Cardinality(zmap) = 1 + Cardinality(Owned) + Cardinality(Allocating)
  <2> HIDE DEF A, C
  <2>1. IsFiniteSet(A \cup C) /\ Cardinality(A \cup C) = Cardinality(A) + Cardinality(C) - Cardinality(A \cap C)
    BY <1>9, FS_Union
  <2>2. Cardinality(A \cap C) = 0
    BY <1>6, FS_EmptySet
  <2>3. Cardinality(zmap) = Cardinality(A \cup C) + 1
    BY <1>6, <2>1, FS_AddElement
  <2>4. Cardinality(A) \in Nat /\ Cardinality(C) \in Nat
    BY <1>9, FS_CardinalityType
  <2> QED BY <1>10, <1>11, <2>1, <2>2, <2>3, <2>4
<1>13. ASSUME NEW n
       PROVE  n \in {NumberOf(x) : x \in zmap} \ {FirstZone - 1}
              <=> n \in {Held(o[1], o[2]) : o \in Owned} \cup {call[t].nr : t \in Allocating}
  <2>1. ASSUME NEW x \in zmap, n = NumberOf(x), n # FirstZone - 1
        PROVE  n \in {Held(o[1], o[2]) : o \in Owned} \cup {call[t].nr : t \in Allocating}
    <3>1. x \in zmap \ {<<0, 0>>}
      BY <2>1, BitsAre
    <3>2. x \in A \cup C
      BY <1>6, <3>1
    <3> QED BY <2>1, <3>2
  <2>2. ASSUME NEW o \in Owned, n = Held(o[1], o[2])
        PROVE  n \in {NumberOf(x) : x \in zmap} \ {FirstZone - 1}
    BY <1>1, <1>2, <1>3, <2>2 DEF OwnedOnce
  <2>3. ASSUME NEW t \in Allocating, n = call[t].nr
        PROVE  n \in {NumberOf(x) : x \in zmap} \ {FirstZone - 1}
    BY <1>2, <1>3, <2>3 DEF NewOnce
  <2> HIDE DEF A, C
  <2> QED BY <2>1, <2>2, <2>3
<1> HIDE DEF A, C
<1>14. {NumberOf(x) : x \in zmap} \ {FirstZone - 1}
          = {Held(o[1], o[2]) : o \in Owned} \cup {call[t].nr : t \in Allocating}
  BY <1>13
<1> QED BY <1>12, <1>14 DEF EveryBlockOnce, TreeInv

(***************************************************************************)
(* balloc gives out no block twice, bfree frees none that a file holds or  *)
(* that is free (bmap.c:63), and inode_truncate loses none, whatever calls *)
(* on other files do while each of them waits.                             *)
(***************************************************************************)
THEOREM BlocksOnce ==
    ASSUME OneMap, Zeroed, ~Sharing
    PROVE  ZoneSpec => []EveryBlockOnce
<1>1. TypesInv /\ TreeInv => EveryBlockOnce
  BY TreeBlocks
<1> QED BY <1>1, TreeAlways, PTL

-----------------------------------------------------------------------------
(***************************************************************************)
(* The texts of files.                                                     *)
(***************************************************************************)
CellAt(i, q, k) == LET b == Held(i, q) IN IF b \in Block THEN content[b][k] ELSE 0

LEMMA TextIs ==
    ASSUME NEW i \in Inode
    PROVE  /\ Text[i] = [p \in 0..(MaxSize - 1) |-> CellAt(i, Path(p \div Indexes), p % Indexes)]
           /\ Text'[i] = [p \in 0..(MaxSize - 1) |-> CellAt(i, Path(p \div Indexes), p % Indexes)']
BY DEF Text, CellAt

\* A text is the same if its data blocks are; a new one has nothing in it.
LEMMA TextFrame ==
    ASSUME NEW i \in Inode,
           \A q \in Leaf : \/ Held(i, q)' = Held(i, q)
                           \/ Held(i, q) \notin Block /\ content'[Held(i, q)'] = Empty,
           \A q \in Leaf : Held(i, q) \in Block => content'[Held(i, q)] = content[Held(i, q)]
    PROVE  Text'[i] = Text[i]
<1>1. ASSUME NEW q \in Leaf, NEW k \in Cells PROVE CellAt(i, q, k)' = CellAt(i, q, k)
  <2>1. CASE Held(i, q)' = Held(i, q)
    BY <2>1 DEF CellAt
  <2>2. CASE Held(i, q) \notin Block /\ content'[Held(i, q)'] = Empty
    <3>1. CellAt(i, q, k) = 0
      BY <2>2 DEF CellAt
    <3>2. CellAt(i, q, k)' = 0
      BY <2>2 DEF CellAt, Empty
    <3> QED BY <3>1, <3>2
  <2> QED BY <2>1, <2>2
<1>2. ASSUME NEW p \in 0..(MaxSize - 1)
      PROVE  CellAt(i, Path(p \div Indexes), p % Indexes)' = CellAt(i, Path(p \div Indexes), p % Indexes)
  <2>1. PICK q \in Leaf, k \in Cells : q = Path(p \div Indexes) /\ k = p % Indexes
    BY BlockOf
  <2>2. CellAt(i, q, k)' = CellAt(i, q, k)
    BY <1>1
  <2>3. /\ CellAt(i, Path(p \div Indexes), p % Indexes)' = CellAt(i, q, k)'
        /\ CellAt(i, Path(p \div Indexes), p % Indexes) = CellAt(i, q, k)
    BY <2>1
  <2> QED BY <2>2, <2>3
<1>3. Text[i] = [p \in 0..(MaxSize - 1) |-> CellAt(i, Path(p \div Indexes), p % Indexes)]
  BY TextIs
<1>4. Text'[i] = [p \in 0..(MaxSize - 1) |-> CellAt(i, Path(p \div Indexes), p % Indexes)']
  BY TextIs
<1> QED BY ONLY <1>2, <1>3, <1>4

LEMMA SameTexts ==
    ASSUME zone' = zone, content' = content
    PROVE  \A i \in Inode : Text'[i] = Text[i]
BY SameSteady, TextFrame

\* The files that no call empties have all of their blocks.
LEMMA NotEmptied ==
    ASSUME NEW i, ~Emptied(i)
    PROVE  Freed(i) = {}
BY DEF Freed, Emptied

LEMMA BallocText ==
    ASSUME OneMap, Zeroed, TypesInv, TreeInv, NEW t \in Task, NEW c, balloc(t, c),
           NEW i \in Inode, ~Emptied(i)
    PROVE  Text'[i] = Text[i]
<1> DEFINE free == Bit \ zmap
           x == CHOOSE y \in free : \A z \in free : Earlier(y, z)
           nr == x[1] * Stride + FirstZone - 1 + x[2]
<1>1. CASE free = {}
  <2>1. Stop("full")
    BY <1>1 DEF balloc
  <2> QED BY <2>1, SameTexts DEF Stop
<1>2. CASE free # {}
  <2>1. x \in free
    <3> HIDE DEF free
    <3>1. free \in SUBSET Bit
      BY DEF free
    <3> QED BY <1>2, <3>1, EarliestBit
  <2>2. content' = [content EXCEPT ![nr] = Empty] /\ zone' = zone
    BY <1>2 DEF balloc
  <2> HIDE DEF x
  <2>3. x \in Bit \ zmap /\ nr = NumberOf(x)
    BY <2>1, BitsAre
  <2> HIDE DEF nr
  <2>4. ~Marked(nr)
    BY <2>3, BitsAre DEF Marked, TypesInv, DiskInv
  <2>5. ASSUME NEW q \in Places, Held(i, q) # 0 PROVE Held(i, q) \in Block /\ Held(i, q) # nr
    <3>1. Owns(i, q)
      BY <2>5, NotEmptied DEF Owns
    <3> QED BY <2>4, <3>1 DEF TreeInv, BlocksInv, OwnedOnce, Marked
  <2>6. \A b \in Block : b # nr => content'[b] = content[b]
    BY <2>2 DEF TypesInv, DiskInv
  <2>7. Steady(i)
    <3>1. PICK S : S = {nr}
      OBVIOUS
    <3>2. \A b \in Block \ S : content'[b] = content[b]
      BY <2>6, <3>1
    <3>3. \A p \in IndexPlace : Owns(i, p) => Held(i, p) \notin S
      BY <2>5, <3>1 DEF Owns, Places
    <3> QED BY <2>2, <3>2, <3>3, TreeFrame
  <2>8. \A q \in Leaf : Held(i, q)' = Held(i, q)
    BY <2>7, NotEmptied DEF Steady, Places
  <2>9. 0 \notin Block
    BY BlocksAre
  <2>10. \A q \in Leaf : Held(i, q) \in Block => content'[Held(i, q)] = content[Held(i, q)]
    BY <2>5, <2>6, <2>9 DEF Places
  <2> QED BY <2>8, <2>10, TextFrame
<1> QED BY <1>1, <1>2

LEMMA VisitText ==
    ASSUME OneMap, Zeroed, TypesInv, TreeInv, NEW t \in Task, NEW c, Visit(t, c),
           NEW i \in Inode, ~Emptied(i)
    PROVE  Text'[i] = Text[i]
<1>1. CASE c.op = "write" /\ Entry(c) = 0
  BY <1>1, BallocText DEF Visit
<1>2. CASE ~(c.op = "write" /\ Entry(c) = 0)
  BY <1>2, SameTexts DEF Visit
<1> QED BY <1>1, <1>2

LEMMA EntryText ==
    ASSUME ~Sharing, TypesInv, TreeInv, NEW t \in Task, bmap_balloc(t), NEW i \in Inode, ~Emptied(i)
    PROVE  Text'[i] = Text[i]
<1>1. PICK c, j, p : c = call[t] /\ EntryDone(t, c, j, p)
  BY EntryChange
<1>2. /\ Held(j, p) = 0 /\ Held(j, p)' = c.nr /\ content'[c.nr] = Empty
      /\ \A q \in Places : q # p => Held(j, q)' = Held(j, q)
      /\ i # j => Steady(i)
      /\ \A q \in Leaf : Owns(i, q) => content'[Held(i, q)] = content[Held(i, q)]
  BY <1>1 DEF EntryDone
<1>3. 0 \notin Block
  BY BlocksAre
<1>4. \A q \in Leaf : Held(i, q) \in Block => content'[Held(i, q)] = content[Held(i, q)]
  BY <1>2, <1>3, NotEmptied DEF Owns, Places
<1>5. ASSUME NEW q \in Leaf
      PROVE  \/ Held(i, q)' = Held(i, q)
             \/ Held(i, q) \notin Block /\ content'[Held(i, q)'] = Empty
  <2>1. CASE i # j
    BY <1>2, <2>1, NotEmptied DEF Steady, Places
  <2>2. CASE i = j /\ q # p
    BY <1>2, <2>2 DEF Places
  <2>3. CASE i = j /\ q = p
    BY <1>2, <1>3, <2>3
  <2> QED BY <2>1, <2>2, <2>3
<1> QED BY <1>4, <1>5, TextFrame

\* The cells of one block are those of the positions that it holds.
LEMMA BlockCells ==
    ASSUME NEW c, NEW label \in Locating, TransferOK(c, label), NEW p \in 0..(MaxSize - 1)
    PROVE  /\ p \in c.pos..(c.pos + Chars(c) - 1) => p \div Indexes = c.pos \div Indexes
           /\ p \div Indexes = c.pos \div Indexes =>
                 p = c.pos - (c.pos % Indexes) + (p % Indexes)
<1>1. PICK n \in Nat \ {0} : n = Indexes
  BY Constants
<1>2. PICK pos \in 0..(MaxSize - 1), d \in Nat, r \in 0..(n - 1) :
         pos = c.pos /\ d = pos \div n /\ r = pos % n /\ pos = n * d + r
  <2>1. PICK pos \in 0..(MaxSize - 1) : pos = c.pos
    BY TargetIs
  <2>2. pos \in Nat
    OBVIOUS
  <2>3. pos \div n \in Nat /\ pos % n \in 0..(n - 1) /\ pos = n * (pos \div n) + (pos % n)
    BY ONLY <2>2, n \in Nat \ {0}, Division
  <2> QED BY ONLY <2>1, <2>3, pos \in 0..(MaxSize - 1)
<1>3. PICK k \in Nat : k = Chars(c) /\ r + k <= n
  BY <1>1, <1>2, CharsAre
<1>4. PICK e \in Nat, s \in 0..(n - 1) : e = p \div n /\ s = p % n /\ p = n * e + s
  <2>1. p \in Nat
    OBVIOUS
  <2>2. p \div n \in Nat /\ p % n \in 0..(n - 1) /\ p = n * (p \div n) + (p % n)
    BY ONLY <2>1, n \in Nat \ {0}, Division
  <2> QED BY ONLY <2>2
<1>5. ASSUME p \in pos..(pos + k - 1) PROVE p \div n = d
  <2>1. PICK i \in 0..(n - 1) : p = n * d + i
    <3>1. PICK m \in Int : m = n * d
      OBVIOUS
    <3>5. pos = n * d + r
      BY <1>2
    <3>6. p \in Nat
      OBVIOUS
    <3>2. pos = m + r /\ p \in Nat
      BY ONLY <3>1, <3>5, <3>6
    <3>3. PICK i \in Int : i = p - m
      BY ONLY <3>2, m \in Int
    <3>4. i \in 0..(n - 1) /\ p = m + i
      BY ONLY <1>3, <1>5, <3>2, <3>3, m \in Int, r \in 0..(n - 1), n \in Nat, k \in Nat, pos \in 0..(MaxSize - 1)
    <3> QED BY ONLY <3>1, <3>4
  <2>2. p \in Nat
    OBVIOUS
  <2> QED BY ONLY <2>1, <2>2, d \in Nat, n \in Nat \ {0}, SameQuotient
<1>6. ASSUME e = d PROVE p = pos - r + s
  <2>1. PICK m \in Int : m = n * d
    OBVIOUS
  <2>2. pos = m + r
    BY ONLY <2>1, <1>2
  <2>3. p = m + s
    BY ONLY <2>1, <1>4, <1>6
  <2> QED BY ONLY <2>2, <2>3, m \in Int, r \in 0..(n - 1), s \in 0..(n - 1), n \in Nat
<1>7. p \in c.pos..(c.pos + Chars(c) - 1) => p \div Indexes = c.pos \div Indexes
  BY <1>1, <1>2, <1>3, <1>5
<1>8. p \div Indexes = c.pos \div Indexes => p = c.pos - (c.pos % Indexes) + (p % Indexes)
  BY <1>1, <1>2, <1>4, <1>6
<1> QED BY <1>7, <1>8

LEMMA WriteText ==
    ASSUME ~Sharing, TypesInv, TreeInv, NEW t \in Task, NEW c, c = call[t], inode_write_data(t)
    PROVE  /\ \A j \in Inode : j # c.inode /\ ~Emptied(j) => Text'[j] = Text[j]
           /\ \A p \in 0..(MaxSize - 1) : Text'[c.inode][p] =
                 IF p \in c.pos..(c.pos + Chars(c) - 1) THEN Written(c.inode, p) ELSE Text[c.inode][p]
<1>1. /\ TransferOK(c, "data") /\ pc[t] = "data" /\ c \in Transfer /\ c.inode \in Inode
      /\ c.op # "truncate"
      /\ PathOf(c) \in Leaf /\ c.nr = Held(c.inode, PathOf(c)) /\ Owns(c.inode, PathOf(c))
      /\ \A b \in Block : b # c.nr => content'[b] = content[b]
      /\ \A i \in Inode : Steady(i)
  BY WriteChange
<1>2. Freed(c.inode) = {}
  BY <1>1, FreedNone DEF TypesInv, TreeInv, MayWork
<1>3. 0 \notin Block
  BY BlocksAre
<1>4. ASSUME NEW j \in Inode, Freed(j) = {}, NEW q \in Leaf
      PROVE  /\ Held(j, q)' = Held(j, q)
             /\ Held(j, q) \in Block /\ (j # c.inode \/ q # PathOf(c)) =>
                   content'[Held(j, q)] = content[Held(j, q)]
  <2>1. Held(j, q)' = Held(j, q)
    BY <1>1, <1>4 DEF Steady, Places
  <2>2. ASSUME Held(j, q) \in Block, j # c.inode \/ q # PathOf(c) PROVE Held(j, q) # c.nr
    <3>1. Owns(j, q) /\ q \in Places /\ PathOf(c) \in Places
      BY <1>1, <1>3, <1>4, <2>2 DEF Owns, Places
    <3> QED BY <1>1, <2>2, <3>1 DEF TreeInv, BlocksInv, OwnedOnce
  <2> QED BY <1>1, <2>1, <2>2
<1>5. ASSUME NEW j \in Inode, j # c.inode, ~Emptied(j) PROVE Text'[j] = Text[j]
  <2>1. Freed(j) = {}
    BY <1>5, NotEmptied
  <2> QED BY <1>4, <1>5, <2>1, TextFrame
<1>6. ASSUME NEW p \in 0..(MaxSize - 1)
      PROVE  Text'[c.inode][p] =
                IF p \in c.pos..(c.pos + Chars(c) - 1) THEN Written(c.inode, p) ELSE Text[c.inode][p]
  <2>1. PICK i \in Inode : i = c.inode
    BY <1>1
  <2>2. PICK q \in Leaf, k \in Cells : q = Path(p \div Indexes) /\ k = p % Indexes
    BY BlockOf
  <2>3. Text[i][p] = CellAt(i, q, k) /\ Text'[i][p] = CellAt(i, q, k)'
    <3>1. Text[i][p] = CellAt(i, Path(p \div Indexes), p % Indexes)
      BY TextIs
    <3>2. Text'[i][p] = CellAt(i, Path(p \div Indexes), p % Indexes)'
      BY TextIs
    <3>3. /\ CellAt(i, Path(p \div Indexes), p % Indexes) = CellAt(i, q, k)
          /\ CellAt(i, Path(p \div Indexes), p % Indexes)' = CellAt(i, q, k)'
      BY <2>2
    <3> QED BY <3>1, <3>2, <3>3
  <2>4. Held(i, q)' = Held(i, q)
    BY <1>2, <1>4, <2>1
  <2>5. CASE p \div Indexes = c.pos \div Indexes
    <3>1. q = PathOf(c)
      BY <2>2, <2>5 DEF PathOf
    <3>2. c.nr \in Block /\ Held(i, q) = c.nr
      BY <1>1, <2>1, <3>1 DEF Owns, TreeInv, BlocksInv, OwnedOnce, Marked, Places
    <3>3. CellAt(i, q, k) = content[c.nr][k] /\ CellAt(i, q, k)' = content'[c.nr][k]
      BY <2>4, <3>2 DEF CellAt
    <3>15. c.pos \in Nat /\ Chars(c) \in Nat
      BY <1>1, TargetIs, CharsAre DEF Locating
    <3>16. PICK first : first = c.pos - (c.pos % Indexes)
      OBVIOUS
    <3>4. PICK pos \in Int, last \in Int : pos = c.pos + Chars(c) /\ last = pos - 1
      BY <3>15
    <3>5. content' = [content EXCEPT ![c.nr] = [l \in Cells |->
                         IF first + l \in c.pos..last THEN Written(i, first + l) ELSE @[l]]]
      <4>1. content' = [content EXCEPT ![c.nr] = [l \in Cells |->
                         IF first + l \in c.pos..(pos - 1) THEN Written(i, first + l) ELSE @[l]]]
        BY <2>1, <3>4, <3>16 DEF inode_write_data
      <4> QED BY <3>4, <4>1
    <3>14. last = c.pos + Chars(c) - 1
      BY ONLY <3>4, <3>15, pos \in Int
    <3>6. content'[c.nr][k] = IF first + k \in c.pos..last THEN Written(i, first + k) ELSE content[c.nr][k]
      BY <3>2, <3>5 DEF TypesInv, DiskInv
    <3>7. p = first + k
      BY <1>1, <2>2, <2>5, <3>16, BlockCells DEF Locating
    <3>8. content'[c.nr][k] = IF p \in c.pos..last THEN Written(i, p) ELSE content[c.nr][k]
      BY <3>6, <3>7
    <3>9. Text'[i][p] = IF p \in c.pos..last THEN Written(i, p) ELSE Text[i][p]
      BY ONLY <2>3, <3>3, <3>8
    <3>10. c.inode = i
      BY ONLY <2>1
    <3>11. Text'[c.inode][p] = Text'[i][p] /\ Text[c.inode][p] = Text[i][p]
      BY ONLY <3>10
    <3>12. Written(c.inode, p) = Written(i, p)
      BY ONLY <3>10
    <3>13. c.pos..last = c.pos..(c.pos + Chars(c) - 1)
      BY ONLY <3>14
    <3> QED BY ONLY <3>9, <3>11, <3>12, <3>13
  <2>6. CASE p \div Indexes # c.pos \div Indexes
    <3>1. p \notin c.pos..(c.pos + Chars(c) - 1)
      BY <1>1, <2>6, BlockCells DEF Locating
    <3>2. q # PathOf(c)
      <4>1. p \div Indexes \in Nat /\ c.pos \div Indexes \in Nat
        BY <1>1, BlockOf, TargetIs DEF Locating
      <4> QED BY <2>2, <2>6, <4>1, PathInjective DEF PathOf
    <3>3. Held(i, q) \in Block => content'[Held(i, q)] = content[Held(i, q)]
      BY <1>2, <1>4, <2>1, <3>2
    <3>4. CellAt(i, q, k)' = CellAt(i, q, k)
      BY <2>4, <3>3 DEF CellAt
    <3> QED BY <2>1, <2>3, <3>1, <3>4
  <2> QED BY <2>5, <2>6
<1> QED BY <1>5, <1>6

-----------------------------------------------------------------------------
(***************************************************************************)
(* Steps that change no text, as far as a reader of the file can see.      *)
(***************************************************************************)
\* What a write has come past is in its file.
WritesInv == \A t \in Task : call[t].op = "write" =>
    \A p \in call[t].from..(call[t].pos - 1) : Text[call[t].inode][p] = Written(call[t].inode, p)

\* Task t goes on with d, and no file changes that is not being emptied.
Still(t, d) ==
    /\ call' = call \/ call' = [call EXCEPT ![t] = d]
    /\ d.op = "truncate" <=> call[t].op = "truncate"
    /\ d.op = "truncate" => d.inode = call[t].inode
    /\ d.op = "write" =>
          \/ d.from \in Nat /\ d.pos = d.from
          \/ /\ call[t].op = "write" /\ d.inode = call[t].inode
             /\ d.from = call[t].from /\ d.pos = call[t].pos
    /\ \A i \in Inode : ~Emptied(i) => Text'[i] = Text[i] /\ size'[i] = size[i]

LEMMA WriterOf ==
    ASSUME ~Sharing, TypesInv, TreeInv, NEW t \in Task, call[t].op \in {"read", "write"}
    PROVE  call[t].inode \in Inode /\ ~Emptied(call[t].inode) /\ pc[t] # "user"
<1>1. ASSUME NEW u \in Task, call[u].op \in {"read", "write", "truncate"} PROVE pc[u] # "user"
  BY <1>1, CallKinds DEF TypesInv, CallsInv, CallOK, TransferOK, TruncationOK, Locating
<1>2. call[t].inode \in Inode
  BY CallKinds DEF TypesInv, CallsInv
<1>3. ASSUME NEW u \in Task, call[u].op = "truncate", call[u].inode = call[t].inode PROVE FALSE
  <2>1. u = t
    BY <1>1, <1>3 DEF TreeInv, Exclusive
  <2> QED BY <1>3, <2>1
<1> QED BY <1>1, <1>2, <1>3 DEF Emptied

LEMMA StillCalls ==
    ASSUME TypesInv, NEW t \in Task, NEW d, Still(t, d), NEW u \in Task
    PROVE  \/ call'[u] = call[u]
           \/ u = t /\ call'[u] = d
BY DEF Still, TypesInv, CallsInv

LEMMA StillWritten ==
    ASSUME ~Sharing, TypesInv, TreeInv, WritesInv, NEW t \in Task, NEW d, Still(t, d)
    PROVE  WritesInv'
<1> SUFFICES ASSUME NEW u \in Task, call'[u].op = "write",
                    NEW p \in call'[u].from..(call'[u].pos - 1)
             PROVE  Text'[call'[u].inode][p] = Written(call'[u].inode, p)
  BY DEF WritesInv
<1>1. ASSUME NEW w \in Task, call[w].op = "write", call'[u].inode = call[w].inode,
             call'[u].from = call[w].from, call'[u].pos = call[w].pos
      PROVE  Text'[call'[u].inode][p] = Written(call'[u].inode, p)
  <2>1. Text'[call[w].inode] = Text[call[w].inode]
    BY <1>1, WriterOf DEF Still
  <2>2. Text[call[w].inode][p] = Written(call[w].inode, p)
    BY <1>1 DEF WritesInv
  <2> QED BY <1>1, <2>1, <2>2
<1>2. CASE call'[u] = call[u]
  BY <1>1, <1>2
<1>3. CASE u = t /\ call'[u] = d
  <2>1. CASE d.from \in Nat /\ d.pos = d.from
    <3>1. PICK n \in Nat : call'[u].from = n /\ call'[u].pos = n
      BY <1>3, <2>1
    <3>2. p \in n..(n - 1)
      BY <3>1
    <3> QED BY ONLY <3>2, n \in Nat
  <2>2. CASE /\ call[t].op = "write" /\ d.inode = call[t].inode
             /\ d.from = call[t].from /\ d.pos = call[t].pos
    BY <1>1, <1>3, <2>2
  <2> QED BY <1>3, <2>1, <2>2 DEF Still
<1> QED BY <1>2, <1>3, StillCalls

LEMMA StillEmptied ==
    ASSUME TypesInv, NEW t \in Task, NEW d, Still(t, d), NEW i
    PROVE  Emptied(i)' <=> Emptied(i)
<1>1. \A u \in Task : \/ call'[u] = call[u]
                      \/ u = t /\ call'[u] = d
  BY StillCalls
<1>2. \A u \in Task : /\ call'[u].op = "truncate" <=> call[u].op = "truncate"
                      /\ call[u].op = "truncate" => call'[u].inode = call[u].inode
  BY <1>1 DEF Still
<1> QED BY <1>2 DEF Emptied

LEMMA StillFiles ==
    ASSUME TypesInv, NEW t \in Task, NEW d, Still(t, d)
    PROVE  FileText' = FileText /\ FileLength' = FileLength
<1>1. ASSUME NEW i \in Inode
      PROVE  /\ Emptied(i)' <=> Emptied(i)
             /\ ~Emptied(i) => Text'[i] = Text[i] /\ size'[i] = size[i]
  BY StillEmptied DEF Still
<1>2. FileText' = FileText
  BY <1>1 DEF FileText
<1>3. FileLength' = FileLength
  BY <1>1 DEF FileLength
<1> QED BY <1>2, <1>3

-----------------------------------------------------------------------------
LEMMA VisitStill ==
    ASSUME OneMap, Zeroed, TypesInv, TreeInv, NEW t \in Task, NEW c \in Transfer, Visit(t, c),
           call[t].op # "truncate",
           c.op = "write" =>
              \/ c.pos = c.from
              \/ /\ call[t].op = "write" /\ c.inode = call[t].inode
                 /\ c.from = call[t].from /\ c.pos = call[t].pos
    PROVE  \E d : Still(t, d)
<1>1. /\ \A i \in Inode : ~Emptied(i) => Text'[i] = Text[i]
      /\ c.op # "truncate" /\ c.from \in Nat
  BY VisitText, CallKinds DEF Transfer
<1>2. size' = size /\ \E d : /\ call' = call \/ call' = [call EXCEPT ![t] = d]
                             /\ d.op = c.op /\ d.inode = c.inode /\ d.from = c.from /\ d.pos = c.pos
  <2>1. CASE c.op = "write" /\ Entry(c) = 0
    <3>1. balloc(t, c)
      BY <2>1 DEF Visit
    <3>2. CASE Bit \ zmap = {}
      BY <3>1, <3>2 DEF balloc, Stop
    <3>3. CASE Bit \ zmap # {}
      <4>1. PICK nr : Proceed(t, [c EXCEPT !.nr = nr], "balloc") /\ size' = size
        BY <3>1, <3>3 DEF balloc
      <4>2. PICK d : d = [c EXCEPT !.nr = nr]
        OBVIOUS
      <4>3. d.op = c.op /\ d.inode = c.inode /\ d.from = c.from /\ d.pos = c.pos
        BY <4>2 DEF Transfer
      <4> QED BY <4>1, <4>2, <4>3 DEF Proceed
    <3> QED BY <3>2, <3>3
  <2>2. CASE ~(c.op = "write" /\ Entry(c) = 0)
    BY <2>2 DEF Visit, Proceed
  <2> QED BY <2>1, <2>2
<1>3. PICK d : /\ call' = call \/ call' = [call EXCEPT ![t] = d]
               /\ d.op = c.op /\ d.inode = c.inode /\ d.from = c.from /\ d.pos = c.pos
  BY <1>2
<1>4. Still(t, d)
  BY <1>1, <1>2, <1>3 DEF Still
<1> QED BY <1>4

LEMMA GoOnFrame ==
    ASSUME NEW t \in Task, NEW c \in Truncation, NEW z, GoOn(t, c, z)
    PROVE  /\ content' = content
           /\ \/ zone' = zone /\ size' = size /\ call' = call
              \/ \E d : /\ d.op = "truncate" /\ d.inode = c.inode
                        /\ call' = [call EXCEPT ![t] = d]
                        /\ zone' = [zone EXCEPT ![c.inode] = z]
                        /\ size' = size \/ size' = [size EXCEPT ![c.inode] = 0]
<1> DEFINE due == {v \in Visits : Before(c.visit, v) /\ Due(c, v, z)}
           v == CHOOSE w \in due : \A u \in due : u = w \/ Before(w, u)
           nr == EntryAt(c, v, z)
<1>1. c.op = "truncate"
  BY CallKinds
<1> HIDE DEF due
<1>2. GoOn(t, c, z) =
        IF due = {}
        THEN /\ zone' = [zone EXCEPT ![c.inode] = z]
             /\ size' = [size EXCEPT ![c.inode] = 0]
             /\ Proceed(t, c, "sync")
             /\ UNCHANGED <<zmap, content, offset>>
        ELSE IF v \notin IndexPlace THEN bfree(t, [c EXCEPT !.visit = v], nr, z)
        ELSE IF nr \notin Block THEN Stop("garbage")
        ELSE /\ zone' = [zone EXCEPT ![c.inode] = z]
             /\ Proceed(t, [c EXCEPT !.visit = v, !.nr = nr], "enter")
             /\ UNCHANGED <<zmap, size, content, offset>>
  BY DEF GoOn, due
<1> HIDE DEF v, nr
<1>3. CASE due = {}
  BY <1>1, <1>2, <1>3 DEF Proceed
<1>4. PICK d : d = [c EXCEPT !.visit = v]
  OBVIOUS
<1>5. d.op = "truncate" /\ d.inode = c.inode
  BY <1>1, <1>4 DEF Truncation
<1>6. CASE due # {} /\ v \notin IndexPlace
  <2>1. bfree(t, d, nr, z)
    BY <1>2, <1>4, <1>6
  <2>2. CASE ~IsMarked(nr)
    BY <2>1, <2>2 DEF bfree, Stop
  <2>3. CASE IsMarked(nr)
    <3>1. PICK e : e = [d EXCEPT !.nr = nr]
      OBVIOUS
    <3>2. e.op = "truncate" /\ e.inode = c.inode
      BY <1>4, <1>5, <3>1 DEF Truncation
    <3> QED BY <1>5, <2>1, <2>3, <3>1, <3>2 DEF bfree, Proceed
  <2> QED BY <2>2, <2>3
<1>7. CASE due # {} /\ v \in IndexPlace /\ nr \notin Block
  BY <1>2, <1>7 DEF Stop
<1>8. CASE due # {} /\ v \in IndexPlace /\ nr \in Block
  <2>1. PICK e : e = [c EXCEPT !.visit = v, !.nr = nr]
    OBVIOUS
  <2>2. e.op = "truncate" /\ e.inode = c.inode
    BY <1>1, <2>1 DEF Truncation
  <2> QED BY <1>2, <1>8, <2>1, <2>2 DEF Proceed
<1> QED BY <1>3, <1>6, <1>7, <1>8

\* A call that has begun to empty a file changes no text of another one.
LEMMA GoOnStill ==
    ASSUME TypesInv, NEW t \in Task, call[t].op = "truncate",
           NEW c \in Truncation, c.inode = call[t].inode, NEW z, GoOn(t, c, z)
    PROVE  \E d : Still(t, d)
<1>1. CASE zone' = zone /\ size' = size /\ call' = call
  <2>1. content' = content
    BY GoOnFrame
  <2>2. Still(t, call[t])
    BY <1>1, <2>1, SameTexts DEF Still
  <2> QED BY <2>2
<1>2. CASE \E d : /\ d.op = "truncate" /\ d.inode = c.inode
                  /\ call' = [call EXCEPT ![t] = d]
                  /\ zone' = [zone EXCEPT ![c.inode] = z]
                  /\ size' = size \/ size' = [size EXCEPT ![c.inode] = 0]
  <2>1. PICK d : /\ d.op = "truncate" /\ d.inode = c.inode
                 /\ call' = [call EXCEPT ![t] = d]
                 /\ zone' = [zone EXCEPT ![c.inode] = z]
                 /\ size' = size \/ size' = [size EXCEPT ![c.inode] = 0]
    BY <1>2
  <2>2. content' = content
    BY GoOnFrame
  <2>3. Emptied(c.inode)
    BY DEF Emptied
  <2>4. ASSUME NEW i \in Inode, ~Emptied(i) PROVE Text'[i] = Text[i] /\ size'[i] = size[i]
    <3>1. i # c.inode
      BY <2>3, <2>4
    <3>5. \A j \in Inode : j # c.inode => \A p : Held(j, p)' = Held(j, p)
      BY <2>1, <2>2, OtherFiles
    <3>2. \A p : Held(i, p)' = Held(i, p)
      BY <3>5, <3>1
    <3>3. Text'[i] = Text[i]
      BY <2>2, <3>2, TextFrame
    <3>4. size'[i] = size[i]
      BY <2>1, <3>1 DEF TypesInv, DiskInv
    <3> QED BY <3>3, <3>4
  <2>5. Still(t, d)
    BY <2>1, <2>4 DEF Still
  <2> QED BY <2>5
<1> QED BY <1>1, <1>2, GoOnFrame

LEMMA NextBlockIs ==
    ASSUME NEW c \in Transfer
    PROVE  /\ NextBlock(c) \in Transfer
           /\ NextBlock(c).op = c.op /\ NextBlock(c).inode = c.inode
           /\ NextBlock(c).from = c.from /\ NextBlock(c).pos = c.pos /\ NextBlock(c).to = c.to
<1>1. PICK d : d = NextBlock(c)
  OBVIOUS
<1>2. d = [op |-> c.op, inode |-> c.inode, from |-> c.from, pos |-> c.pos, to |-> c.to,
           at |-> 0, depth |-> 1, nr |-> 0]
  BY <1>1 DEF NextBlock, Transfer
<1>3. /\ c.op \in {"read", "write"} /\ c.inode \in Inode /\ c.from \in Nat /\ c.pos \in Nat
      /\ c.to \in Nat
  BY DEF Transfer
<1>4. d \in Transfer /\ d.op = c.op /\ d.inode = c.inode /\ d.from = c.from /\ d.pos = c.pos /\ d.to = c.to
  BY ONLY <1>2, <1>3 DEF Transfer
<1> QED BY <1>1, <1>4

LEMMA SameStill ==
    ASSUME NEW t \in Task, UNCHANGED <<call, zone, size, content>>
    PROVE  \E d : Still(t, d)
<1>1. zone' = zone /\ content' = content
  OBVIOUS
<1>2. \A i \in Inode : Text'[i] = Text[i] /\ size'[i] = size[i]
  BY <1>1, SameTexts
<1>3. Still(t, call[t])
  BY <1>2 DEF Still
<1> QED BY <1>3

LEMMA ChangedStill ==
    ASSUME NEW t \in Task, NEW d, call' = [call EXCEPT ![t] = d], UNCHANGED <<zone, size, content>>,
           d.op # "truncate", call[t].op # "truncate",
           \/ d.op # "write"
           \/ /\ call[t].op = "write" /\ d.inode = call[t].inode
              /\ d.from = call[t].from /\ d.pos = call[t].pos
    PROVE  \E e : Still(t, e)
<1>1. zone' = zone /\ content' = content
  OBVIOUS
<1>2. \A i \in Inode : Text'[i] = Text[i] /\ size'[i] = size[i]
  BY <1>1, SameTexts
<1>3. Still(t, d)
  BY <1>2 DEF Still
<1> QED BY <1>3

LEMMA ReadStill ==
    ASSUME TypesInv, NEW t \in Task, NEW i \in Inode, NEW len \in Lengths, Read(t, i, len)
    PROVE  \E d : Still(t, d)
<1>1. PICK d : call' = [call EXCEPT ![t] = d] /\ d.op = "read"
  <2> DEFINE left == IF len < size[i] - offset[i] THEN len ELSE size[i] - offset[i]
             c == [op |-> "read", inode |-> i, from |-> offset[i], pos |-> offset[i],
                   to |-> offset[i] + left, at |-> 0, depth |-> 1, nr |-> 0]
  <2>1. call' = [call EXCEPT ![t] = c]
    BY DEF Read
  <2>2. c.op = "read"
    OBVIOUS
  <2> HIDE DEF c
  <2> QED BY <2>1, <2>2
<1>2. UNCHANGED <<zone, size, content>> /\ pc[t] = "user"
  BY DEF Read, Begin
<1>3. call[t].op # "truncate"
  BY <1>2, TruncatingVisit DEF TypesInv
<1> QED BY <1>1, <1>2, <1>3, ChangedStill

LEMMA WriteStill ==
    ASSUME OneMap, Zeroed, TypesInv, TreeInv, NEW t \in Task, NEW i \in Inode, NEW len \in Lengths,
           Write(t, i, len)
    PROVE  \E d : Still(t, d)
<1> DEFINE c == [op |-> "write", inode |-> i, from |-> offset[i], pos |-> offset[i],
                 to |-> offset[i] + len, at |-> 0, depth |-> 1, nr |-> 0]
<1>1. /\ offset[i] \in Nat /\ len \in Nat \ {0} /\ offset[i] + len <= MaxSize
  BY ZoneAssumption DEF TypesInv, DiskInv, Write
<1>2. PICK from \in Nat, to \in Nat : from = offset[i] /\ to = offset[i] + len /\ from < to
  BY ONLY <1>1
<1>3. TransferOK(c, "release") /\ c.pos = c.from
  BY <1>1, <1>2, FirstBlock
<1>4. Visit(t, c) /\ pc[t] = "user"
  BY DEF Write, Begin
<1> HIDE DEF c
<1>5. c \in Transfer
  BY <1>3 DEF TransferOK
<1>6. call[t].op # "truncate"
  BY <1>4, TruncatingVisit DEF TypesInv
<1> QED BY <1>3, <1>4, <1>5, <1>6, VisitStill

LEMMA EntryStill ==
    ASSUME ~Sharing, TypesInv, TreeInv, NEW t \in Task, bmap_balloc(t)
    PROVE  \E d : Still(t, d)
<1>1. /\ size' = size /\ call' = [call EXCEPT ![t] = call[t]]
  BY DEF bmap_balloc, Proceed
<1>2. \A i \in Inode : ~Emptied(i) => Text'[i] = Text[i] /\ size'[i] = size[i]
  BY <1>1, EntryText
<1>3. Still(t, call[t])
  BY <1>1, <1>2 DEF Still
<1> QED BY <1>3

LEMMA AtTransfer ==
    ASSUME TypesInv, NEW t \in Task, NEW label \in Locating \cup {"written"}, At(t, label)
    PROVE  TransferOK(call[t], label) /\ call[t] \in Transfer /\ call[t].op # "truncate"
<1>1. TransferOK(call[t], label)
  BY CallAt DEF Locating
<1> QED BY <1>1, CallKinds DEF TransferOK

LEMMA ReleaseStill ==
    ASSUME TypesInv, NEW t \in Task, bmap_release(t)
    PROVE  \E d : Still(t, d)
<1>1. PICK c, e : c = call[t] /\ e = Entry(c)
  OBVIOUS
<1>2. c \in Transfer /\ c.op # "truncate"
  BY <1>1, AtTransfer DEF bmap_release, Locating
<1>3. CASE e = 0 \/ e \notin Block
  BY <1>1, <1>3, SameStill DEF bmap_release, Stop
<1>4. CASE ~(e = 0 \/ e \notin Block)
  <2>1. PICK d, label : Proceed(t, d, label) /\ (\/ d = [c EXCEPT !.nr = e]
                                                 \/ d = [c EXCEPT !.at = e, !.depth = @ + 1])
    BY <1>1, <1>4 DEF bmap_release
  <2>2. d.op = c.op /\ d.inode = c.inode /\ d.from = c.from /\ d.pos = c.pos
    BY <1>2, <2>1 DEF Transfer
  <2>3. call' = [call EXCEPT ![t] = d] /\ UNCHANGED <<zone, size, content>>
    BY <1>1, <1>4, <2>1 DEF bmap_release, Proceed
  <2> QED BY <1>1, <1>2, <2>2, <2>3, ChangedStill
<1> QED BY <1>3, <1>4

LEMMA IndexStill ==
    ASSUME OneMap, Zeroed, TypesInv, TreeInv, NEW t \in Task, bmap_index(t)
    PROVE  \E d : Still(t, d)
<1>1. PICK c : c = call[t]
  OBVIOUS
<1>2. c \in Transfer /\ c.op # "truncate" /\ Visit(t, c)
  BY <1>1, AtTransfer DEF bmap_index, Locating
<1> QED BY <1>1, <1>2, VisitStill

LEMMA ReadDataStill ==
    ASSUME TypesInv, NEW t \in Task, inode_read_data(t)
    PROVE  \E d : Still(t, d)
<1>1. PICK b : b = call[t]
  OBVIOUS
<1>2. b \in Transfer /\ b.op # "truncate" /\ TransferOK(b, "data")
  BY <1>1, AtTransfer DEF inode_read_data, Locating
<1>3. b.pos + Chars(b) \in Nat
  BY <1>2, CharsAre DEF Locating
<1>4. PICK c : c = [b EXCEPT !.pos = b.pos + Chars(b)]
  OBVIOUS
<1>5. /\ c.op = "read"
      /\ IF c.pos = c.to THEN Finish(t, c)
         ELSE Proceed(t, NextBlock(c), "release") /\ UNCHANGED offset
      /\ UNCHANGED <<zmap, zone, size, content>>
  BY <1>1, <1>4 DEF inode_read_data
<1>6. c \in Transfer
  BY <1>2, <1>3, <1>4, MovedIs
<1>7. PICK d : call' = [call EXCEPT ![t] = d] /\ (d = NoCall \/ d = NextBlock(c))
  BY <1>5 DEF Finish, Proceed
<1>8. d.op # "truncate" /\ d.op # "write"
  BY <1>5, <1>6, <1>7, NextBlockIs, CallKinds
<1> QED BY <1>1, <1>2, <1>5, <1>7, <1>8, ChangedStill

LEMMA WriteNextStill ==
    ASSUME OneMap, Zeroed, ~Sharing, TypesInv, TreeInv, NEW t \in Task, inode_write_next(t)
    PROVE  \E d : Still(t, d)
<1>1. PICK c : c = call[t]
  OBVIOUS
<1>2. c \in Transfer /\ c.op # "truncate"
  BY <1>1, AtTransfer DEF inode_write_next
<1>3. CASE c.pos = c.to
  <2>1. call' = [call EXCEPT ![t] = c] /\ UNCHANGED <<zone, size, content>>
    BY <1>1, <1>3 DEF inode_write_next, Proceed
  <2> QED BY <1>1, <1>2, <2>1, ChangedStill
<1>4. CASE c.pos # c.to
  <2>1. PICK d : d = NextBlock(c)
    OBVIOUS
  <2>2. Visit(t, d)
    BY <1>1, <1>4, <2>1 DEF inode_write_next
  <2>3. d \in Transfer /\ d.op = c.op /\ d.inode = c.inode /\ d.from = c.from /\ d.pos = c.pos
    BY <1>2, <2>1, NextBlockIs
  <2> QED BY <1>1, <1>2, <2>2, <2>3, VisitStill
<1> QED BY <1>3, <1>4

LEMMA EmptyingStill ==
    ASSUME TypesInv, TreeInv, NEW t \in Task, inode_bfree_enter(t) \/ inode_bfree_freed(t)
    PROVE  \E d : Still(t, d)
<1>1. PICK c : c = call[t]
  OBVIOUS
<1>2. CASE inode_bfree_enter(t)
  <2>1. TruncationOK(c, "enter") /\ c \in Truncation
    BY <1>1, <1>2, AtHand DEF inode_bfree_enter
  <2>2. PICK d, z : d = Into(c) /\ GoOn(t, d, z)
    BY <1>1, <1>2 DEF inode_bfree_enter
  <2>3. d \in Truncation /\ d.inode = c.inode
    BY <2>1, <2>2, IntoIs
  <2> QED BY <1>1, <2>1, <2>2, <2>3, CallKinds, GoOnStill
<1>3. CASE inode_bfree_freed(t)
  <2>1. c \in Truncation
    BY <1>1, <1>3, AtHand DEF inode_bfree_freed
  <2>2. PICK d, z : d = OutOf(c) /\ GoOn(t, d, z)
    BY <1>1, <1>3 DEF inode_bfree_freed
  <2>3. d \in Truncation /\ d.inode = c.inode
    BY <2>1, <2>2, OutOfIs
  <2> QED BY <1>1, <2>1, <2>2, <2>3, CallKinds, GoOnStill
<1> QED BY <1>2, <1>3

LEMMA SyncStill ==
    ASSUME TypesInv, NEW t \in Task, inode_sync(t), call[t].op # "truncate"
    PROVE  \E d : Still(t, d)
<1>1. call' = [call EXCEPT ![t] = NoCall] /\ UNCHANGED <<zone, size, content>>
  BY DEF inode_sync, Finish, Proceed
<1> QED BY <1>1, CallKinds, ChangedStill

\* Three steps change texts; the others are these.
LEMMA StillSteps ==
    ASSUME OneMap, Zeroed, ~Sharing, TypesInv, TreeInv, ZoneNext
    PROVE  \/ UNCHANGED <<call, zone, size, content>>
           \/ \E t \in Task : \E d : Still(t, d)
           \/ \E t \in Task, i \in Inode : Truncate(t, i)
           \/ \E t \in Task : inode_write_data(t)
           \/ \E t \in Task : inode_sync(t) /\ call[t].op = "truncate"
<1> SUFFICES ASSUME ~(\E t \in Task, i \in Inode : Truncate(t, i)),
                    ~(\E t \in Task : inode_write_data(t)),
                    ~(\E t \in Task : inode_sync(t) /\ call[t].op = "truncate")
             PROVE  \/ UNCHANGED <<call, zone, size, content>>
                    \/ \E t \in Task : \E d : Still(t, d)
  OBVIOUS
<1>1. CASE \E t \in Task, i \in Inode : \E len \in Lengths : Read(t, i, len)
  BY <1>1, ReadStill
<1>2. CASE \E t \in Task, i \in Inode : \E len \in Lengths : Write(t, i, len)
  BY <1>2, WriteStill
<1>3. CASE \E i \in Inode, to \in Targets : sys_lseek(i, to)
  BY <1>3 DEF sys_lseek
<1>4. ASSUME NEW t \in Task, bmap_balloc(t) \/ bmap_release(t) \/ bmap_index(t)
      PROVE  \E d : Still(t, d)
  BY <1>4, EntryStill, ReleaseStill, IndexStill
<1>5. ASSUME NEW t \in Task, inode_read_data(t) \/ inode_write_next(t)
      PROVE  \E d : Still(t, d)
  BY <1>5, ReadDataStill, WriteNextStill
<1>6. ASSUME NEW t \in Task, inode_bfree_enter(t) \/ inode_bfree_freed(t)
      PROVE  \E d : Still(t, d)
  BY <1>6, EmptyingStill
<1>7. ASSUME NEW t \in Task, inode_sync(t) PROVE \E d : Still(t, d)
  BY <1>7, SyncStill
<1> QED BY <1>1, <1>2, <1>3, <1>4, <1>5, <1>6, <1>7 DEF ZoneNext

-----------------------------------------------------------------------------
\* The step that begins to empty a file has not yet changed any text.
LEMMA TruncateText ==
    ASSUME TypesInv, NEW t \in Task, NEW i \in Inode, Truncate(t, i)
    PROVE  /\ call[t].op # "truncate" /\ pc[t] = "user" /\ Usable(i)
           /\ \A j \in Inode : Text'[j] = Text[j]
           /\ \/ call' = call /\ size' = size
              \/ \E d : /\ d.op = "truncate" /\ d.inode = i /\ call' = [call EXCEPT ![t] = d]
                        /\ size' = size \/ size' = [size EXCEPT ![i] = 0]
<1>1. PICK c : c = [op |-> "truncate", inode |-> i, visit |-> Start, one |-> 0, two |-> 0, nr |-> 0]
  OBVIOUS
<1>2. c \in Truncation /\ c.inode = i
  BY <1>1 DEF Truncation
<1>3. pc[t] = "user" /\ Usable(i) /\ GoOn(t, c, zone[i])
  BY <1>1 DEF Truncate, Begin
<1>4. call[t].op # "truncate"
  BY <1>3, TruncatingVisit DEF TypesInv
<1>5. PICK z : z = zone[i]
  OBVIOUS
<1>6. /\ content' = content
      /\ \/ zone' = zone /\ size' = size /\ call' = call
         \/ \E d : /\ d.op = "truncate" /\ d.inode = c.inode
                   /\ call' = [call EXCEPT ![t] = d]
                   /\ zone' = [zone EXCEPT ![c.inode] = z]
                   /\ size' = size \/ size' = [size EXCEPT ![c.inode] = 0]
  BY <1>2, <1>3, <1>5, GoOnFrame
<1>7. zone' = zone
  BY <1>2, <1>5, <1>6 DEF TypesInv, DiskInv
<1>8. \A j \in Inode : Text'[j] = Text[j]
  BY <1>6, <1>7, SameTexts
<1> QED BY <1>2, <1>3, <1>4, <1>6, <1>8

LEMMA WrittenSame ==
    ASSUME ~Sharing, TypesInv, TreeInv, WritesInv, NEW t \in Task, NEW d, d.op # "write",
           call' = call \/ call' = [call EXCEPT ![t] = d], \A j \in Inode : Text'[j] = Text[j]
    PROVE  WritesInv'
<1> SUFFICES ASSUME NEW u \in Task, call'[u].op = "write",
                    NEW p \in call'[u].from..(call'[u].pos - 1)
             PROVE  Text'[call'[u].inode][p] = Written(call'[u].inode, p)
  BY DEF WritesInv
<1>1. call'[u] = call[u]
  BY DEF TypesInv, CallsInv
<1>2. call[u].inode \in Inode
  BY <1>1, WriterOf
<1> QED BY <1>1, <1>2 DEF WritesInv

LEMMA WriteWritten ==
    ASSUME ~Sharing, TypesInv, TreeInv, WritesInv, NEW t \in Task, inode_write_data(t)
    PROVE  WritesInv'
<1>1. PICK c : c = call[t]
  OBVIOUS
<1>2. TransferOK(c, "data") /\ pc[t] = "data" /\ c \in Transfer /\ c.inode \in Inode /\ c.op = "write"
  BY <1>1, WriteChange DEF inode_write_data
<1>3. PICK i \in Inode, pos \in Nat, first \in Nat, now \in Nat :
         /\ i = c.inode /\ pos = c.pos + Chars(c) /\ first = c.from /\ now = c.pos
         /\ first <= now /\ now < pos /\ pos <= MaxSize
         /\ pos - 1 = c.pos + Chars(c) - 1
  <2>1. PICK from \in Nat, n \in Nat, to \in Nat, k \in Nat \ {0} :
           from = c.from /\ n = c.pos /\ to = c.to /\ k = Chars(c)
    BY <1>2, CharsAre DEF Transfer, Locating
  <2>2. from <= n /\ to <= MaxSize /\ n + k <= to /\ MaxSize \in Nat
    BY <1>2, <2>1, CharsAre, ZoneAssumption DEF TransferOK, Locating
  <2>3. PICK m \in Nat : m = n + k
    BY <2>1
  <2>4. from <= n /\ n < m /\ m <= MaxSize
    BY ONLY <2>2, <2>3, from \in Nat, n \in Nat, to \in Nat, k \in Nat \ {0}
  <2>5. c.pos + Chars(c) = m /\ m - 1 = c.pos + Chars(c) - 1
    BY ONLY <2>1, <2>3
  <2> QED BY <1>2, <2>1, <2>4, <2>5
<1>4. PICK d : d = [c EXCEPT !.pos = pos]
  OBVIOUS
<1>5. call' = [call EXCEPT ![t] = d]
  BY <1>1, <1>3, <1>4 DEF inode_write_data, Proceed
<1>6. d.op = "write" /\ d.inode = i /\ d.pos = pos /\ d.from = first
  BY <1>2, <1>3, <1>4, MovedIs
<1>7. /\ \A j \in Inode : j # i /\ ~Emptied(j) => Text'[j] = Text[j]
      /\ \A p \in 0..(MaxSize - 1) : Text'[i][p] =
            IF p \in now..(pos - 1) THEN Written(i, p) ELSE Text[i][p]
  <2>1. now..(pos - 1) = c.pos..(c.pos + Chars(c) - 1)
    BY <1>3
  <2> QED BY <1>1, <1>3, <2>1, WriteText
<1> SUFFICES ASSUME NEW u \in Task, call'[u].op = "write",
                    NEW p \in call'[u].from..(call'[u].pos - 1)
             PROVE  Text'[call'[u].inode][p] = Written(call'[u].inode, p)
  BY DEF WritesInv
<1>8. CASE u = t
  <2>1. call'[u] = d
    BY <1>5, <1>8 DEF TypesInv, CallsInv
  <2>2. p \in first..(pos - 1)
    BY <1>6, <2>1
  <2>3. p \in 0..(MaxSize - 1) /\ (p \in now..(pos - 1) \/ p \in first..(now - 1))
    BY ONLY <1>3, <2>2, ZoneAssumption
  <2>4. p \in first..(now - 1) => Text[i][p] = Written(i, p)
    BY <1>1, <1>2, <1>3 DEF WritesInv
  <2>5. Text'[i][p] = Written(i, p)
    BY ONLY <1>7, <2>3, <2>4
  <2> QED BY <1>6, <2>1, <2>5
<1>9. CASE u # t
  <2>1. call'[u] = call[u]
    BY <1>5, <1>9 DEF TypesInv, CallsInv
  <2>2. call[u].inode \in Inode /\ ~Emptied(call[u].inode) /\ pc[u] # "user"
    BY <2>1, WriterOf
  <2>3. call[u].inode # i
    BY <1>1, <1>2, <1>3, <1>9, <2>2 DEF TreeInv, Exclusive
  <2>4. Text'[call[u].inode] = Text[call[u].inode]
    BY <1>7, <2>2, <2>3
  <2> QED BY <2>1, <2>4 DEF WritesInv
<1> QED BY <1>8, <1>9

\* Nothing is left in a file that inode_truncate writes as its last.
LEMMA SyncText ==
    ASSUME ~Sharing, TypesInv, TreeInv, NEW t \in Task, inode_sync(t), call[t].op = "truncate"
    PROVE  /\ call[t].inode \in Inode /\ call' = [call EXCEPT ![t] = NoCall] /\ size' = size
           /\ pc[t] = "sync" /\ size[call[t].inode] = 0
           /\ \A j \in Inode : Text'[j] = Text[j]
           /\ Text[call[t].inode] = [p \in 0..(MaxSize - 1) |-> 0]
<1>1. /\ call' = [call EXCEPT ![t] = NoCall] /\ size' = size /\ zone' = zone /\ content' = content
      /\ pc[t] = "sync"
  BY DEF inode_sync, Proceed, At
<1>2. PICK i \in Inode : i = call[t].inode
  BY CallKinds DEF TypesInv, CallsInv
<1>3. size[i] = 0 /\ \A s \in Slot : zone[i][s] = 0
  BY <1>1, <1>2 DEF TreeInv, Emptying
<1>4. \A p \in Places : Held(i, p) = 0
  BY <1>3, NothingIn, HeldIs
<1>5. ASSUME NEW p \in 0..(MaxSize - 1) PROVE CellAt(i, Path(p \div Indexes), p % Indexes) = 0
  <2>1. Path(p \div Indexes) \in Places
    BY BlockOf DEF Places
  <2> QED BY <1>4, <2>1, BlocksAre DEF CellAt
<1>6. Text[i] = [p \in 0..(MaxSize - 1) |-> 0]
  BY <1>5, TextIs
<1>7. \A j \in Inode : Text'[j] = Text[j]
  BY <1>1, SameTexts
<1> QED BY <1>1, <1>2, <1>3, <1>6, <1>7

LEMMA SameFiles ==
    ASSUME UNCHANGED <<call, zone, size, content>>
    PROVE  /\ FileText' = FileText /\ FileLength' = FileLength
           /\ TypesInv /\ WritesInv /\ ~Sharing /\ TreeInv => WritesInv'
<1>1. /\ call' = call /\ zone' = zone /\ size' = size /\ content' = content
  OBVIOUS
<1>2. \A i \in Inode : Text'[i] = Text[i]
  BY <1>1, SameTexts
<1>3. \A i : Emptied(i)' <=> Emptied(i)
  BY <1>1 DEF Emptied
<1>4. FileText' = FileText
  BY <1>2, <1>3 DEF FileText
<1>5. FileLength' = FileLength
  BY <1>1, <1>3 DEF FileLength
<1>6. ASSUME TypesInv, WritesInv, ~Sharing, TreeInv PROVE WritesInv'
  BY <1>1, <1>2, <1>6, WriterOf DEF WritesInv
<1> QED BY <1>4, <1>5, <1>6

LEMMA WritesNext ==
    ASSUME OneMap, Zeroed, ~Sharing, TypesInv, TreeInv, WritesInv, [ZoneNext]_vars
    PROVE  WritesInv'
<1>1. CASE UNCHANGED <<call, zone, size, content>>
  BY <1>1, SameFiles
<1>2. CASE \E t \in Task : \E d : Still(t, d)
  BY <1>2, StillWritten
<1>3. CASE \E t \in Task, i \in Inode : Truncate(t, i)
  <2>1. PICK t \in Task, i \in Inode : Truncate(t, i)
    BY <1>3
  <2>2. /\ \A j \in Inode : Text'[j] = Text[j]
        /\ \E d : d.op # "write" /\ (call' = call \/ call' = [call EXCEPT ![t] = d])
    <3>1. \/ call' = call /\ NoCall.op # "write"
          \/ \E d : d.op = "truncate" /\ call' = [call EXCEPT ![t] = d]
      BY <2>1, TruncateText, CallKinds
    <3>2. \A j \in Inode : Text'[j] = Text[j]
      BY <2>1, TruncateText
    <3> QED BY <3>1, <3>2
  <2> QED BY <2>2, WrittenSame
<1>4. CASE \E t \in Task : inode_write_data(t)
  BY <1>4, WriteWritten
<1>5. CASE \E t \in Task : inode_sync(t) /\ call[t].op = "truncate"
  <2>1. PICK t \in Task : inode_sync(t) /\ call[t].op = "truncate"
    BY <1>5
  <2>2. call' = [call EXCEPT ![t] = NoCall] /\ \A j \in Inode : Text'[j] = Text[j]
    BY <2>1, SyncText
  <2> QED BY <2>2, WrittenSame, CallKinds
<1>6. CASE ZoneNext
  BY <1>1, <1>2, <1>3, <1>4, <1>5, <1>6, StillSteps
<1>7. CASE UNCHANGED vars
  BY <1>1, <1>7 DEF vars
<1> QED BY <1>6, <1>7

(***************************************************************************)
(* bmap finds the block that holds the position, and a write that has come *)
(* to pos has left all it wrote in the file, whatever other calls do to    *)
(* the bitmap and to their files meanwhile (inode.c:155-245).              *)
(***************************************************************************)
THEOREM TransfersExact ==
    ASSUME OneMap, Zeroed, ~Sharing
    PROVE  ZoneSpec => []TransfersAreExact
<1>1. ZoneInit => WritesInv
  BY CallKinds DEF ZoneInit, WritesInv
<1>2. TypesInv /\ TreeInv /\ WritesInv /\ [ZoneNext]_vars => WritesInv'
  BY WritesNext
<1>3. TreeInv /\ WritesInv => TransfersAreExact
  BY DEF TreeInv, Following, PathOf, WritesInv, TransfersAreExact
<1> QED BY <1>1, <1>2, <1>3, TreeAlways, PTL DEF ZoneSpec

-----------------------------------------------------------------------------
(***************************************************************************)
(* Every step is one of the texts, or changes none.                        *)
(***************************************************************************)
LEMMA TruncateFiles ==
    ASSUME ~Sharing, TypesInv, TreeInv, NEW t \in Task, NEW i \in Inode, Truncate(t, i)
    PROVE  Files!Empty(i) \/ UNCHANGED <<FileText, FileLength>>
<1>1. /\ call[t].op # "truncate" /\ pc[t] = "user" /\ Usable(i)
      /\ \A j \in Inode : Text'[j] = Text[j]
      /\ \/ call' = call /\ size' = size
         \/ \E d : /\ d.op = "truncate" /\ d.inode = i /\ call' = [call EXCEPT ![t] = d]
                   /\ size' = size \/ size' = [size EXCEPT ![i] = 0]
  BY TruncateText
<1>2. CASE call' = call /\ size' = size
  <2>1. \A j : Emptied(j)' <=> Emptied(j)
    BY <1>2 DEF Emptied
  <2>2. FileText' = FileText
    BY <1>1, <2>1 DEF FileText
  <2>3. FileLength' = FileLength
    BY <1>2, <2>1 DEF FileLength
  <2> QED BY <2>2, <2>3
<1>3. ASSUME NEW d, d.op = "truncate", d.inode = i, call' = [call EXCEPT ![t] = d],
             size' = size \/ size' = [size EXCEPT ![i] = 0]
      PROVE  Files!Empty(i)
  <2>1. call'[t] = d /\ \A u \in Task : u # t => call'[u] = call[u]
    BY <1>3 DEF TypesInv, CallsInv
  <2>2. Emptied(i)' /\ \A j : j # i => (Emptied(j)' <=> Emptied(j))
    BY <1>1, <1>3, <2>1 DEF Emptied
  <2>3. \A j \in Inode : j # i => size'[j] = size[j]
    BY <1>3 DEF TypesInv, DiskInv
  <2>4. FileText' = [FileText EXCEPT ![i] = [p \in 0..(MaxSize - 1) |-> 0]]
    BY <1>1, <2>2 DEF FileText
  <2>5. FileLength' = [FileLength EXCEPT ![i] = 0]
    BY <2>2, <2>3 DEF FileLength
  <2> QED BY <2>4, <2>5 DEF Files!Empty, Files!Blank
<1> QED BY <1>1, <1>2, <1>3

LEMMA SyncFiles ==
    ASSUME ~Sharing, TypesInv, TreeInv, NEW t \in Task, inode_sync(t), call[t].op = "truncate"
    PROVE  UNCHANGED <<FileText, FileLength>>
<1>1. PICK i \in Inode : i = call[t].inode
  BY SyncText
<1>2. /\ call' = [call EXCEPT ![t] = NoCall] /\ size' = size
      /\ pc[t] = "sync" /\ size[i] = 0
      /\ \A j \in Inode : Text'[j] = Text[j]
      /\ Text[i] = [p \in 0..(MaxSize - 1) |-> 0]
  BY <1>1, SyncText
<1>3. call'[t] = NoCall /\ \A u \in Task : u # t => call'[u] = call[u]
  BY <1>2 DEF TypesInv, CallsInv
<1>4. \A j : j # i => (Emptied(j)' <=> Emptied(j))
  BY <1>1, <1>3, CallKinds DEF Emptied
<1>5. FileText'[i] = FileText[i] /\ FileLength'[i] = FileLength[i]
  BY <1>2 DEF FileText, FileLength
<1>6. FileText' = FileText
  <2>1. ASSUME NEW j \in Inode, j # i PROVE FileText'[j] = FileText[j]
    BY <1>2, <1>4, <2>1 DEF FileText
  <2> QED BY <1>5, <2>1 DEF FileText
<1>7. FileLength' = FileLength
  <2>1. ASSUME NEW j \in Inode, j # i PROVE FileLength'[j] = FileLength[j]
    BY <1>2, <1>4, <2>1 DEF FileLength
  <2> QED BY <1>5, <2>1 DEF FileLength
<1> QED BY <1>6, <1>7

LEMMA WriteFiles ==
    ASSUME ~Sharing, TypesInv, TreeInv, NEW t \in Task, inode_write_data(t)
    PROVE  \E i \in Inode : Files!Write(i)
<1>1. PICK c : c = call[t]
  OBVIOUS
<1>2. TransferOK(c, "data") /\ pc[t] = "data" /\ c \in Transfer /\ c.op = "write"
  BY <1>1, WriteChange DEF inode_write_data
<1>3. PICK i \in Inode, from \in 0..MaxSize, to \in 0..MaxSize :
         /\ i = c.inode /\ from = c.pos /\ to = c.pos + Chars(c) /\ from < to
         /\ to - 1 = c.pos + Chars(c) - 1
  <2>1. PICK n \in Nat, end \in Nat, k \in Nat \ {0} : n = c.pos /\ end = c.to /\ k = Chars(c)
    BY <1>2, CharsAre DEF Transfer, Locating
  <2>2. end <= MaxSize /\ n + k <= end /\ MaxSize \in Nat
    BY <1>2, <2>1, CharsAre, ZoneAssumption DEF TransferOK, Locating
  <2>3. PICK m \in Nat : m = n + k
    BY <2>1
  <2>4. n \in 0..MaxSize /\ m \in 0..MaxSize /\ n < m
    BY ONLY <2>2, <2>3, n \in Nat, end \in Nat, k \in Nat \ {0}
  <2>5. c.pos + Chars(c) = m /\ m - 1 = c.pos + Chars(c) - 1
    BY ONLY <2>1, <2>3
  <2>6. c.inode \in Inode
    BY <1>2, CallKinds
  <2> QED BY <2>1, <2>4, <2>5, <2>6
<1>4. PICK d : d = [c EXCEPT !.pos = to]
  OBVIOUS
<1>5. /\ call' = [call EXCEPT ![t] = d]
      /\ size' = [size EXCEPT ![i] = IF to > @ THEN to ELSE @]
  BY <1>1, <1>3, <1>4 DEF inode_write_data, Proceed
<1>6. d.op = "write"
  BY <1>2, <1>3, <1>4, MovedIs
<1>7. /\ \A j \in Inode : j # i /\ ~Emptied(j) => Text'[j] = Text[j]
      /\ \A p \in 0..(MaxSize - 1) : Text'[i][p] =
            IF p \in from..(to - 1) THEN Written(i, p) ELSE Text[i][p]
  <2>1. from..(to - 1) = c.pos..(c.pos + Chars(c) - 1)
    BY <1>3
  <2> QED BY <1>1, <1>3, <2>1, WriteText
<1>8. call'[t] = d /\ \A u \in Task : u # t => call'[u] = call[u]
  BY <1>5 DEF TypesInv, CallsInv
<1>9. \A j : Emptied(j)' <=> Emptied(j)
  BY <1>1, <1>2, <1>6, <1>8 DEF Emptied
<1>10. ~Emptied(i)
  BY <1>1, <1>2, <1>3, WriterOf
<1>11. FileText[i] = Text[i] /\ FileText'[i] = Text'[i] /\ FileLength[i] = size[i]
  BY <1>9, <1>10 DEF FileText, FileLength
<1>12. DOMAIN FileText[i] = 0..(MaxSize - 1) /\ DOMAIN FileText'[i] = 0..(MaxSize - 1)
  BY <1>11, TextIs
<1>13. \A p \in DOMAIN FileText[i] :
          FileText'[i][p] = IF p \in from..(to - 1) THEN Written(i, p) ELSE FileText[i][p]
  BY <1>7, <1>11, <1>12
<1>14. FileText' = [FileText EXCEPT ![i] = [p \in DOMAIN FileText[i] |-> FileText'[i][p]]]
  <2>1. FileText'[i] = [p \in DOMAIN FileText[i] |-> FileText'[i][p]]
    <3>1. Text'[i] = [p \in 0..(MaxSize - 1) |-> Text'[i][p]]
      BY TextIs
    <3> QED BY <1>11, <1>12, <3>1
  <2>2. ASSUME NEW j \in Inode, j # i PROVE FileText'[j] = FileText[j]
    BY <1>7, <1>9, <2>2 DEF FileText
  <2>3. PICK new : new = [p \in DOMAIN FileText[i] |-> FileText'[i][p]]
    OBVIOUS
  <2>4. FileText' = [FileText EXCEPT ![i] = new]
    BY <2>1, <2>2, <2>3 DEF FileText
  <2> QED BY <2>3, <2>4
<1>15. FileLength' = [FileLength EXCEPT ![i] = IF to > @ THEN to ELSE @]
  <2>1. \A j \in Inode : size'[j] = IF j = i THEN (IF to > size[i] THEN to ELSE size[i]) ELSE size[j]
    BY <1>5 DEF TypesInv, DiskInv
  <2> QED BY <1>9, <1>10, <2>1 DEF FileLength
<1>16. \E m, n \in 0..MaxSize :
           /\ m < n
           /\ FileLength' = [FileLength EXCEPT ![i] = IF n > @ THEN n ELSE @]
           /\ \A p \in DOMAIN FileText[i] :
                 FileText'[i][p] = IF p \in m..(n - 1) THEN Written(i, p) ELSE FileText[i][p]
  BY ONLY <1>3, <1>13, <1>15, from \in 0..MaxSize, to \in 0..MaxSize
<1>17. Files!Write(i)
  BY ONLY <1>14, <1>16 DEF Files!Write
<1> QED BY <1>17

LEMMA FilesStep ==
    ASSUME OneMap, Zeroed, ~Sharing, TypesInv, TreeInv, [ZoneNext]_vars
    PROVE  [Files!FilesNext]_(Files!fileVars)
<1>1. CASE UNCHANGED <<call, zone, size, content>>
  BY <1>1, SameFiles DEF Files!fileVars
<1>2. CASE \E t \in Task : \E d : Still(t, d)
  BY <1>2, StillFiles DEF Files!fileVars
<1>3. CASE \E t \in Task, i \in Inode : Truncate(t, i)
  BY <1>3, TruncateFiles DEF Files!FilesNext, Files!fileVars
<1>4. CASE \E t \in Task : inode_write_data(t)
  BY <1>4, WriteFiles DEF Files!FilesNext
<1>5. CASE \E t \in Task : inode_sync(t) /\ call[t].op = "truncate"
  BY <1>5, SyncFiles DEF Files!fileVars
<1>6. CASE ZoneNext
  BY <1>1, <1>2, <1>3, <1>4, <1>5, <1>6, StillSteps
<1>7. CASE UNCHANGED vars
  BY <1>1, <1>7 DEF vars
<1> QED BY <1>6, <1>7

(***************************************************************************)
(* Files are texts of their own (AbstractFiles): read, write and           *)
(* inode_truncate over blocks that balloc and bfree move from one file to  *)
(* another implement them.                                                 *)
(***************************************************************************)
THEOREM ZoneImplementsFiles ==
    ASSUME OneMap, Zeroed, ~Sharing
    PROVE  ZoneSpec => ImplementsFiles
<1>1. ZoneInit => Files!FilesInit
  <2> SUFFICES ASSUME ZoneInit PROVE Files!FilesInit
    OBVIOUS
  <2>1. \A i : ~Emptied(i)
    BY CallKinds DEF ZoneInit, Emptied
  <2>2. \A i \in Inode, p \in Places : Held(i, p) = 0
    <3>1. \A i \in Inode : \A s \in Slot : zone[i][s] = 0
      BY DEF ZoneInit
    <3> QED BY <3>1, NothingIn, HeldIs
  <2>3. ASSUME NEW i \in Inode PROVE Text[i] = [p \in 0..(MaxSize - 1) |-> 0]
    <3>1. ASSUME NEW p \in 0..(MaxSize - 1) PROVE CellAt(i, Path(p \div Indexes), p % Indexes) = 0
      <4>1. Path(p \div Indexes) \in Places
        BY BlockOf DEF Places
      <4> QED BY <2>2, <4>1, BlocksAre DEF CellAt
    <3> QED BY <3>1, TextIs
  <2>4. FileText = [i \in Inode |-> [p \in 0..(MaxSize - 1) |-> 0]]
    BY <2>1, <2>3 DEF FileText
  <2>5. FileLength = [i \in Inode |-> 0]
    BY <2>1 DEF FileLength, ZoneInit
  <2> QED BY <2>4, <2>5 DEF Files!FilesInit, Files!Blank
<1>2. TypesInv /\ TreeInv /\ [ZoneNext]_vars => [Files!FilesNext]_(Files!fileVars)
  BY FilesStep
<1> QED BY <1>1, <1>2, TreeAlways, PTL DEF ZoneSpec, ImplementsFiles, Files!FilesSpec
=============================================================================
