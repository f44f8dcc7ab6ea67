-------------------------------- MODULE Zone --------------------------------
(***************************************************************************)
(* The blocks of files: balloc, bfree and bmap of src/fs/bmap.c with the   *)
(* scan of src/kernel/bitmap.c, and inode_read, inode_write and            *)
(* inode_truncate of src/fs/inode.c under read, write and lseek of         *)
(* src/fs/file.c.                                                          *)
(*                                                                         *)
(* A call gives the CPU up where the buffer cache may wait for the disk.   *)
(* pc[t] is the last such place that task t has come to, and any task may  *)
(* go on from it:                                                          *)
(*   "balloc"    balloc writes the bitmap                                  *)
(*   "release"   bmap gives an index block back, and may write it          *)
(*   "index"     bmap reads the index block of the next level              *)
(*   "data"      inode_read or inode_write reads the block found           *)
(*   "written"   inode_write gives the block back and writes it            *)
(*   "enter"     inode_bfree reads an index block                          *)
(*   "bfree"     bfree writes the bitmap                                   *)
(*   "sync"      inode_write or inode_truncate writes the inode            *)
(* A cell is a u16: a block holds Indexes of them, as data or as numbers   *)
(* of blocks.  The buffers are coherent (BufferCache), so content is what  *)
(* every task reads.  An inode is open once, for reading and writing, and  *)
(* its processes share the offset.                                         *)
(*                                                                         *)
(* A block of a file has its place in the tree of the inode: a slot of     *)
(* desc->zone, an index in the index block there, an index in the index    *)
(* block found at that one; None says that the place is further up.        *)
(***************************************************************************)
EXTENDS Integers, FiniteSets

CONSTANTS
    Task,
    Inode,
    Direct,         \* DIRECT_BLOCK
    Indexes,        \* BLOCK_INDEXES, and so the cells of a block
    BlockBits,      \* BLOCK_BITS, the blocks of one bitmap block
    Stride,         \* BLOCK_SIZE, which balloc counts a bitmap block for
    Maps,           \* the bitmap blocks of the disk
    Zones,          \* desc->zones, behind the last number of a block
    FirstZone,      \* desc->firstdatazone
    Zeroed,         \* does a block come out of balloc with zeros in it?
    Sharing,        \* may two calls work on one inode?
    MaxSize,        \* bound: cells of a file
    Lengths,        \* bound: the lengths of transfers
    Targets,        \* bound: where lseek goes
    MaxCalls        \* bound: system calls

ASSUME ZoneAssumption ==
    /\ Inode \subseteq Nat /\ Direct \in Nat /\ Indexes \in Nat \ {0}
    /\ BlockBits \in Nat \ {0} /\ Stride \in Nat \ {0} /\ Maps \in Nat \ {0}
    /\ FirstZone \in Nat \ {0} /\ Zones \in Nat /\ FirstZone < Zones
    /\ Zeroed \in BOOLEAN /\ Sharing \in BOOLEAN
    /\ MaxSize \in 0..(Indexes * (Direct + Indexes + Indexes * Indexes))
    /\ Lengths \subseteq Nat \ {0} /\ Targets \subseteq Nat /\ MaxCalls \in Nat

VARIABLES
    calls,      \* how many calls have begun
    pc,
    call,       \* the local variables of every call
    zmap,       \* the bits that are 1, as <<bitmap block, bit>>
    zone,       \* desc->zone
    size,       \* desc->size, in cells
    content,    \* the cells of every block
    offset,     \* file->offset
    stopped     \* the failed assertion, or where the model cannot follow

vars == <<calls, pc, call, zmap, zone, size, content, offset, stopped>>

\* The numbers that bfree has for the bits; the first one is no data block.
NumberOf(bit) == bit[1] * BlockBits + FirstZone - 1 + bit[2]

\* The bits of the disk; a bitmap block may have more, which are always 1.
Bit == {x \in (0..(Maps - 1)) \X (0..(BlockBits - 1)) : NumberOf(x) < Zones}
Block == {NumberOf(bit) : bit \in Bit} \ {FirstZone - 1}

Slot == 0..(Direct + 1)
Cells == 0..(Indexes - 1)
Empty == [k \in Cells |-> 0]

\* What is written into file i at position p: no number of a block.
Written(i, p) == FirstZone + Maps * BlockBits + i * MaxSize + p

\* The places of blocks: those of the data, and of the index blocks above.
None == -1
Leaf == {<<s, None, None>> : s \in 0..(Direct - 1)}
        \cup {<<Direct, j, None>> : j \in Cells}
        \cup {<<Direct + 1, j, k>> : j \in Cells, k \in Cells}
IndexPlace == {<<s, None, None>> : s \in {Direct, Direct + 1}}
              \cup {<<Direct + 1, j, None>> : j \in Cells}

(***************************************************************************)
(* How far inode_truncate is: its counter of the slots, and those of the   *)
(* loops of inode_bfree it is in.  Such a visit frees the block at a leaf, *)
(* enters an index block, or leaves one when the loop has come to its end. *)
(***************************************************************************)
Leaving == {<<s, Indexes, None>> : s \in {Direct, Direct + 1}}
           \cup {<<Direct + 1, j, Indexes>> : j \in Cells}
Visits == Leaf \cup IndexPlace \cup Leaving
Start == <<None, None, None>>

PlaceOf(v) == IF v[3] = Indexes THEN <<v[1], v[2], None>>
              ELSE IF v[2] = Indexes THEN <<v[1], None, None>> ELSE v

(***************************************************************************)
(* at: the block in which bmap looks its next index up, 0 for the inode,   *)
(* and depth the number of that index; nr: the number from balloc, bmap or *)
(* inode_bfree; from, pos, to: what is transferred; visit, one, two: how   *)
(* far inode_truncate has come, with the index blocks it is in.            *)
(***************************************************************************)
NoCall == [op |-> "none"]
Transfer == [op : {"read", "write"}, inode : Inode, from : Nat, pos : Nat, to : Nat,
             at : Block \cup {0}, depth : 1..3, nr : Nat]
Truncation == [op : {"truncate"}, inode : Inode, visit : Visits \cup {Start},
               one : Block \cup {0}, two : Block \cup {0}, nr : Nat]

ZoneTypeOK ==
    /\ calls \in 0..MaxCalls
    /\ pc \in [Task -> {"user", "balloc", "release", "index", "data", "written",
                        "enter", "bfree", "sync"}]
    /\ call \in [Task -> Transfer \cup Truncation \cup {NoCall}]
    /\ \A t \in Task : pc[t] = "user" <=> call[t] = NoCall
    /\ zmap \subseteq Bit
    /\ zone \in [Inode -> [Slot -> Nat]]
    /\ size \in [Inode -> 0..MaxSize]
    /\ content \in [Block -> [Cells -> Nat]]
    /\ offset \in [Inode -> Nat]
    /\ stopped \in {"no", "full", "unmarked", "hole", "garbage"}

\* A fresh file system: the bit before the first data block is never free.
ZoneInit ==
    /\ calls = 0
    /\ pc = [t \in Task |-> "user"]
    /\ call = [t \in Task |-> NoCall]
    /\ zmap = {<<0, 0>>}
    /\ zone = [i \in Inode |-> [s \in Slot |-> 0]]
    /\ size = [i \in Inode |-> 0]
    /\ content = [b \in Block |-> Empty]
    /\ offset = [i \in Inode |-> 0]
    /\ stopped = "no"

-----------------------------------------------------------------------------
Proceed(t, c, label) ==
    /\ pc' = [pc EXCEPT ![t] = label]
    /\ call' = [call EXCEPT ![t] = c]
    /\ UNCHANGED stopped

Stop(why) ==
    stopped' = why /\ UNCHANGED <<pc, call, zmap, zone, size, content, offset>>

\* Where block k of a file is.
Path(k) ==
    LET one == k - Direct
        two == one - Indexes
    IN  IF k < Direct THEN <<k, None, None>>
        ELSE IF one < Indexes THEN <<Direct, one, None>>
        ELSE <<Direct + 1, two \div Indexes, two % Indexes>>

\* The index that bmap has come to, and whether it is the last.
Index(c) == Path(c.pos \div Indexes)[c.depth]
LastIndex(c) == c.depth = 3 \/ Path(c.pos \div Indexes)[c.depth + 1] = None

Entry(c) == IF c.at = 0 THEN zone[c.inode][Index(c)] ELSE content[c.at][Index(c)]

\* Faulty variant: the bit is found and not set.
ScannedOnly(bits, bit) == bits

bitmap_scan(bits, bit) == bits \cup {bit}

Earlier(x, y) == x[1] < y[1] \/ (x[1] = y[1] /\ x[2] <= y[2])

\* balloc up to its wait for the bitmap; a NULL bitmap when the last is full.
balloc(t, c) ==
    LET free == Bit \ zmap
        bit == CHOOSE x \in free : \A y \in free : Earlier(x, y)
        nr == bit[1] * Stride + FirstZone - 1 + bit[2]
    IN  IF free = {} THEN Stop("full")
        ELSE /\ zmap' = bitmap_scan(zmap, bit)
             /\ content' = IF Zeroed THEN [content EXCEPT ![nr] = Empty] ELSE content
             /\ Proceed(t, [c EXCEPT !.nr = nr], "balloc")
             /\ UNCHANGED <<zone, size, offset>>

\* bmap in the array it has come to.
Visit(t, c) ==
    IF c.op = "write" /\ Entry(c) = 0 THEN balloc(t, c)
    ELSE Proceed(t, c, "release") /\ UNCHANGED <<zmap, zone, size, content, offset>>

\* The next turn of the loop of inode_read or inode_write.
NextBlock(c) == [c EXCEPT !.at = 0, !.depth = 1, !.nr = 0]

\* The file is at nobody's hands, unless calls may share it.
Usable(i) == Sharing \/ \A t \in Task : pc[t] # "user" => call[t].inode # i

Begin(t) ==
    /\ stopped = "no" /\ pc[t] = "user" /\ calls < MaxCalls
    /\ calls' = calls + 1

At(t, label) == stopped = "no" /\ pc[t] = label /\ UNCHANGED calls

-----------------------------------------------------------------------------
\* sys_read and inode_read; at the end of the file nothing happens.
Read(t, i, len) ==
    LET left == IF len < size[i] - offset[i] THEN len ELSE size[i] - offset[i]
        c == [op |-> "read", inode |-> i, from |-> offset[i], pos |-> offset[i],
              to |-> offset[i] + left, at |-> 0, depth |-> 1, nr |-> 0]
    IN  /\ Begin(t) /\ Usable(i) /\ offset[i] < size[i]
        /\ pc' = [pc EXCEPT ![t] = "release"]
        /\ call' = [call EXCEPT ![t] = c]
        /\ UNCHANGED <<zmap, zone, size, content, offset, stopped>>

\* sys_write and inode_write, up to the first wait of bmap.
Write(t, i, len) ==
    LET c == [op |-> "write", inode |-> i, from |-> offset[i], pos |-> offset[i],
              to |-> offset[i] + len, at |-> 0, depth |-> 1, nr |-> 0]
    IN  /\ Begin(t) /\ Usable(i) /\ offset[i] + len <= MaxSize
        /\ Visit(t, c)

\* sys_lseek, whatever it counts the new offset from.
sys_lseek(i, to) ==
    /\ stopped = "no" /\ calls < MaxCalls /\ Usable(i) /\ offset[i] # to
    /\ calls' = calls + 1
    /\ offset' = [offset EXCEPT ![i] = to]
    /\ UNCHANGED <<pc, call, zmap, zone, size, content, stopped>>

\* bmap enters the new number where it looked, and gives the block back.
bmap_balloc(t) ==
    LET c == call[t] IN
    /\ At(t, "balloc")
    /\ IF c.at = 0
       THEN zone' = [zone EXCEPT ![c.inode][Index(c)] = c.nr] /\ UNCHANGED content
       ELSE content' = [content EXCEPT ![c.at][Index(c)] = c.nr] /\ UNCHANGED zone
    /\ Proceed(t, c, "release")
    /\ UNCHANGED <<zmap, size, offset>>

\* It returns the number, or reads the index block of the next level.
bmap_release(t) ==
    LET c == call[t]
        e == Entry(c)
    IN  /\ At(t, "release")
        /\ IF e = 0 THEN Stop("hole")
           ELSE IF e \notin Block THEN Stop("garbage")
           ELSE /\ IF LastIndex(c) THEN Proceed(t, [c EXCEPT !.nr = e], "data")
                   ELSE Proceed(t, [c EXCEPT !.at = e, !.depth = @ + 1], "index")
                /\ UNCHANGED <<zmap, zone, size, content, offset>>

bmap_index(t) == At(t, "index") /\ Visit(t, call[t])

\* Faulty variant: the transfer goes on behind the end of the block.
ToTheEnd(c) == c.to - c.pos

\* chars: what is left, up to the end of the block.
Chars(c) == LET start == c.pos % Indexes
            IN  IF Indexes - start < c.to - c.pos THEN Indexes - start ELSE c.to - c.pos

\* Faulty variant: the offset moves back.
FinishBack(t, c) ==
    /\ Proceed(t, NoCall, "user")
    /\ offset' = [offset EXCEPT ![c.inode] = @ + (c.from - c.to)]

\* The end of a call: sys_read and sys_write move the offset.
Finish(t, c) ==
    /\ Proceed(t, NoCall, "user")
    /\ offset' = [offset EXCEPT ![c.inode] = @ + (c.to - c.from)]

\* inode_read has the block: it copies, and looks for the next one.
inode_read_data(t) ==
    LET c == [call[t] EXCEPT !.pos = @ + Chars(call[t])] IN
    /\ At(t, "data") /\ c.op = "read"
    /\ IF c.pos = c.to THEN Finish(t, c)
       ELSE Proceed(t, NextBlock(c), "release") /\ UNCHANGED offset
    /\ UNCHANGED <<zmap, zone, size, content>>

\* inode_write has the block: it copies, and may make the file longer.
inode_write_data(t) ==
    LET c == call[t]
        pos == c.pos + Chars(c)
        i == c.inode
        first == c.pos - (c.pos % Indexes)
    IN  /\ At(t, "data") /\ c.op = "write"
        /\ content' = [content EXCEPT ![c.nr] = [k \in Cells |->
                          IF first + k \in c.pos..(pos - 1) THEN Written(i, first + k) ELSE @[k]]]
        /\ size' = [size EXCEPT ![i] = IF pos > @ THEN pos ELSE @]
        /\ Proceed(t, [c EXCEPT !.pos = pos], "written")
        /\ UNCHANGED <<zmap, zone, offset>>

inode_write_next(t) ==
    LET c == call[t] IN
    /\ At(t, "written")
    /\ IF c.pos = c.to
       THEN Proceed(t, c, "sync") /\ UNCHANGED <<zmap, zone, size, content, offset>>
       ELSE Visit(t, NextBlock(c))

inode_sync(t) ==
    LET c == call[t] IN
    /\ At(t, "sync")
    /\ IF c.op = "write" THEN Finish(t, c)
                         ELSE Proceed(t, NoCall, "user") /\ UNCHANGED offset
    /\ UNCHANGED <<zmap, zone, size, content>>

-----------------------------------------------------------------------------
\* The entry of visit v, in the inode or in the block it is in.
EntryAt(c, v, zones) ==
    IF v[2] = None \/ v[2] = Indexes THEN zones[v[1]]
    ELSE IF v[3] = None \/ v[3] = Indexes THEN content[c.one][v[2]]
    ELSE content[c.two][v[3]]

(***************************************************************************)
(* There is something to do: inode_bfree returns at once for an entry of   *)
(* 0, and does not come to the loop.                                       *)
(***************************************************************************)
Due(c, v, zones) ==
    /\ v[2] # None => c.one # 0
    /\ v[3] # None => c.two # 0
    /\ v \in Leaving \/ EntryAt(c, v, zones) # 0

Before(v, w) ==
    \/ v[1] < w[1]
    \/ v[1] = w[1] /\ v[2] < w[2]
    \/ v[1] = w[1] /\ v[2] = w[2] /\ v[3] < w[3]

bitmap_clear(bits, nr) == {x \in bits : NumberOf(x) # nr}

\* bfree looks for the bit in the first bitmap block that nr is not behind.
IsMarked(nr) == \E x \in zmap :
    /\ NumberOf(x) = nr /\ nr <= BlockBits * (x[1] + 1)
    /\ x[1] = 0 \/ nr > BlockBits * x[1]

\* bfree up to its wait for the bitmap.
bfree(t, c, nr, zones) ==
    IF ~IsMarked(nr) THEN Stop("unmarked")
    ELSE /\ zmap' = bitmap_clear(zmap, nr)
         /\ zone' = [zone EXCEPT ![c.inode] = zones]
         /\ Proceed(t, [c EXCEPT !.nr = nr], "bfree")
         /\ UNCHANGED <<size, content, offset>>

\* inode_truncate behind visit c.visit, with these zones.
GoOn(t, c, zones) ==
    LET due == {v \in Visits : Before(c.visit, v) /\ Due(c, v, zones)}
        v == CHOOSE w \in due : \A u \in due : u = w \/ Before(w, u)
        nr == EntryAt(c, v, zones)
    IN  IF due = {}
        THEN /\ zone' = [zone EXCEPT ![c.inode] = zones]
             /\ size' = [size EXCEPT ![c.inode] = 0]
             /\ Proceed(t, c, "sync")
             /\ UNCHANGED <<zmap, content, offset>>
        ELSE IF v \notin IndexPlace THEN bfree(t, [c EXCEPT !.visit = v], nr, zones)
        ELSE IF nr \notin Block THEN Stop("garbage")
        ELSE /\ zone' = [zone EXCEPT ![c.inode] = zones]
             /\ Proceed(t, [c EXCEPT !.visit = v, !.nr = nr], "enter")
             /\ UNCHANGED <<zmap, size, content, offset>>

\* open with O_TRUNC, or the last iput of an inode with no link.
Truncate(t, i) ==
    LET c == [op |-> "truncate", inode |-> i, visit |-> Start, one |-> 0, two |-> 0, nr |-> 0]
    IN  Begin(t) /\ Usable(i) /\ GoOn(t, c, zone[i])

\* The blocks it is in: one more when it enters one, one less when it leaves it.
Into(c) == IF c.visit[2] = None THEN [c EXCEPT !.one = c.nr] ELSE [c EXCEPT !.two = c.nr]
OutOf(c) ==
    IF c.visit \notin Leaving THEN c
    ELSE IF c.visit[3] = None THEN [c EXCEPT !.one = 0] ELSE [c EXCEPT !.two = 0]

\* inode_bfree has the index block.
inode_bfree_enter(t) == At(t, "enter") /\ GoOn(t, Into(call[t]), zone[call[t].inode])

\* Faulty variant: inode_truncate does not clear the entry of a block it freed.
Uncleared(zones, v) == zones

\* inode_truncate clears the entry of the inode when its block is free.
Cleared(zones, v) ==
    IF PlaceOf(v)[2] = None THEN [zones EXCEPT ![v[1]] = 0] ELSE zones

inode_bfree_freed(t) ==
    /\ At(t, "bfree")
    /\ GoOn(t, OutOf(call[t]), Cleared(zone[call[t].inode], call[t].visit))

-----------------------------------------------------------------------------
ZoneNext ==
    \/ \E t \in Task, i \in Inode :
          Truncate(t, i) \/ \E len \in Lengths : Read(t, i, len) \/ Write(t, i, len)
    \/ \E i \in Inode, to \in Targets : sys_lseek(i, to)
    \/ \E t \in Task :
          \/ bmap_balloc(t) \/ bmap_release(t) \/ bmap_index(t)
          \/ inode_read_data(t) \/ inode_write_data(t) \/ inode_write_next(t)
          \/ inode_bfree_enter(t) \/ inode_bfree_freed(t) \/ inode_sync(t)

ZoneSpec == ZoneInit /\ [][ZoneNext]_vars

-----------------------------------------------------------------------------
\* The number at a place of the tree of an inode, 0 if the tree does not get there.
Held(i, p) ==
    LET one == zone[i][p[1]]
        two == IF one \in Block THEN content[one][p[2]] ELSE 0
    IN  IF p[2] = None THEN one
        ELSE IF p[3] = None THEN two
        ELSE IF two \in Block THEN content[two][p[3]] ELSE 0

\* The places that a call which empties the file has freed so far.
Freed(i) == {p \in Leaf \cup IndexPlace :
    \E t \in Task : /\ call[t].op = "truncate" /\ call[t].inode = i
                    /\ \E v \in Leaf \cup Leaving :
                          PlaceOf(v) = p /\ ~Before(call[t].visit, v)}

\* Where the blocks of files are, as <<inode, place>>.
Owned == {x \in Inode \X (Leaf \cup IndexPlace) :
             Held(x[1], x[2]) # 0 /\ x[2] \notin Freed(x[1])}

Allocating == {t \in Task : pc[t] = "balloc"}

(***************************************************************************)
(* A block is marked in the bitmap exactly if it is in one place of one    *)
(* file or on its way there, and it is never in two; what a file that is   *)
(* being emptied still names, or names in blocks it has given back, is     *)
(* free.  So no block is lost and none is freed twice, whatever calls      *)
(* allocate and free meanwhile.                                            *)
(***************************************************************************)
EveryBlockOnce ==
    /\ {NumberOf(x) : x \in zmap} \ {FirstZone - 1}
          = {Held(x[1], x[2]) : x \in Owned} \cup {call[t].nr : t \in Allocating}
    /\ Cardinality(zmap) = 1 + Cardinality(Owned) + Cardinality(Allocating)
    /\ stopped # "unmarked"

Text == [i \in Inode |-> [p \in 0..(MaxSize - 1) |->
            LET b == Held(i, Path(p \div Indexes))
            IN  IF b \in Block THEN content[b][p % Indexes] ELSE 0]]

(***************************************************************************)
(* A transfer touches the block that holds its position at the time it is  *)
(* copied, and a write that has come to pos has left everything before it  *)
(* in the file.                                                            *)
(***************************************************************************)
TransfersAreExact == \A t \in Task :
    /\ pc[t] = "data" => call[t].nr = Held(call[t].inode, Path(call[t].pos \div Indexes))
    /\ call[t].op = "write" => \A p \in call[t].from..(call[t].pos - 1) :
                                  Text[call[t].inode][p] = Written(call[t].inode, p)

\* The file is empty from the start of inode_truncate on.
Emptied(i) == \E t \in Task : call[t].op = "truncate" /\ call[t].inode = i

FileText == [i \in Inode |-> IF Emptied(i) THEN [p \in 0..(MaxSize - 1) |-> 0] ELSE Text[i]]
FileLength == [i \in Inode |-> IF Emptied(i) THEN 0 ELSE size[i]]

Files == INSTANCE AbstractFiles WITH text <- FileText, length <- FileLength

\* Files are texts of their own, through all blocks they share over time.
ImplementsFiles == Files!FilesSpec

\* What bfree asserts: the block that it frees is in use (bmap.c:63).
FreesUsedBlocks == stopped # "unmarked"
=============================================================================
