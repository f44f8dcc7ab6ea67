----------------------------- MODULE FileSystem -----------------------------
(***************************************************************************)
(* Names, inodes and open files: the system calls of src/fs/namei.c and    *)
(* src/fs/file.c on the names of one directory, the root, over the inode   *)
(* table of src/fs/inode.c and the inode bitmap of src/fs/bmap.c.          *)
(*                                                                         *)
(* A system call gives the CPU up where the buffer cache may wait for the  *)
(* disk, in bread, bwrite and brelse.  pc[t] is the last such place that   *)
(* task t has come to, and any task may go on from it:                     *)
(*   "find"      the directory is read for find_entry ("find new": for the *)
(*               new name of link)                                         *)
(*   "add"       the same for the find_entry of add_entry                  *)
(*   "slot"      the same for its search of a free entry                   *)
(*   "ialloc"    ialloc writes the bitmap                                  *)
(*   "iget"      iget reads an inode ("iget new": one just allocated)      *)
(*   "namei"     namei gives its directory back                            *)
(*   "empty"     is_empty reads the directory to be removed                *)
(*   "truncate"  inode_truncate writes the inode                           *)
(*   "ifree"     ifree writes the bitmap                                   *)
(*   "opened"    inode_open gives its directory back                       *)
(*   "iput"      the call gives back the inodes it still holds             *)
(* Left out: the contents of files and of other directories, permissions,  *)
(* the number of links of the root, and paths of several components.       *)
(***************************************************************************)
EXTENDS Integers, FiniteSets, Sequences

CONSTANTS
    Task,
    InitTask,       \* the process that exists first
    Name,
    Nr,             \* the inodes of the disk but the root
    RootNr,
    Inode,          \* the slots of inode_table but the first
    Root,           \* the first, which holds the root
    File,           \* the slots of file_table
    NoFile,         \* NULL in task->files
    Fd,
    MaxEntries,     \* bound: entries of the directory
    MaxCalls        \* bound: system calls with a name

ASSUME FileSystemAssumption ==
    /\ InitTask \in Task /\ IsFiniteSet(Task)
    /\ Nr \subseteq Nat \ {0} /\ RootNr \in Nat \ (Nr \cup {0})
    /\ Inode \subseteq Nat /\ Root \in Nat \ Inode
    /\ File \subseteq Nat /\ IsFiniteSet(File) /\ NoFile \notin File
    /\ Fd \subseteq Nat /\ IsFiniteSet(Fd)
    /\ MaxEntries \in Nat /\ MaxCalls \in Nat

VARIABLES
    live,       \* the processes
    calls,      \* how many calls have begun
    pc,
    call,       \* the local variables of every system call
    held,       \* the inodes it has to give back: the directory, then inode
    entries,    \* the directory: [name, nr], nr = 0 for a free entry
    imap,       \* the inode bitmap
    nlinks,     \* desc->nlinks of every inode, a u8
    isdir,      \* ISDIR(desc->mode)
    inode,      \* inode_table: [nr, count, desc], desc = 0 until it is read
    file,       \* file_table: [count, inode]
    files,      \* task->files
    ipwd,       \* task->ipwd
    stopped     \* a panic, a failed assertion, or the use of no inode

disk == <<entries, imap, nlinks, isdir>>
opens == <<file, files, ipwd>>
vars == <<live, calls, pc, call, held, disk, inode, opens, stopped>>

Op == {"open", "creat", "mkdir", "unlink", "rmdir", "link", "chdir"}

\* target: the new name of link; entry: the place of the entry; nr: from ialloc
Call == [op : Op, name : Name, target : Name, entry : 0..MaxEntries, nr : Nr \cup {0}]
NoCall == [op |-> "none"]

FileSystemTypeOK ==
    /\ live \subseteq Task /\ calls \in 0..MaxCalls
    /\ pc \in [Task -> {"user", "find", "find new", "add", "slot", "ialloc", "iget",
                        "iget new", "namei", "empty", "truncate", "ifree", "opened",
                        "iput"}]
    /\ \A t \in Task : IF pc[t] \in {"user", "iput"} THEN call[t] = NoCall
                                                   ELSE call[t] \in Call
    /\ held \in [Task -> Seq(Inode \cup {Root})]
    /\ entries \in Seq([name : Name, nr : Nr \cup {0}])
    /\ Len(entries) <= MaxEntries
    /\ imap \subseteq Nr \cup {0}
    /\ nlinks \in [Nr -> 0..255] /\ isdir \in [Nr -> BOOLEAN]
    /\ inode \in [Inode \cup {Root} -> [nr : Nr \cup {0, RootNr}, count : Nat,
                                        desc : Nr \cup {0, RootNr}]]
    /\ file \in [File -> [count : Nat, inode : Inode \cup {Root}]]
    /\ files \in [Task -> [Fd -> File \cup {NoFile}]]
    /\ ipwd \in [Task -> Inode \cup {Root}]
    /\ stopped \in BOOLEAN

NoInode == [nr |-> 0, count |-> 0, desc |-> 0]

\* mount_root and task_create: super block and process hold the root twice.
FileSystemInit ==
    /\ live = {InitTask} /\ calls = 0
    /\ pc = [t \in Task |-> "user"]
    /\ call = [t \in Task |-> NoCall]
    /\ held = [t \in Task |-> <<>>]
    /\ entries = <<>>
    /\ imap = {0}
    /\ nlinks = [i \in Nr |-> 0] /\ isdir = [i \in Nr |-> FALSE]
    /\ inode = [s \in Inode \cup {Root} |->
                  IF s = Root THEN [nr |-> RootNr, count |-> 4, desc |-> RootNr]
                              ELSE NoInode]
    /\ file = [f \in File |-> [count |-> 0, inode |-> Root]]
    /\ files = [t \in Task |-> [fd \in Fd |-> NoFile]]
    /\ ipwd = [t \in Task |-> Root]
    /\ stopped = FALSE

-----------------------------------------------------------------------------
Least(S) == CHOOSE x \in S : \A y \in S : x <= y

\* Faulty variant: one link less, without the width of a u8.
UnlinkedSigned(x) == x - 1

Unlinked(x) == (x - 1) % 256

\* Task t goes on to label with call c, the inodes in L and inode_table tbl.
Proceed(t, c, label, L, tbl) ==
    /\ pc' = [pc EXCEPT ![t] = label]
    /\ call' = [call EXCEPT ![t] = c]
    /\ held' = [held EXCEPT ![t] = L]
    /\ inode' = tbl
    /\ UNCHANGED <<live, stopped>>

\* It goes on to the end of the call, where it gives back the inodes in L.
Return(t, L, tbl) == Proceed(t, NoCall, "iput", L, tbl)

Stop == stopped' = TRUE /\ UNCHANGED <<live, pc, call, held, disk, inode, opens>>

\* The slot that iget has given the call.
Got(t) == held[t][2]

\* inode_table after iput of s, and after its count has gone up.
Put(tbl, s) == [tbl EXCEPT ![s] = IF @.count = 1 THEN NoInode
                                  ELSE [@ EXCEPT !.count = tbl[s].count - 1]]
Counted(tbl, s) == [tbl EXCEPT ![s].count = @ + 1]

\* The first entry of that name, also one whose nr is 0; 0 for none.
find_entry(n) ==
    LET found == {j \in DOMAIN entries : entries[j].name = n}
    IN  IF found = {} THEN 0 ELSE Least(found)

\* Faulty variant: an inode that is still being read is passed over.
OnlyRead(i) == {s \in Inode : inode[s].desc # 0 /\ inode[s].nr = i}

\* The inodes on the list of the super block.
find_inode(i) == {s \in Inode : inode[s].count > 0 /\ inode[s].nr = i}

-----------------------------------------------------------------------------
(***************************************************************************)
(* What a call does with the inode it has found, up to its next wait; c    *)
(* are its local variables, s the slot, tbl the table after iget.          *)
(***************************************************************************)
inode_open(t, c, s, tbl) ==
    LET d == tbl[s].desc
    IN  /\ IF nlinks[d] = 0 \/ (isdir[d] /\ c.op = "creat")
           THEN Return(t, <<Root, s>>, tbl)
           ELSE Proceed(t, c, "opened", <<Root, s>>, tbl)
        /\ UNCHANGED <<disk, opens>>

sys_unlink(t, c, s, tbl) ==
    LET d == tbl[s].desc
    IN  IF isdir[d]
        THEN Return(t, <<s, Root>>, tbl) /\ UNCHANGED <<disk, opens>>
        ELSE /\ entries' = [entries EXCEPT ![c.entry].nr = 0]
             /\ nlinks' = [nlinks EXCEPT ![d] = Unlinked(@)]
             /\ IF nlinks'[d] = 0
                THEN Proceed(t, c, "truncate", <<Root, s>>, tbl)
                ELSE Return(t, <<s, Root>>, tbl)
             /\ UNCHANGED <<imap, isdir, opens>>

sys_rmdir(t, c, s, tbl) ==
    /\ IF ~isdir[tbl[s].desc] \/ tbl[s].count > 1
       THEN Return(t, <<s, Root>>, tbl)
       ELSE Proceed(t, c, "empty", <<Root, s>>, tbl)
    /\ UNCHANGED <<disk, opens>>

Found(t, c, s, tbl) ==
    \/ c.op \in {"open", "creat"} /\ inode_open(t, c, s, tbl)
    \/ c.op = "unlink" /\ sys_unlink(t, c, s, tbl)
    \/ c.op = "rmdir" /\ sys_rmdir(t, c, s, tbl)
    \/ /\ c.op \in {"link", "chdir"}
       /\ Proceed(t, c, "namei", <<Root, s>>, tbl)
       /\ UNCHANGED <<disk, opens>>

\* open and mkdir set the inode up that they have allocated.
Created(t, c, s, tbl, ents) ==
    LET d == tbl[s].desc
    IN  /\ entries' = ents
        /\ isdir' = [isdir EXCEPT ![d] = c.op = "mkdir"]
        /\ nlinks' = [nlinks EXCEPT ![d] = IF c.op = "mkdir" THEN 2 ELSE 1]
        /\ IF c.op = "mkdir" THEN Return(t, <<s, Root>>, tbl)
                             ELSE Proceed(t, c, "opened", <<Root, s>>, tbl)
        /\ UNCHANGED <<imap, opens>>

(***************************************************************************)
(* iget of inode i, for an inode just allocated (label "iget new") or one  *)
(* found; ents is the directory by then.  A listed inode is returned at    *)
(* once; if the task that listed it has not read it yet, it has no         *)
(* descriptor.  Another one takes the first free slot and is read.  No     *)
(* block of the disk holds inode 0.                                        *)
(***************************************************************************)
iget(t, c, i, ents, label) ==
    LET unused == {s \in Inode : inode[s].count = 0}
    IN  IF find_inode(i) # {}
        THEN \E s \in find_inode(i) :
                IF inode[s].desc = 0
                THEN Stop
                ELSE IF label = "iget new"
                THEN Created(t, c, s, Counted(inode, s), ents)
                ELSE Found(t, c, s, Counted(inode, s))
        ELSE IF unused = {} \/ i = 0
        THEN Stop
        ELSE /\ Proceed(t, c, label, <<Root, Least(unused)>>,
                        [inode EXCEPT ![Least(unused)] =
                            [nr |-> i, count |-> 1, desc |-> 0]])
             /\ entries' = ents
             /\ UNCHANGED <<imap, nlinks, isdir, opens>>

\* The name is entered at place j of ents: link refers to its inode at once,
\* open and mkdir allocate one first, and fail an assertion if there is none.
Enter(t, j, ents) ==
    LET c == [call[t] EXCEPT !.entry = j]
        d == inode[Got(t)].desc
    IN  IF c.op = "link"
        THEN /\ entries' = [ents EXCEPT ![j].nr = inode[Got(t)].nr]
             /\ nlinks' = [nlinks EXCEPT ![d] = (@ + 1) % 256]
             /\ Return(t, <<Got(t), Root>>, inode)
             /\ UNCHANGED <<imap, isdir, opens>>
        ELSE LET free == (Nr \cup {0}) \ imap
             IN  IF free = {}
                 THEN Stop
                 ELSE /\ entries' = ents
                      /\ imap' = imap \cup {Least(free)}
                      /\ Proceed(t, [c EXCEPT !.nr = Least(free)], "ialloc",
                                 held[t], inode)
                      /\ UNCHANGED <<nlinks, isdir, opens>>

-----------------------------------------------------------------------------
\* A system call with a name begins; named() counts a user of the directory.
named(t, o, n, m) ==
    /\ t \in live /\ pc[t] = "user"
    /\ calls < MaxCalls /\ calls' = calls + 1
    /\ Proceed(t, [op |-> o, name |-> n, target |-> m, entry |-> 0, nr |-> 0],
               "find", <<Root>>, Counted(inode, Root))
    /\ UNCHANGED <<disk, opens>>

find(t) ==
    LET c == call[t]
        j == find_entry(c.name)
    IN  /\ pc[t] = "find"
        /\ IF j # 0 /\ c.op # "mkdir"
           THEN iget(t, [c EXCEPT !.entry = j], entries[j].nr, entries, "iget")
           ELSE /\ IF j = 0 /\ c.op \in {"creat", "mkdir"}
                   THEN Proceed(t, c, "add", <<Root>>, inode)
                   ELSE Return(t, <<Root>>, inode)
                /\ UNCHANGED <<disk, opens>>

iget_done(t) ==
    /\ pc[t] = "iget"
    /\ Found(t, call[t], Got(t), [inode EXCEPT ![Got(t)].desc = inode[Got(t)].nr])

\* add_entry: the name may have been entered since find_entry.
add_entry(t) ==
    LET j == find_entry(IF call[t].op = "link" THEN call[t].target ELSE call[t].name)
    IN  /\ pc[t] = "add"
        /\ IF j # 0
           THEN Enter(t, j, entries)
           ELSE /\ Proceed(t, call[t], "slot", held[t], inode)
                /\ UNCHANGED <<disk, opens>>

\* The first entry without an inode is taken, or one more at the end.
add_entry_slot(t) ==
    LET n == IF call[t].op = "link" THEN call[t].target ELSE call[t].name
        free == {j \in DOMAIN entries : entries[j].nr = 0}
        j == IF free = {} THEN Len(entries) + 1 ELSE Least(free)
    IN  /\ pc[t] = "slot"
        /\ j <= MaxEntries
        /\ Enter(t, j, [k \in 1..(IF free = {} THEN j ELSE Len(entries)) |->
                           IF k = j THEN [name |-> n, nr |-> 0] ELSE entries[k]])

ialloc_done(t) ==
    LET c == call[t]
        ents == [entries EXCEPT ![c.entry].nr = c.nr]
    IN  /\ pc[t] = "ialloc"
        /\ iget(t, c, c.nr, ents, "iget new")

iget_new_done(t) ==
    /\ pc[t] = "iget new"
    /\ Created(t, call[t], Got(t),
               [inode EXCEPT ![Got(t)].desc = inode[Got(t)].nr], entries)

(***************************************************************************)
(* namei has given the directory back.  link goes on with its new name in  *)
(* the same directory; chdir gives the old directory of the task back, and *)
(* only the task itself reads ipwd.                                        *)
(***************************************************************************)
namei_done(t) ==
    LET c == call[t]
        s == Got(t)
        dir == isdir[inode[s].desc]
    IN  /\ pc[t] = "namei"
        /\ IF c.op = "link" /\ ~dir
           THEN Proceed(t, c, "find new", <<Root, s>>, inode) /\ UNCHANGED opens
           ELSE IF c.op = "chdir" /\ dir /\ s # ipwd[t]
           THEN /\ Return(t, <<ipwd[t]>>, Put(inode, Root))
                /\ ipwd' = [ipwd EXCEPT ![t] = s]
                /\ UNCHANGED <<file, files>>
           ELSE Return(t, <<s>>, Put(inode, Root)) /\ UNCHANGED opens
        /\ UNCHANGED disk

find_new(t) ==
    /\ pc[t] = "find new"
    /\ IF find_entry(call[t].target) = 0
       THEN Proceed(t, call[t], "add", held[t], inode)
       ELSE Return(t, <<Got(t), Root>>, inode)
    /\ UNCHANGED <<disk, opens>>

\* is_empty has an answer; a directory that is removed has two links.
is_empty_done(t) ==
    /\ pc[t] = "empty"
    /\ \/ Return(t, <<Got(t), Root>>, inode) /\ UNCHANGED <<disk, opens>>
       \/ IF nlinks[inode[Got(t)].desc] = 2
          THEN /\ Proceed(t, call[t], "truncate", held[t], inode)
               /\ UNCHANGED <<disk, opens>>
          ELSE Stop

ifree(t) ==
    LET i == inode[Got(t)].nr
    IN  /\ pc[t] = "truncate"
        /\ IF i \notin imap
           THEN Stop
           ELSE /\ imap' = imap \ {i}
                /\ IF call[t].op = "rmdir"
                   THEN Proceed(t, call[t], "ifree", held[t], inode)
                   ELSE Return(t, <<Got(t), Root>>, inode)
                /\ UNCHANGED <<entries, nlinks, isdir, opens>>

rmdir_done(t) ==
    LET s == Got(t)
    IN  /\ pc[t] = "ifree"
        /\ nlinks' = [nlinks EXCEPT ![inode[s].desc] = 0]
        /\ entries' = [entries EXCEPT ![call[t].entry].nr = 0]
        /\ Return(t, <<s, Root>>, [inode EXCEPT ![s].nr = 0])
        /\ UNCHANGED <<imap, isdir, opens>>

-----------------------------------------------------------------------------
\* sys_open: inode_open has given its directory back.
sys_open(t) ==
    LET fds == {fd \in Fd : files[t][fd] = NoFile}
        unused == {f \in File : file[f].count = 0}
    IN  /\ pc[t] = "opened"
        /\ IF fds = {} \/ unused = {}
           THEN Stop
           ELSE /\ files' = [files EXCEPT ![t][Least(fds)] = Least(unused)]
                /\ file' = [file EXCEPT ![Least(unused)] =
                               [count |-> 1, inode |-> Got(t)]]
                /\ Proceed(t, NoCall, "user", <<>>, Put(inode, Root))
                /\ UNCHANGED <<disk, ipwd>>

\* put_file: the last user of a file gives its inode back.  Only the task
\* itself reads its descriptor, which is cleared after that.
sys_close(t, fd) ==
    LET f == files[t][fd]
    IN  /\ t \in live /\ pc[t] = "user" /\ f # NoFile
        /\ file' = [file EXCEPT ![f].count = @ - 1]
        /\ files' = [files EXCEPT ![t][fd] = NoFile]
        /\ IF file'[f].count = 0
           THEN Return(t, <<file[f].inode>>, inode)
           ELSE Proceed(t, NoCall, "user", <<>>, inode)
        /\ UNCHANGED <<disk, ipwd>>

\* iput of the first inode that the call holds; the last iput ends the call.
iput(t) ==
    /\ pc[t] = "iput"
    /\ Proceed(t, NoCall, IF Len(held[t]) = 1 THEN "user" ELSE "iput",
               Tail(held[t]), Put(inode, Head(held[t])))
    /\ UNCHANGED <<disk, opens>>

\* Faulty variant: the child uses files that it is not counted for.
ForkUncounted(t, u) ==
    /\ t \in live /\ pc[t] = "user" /\ u \notin live
    /\ live' = live \cup {u}
    /\ files' = [files EXCEPT ![u] = files[t]]
    /\ ipwd' = [ipwd EXCEPT ![u] = ipwd[t]]
    /\ inode' = Counted(Counted(inode, ipwd[t]), Root)
    /\ UNCHANGED <<calls, pc, call, held, disk, file, stopped>>

\* The child shares the files, the directory and the root of its parent.
task_fork(t, u) ==
    /\ t \in live /\ pc[t] = "user" /\ u \notin live
    /\ live' = live \cup {u}
    /\ files' = [files EXCEPT ![u] = files[t]]
    /\ file' = [f \in File |->
                  [file[f] EXCEPT !.count =
                      @ + Cardinality({fd \in Fd : files[t][fd] = f})]]
    /\ ipwd' = [ipwd EXCEPT ![u] = ipwd[t]]
    /\ inode' = Counted(Counted(inode, ipwd[t]), Root)
    /\ UNCHANGED <<calls, pc, call, held, disk, stopped>>

\* A task goes on with its system call.
Resume(t) ==
    \/ find(t) \/ iget_done(t) \/ namei_done(t) \/ find_new(t)
    \/ add_entry(t) \/ add_entry_slot(t) \/ ialloc_done(t) \/ iget_new_done(t)
    \/ is_empty_done(t) \/ ifree(t) \/ rmdir_done(t) \/ sys_open(t) \/ iput(t)

FileSystemNext ==
    /\ ~stopped
    /\ \E t \in Task :
          \/ \E o \in Op \ {"link"}, n \in Name : named(t, o, n, n)
          \/ \E n \in Name, m \in Name : named(t, "link", n, m)
          \/ Resume(t) /\ UNCHANGED calls
          \/ \E fd \in Fd : sys_close(t, fd) /\ UNCHANGED calls
          \/ \E u \in Task : task_fork(t, u)

FileSystemSpec == FileSystemInit /\ [][FileSystemNext]_vars

-----------------------------------------------------------------------------
\* The users of slot s: calls that will give it back (as the first or second
\* inode that they hold), open files, and processes whose directory it is.
Holds(s) == {x \in Task \X (1..2) : x[2] \in DOMAIN held[x[1]] /\ held[x[1]][x[2]] = s}
OpenOn(s) == {f \in File : file[f].count > 0 /\ file[f].inode = s}
WorksIn(s) == {t \in live : ipwd[t] = s}

\* The super block and every process hold the root.
Roots(s) == IF s = Root THEN 2 + Cardinality(live) ELSE 0

Descriptors(f) == {x \in Task \X Fd : files[x[1]][x[2]] = f}

(***************************************************************************)
(* inode->count is the number of users of the slot, whatever calls are on  *)
(* their way: calls that will give it back, open files, processes in it,   *)
(* and for the root also the super block and every process.  file->count   *)
(* is the number of descriptors, over fork.                                *)
(***************************************************************************)
CountsReferences ==
    /\ \A s \in Inode \cup {Root} :
          inode[s].count = Cardinality(Holds(s)) + Cardinality(OpenOn(s))
                              + Cardinality(WorksIn(s)) + Roots(s)
    /\ \A f \in File : file[f].count = Cardinality(Descriptors(f))

(***************************************************************************)
(* An inode is in one slot: tasks that use one file use one descriptor.    *)
(* (Number 0 is what rmdir leaves in a slot that others still use.)        *)
(***************************************************************************)
OneDescriptor ==
    \A s1, s2 \in Inode \cup {Root} :
       s1 # s2 /\ inode[s1].count > 0 /\ inode[s2].count > 0
          => inode[s1].nr # inode[s2].nr \/ inode[s1].nr = 0
=============================================================================
