--------------------------- MODULE AbstractFiles ---------------------------
(***************************************************************************)
(* What the blocks of the disk are for: every file is a text of its own.   *)
(* A write replaces a piece of one text and may make it longer, a file is  *)
(* emptied as a whole, and nothing else ever changes a text.               *)
(***************************************************************************)
EXTENDS Integers

CONSTANTS
    Inode,
    MaxSize,        \* bound: the length of a text
    Written(_, _)   \* what a file has at a position once that is written

VARIABLES
    text,       \* the cells of every file, 0 where nothing was written
    length

fileVars == <<text, length>>

Blank == [p \in 0..(MaxSize - 1) |-> 0]

FilesInit == text = [i \in Inode |-> Blank] /\ length = [i \in Inode |-> 0]

\* The cells from..to-1 of file i, for some from and to.
Write(i) ==
    LET old == text[i]
        new == text'[i]
    IN  /\ \E from, to \in 0..MaxSize :
              /\ from < to
              /\ length' = [length EXCEPT ![i] = IF to > @ THEN to ELSE @]
              /\ \A p \in DOMAIN old :
                    new[p] = IF p \in from..(to - 1) THEN Written(i, p) ELSE old[p]
        /\ text' = [text EXCEPT ![i] = [p \in DOMAIN old |-> new[p]]]

Empty(i) ==
    /\ text' = [text EXCEPT ![i] = Blank]
    /\ length' = [length EXCEPT ![i] = 0]

FilesNext == \E i \in Inode : Empty(i) \/ Write(i)

FilesSpec == FilesInit /\ [][FilesNext]_fileVars
=============================================================================
