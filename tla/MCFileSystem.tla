---------------------------- MODULE MCFileSystem ----------------------------
(***************************************************************************)
(* FileSystem for TLC: no name is named by the definitions.                *)
(***************************************************************************)
EXTENDS FileSystem, TLC

NamesAlike == Permutations(Name)
=============================================================================
