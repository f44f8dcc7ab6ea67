----------------------------- MODULE MCKeyboard -----------------------------
(***************************************************************************)
(* The instance of Keyboard for TLC.                                       *)
(***************************************************************************)
EXTENDS Keyboard, TLC

\* Capslock and the two keys of make code 0x53: the point of the pad, and
\* Delete, which is extended.
SomeKeys == {<<"CAPSLOCK", FALSE>>, <<"POINT", FALSE>>, <<"POINT", TRUE>>}

SomeVisible == {<<"POINT", 0>>, <<"POINT", 1>>}

Readers == Permutations(Task \ {Idle})
=============================================================================
