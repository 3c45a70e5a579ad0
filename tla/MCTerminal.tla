----------------------------- MODULE MCTerminal -----------------------------
(***************************************************************************)
(* Instances of the terminal.                                              *)
(***************************************************************************)
EXTENDS Terminal

SomeLetters == {32, 97, 255}
SomeSecrets == {115}
=============================================================================
