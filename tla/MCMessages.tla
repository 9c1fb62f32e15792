----------------------------- MODULE MCMessages -----------------------------
(***************************************************************************)
(* Values of the constants of Messages for TLC.  A byte has 64 values, so  *)
(* that numbers of four bytes are numbers of TLC.  The names are "ab",     *)
(* the longer "xyz" and "uvw", "abz", which is also what "ab" copied over  *)
(* "xyz" gives, the empty one and one that is too long; identifiers hold   *)
(* zero bytes.                                                             *)
(***************************************************************************)
EXTENDS Messages

Names       == {<<1, 2>>, <<7, 8, 9>>, <<5, 6, 4>>, <<1, 2, 9>>, << >>,
                <<1, 1, 1, 1>>}
File        == <<5, 6>>
Identifiers == {<<0, 13>>, <<10, 0>>, <<63, 1>>}
=============================================================================
