------------------------------ MODULE MCSystem ------------------------------
(***************************************************************************)
(* Values of the constants of System for TLC.  Clients, names and contents *)
(* are model values; the functions from clients to names and files are     *)
(* given here.                                                             *)
(***************************************************************************)
EXTENDS SystemInvariants

CONSTANTS c1, c2, n1, n2, f1, plain, escape

TwoClients    == {c1, c2}
OneClient     == {c1}
DistinctNames == [c \in Client |-> IF c = c1 THEN n1 ELSE n2]
SharedName    == [c \in Client |-> n1]
SameFile      == [c \in Client |-> f1]
PlainOnly     == {plain}
TwoContents   == {plain, escape}
Escape        == {escape}
OneRun        == [c \in Client |-> 1]
TwoRuns       == [c \in Client |-> 2]
FourRuns      == [c \in Client |-> 4]
TwoAndOneRun  == [c \in Client |-> IF c = c1 THEN 2 ELSE 1]
ThreeAndOneRun == [c \in Client |-> IF c = c1 THEN 3 ELSE 1]
FirstClient   == {c1}
None          == {}
=============================================================================
