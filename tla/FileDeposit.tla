----------------------------- MODULE FileDeposit -----------------------------
(***************************************************************************)
(* What the two programs promise together, without a protocol: a client    *)
(* takes its file for delivered only when the disk holds it under the      *)
(* client's account, and until the client leaves nobody writes there.  An  *)
(* account holds one file, for uploads under bare file names.              *)
(***************************************************************************)
EXTENDS Naturals

CONSTANTS Client, Content, NoContent

VARIABLES
    phase,    \* phase[c]: "idle", "busy", or "delivered"
    account,  \* account[c]: the number of the account of c, 0 if it has none
    file,     \* file[c]: what c has sent last
    disk      \* disk[a]: what is stored for account a

vars == <<phase, account, file, disk>>

OthersWait(c) ==
    \A d \in Client \ {c} : /\ phase'[d] = phase[d]
                            /\ account'[d] = account[d]
                            /\ file'[d] = file[d]

Init ==
    /\ phase = [c \in Client |-> "idle"]
    /\ account = [c \in Client |-> 0]
    /\ file = [c \in Client |-> NoContent]
    /\ DOMAIN disk = {}

\* A client begins, is given an account, chooses what it sends.
Work(c) ==
    /\ phase[c] \in {"idle", "busy"}
    /\ phase'[c] = "busy"
    /\ account'[c] \in Nat
    /\ file'[c] \in Content \cup {NoContent}
    /\ OthersWait(c)
    /\ UNCHANGED disk

\* The client learns that its file is there.
Deliver(c) ==
    /\ phase[c] = "busy"
    /\ account[c] \in DOMAIN disk
    /\ disk[account[c]] = file[c]
    /\ phase'[c] = "delivered"
    /\ account'[c] = account[c]
    /\ file'[c] = file[c]
    /\ OthersWait(c)
    /\ UNCHANGED disk

Leave(c) ==
    /\ phase'[c] = "idle"
    /\ account'[c] = 0
    /\ file'[c] = NoContent
    /\ OthersWait(c)
    /\ UNCHANGED disk

\* Something is stored for an account whose client has no delivery to report.
Put(a) ==
    /\ \A c \in Client : account[c] = a => phase[c] # "delivered"
    /\ DOMAIN disk' = DOMAIN disk \cup {a}
    /\ \A b \in DOMAIN disk \ {a} : disk'[b] = disk[b]
    /\ UNCHANGED <<phase, account, file>>

Next == \/ \E c \in Client : Work(c) \/ Deliver(c) \/ Leave(c)
        \/ \E a \in DOMAIN disk' : Put(a)

Spec == Init /\ [][Next]_vars
=============================================================================
