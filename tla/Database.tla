------------------------------ MODULE Database ------------------------------
(***************************************************************************)
(* database_manager.py: the two tables of defensive.db as values, and each *)
(* of its functions as an operator from the table before the statement to  *)
(* the table after it, or to the row that a SELECT finds.                  *)
(*                                                                         *)
(* clients is a function from the primary key ID to the rest of the row;   *)
(* the constraint Name UNIQUE is kept by RegisterClient.  files is a set   *)
(* of rows, since that table has no key.  LastSeen is never used, and a    *)
(* PathName is always the directory of FileName joined with ID.            *)
(***************************************************************************)
EXTENDS Protocol

Row == [name : {NameOf[c] : c \in Client}, pk : Pair, aes : Nat]

NoClients == [id \in {} |-> [name |-> "", pk |-> NoPair, aes |-> 0]]
NoFiles   == {}

HasName(clients, name) == \E id \in DOMAIN clients : clients[id].name = name

(***************************************************************************)
(* The clients table.                                                      *)
(***************************************************************************)
RegisterClient(clients, id, name) ==
    [i \in DOMAIN clients \cup {id} |->
        IF i = id THEN [name |-> name, pk |-> NoPair, aes |-> 0]
                  ELSE clients[i]]

\* An UPDATE whose WHERE clause matches no row changes nothing.
UpdatePublicKey(clients, id, pair) ==
    [i \in DOMAIN clients |->
        IF i = id THEN [clients[i] EXCEPT !.pk = pair] ELSE clients[i]]

\* MUTANT of UpdateAESKey: only the zero key of a new row is replaced.
UpdateFirstAESKey(clients, id, aes) ==
    [i \in DOMAIN clients |->
        IF i = id /\ clients[i].aes = 0
        THEN [clients[i] EXCEPT !.aes = aes] ELSE clients[i]]

UpdateAESKey(clients, id, aes) ==
    [i \in DOMAIN clients |->
        IF i = id THEN [clients[i] EXCEPT !.aes = aes] ELSE clients[i]]

\* 0 stands for the empty byte string that means "no such name".
GetIdByName(clients, name) ==
    IF HasName(clients, name)
    THEN CHOOSE id \in DOMAIN clients : clients[id].name = name
    ELSE 0

\* MUTANT of DeleteClientByName: the comparison of the WHERE clause is inverted.
DeleteOtherClients(clients, name) ==
    [id \in {i \in DOMAIN clients : clients[i].name = name} |-> clients[id]]

DeleteClientByName(clients, name) ==
    [id \in {i \in DOMAIN clients : clients[i].name # name} |-> clients[id]]

HasAESKey(clients, id) == id \in DOMAIN clients

(***************************************************************************)
(* The files table.  The first parameter is stored in the column ID, the   *)
(* second in the column FileName.                                          *)
(***************************************************************************)
InsertFileRecord(files, id, fileName) ==
    files \cup {[id |-> id, fileName |-> fileName, verified |-> FALSE]}

VerifyFileByClientId(files, clientId) ==
    {IF row.id = clientId THEN [row EXCEPT !.verified = TRUE] ELSE row :
        row \in files}
=============================================================================
