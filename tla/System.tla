------------------------------- MODULE System -------------------------------
(***************************************************************************)
(* The whole system: any number of client programs and one server, the     *)
(* connections between them, and an environment that starts, kills and     *)
(* restarts processes.                                                     *)
(***************************************************************************)
EXTENDS Client, Server

vars == <<netVars, clientVars, serverVars>>

Init == NetInit /\ ClientInit /\ ServerInit

ClientNext(c) == (ClientSteps(c) \/ ClientEvents(c)) /\ UNCHANGED serverVars

ServerNext == (ServerSteps \/ ServerEvents) /\ UNCHANGED clientVars

\* Every client has exited for good and the server waits in accept().
Rest ==
    /\ \A c \in Client : pc[c] = "off"
    /\ listening
    /\ queue = << >>
    /\ UNCHANGED vars

\* A client and the server wait for each other, and everyone else for them.
Hang == step = "blocked" /\ UNCHANGED vars

Next == (\E c \in Client : ClientNext(c)) \/ ServerNext \/ Rest \/ Hang

Spec == Init /\ [][Next]_vars

\* A running process is scheduled; nobody has to start or restart one.
Fairness ==
    /\ \A c \in Client : WF_vars(ClientSteps(c) /\ UNCHANGED serverVars)
    /\ WF_vars(ServerSteps /\ UNCHANGED clientVars)

FairSpec == Spec /\ Fairness

-----------------------------------------------------------------------------
\* Every variable has its type, and a handler only runs for a connection.
TypeOK == NetTypeOK /\ ClientTypeOK /\ ServerTypeOK

\* The client has decrypted the AES key of this session.
InSession(c) == pc[c] \in {"upload", "repeat", "report", "fatal"}

(***************************************************************************)
(* The hybrid key exchange, for clients with names of their own and a      *)
(* sqlite that works.                                                      *)
(***************************************************************************)
\* Once a client has decrypted its AES key, the server's row for the client's
\* identifier, if it has one, holds that key and no other: no request that an
\* earlier run of the client, or another client, left in the queue of
\* server.py's accept loop has replaced it (826 and 827 against 828).
KeyAgreement ==
    \A c \in Client :
        InSession(c) /\ mem[c].id \in DOMAIN clients =>
            clients[mem[c].id].aes = mem[c].aes

\* The private key in me.info always belongs to the public key in the server's
\* row for the identifier in me.info, if there is such a row, so that an answer
\* 1605 to a reconnection can be decrypted, after any crash of either side.
KeyPairAgreement ==
    \A c \in Client :
        me[c].pair # NoPair /\ me[c].id \in DOMAIN clients =>
            clients[me[c].id].pk = me[c].pair

\* A denied reconnection deletes the row of its user name (827 in
\* reconnect_AEA_key_response.py): that row is one no client remembers, left by
\* a registration whose answer was lost or by a database since replaced.
DenialsDeleteOrphans ==
    [][\A id \in DOMAIN clients :
          listening /\ id \notin DOMAIN clients' =>
              \A c \in Client : me[c].id # id]_vars

\* The row of a client that has decrypted its AES key stays until the client has
\* ended, unless the server is restarted without defensive.db: no 827, not one
\* that an earlier run of it or another client left in the backlog, gets it
\* deleted (delete_client_by_name in reconnect_AEA_key_response.py).
SessionRowSurvives ==
    [][\A c \in Client :
          InSession(c) /\ listening /\ mem[c].id \in DOMAIN clients =>
              mem[c].id \in DOMAIN clients']_vars

(***************************************************************************)
(* For clients with any names.                                             *)
(***************************************************************************)
\* One column of the row is the identifier, the other one the file name.
Names(row, id, fileName) == {row.id, row.fileName} = {id, fileName}

\* A client that saw the right checksum (and reports 900) has its file, as it
\* read it last, on the server's disk: whatever was retried, repeated by an
\* earlier run, truncated by a crash or refused in between.
DeliveredIsStored ==
    \A c \in Client :
        pc[c] = "report" =>
            /\ mem[c].id \in DOMAIN store
            /\ store[mem[c].id] = mem[c].sent

\* ... and the server's database, unless it was replaced since and does not know
\* the client any more, has a row that names the client and the file: an upload
\* whose record was not committed is answered 1607.  Which column has which of
\* the two is left open; AcceptedIsVerified depends on it.
DeliveredIsRecorded ==
    \A c \in Client :
        pc[c] = "report" /\ mem[c].id \in DOMAIN clients =>
            \E row \in files : Names(row, mem[c].id, FileOf[c])

\* What the protocol is for: the clients and the server together implement the
\* deposit of files.  A 900 is sent only by a client whose file was on the disk
\* when it compared the checksums, and until that client has left, no request
\* in the backlog of the accept loop, its own older ones included, writes in
\* its directory again.
Deposit == INSTANCE FileDeposit WITH
    phase   <- [c \in Client |-> CASE pc[c] = "off"    -> "idle"
                                 [] pc[c] = "report" -> "delivered"
                                 [] OTHER            -> "busy"],
    account <- [c \in Client |-> mem[c].id],
    file    <- [c \in Client |-> mem[c].sent],
    disk    <- store

DepositsFiles == Deposit!Spec

(***************************************************************************)
(* Liveness.                                                               *)
(***************************************************************************)
\* Every run of the client program ends, though it has no timeout: an answer,
\* the end of the connection or a refused connection always comes, and the
\* retries of registration and upload are bounded.  The one thing that can hold
\* up a run is an upload that waits for its client, its own or another one's.
RunEnds == \A c \in Client : pc[c] # "off" ~> pc[c] = "off" \/ step = "blocked"

\* As long as nothing fails, and with names of their own, every run, the first
\* one and the reconnections, gets its file delivered and reported.
EveryRunDelivers == \A c \in Client : pc[c] # "off" ~> pc[c] = "report" \/ faults > 0

(***************************************************************************)
(* What the README says and the code does not do.                          *)
(***************************************************************************)
\* README.md:200: when the client reports the right checksum, the server
\* accepts and changes Verified to 1: at the answer to 900 a record of the
\* sender is verified, whichever of the two columns its identifier is in.
AcceptedIsVerified ==
    step = "answer" /\ Served.code = CORRECT_CRC_CODE =>
        \E row \in files : row.verified /\ Sender \in {row.id, row.fileName}

\* README.md:206: the server waits for requests and handles them: it goes down
\* only when it is killed.
ServerStaysUp == [][listening /\ ~listening' => faults' > faults]_vars

\* README.md:193: handle_file_sending_request answers with the checksum: an
\* upload that is stored as it was sent is answered with its checksum.
StoredIsAcknowledged ==
    /\ step = "answer"
    /\ Served.code = FILE_SENDING_REQUEST_CODE
    /\ Sender \in DOMAIN store
    /\ store[Sender] = Served.cipher.plain
    => answer.code = CORRECT_CRC_CODE_RESPONSE
=============================================================================
