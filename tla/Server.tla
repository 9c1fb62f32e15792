------------------------------- MODULE Server -------------------------------
(***************************************************************************)
(* The server program: one thread that accepts a connection, receives one  *)
(* request, serves it to the end and accepts the next one.  A handler is   *)
(* split where it commits to defensive.db or to the file system, because   *)
(* that is what a crash between two steps leaves behind; everything it     *)
(* does between two commits is one action.                                 *)
(*                                                                         *)
(* An exception that no handler catches ends the process.                  *)
(*                                                                         *)
(* The file name of an upload is taken to be a bare name, so that          *)
(* os.path.join leads into the directory hex(id)/ of its sender.           *)
(***************************************************************************)
EXTENDS Database

VARIABLES
    step,     \* where the handler of the request at Head(queue) has got to
    answer,   \* the response it is building
    clients,  \* the table clients of defensive.db
    files,    \* the table files of defensive.db
    store,    \* store[id]: the file that client id uploaded, under hex(id)/
    drawn     \* how many identifiers and AES keys were drawn so far

serverVars == <<step, answer, clients, files, store, drawn>>

Step == {"ready", "keyed", "blocked", "opened", "written", "answer"}

\* Neither column of files has a constraint on what is stored in it.
Column  == Nat \cup {FileOf[c] : c \in Client}
FileRow == [id : Column, fileName : Column, verified : BOOLEAN]

ServerTypeOK ==
    /\ step \in Step
    /\ step # "ready" => queue # << >>
    /\ answer \in Reply
    /\ step \in {"opened", "written"} => answer.sum \in Content \cup {Garbage}
    /\ DOMAIN clients \subseteq Nat
    /\ \A id \in DOMAIN clients : clients[id] \in Row
    /\ files \subseteq FileRow
    /\ DOMAIN store \subseteq Nat
    /\ \A id \in DOMAIN store : store[id] \in Content \cup {Garbage, Truncated}
    /\ drawn \in Nat

NoAnswer == Bare(NOT_CONNECTED)

ServerInit ==
    /\ step = "ready"
    /\ answer = NoAnswer
    /\ clients = NoClients
    /\ files = NoFiles
    /\ store = [id \in {} |-> Truncated]
    /\ drawn = 0

(***************************************************************************)
(* Control.                                                                *)
(***************************************************************************)
Served == Head(queue)
Name   == NameOf[Served.from]
Sender == Served.id

\* The user name, or the file name, that the handler decodes is not UTF-8.
Undecodable(request) ==
    \/ /\ request.code \in {REGISTRATION_REQUEST_CODE, RECONNECT_REQUEST_CODE,
                           PUBLIC_KEY_SENDING_REQUEST_CODE}
       /\ request.from \in BadName
    \/ /\ request.code \in {FILE_SENDING_REQUEST_CODE, CORRECT_CRC_CODE,
                           FATA_ERROR_CODE}
       /\ request.from \in BadFile

\* The main loop has accepted a connection.
Accepted == listening /\ step = "ready" /\ queue # << >>

\* A whole request with this code was received and decoded.
Serve(code) == Accepted /\ Served.code = code /\ ~Undecodable(Served)

\* The handler goes on to its step next, or to sending its response.
Goto(next, reply) == step' = next /\ answer' = reply

Answer(reply) == Goto("answer", reply)

NoFault == UNCHANGED faults

connVars == <<listening, queue, inbox, runs>>

\* The handler is left by an exception and the process ends with it; the
\* operating system closes or resets the connection.
Die(reply) ==
    /\ ServerStops(reply)
    /\ step' = "ready"
    /\ answer' = NoAnswer
    /\ UNCHANGED runs

\* The connection is closed without a response.
Close(reply) ==
    /\ Finish(reply)
    /\ step' = "ready"
    /\ answer' = NoAnswer
    /\ UNCHANGED <<listening, runs>>

Dropped == {Bare(RESET), Bare(EOF)}

(***************************************************************************)
(* 825.  A name that is taken is refused by the constraint UNIQUE; any     *)
(* other error of sqlite is not caught.                                    *)
(***************************************************************************)
\* MUTANT of Register: a name that is taken gets the identifier of its row.
RegisterAgain ==
    /\ Serve(REGISTRATION_REQUEST_CODE)
    /\ IF HasName(clients, Name)
       THEN UNCHANGED <<drawn, clients>>
       ELSE drawn' = drawn + 1 /\ clients' = RegisterClient(clients, drawn', Name)
    /\ Answer([Bare(REGISTRATION_WAS_SUCCESS_CODE)
                   EXCEPT !.id = GetIdByName(clients', Name)])
    /\ NoFault
    /\ UNCHANGED <<connVars, files, store>>

Register ==
    /\ Serve(REGISTRATION_REQUEST_CODE)
    /\ ~HasName(clients, Name)
    /\ drawn' = drawn + 1
    /\ clients' = RegisterClient(clients, drawn', Name)
    /\ Answer([Bare(REGISTRATION_WAS_SUCCESS_CODE) EXCEPT !.id = drawn'])
    /\ NoFault
    /\ UNCHANGED <<connVars, files, store>>

RefuseName ==
    /\ Serve(REGISTRATION_REQUEST_CODE)
    /\ HasName(clients, Name)
    /\ Answer(Bare(REGISTRATION_WAS_FAILED_CODE))
    /\ NoFault
    /\ UNCHANGED <<connVars, clients, files, store, drawn>>

RegisterRaises ==
    /\ Serve(REGISTRATION_REQUEST_CODE)
    /\ Fault("db")
    /\ \E reply \in Dropped : Die(reply)
    /\ UNCHANGED <<clients, files, store, drawn>>

(***************************************************************************)
(* 826.  The row is found by the name, whatever the identifier in the      *)
(* header; the results of the two updates are not looked at.               *)
(***************************************************************************)
SavePublicKey ==
    /\ Serve(PUBLIC_KEY_SENDING_REQUEST_CODE)
    /\ \E id \in {GetIdByName(clients, Name), 0} :
         /\ \/ /\ id = GetIdByName(clients, Name)
               /\ clients' = UpdatePublicKey(clients, id, Served.pair)
               /\ NoFault
            \/ Fault("db") /\ UNCHANGED clients  \* the SELECT or the UPDATE
         /\ Goto("keyed", WithKey(PRIVATE_KEY_ENCRYPTION_CODE, id, 0,
                                 Served.pair))
    /\ UNCHANGED <<connVars, files, store, drawn>>

SaveAESKey ==
    /\ listening
    /\ step = "keyed"
    /\ drawn' = drawn + 1
    /\ \/ clients' = UpdateAESKey(clients, answer.id, drawn') /\ NoFault
       \/ Fault("db") /\ UNCHANGED clients
    /\ Answer([answer EXCEPT !.aes = drawn'])
    /\ UNCHANGED <<connVars, files, store>>

(***************************************************************************)
(* 827.  A row that does not fit the request is deleted, and the request   *)
(* denied.                                                                 *)
(***************************************************************************)
\* MUTANT of IsValidRSAPublicKey: the format of the key is never accepted.
NeverValidKey(pair) == FALSE

IsValidRSAPublicKey(pair) == pair # NoPair

Recognised ==
    /\ HasName(clients, Name)
    /\ GetIdByName(clients, Name) = Sender
    /\ IsValidRSAPublicKey(clients[Sender].pk)

Rekey ==
    /\ Serve(RECONNECT_REQUEST_CODE)
    /\ Recognised
    /\ drawn' = drawn + 1
    /\ \/ clients' = UpdateAESKey(clients, Sender, drawn') /\ NoFault
       \/ Fault("db") /\ UNCHANGED clients
    /\ Answer(WithKey(RECONNECT_ACCEPTED, Sender, drawn', clients[Sender].pk))
    /\ UNCHANGED <<connVars, files, store>>

Deny ==
    /\ Serve(RECONNECT_REQUEST_CODE)
    /\ \/ /\ ~Recognised
          /\ clients' = DeleteClientByName(clients, Name)
          /\ NoFault
       \/ Fault("db") /\ UNCHANGED clients   \* the SELECT or the DELETE fails
    /\ Answer([Bare(RECONNECT_DENIED) EXCEPT !.id = Sender])
    /\ UNCHANGED <<connVars, files, store, drawn>>

(***************************************************************************)
(* 828.                                                                    *)
(***************************************************************************)
Write(content) ==
    store' = [id \in DOMAIN store \cup {Sender} |->
                IF id = Sender THEN content ELSE store[id]]

\* A recv() returns part of a packet of an upload that has several: the handler
\* may come to wait for bytes it has taken already, and the client waits for the
\* answer (FileUpload shows how).
Block ==
    /\ Serve(FILE_SENDING_REQUEST_CODE)
    /\ Fault("short")
    /\ Goto("blocked", NoAnswer)
    /\ UNCHANGED <<connVars, clients, files, store, drawn>>

\* The client's process has ended: the recv() returns nothing, and the handler
\* goes on with part of the cipher.
Unblocked == listening /\ step = "blocked" /\ ~Live(Served)

\* There is no key for this identifier: 1607 is sent and the connection closed,
\* and the handler goes on to decrypt with an empty key, catches the error and
\* sends on the closed connection, which ends the process.
UnknownSender ==
    /\ Serve(FILE_SENDING_REQUEST_CODE) \/ Unblocked
    /\ \/ ~HasAESKey(clients, Sender) /\ NoFault
       \/ Fault("db")
    /\ Die(Bare(GENERAL_ERROR_CODE))
    /\ UNCHANGED <<clients, files, store, drawn>>

\* The key of the sender does not open the cipher, or part of the cipher is
\* missing; the decryption of such a cipher may still pass the test of its
\* padding by chance.
WrongCipher ==
    /\ Serve(FILE_SENDING_REQUEST_CODE) \/ Unblocked
    /\ HasAESKey(clients, Sender)
    /\ \/ step = "blocked" /\ NoFault
       \/ step = "ready" /\ clients[Sender].aes # Served.cipher.aes /\ NoFault
       \/ step = "ready" /\ Fault("short")

RightCipher ==
    /\ Serve(FILE_SENDING_REQUEST_CODE)
    /\ HasAESKey(clients, Sender)
    /\ clients[Sender].aes = Served.cipher.aes

RejectCipher ==
    /\ WrongCipher
    /\ Answer(Bare(GENERAL_ERROR_CODE))
    /\ UNCHANGED <<connVars, clients, files, store, drawn>>

\* open(file_path, 'wb') empties the file.
OpenFile ==
    /\ \E content \in Content \cup {Garbage} :
         /\ \/ RightCipher /\ content = Served.cipher.plain /\ NoFault
            \/ WrongCipher /\ content = Garbage
         /\ Goto("opened",
                 [Bare(CORRECT_CRC_CODE_RESPONSE) EXCEPT !.sum = content])
    /\ Write(Truncated)
    /\ UNCHANGED <<connVars, clients, files, drawn>>

WriteFile ==
    /\ listening
    /\ step = "opened"
    /\ Write(answer.sum)
    /\ Goto("written", answer)
    /\ NoFault
    /\ UNCHANGED <<connVars, clients, files, drawn>>

\* MUTANT of DiskFails: an error of write() is swallowed.
WriteErrorIgnored ==
    /\ listening /\ step = "opened"
    /\ Fault("disk")
    /\ Goto("written", answer)
    /\ UNCHANGED <<connVars, clients, files, store, drawn>>

\* makedirs() or open() raises, or write() does on the emptied file.
DiskFails ==
    /\ \/ RightCipher
       \/ listening /\ step = "opened"
    /\ Fault("disk")
    /\ Answer(Bare(GENERAL_ERROR_CODE))
    /\ UNCHANGED <<connVars, clients, files, store, drawn>>

(***************************************************************************)
(* The record is committed, the response built, and the content printed    *)
(* through decode('unicode_escape'), all in one try.  The parameters of    *)
(* insert_file_record are id and fileName, in this order.                  *)
(***************************************************************************)
InsertRecord ==
    files' = InsertFileRecord(files, FileOf[Served.from], Sender)

RecordFile ==
    /\ listening
    /\ step = "written"
    /\ answer.sum \notin Unprintable
    /\ InsertRecord
    /\ Answer(answer)
    /\ NoFault
    /\ UNCHANGED <<connVars, clients, store, drawn>>

\* The content is stored and recorded, but printing it raises.
PrintRaises ==
    /\ listening
    /\ step = "written"
    /\ answer.sum \in Unprintable \cup {Garbage}
    /\ InsertRecord
    /\ Answer(Bare(GENERAL_ERROR_CODE))
    /\ NoFault
    /\ UNCHANGED <<connVars, clients, store, drawn>>

\* MUTANT of RecordRaises: an error of insert_file_record is swallowed, as the
\* other functions of database_manager.py do.
RecordErrorIgnored ==
    /\ listening
    /\ step = "written"
    /\ Fault("db")
    /\ Answer(answer)
    /\ UNCHANGED <<connVars, clients, files, store, drawn>>

RecordRaises ==
    /\ listening
    /\ step = "written"
    /\ Fault("db")
    /\ Answer(Bare(GENERAL_ERROR_CODE))
    /\ UNCHANGED <<connVars, clients, files, store, drawn>>

(***************************************************************************)
(* 900 and 902 are answered with 1604.  901 belongs to no branch of the    *)
(* main loop, which closes the connection with its payload unread.         *)
(***************************************************************************)
Verify ==
    /\ Serve(CORRECT_CRC_CODE)
    /\ \/ files' = VerifyFileByClientId(files, Sender) /\ NoFault
       \/ Fault("db") /\ UNCHANGED files
    /\ Answer([Bare(ACCEPT_CODE) EXCEPT !.id = Sender])
    /\ UNCHANGED <<connVars, clients, store, drawn>>

AcknowledgeFatal ==
    /\ Serve(FATA_ERROR_CODE)
    /\ Answer([Bare(ACCEPT_CODE) EXCEPT !.id = Sender])
    /\ NoFault
    /\ UNCHANGED <<connVars, clients, files, store, drawn>>

IgnoreRepeat ==
    /\ Serve(INCORRECT_CRC_CODE_REPEAT)
    /\ Close(Bare(RESET))
    /\ NoFault
    /\ UNCHANGED <<clients, files, store, drawn>>

(***************************************************************************)
(* The end of a request, and failures of any request.                      *)
(***************************************************************************)
SendAnswer ==
    /\ listening
    /\ step = "answer"
    /\ Close(answer)
    /\ NoFault
    /\ UNCHANGED <<clients, files, store, drawn>>

\* Less than a whole header or payload was received and the handler returns.
ShortRequest ==
    /\ Accepted
    /\ Fault("short")
    /\ \E reply \in Dropped : Close(reply)
    /\ UNCHANGED <<clients, files, store, drawn>>

\* A name cannot be decoded, or the first packet of an upload is so short that
\* a field of it cannot be unpacked.
DecodeRaises ==
    /\ Accepted
    /\ \/ Undecodable(Served) /\ NoFault
       \/ Served.code = FILE_SENDING_REQUEST_CODE /\ Fault("short")
    /\ \E reply \in Dropped : Die(reply)
    /\ UNCHANGED <<clients, files, store, drawn>>

\* recv() or send() raises because the process at the other end is gone.
PeerReset ==
    /\ Accepted \/ (listening /\ step \in {"blocked", "answer"})
    /\ ~Live(Served)
    /\ Die(Bare(RESET))
    /\ NoFault
    /\ UNCHANGED <<clients, files, store, drawn>>

Crash ==
    /\ listening
    /\ Fault("crash")
    /\ \E reply \in Dropped : Die(reply)
    /\ UNCHANGED <<clients, files, store, drawn>>

\* The server is started again; init_db() keeps the tables that exist, and
\* creates empty ones if defensive.db is gone.
StartServer ==
    /\ ~listening
    /\ listening' = TRUE
    /\ \/ UNCHANGED <<clients, files>> /\ NoFault
       \/ clients' = NoClients /\ files' = NoFiles /\ Fault("fresh_db")
    /\ UNCHANGED <<queue, inbox, runs, step, answer, store, drawn>>

ServerSteps ==
    \/ Register \/ RefuseName \/ RegisterRaises
    \/ SavePublicKey \/ SaveAESKey
    \/ Rekey \/ Deny
    \/ Block \/ UnknownSender \/ RejectCipher \/ OpenFile \/ WriteFile
    \/ RecordFile \/ PrintRaises \/ RecordRaises \/ DiskFails
    \/ Verify \/ AcknowledgeFatal \/ IgnoreRepeat
    \/ SendAnswer \/ ShortRequest \/ DecodeRaises \/ PeerReset

ServerEvents == Crash \/ StartServer
=============================================================================
