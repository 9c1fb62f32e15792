-------------------------- MODULE SystemInvariants --------------------------
(***************************************************************************)
(* The inductive invariants behind the properties of System: why an upload *)
(* that a client takes for delivered cannot be overwritten before it is    *)
(* reported, why it has a record, and why client and server keep agreeing  *)
(* on their keys.                                                          *)
(*                                                                         *)
(* A request that a killed run left behind is older in the queue than any  *)
(* request of a later run, so it has been served before the later run gets *)
(* its first answer; and no other client sends a request under the same    *)
(* identifier.                                                             *)
(***************************************************************************)
EXTENDS System

\* The request at position k was sent by c; by the run of c that goes on now.
Mine(c, k)    == queue[k].from = c
Current(c, k) == queue[k].from = c /\ queue[k].run = runs[c]

\* The client has had an answer in this run.
Settled(c) == \/ pc[c] \in {"key", "upload", "repeat", "report", "fatal"}
              \/ inbox[c].code \notin {NOT_CONNECTED, WAITING}

\* Requests of one client are queued in the order of its runs, one of a run.
RunsInOrder ==
    /\ \A k \in DOMAIN queue : queue[k].run <= runs[queue[k].from]
    /\ \A j, k \in DOMAIN queue :
          j < k /\ queue[j].from = queue[k].from => queue[j].run < queue[k].run

\* The running process has a request in the queue just when it waits, and once
\* it has had an answer, nothing older is there.
NothingStale ==
    \A c \in Client :
        /\ pc[c] # "off" =>
              ((\E k \in DOMAIN queue : Current(c, k))
                  <=> inbox[c].code = WAITING)
        /\ Settled(c) => \A k \in DOMAIN queue : Mine(c, k) => Current(c, k)

\* What the request of the running process says about the process.
RequestMatches ==
    \A c \in Client : \A k \in DOMAIN queue :
        pc[c] # "off" /\ Current(c, k) =>
            /\ queue[k].id = mem[c].id
            /\ queue[k].code = FILE_SENDING_REQUEST_CODE => pc[c] = "upload"

QueueOrder == RunsInOrder /\ NothingStale /\ RequestMatches

\* The identifier that a response gives to a new user, or 0.
Granted(reply) ==
    IF reply.code = REGISTRATION_WAS_SUCCESS_CODE THEN reply.id ELSE 0

\* The identifiers that client c knows or is being given, and those under which
\* requests of it, of any run, are in the queue.
IdsOf(c) ==
    ( { me[c].id, mem[c].id, Granted(inbox[c]),
        IF step = "answer" /\ Mine(c, 1) THEN Granted(answer) ELSE 0 }
      \cup {queue[k].id : k \in {j \in DOMAIN queue : Mine(c, j)}} ) \ {0}

\* Identifiers are drawn once, and two clients never use the same one.
OwnIds ==
    \A c \in Client :
        /\ IdsOf(c) \subseteq 1 .. drawn
        /\ \A d \in Client : d # c => IdsOf(c) \cap IdsOf(d) = {}

\* A process that is past its registration has an identifier.
HasId ==
    /\ \A c \in Client :
         /\ pc[c] \notin {"off", "register"} => mem[c].id # 0
         /\ inbox[c].code = REGISTRATION_WAS_SUCCESS_CODE => inbox[c].id # 0
    /\ step = "answer" /\ answer.code = REGISTRATION_WAS_SUCCESS_CODE =>
         answer.id # 0

\* The response that a handler builds is a response, and a response 1603 names
\* what is on the disk by then.
AnswerMatches ==
    /\ step \in {"opened", "written"} =>
         /\ Served.code = FILE_SENDING_REQUEST_CODE
         /\ answer.code = CORRECT_CRC_CODE_RESPONSE
    /\ step = "blocked" => Served.code = FILE_SENDING_REQUEST_CODE
    /\ step = "keyed" => answer.code = PRIVATE_KEY_ENCRYPTION_CODE
    /\ step = "answer" => answer.code \notin {NOT_CONNECTED, WAITING}
    /\ \/ step = "written"
       \/ step = "answer" /\ answer.code = CORRECT_CRC_CODE_RESPONSE
       => Sender \in DOMAIN store /\ store[Sender] = answer.sum

\* From the arrival of its checksum on, an upload is what is on the disk.
ChecksumMatches ==
    \A c \in Client :
        pc[c] = "upload" /\ inbox[c].code = CORRECT_CRC_CODE_RESPONSE =>
            /\ mem[c].id \in DOMAIN store
            /\ store[mem[c].id] = inbox[c].sum

\* The inductive invariant: while a client compares the checksum of a 1603 and
\* until it has reported it with 900, no request of an earlier run of it (still
\* in the backlog of server.py) and no request of another client can write to
\* the directory of its identifier.
DeliveryInv ==
    /\ TypeOK
    /\ QueueOrder
    /\ OwnIds
    /\ HasId
    /\ AnswerMatches
    /\ ChecksumMatches
    /\ DeliveredIsStored

(***************************************************************************)
(* The tables of defensive.db.                                             *)
(***************************************************************************)
\* Every row of clients is under an identifier that was drawn, no two have the
\* same name, and the row under an identifier of a client has its name.
TableMatches ==
    /\ DOMAIN clients \subseteq 1 .. drawn
    /\ \A i, j \in DOMAIN clients : clients[i].name = clients[j].name => i = j
    /\ \A c \in Client : \A id \in IdsOf(c) \cap DOMAIN clients :
          clients[id].name = NameOf[c]

\* The upload of c under id has a record, whichever of its columns names whom,
\* unless the database does not know id.
Recorded(c, id) ==
    id \in DOMAIN clients => \E row \in files : Names(row, id, FileOf[c])

\* A response 1603 on its way to a client is the response to a recorded upload.
RecordMatches ==
    /\ step = "answer" /\ answer.code = CORRECT_CRC_CODE_RESPONSE =>
         Recorded(Served.from, Sender)
    /\ \A c \in Client :
         pc[c] = "upload" /\ inbox[c].code = CORRECT_CRC_CODE_RESPONSE =>
            Recorded(c, mem[c].id)

\* The inductive invariant behind DeliveredIsRecorded: from the commit of
\* insert_file_record on, through the response 1603 to the report 900, no
\* registration brings an identifier back that a new database had lost.
RecordInv == DeliveryInv /\ TableMatches /\ RecordMatches /\ DeliveredIsRecorded

(***************************************************************************)
(* The key exchange.                                                       *)
(***************************************************************************)
\* What me.info holds while its keys are being exchanged.
MeInfoMatches ==
    \A c \in Client :
        /\ pc[c] = "key" => me[c] = MeInfo(mem[c].id, NoPair)
        /\ pc[c] = "reconnect" => me[c].pair # NoPair /\ me[c].id = mem[c].id

\* A request 826 in the queue is from the process that waits for its answer, or
\* from a killed one that no other run can follow, me.info being incomplete; a
\* request 827 has the identifier that me.info still has, whichever run sent it.
KeyRequestMatches ==
    \A c \in Client : \A k \in DOMAIN queue :
        /\ queue[k].from = c /\ queue[k].code = PUBLIC_KEY_SENDING_REQUEST_CODE =>
             /\ me[c].exists /\ me[c].pair = NoPair
             /\ \/ pc[c] = "off"
                \/ pc[c] = "key" /\ queue[k].pair = mem[c].pair
        /\ queue[k].from = c /\ queue[k].code = RECONNECT_REQUEST_CODE =>
             /\ me[c].id = queue[k].id /\ me[c].pair # NoPair
             /\ queue[k].run = runs[c] => pc[c] \in {"off", "reconnect"}

\* What the table holds under id, if anything, goes with this pair, or key.
HasPair(id, pair) == id \in DOMAIN clients => clients[id].pk = pair
HasAES(id, aes)   == id \in DOMAIN clients => clients[id].aes = aes

\* A handler that is about to answer with a key has stored what it answers.
KeyAnswerMatches ==
    /\ step = "keyed" =>
         /\ Served.code = PUBLIC_KEY_SENDING_REQUEST_CODE
         /\ Sender \in DOMAIN clients => answer.id = Sender
         /\ answer.id \in DOMAIN clients => clients[answer.id].name = Name
         /\ HasPair(Sender, Served.pair)
    /\ step = "answer" /\ answer.code = PRIVATE_KEY_ENCRYPTION_CODE =>
         /\ Served.code = PUBLIC_KEY_SENDING_REQUEST_CODE
         /\ HasPair(Sender, Served.pair)
         /\ HasAES(Sender, answer.aes)
    /\ step = "answer" /\ answer.code = RECONNECT_ACCEPTED =>
         /\ Served.code = RECONNECT_REQUEST_CODE
         /\ HasAES(Sender, answer.aes)

\* So what a client is about to decrypt is in the table.
KeyArrives ==
    \A c \in Client :
        /\ pc[c] = "key" /\ inbox[c].code = PRIVATE_KEY_ENCRYPTION_CODE =>
             HasPair(mem[c].id, mem[c].pair) /\ HasAES(mem[c].id, inbox[c].aes)
        /\ pc[c] = "reconnect" /\ inbox[c].code = RECONNECT_ACCEPTED =>
             HasAES(mem[c].id, inbox[c].aes)

\* What the agreement of a client and the server on keys rests on.
KeysMatch ==
    /\ MeInfoMatches
    /\ KeyRequestMatches
    /\ KeyAnswerMatches
    /\ KeyArrives
    /\ KeyAgreement
    /\ KeyPairAgreement

\* The inductive invariant of the key exchange (826 and 827, from the request
\* to the decryption of the answer by the client), for names that differ and
\* a sqlite that works.
ExchangeInv == DeliveryInv /\ TableMatches /\ KeysMatch

\* The conditions under which it holds.
NamesDiffer == \A c, d \in Client : NameOf[c] = NameOf[d] => c = d
SqliteWorks == "db" \notin Faults
=============================================================================
