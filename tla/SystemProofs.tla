---------------------------- MODULE SystemProofs ----------------------------
(***************************************************************************)
(* Proofs about System, for every value of its constants.                  *)
(***************************************************************************)
EXTENDS System, SequenceTheorems, TLAPS

(***************************************************************************)
(* Types of the messages and of the operators on connections.              *)
(***************************************************************************)
\* A reply that carries only a code is a Reply.
LEMMA BareType ==
    ASSUME NEW code \in Nat
    PROVE  Bare(code) \in Reply
BY DEF Bare, Reply, Pair

\* So is one with an identifier and an encrypted key.
LEMMA WithKeyType ==
    ASSUME NEW code \in Nat, NEW id \in Nat, NEW aes \in Nat, NEW pair \in Pair
    PROVE  WithKey(code, id, aes, pair) \in Reply
BY DEF WithKey, Reply

\* The socket states are replies.
LEMMA SocketType ==
    /\ Bare(NOT_CONNECTED) \in Reply
    /\ Bare(WAITING) \in Reply
    /\ Bare(RESET) \in Reply
    /\ Bare(EOF) \in Reply
BY BareType DEF NOT_CONNECTED, WAITING, RESET, EOF

\* The request being served, when there is one, is a request.
LEMMA ServedType ==
    ASSUME NetTypeOK, queue # << >>
    PROVE  /\ Served \in Request
           /\ Tail(queue) \in Seq(Request)
BY HeadTailProperties DEF NetTypeOK, Served

\* connect() keeps the types of the connections.
LEMMA ConnectType ==
    ASSUME NetTypeOK, NEW c \in Client, NEW request \in Request,
           Connect(c, request)
    PROVE  queue' \in Seq(Request) /\ inbox' \in [Client -> Reply]
BY SocketType, AppendProperties DEF NetTypeOK, Connect

\* So does the end of the connection being served ...
LEMMA FinishType ==
    ASSUME NetTypeOK, queue # << >>, NEW reply \in Reply, Finish(reply)
    PROVE  queue' \in Seq(Request) /\ inbox' \in [Client -> Reply]
BY ServedType DEF NetTypeOK, Finish, Served, Request

\* ... and the end of the server process.
LEMMA ServerStopsType ==
    ASSUME NetTypeOK, NEW reply \in Reply, ServerStops(reply)
    PROVE  /\ listening' \in BOOLEAN
           /\ queue' \in Seq(Request)
           /\ inbox' \in [Client -> Reply]
BY SocketType, EmptySeq DEF NetTypeOK, ServerStops

\* A fault is counted.
LEMMA FaultType ==
    ASSUME NetTypeOK, NEW f, Fault(f) \/ NoFault
    PROVE  faults' \in Nat
BY DEF NetTypeOK, Fault, NoFault

-----------------------------------------------------------------------------
(***************************************************************************)
(* Types: the initial state and the steps of a client.                     *)
(***************************************************************************)
LEMMA InitType == Init => TypeOK
BY SocketType, AttemptsAssumption
DEF Init, TypeOK, NetInit, NetTypeOK, ClientInit, ClientTypeOK, ServerInit,
    ServerTypeOK, NoMeInfo, NewProcess, NoAnswer, NoClients, NoFiles, Phase,
    Step, Pair, FileRow, Row, Bare, MeInfoFile, Memory

\* Going on to another request, with new variables, keeps the client's types.
LEMMA EnterType ==
    ASSUME TypeOK, NEW c \in Client, NEW phase \in Phase, NEW memory \in Memory,
           phase \in {"upload", "repeat"} => memory.tries < Attempts,
           me' \in [Client -> MeInfoFile],
           Enter(c, phase, memory)
    PROVE  ClientTypeOK' /\ inbox' \in [Client -> Reply]
<1>1. inbox' \in [Client -> Reply]
  BY SocketType DEF TypeOK, NetTypeOK, Enter, Disconnect
<1>2. pc' \in [Client -> Phase] /\ mem' \in [Client -> Memory]
  BY DEF TypeOK, ClientTypeOK, Enter
<1>3. ASSUME NEW d \in Client
      PROVE  /\ pc'[d] \in {"upload", "repeat"} => mem'[d].tries < Attempts
             /\ pc'[d] = "off" => inbox'[d].code = NOT_CONNECTED
  BY DEF TypeOK, ClientTypeOK, NetTypeOK, Enter, Disconnect, Bare
<1>. QED BY <1>1, <1>2, <1>3 DEF ClientTypeOK

\* The variables of a new process.
LEMMA NewProcessType == NewProcess \in Memory
BY AttemptsAssumption DEF NewProcess, Memory, Pair

\* The end of main().
LEMMA ExitType ==
    ASSUME TypeOK, NEW c \in Client, me' \in [Client -> MeInfoFile], Exit(c)
    PROVE  ClientTypeOK' /\ inbox' \in [Client -> Reply]
BY EnterType, NewProcessType DEF Exit, Phase

\* What the client does when a request has failed.
LEMMA GiveUpType ==
    ASSUME TypeOK, NEW c \in Client, me' = me, pc[c] # "off", GiveUp(c)
    PROVE  ClientTypeOK' /\ inbox' \in [Client -> Reply]
<1>0. mem[c] \in Memory /\ me' \in [Client -> MeInfoFile]
  BY DEF TypeOK, ClientTypeOK
<1>1. CASE Exit(c)
  BY <1>0, <1>1, ExitType
<1>2. CASE pc[c] = "upload" /\ Enter(c, "repeat", mem[c])
  BY <1>0, <1>2, EnterType DEF Phase, TypeOK, ClientTypeOK
<1>3. CASE pc[c] = "repeat" /\ NextAttempt(c)
  <2> DEFINE memory == [mem[c] EXCEPT !.tries = @ + 1]
  <2>1. mem[c].tries \in 0 .. Attempts - 1
    BY <1>0, <1>3, AttemptsAssumption DEF TypeOK, ClientTypeOK, Memory
  <2>2. memory \in Memory /\ memory.tries = mem[c].tries + 1
    BY <1>0, <2>1, AttemptsAssumption DEF Memory
  <2>3. CASE memory.tries < Attempts
    BY <1>0, <1>3, <2>2, <2>3, EnterType DEF NextAttempt, Phase
  <2>4. CASE ~(memory.tries < Attempts)
    BY <1>0, <1>3, <2>2, <2>4, EnterType DEF NextAttempt, Phase
  <2>. QED BY <2>3, <2>4
<1>. QED BY <1>1, <1>2, <1>3 DEF GiveUp

\* Starting the program.
LEMMA StartType ==
    ASSUME TypeOK, NEW c \in Client, NEW phase \in {"register", "reconnect"},
           NEW memory \in Memory, Start(c, phase, memory)
    PROVE  NetTypeOK' /\ ClientTypeOK'
BY DEF TypeOK, NetTypeOK, ClientTypeOK, Start, Phase

\* Sending a request, with new variables of the process.
LEMMA AskType ==
    ASSUME TypeOK, NEW c \in Client, pc[c] # "off",
           NEW code \in Nat, NEW pair \in Pair, NEW cipher \in Cipher,
           NEW memory \in Memory, memory.tries = mem[c].tries,
           mem' = [mem EXCEPT ![c] = memory],
           Ask(c, code, pair, cipher)
    PROVE  NetTypeOK' /\ ClientTypeOK' /\ queue' # << >>
<1> DEFINE request == [from |-> c, run |-> runs[c], code |-> code,
                       id |-> mem[c].id, pair |-> pair, cipher |-> cipher]
<1>1. request \in Request /\ Connect(c, request)
  BY DEF TypeOK, NetTypeOK, ClientTypeOK, Memory, Request, Ask
<1>2. queue' \in Seq(Request) /\ inbox' \in [Client -> Reply]
  BY <1>1, ConnectType DEF TypeOK
<1>3. queue' # << >>
  BY <1>1, AppendProperties DEF Connect, TypeOK, NetTypeOK
<1>4. NetTypeOK'
  BY <1>2 DEF TypeOK, NetTypeOK, Ask
<1>5. ClientTypeOK'
  BY <1>1 DEF TypeOK, NetTypeOK, ClientTypeOK, Ask, Connect
<1>. QED BY <1>3, <1>4, <1>5

\* A client leaves the server's variables alone.
LEMMA ServerFrame ==
    ASSUME TypeOK, UNCHANGED serverVars, queue # << >> => queue' # << >>
    PROVE  ServerTypeOK'
BY DEF TypeOK, ServerTypeOK, serverVars

\* Every step of a client's program keeps the types ...
LEMMA ClientStepsType ==
    ASSUME TypeOK, NEW c \in Client, ClientSteps(c), UNCHANGED serverVars
    PROVE  TypeOK'
<1>0. /\ me \in [Client -> MeInfoFile]
      /\ mem[c] \in Memory
      /\ inbox[c] \in Reply
      /\ runs[c] \in Nat
      /\ mem[c].tries \in 0 .. Attempts
      /\ Attempts \in Nat \ {0}
  BY AttemptsAssumption DEF TypeOK, NetTypeOK, ClientTypeOK, Memory
<1> DEFINE Same == UNCHANGED <<listening, queue, runs, faults>>
<1>1. ASSUME ClientTypeOK', inbox' \in [Client -> Reply], Same
      PROVE  TypeOK'
  BY <1>1, ServerFrame DEF TypeOK, NetTypeOK
<1>2. ASSUME NetTypeOK', ClientTypeOK', queue' # << >>
      PROVE  TypeOK'
  BY <1>2, ServerFrame DEF TypeOK
<1>3. NoPair \in Pair /\ NoCipher \in Cipher /\ <<c, runs[c]>> \in Pair
  BY <1>0 DEF Pair, NoCipher, Cipher
<1>4. ASSUME NEW code \in Nat, pc[c] # "off", UNCHANGED mem,
             Ask(c, code, NoPair, NoCipher)
      PROVE  TypeOK'
  <2>1. mem' = [mem EXCEPT ![c] = mem[c]]
    BY <1>4 DEF TypeOK, ClientTypeOK
  <2>. QED BY <2>1, <1>0, <1>2, <1>3, <1>4, AskType
<1>5. CASE SendRegistration(c)
  BY <1>4, <1>5 DEF SendRegistration, REGISTRATION_REQUEST_CODE
<1>6. CASE SendReconnect(c)
  BY <1>4, <1>6 DEF SendReconnect, RECONNECT_REQUEST_CODE
<1>7. CASE SendReport(c)
  <2>1. ReportCode(pc[c]) \in Nat
    BY <1>7 DEF SendReport, ReportCode, CORRECT_CRC_CODE,
                INCORRECT_CRC_CODE_REPEAT, FATA_ERROR_CODE
  <2>. QED BY <2>1, <1>4, <1>7 DEF SendReport
<1>8. CASE SendPublicKey(c)
  <2> DEFINE memory == [mem[c] EXCEPT !.pair = <<c, runs[c]>>]
  <2>1. memory \in Memory /\ memory.tries = mem[c].tries
    BY <1>0, <1>3 DEF Memory
  <2>2. mem' = [mem EXCEPT ![c] = memory]
    BY <1>8 DEF SendPublicKey, TypeOK, ClientTypeOK
  <2>3. /\ pc[c] # "off"
        /\ PUBLIC_KEY_SENDING_REQUEST_CODE \in Nat
        /\ Ask(c, PUBLIC_KEY_SENDING_REQUEST_CODE, <<c, runs[c]>>, NoCipher)
    BY <1>8 DEF SendPublicKey, PUBLIC_KEY_SENDING_REQUEST_CODE
  <2> HIDE DEF memory
  <2>. QED BY <2>1, <2>2, <2>3, <1>2, <1>3, AskType
<1>9. CASE SendFile(c)
  <2>1. PICK content \in Content :
          /\ Ask(c, FILE_SENDING_REQUEST_CODE, NoPair,
                 [aes |-> mem[c].aes, plain |-> content])
          /\ mem' = [mem EXCEPT ![c].sent = content]
    BY <1>9 DEF SendFile
  <2> DEFINE memory == [mem[c] EXCEPT !.sent = content]
  <2>2. memory \in Memory /\ memory.tries = mem[c].tries
    BY <1>0 DEF Memory
  <2>3. mem' = [mem EXCEPT ![c] = memory]
    BY <2>1 DEF TypeOK, ClientTypeOK
  <2>4. [aes |-> mem[c].aes, plain |-> content] \in Cipher
    BY <1>0 DEF Memory, Cipher
  <2>5. pc[c] # "off" /\ FILE_SENDING_REQUEST_CODE \in Nat
    BY <1>9 DEF SendFile, FILE_SENDING_REQUEST_CODE
  <2> HIDE DEF memory
  <2>. QED BY <2>1, <2>2, <2>3, <2>4, <2>5, <1>2, <1>3, AskType
<1>10. CASE RegistrationSucceeded(c)
  <2> DEFINE memory == [NewProcess EXCEPT !.id = inbox[c].id]
  <2>1. memory \in Memory
    BY <1>0, NewProcessType DEF Memory, Reply
  <2>2. me' \in [Client -> MeInfoFile]
    BY <1>0, <1>3, <1>10 DEF RegistrationSucceeded, MeInfo, MeInfoFile, Reply
  <2>. QED BY <2>1, <2>2, <1>1, <1>10, EnterType
           DEF RegistrationSucceeded, Phase
<1>11. CASE RegistrationFailed(c)
  <2>1. CASE mem[c].tries + 1 < Attempts
    <3> DEFINE memory == [mem[c] EXCEPT !.tries = @ + 1]
    <3>1. memory \in Memory
      BY <1>0, <2>1 DEF Memory
    <3>. QED BY <3>1, <2>1, <1>0, <1>1, <1>11, EnterType
             DEF RegistrationFailed, Phase
  <2>2. CASE ~(mem[c].tries + 1 < Attempts)
    BY <2>2, <1>0, <1>1, <1>11, ExitType DEF RegistrationFailed
  <2>. QED BY <2>1, <2>2
<1>12. CASE KeyReceived(c)
  <2>1. me' \in [Client -> MeInfoFile]
    BY <1>0, <1>12 DEF KeyReceived, SavePrivateKey, MeInfoFile, Memory
  <2>2. CASE CanDecryptKey(c)
    <3> DEFINE memory == [mem[c] EXCEPT !.aes = inbox[c].aes, !.tries = 0]
    <3>1. inbox[c].aes \in Nat /\ 0 \in 0 .. Attempts /\ 0 < Attempts
      BY <1>0 DEF Reply
    <3>2. memory \in Memory /\ memory.tries = 0
      BY <3>1, <1>0 DEF Memory
    <3>. QED BY <3>1, <3>2, <2>1, <2>2, <1>1, <1>12, EnterType
             DEF KeyReceived, Phase
  <2>3. CASE ~CanDecryptKey(c)
    BY <2>1, <2>3, <1>1, <1>12, ExitType DEF KeyReceived
  <2>. QED BY <2>2, <2>3
<1>13. CASE ReconnectDenied(c)
  BY <1>0, <1>1, <1>13, EnterType, NewProcessType DEF ReconnectDenied, Phase
<1>14. CASE ChecksumReceived(c)
  BY <1>0, <1>1, <1>14, EnterType
  DEF ChecksumReceived, Phase, TypeOK, ClientTypeOK
<1>15. CASE ReportAnswered(c)
  BY <1>1, <1>15, GiveUpType DEF ReportAnswered
<1>16. CASE RequestFails(c)
  BY <1>1, <1>16, GiveUpType DEF RequestFails
<1>. QED BY <1>5, <1>6, <1>7, <1>8, <1>9, <1>10, <1>11, <1>12, <1>13, <1>14,
            <1>15, <1>16 DEF ClientSteps

\* ... and so does what the user and the environment do to it.
LEMMA ClientEventsType ==
    ASSUME TypeOK, NEW c \in Client, ClientEvents(c), UNCHANGED serverVars
    PROVE  TypeOK'
<1>0. /\ me \in [Client -> MeInfoFile]
      /\ me[c] \in MeInfoFile
      /\ mem[c] \in Memory
      /\ BlankMeInfo \in MeInfoFile
  BY DEF TypeOK, ClientTypeOK, BlankMeInfo, MeInfoFile, Pair
<1>1. CASE StartNew(c)
  BY <1>1, StartType, ServerFrame, NewProcessType
  DEF StartNew, Start, TypeOK
<1>2. CASE StartKnown(c)
  <2> DEFINE memory == [NewProcess EXCEPT !.id = me[c].id, !.pair = me[c].pair]
  <2>1. memory \in Memory
    BY <1>0, NewProcessType DEF Memory, MeInfoFile
  <2>2. Start(c, "reconnect", memory) /\ queue' = queue
    BY <1>2 DEF StartKnown, Start
  <2> HIDE DEF memory
  <2>. QED BY <2>1, <2>2, StartType, ServerFrame DEF TypeOK
<1>3. CASE ReadFails(c)
  <2>1. ClientTypeOK' /\ inbox' \in [Client -> Reply]
    BY <1>0, <1>3, EnterType DEF ReadFails, Phase, TypeOK, ClientTypeOK
  <2>. QED BY <2>1, <1>3, FaultType, ServerFrame
           DEF ReadFails, TypeOK, NetTypeOK
<1>4. CASE ClientKilled(c)
  <2>1. me' \in [Client -> MeInfoFile]
    BY <1>0, <1>4 DEF ClientKilled
  <2>2. ClientTypeOK' /\ inbox' \in [Client -> Reply]
    BY <2>1, <1>4, ExitType DEF ClientKilled
  <2>. QED BY <2>2, <1>4, FaultType, ServerFrame
           DEF ClientKilled, TypeOK, NetTypeOK
<1>. QED BY <1>1, <1>2, <1>3, <1>4 DEF ClientEvents

-----------------------------------------------------------------------------
(***************************************************************************)
(* Types: the steps of the server.                                         *)
(***************************************************************************)
\* The server leaves the clients' variables alone, and gives an answer only to
\* a client that waits for one.
LEMMA ClientFrame ==
    ASSUME TypeOK, UNCHANGED clientVars,
           \A c \in Client : inbox[c].code # WAITING => inbox'[c] = inbox[c]
    PROVE  ClientTypeOK'
BY DEF TypeOK, ClientTypeOK, clientVars, NOT_CONNECTED, WAITING

\* The table clients holds rows, under identifiers.
ClientsOK == /\ DOMAIN clients \subseteq Nat
             /\ \A id \in DOMAIN clients : clients[id] \in Row

\* The operators on the tables keep the types of the tables.
LEMMA RegisterClientType ==
    ASSUME ClientsOK, NEW id \in Nat, NEW c \in Client,
           clients' = RegisterClient(clients, id, NameOf[c])
    PROVE  ClientsOK'
BY DEF ClientsOK, RegisterClient, Row, Pair

\* An UPDATE of a column keeps the rows rows: PublicKey ...
LEMMA UpdatePublicKeyType ==
    ASSUME ClientsOK, NEW id, NEW pair \in Pair,
           clients' = UpdatePublicKey(clients, id, pair)
    PROVE  ClientsOK'
BY DEF ClientsOK, UpdatePublicKey, Row

\* ... and AESKey.
LEMMA UpdateAESKeyType ==
    ASSUME ClientsOK, NEW id, NEW aes \in Nat,
           clients' = UpdateAESKey(clients, id, aes)
    PROVE  ClientsOK'
BY DEF ClientsOK, UpdateAESKey, Row

\* A DELETE only removes rows.
LEMMA DeleteClientByNameType ==
    ASSUME ClientsOK, NEW name, clients' = DeleteClientByName(clients, name)
    PROVE  ClientsOK'
BY DEF ClientsOK, DeleteClientByName

\* A name is looked up to an identifier, or to 0.
LEMMA GetIdByNameType ==
    ASSUME ClientsOK, NEW name
    PROVE  GetIdByName(clients, name) \in Nat
BY DEF ClientsOK, GetIdByName, HasName

\* The record of an upload is a row of files ...
LEMMA InsertRecordType ==
    ASSUME files \subseteq FileRow, Served \in Request, InsertRecord
    PROVE  files' \subseteq FileRow
<1>1. Sender \in Nat /\ Served.from \in Client
  BY DEF Request, Sender
<1>2. [id |-> FileOf[Served.from], fileName |-> Sender, verified |-> FALSE]
          \in FileRow
  BY <1>1 DEF FileRow, Column
<1>. QED BY <1>2 DEF InsertRecord, InsertFileRecord

\* ... and stays one when it is marked verified.
LEMMA VerifyType ==
    ASSUME files \subseteq FileRow, NEW id,
           files' = VerifyFileByClientId(files, id)
    PROVE  files' \subseteq FileRow
<1>1. ASSUME NEW new \in files' PROVE new \in FileRow
  <2>1. PICK row \in files :
          new = IF row.id = id THEN [row EXCEPT !.verified = TRUE] ELSE row
    BY DEF VerifyFileByClientId
  <2>. QED BY <2>1 DEF FileRow
<1>. QED BY <1>1

\* The directories of the uploads hold contents, under identifiers.
StoreOK ==
    /\ DOMAIN store \subseteq Nat
    /\ \A id \in DOMAIN store : store[id] \in Content \cup {Garbage, Truncated}

\* A write leaves contents in the directories.
LEMMA WriteType ==
    ASSUME StoreOK, Served \in Request, 
           NEW content \in Content \cup {Garbage, Truncated}, Write(content)
    PROVE  StoreOK'
BY DEF StoreOK, Request, Write, Sender

\* A step of a handler keeps the types when what it assigns has its type.
LEMMA HandlerType ==
    ASSUME TypeOK, UNCHANGED <<connVars, clientVars>>, queue # << >>,
           faults' \in Nat, step' \in Step, answer' \in Reply,
           step' \in {"opened", "written"} =>
               answer'.sum \in Content \cup {Garbage},
           ClientsOK', files' \subseteq FileRow, StoreOK', drawn' \in Nat
    PROVE  TypeOK'
<1>1. NetTypeOK' BY DEF TypeOK, NetTypeOK, connVars
<1>2. ClientTypeOK' BY ClientFrame DEF connVars
<1>3. ServerTypeOK' BY DEF ServerTypeOK, ClientsOK, StoreOK, connVars
<1>. QED BY <1>1, <1>2, <1>3 DEF TypeOK

\* The end of a connection keeps the types.
LEMMA CloseType ==
    ASSUME TypeOK, queue # << >>, NEW reply \in Reply, Close(reply),
           faults' \in Nat, UNCHANGED <<clients, files, store, drawn>>,
           UNCHANGED clientVars
    PROVE  TypeOK'
<1>1. NetTypeOK'
  BY FinishType DEF TypeOK, NetTypeOK, Close
<1>2. ClientTypeOK'
  BY ClientFrame DEF TypeOK, NetTypeOK, Close, Finish, Live
<1>3. ServerTypeOK'
  BY SocketType DEF TypeOK, ServerTypeOK, Close, NoAnswer, Step
<1>. QED BY <1>1, <1>2, <1>3 DEF TypeOK

\* So does the end of the server process.
LEMMA DieType ==
    ASSUME TypeOK, NEW reply \in Reply, Die(reply),
           faults' \in Nat, UNCHANGED <<clients, files, store, drawn>>,
           UNCHANGED clientVars
    PROVE  TypeOK'
<1>1. NetTypeOK'
  BY ServerStopsType DEF TypeOK, NetTypeOK, Die
<1>2. ClientTypeOK'
  BY ClientFrame DEF TypeOK, NetTypeOK, Die, ServerStops
<1>3. ServerTypeOK'
  BY SocketType DEF TypeOK, ServerTypeOK, Die, NoAnswer, Step
<1>. QED BY <1>1, <1>2, <1>3 DEF TypeOK

\* Every step of the server's program keeps the types ...
LEMMA ServerStepsType ==
    ASSUME TypeOK, ServerSteps, UNCHANGED clientVars
    PROVE  TypeOK'
<1>0. /\ ClientsOK /\ StoreOK /\ files \subseteq FileRow /\ drawn \in Nat
      /\ drawn + 1 \in Nat /\ answer \in Reply /\ faults \in Nat
      /\ NoPair \in Pair
      /\ step # "ready" => queue # << >>
  BY DEF TypeOK, NetTypeOK, ServerTypeOK, ClientsOK, StoreOK, Pair
<1>1. ASSUME queue # << >>
      PROVE  /\ Served \in Request
             /\ Served.from \in Client
             /\ Sender \in Nat
             /\ Served.pair \in Pair
  BY <1>1, ServedType DEF TypeOK, Request, Sender
<1>2. Dropped \subseteq Reply
  BY SocketType DEF Dropped
<1>3. ASSUME NEW code \in Nat, NEW id \in Nat
      PROVE  [Bare(code) EXCEPT !.id = id] \in Reply
  BY BareType DEF Reply
<1>4. /\ Bare(GENERAL_ERROR_CODE) \in Reply
      /\ Bare(REGISTRATION_WAS_FAILED_CODE) \in Reply
  BY BareType DEF GENERAL_ERROR_CODE, REGISTRATION_WAS_FAILED_CODE
<1>5. ASSUME NEW code, Serve(code) PROVE queue # << >>
  BY <1>5 DEF Serve, Accepted
<1>6. ASSUME UNCHANGED clients PROVE ClientsOK'
  BY <1>0, <1>6 DEF ClientsOK
<1>7. ASSUME UNCHANGED store PROVE StoreOK'
  BY <1>0, <1>7 DEF StoreOK
<1>8. ASSUME NEW reply, Answer(reply)
      PROVE  step' \in Step /\ step' = "answer" /\ answer' = reply
  BY <1>8 DEF Answer, Goto, Step
<1>9. CASE Register
  <2>1. queue # << >> BY <1>5, <1>9 DEF Register
  <2>2. ClientsOK'
    BY <1>0, <1>1, <1>9, <2>1, RegisterClientType DEF Register, Name
  <2>3. answer' \in Reply
    BY <1>0, <1>3, <1>8, <1>9 DEF Register, REGISTRATION_WAS_SUCCESS_CODE
  <2>. QED BY <1>0, <1>7, <1>8, <1>9, <2>1, <2>2, <2>3, HandlerType, FaultType
           DEF Register, TypeOK
<1>10. CASE RefuseName
  BY <1>0, <1>4, <1>5, <1>6, <1>7, <1>8, <1>10, HandlerType, FaultType
  DEF RefuseName, TypeOK
<1>11. CASE RegisterRaises
  BY <1>2, <1>11, DieType, FaultType DEF RegisterRaises, TypeOK
<1>12. CASE SavePublicKey
  <2>1. queue # << >> BY <1>5, <1>12 DEF SavePublicKey
  <2>2. PICK id \in {GetIdByName(clients, Name), 0} :
          /\ \/ clients' = UpdatePublicKey(clients, id, Served.pair)
             \/ UNCHANGED clients
          /\ Goto("keyed", WithKey(PRIVATE_KEY_ENCRYPTION_CODE, id, 0,
                                  Served.pair))
    BY <1>12 DEF SavePublicKey
  <2>3. ClientsOK'
    BY <1>0, <1>1, <1>6, <2>1, <2>2, UpdatePublicKeyType
  <2>4. id \in Nat
    BY <1>0, GetIdByNameType
  <2>5. WithKey(PRIVATE_KEY_ENCRYPTION_CODE, id, 0, Served.pair) \in Reply
    BY <1>1, <2>1, <2>4, WithKeyType DEF PRIVATE_KEY_ENCRYPTION_CODE
  <2>6. step' = "keyed" /\ step' \in Step /\ answer' \in Reply
    BY <2>2, <2>5 DEF Goto, Step
  <2>7. faults' \in Nat
    BY <1>12, FaultType DEF SavePublicKey, TypeOK
  <2>. QED BY <1>0, <1>7, <1>12, <2>1, <2>3, <2>6, <2>7, HandlerType
           DEF SavePublicKey
<1>13. CASE SaveAESKey
  <2>1. queue # << >> BY <1>0, <1>13 DEF SaveAESKey
  <2>2. ClientsOK'
    BY <1>0, <1>6, <1>13, UpdateAESKeyType DEF SaveAESKey
  <2>3. [answer EXCEPT !.aes = drawn'] \in Reply
    BY <1>0, <1>13 DEF SaveAESKey, Reply
  <2>4. faults' \in Nat
    BY <1>13, FaultType DEF SaveAESKey, TypeOK
  <2>5. step' = "answer" /\ step' \in Step /\ answer' \in Reply
    BY <1>8, <1>13, <2>3 DEF SaveAESKey
  <2>. QED BY <1>0, <1>7, <1>13, <2>1, <2>2, <2>4, <2>5, HandlerType
           DEF SaveAESKey
<1>14. CASE Rekey
  <2>1. queue # << >> BY <1>5, <1>14 DEF Rekey
  <2>2. Sender \in DOMAIN clients
    BY <1>14 DEF Rekey, Recognised, GetIdByName, HasName
  <2>3. clients[Sender].pk \in Pair
    BY <1>0, <2>2 DEF ClientsOK, Row
  <2>4. ClientsOK'
    BY <1>0, <1>6, <1>14, UpdateAESKeyType DEF Rekey
  <2>5. WithKey(RECONNECT_ACCEPTED, Sender, drawn', clients[Sender].pk)
            \in Reply
    BY <1>0, <1>1, <1>14, <2>1, <2>3, WithKeyType
    DEF Rekey, RECONNECT_ACCEPTED
  <2>6. faults' \in Nat
    BY <1>14, FaultType DEF Rekey, TypeOK
  <2>7. step' = "answer" /\ step' \in Step /\ answer' \in Reply
    BY <1>8, <1>14, <2>5 DEF Rekey
  <2>. QED BY <1>0, <1>7, <1>14, <2>1, <2>4, <2>6, <2>7, HandlerType DEF Rekey
<1>15. CASE Deny
  <2>1. queue # << >> BY <1>5, <1>15 DEF Deny
  <2>2. ClientsOK'
    BY <1>0, <1>6, <1>15, DeleteClientByNameType DEF Deny
  <2>3. [Bare(RECONNECT_DENIED) EXCEPT !.id = Sender] \in Reply
    BY <1>1, <1>3, <2>1 DEF RECONNECT_DENIED
  <2>4. faults' \in Nat
    BY <1>15, FaultType DEF Deny, TypeOK
  <2>5. step' = "answer" /\ step' \in Step /\ answer' \in Reply
    BY <1>8, <1>15, <2>3 DEF Deny
  <2>. QED BY <1>0, <1>7, <1>15, <2>1, <2>2, <2>4, <2>5, HandlerType DEF Deny
<1>16. CASE Block
  <2>1. queue # << >> BY <1>5, <1>16 DEF Block
  <2>2. step' \in Step /\ step' = "blocked" /\ answer' \in Reply
    BY <1>16, SocketType DEF Block, Goto, Step, NoAnswer
  <2>3. faults' \in Nat
    BY <1>16, FaultType DEF Block, TypeOK
  <2>. QED BY <1>0, <1>6, <1>7, <1>16, <2>1, <2>2, <2>3, HandlerType DEF Block
<1>16a. CASE UnknownSender
  BY <1>4, <1>16a, DieType, FaultType DEF UnknownSender, TypeOK
<1>17. CASE RejectCipher
  <2>1. queue # << >>
    BY <1>0, <1>5, <1>17 DEF RejectCipher, WrongCipher, Unblocked
  <2>2. faults' \in Nat
    BY <1>0, <1>17, FaultType DEF RejectCipher, WrongCipher, NoFault, TypeOK
  <2>. QED BY <1>0, <1>4, <1>6, <1>7, <1>8, <1>17, <2>1, <2>2, HandlerType
           DEF RejectCipher
<1>18. CASE OpenFile
  <2>1. queue # << >>
    BY <1>0, <1>5, <1>18 DEF OpenFile, RightCipher, WrongCipher, Unblocked
  <2>2. faults' \in Nat
    BY <1>0, <1>18, FaultType DEF OpenFile, WrongCipher, NoFault, TypeOK
  <2>3. PICK content \in Content \cup {Garbage} :
          Goto("opened", [Bare(CORRECT_CRC_CODE_RESPONSE) EXCEPT !.sum = content])
    BY <1>18 DEF OpenFile
  <2>4. /\ [Bare(CORRECT_CRC_CODE_RESPONSE) EXCEPT !.sum = content] \in Reply
        /\ [Bare(CORRECT_CRC_CODE_RESPONSE) EXCEPT !.sum = content].sum = content
    BY BareType DEF Reply, CORRECT_CRC_CODE_RESPONSE
  <2>5. /\ step' = "opened" /\ step' \in Step /\ answer' \in Reply
        /\ answer'.sum \in Content \cup {Garbage}
    BY <2>3, <2>4 DEF Goto, Step
  <2>6. StoreOK'
    BY <1>0, <1>1, <1>18, <2>1, WriteType DEF OpenFile
  <2>. QED BY <1>0, <1>6, <1>18, <2>1, <2>2, <2>5, <2>6, HandlerType
           DEF OpenFile
<1>19. CASE WriteFile
  <2>1. queue # << >> BY <1>0, <1>19 DEF WriteFile
  <2>2. answer.sum \in Content \cup {Garbage}
    BY <1>19 DEF WriteFile, TypeOK, ServerTypeOK
  <2>3. StoreOK'
    BY <1>0, <1>1, <1>19, <2>1, <2>2, WriteType DEF WriteFile
  <2>4. step' \in Step /\ answer' = answer
    BY <1>19 DEF WriteFile, Goto, Step
  <2>5. faults' \in Nat
    BY <1>0, <1>19 DEF WriteFile, NoFault
  <2>. QED BY <1>0, <1>6, <1>19, <2>1, <2>2, <2>3, <2>4, <2>5, HandlerType
           DEF WriteFile
<1>20. CASE DiskFails
  <2>1. queue # << >> BY <1>0, <1>5, <1>20 DEF DiskFails, RightCipher
  <2>2. faults' \in Nat
    BY <1>20, FaultType DEF DiskFails, TypeOK
  <2>. QED BY <1>0, <1>4, <1>6, <1>7, <1>8, <1>20, <2>1, <2>2, HandlerType
           DEF DiskFails
<1>21. CASE RecordFile \/ PrintRaises
  <2>1. queue # << >> BY <1>0, <1>21 DEF RecordFile, PrintRaises
  <2>2. files' \subseteq FileRow
    BY <1>0, <1>1, <1>21, <2>1, InsertRecordType DEF RecordFile, PrintRaises
  <2>3. faults' \in Nat
    BY <1>0, <1>21 DEF RecordFile, PrintRaises, NoFault
  <2>4. step' = "answer" /\ step' \in Step /\ answer' \in Reply
    BY <1>0, <1>4, <1>8, <1>21 DEF RecordFile, PrintRaises
  <2>. QED BY <1>0, <1>6, <1>7, <1>21, <2>1, <2>2, <2>3, <2>4, HandlerType
           DEF RecordFile, PrintRaises
<1>22. CASE RecordRaises
  <2>1. queue # << >> BY <1>0, <1>22 DEF RecordRaises
  <2>2. faults' \in Nat
    BY <1>22, FaultType DEF RecordRaises, TypeOK
  <2>. QED BY <1>0, <1>4, <1>6, <1>7, <1>8, <1>22, <2>1, <2>2, HandlerType
           DEF RecordRaises
<1>23. [Bare(ACCEPT_CODE) EXCEPT !.id = Sender] \in Reply
       \/ queue = << >>
  BY <1>1, <1>3 DEF ACCEPT_CODE
<1>24. CASE Verify
  <2>1. queue # << >> BY <1>5, <1>24 DEF Verify
  <2>2. files' \subseteq FileRow
    BY <1>0, <1>24, VerifyType DEF Verify
  <2>3. faults' \in Nat
    BY <1>24, FaultType DEF Verify, TypeOK
  <2>4. step' = "answer" /\ step' \in Step /\ answer' \in Reply
    BY <1>8, <1>23, <1>24, <2>1 DEF Verify
  <2>. QED BY <1>0, <1>6, <1>7, <1>24, <2>1, <2>2, <2>3, <2>4, HandlerType
           DEF Verify
<1>25. CASE AcknowledgeFatal
  <2>1. queue # << >> BY <1>5, <1>25 DEF AcknowledgeFatal
  <2>2. step' = "answer" /\ step' \in Step /\ answer' \in Reply
    BY <1>8, <1>23, <1>25, <2>1 DEF AcknowledgeFatal
  <2>. QED BY <1>0, <1>6, <1>7, <1>25, <2>1, <2>2, HandlerType
           DEF AcknowledgeFatal, NoFault
<1>26. CASE IgnoreRepeat
  BY <1>0, <1>5, <1>26, SocketType, CloseType DEF IgnoreRepeat, NoFault
<1>27. CASE SendAnswer
  BY <1>0, <1>27, CloseType DEF SendAnswer, NoFault
<1>28. CASE ShortRequest
  BY <1>2, <1>28, CloseType, FaultType DEF ShortRequest, Accepted, TypeOK
<1>29. CASE DecodeRaises
  BY <1>2, <1>29, DieType, FaultType DEF DecodeRaises, TypeOK
<1>30. CASE PeerReset
  BY <1>0, <1>30, SocketType, DieType DEF PeerReset, NoFault
<1>. QED BY <1>9, <1>10, <1>11, <1>12, <1>13, <1>14, <1>15, <1>16, <1>16a,
            <1>17, <1>18, <1>19, <1>20, <1>21, <1>22, <1>24, <1>25, <1>26, <1>27,
            <1>28, <1>29, <1>30 DEF ServerSteps

\* ... and so do its crash and its restart.
LEMMA ServerEventsType ==
    ASSUME TypeOK, ServerEvents, UNCHANGED clientVars
    PROVE  TypeOK'
<1>1. CASE Crash
  <2>1. Dropped \subseteq Reply
    BY SocketType DEF Dropped
  <2>. QED BY <1>1, <2>1, DieType, FaultType DEF Crash, TypeOK
<1>2. CASE StartServer
  <2>1. faults' \in Nat
    BY <1>2, FaultType DEF StartServer, TypeOK
  <2>2. NetTypeOK'
    BY <1>2, <2>1 DEF StartServer, TypeOK, NetTypeOK
  <2>3. ClientTypeOK'
    BY <1>2, ClientFrame DEF StartServer
  <2>4. ServerTypeOK'
    BY <1>2 DEF StartServer, TypeOK, ServerTypeOK, NoClients, NoFiles
  <2>. QED BY <2>2, <2>3, <2>4 DEF TypeOK
<1>. QED BY <1>1, <1>2 DEF ServerEvents

-----------------------------------------------------------------------------
\* Every reachable state is well typed.
THEOREM TypeCorrect == Spec => []TypeOK
<1>1. Init => TypeOK
  BY InitType
<1>2. TypeOK /\ [Next]_vars => TypeOK'
  <2> SUFFICES ASSUME TypeOK, [Next]_vars PROVE TypeOK'
    OBVIOUS
  <2>1. ASSUME NEW c \in Client, ClientNext(c) PROVE TypeOK'
    BY <2>1, ClientStepsType, ClientEventsType DEF ClientNext
  <2>2. CASE ServerNext
    BY <2>2, ServerStepsType, ServerEventsType DEF ServerNext
  <2>3. CASE UNCHANGED vars
    BY <2>3 DEF vars, netVars, clientVars, serverVars, TypeOK, NetTypeOK,
                ClientTypeOK, ServerTypeOK
  <2>. QED BY <2>1, <2>2, <2>3 DEF Next, Rest, Hang
<1>. QED BY <1>1, <1>2, PTL DEF Spec
=============================================================================
