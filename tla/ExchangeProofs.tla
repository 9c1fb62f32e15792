--------------------------- MODULE ExchangeProofs ---------------------------
(***************************************************************************)
(* The key exchange: a client and the server agree on the AES key of a     *)
(* session and on the RSA pair of the client, and a reconnection deletes   *)
(* no row that a client still has the identifier of, nor one of a session; *)
(* for any clients whose names differ and any faults but errors of sqlite. *)
(***************************************************************************)
EXTENDS DeliveryProofs

\* The client has an answer with a key that it has not yet handled.
KeyArrived(c) ==
    \/ pc[c] = "key" /\ inbox[c].code = PRIVATE_KEY_ENCRYPTION_CODE
    \/ pc[c] = "reconnect" /\ inbox[c].code = RECONNECT_ACCEPTED

\* The codes of 826 and 827, and of the answers to them, are no others.
LEMMA KeyCodes ==
    /\ PUBLIC_KEY_SENDING_REQUEST_CODE # RECONNECT_REQUEST_CODE
    /\ PRIVATE_KEY_ENCRYPTION_CODE # RECONNECT_ACCEPTED
    /\ {PRIVATE_KEY_ENCRYPTION_CODE, RECONNECT_ACCEPTED} \cap
       ( {NOT_CONNECTED, WAITING, REGISTRATION_WAS_SUCCESS_CODE,
          REGISTRATION_WAS_FAILED_CODE, CORRECT_CRC_CODE_RESPONSE, ACCEPT_CODE,
          RECONNECT_DENIED, GENERAL_ERROR_CODE} \cup Refusal ) = {}
BY DEF PUBLIC_KEY_SENDING_REQUEST_CODE, RECONNECT_REQUEST_CODE, Refusal,
       PRIVATE_KEY_ENCRYPTION_CODE, RECONNECT_ACCEPTED, NOT_CONNECTED, WAITING,
       REGISTRATION_WAS_SUCCESS_CODE, REGISTRATION_WAS_FAILED_CODE, RESET, EOF,
       CORRECT_CRC_CODE_RESPONSE, ACCEPT_CODE, RECONNECT_DENIED,
       GENERAL_ERROR_CODE

\* A client that has had an answer, and is not waiting for another one, has no
\* request in the queue.
LEMMA NoRequest ==
    ASSUME QueueOrder, NEW c \in Client, pc[c] # "off", Settled(c),
           inbox[c].code # WAITING, NEW k \in DOMAIN queue
    PROVE  queue[k].from # c
BY DEF QueueOrder, NothingStale, Mine

-----------------------------------------------------------------------------
(***************************************************************************)
(* The steps of a client.                                                  *)
(***************************************************************************)
\* A run starts only when me.info is missing or complete: no request 826 of an
\* earlier run is in the queue then.
LEMMA StartsKeys ==
    ASSUME TypeOK, QueueOrder, KeysMatch, NEW c \in Client,
           StartNew(c) \/ StartKnown(c), UNCHANGED serverVars
    PROVE  KeysMatch'
<1>1. /\ queue' = queue /\ inbox' = inbox /\ me' = me
      /\ step' = step /\ answer' = answer /\ clients' = clients
      /\ inbox[c].code = NOT_CONNECTED /\ pc[c] = "off"
      /\ \A d \in Client :
           runs'[d] = IF d = c THEN runs[c] + 1 ELSE runs[d]
      /\ \A d \in Client : d # c => pc'[d] = pc[d] /\ mem'[d] = mem[d]
      /\ pc'[c] \in {"register", "reconnect"}
      /\ pc'[c] = "reconnect" => me[c].pair # NoPair /\ mem'[c].id = me[c].id
      /\ ~me[c].exists \/ me[c].pair # NoPair
  BY DEF StartNew, StartKnown, Start, NewProcess, serverVars, TypeOK, NetTypeOK,
         ClientTypeOK
<1>2. MeInfoMatches'
  BY <1>1 DEF KeysMatch, MeInfoMatches
<1>3. KeyRequestMatches'
  <2>1. \A k \in DOMAIN queue : queue[k].from = c =>
           /\ queue[k].code # PUBLIC_KEY_SENDING_REQUEST_CODE
           /\ queue[k].run # runs'[c]
    BY <1>1, QueueType DEF KeysMatch, KeyRequestMatches, QueueOrder, RunsInOrder
  <2>. QED BY <1>1, <2>1 DEF KeysMatch, KeyRequestMatches
<1>4. KeyAnswerMatches'
  BY <1>1 DEF KeysMatch, KeyAnswerMatches, HasPair, HasAES, Served, Sender, Name
<1>5. KeyArrives'
  BY <1>1, KeyCodes DEF KeysMatch, KeyArrives, HasPair, HasAES
<1>6. KeyAgreement' /\ KeyPairAgreement'
  BY <1>1 DEF KeysMatch, KeyAgreement, KeyPairAgreement, InSession
<1>. QED BY <1>2, <1>3, <1>4, <1>5, <1>6 DEF KeysMatch

\* A request is sent by a client that has none in the queue if it is in 826.
LEMMA AskKeys ==
    ASSUME TypeOK, QueueOrder, KeysMatch, NEW c \in Client, pc[c] # "off",
           NEW code \in Nat, NEW pair \in Pair, NEW cipher \in Cipher,
           NEW memory \in Memory, mem' = [mem EXCEPT ![c] = memory],
           memory.id = mem[c].id, memory.aes = mem[c].aes,
           code = PUBLIC_KEY_SENDING_REQUEST_CODE =>
              pc[c] = "key" /\ memory.pair = pair,
           code = RECONNECT_REQUEST_CODE => pc[c] = "reconnect",
           Ask(c, code, pair, cipher), UNCHANGED serverVars
    PROVE  KeysMatch'
<1> DEFINE request == [from |-> c, run |-> runs[c], code |-> code,
                       id |-> mem[c].id, pair |-> pair, cipher |-> cipher]
<1>1. /\ request \in Request /\ queue' = Append(queue, request)
      /\ inbox' = [inbox EXCEPT ![c] = Bare(WAITING)]
  BY DEF TypeOK, NetTypeOK, ClientTypeOK, Memory, Request, Ask, Connect
<1>2. /\ request.from = c /\ request.run = runs[c] /\ request.id = mem[c].id
      /\ request.code = code /\ request.pair = pair
  OBVIOUS
<1> HIDE DEF request
<1>3. /\ pc' = pc /\ me' = me /\ runs' = runs
      /\ step' = step /\ answer' = answer /\ clients' = clients
      /\ inbox'[c].code = WAITING /\ inbox[c].code = NOT_CONNECTED
      /\ \A d \in Client : d # c => inbox'[d] = inbox[d] /\ mem'[d] = mem[d]
      /\ mem'[c] = memory
  BY <1>1 DEF Ask, Idle, serverVars, TypeOK, NetTypeOK, ClientTypeOK, Bare
<1>4. \A k \in DOMAIN queue' : \/ k \in DOMAIN queue /\ queue'[k] = queue[k]
                               \/ queue'[k] = request
  BY <1>1, AppendFacts DEF TypeOK
<1>5. MeInfoMatches'
  BY <1>3 DEF KeysMatch, MeInfoMatches
<1>6. KeyRequestMatches'
  <2>1. \A k \in DOMAIN queue : queue[k].from = c =>
           queue[k].code # PUBLIC_KEY_SENDING_REQUEST_CODE
    <3>1. pc[c] = "key" => \A k \in DOMAIN queue : queue[k].from # c
      BY <1>3, NoRequest DEF Settled, NOT_CONNECTED, WAITING
    <3>. QED BY <3>1 DEF KeysMatch, KeyRequestMatches
  <2>2. ASSUME NEW d \in Client, NEW k \in DOMAIN queue',
               queue'[k].from = d,
               queue'[k].code = PUBLIC_KEY_SENDING_REQUEST_CODE
        PROVE  /\ me[d].exists /\ me[d].pair = NoPair
               /\ pc[d] = "off" \/ (pc[d] = "key" /\ queue'[k].pair = mem'[d].pair)
    <3>1. CASE queue'[k] = request
      <4>1. d = c /\ pc[c] = "key" /\ queue'[k].pair = mem'[c].pair
        BY <1>2, <1>3, <2>2, <3>1
      <4>2. me[c] = MeInfo(mem[c].id, NoPair)
        BY <4>1 DEF KeysMatch, MeInfoMatches
      <4>3. me[c].exists = TRUE /\ me[c].pair = NoPair
        BY <4>2 DEF MeInfo
      <4>. QED BY <4>1, <4>3
    <3>2. CASE k \in DOMAIN queue /\ queue'[k] = queue[k]
      BY <1>3, <2>1, <2>2, <3>2 DEF KeysMatch, KeyRequestMatches
    <3>. QED BY <1>4, <3>1, <3>2
  <2>3. ASSUME NEW d \in Client, NEW k \in DOMAIN queue',
               queue'[k].from = d, queue'[k].code = RECONNECT_REQUEST_CODE
        PROVE  /\ me[d].id = queue'[k].id /\ me[d].pair # NoPair
               /\ queue'[k].run = runs[d] => pc[d] \in {"off", "reconnect"}
    <3>1. CASE queue'[k] = request
      BY <1>2, <2>3, <3>1 DEF KeysMatch, MeInfoMatches
    <3>2. CASE k \in DOMAIN queue /\ queue'[k] = queue[k]
      BY <2>3, <3>2 DEF KeysMatch, KeyRequestMatches
    <3>. QED BY <1>4, <3>1, <3>2
  <2>. QED BY <1>3, <2>2, <2>3 DEF KeyRequestMatches
<1>7. KeyAnswerMatches'
  <2>1. step # "ready" => Head(queue') = Head(queue)
    BY <1>1, AppendFacts, TailFacts, HeadTailProperties, AppendProperties
    DEF TypeOK, NetTypeOK, ServerTypeOK, Served
  <2>. QED BY <1>3, <2>1 DEF KeysMatch, KeyAnswerMatches, HasPair, HasAES,
                             Served, Sender, Name
<1>8. KeyArrives'
  BY <1>3, KeyCodes DEF KeysMatch, KeyArrives, HasPair, HasAES
<1>9. KeyAgreement' /\ KeyPairAgreement'
  BY <1>3 DEF KeysMatch, KeyAgreement, KeyPairAgreement, InSession
<1>. QED BY <1>5, <1>6, <1>7, <1>8, <1>9 DEF KeysMatch

\* A process goes on to its next request, or ends, with what it knows by then.
\* It writes me.info only when it has no request in the queue.
LEMMA EnterKeys ==
    ASSUME TypeOK, QueueOrder, KeysMatch, NEW c \in Client, pc[c] # "off",
           NEW phase \in Phase, phase # "reconnect", NEW memory \in Memory,
           Enter(c, phase, memory),
           NEW file \in MeInfoFile, me' = [me EXCEPT ![c] = file],
           \/ phase = "off" /\ file = me[c]
           \/ Settled(c) /\ inbox[c].code # WAITING,
           phase = "key" => file = MeInfo(memory.id, NoPair),
           phase \in {"upload", "repeat", "report", "fatal"} =>
              HasAES(memory.id, memory.aes),
           file.pair # NoPair => HasPair(file.id, file.pair),
           UNCHANGED <<queue, runs>>, UNCHANGED serverVars
    PROVE  KeysMatch'
<1>1. /\ queue' = queue /\ runs' = runs
      /\ step' = step /\ answer' = answer /\ clients' = clients
      /\ inbox'[c].code = NOT_CONNECTED
      /\ pc'[c] = phase /\ mem'[c] = memory /\ me'[c] = file
      /\ \A d \in Client : d # c => /\ pc'[d] = pc[d] /\ mem'[d] = mem[d]
                                    /\ me'[d] = me[d] /\ inbox'[d] = inbox[d]
  BY DEF Enter, Disconnect, serverVars, TypeOK, NetTypeOK, ClientTypeOK, Bare
<1>2. MeInfoMatches'
  BY <1>1 DEF KeysMatch, MeInfoMatches
<1>3. KeyRequestMatches'
  <2>1. CASE phase = "off" /\ file = me[c]
    BY <1>1, <2>1 DEF KeysMatch, KeyRequestMatches
  <2>2. CASE Settled(c) /\ inbox[c].code # WAITING
    <3>1. \A k \in DOMAIN queue : queue[k].from # c
      BY <2>2, NoRequest
    <3>. QED BY <1>1, <3>1 DEF KeysMatch, KeyRequestMatches
  <2>. QED BY <2>1, <2>2
<1>4. KeyAnswerMatches'
  BY <1>1 DEF KeysMatch, KeyAnswerMatches, HasPair, HasAES, Served, Sender, Name
<1>5. KeyArrives'
  BY <1>1, KeyCodes DEF KeysMatch, KeyArrives, HasPair, HasAES
<1>6. KeyAgreement'
  BY <1>1 DEF KeysMatch, KeyAgreement, InSession, HasAES
<1>7. KeyPairAgreement'
  BY <1>1 DEF KeysMatch, KeyPairAgreement, HasPair
<1>. QED BY <1>2, <1>3, <1>4, <1>5, <1>6, <1>7 DEF KeysMatch

\* A process that gives up a request goes on with the key it has, or ends.
LEMMA GiveUpKeys ==
    ASSUME TypeOK, QueueOrder, KeysMatch, NEW c \in Client, pc[c] # "off",
           inbox[c].code # WAITING, GiveUp(c),
           UNCHANGED <<queue, runs, me>>, UNCHANGED serverVars
    PROVE  KeysMatch'
<1>1. /\ mem[c] \in Memory /\ NewProcess \in Memory /\ me[c] \in MeInfoFile
      /\ me' = [me EXCEPT ![c] = me[c]]
      /\ Phase = {"off", "register", "key", "reconnect", "upload", "repeat",
                  "report", "fatal"}
  BY NewProcessType DEF TypeOK, ClientTypeOK, Phase
<1>2. me[c].pair # NoPair => HasPair(me[c].id, me[c].pair)
  BY DEF KeysMatch, KeyPairAgreement, HasPair
<1>3. pc[c] \in {"upload", "repeat"} =>
         Settled(c) /\ HasAES(mem[c].id, mem[c].aes)
  BY DEF KeysMatch, KeyAgreement, InSession, HasAES, Settled
<1>4. CASE Exit(c)
  BY <1>1, <1>2, <1>4, EnterKeys DEF Exit
<1>5. CASE pc[c] = "upload" /\ Enter(c, "repeat", mem[c])
  BY <1>1, <1>2, <1>3, <1>5, EnterKeys
<1>6. CASE pc[c] = "repeat" /\ NextAttempt(c)
  <2> DEFINE memory == [mem[c] EXCEPT !.tries = @ + 1]
  <2>1. mem[c].tries \in 0 .. Attempts - 1
    BY <1>1, <1>6, AttemptsAssumption DEF TypeOK, ClientTypeOK, Memory
  <2>2. /\ memory \in Memory /\ memory.id = mem[c].id
        /\ memory.aes = mem[c].aes
    BY <1>1, <2>1, AttemptsAssumption DEF Memory
  <2>3. Enter(c, "upload", memory) \/ Enter(c, "fatal", memory)
    BY <1>6 DEF NextAttempt
  <2> HIDE DEF memory
  <2>. QED BY <1>1, <1>2, <1>3, <1>6, <2>2, <2>3, EnterKeys
<1>. QED BY <1>4, <1>5, <1>6 DEF GiveUp

\* No step of a client breaks the agreement.
LEMMA ClientKeys ==
    ASSUME TypeOK, QueueOrder, KeysMatch, NEW c \in Client, ClientNext(c)
    PROVE  KeysMatch'
<1>0. /\ mem[c] \in Memory /\ me[c] \in MeInfoFile /\ inbox[c] \in Reply
      /\ NewProcess \in Memory
      /\ NoPair \in Pair /\ NoCipher \in Cipher /\ <<c, runs[c]>> \in Pair
      /\ me = [me EXCEPT ![c] = me[c]] /\ mem = [mem EXCEPT ![c] = mem[c]]
      /\ Phase = {"off", "register", "key", "reconnect", "upload", "repeat",
                  "report", "fatal"}
      /\ UNCHANGED serverVars
      /\ me[c].pair # NoPair => HasPair(me[c].id, me[c].pair)
  BY NewProcessType
  DEF TypeOK, NetTypeOK, ClientTypeOK, Pair, NoCipher, Cipher, Phase,
      ClientNext, KeysMatch, KeyPairAgreement, HasPair
<1>1. CASE StartNew(c) \/ StartKnown(c)
  BY <1>0, <1>1, StartsKeys
<1>2. ASSUME NEW code \in Nat, pc[c] # "off", mem' = mem,
             code # PUBLIC_KEY_SENDING_REQUEST_CODE,
             code = RECONNECT_REQUEST_CODE => pc[c] = "reconnect",
             Ask(c, code, NoPair, NoCipher)
      PROVE  KeysMatch'
  <2>1. mem' = [mem EXCEPT ![c] = mem[c]]
    BY <1>0, <1>2
  <2>. QED BY <1>0, <1>2, <2>1, AskKeys
<1>3. CASE SendRegistration(c)
  BY <1>2, <1>3 DEF SendRegistration, REGISTRATION_REQUEST_CODE,
     PUBLIC_KEY_SENDING_REQUEST_CODE, RECONNECT_REQUEST_CODE
<1>4. CASE SendReconnect(c)
  BY <1>2, <1>4 DEF SendReconnect, PUBLIC_KEY_SENDING_REQUEST_CODE,
     RECONNECT_REQUEST_CODE
<1>5. CASE SendReport(c)
  BY <1>2, <1>5 DEF SendReport, ReportCode, CORRECT_CRC_CODE,
     INCORRECT_CRC_CODE_REPEAT, FATA_ERROR_CODE,
     PUBLIC_KEY_SENDING_REQUEST_CODE, RECONNECT_REQUEST_CODE
<1>6. CASE SendPublicKey(c)
  <2> DEFINE memory == [mem[c] EXCEPT !.pair = <<c, runs[c]>>]
  <2>1. /\ memory \in Memory /\ memory.id = mem[c].id
        /\ memory.aes = mem[c].aes /\ memory.pair = <<c, runs[c]>>
    BY <1>0 DEF Memory
  <2>2. mem' = [mem EXCEPT ![c] = memory]
    BY <1>6 DEF SendPublicKey, TypeOK, ClientTypeOK
  <2>3. /\ pc[c] = "key"
        /\ PUBLIC_KEY_SENDING_REQUEST_CODE \in Nat
        /\ Ask(c, PUBLIC_KEY_SENDING_REQUEST_CODE, <<c, runs[c]>>, NoCipher)
    BY <1>6 DEF SendPublicKey, PUBLIC_KEY_SENDING_REQUEST_CODE
  <2> HIDE DEF memory
  <2>. QED BY <1>0, <2>1, <2>2, <2>3, KeyCodes, AskKeys
<1>7. CASE SendFile(c)
  <2>1. PICK content \in Content :
          /\ Ask(c, FILE_SENDING_REQUEST_CODE, NoPair,
                 [aes |-> mem[c].aes, plain |-> content])
          /\ mem' = [mem EXCEPT ![c].sent = content]
    BY <1>7 DEF SendFile
  <2> DEFINE memory == [mem[c] EXCEPT !.sent = content]
             cipher == [aes |-> mem[c].aes, plain |-> content]
  <2>2. /\ memory \in Memory /\ memory.id = mem[c].id
        /\ memory.aes = mem[c].aes
    BY <1>0 DEF Memory
  <2>3. mem' = [mem EXCEPT ![c] = memory]
    BY <2>1 DEF TypeOK, ClientTypeOK
  <2>4. cipher \in Cipher /\ Ask(c, FILE_SENDING_REQUEST_CODE, NoPair, cipher)
    BY <1>0, <2>1 DEF Memory, Cipher
  <2>5. /\ pc[c] # "off" /\ FILE_SENDING_REQUEST_CODE \in Nat
        /\ FILE_SENDING_REQUEST_CODE # PUBLIC_KEY_SENDING_REQUEST_CODE
        /\ FILE_SENDING_REQUEST_CODE # RECONNECT_REQUEST_CODE
    BY <1>7 DEF SendFile, FILE_SENDING_REQUEST_CODE,
                PUBLIC_KEY_SENDING_REQUEST_CODE, RECONNECT_REQUEST_CODE
  <2> HIDE DEF memory, cipher
  <2>. QED BY <1>0, <2>2, <2>3, <2>4, <2>5, AskKeys
<1>8. CASE RegistrationSucceeded(c)
  <2> DEFINE memory == [NewProcess EXCEPT !.id = inbox[c].id]
             file   == MeInfo(inbox[c].id, NoPair)
  <2>1. /\ memory \in Memory /\ memory.id = inbox[c].id
        /\ file \in MeInfoFile /\ file.pair = NoPair
        /\ file = MeInfo(memory.id, NoPair)
    BY <1>0 DEF Memory, NewProcess, MeInfo, MeInfoFile, Reply
  <2>2. /\ me' = [me EXCEPT ![c] = file] /\ Enter(c, "key", memory)
        /\ pc[c] = "register" /\ UNCHANGED <<queue, runs>>
    BY <1>8 DEF RegistrationSucceeded
  <2>3. Settled(c) /\ inbox[c].code # WAITING
    BY <1>8 DEF RegistrationSucceeded, Settled, NOT_CONNECTED, WAITING,
                REGISTRATION_WAS_SUCCESS_CODE
  <2> HIDE DEF memory, file
  <2>. QED BY <1>0, <2>1, <2>2, <2>3, EnterKeys
<1>9. CASE RegistrationFailed(c)
  <2>1. /\ inbox[c].code # WAITING /\ pc[c] = "register" /\ Settled(c)
        /\ me' = [me EXCEPT ![c] = me[c]] /\ UNCHANGED <<queue, runs>>
    BY <1>0, <1>9 DEF RegistrationFailed, NOT_CONNECTED, WAITING, Settled,
                      REGISTRATION_WAS_FAILED_CODE
  <2>2. CASE mem[c].tries + 1 < Attempts
    <3> DEFINE memory == [mem[c] EXCEPT !.tries = @ + 1]
    <3>1. memory \in Memory
      BY <1>0, <2>2, AttemptsAssumption DEF Memory
    <3>2. Enter(c, "register", memory)
      BY <1>9, <2>2 DEF RegistrationFailed
    <3> HIDE DEF memory
    <3>. QED BY <1>0, <2>1, <3>1, <3>2, EnterKeys
  <2>3. CASE ~(mem[c].tries + 1 < Attempts)
    BY <1>0, <1>9, <2>1, <2>3, EnterKeys DEF RegistrationFailed, Exit
  <2>. QED BY <2>2, <2>3
<1>10. CASE KeyReceived(c)
  <2>1. /\ pc[c] # "off" /\ inbox[c].code # WAITING /\ Settled(c)
        /\ \/ pc[c] = "key" /\ inbox[c].code = PRIVATE_KEY_ENCRYPTION_CODE
           \/ pc[c] = "reconnect" /\ inbox[c].code = RECONNECT_ACCEPTED
    BY <1>10 DEF KeyReceived, ReceiveAESKey, Settled, NOT_CONNECTED,
                 WAITING, PRIVATE_KEY_ENCRYPTION_CODE, RECONNECT_ACCEPTED
  <2> DEFINE file   == [me[c] EXCEPT !.pair = IF @ = NoPair THEN mem[c].pair
                                              ELSE @]
             memory == [mem[c] EXCEPT !.aes = inbox[c].aes, !.tries = 0]
  <2>2. /\ file \in MeInfoFile /\ file.id = me[c].id
        /\ file.pair = IF me[c].pair = NoPair THEN mem[c].pair ELSE me[c].pair
        /\ me' = [me EXCEPT ![c] = file]
    BY <1>0, <1>10 DEF KeyReceived, SavePrivateKey, MeInfoFile, Memory,
                       TypeOK, ClientTypeOK
  <2>3. /\ memory \in Memory /\ memory.id = mem[c].id
        /\ memory.aes = inbox[c].aes
    <3>1. inbox[c].aes \in Nat /\ 0 \in 0 .. Attempts
      BY <1>0, AttemptsAssumption DEF Reply
    <3>. QED BY <1>0, <3>1 DEF Memory
  <2>4. /\ Enter(c, "upload", memory) \/ Enter(c, "off", NewProcess)
        /\ UNCHANGED <<queue, runs>>
    BY <1>10 DEF KeyReceived, Exit
  <2>5. HasAES(memory.id, memory.aes)
    BY <2>1, <2>3 DEF KeysMatch, KeyArrives
  <2>6. HasPair(file.id, file.pair) \/ file.pair = NoPair
    <3>1. CASE pc[c] = "key" /\ inbox[c].code = PRIVATE_KEY_ENCRYPTION_CODE
      <4>1. me[c].pair = NoPair /\ me[c].id = mem[c].id
        <5>1. me[c] = MeInfo(mem[c].id, NoPair)
          BY <3>1 DEF KeysMatch, MeInfoMatches
        <5>. QED BY <5>1 DEF MeInfo
      <4>. QED BY <2>2, <3>1, <4>1 DEF KeysMatch, KeyArrives
    <3>2. CASE pc[c] = "reconnect"
      BY <1>0, <2>2, <3>2 DEF KeysMatch, MeInfoMatches
    <3>. QED BY <2>1, <3>1, <3>2
  <2> HIDE DEF file, memory
  <2>. QED BY <1>0, <2>1, <2>2, <2>3, <2>4, <2>5, <2>6, EnterKeys
<1>11. CASE ReconnectDenied(c)
  <2>1. /\ inbox[c].code # WAITING /\ pc[c] = "reconnect" /\ Settled(c)
        /\ me' = [me EXCEPT ![c] = me[c]] /\ UNCHANGED <<queue, runs>>
        /\ Enter(c, "register", NewProcess)
    BY <1>0, <1>11 DEF ReconnectDenied, NOT_CONNECTED, WAITING, Settled,
                       RECONNECT_DENIED, EOF
  <2>. QED BY <1>0, <2>1, EnterKeys
<1>12. CASE ChecksumReceived(c)
  <2>1. /\ pc[c] = "upload" /\ Settled(c) /\ inbox[c].code # WAITING
        /\ me' = [me EXCEPT ![c] = me[c]] /\ UNCHANGED <<queue, runs>>
        /\ Enter(c, "report", mem[c]) \/ Enter(c, "repeat", mem[c])
        /\ HasAES(mem[c].id, mem[c].aes)
    BY <1>0, <1>12 DEF ChecksumReceived, Settled, WAITING, KeysMatch,
       KeyAgreement, InSession, HasAES, CORRECT_CRC_CODE_RESPONSE,
       GENERAL_ERROR_CODE
  <2>. QED BY <1>0, <2>1, EnterKeys
<1>13. CASE ReportAnswered(c)
  BY <1>0, <1>13, GiveUpKeys DEF ReportAnswered, ACCEPT_CODE, WAITING
<1>14. CASE RequestFails(c)
  BY <1>0, <1>14, GiveUpKeys
  DEF RequestFails, Idle, NOT_CONNECTED, RESET, EOF, WAITING
<1>15. CASE ReadFails(c)
  <2>1. /\ pc[c] = "upload" /\ Settled(c) /\ inbox[c].code # WAITING
        /\ me' = [me EXCEPT ![c] = me[c]] /\ UNCHANGED <<queue, runs>>
        /\ Enter(c, "repeat", mem[c]) /\ HasAES(mem[c].id, mem[c].aes)
    BY <1>0, <1>15 DEF ReadFails, Settled, Idle, NOT_CONNECTED, WAITING,
                       KeysMatch, KeyAgreement, InSession, HasAES
  <2>. QED BY <1>0, <2>1, EnterKeys
<1>16. CASE ClientKilled(c)
  <2>1. /\ BlankMeInfo \in MeInfoFile /\ BlankMeInfo.pair = NoPair
        /\ Enter(c, "off", NewProcess) /\ UNCHANGED <<queue, runs>>
        /\ pc[c] # "off"
    BY <1>16 DEF ClientKilled, Exit, BlankMeInfo, MeInfoFile, Pair
  <2>2. \/ me' = [me EXCEPT ![c] = me[c]]
        \/ /\ me' = [me EXCEPT ![c] = BlankMeInfo]
           /\ Settled(c) /\ inbox[c].code # WAITING
    BY <1>0, <1>16 DEF ClientKilled, Settled, NOT_CONNECTED, WAITING,
                       REGISTRATION_WAS_SUCCESS_CODE
  <2>. QED BY <1>0, <2>1, <2>2, EnterKeys
<1>. QED BY <1>1, <1>3, <1>4, <1>5, <1>6, <1>7, <1>8, <1>9, <1>10, <1>11,
            <1>12, <1>13, <1>14, <1>15, <1>16
         DEF ClientNext, ClientSteps, ClientEvents

-----------------------------------------------------------------------------
(***************************************************************************)
(* The steps of the server.                                                *)
(***************************************************************************)
\* While a request 826 or 827 is served, its sender neither has a session nor
\* a key to decrypt: those are other clients'.
LEMMA ServedHasNoKey ==
    ASSUME TypeOK, QueueOrder, KeysMatch, queue # << >>,
           Served.code \in {PUBLIC_KEY_SENDING_REQUEST_CODE,
                            RECONNECT_REQUEST_CODE},
           NEW c \in Client, InSession(c) \/ KeyArrived(c)
    PROVE  c # Served.from
<1>1. Served = queue[1] /\ 1 \in DOMAIN queue /\ queue[1].from \in Client
  BY TailFacts, QueueType DEF TypeOK
<1>2. pc[c] # "off" /\ Settled(c)
  BY KeyCodes DEF InSession, KeyArrived, Settled
<1>3. SUFFICES ASSUME queue[1].from = c PROVE FALSE
  BY <1>1
<1>4. inbox[c].code = WAITING /\ queue[1].run = runs[c]
  BY <1>1, <1>2, <1>3 DEF QueueOrder, NothingStale, Mine, Current
<1>5. InSession(c)
  BY <1>4, KeyCodes DEF KeyArrived
<1>. QED BY <1>1, <1>3, <1>4, <1>5
         DEF KeysMatch, KeyRequestMatches, InSession

\* When names differ, the row of the sender's name is no other client's.
LEMMA OtherRow ==
    ASSUME NamesDiffer, TypeOK, TableMatches, queue # << >>,
           NEW c \in Client, c # Served.from,
           NEW id \in {me[c].id, mem[c].id}, id \in DOMAIN clients
    PROVE  clients[id].name # Name
<1>1. Served.from \in Client
  BY ServedType DEF TypeOK, Request
<1>2. id # 0
  BY DEF TableMatches
<1>3. clients[id].name = NameOf[c]
  BY <1>2 DEF TableMatches, IdsOf
<1>. QED BY <1>1, <1>3 DEF NamesDiffer, Name

\* The row of the sender of a request has the name in the request.
LEMMA SenderRow ==
    ASSUME TypeOK, TableMatches, queue # << >>
    PROVE  /\ 0 \notin DOMAIN clients
           /\ Sender \in DOMAIN clients =>
                clients[Sender].name = Name /\ GetIdByName(clients, Name) = Sender
           /\ GetIdByName(clients, Name) \in DOMAIN clients =>
                clients[GetIdByName(clients, Name)].name = Name
<1>1. 0 \notin DOMAIN clients
  BY DEF TableMatches
<1>2. ASSUME Sender \in DOMAIN clients PROVE clients[Sender].name = Name
  <2>1. /\ Served = queue[1] /\ 1 \in DOMAIN queue /\ queue[1].from \in Client
        /\ Sender # 0
    BY <1>1, <1>2, TailFacts, QueueType DEF TypeOK
  <2>2. Sender \in IdsOf(Served.from)
    BY <2>1 DEF IdsOf, Mine, Sender
  <2>. QED BY <1>2, <2>1, <2>2 DEF TableMatches, Name
<1>3. ASSUME HasName(clients, Name)
      PROVE  /\ GetIdByName(clients, Name) \in DOMAIN clients
             /\ clients[GetIdByName(clients, Name)].name = Name
  BY <1>3 DEF HasName, GetIdByName
<1>4. ~HasName(clients, Name) => GetIdByName(clients, Name) = 0
  BY DEF GetIdByName
<1>5. ASSUME Sender \in DOMAIN clients
      PROVE  GetIdByName(clients, Name) = Sender
  BY <1>2, <1>3, <1>5 DEF TableMatches, HasName
<1>. QED BY <1>1, <1>2, <1>3, <1>4, <1>5

\* A handler that leaves the rows of known identifiers as they are, or deletes
\* them, keeps the agreement.
LEMMA KeepKeys ==
    ASSUME TypeOK, OwnIds, KeysMatch, KeyAnswerMatches',
           UNCHANGED <<queue, inbox, runs>>, UNCHANGED clientVars,
           \A id \in 0 .. drawn :
              id \in DOMAIN clients' =>
                 id \in DOMAIN clients /\ clients'[id] = clients[id]
    PROVE  KeysMatch'
<1>1. \A c \in Client : mem[c].id \in 0 .. drawn /\ me[c].id \in 0 .. drawn
  BY DrawnIds
<1>2. UNCHANGED <<pc, me, mem>>
  BY DEF clientVars
<1>3. MeInfoMatches' /\ KeyRequestMatches'
  BY <1>2 DEF KeysMatch, MeInfoMatches, KeyRequestMatches
<1>4. KeyArrives'
  BY <1>1, <1>2 DEF KeysMatch, KeyArrives, HasPair, HasAES
<1>5. KeyAgreement' /\ KeyPairAgreement'
  BY <1>1, <1>2 DEF KeysMatch, KeyAgreement, KeyPairAgreement, InSession
<1>. QED BY <1>3, <1>4, <1>5 DEF KeysMatch

\* So does one that updates the row of its sender, if it only replaces the pair
\* of a client that has not saved one.
LEMMA UpdateKeys ==
    ASSUME NamesDiffer, TypeOK, QueueOrder, TableMatches, KeysMatch,
           KeyAnswerMatches', queue # << >>,
           UNCHANGED <<queue, inbox, runs>>, UNCHANGED clientVars,
           Served.code \in {PUBLIC_KEY_SENDING_REQUEST_CODE,
                            RECONNECT_REQUEST_CODE},
           DOMAIN clients' = DOMAIN clients,
           \A i \in DOMAIN clients :
              clients[i].name # Name => clients'[i] = clients[i],
           Served.code = RECONNECT_REQUEST_CODE =>
              \A i \in DOMAIN clients : clients'[i].pk = clients[i].pk
    PROVE  KeysMatch'
<1>1. UNCHANGED <<pc, me, mem>>
  BY DEF clientVars
<1>2. MeInfoMatches' /\ KeyRequestMatches'
  BY <1>1 DEF KeysMatch, MeInfoMatches, KeyRequestMatches
<1>3. ASSUME NEW c \in Client, InSession(c) \/ KeyArrived(c),
             mem[c].id \in DOMAIN clients
      PROVE  clients'[mem[c].id] = clients[mem[c].id]
  BY <1>3, ServedHasNoKey, OtherRow
<1>4. KeyArrives'
  BY <1>1, <1>3 DEF KeysMatch, KeyArrives, KeyArrived, HasPair, HasAES
<1>5. KeyAgreement'
  BY <1>1, <1>3 DEF KeysMatch, KeyAgreement, InSession
<1>6. KeyPairAgreement'
  <2>1. ASSUME NEW c \in Client, me[c].pair # NoPair, me[c].id \in DOMAIN clients
        PROVE  clients'[me[c].id].pk = clients[me[c].id].pk
    <3>1. CASE c # Served.from
      BY <2>1, <3>1, OtherRow
    <3>2. CASE c = Served.from
      <4>1. Served = queue[1] /\ 1 \in DOMAIN queue
        BY TailFacts DEF TypeOK
      <4>2. Served.code # PUBLIC_KEY_SENDING_REQUEST_CODE
        BY <2>1, <3>2, <4>1 DEF KeysMatch, KeyRequestMatches
      <4>. QED BY <2>1, <4>2
    <3>. QED BY <3>1, <3>2
  <2>. QED BY <1>1, <2>1 DEF KeysMatch, KeyPairAgreement
<1>. QED BY <1>2, <1>4, <1>5, <1>6 DEF KeysMatch

\* The handlers of 826 and 827 that store a key answer with the key they store.
LEMMA SavePublicKeyKeys ==
    ASSUME NamesDiffer, SqliteWorks, TypeOK, QueueOrder, TableMatches, KeysMatch,
           SavePublicKey, UNCHANGED clientVars
    PROVE  KeysMatch'
<1> DEFINE id == GetIdByName(clients, Name)
<1>1. /\ Served.code = PUBLIC_KEY_SENDING_REQUEST_CODE /\ queue # << >>
      /\ UNCHANGED <<queue, inbox, runs>>
      /\ clients' = UpdatePublicKey(clients, id, Served.pair)
      /\ step' = "keyed" /\ answer'.id = id
  BY DEF SavePublicKey, Serve, Accepted, Fault, SqliteWorks, connVars, Goto,
         WithKey
<1>2. /\ DOMAIN clients' = DOMAIN clients
      /\ \A i \in DOMAIN clients : /\ clients'[i].name = clients[i].name
                                   /\ i # id => clients'[i] = clients[i]
  BY <1>1, UpdateNames
<1>3. \A i \in DOMAIN clients : clients[i].name # Name => i # id
  BY <1>1, SenderRow
<1>4. Sender \in DOMAIN clients => clients'[Sender].pk = Served.pair
  <2>1. ASSUME Sender \in DOMAIN clients
        PROVE  Sender = id /\ clients[Sender] \in Row
    BY <1>1, <2>1, SenderRow DEF TypeOK, ServerTypeOK
  <2>. QED BY <1>1, <2>1 DEF UpdatePublicKey, Row
<1>5. KeyAnswerMatches'
  <2>1. Served' = Served /\ Sender' = Sender /\ Name' = Name
    BY <1>1 DEF Served, Sender, Name
  <2>. QED BY <1>1, <1>2, <1>4, <2>1, SenderRow
           DEF KeyAnswerMatches, HasPair
<1> HIDE DEF id
<1>. QED BY <1>1, <1>2, <1>3, <1>5, KeyCodes, UpdateKeys

\* The AES key of 826.
LEMMA SaveAESKeyKeys ==
    ASSUME NamesDiffer, SqliteWorks, TypeOK, QueueOrder, TableMatches, KeysMatch,
           AnswerMatches, SaveAESKey, UNCHANGED clientVars
    PROVE  KeysMatch'
<1>1. /\ queue # << >> /\ step = "keyed" /\ step' = "answer"
      /\ UNCHANGED <<queue, inbox, runs>>
      /\ clients' = UpdateAESKey(clients, answer.id, drawn')
      /\ answer' = [answer EXCEPT !.aes = drawn'] /\ answer \in Reply
      /\ answer.code = PRIVATE_KEY_ENCRYPTION_CODE
  BY DEF SaveAESKey, Fault, SqliteWorks, connVars, Answer, Goto, TypeOK,
         ServerTypeOK, AnswerMatches
<1>2. answer'.aes = drawn' /\ answer'.code = PRIVATE_KEY_ENCRYPTION_CODE
  BY <1>1 DEF Reply
<1>3. /\ DOMAIN clients' = DOMAIN clients
      /\ \A i \in DOMAIN clients : i # answer.id => clients'[i] = clients[i]
      /\ \A i \in DOMAIN clients : clients'[i].pk = clients[i].pk
      /\ answer.id \in DOMAIN clients => clients'[answer.id].aes = drawn'
  BY <1>1, UpdateNames DEF UpdateAESKey, TypeOK, ServerTypeOK, Row
<1>4. /\ Served.code = PUBLIC_KEY_SENDING_REQUEST_CODE
      /\ Sender \in DOMAIN clients => answer.id = Sender
      /\ answer.id \in DOMAIN clients => clients[answer.id].name = Name
      /\ HasPair(Sender, Served.pair)
  BY <1>1 DEF KeysMatch, KeyAnswerMatches
<1>5. KeyAnswerMatches'
  <2>1. Served' = Served /\ Sender' = Sender /\ Name' = Name
    BY <1>1 DEF Served, Sender, Name
  <2>. QED BY <1>1, <1>2, <1>3, <1>4, <2>1, KeyCodes
           DEF KeyAnswerMatches, HasPair, HasAES
<1>. QED BY <1>1, <1>3, <1>4, <1>5, KeyCodes, UpdateKeys

\* The AES key of 827.
LEMMA RekeyKeys ==
    ASSUME NamesDiffer, SqliteWorks, TypeOK, QueueOrder, TableMatches, KeysMatch,
           Rekey, UNCHANGED clientVars
    PROVE  KeysMatch'
<1>1. /\ Served.code = RECONNECT_REQUEST_CODE /\ queue # << >>
      /\ UNCHANGED <<queue, inbox, runs>>
      /\ clients' = UpdateAESKey(clients, Sender, drawn')
      /\ step' = "answer" /\ answer'.aes = drawn'
      /\ answer'.code = RECONNECT_ACCEPTED
  BY DEF Rekey, Serve, Accepted, Fault, SqliteWorks, connVars, Answer, Goto,
         WithKey
<1>2. /\ DOMAIN clients' = DOMAIN clients
      /\ \A i \in DOMAIN clients : i # Sender => clients'[i] = clients[i]
      /\ \A i \in DOMAIN clients : clients'[i].pk = clients[i].pk
      /\ Sender \in DOMAIN clients => clients'[Sender].aes = drawn'
  BY <1>1, UpdateNames DEF UpdateAESKey, TypeOK, ServerTypeOK, Row
<1>3. \A i \in DOMAIN clients : clients[i].name # Name => i # Sender
  BY <1>1, SenderRow
<1>4. KeyAnswerMatches'
  <2>1. Served' = Served /\ Sender' = Sender
    BY <1>1 DEF Served, Sender
  <2>. QED BY <1>1, <1>2, <2>1, KeyCodes DEF KeyAnswerMatches, HasAES
<1>. QED BY <1>1, <1>2, <1>3, <1>4, UpdateKeys

\* No other step of a handler touches a key, or answers with one.
LEMMA OtherHandlers ==
    ASSUME TypeOK, AnswerMatches, Handles, ServerNext,
           ~SavePublicKey, ~SaveAESKey, ~Rekey
    PROVE  /\ \/ UNCHANGED clients
              \/ Registers
              \/ clients' = DeleteClientByName(clients, Name)
              \/ StartServer
           /\ ~StartServer =>
                /\ step' # "keyed"
                /\ step' = "answer" =>
                     answer'.code \notin {PRIVATE_KEY_ENCRYPTION_CODE,
                                          RECONNECT_ACCEPTED}
<1>1. CASE Register
  BY <1>1, KeyCodes
  DEF Register, Registers, Serve, Accepted, Answer, Goto, Bare
<1>2. CASE Deny
  BY <1>2, KeyCodes DEF Deny, Answer, Goto, Bare
<1>3. CASE RefuseName \/ RejectCipher \/ PrintRaises \/ RecordRaises \/ DiskFails
           \/ Verify \/ AcknowledgeFatal
  BY <1>3, KeyCodes DEF RefuseName, RejectCipher, PrintRaises, RecordRaises,
     DiskFails, Verify, AcknowledgeFatal, Answer, Goto, Bare
<1>4. CASE RecordFile
  BY <1>4, KeyCodes DEF RecordFile, Answer, Goto, AnswerMatches
<1>5. CASE Block \/ OpenFile \/ WriteFile
  BY <1>5 DEF Block, OpenFile, WriteFile, Goto
<1>6. CASE RegisterRaises \/ UnknownSender \/ IgnoreRepeat \/ SendAnswer
           \/ ShortRequest \/ DecodeRaises \/ PeerReset \/ Crash
  BY <1>6 DEF RegisterRaises, UnknownSender, IgnoreRepeat, SendAnswer,
     ShortRequest, DecodeRaises, PeerReset, Crash, Die, Close
<1>. QED BY <1>1, <1>2, <1>3, <1>4, <1>5, <1>6
         DEF ServerNext, ServerSteps, ServerEvents

\* Nor does the end of a connection or of the process.
LEMMA EndsKeepTable ==
    ASSUME TypeOK, ServerNext, step' = "ready", ~StartServer
    PROVE  UNCHANGED clients
<1>1. CASE Register \/ RefuseName \/ Deny \/ Rekey \/ SaveAESKey \/ RejectCipher
           \/ PrintRaises \/ RecordRaises \/ DiskFails \/ RecordFile
           \/ Verify \/ AcknowledgeFatal
  BY <1>1 DEF Register, RefuseName, Deny, Rekey, SaveAESKey, RejectCipher,
     PrintRaises, RecordRaises, DiskFails, RecordFile, Verify, AcknowledgeFatal,
     Answer, Goto
<1>2. CASE SavePublicKey \/ Block \/ OpenFile \/ WriteFile
  BY <1>2 DEF SavePublicKey, Block, OpenFile, WriteFile, Goto
<1>3. CASE RegisterRaises \/ UnknownSender \/ IgnoreRepeat \/ SendAnswer
           \/ ShortRequest \/ DecodeRaises \/ PeerReset \/ Crash
  BY <1>3 DEF RegisterRaises, UnknownSender, IgnoreRepeat, SendAnswer,
     ShortRequest, DecodeRaises, PeerReset, Crash
<1>. QED BY <1>1, <1>2, <1>3 DEF ServerNext, ServerSteps, ServerEvents

\* The answer that a client receives is about the key in the table.
LEMMA ClosesKeys ==
    ASSUME TypeOK, QueueOrder, KeysMatch, Closes, UNCHANGED clients
    PROVE  KeysMatch'
<1>1. PICK reply \in Reply :
         /\ \/ step = "answer" /\ reply = answer
            \/ reply.code \in Refusal
         /\ Finish(reply)
  BY DEF Closes
<1>2. /\ UNCHANGED <<pc, me, mem, runs>> /\ step' = "ready"
      /\ queue' = Tail(queue)
      /\ \A d \in Client :
           \/ inbox'[d] = inbox[d]
           \/ inbox'[d] = reply /\ d = Served.from /\ Live(Served)
  BY <1>1 DEF Closes, Finish, clientVars, TypeOK, NetTypeOK, Served
<1>3. /\ Served = queue[1] /\ 1 \in DOMAIN queue
      /\ \A k \in DOMAIN queue' : k + 1 \in DOMAIN queue
                                  /\ queue'[k] = queue[k + 1]
  BY <1>2, TailFacts DEF Closes, TypeOK
<1>4. MeInfoMatches' /\ KeyRequestMatches'
  BY <1>2, <1>3 DEF KeysMatch, MeInfoMatches, KeyRequestMatches
<1>5. KeyAnswerMatches'
  BY <1>2 DEF KeyAnswerMatches
<1>6. KeyAgreement' /\ KeyPairAgreement'
  BY <1>2 DEF KeysMatch, KeyAgreement, KeyPairAgreement, InSession
<1>7. KeyArrives'
  <2>1. ASSUME NEW d \in Client, KeyArrived(d)',
               inbox'[d] = reply, d = Served.from, Live(Served)
        PROVE  /\ step = "answer" /\ reply = answer /\ Sender = mem[d].id
               /\ pc[d] # "off" /\ queue[1].from = d
    <3>1. pc[d] # "off" /\ reply.code \notin Refusal
      BY <1>2, <2>1, KeyCodes DEF KeyArrived
    <3>2. Current(d, 1)
      BY <1>3, <2>1 DEF Current, Live
    <3>. QED BY <1>1, <1>3, <2>1, <3>1, <3>2
             DEF QueueOrder, RequestMatches, Sender, Current
  <2>2. ASSUME NEW d \in Client, pc[d] = "key",
               inbox'[d].code = PRIVATE_KEY_ENCRYPTION_CODE
        PROVE  HasPair(mem[d].id, mem[d].pair) /\ HasAES(mem[d].id, inbox'[d].aes)
    <3>1. CASE inbox'[d] = inbox[d]
      BY <2>2, <3>1 DEF KeysMatch, KeyArrives
    <3>2. CASE inbox'[d] = reply /\ d = Served.from /\ Live(Served)
      <4>1. /\ step = "answer" /\ reply = answer /\ Sender = mem[d].id
            /\ queue[1].from = d
        BY <1>2, <2>1, <2>2, <3>2 DEF KeyArrived
      <4>2. /\ Served.code = PUBLIC_KEY_SENDING_REQUEST_CODE
            /\ HasPair(Sender, Served.pair) /\ HasAES(Sender, answer.aes)
        BY <2>2, <3>2, <4>1 DEF KeysMatch, KeyAnswerMatches
      <4>3. Served.pair = mem[d].pair
        BY <1>3, <2>2, <4>1, <4>2 DEF KeysMatch, KeyRequestMatches
      <4>. QED BY <3>2, <4>1, <4>2, <4>3
    <3>. QED BY <1>2, <3>1, <3>2
  <2>3. ASSUME NEW d \in Client, pc[d] = "reconnect",
               inbox'[d].code = RECONNECT_ACCEPTED
        PROVE  HasAES(mem[d].id, inbox'[d].aes)
    <3>1. CASE inbox'[d] = inbox[d]
      BY <2>3, <3>1 DEF KeysMatch, KeyArrives
    <3>2. CASE inbox'[d] = reply /\ d = Served.from /\ Live(Served)
      <4>1. step = "answer" /\ reply = answer /\ Sender = mem[d].id
        BY <1>2, <2>1, <2>3, <3>2 DEF KeyArrived
      <4>. QED BY <2>3, <3>2, <4>1 DEF KeysMatch, KeyAnswerMatches
    <3>. QED BY <1>2, <3>1, <3>2
  <2>. QED BY <1>2, <2>2, <2>3 DEF KeyArrives, HasPair, HasAES
<1>. QED BY <1>4, <1>5, <1>6, <1>7 DEF KeysMatch

\* The end of the server sends no key.
LEMMA DiesKeys ==
    ASSUME TypeOK, KeysMatch, Dies, UNCHANGED clients
    PROVE  KeysMatch'
<1>1. PICK reply \in Reply : reply.code \in Refusal /\ ServerStops(reply)
  BY DEF Dies
<1>2. /\ UNCHANGED <<pc, me, mem, runs>> /\ step' = "ready"
      /\ DOMAIN queue' = {}
      /\ \A d \in Client : inbox'[d] = inbox[d] \/ inbox'[d].code \in Refusal
  BY <1>1, EmptySeq, LenProperties
  DEF Dies, ServerStops, clientVars, Refusal, Bare
<1>3. MeInfoMatches' /\ KeyRequestMatches' /\ KeyAnswerMatches'
  BY <1>2 DEF KeysMatch, MeInfoMatches, KeyRequestMatches, KeyAnswerMatches
<1>4. KeyAgreement' /\ KeyPairAgreement'
  BY <1>2 DEF KeysMatch, KeyAgreement, KeyPairAgreement, InSession
<1>5. KeyArrives'
  BY <1>2, KeyCodes DEF KeysMatch, KeyArrives, HasPair, HasAES
<1>. QED BY <1>3, <1>4, <1>5 DEF KeysMatch

\* A start of the server keeps the table, or empties it.
LEMMA StartServerKeys ==
    ASSUME TypeOK, OwnIds, KeysMatch, StartServer, UNCHANGED clientVars
    PROVE  KeysMatch'
<1>1. /\ UNCHANGED <<queue, inbox, runs, step, answer>>
      /\ DOMAIN clients' = {} \/ clients' = clients
  BY DEF StartServer, NoClients
<1>2. KeyAnswerMatches'
  <2>1. Served' = Served /\ Sender' = Sender /\ Name' = Name
    BY <1>1 DEF Served, Sender, Name
  <2>. QED BY <1>1, <2>1 DEF KeysMatch, KeyAnswerMatches, HasPair, HasAES
<1>. QED BY <1>1, <1>2, KeepKeys

\* So no step of the server breaks the agreement.
LEMMA ServerKeys ==
    ASSUME NamesDiffer, SqliteWorks, DeliveryInv, TypeOK', TableMatches,
           KeysMatch, ServerNext
    PROVE  KeysMatch'
<1>0. /\ TypeOK /\ QueueOrder /\ OwnIds /\ HasId /\ AnswerMatches
      /\ UNCHANGED clientVars
  BY DEF DeliveryInv, ServerNext
<1>1. CASE SavePublicKey \/ SaveAESKey \/ Rekey
  BY <1>0, <1>1, SavePublicKeyKeys, SaveAESKeyKeys, RekeyKeys
<1>2. CASE StartServer
  BY <1>0, <1>2, StartServerKeys
<1>3. CASE Handles /\ ~(SavePublicKey \/ SaveAESKey \/ Rekey \/ StartServer)
  <2>1. KeyAnswerMatches'
    BY <1>0, <1>3, OtherHandlers DEF KeyAnswerMatches
  <2>2. UNCHANGED <<queue, inbox, runs>>
    BY <1>3 DEF Handles, connVars
  <2>3. \A id \in 0 .. drawn : id \in DOMAIN clients' =>
           id \in DOMAIN clients /\ clients'[id] = clients[id]
    <3>1. CASE Registers
      <4>1. drawn + 1 \notin 0 .. drawn
        BY <1>0 DEF TypeOK, ServerTypeOK
      <4>. QED BY <3>1, <4>1 DEF Registers, RegisterClient
    <3>2. CASE clients' = DeleteClientByName(clients, Name)
      BY <3>2 DEF DeleteClientByName
    <3>. QED BY <1>0, <1>3, <3>1, <3>2, OtherHandlers
  <2>. QED BY <1>0, <2>1, <2>2, <2>3, KeepKeys
<1>4. CASE Closes /\ ~StartServer
  BY <1>0, <1>4, EndsKeepTable, ClosesKeys DEF Closes
<1>5. CASE Dies /\ ~StartServer
  BY <1>0, <1>5, EndsKeepTable, DiesKeys DEF Dies
<1>. QED BY <1>0, <1>1, <1>2, <1>3, <1>4, <1>5, ServerKinds

-----------------------------------------------------------------------------
\* The invariant holds at the start ...
LEMMA InitExchange == Init => ExchangeInv
<1> SUFFICES ASSUME Init PROVE ExchangeInv
  OBVIOUS
<1>1. /\ DOMAIN queue = {} /\ DOMAIN clients = {} /\ step = "ready"
      /\ \A c \in Client : pc[c] = "off" /\ me[c].pair = NoPair
  BY EmptySeq, LenProperties
  DEF Init, NetInit, ClientInit, ServerInit, NoClients, NoMeInfo
<1>2. TableMatches
  BY <1>1 DEF TableMatches
<1>3. KeysMatch
  BY <1>1 DEF KeysMatch, MeInfoMatches, KeyRequestMatches, KeyAnswerMatches,
              KeyArrives, KeyAgreement, KeyPairAgreement, InSession
<1>. QED BY <1>2, <1>3, InitDelivery DEF ExchangeInv

\* ... and is kept by every step.
LEMMA NextExchange ==
    ASSUME NamesDiffer, SqliteWorks, ExchangeInv, TypeOK', [Next]_vars
    PROVE  ExchangeInv'
<1>0. DeliveryInv /\ TableMatches /\ KeysMatch /\ TypeOK /\ QueueOrder
  BY DEF ExchangeInv, DeliveryInv
<1>1. DeliveryInv' /\ TableMatches'
  BY <1>0, NextDelivery, NextTable
<1>2. ASSUME NEW c \in Client, ClientNext(c) PROVE KeysMatch'
  BY <1>0, <1>2, ClientKeys
<1>3. ASSUME ServerNext PROVE KeysMatch'
  BY <1>0, <1>3, ServerKeys
<1>4. ASSUME UNCHANGED vars PROVE KeysMatch'
  BY <1>0, <1>4 DEF vars, netVars, clientVars, serverVars, KeysMatch,
     MeInfoMatches, KeyRequestMatches, KeyAnswerMatches, KeyArrives, HasPair,
     HasAES, KeyAgreement, KeyPairAgreement, InSession, Served, Sender, Name
<1>5. KeysMatch'
  BY <1>2, <1>3, <1>4 DEF Next, Rest, Hang
<1>. QED BY <1>1, <1>5 DEF ExchangeInv

\* If names differ and sqlite works, requests, answers, me.info and the table
\* go together at every step of a key exchange.
THEOREM ExchangeCorrect ==
    ASSUME NamesDiffer, SqliteWorks
    PROVE  Spec => []ExchangeInv
<1>1. Init => ExchangeInv
  BY InitExchange
<1>2. ExchangeInv /\ TypeOK' /\ [Next]_vars => ExchangeInv'
  BY NextExchange
<1>. QED BY <1>1, <1>2, TypeCorrect, PTL DEF Spec

\* A client in a session has the AES key of its row in the table.
THEOREM KeysAgree ==
    ASSUME NamesDiffer, SqliteWorks
    PROVE  Spec => []KeyAgreement
<1>1. ExchangeInv => KeyAgreement
  BY DEF ExchangeInv, KeysMatch
<1>. QED BY <1>1, ExchangeCorrect, PTL

\* The private key of a client belongs to the public key of its row.
THEOREM KeyPairsAgree ==
    ASSUME NamesDiffer, SqliteWorks
    PROVE  Spec => []KeyPairAgreement
<1>1. ExchangeInv => KeyPairAgreement
  BY DEF ExchangeInv, KeysMatch
<1>. QED BY <1>1, ExchangeCorrect, PTL

-----------------------------------------------------------------------------
(***************************************************************************)
(* What a denied reconnection deletes.                                     *)
(***************************************************************************)
\* A running server removes a row only when it denies a reconnection, and that
\* row is of the name of the request.
LEMMA OnlyDenyDeletes ==
    ASSUME TypeOK, SqliteWorks, ServerNext, listening,
           NEW id \in DOMAIN clients, id \notin DOMAIN clients'
    PROVE  /\ queue # << >> /\ Served.code = RECONNECT_REQUEST_CODE
           /\ ~Recognised
           /\ clients[id].name = Name
<1>1. CASE Deny
  BY <1>1 DEF Deny, Serve, Accepted, Fault, SqliteWorks, DeleteClientByName
<1>2. CASE Register
  BY <1>2 DEF Register, RegisterClient
<1>3. CASE SavePublicKey \/ SaveAESKey \/ Rekey
  <2>1. \/ UNCHANGED clients
        \/ \E i, value : \/ clients' = UpdatePublicKey(clients, i, value)
                         \/ clients' = UpdateAESKey(clients, i, value)
    BY <1>3 DEF SavePublicKey, SaveAESKey, Rekey
  <2>. QED BY <2>1, UpdateNames
<1>4. CASE StartServer
  BY <1>4 DEF StartServer
<1>5. CASE \/ RefuseName \/ RegisterRaises \/ Block \/ UnknownSender
           \/ RejectCipher \/ OpenFile \/ WriteFile \/ RecordFile \/ PrintRaises
           \/ RecordRaises \/ DiskFails \/ Verify \/ AcknowledgeFatal
           \/ IgnoreRepeat \/ SendAnswer \/ ShortRequest \/ DecodeRaises
           \/ PeerReset \/ Crash
  BY <1>5 DEF RefuseName, RegisterRaises, Block, UnknownSender, RejectCipher,
     OpenFile, WriteFile, RecordFile, PrintRaises, RecordRaises, DiskFails,
     Verify, AcknowledgeFatal, IgnoreRepeat, SendAnswer, ShortRequest,
     DecodeRaises, PeerReset, Crash
<1>. QED BY <1>1, <1>2, <1>3, <1>4, <1>5
         DEF ServerNext, ServerSteps, ServerEvents

\* It is neither the sender's row nor that of an identifier in a me.info.
LEMMA DeletedIsOrphan ==
    ASSUME NamesDiffer, SqliteWorks, ExchangeInv, ServerNext, listening,
           NEW id \in DOMAIN clients, id \notin DOMAIN clients'
    PROVE  Sender # id /\ \A c \in Client : me[c].id # id
<1>0. TypeOK /\ TableMatches /\ KeysMatch
  BY DEF ExchangeInv, DeliveryInv
<1>1. /\ queue # << >> /\ Served.code = RECONNECT_REQUEST_CODE
      /\ ~Recognised /\ clients[id].name = Name
  BY <1>0, OnlyDenyDeletes
<1>2. /\ Served = queue[1] /\ 1 \in DOMAIN queue /\ Served.from \in Client
  BY <1>0, <1>1, TailFacts, QueueType DEF TypeOK
<1>3. me[Served.from].id = Sender /\ me[Served.from].pair # NoPair
  BY <1>0, <1>1, <1>2 DEF KeysMatch, KeyRequestMatches, Sender
<1>4. Sender # id
  <2>1. SUFFICES ASSUME Sender = id PROVE FALSE
    OBVIOUS
  <2>2. clients[Sender].pk # NoPair
    BY <1>0, <1>2, <1>3, <2>1 DEF KeysMatch, KeyPairAgreement
  <2>3. HasName(clients, Name) /\ GetIdByName(clients, Name) = Sender
    BY <1>0, <1>1, <2>1, SenderRow DEF HasName
  <2>. QED BY <1>1, <2>2, <2>3 DEF Recognised, IsValidRSAPublicKey
<1>5. ASSUME NEW c \in Client, me[c].id = id PROVE FALSE
  <2>1. c # Served.from
    BY <1>3, <1>4, <1>5
  <2>. QED BY <1>0, <1>1, <1>5, <2>1, OtherRow
<1>. QED BY <1>4, <1>5

\* Of the steps of the system, only the server's remove rows.
LEMMA OnlyServerDeletes ==
    ASSUME [Next]_vars, DOMAIN clients' # DOMAIN clients
    PROVE  ServerNext
BY DEF Next, ClientNext, Rest, Hang, vars, serverVars

\* A denied reconnection deletes no row whose identifier a client has in its
\* me.info.
THEOREM DenialsAreOfOrphans ==
    ASSUME NamesDiffer, SqliteWorks
    PROVE  Spec => DenialsDeleteOrphans
<1>1. ExchangeInv /\ [Next]_vars =>
         [\A id \in DOMAIN clients :
             listening /\ id \notin DOMAIN clients' =>
                 \A c \in Client : me[c].id # id]_vars
  BY DeletedIsOrphan, OnlyServerDeletes
<1>. QED BY <1>1, ExchangeCorrect, PTL DEF Spec, DenialsDeleteOrphans

\* The request of a client that is in a session is no 827.
LEMMA InSessionNo827 ==
    ASSUME NEW c \in Client, ExchangeInv, InSession(c), queue # << >>,
           Served.code = RECONNECT_REQUEST_CODE
    PROVE  Served.from # c
<1>0. TypeOK /\ QueueOrder /\ KeysMatch
  BY DEF ExchangeInv, DeliveryInv
<1>1. Served = queue[1] /\ 1 \in DOMAIN queue
  BY <1>0, TailFacts, QueueType DEF TypeOK
<1>2. ASSUME Served.from = c PROVE FALSE
  <2>1. Current(c, 1)
    BY <1>0, <1>1, <1>2
    DEF QueueOrder, NothingStale, Mine, Settled, InSession
  <2>2. pc[c] \in {"off", "reconnect"}
    BY <1>0, <1>1, <1>2, <2>1 DEF Current, KeysMatch, KeyRequestMatches
  <2>. QED BY <2>2 DEF InSession
<1>. QED BY <1>2

\* So a denied reconnection is of another client, whose name is not in this row.
LEMMA SessionRowStays ==
    ASSUME NamesDiffer, SqliteWorks, ExchangeInv, ServerNext, listening,
           NEW c \in Client, InSession(c), mem[c].id \in DOMAIN clients
    PROVE  mem[c].id \in DOMAIN clients'
<1>0. TypeOK /\ TableMatches /\ HasId /\ QueueOrder
  BY DEF ExchangeInv, DeliveryInv
<1>1. SUFFICES ASSUME mem[c].id \notin DOMAIN clients' PROVE FALSE
  OBVIOUS
<1>2. /\ queue # << >> /\ Served.code = RECONNECT_REQUEST_CODE
      /\ clients[mem[c].id].name = Name
  BY <1>0, <1>1, OnlyDenyDeletes
<1>3. Served.from \in Client
  BY <1>0, <1>2, TailFacts, QueueType DEF TypeOK
<1>4. clients[mem[c].id].name = NameOf[c]
  <2>1. mem[c].id # 0
    BY <1>0 DEF HasId, InSession
  <2>2. mem[c].id \in IdsOf(c)
    BY <2>1 DEF IdsOf
  <2>. QED BY <1>0, <2>2 DEF TableMatches
<1>5. Served.from = c
  BY <1>2, <1>3, <1>4 DEF NamesDiffer, Name
<1>. QED BY <1>2, <1>5, InSessionNo827

\* The row of a client in a session is removed by no step of a running server.
THEOREM SessionRowsSurvive ==
    ASSUME NamesDiffer, SqliteWorks
    PROVE  Spec => SessionRowSurvives
<1>1. ExchangeInv /\ [Next]_vars =>
         [\A c \in Client :
             InSession(c) /\ listening /\ mem[c].id \in DOMAIN clients =>
                 mem[c].id \in DOMAIN clients']_vars
  BY SessionRowStays, OnlyServerDeletes
<1>. QED BY <1>1, ExchangeCorrect, PTL DEF Spec, SessionRowSurvives
=============================================================================
