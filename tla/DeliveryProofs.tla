--------------------------- MODULE DeliveryProofs ---------------------------
(***************************************************************************)
(* A reported delivery is on the server's disk and in its database: the    *)
(* proofs of DeliveredIsStored and DeliveredIsRecorded for any clients,    *)
(* names, faults and bounds, and of the refinement of FileDeposit.         *)
(*                                                                         *)
(* The actions are first sorted into a few kinds by what they do to the    *)
(* connections; the invariant is then shown to survive each kind.          *)
(***************************************************************************)
EXTENDS SystemInvariants, SystemProofs

\* The program is started.
Starts(c) ==
    /\ pc[c] = "off"
    /\ UNCHANGED <<queue, inbox, me>>
    /\ runs' = [runs EXCEPT ![c] = @ + 1]
    /\ \E phase \in {"register", "reconnect"}, memory \in Memory :
         /\ pc' = [pc EXCEPT ![c] = phase]
         /\ mem' = [mem EXCEPT ![c] = memory]
         /\ memory.id \in {0, me[c].id}
         /\ phase = "reconnect" => memory.id # 0

\* It sends a request.
Asks(c) ==
    /\ pc[c] # "off"
    /\ Idle(c)
    /\ UNCHANGED <<pc, me, runs>>
    /\ \E request \in Request :
         /\ request.from = c /\ request.run = runs[c] /\ request.id = mem[c].id
         /\ request.code = FILE_SENDING_REQUEST_CODE => pc[c] = "upload"
         /\ queue' = Append(queue, request)
         /\ inbox' = [inbox EXCEPT ![c] = Bare(WAITING)]
    /\ \E memory \in Memory :
         /\ mem' = [mem EXCEPT ![c] = memory]
         /\ memory.id = mem[c].id
         /\ pc[c] # "upload" => memory.sent = mem[c].sent

\* It handles an answer, or a failure, and goes on or ends.
Moves(c) ==
    /\ pc[c] # "off"
    /\ UNCHANGED <<queue, runs>>
    /\ \E phase \in Phase, memory \in Memory :
         /\ Enter(c, phase, memory)
         /\ phase # "off" => inbox[c].code # WAITING
         /\ phase \notin {"off", "register", "reconnect"} => Settled(c)
         /\ phase \notin {"off", "register"} => memory.id # 0
         /\ memory.id \in {0, mem[c].id, Granted(inbox[c])}
         /\ phase = "report" =>
              /\ pc[c] = "upload"
              /\ inbox[c].code = CORRECT_CRC_CODE_RESPONSE
              /\ memory.id = mem[c].id
              /\ memory.sent = mem[c].sent
              /\ memory.sent = inbox[c].sum
         /\ phase = "off" => memory = NewProcess
         /\ pc[c] = "report" => phase = "off"
    /\ \E file \in MeInfoFile :
         /\ me' = [me EXCEPT ![c] = file]
         /\ file.id \in {0, me[c].id, Granted(inbox[c])}

\* The server takes a step of a handler.
Handles ==
    /\ queue # << >>
    /\ UNCHANGED <<connVars, clientVars>>
    /\ drawn' \in Nat /\ drawn <= drawn'
    /\ step' = "answer" /\ Granted(answer') # 0 =>
         drawn' = drawn + 1 /\ Granted(answer') = drawn'
    /\ \/ UNCHANGED store
       \/ /\ Served.code = FILE_SENDING_REQUEST_CODE
          /\ \E content \in Content \cup {Garbage, Truncated} : Write(content)

\* It ends a connection, with the answer of the handler or a refusal ...
Refusal == {RESET, EOF, GENERAL_ERROR_CODE}

Closes ==
    /\ queue # << >>
    /\ UNCHANGED <<clientVars, runs, store, drawn>>
    /\ step' = "ready"
    /\ \E reply \in Reply :
         /\ \/ step = "answer" /\ reply = answer
            \/ reply.code \in Refusal
         /\ Finish(reply)

\* ... or all of them, with itself.
Dies ==
    /\ UNCHANGED <<clientVars, runs, store, drawn>>
    /\ step' = "ready"
    /\ \E reply \in Reply : reply.code \in Refusal /\ ServerStops(reply)

-----------------------------------------------------------------------------
(***************************************************************************)
(* The queue.                                                              *)
(***************************************************************************)
\* A request is appended to the queue ...
LEMMA AppendFacts ==
    ASSUME NetTypeOK, NEW request \in Request, queue' = Append(queue, request)
    PROVE  /\ Len(queue) \in Nat
           /\ DOMAIN queue = 1 .. Len(queue)
           /\ DOMAIN queue' = 1 .. Len(queue) + 1
           /\ \A k \in DOMAIN queue : queue'[k] = queue[k]
           /\ queue'[Len(queue) + 1] = request
BY AppendProperties, LenProperties DEF NetTypeOK

\* ... and removed at its head.
LEMMA TailFacts ==
    ASSUME NetTypeOK, queue # << >>
    PROVE  /\ Len(queue) \in Nat \ {0}
           /\ DOMAIN queue = 1 .. Len(queue)
           /\ DOMAIN Tail(queue) = 1 .. Len(queue) - 1
           /\ \A k \in DOMAIN Tail(queue) : Tail(queue)[k] = queue[k + 1]
           /\ Served = queue[1] /\ 1 \in DOMAIN queue
BY HeadTailProperties, LenProperties, EmptySeq DEF NetTypeOK, Served

\* The requests in the queue are requests of clients.
LEMMA QueueType ==
    ASSUME TypeOK
    PROVE  /\ \A k \in DOMAIN queue :
                 /\ queue[k] \in Request
                 /\ queue[k].from \in Client
                 /\ queue[k].run \in Nat
                 /\ queue[k].id \in Nat
           /\ DOMAIN queue \subseteq Nat
           /\ \A c \in Client : runs[c] \in Nat
<1>1. ASSUME NEW k \in DOMAIN queue PROVE queue[k] \in Request
  BY <1>1, ElementOfSeq, LenProperties DEF TypeOK, NetTypeOK
<1>2. DOMAIN queue \subseteq Nat /\ \A c \in Client : runs[c] \in Nat
  BY LenProperties DEF TypeOK, NetTypeOK
<1>. QED BY <1>1, <1>2 DEF Request

\* A start leaves nothing of the new run in the queue.
LEMMA StartsOrder ==
    ASSUME TypeOK, TypeOK', QueueOrder, NEW c \in Client, Starts(c)
    PROVE  QueueOrder'
<1>1. /\ \A d \in Client : runs'[d] = IF d = c THEN runs[c] + 1 ELSE runs[d]
      /\ inbox' = inbox /\ queue' = queue
      /\ inbox[c].code = NOT_CONNECTED
      /\ \A d \in Client : d # c => pc'[d] = pc[d] /\ mem'[d] = mem[d]
      /\ pc'[c] \in {"register", "reconnect"}
  BY DEF Starts, TypeOK, NetTypeOK, ClientTypeOK
<1>2. RunsInOrder'
  BY <1>1, QueueType DEF QueueOrder, RunsInOrder
<1>3. \A k \in DOMAIN queue : ~Current(c, k)'
  BY <1>1, QueueType DEF QueueOrder, RunsInOrder, Current
<1>4. NothingStale'
  <2>1. ASSUME NEW d \in Client, d # c
        PROVE  /\ \A k \in DOMAIN queue :
                     (Current(d, k)' <=> Current(d, k)) /\ (Mine(d, k)' <=> Mine(d, k))
               /\ Settled(d)' <=> Settled(d)
    BY <1>1, <2>1 DEF Current, Mine, Settled
  <2>2. ~Settled(c)'
    BY <1>1 DEF Settled
  <2>. QED BY <1>1, <1>3, <2>1, <2>2
           DEF QueueOrder, NothingStale, NOT_CONNECTED, WAITING
<1>5. RequestMatches'
  BY <1>1, <1>3 DEF QueueOrder, RequestMatches, Current
<1>. QED BY <1>2, <1>4, <1>5 DEF QueueOrder

\* A process that is not waiting has no request in the queue, so the one it
\* sends is its only one, and the youngest of its installation.
LEMMA AsksOrder ==
    ASSUME TypeOK, TypeOK', QueueOrder, NEW c \in Client, Asks(c)
    PROVE  QueueOrder'
<1>1. PICK request \in Request :
         /\ request.from = c /\ request.run = runs[c] /\ request.id = mem[c].id
         /\ request.code = FILE_SENDING_REQUEST_CODE => pc[c] = "upload"
         /\ queue' = Append(queue, request)
         /\ inbox' = [inbox EXCEPT ![c] = Bare(WAITING)]
  BY DEF Asks
<1>2. PICK n \in Nat :
      /\ DOMAIN queue = 1 .. n - 1
      /\ DOMAIN queue' = 1 .. n
      /\ \A k \in 1 .. n - 1 : queue'[k] = queue[k]
      /\ queue'[n] = request
  <2>1. Len(queue) + 1 \in Nat /\ Len(queue) + 1 - 1 = Len(queue)
    BY <1>1, AppendFacts DEF TypeOK
  <2>. QED BY <1>1, <2>1, AppendFacts DEF TypeOK
<1>3. /\ runs' = runs /\ pc' = pc
      /\ \A d \in Client : mem'[d].id = mem[d].id
      /\ \A d \in Client : d # c => inbox'[d] = inbox[d]
      /\ inbox'[c].code = WAITING
      /\ inbox[c].code = NOT_CONNECTED
      /\ pc[c] # "off"
  BY <1>1 DEF Asks, TypeOK, NetTypeOK, ClientTypeOK, Idle, Bare
<1>4. \A k \in DOMAIN queue : ~Current(c, k)
  BY <1>3 DEF QueueOrder, NothingStale, NOT_CONNECTED, WAITING
<1>5. RunsInOrder'
  <2>1. \A k \in 1 .. n : queue'[k].run <= runs'[queue'[k].from]
    BY <1>1, <1>2, <1>3, QueueType DEF QueueOrder, RunsInOrder
  <2>2. \A j \in 1 .. n - 1 : queue[j].from = c => queue[j].run < request.run
    BY <1>1, <1>2, <1>4, QueueType DEF QueueOrder, RunsInOrder, Current
  <2>3. ASSUME NEW j \in 1 .. n, NEW k \in 1 .. n, j < k,
               queue'[j].from = queue'[k].from
        PROVE  queue'[j].run < queue'[k].run
    <3>1. j \in 1 .. n - 1
      BY <1>2, <2>3
    <3>2. CASE k = n
      BY <1>1, <1>2, <2>2, <2>3, <3>1, <3>2
    <3>3. CASE k # n
      <4>1. k \in 1 .. n - 1
        BY <1>2, <3>3
      <4>. QED BY <1>2, <2>3, <3>1, <4>1 DEF QueueOrder, RunsInOrder
    <3>. QED BY <3>2, <3>3
  <2>. QED BY <1>2, <2>1, <2>3 DEF RunsInOrder
<1>6. /\ n \in DOMAIN queue' /\ Current(c, n)'
      /\ \A k \in DOMAIN queue' : k # n => k \in DOMAIN queue
      /\ \A d \in Client : d # c => ~Mine(d, n)' /\ ~Current(d, n)'
      /\ \A d \in Client, k \in DOMAIN queue :
           /\ k \in DOMAIN queue'
           /\ Current(d, k)' <=> Current(d, k)
           /\ Mine(d, k)' <=> Mine(d, k)
  BY <1>1, <1>2, <1>3 DEF Current, Mine
<1>7. NothingStale'
  <2>1. ASSUME NEW d \in Client, d # c, pc'[d] # "off"
        PROVE  (\E k \in DOMAIN queue' : Current(d, k)')
                  <=> inbox'[d].code = WAITING
    BY <1>3, <1>6, <2>1 DEF QueueOrder, NothingStale
  <2>2. ASSUME NEW d \in Client, Settled(d)', NEW k \in DOMAIN queue',
               Mine(d, k)'
        PROVE  Current(d, k)'
    <3>1. Settled(d)
      BY <1>3, <2>2 DEF Settled, WAITING
    <3>2. CASE k = n
      BY <1>6, <2>2, <3>2
    <3>3. CASE k # n
      BY <1>6, <2>2, <3>1, <3>3 DEF QueueOrder, NothingStale
    <3>. QED BY <3>2, <3>3
  <2>. QED BY <1>3, <1>6, <2>1, <2>2 DEF NothingStale
<1>8. RequestMatches'
  <2>1. ASSUME NEW d \in Client, NEW k \in DOMAIN queue',
               pc'[d] # "off", Current(d, k)'
        PROVE  /\ queue'[k].id = mem'[d].id
               /\ queue'[k].code = FILE_SENDING_REQUEST_CODE =>
                    pc'[d] = "upload"
    <3>1. CASE k = n
      BY <1>1, <1>2, <1>3, <1>6, <2>1, <3>1
    <3>2. CASE k # n
      BY <1>2, <1>3, <1>6, <2>1, <3>2 DEF QueueOrder, RequestMatches
    <3>. QED BY <3>1, <3>2
  <2>. QED BY <2>1 DEF RequestMatches
<1>. QED BY <1>5, <1>7, <1>8 DEF QueueOrder

\* A process that goes on has had an answer, or has none to wait for.
LEMMA MovesOrder ==
    ASSUME TypeOK, TypeOK', QueueOrder, NEW c \in Client, Moves(c)
    PROVE  QueueOrder'
<1>1. PICK phase \in Phase, memory \in Memory :
         /\ Enter(c, phase, memory)
         /\ phase # "off" => inbox[c].code # WAITING
         /\ phase \notin {"off", "register", "reconnect"} => Settled(c)
  BY DEF Moves
<1>2. /\ queue' = queue /\ runs' = runs /\ pc[c] # "off"
      /\ pc'[c] = phase
      /\ inbox'[c].code = NOT_CONNECTED
      /\ \A d \in Client : d # c =>
            pc'[d] = pc[d] /\ mem'[d] = mem[d] /\ inbox'[d] = inbox[d]
  BY <1>1 DEF Moves, Enter, Disconnect, TypeOK, NetTypeOK, ClientTypeOK, Bare
<1>3. RunsInOrder'
  BY <1>2 DEF QueueOrder, RunsInOrder
<1>4. ASSUME NEW d \in Client
      PROVE  /\ \A k \in DOMAIN queue :
                   (Current(d, k)' <=> Current(d, k)) /\ (Mine(d, k)' <=> Mine(d, k))
             /\ Settled(d)' => Settled(d)
  BY <1>1, <1>2 DEF Current, Mine, Settled, Phase
<1>5. phase # "off" => \A k \in DOMAIN queue : ~Current(c, k)
  BY <1>1, <1>2 DEF QueueOrder, NothingStale
<1>6. NothingStale'
  BY <1>2, <1>4, <1>5 DEF QueueOrder, NothingStale, NOT_CONNECTED, WAITING
<1>7. RequestMatches'
  BY <1>2, <1>4, <1>5 DEF QueueOrder, RequestMatches
<1>. QED BY <1>3, <1>6, <1>7 DEF QueueOrder

\* When the answer to a running process is sent, no request of an earlier run
\* of its installation is left.
LEMMA ClosesOrder ==
    ASSUME TypeOK, TypeOK', QueueOrder, AnswerMatches, Closes
    PROVE  QueueOrder'
<1>1. PICK reply \in Reply :
         /\ \/ step = "answer" /\ reply = answer
            \/ reply.code \in Refusal
         /\ Finish(reply)
  BY DEF Closes
<1>2. reply.code \notin {NOT_CONNECTED, WAITING}
  BY <1>1 DEF AnswerMatches, Refusal, NOT_CONNECTED, WAITING, RESET, EOF,
              GENERAL_ERROR_CODE
<1>3. PICK n \in Nat \ {0} :
      /\ DOMAIN queue = 1 .. n
      /\ DOMAIN queue' = 1 .. n - 1
      /\ \A k \in 1 .. n - 1 : queue'[k] = queue[k + 1]
      /\ Head(queue) = queue[1]
  BY <1>1, TailFacts DEF Closes, Finish, TypeOK, Served
<1>4. PICK h \in Client : h = queue[1].from
  BY <1>3, QueueType
<1>4a. /\ runs' = runs /\ pc' = pc /\ mem' = mem
      /\ \A d \in Client : inbox'[d] = IF Live(queue[1]) /\ d = h
                                       THEN reply ELSE inbox[d]
  BY <1>1, <1>3, <1>4 DEF Closes, Finish, clientVars, TypeOK, NetTypeOK
<1>5. \A d \in Client, k \in 1 .. n - 1 :
         /\ k + 1 \in 1 .. n /\ 1 < k + 1
         /\ Current(d, k)' <=> Current(d, k + 1)
         /\ Mine(d, k)' <=> Mine(d, k + 1)
  BY <1>3, <1>4, <1>4a DEF Current, Mine
<1>6. RunsInOrder'
  <2>1. \A k \in DOMAIN queue' : queue'[k].run <= runs'[queue'[k].from]
    BY <1>3, <1>4, <1>4a, <1>5 DEF QueueOrder, RunsInOrder
  <2>2. ASSUME NEW j \in DOMAIN queue', NEW k \in DOMAIN queue', j < k,
               queue'[j].from = queue'[k].from
        PROVE  queue'[j].run < queue'[k].run
    <3>1. /\ j + 1 \in DOMAIN queue /\ k + 1 \in DOMAIN queue /\ j + 1 < k + 1
          /\ queue'[j] = queue[j + 1] /\ queue'[k] = queue[k + 1]
      BY <1>3, <2>2
    <3>. QED BY <2>2, <3>1 DEF QueueOrder, RunsInOrder
  <2>. QED BY <2>1, <2>2 DEF RunsInOrder
<1>7. Live(queue[1]) => \A k \in 1 .. n - 1 : ~Mine(h, k + 1)
  <2>1. ASSUME Live(queue[1]), NEW k \in 1 .. n - 1, Mine(h, k + 1)
        PROVE  FALSE
    <3>1. k + 1 \in DOMAIN queue /\ 1 \in DOMAIN queue /\ 1 < k + 1
      BY <1>3
    <3>2. queue[1].run < queue[k + 1].run /\ queue[k + 1].run <= runs[h]
      BY <1>4, <2>1, <3>1 DEF QueueOrder, RunsInOrder, Mine
    <3>3. queue[1].run = runs[h]
      BY <1>4, <2>1 DEF Live
    <3>. QED BY <1>4, <1>4a, <3>1, <3>2, <3>3, QueueType
  <2>. QED BY <2>1
<1>8. ASSUME NEW d \in Client, ~(Live(queue[1]) /\ d = h)
      PROVE  /\ inbox'[d] = inbox[d]
             /\ Settled(d)' <=> Settled(d)
             /\ pc[d] # "off" => ~Current(d, 1)
  <2>1. inbox'[d] = inbox[d]
    BY <1>4, <1>4a, <1>8
  <2>2. ASSUME pc[d] # "off", Current(d, 1) PROVE FALSE
    <3>1. inbox[d].code = WAITING
      BY <1>3, <2>2 DEF QueueOrder, NothingStale
    <3>. QED BY <1>4, <1>8, <2>2, <3>1 DEF Current, Live
  <2>. QED BY <1>4, <1>4a, <2>1, <2>2 DEF Settled
<1>9. NothingStale'
  <2>1. ASSUME NEW d \in Client
        PROVE  /\ pc'[d] # "off" =>
                    ((\E k \in DOMAIN queue' : Current(d, k)')
                        <=> inbox'[d].code = WAITING)
               /\ Settled(d)' =>
                    \A k \in DOMAIN queue' : Mine(d, k)' => Current(d, k)'
    <3>1. CASE Live(queue[1]) /\ d = h
      <4>1. \A k \in 1 .. n - 1 : ~Mine(d, k)' /\ ~Current(d, k)'
        BY <1>5, <1>7, <3>1 DEF Mine, Current
      <4>. QED BY <1>2, <1>3, <1>4, <1>4a, <3>1, <4>1
    <3>2. CASE ~(Live(queue[1]) /\ d = h)
      <4>1. ASSUME pc[d] # "off"
            PROVE  (\E k \in 1 .. n - 1 : Current(d, k)')
                      <=> \E k \in 1 .. n : Current(d, k)
        <5>1. \A k \in 1 .. n : k # 1 => k - 1 \in 1 .. n - 1 /\ k = (k - 1) + 1
          BY <1>3
        <5>. QED BY <1>5, <1>8, <3>2, <4>1, <5>1
      <4>2. ASSUME Settled(d)', NEW k \in 1 .. n - 1, Mine(d, k)'
            PROVE  Current(d, k)'
        BY <1>3, <1>5, <1>8, <3>2, <4>2 DEF QueueOrder, NothingStale
      <4>. QED BY <1>3, <1>4, <1>4a, <1>8, <3>2, <4>1, <4>2
               DEF QueueOrder, NothingStale
    <3>. QED BY <3>1, <3>2
  <2>. QED BY <2>1 DEF NothingStale
<1>10. RequestMatches'
  <2>1. ASSUME NEW d \in Client, NEW k \in 1 .. n - 1,
               pc'[d] # "off", Current(d, k)'
        PROVE  /\ queue'[k].id = mem'[d].id
               /\ queue'[k].code = FILE_SENDING_REQUEST_CODE =>
                    pc'[d] = "upload"
    BY <1>3, <1>4, <1>4a, <1>5, <2>1 DEF QueueOrder, RequestMatches
  <2>. QED BY <1>3, <2>1 DEF RequestMatches
<1>. QED BY <1>6, <1>9, <1>10 DEF QueueOrder

\* The end of the server leaves no request and nobody who waits.
LEMMA DiesOrder ==
    ASSUME TypeOK, TypeOK', QueueOrder, Dies
    PROVE  QueueOrder'
<1>1. PICK reply \in Reply : reply.code \in Refusal /\ ServerStops(reply)
  BY DEF Dies
<1>2. queue' = << >> /\ DOMAIN queue' = {}
  BY <1>1, EmptySeq, LenProperties DEF ServerStops
<1>3. \A d \in Client : inbox'[d].code # WAITING
  BY <1>1 DEF ServerStops, Refusal, Bare, WAITING, RESET, EOF,
              GENERAL_ERROR_CODE
<1>. QED BY <1>2, <1>3
         DEF QueueOrder, RunsInOrder, NothingStale, RequestMatches

-----------------------------------------------------------------------------
(***************************************************************************)
(* The identifiers.                                                        *)
(***************************************************************************)
\* Clients that learn no identifier they did not know keep theirs apart.
LEMMA KeptIds ==
    ASSUME TypeOK, OwnIds, drawn' = drawn,
           \A d \in Client : IdsOf(d)' \subseteq IdsOf(d)
    PROVE  OwnIds'
BY DEF TypeOK, ServerTypeOK, OwnIds

\* Only a response 1600 gives an identifier.
LEMMA GrantedCases ==
    /\ \A reply : reply.code \in Refusal => Granted(reply) = 0
    /\ Granted(Bare(NOT_CONNECTED)) = 0
    /\ Granted(Bare(WAITING)) = 0
    /\ Granted(Bare(RESET)) = 0
BY DEF Granted, Refusal, Bare, NOT_CONNECTED, WAITING, RESET, EOF,
       GENERAL_ERROR_CODE, REGISTRATION_WAS_SUCCESS_CODE

\* A run starts with the identifier of me.info.
LEMMA StartsIds ==
    ASSUME TypeOK, NEW c \in Client, Starts(c),
           UNCHANGED serverVars
    PROVE  /\ drawn' = drawn
           /\ \A d \in Client : IdsOf(d)' \subseteq IdsOf(d)
<1>1. /\ queue' = queue /\ inbox' = inbox /\ me' = me
      /\ step' = step /\ answer' = answer /\ drawn' = drawn
      /\ mem'[c].id \in {0, me[c].id}
      /\ \A d \in Client : d # c => mem'[d] = mem[d]
  BY DEF Starts, serverVars, TypeOK, ClientTypeOK
<1>2. \A d \in Client : IdsOf(d)' \subseteq IdsOf(d)
  BY <1>1 DEF IdsOf, Mine
<1>. QED BY <1>1, <1>2

\* A request carries the identifier of the process.
LEMMA AsksIds ==
    ASSUME TypeOK, NEW c \in Client, Asks(c),
           UNCHANGED serverVars
    PROVE  /\ drawn' = drawn
           /\ \A d \in Client : IdsOf(d)' \subseteq IdsOf(d)
<1>1. PICK request \in Request :
         /\ request.from = c /\ request.id = mem[c].id
         /\ queue' = Append(queue, request)
         /\ inbox' = [inbox EXCEPT ![c] = Bare(WAITING)]
  BY DEF Asks
<1>2. PICK n \in Nat :
      /\ DOMAIN queue = 1 .. n - 1 /\ DOMAIN queue' = 1 .. n
      /\ \A k \in 1 .. n - 1 : queue'[k] = queue[k]
      /\ queue'[n] = request
  <2>1. Len(queue) + 1 \in Nat /\ Len(queue) + 1 - 1 = Len(queue)
    BY <1>1, AppendFacts DEF TypeOK
  <2>. QED BY <1>1, <2>1, AppendFacts DEF TypeOK
<1>3. /\ me' = me /\ step' = step /\ answer' = answer /\ drawn' = drawn
      /\ \A d \in Client : mem'[d].id = mem[d].id
      /\ \A d \in Client : Granted(inbox[d])' \in {0, Granted(inbox[d])}
  BY <1>1, GrantedCases
  DEF Asks, serverVars, TypeOK, NetTypeOK, ClientTypeOK, Granted
<1>4. step = "answer" => 1 \in DOMAIN queue
  BY TailFacts DEF TypeOK, ServerTypeOK
<1>5. ASSUME NEW d \in Client PROVE IdsOf(d)' \subseteq IdsOf(d)
  <2>1. ASSUME NEW k \in DOMAIN queue', Mine(d, k)'
        PROVE  \/ queue'[k].id = mem[d].id
               \/ k \in DOMAIN queue /\ Mine(d, k) /\ queue'[k] = queue[k]
    BY <1>1, <1>2, <2>1 DEF Mine
  <2>2. step = "answer" => (Mine(d, 1)' <=> Mine(d, 1))
    BY <1>2, <1>4 DEF Mine
  <2>3. Granted(answer)' = Granted(answer)
    BY <1>3 DEF Granted
  <2>. QED BY <1>3, <2>1, <2>2, <2>3 DEF IdsOf
<1>. QED BY <1>3, <1>5

\* A process takes its identifier from a response.
LEMMA MovesIds ==
    ASSUME TypeOK, NEW c \in Client, Moves(c),
           UNCHANGED serverVars
    PROVE  /\ drawn' = drawn
           /\ \A d \in Client : IdsOf(d)' \subseteq IdsOf(d)
<1>1. /\ queue' = queue
      /\ step' = step /\ answer' = answer /\ drawn' = drawn
      /\ mem'[c].id \in {0, mem[c].id, Granted(inbox[c])}
      /\ me'[c].id \in {0, me[c].id, Granted(inbox[c])}
      /\ inbox'[c] = Bare(NOT_CONNECTED)
      /\ \A d \in Client : d # c =>
            mem'[d] = mem[d] /\ me'[d] = me[d] /\ inbox'[d] = inbox[d]
  BY DEF Moves, Enter, Disconnect, serverVars, TypeOK, NetTypeOK, ClientTypeOK
<1>2. /\ Granted(inbox[c])' = 0
      /\ \A d \in Client : d # c => Granted(inbox[d])' = Granted(inbox[d])
      /\ Granted(answer)' = Granted(answer)
  BY <1>1, GrantedCases DEF Granted
<1>3. \A d \in Client : IdsOf(d)' \subseteq IdsOf(d)
  BY <1>1, <1>2 DEF IdsOf, Mine
<1>. QED BY <1>1, <1>3

\* The handler of 825 gives the sender an identifier that nobody has.
LEMMA HandlesIds ==
    ASSUME TypeOK, Handles
    PROVE  \A d \in Client : \A id \in IdsOf(d)' \ IdsOf(d) :
              id = drawn + 1 /\ drawn' = drawn + 1 /\ d = Served.from
<1>1. /\ queue' = queue /\ inbox' = inbox /\ me' = me /\ mem' = mem
      /\ Served = queue[1]
  BY TailFacts DEF Handles, connVars, clientVars, TypeOK
<1>2. step' = "answer" /\ Granted(answer)' # 0 =>
         drawn' = drawn + 1 /\ Granted(answer)' = drawn'
  BY DEF Handles, Granted
<1>3. ASSUME NEW d \in Client, NEW id \in IdsOf(d)' \ IdsOf(d)
      PROVE  /\ step' = "answer" /\ Granted(answer)' = id /\ id # 0
             /\ d = Served.from
  BY <1>1, <1>3 DEF IdsOf, Mine, Granted
<1>. QED BY <1>2, <1>3

\* ... which keeps the identifiers apart.
LEMMA HandlesOwn ==
    ASSUME TypeOK, TypeOK', OwnIds, Handles
    PROVE  OwnIds'
<1>1. drawn \in Nat /\ drawn' \in Nat /\ drawn <= drawn'
  BY DEF Handles, TypeOK, ServerTypeOK
<1>2. \A d \in Client : IdsOf(d) \subseteq 1 .. drawn
  BY DEF OwnIds
<1>3. ASSUME NEW d \in Client PROVE IdsOf(d)' \subseteq 1 .. drawn'
  <2>1. ASSUME NEW id \in IdsOf(d)' PROVE id \in 1 .. drawn'
    <3>1. CASE id \in IdsOf(d)
      BY <1>1, <1>2, <3>1
    <3>2. CASE id \notin IdsOf(d)
      BY <1>1, <2>1, <3>2, HandlesIds
    <3>. QED BY <3>1, <3>2
  <2>. QED BY <2>1
<1>4. ASSUME NEW d \in Client, NEW e \in Client, e # d, NEW id \in IdsOf(d)',
             id \in IdsOf(e)'
      PROVE  FALSE
  <2>1. drawn + 1 \notin 1 .. drawn
    BY <1>1
  <2>2. id \in IdsOf(d) \/ id \in IdsOf(e)
    BY <1>4, HandlesIds
  <2>3. id # drawn + 1
    BY <1>2, <2>1, <2>2
  <2>4. id \in IdsOf(d) /\ id \in IdsOf(e)
    BY <1>4, <2>3, HandlesIds
  <2>. QED BY <1>4, <2>4 DEF OwnIds
<1>. QED BY <1>3, <1>4 DEF OwnIds

\* It arrives at the client it was given to, or nowhere.
LEMMA ClosesIds ==
    ASSUME TypeOK, Closes
    PROVE  /\ drawn' = drawn
           /\ \A d \in Client : IdsOf(d)' \subseteq IdsOf(d)
<1>1. PICK reply \in Reply :
         /\ \/ step = "answer" /\ reply = answer
            \/ reply.code \in Refusal
         /\ Finish(reply)
  BY DEF Closes
<1>2. /\ queue' = Tail(queue) /\ me' = me /\ mem' = mem
      /\ step' = "ready" /\ drawn' = drawn
      /\ \A d \in Client :
           inbox'[d] = inbox[d] \/ (inbox'[d] = reply /\ d = Head(queue).from)
  BY <1>1 DEF Closes, Finish, clientVars, TypeOK, NetTypeOK
<1>3. /\ Head(queue) = queue[1]
      /\ \A k \in DOMAIN queue' : k + 1 \in DOMAIN queue
                                  /\ queue'[k] = queue[k + 1]
  BY <1>2, TailFacts DEF Closes, TypeOK, Served
<1>4. ASSUME NEW d \in Client
      PROVE  Granted(inbox[d])' \in
                {0, Granted(inbox[d]),
                 IF step = "answer" /\ Mine(d, 1) THEN Granted(answer) ELSE 0}
  BY <1>1, <1>2, <1>3, GrantedCases DEF Granted, Mine
<1>5. ASSUME NEW d \in Client PROVE IdsOf(d)' \subseteq IdsOf(d)
  <2>1. {queue[k].id : k \in {j \in DOMAIN queue : Mine(d, j)}}' \subseteq
        {queue[k].id : k \in {j \in DOMAIN queue : Mine(d, j)}}
    BY <1>3 DEF Mine
  <2>. QED BY <1>2, <1>4, <2>1 DEF IdsOf
<1>. QED BY <1>2, <1>5

\* The end of the server gives no identifier.
LEMMA DiesIds ==
    ASSUME TypeOK, Dies
    PROVE  /\ drawn' = drawn
           /\ \A d \in Client : IdsOf(d)' \subseteq IdsOf(d)
<1>1. PICK reply \in Reply : reply.code \in Refusal /\ ServerStops(reply)
  BY DEF Dies
<1>2. /\ DOMAIN queue' = {} /\ me' = me /\ mem' = mem
      /\ step' = "ready" /\ drawn' = drawn
      /\ \A d \in Client : inbox'[d] \in {inbox[d], reply, Bare(RESET)}
  BY <1>1, EmptySeq, LenProperties DEF Dies, ServerStops, clientVars
<1>3. \A d \in Client : Granted(inbox[d])' \in {0, Granted(inbox[d])}
  BY <1>1, <1>2, GrantedCases DEF Granted
<1>4. \A d \in Client : IdsOf(d)' \subseteq IdsOf(d)
  BY <1>2, <1>3 DEF IdsOf
<1>. QED BY <1>2, <1>4

-----------------------------------------------------------------------------
(***************************************************************************)
(* The identifiers of processes, and what is on the disk.                  *)
(***************************************************************************)
\* What relates an upload to the disk, and to the response on its way.
UploadInv == HasId /\ AnswerMatches /\ ChecksumMatches /\ DeliveredIsStored

\* A start changes nothing of it.
LEMMA StartsUpload ==
    ASSUME TypeOK, TypeOK', UploadInv, NEW c \in Client, Starts(c),
           UNCHANGED serverVars
    PROVE  UploadInv'
<1>1. /\ queue' = queue /\ inbox' = inbox
      /\ step' = step /\ answer' = answer /\ store' = store
      /\ pc'[c] \in {"register", "reconnect"}
      /\ pc'[c] = "reconnect" => mem'[c].id # 0
      /\ \A d \in Client : d # c => pc'[d] = pc[d] /\ mem'[d] = mem[d]
  BY DEF Starts, serverVars, TypeOK, ClientTypeOK
<1>2. HasId'
  BY <1>1 DEF UploadInv, HasId
<1>3. AnswerMatches'
  BY <1>1 DEF UploadInv, AnswerMatches, Served, Sender
<1>4. ChecksumMatches' /\ DeliveredIsStored'
  BY <1>1 DEF UploadInv, ChecksumMatches, DeliveredIsStored
<1>. QED BY <1>2, <1>3, <1>4 DEF UploadInv

\* A new request is behind the one that is served, and changes neither the
\* identifier of the process nor, after an upload, what was sent.
LEMMA AsksUpload ==
    ASSUME TypeOK, TypeOK', UploadInv, NEW c \in Client, Asks(c),
           UNCHANGED serverVars
    PROVE  UploadInv'
<1>1. PICK request \in Request :
         /\ queue' = Append(queue, request)
         /\ inbox' = [inbox EXCEPT ![c] = Bare(WAITING)]
  BY DEF Asks
<1>2. /\ step' = step /\ answer' = answer /\ store' = store /\ pc' = pc
      /\ \A d \in Client : mem'[d].id = mem[d].id
      /\ \A d \in Client : pc[d] # "upload" => mem'[d].sent = mem[d].sent
      /\ inbox'[c].code = WAITING
      /\ \A d \in Client : d # c => inbox'[d] = inbox[d]
  BY <1>1 DEF Asks, serverVars, TypeOK, NetTypeOK, ClientTypeOK, Bare
<1>3. HasId'
  BY <1>2 DEF UploadInv, HasId, WAITING, REGISTRATION_WAS_SUCCESS_CODE
<1>4. AnswerMatches'
  <2>1. step # "ready" => Head(queue') = Head(queue)
    BY <1>1, AppendFacts, TailFacts, HeadTailProperties, AppendProperties
    DEF TypeOK, NetTypeOK, ServerTypeOK, Served
  <2>. QED BY <1>2, <2>1 DEF UploadInv, AnswerMatches, Served, Sender
<1>5. ChecksumMatches' /\ DeliveredIsStored'
  BY <1>2 DEF UploadInv, ChecksumMatches, DeliveredIsStored, WAITING,
              CORRECT_CRC_CODE_RESPONSE
<1>. QED BY <1>3, <1>4, <1>5 DEF UploadInv

\* A process reports a delivery only on the checksum of what it sent.
LEMMA MovesUpload ==
    ASSUME TypeOK, TypeOK', UploadInv, NEW c \in Client, Moves(c),
           UNCHANGED serverVars
    PROVE  UploadInv'
<1>1. PICK phase \in Phase, memory \in Memory :
         /\ Enter(c, phase, memory)
         /\ phase \notin {"off", "register"} => memory.id # 0
         /\ phase = "report" =>
              /\ pc[c] = "upload"
              /\ inbox[c].code = CORRECT_CRC_CODE_RESPONSE
              /\ memory.id = mem[c].id
              /\ memory.sent = inbox[c].sum
  BY DEF Moves
<1>2. /\ queue' = queue
      /\ step' = step /\ answer' = answer /\ store' = store
      /\ pc'[c] = phase /\ mem'[c] = memory
      /\ inbox'[c].code = NOT_CONNECTED
      /\ \A d \in Client : d # c =>
            pc'[d] = pc[d] /\ mem'[d] = mem[d] /\ inbox'[d] = inbox[d]
  BY <1>1 DEF Moves, Enter, Disconnect, serverVars, TypeOK, NetTypeOK,
              ClientTypeOK, Bare
<1>3. HasId'
  BY <1>1, <1>2 DEF UploadInv, HasId, NOT_CONNECTED,
                    REGISTRATION_WAS_SUCCESS_CODE
<1>4. AnswerMatches'
  BY <1>2 DEF UploadInv, AnswerMatches, Served, Sender
<1>5. ChecksumMatches'
  BY <1>2 DEF UploadInv, ChecksumMatches, NOT_CONNECTED,
              CORRECT_CRC_CODE_RESPONSE
<1>6. DeliveredIsStored'
  BY <1>1, <1>2 DEF UploadInv, ChecksumMatches, DeliveredIsStored
<1>. QED BY <1>3, <1>4, <1>5, <1>6 DEF UploadInv

\* No handler of an upload writes to the directory of a client that has the
\* checksum of its own upload: the request it serves is another client's, under
\* another identifier.
LEMMA WritesElsewhere ==
    ASSUME TypeOK, QueueOrder, OwnIds, UploadInv, queue # << >>,
           Served.code = FILE_SENDING_REQUEST_CODE, NEW d \in Client,
           \/ pc[d] = "report"
           \/ pc[d] = "upload" /\ inbox[d].code = CORRECT_CRC_CODE_RESPONSE
    PROVE  mem[d].id # Sender
<1>1. /\ 1 \in DOMAIN queue /\ Served = queue[1]
      /\ queue[1].from \in Client /\ queue[1].id = Sender
  BY TailFacts, QueueType DEF Handles, TypeOK, Sender
<1>2. mem[d].id # 0
  BY DEF UploadInv, HasId
<1>3. CASE queue[1].from = d
  <2>1. Settled(d)
    BY DEF Settled, NOT_CONNECTED, WAITING, CORRECT_CRC_CODE_RESPONSE
  <2>2. Current(d, 1)
    BY <1>1, <1>3, <2>1 DEF QueueOrder, NothingStale, Mine
  <2>3. pc[d] = "upload" /\ inbox[d].code = WAITING
    BY <1>1, <2>2 DEF QueueOrder, NothingStale, RequestMatches
  <2>. QED BY <2>3 DEF WAITING, CORRECT_CRC_CODE_RESPONSE
<1>4. CASE queue[1].from # d
  <2>1. mem[d].id \in IdsOf(d)
    BY <1>2 DEF IdsOf
  <2>2. queue[1].id # 0 => queue[1].id \in IdsOf(queue[1].from)
    BY <1>1 DEF IdsOf, Mine
  <2>. QED BY <1>1, <1>2, <1>4, <2>1, <2>2 DEF OwnIds
<1>. QED BY <1>3, <1>4

\* The file that a handler writes is not that of a client with a checksum.
LEMMA HandlesUpload ==
    ASSUME TypeOK, TypeOK', QueueOrder, OwnIds, UploadInv, Handles,
           HasId', AnswerMatches'
    PROVE  UploadInv'
<1>1. /\ inbox' = inbox /\ mem' = mem /\ pc' = pc
  BY DEF Handles, connVars, clientVars
<1>2. CASE UNCHANGED store
  BY <1>1, <1>2 DEF UploadInv, ChecksumMatches, DeliveredIsStored
<1>3. CASE /\ Served.code = FILE_SENDING_REQUEST_CODE
           /\ \E content \in Content \cup {Garbage, Truncated} : Write(content)
  <2>1. \A d \in Client :
           \/ pc[d] = "report"
           \/ pc[d] = "upload" /\ inbox[d].code = CORRECT_CRC_CODE_RESPONSE
           => mem[d].id # Sender
    BY <1>3, WritesElsewhere DEF Handles
  <2>2. \A i \in DOMAIN store : i # Sender =>
           i \in DOMAIN store' /\ store'[i] = store[i]
    BY <1>3 DEF Write
  <2>3. ChecksumMatches'
    BY <1>1, <2>1, <2>2 DEF UploadInv, ChecksumMatches
  <2>4. DeliveredIsStored'
    BY <1>1, <2>1, <2>2 DEF UploadInv, DeliveredIsStored
  <2>. QED BY <2>3, <2>4 DEF UploadInv
<1>. QED BY <1>2, <1>3 DEF Handles

\* The checksum that a client receives is that of its file on the disk.
LEMMA ClosesUpload ==
    ASSUME TypeOK, TypeOK', QueueOrder, UploadInv, Closes
    PROVE  UploadInv'
<1>1. PICK reply \in Reply :
         /\ \/ step = "answer" /\ reply = answer
            \/ reply.code \in Refusal
         /\ Finish(reply)
  BY DEF Closes
<1>2. /\ me' = me /\ mem' = mem /\ pc' = pc /\ store' = store
      /\ step' = "ready"
      /\ \A d \in Client :
           \/ inbox'[d] = inbox[d]
           \/ inbox'[d] = reply /\ d = Head(queue).from /\ Live(Head(queue))
  BY <1>1 DEF Closes, Finish, clientVars, TypeOK, NetTypeOK
<1>3. 1 \in DOMAIN queue /\ Served = queue[1] /\ Head(queue) = queue[1]
  BY TailFacts DEF Closes, TypeOK, Served
<1>4. HasId'
  BY <1>1, <1>2 DEF UploadInv, HasId, Refusal, RESET, EOF, GENERAL_ERROR_CODE,
                    REGISTRATION_WAS_SUCCESS_CODE
<1>5. AnswerMatches'
  BY <1>2 DEF AnswerMatches
<1>6. ChecksumMatches'
  <2>1. ASSUME NEW d \in Client, pc[d] = "upload",
               inbox'[d].code = CORRECT_CRC_CODE_RESPONSE
        PROVE  mem[d].id \in DOMAIN store /\ store[mem[d].id] = inbox'[d].sum
    <3>1. CASE inbox'[d] = inbox[d]
      BY <2>1, <3>1 DEF UploadInv, ChecksumMatches
    <3>2. CASE inbox'[d] = reply /\ d = Head(queue).from /\ Live(Head(queue))
      <4>1. Current(d, 1)
        BY <1>3, <3>2 DEF Current, Live
      <4>2. Sender = mem[d].id
        BY <1>3, <2>1, <4>1 DEF QueueOrder, RequestMatches, Sender
      <4>3. step = "answer" /\ reply = answer
        BY <1>1, <2>1, <3>2 DEF Refusal, RESET, EOF, GENERAL_ERROR_CODE,
                                CORRECT_CRC_CODE_RESPONSE
      <4>. QED BY <2>1, <3>2, <4>2, <4>3 DEF UploadInv, AnswerMatches
    <3>. QED BY <1>2, <3>1, <3>2
  <2>. QED BY <1>2, <2>1 DEF ChecksumMatches
<1>7. DeliveredIsStored'
  BY <1>2 DEF UploadInv, DeliveredIsStored
<1>. QED BY <1>4, <1>5, <1>6, <1>7 DEF UploadInv

\* A server that ends sends no checksum.
LEMMA DiesUpload ==
    ASSUME TypeOK, TypeOK', UploadInv, Dies
    PROVE  UploadInv'
<1>1. PICK reply \in Reply : reply.code \in Refusal /\ ServerStops(reply)
  BY DEF Dies
<1>2. /\ mem' = mem /\ pc' = pc /\ store' = store /\ step' = "ready"
      /\ \A d \in Client : inbox'[d] = inbox[d] \/ inbox'[d].code \in Refusal
  BY <1>1 DEF Dies, ServerStops, clientVars, Refusal, Bare
<1>3. HasId'
  BY <1>2 DEF UploadInv, HasId, Refusal, RESET, EOF, GENERAL_ERROR_CODE,
              REGISTRATION_WAS_SUCCESS_CODE
<1>4. AnswerMatches' /\ ChecksumMatches' /\ DeliveredIsStored'
  BY <1>2 DEF UploadInv, AnswerMatches, ChecksumMatches, DeliveredIsStored,
              Refusal, RESET, EOF, GENERAL_ERROR_CODE, CORRECT_CRC_CODE_RESPONSE
<1>. QED BY <1>3, <1>4 DEF UploadInv

-----------------------------------------------------------------------------
(***************************************************************************)
(* Every action is of one of these kinds.                                  *)
(***************************************************************************)
\* A request is sent by a process that waits for nothing.
LEMMA AskIsAsks ==
    ASSUME TypeOK, NEW c \in Client, pc[c] # "off",
           NEW code \in Nat, NEW pair \in Pair, NEW cipher \in Cipher,
           code = FILE_SENDING_REQUEST_CODE => pc[c] = "upload",
           NEW memory \in Memory, mem' = [mem EXCEPT ![c] = memory],
           memory.id = mem[c].id, pc[c] # "upload" => memory.sent = mem[c].sent,
           Ask(c, code, pair, cipher)
    PROVE  Asks(c)
<1> DEFINE request == [from |-> c, run |-> runs[c], code |-> code,
                       id |-> mem[c].id, pair |-> pair, cipher |-> cipher]
<1>1. request \in Request /\ Connect(c, request)
  BY DEF TypeOK, NetTypeOK, ClientTypeOK, Memory, Request, Ask
<1>2. /\ request.from = c /\ request.run = runs[c] /\ request.id = mem[c].id
      /\ request.code = code
  OBVIOUS
<1> HIDE DEF request
<1>. QED BY <1>1, <1>2 DEF Asks, Ask, Connect

\* A process that handles an answer keeps me.info, or writes the identifier it
\* got to it.
LEMMA EnterIsMoves ==
    ASSUME TypeOK, NEW c \in Client, pc[c] # "off",
           UNCHANGED <<queue, runs>>,
           NEW phase \in Phase, NEW memory \in Memory, Enter(c, phase, memory),
           phase # "off" => inbox[c].code # WAITING,
           phase \notin {"off", "register", "reconnect"} => Settled(c),
           phase \notin {"off", "register"} => memory.id # 0,
           memory.id \in {0, mem[c].id, Granted(inbox[c])},
           phase = "report" =>
              /\ pc[c] = "upload"
              /\ inbox[c].code = CORRECT_CRC_CODE_RESPONSE
              /\ memory.id = mem[c].id
              /\ memory.sent = mem[c].sent
              /\ memory.sent = inbox[c].sum,
           phase = "off" => memory = NewProcess,
           pc[c] = "report" => phase = "off",
           NEW file \in MeInfoFile, me' = [me EXCEPT ![c] = file],
           file.id \in {0, me[c].id, Granted(inbox[c])}
    PROVE  Moves(c)
BY DEF Moves

\* The same for a process that gives up a request.
LEMMA GiveUpIsMoves ==
    ASSUME TypeOK, HasId, NEW c \in Client, pc[c] # "off",
           UNCHANGED <<queue, runs, me>>, inbox[c].code # WAITING, GiveUp(c)
    PROVE  Moves(c)
<1>1. /\ mem[c] \in Memory /\ NewProcess \in Memory /\ NewProcess.id = 0
      /\ me[c] \in MeInfoFile /\ me' = [me EXCEPT ![c] = me[c]]
      /\ Phase = {"off", "register", "key", "reconnect", "upload", "repeat",
                  "report", "fatal"}
  BY NewProcessType DEF TypeOK, ClientTypeOK, NewProcess, Phase
<1>2. pc[c] \in {"upload", "repeat"} => Settled(c) /\ mem[c].id # 0
  BY DEF Settled, HasId
<1>3. CASE Exit(c)
  BY <1>1, <1>3, EnterIsMoves DEF Exit
<1>4. CASE pc[c] = "upload" /\ Enter(c, "repeat", mem[c])
  BY <1>1, <1>2, <1>4, EnterIsMoves
<1>5. CASE pc[c] = "repeat" /\ NextAttempt(c)
  <2> DEFINE memory == [mem[c] EXCEPT !.tries = @ + 1]
  <2>1. mem[c].tries \in 0 .. Attempts - 1
    BY <1>1, <1>5, AttemptsAssumption DEF TypeOK, ClientTypeOK, Memory
  <2>2. memory \in Memory /\ memory.id = mem[c].id
    BY <1>1, <2>1, AttemptsAssumption DEF Memory
  <2>3. Enter(c, "upload", memory) \/ Enter(c, "fatal", memory)
    BY <1>5 DEF NextAttempt
  <2> HIDE DEF memory
  <2>. QED BY <1>1, <1>2, <1>5, <2>2, <2>3, EnterIsMoves
<1>. QED BY <1>3, <1>4, <1>5 DEF GiveUp

\* Every action of a client is a start, a request or the end of one.
LEMMA ClientKinds ==
    ASSUME TypeOK, HasId, NEW c \in Client, ClientNext(c)
    PROVE  Starts(c) \/ Asks(c) \/ Moves(c)
<1>0. /\ mem[c] \in Memory /\ me[c] \in MeInfoFile /\ inbox[c] \in Reply
      /\ NewProcess \in Memory /\ NewProcess.id = 0
      /\ NoPair \in Pair /\ NoCipher \in Cipher /\ <<c, runs[c]>> \in Pair
      /\ me = [me EXCEPT ![c] = me[c]] /\ mem = [mem EXCEPT ![c] = mem[c]]
      /\ Phase = {"off", "register", "key", "reconnect", "upload", "repeat",
                  "report", "fatal"}
  BY NewProcessType DEF TypeOK, NetTypeOK, ClientTypeOK, NewProcess, Pair,
                        NoCipher, Cipher, Phase
<1>1. CASE StartNew(c)
  BY <1>0, <1>1 DEF StartNew, Start, Starts
<1>2. CASE StartKnown(c)
  <2> DEFINE memory == [NewProcess EXCEPT !.id = me[c].id, !.pair = me[c].pair]
  <2>1. memory \in Memory /\ memory.id = me[c].id
    BY <1>0 DEF Memory, MeInfoFile, NewProcess
  <2>2. Start(c, "reconnect", memory) /\ me[c].id # 0
    BY <1>2 DEF StartKnown
  <2> HIDE DEF memory
  <2>. QED BY <2>1, <2>2 DEF Start, Starts
<1>3. CASE SendRegistration(c)
  BY <1>0, <1>3, AskIsAsks
  DEF SendRegistration, REGISTRATION_REQUEST_CODE, FILE_SENDING_REQUEST_CODE
<1>4. CASE SendReconnect(c)
  BY <1>0, <1>4, AskIsAsks
  DEF SendReconnect, RECONNECT_REQUEST_CODE, FILE_SENDING_REQUEST_CODE
<1>5. CASE SendReport(c)
  <2>1. /\ ReportCode(pc[c]) \in Nat
        /\ ReportCode(pc[c]) # FILE_SENDING_REQUEST_CODE
    BY <1>5 DEF SendReport, ReportCode, CORRECT_CRC_CODE,
                INCORRECT_CRC_CODE_REPEAT, FATA_ERROR_CODE,
                FILE_SENDING_REQUEST_CODE
  <2>. QED BY <1>0, <1>5, <2>1, AskIsAsks DEF SendReport
<1>6. CASE SendPublicKey(c)
  <2> DEFINE memory == [mem[c] EXCEPT !.pair = <<c, runs[c]>>]
  <2>1. memory \in Memory /\ memory.id = mem[c].id /\ memory.sent = mem[c].sent
    BY <1>0 DEF Memory
  <2>2. mem' = [mem EXCEPT ![c] = memory]
    BY <1>6 DEF SendPublicKey, TypeOK, ClientTypeOK
  <2>3. /\ pc[c] # "off"
        /\ PUBLIC_KEY_SENDING_REQUEST_CODE \in Nat
        /\ PUBLIC_KEY_SENDING_REQUEST_CODE # FILE_SENDING_REQUEST_CODE
        /\ Ask(c, PUBLIC_KEY_SENDING_REQUEST_CODE, <<c, runs[c]>>, NoCipher)
    BY <1>6 DEF SendPublicKey, PUBLIC_KEY_SENDING_REQUEST_CODE,
                FILE_SENDING_REQUEST_CODE
  <2> HIDE DEF memory
  <2>. QED BY <1>0, <2>1, <2>2, <2>3, AskIsAsks
<1>7. CASE SendFile(c)
  <2>1. PICK content \in Content :
          /\ Ask(c, FILE_SENDING_REQUEST_CODE, NoPair,
                 [aes |-> mem[c].aes, plain |-> content])
          /\ mem' = [mem EXCEPT ![c].sent = content]
    BY <1>7 DEF SendFile
  <2> DEFINE memory == [mem[c] EXCEPT !.sent = content]
  <2>2. memory \in Memory /\ memory.id = mem[c].id
    BY <1>0 DEF Memory
  <2>3. mem' = [mem EXCEPT ![c] = memory]
    BY <2>1 DEF TypeOK, ClientTypeOK
  <2>4. [aes |-> mem[c].aes, plain |-> content] \in Cipher
    BY <1>0 DEF Memory, Cipher
  <2>5. pc[c] = "upload" /\ FILE_SENDING_REQUEST_CODE \in Nat
    BY <1>7 DEF SendFile, FILE_SENDING_REQUEST_CODE
  <2> HIDE DEF memory
  <2>. QED BY <1>0, <2>1, <2>2, <2>3, <2>4, <2>5, AskIsAsks
<1>8. CASE RegistrationSucceeded(c)
  <2>1. inbox[c].id \in Nat /\ inbox[c].id # 0
        /\ Granted(inbox[c]) = inbox[c].id
    BY <1>0, <1>8 DEF RegistrationSucceeded, HasId, Granted, Reply
  <2> DEFINE memory == [NewProcess EXCEPT !.id = inbox[c].id]
             file   == MeInfo(inbox[c].id, NoPair)
  <2>2. /\ memory \in Memory /\ memory.id = inbox[c].id
        /\ file \in MeInfoFile /\ file.id = inbox[c].id
    BY <1>0, <2>1 DEF Memory, NewProcess, MeInfo, MeInfoFile
  <2>3. /\ me' = [me EXCEPT ![c] = file] /\ Enter(c, "key", memory)
        /\ pc[c] = "register" /\ UNCHANGED <<queue, runs>>
    BY <1>8 DEF RegistrationSucceeded
  <2>4. Settled(c) /\ inbox[c].code # WAITING
    BY <1>8 DEF RegistrationSucceeded, Settled, NOT_CONNECTED, WAITING,
                REGISTRATION_WAS_SUCCESS_CODE
  <2> HIDE DEF memory, file
  <2>. QED BY <1>0, <2>1, <2>2, <2>3, <2>4, EnterIsMoves
<1>9. CASE RegistrationFailed(c)
  <2>1. inbox[c].code # WAITING /\ pc[c] = "register"
        /\ me' = [me EXCEPT ![c] = me[c]] /\ UNCHANGED <<queue, runs>>
    BY <1>0, <1>9 DEF RegistrationFailed, WAITING, REGISTRATION_WAS_FAILED_CODE
  <2>2. CASE mem[c].tries + 1 < Attempts
    <3> DEFINE memory == [mem[c] EXCEPT !.tries = @ + 1]
    <3>1. memory \in Memory /\ memory.id = mem[c].id
      BY <1>0, <2>2, AttemptsAssumption DEF Memory
    <3>2. Enter(c, "register", memory)
      BY <1>9, <2>2 DEF RegistrationFailed
    <3> HIDE DEF memory
    <3>. QED BY <1>0, <2>1, <3>1, <3>2, EnterIsMoves
  <2>3. CASE ~(mem[c].tries + 1 < Attempts)
    BY <1>0, <1>9, <2>1, <2>3, EnterIsMoves DEF RegistrationFailed, Exit
  <2>. QED BY <2>2, <2>3
<1>10. CASE KeyReceived(c)
  <2>1. /\ pc[c] \in {"key", "reconnect"} /\ mem[c].id # 0
        /\ inbox[c].code # WAITING /\ Settled(c)
    BY <1>10 DEF KeyReceived, ReceiveAESKey, HasId, Settled, NOT_CONNECTED,
                 WAITING, PRIVATE_KEY_ENCRYPTION_CODE, RECONNECT_ACCEPTED
  <2> DEFINE file   == [me[c] EXCEPT !.pair = IF @ = NoPair THEN mem[c].pair
                                              ELSE @]
             memory == [mem[c] EXCEPT !.aes = inbox[c].aes, !.tries = 0]
  <2>2. /\ file \in MeInfoFile /\ file.id = me[c].id
        /\ me' = [me EXCEPT ![c] = file]
    BY <1>0, <1>10 DEF KeyReceived, SavePrivateKey, MeInfoFile, Memory,
                       TypeOK, ClientTypeOK
  <2>3. memory \in Memory /\ memory.id = mem[c].id
    <3>1. inbox[c].aes \in Nat /\ 0 \in 0 .. Attempts
      BY <1>0, AttemptsAssumption DEF Reply
    <3>. QED BY <1>0, <3>1 DEF Memory
  <2>4. /\ Enter(c, "upload", memory) \/ Exit(c)
        /\ UNCHANGED <<queue, runs>>
    BY <1>10 DEF KeyReceived
  <2> HIDE DEF file, memory
  <2>. QED BY <1>0, <2>1, <2>2, <2>3, <2>4, EnterIsMoves DEF Exit
<1>11. CASE ReconnectDenied(c)
  BY <1>0, <1>11, EnterIsMoves
  DEF ReconnectDenied, RECONNECT_DENIED, EOF, WAITING
<1>12. CASE ChecksumReceived(c)
  <2>1. /\ pc[c] = "upload" /\ Settled(c) /\ mem[c].id # 0
        /\ inbox[c].code # WAITING
        /\ me' = [me EXCEPT ![c] = me[c]] /\ UNCHANGED <<queue, runs>>
    BY <1>0, <1>12 DEF ChecksumReceived, Settled, HasId, WAITING,
                       CORRECT_CRC_CODE_RESPONSE, GENERAL_ERROR_CODE
  <2>2. CASE /\ inbox[c].code = CORRECT_CRC_CODE_RESPONSE
             /\ inbox[c].sum = mem[c].sent
    BY <1>0, <1>12, <2>1, <2>2, EnterIsMoves DEF ChecksumReceived
  <2>3. CASE ~(/\ inbox[c].code = CORRECT_CRC_CODE_RESPONSE
               /\ inbox[c].sum = mem[c].sent)
    BY <1>0, <1>12, <2>1, <2>3, EnterIsMoves DEF ChecksumReceived
  <2>. QED BY <2>2, <2>3
<1>13. CASE ReportAnswered(c)
  BY <1>13, GiveUpIsMoves DEF ReportAnswered, ACCEPT_CODE, WAITING
<1>14. CASE RequestFails(c)
  BY <1>14, GiveUpIsMoves
  DEF RequestFails, Idle, NOT_CONNECTED, RESET, EOF, WAITING
<1>15. CASE ReadFails(c)
  <2>1. /\ pc[c] = "upload" /\ Settled(c) /\ mem[c].id # 0
        /\ inbox[c].code # WAITING /\ Enter(c, "repeat", mem[c])
        /\ me' = [me EXCEPT ![c] = me[c]] /\ UNCHANGED <<queue, runs>>
    BY <1>0, <1>15 DEF ReadFails, Settled, HasId, Idle, NOT_CONNECTED, WAITING
  <2>. QED BY <1>0, <2>1, EnterIsMoves
<1>16. CASE ClientKilled(c)
  <2>1. /\ BlankMeInfo \in MeInfoFile /\ BlankMeInfo.id = 0
        /\ Enter(c, "off", NewProcess) /\ UNCHANGED <<queue, runs>>
        /\ pc[c] # "off"
    BY <1>16 DEF ClientKilled, Exit, BlankMeInfo, MeInfoFile, Pair
  <2>2. \/ me' = [me EXCEPT ![c] = me[c]]
        \/ me' = [me EXCEPT ![c] = BlankMeInfo]
    BY <1>0, <1>16 DEF ClientKilled
  <2>. QED BY <1>0, <2>1, <2>2, EnterIsMoves
<1>. QED BY <1>1, <1>2, <1>3, <1>4, <1>5, <1>6, <1>7, <1>8, <1>9, <1>10,
            <1>11, <1>12, <1>13, <1>14, <1>15, <1>16
         DEF ClientNext, ClientSteps, ClientEvents

\* A handler that decides on an answer which gives neither an identifier nor a
\* checksum.
LEMMA AnswerIsHandles ==
    ASSUME TypeOK, HasId, queue # << >>,
           UNCHANGED <<connVars, clientVars, store>>,
           drawn' \in Nat, drawn <= drawn',
           NEW reply \in Reply, Answer(reply),
           reply.code \notin {NOT_CONNECTED, WAITING, CORRECT_CRC_CODE_RESPONSE,
                              REGISTRATION_WAS_SUCCESS_CODE}
    PROVE  Handles /\ HasId' /\ AnswerMatches'
<1>1. step' = "answer" /\ answer' = reply /\ Granted(reply) = 0
  BY DEF Answer, Goto, Granted
<1>2. Handles
  BY <1>1 DEF Handles
<1>3. HasId'
  BY <1>1 DEF HasId, connVars, clientVars
<1>4. AnswerMatches'
  BY <1>1 DEF AnswerMatches
<1>. QED BY <1>2, <1>3, <1>4

\* A handler that is not yet done.
LEMMA GotoIsHandles ==
    ASSUME TypeOK, HasId, queue # << >>,
           UNCHANGED <<connVars, clientVars, drawn>>,
           NEW next \in Step \ {"answer"}, NEW reply \in Reply,
           Goto(next, reply),
           \/ UNCHANGED store
           \/ /\ Served.code = FILE_SENDING_REQUEST_CODE
              /\ \E content \in Content \cup {Garbage, Truncated} :
                    Write(content)
    PROVE  Handles /\ HasId'
BY DEF Goto, Handles, HasId, connVars, clientVars, TypeOK, ServerTypeOK

\* Every action of the server is a step of a handler, the end of a connection,
\* of the process, or its start; no handler breaks what is said of responses.
LEMMA ServerKinds ==
    ASSUME TypeOK, TypeOK', HasId, AnswerMatches, ServerNext
    PROVE  \/ Handles /\ HasId' /\ AnswerMatches'
           \/ Closes
           \/ Dies
           \/ StartServer /\ UNCHANGED clientVars
<1>0. /\ answer \in Reply /\ answer' \in Reply
      /\ drawn \in Nat /\ drawn' \in Nat /\ drawn + 1 \in Nat
      /\ drawn <= drawn + 1 /\ drawn <= drawn /\ drawn + 1 # 0
      /\ step # "ready" => queue # << >>
      /\ UNCHANGED clientVars
  BY DEF TypeOK, ServerTypeOK, ServerNext
<1>1. ASSUME NEW code, Serve(code)
      PROVE  queue # << >> /\ Served.code = code
  BY <1>1 DEF Serve, Accepted
<1>2. ASSUME NEW reply, Answer(reply)
      PROVE  answer' = reply /\ step' = "answer" /\ reply \in Reply
  BY <1>0, <1>2 DEF Answer, Goto
<1>3. ASSUME NEW code PROVE Bare(code).code = code
  BY DEF Bare
<1>5. ASSUME queue # << >>, UNCHANGED <<connVars, store>>,
             drawn' = drawn \/ drawn' = drawn + 1,
             NEW reply \in Reply, Answer(reply),
             reply.code \in {REGISTRATION_WAS_FAILED_CODE,
                             PRIVATE_KEY_ENCRYPTION_CODE, RECONNECT_ACCEPTED,
                             RECONNECT_DENIED, GENERAL_ERROR_CODE, ACCEPT_CODE}
      PROVE  Handles /\ HasId' /\ AnswerMatches'
  <2>1. reply.code \notin {NOT_CONNECTED, WAITING, CORRECT_CRC_CODE_RESPONSE,
                           REGISTRATION_WAS_SUCCESS_CODE}
    BY <1>5 DEF REGISTRATION_WAS_FAILED_CODE, PRIVATE_KEY_ENCRYPTION_CODE,
       RECONNECT_ACCEPTED, RECONNECT_DENIED, GENERAL_ERROR_CODE, ACCEPT_CODE,
       NOT_CONNECTED, WAITING, CORRECT_CRC_CODE_RESPONSE,
       REGISTRATION_WAS_SUCCESS_CODE
  <2>2. UNCHANGED <<connVars, clientVars, store>>
    BY <1>0, <1>5
  <2>. QED BY <1>0, <1>5, <2>1, <2>2, AnswerIsHandles
<1>6. CASE Register
  <2> DEFINE reply == [Bare(REGISTRATION_WAS_SUCCESS_CODE) EXCEPT !.id = drawn']
  <2>1. /\ step' = "answer" /\ answer' = reply /\ drawn' = drawn + 1
        /\ queue # << >> /\ UNCHANGED <<connVars, store>>
    BY <1>1, <1>2, <1>6 DEF Register
  <2>2. reply.code = REGISTRATION_WAS_SUCCESS_CODE /\ reply.id = drawn'
    BY DEF Bare
  <2>3. Handles
    BY <1>0, <2>1, <2>2 DEF Handles, Granted
  <2>4. HasId'
    BY <1>0, <2>1, <2>2 DEF HasId, connVars, clientVars
  <2>5. AnswerMatches'
    BY <2>1, <2>2 DEF AnswerMatches, NOT_CONNECTED, WAITING,
       CORRECT_CRC_CODE_RESPONSE, REGISTRATION_WAS_SUCCESS_CODE
  <2>. QED BY <2>3, <2>4, <2>5
<1>7. CASE RefuseName
  BY <1>1, <1>2, <1>3, <1>5, <1>7 DEF RefuseName
<1>8. CASE SavePublicKey
  <2>1. PICK id \in {GetIdByName(clients, Name), 0} :
          Goto("keyed", WithKey(PRIVATE_KEY_ENCRYPTION_CODE, id, 0,
                                Served.pair))
    BY <1>8 DEF SavePublicKey
  <2>2. /\ step' = "keyed" /\ answer'.code = PRIVATE_KEY_ENCRYPTION_CODE
        /\ queue # << >> /\ UNCHANGED <<connVars, store, drawn>>
        /\ Goto("keyed", answer')
    BY <1>1, <1>8, <2>1 DEF SavePublicKey, Goto, WithKey
  <2>3. Handles /\ HasId'
    BY <1>0, <2>2, GotoIsHandles DEF Step
  <2>4. AnswerMatches'
    BY <2>2 DEF AnswerMatches
  <2>. QED BY <2>3, <2>4
<1>9. CASE SaveAESKey
  <2>1. /\ Answer(answer') /\ queue # << >> /\ drawn' = drawn + 1
        /\ UNCHANGED <<connVars, store>>
    BY <1>0, <1>2, <1>9 DEF SaveAESKey
  <2>2. answer'.code = PRIVATE_KEY_ENCRYPTION_CODE
    BY <1>0, <1>2, <1>9 DEF SaveAESKey, AnswerMatches, Reply
  <2>. QED BY <1>0, <1>5, <2>1, <2>2
<1>10. CASE Rekey
  <2>1. /\ Answer(answer') /\ queue # << >> /\ drawn' = drawn + 1
        /\ UNCHANGED <<connVars, store>>
        /\ answer'.code = RECONNECT_ACCEPTED
    BY <1>1, <1>2, <1>10 DEF Rekey, WithKey
  <2>. QED BY <1>0, <1>5, <2>1
<1>11. CASE Deny
  <2>1. /\ Answer(answer') /\ queue # << >>
        /\ UNCHANGED <<connVars, store, drawn>>
        /\ answer'.code = RECONNECT_DENIED
    BY <1>1, <1>2, <1>11 DEF Deny, Bare
  <2>. QED BY <1>0, <1>5, <2>1
<1>11a. CASE Block
  <2>1. /\ Goto("blocked", NoAnswer) /\ step' = "blocked"
        /\ queue # << >> /\ UNCHANGED <<connVars, store, drawn>>
        /\ Served.code = FILE_SENDING_REQUEST_CODE
    BY <1>1, <1>11a DEF Block, Goto
  <2>2. NoAnswer \in Reply
    BY SocketType DEF NoAnswer
  <2>3. Handles /\ HasId'
    BY <1>0, <2>1, <2>2, GotoIsHandles DEF Step
  <2>4. AnswerMatches'
    BY <2>1 DEF AnswerMatches, connVars, Served
  <2>. QED BY <2>3, <2>4
<1>11b. ASSUME WrongCipher
        PROVE  queue # << >> /\ Served.code = FILE_SENDING_REQUEST_CODE
  BY <1>0, <1>1, <1>11b DEF WrongCipher, Unblocked, AnswerMatches
<1>12. CASE RejectCipher
  BY <1>2, <1>3, <1>5, <1>11b, <1>12 DEF RejectCipher
<1>13. CASE OpenFile
  <2>1. PICK content \in Content \cup {Garbage} :
          Goto("opened", [Bare(CORRECT_CRC_CODE_RESPONSE) EXCEPT !.sum = content])
    BY <1>13 DEF OpenFile
  <2>2. [Bare(CORRECT_CRC_CODE_RESPONSE) EXCEPT !.sum = content].code
            = CORRECT_CRC_CODE_RESPONSE
    BY DEF Bare
  <2>3. /\ step' = "opened" /\ answer'.code = CORRECT_CRC_CODE_RESPONSE
        /\ Goto("opened", answer')
    BY <2>1, <2>2 DEF Goto
  <2>4. /\ queue # << >> /\ UNCHANGED <<connVars, drawn>>
        /\ Served.code = FILE_SENDING_REQUEST_CODE /\ Write(Truncated)
    BY <1>1, <1>11b, <1>13 DEF OpenFile, RightCipher
  <2>5. Handles /\ HasId'
    BY <1>0, <2>3, <2>4, GotoIsHandles DEF Step
  <2>6. AnswerMatches'
    BY <2>3, <2>4 DEF AnswerMatches, connVars, Served
  <2>. QED BY <2>5, <2>6
<1>14. CASE WriteFile
  <2>1. /\ step' = "written" /\ answer' = answer /\ queue # << >>
        /\ Goto("written", answer) /\ UNCHANGED <<connVars, drawn>>
        /\ Write(answer.sum) /\ answer.sum \in Content \cup {Garbage}
        /\ Served.code = FILE_SENDING_REQUEST_CODE
        /\ answer.code = CORRECT_CRC_CODE_RESPONSE
    BY <1>0, <1>14 DEF WriteFile, Goto, AnswerMatches, TypeOK, ServerTypeOK
  <2>2. Handles /\ HasId'
    BY <1>0, <2>1, GotoIsHandles DEF Step
  <2>3. Sender \in DOMAIN store' /\ store'[Sender] = answer.sum
    BY <2>1 DEF Write
  <2>4. AnswerMatches'
    BY <2>1, <2>3 DEF AnswerMatches, connVars, Served, Sender
  <2>. QED BY <2>2, <2>4
<1>15. CASE RecordFile
  <2>1. /\ step' = "answer" /\ answer' = answer /\ queue # << >>
        /\ UNCHANGED <<connVars, store, drawn>>
        /\ answer.code = CORRECT_CRC_CODE_RESPONSE
        /\ Sender \in DOMAIN store /\ store[Sender] = answer.sum
    BY <1>0, <1>2, <1>15 DEF RecordFile, AnswerMatches
  <2>2. Handles
    BY <1>0, <2>1 DEF Handles, Granted, CORRECT_CRC_CODE_RESPONSE,
                      REGISTRATION_WAS_SUCCESS_CODE
  <2>3. HasId'
    BY <1>0, <2>1 DEF HasId, connVars, clientVars, CORRECT_CRC_CODE_RESPONSE,
                      REGISTRATION_WAS_SUCCESS_CODE
  <2>4. AnswerMatches'
    BY <2>1 DEF AnswerMatches, connVars, Served, Sender, NOT_CONNECTED,
                WAITING, CORRECT_CRC_CODE_RESPONSE
  <2>. QED BY <2>2, <2>3, <2>4
<1>16. CASE PrintRaises \/ RecordRaises \/ DiskFails
  <2>1. /\ Answer(Bare(GENERAL_ERROR_CODE)) /\ queue # << >>
        /\ UNCHANGED <<connVars, store, drawn>>
    BY <1>0, <1>1, <1>16
    DEF PrintRaises, RecordRaises, DiskFails, RightCipher
  <2>. QED BY <1>2, <1>3, <1>5, <2>1
<1>17. CASE Verify \/ AcknowledgeFatal
  <2>1. /\ Answer(answer') /\ queue # << >>
        /\ UNCHANGED <<connVars, store, drawn>>
        /\ answer'.code = ACCEPT_CODE
    BY <1>1, <1>2, <1>17 DEF Verify, AcknowledgeFatal, Bare
  <2>. QED BY <1>0, <1>5, <2>1
<1>18. /\ Bare(RESET) \in Reply /\ Bare(GENERAL_ERROR_CODE) \in Reply
       /\ Bare(RESET).code \in Refusal
       /\ Bare(GENERAL_ERROR_CODE).code \in Refusal
       /\ \A reply \in Dropped : reply \in Reply /\ reply.code \in Refusal
  BY <1>3, BareType, SocketType DEF Refusal, Dropped, GENERAL_ERROR_CODE
<1>19. ASSUME NEW reply \in Reply, Close(reply), queue # << >>,
              UNCHANGED <<store, drawn>>,
              \/ step = "answer" /\ reply = answer
              \/ reply.code \in Refusal
       PROVE  Closes
  BY <1>0, <1>19 DEF Close, Closes
<1>20. ASSUME NEW reply \in Reply, Die(reply), reply.code \in Refusal,
              UNCHANGED <<store, drawn>>
       PROVE  Dies
  BY <1>0, <1>20 DEF Die, Dies
<1>21. CASE SendAnswer \/ IgnoreRepeat \/ ShortRequest
  <2>1. CASE SendAnswer
    BY <1>0, <1>19, <2>1 DEF SendAnswer
  <2>2. CASE IgnoreRepeat
    BY <1>1, <1>18, <1>19, <2>2 DEF IgnoreRepeat
  <2>3. CASE ShortRequest
    BY <1>18, <1>19, <2>3 DEF ShortRequest, Accepted
  <2>. QED BY <1>21, <2>1, <2>2, <2>3
<1>22. CASE RegisterRaises \/ UnknownSender \/ DecodeRaises \/ PeerReset \/ Crash
  BY <1>18, <1>20, <1>22
  DEF RegisterRaises, UnknownSender, DecodeRaises, PeerReset, Crash
<1>. QED BY <1>0, <1>6, <1>7, <1>8, <1>9, <1>10, <1>11, <1>11a, <1>12, <1>13,
            <1>14, <1>15, <1>16, <1>17, <1>21, <1>22
         DEF ServerNext, ServerSteps, ServerEvents

-----------------------------------------------------------------------------
\* The invariant holds at the start ...
LEMMA InitDelivery == Init => DeliveryInv
<1> SUFFICES ASSUME Init PROVE DeliveryInv
  OBVIOUS
<1>1. /\ DOMAIN queue = {} /\ queue = << >> /\ step = "ready" /\ drawn = 0
      /\ \A c \in Client : /\ pc[c] = "off"
                           /\ inbox[c].code = NOT_CONNECTED
                           /\ me[c].id = 0 /\ mem[c].id = 0
  BY EmptySeq, LenProperties
  DEF Init, NetInit, ClientInit, ServerInit, Bare, NoMeInfo, NewProcess
<1>2. QueueOrder
  BY <1>1 DEF QueueOrder, RunsInOrder, NothingStale, RequestMatches, Settled
<1>3. OwnIds
  BY <1>1 DEF OwnIds, IdsOf, Granted, NOT_CONNECTED,
              REGISTRATION_WAS_SUCCESS_CODE
<1>4. HasId /\ AnswerMatches /\ ChecksumMatches /\ DeliveredIsStored
  BY <1>1 DEF HasId, AnswerMatches, ChecksumMatches, DeliveredIsStored,
              NOT_CONNECTED, REGISTRATION_WAS_SUCCESS_CODE
<1>. QED BY <1>2, <1>3, <1>4, InitType DEF DeliveryInv

\* A step that leaves its variables alone keeps it: the part on the queue ...
LEMMA SameOrder ==
    ASSUME QueueOrder, UNCHANGED <<queue, inbox, runs, pc, mem>>
    PROVE  QueueOrder'
<1>1. \A c \in Client : Settled(c)' <=> Settled(c)
  BY DEF Settled
<1>2. \A c \in Client, k \in DOMAIN queue :
         (Current(c, k)' <=> Current(c, k)) /\ (Mine(c, k)' <=> Mine(c, k))
  BY DEF Current, Mine
<1>3. RunsInOrder'
  BY DEF QueueOrder, RunsInOrder
<1>4. NothingStale'
  BY <1>1, <1>2 DEF QueueOrder, NothingStale
<1>5. RequestMatches'
  BY <1>2 DEF QueueOrder, RequestMatches
<1>. QED BY <1>3, <1>4, <1>5 DEF QueueOrder

\* ... and the parts on identifiers and the disk.
LEMMA SameRest ==
    ASSUME OwnIds, UploadInv,
           UNCHANGED <<queue, inbox, pc, me, mem, step, answer, store, drawn>>
    PROVE  OwnIds' /\ UploadInv'
<1>1. OwnIds'
  <2>1. \A c \in Client : IdsOf(c)' = IdsOf(c)
    BY DEF IdsOf, Granted, Mine
  <2>. QED BY <2>1 DEF OwnIds
<1>2. HasId' /\ ChecksumMatches' /\ DeliveredIsStored'
  BY DEF UploadInv, HasId, ChecksumMatches, DeliveredIsStored
<1>3. AnswerMatches'
  BY DEF UploadInv, AnswerMatches, Served, Sender
<1>. QED BY <1>1, <1>2, <1>3 DEF UploadInv

\* ... and so does every step.
LEMMA NextDelivery ==
    ASSUME DeliveryInv, TypeOK', [Next]_vars
    PROVE  DeliveryInv'
<1>0. TypeOK /\ QueueOrder /\ OwnIds /\ HasId /\ AnswerMatches /\ UploadInv
  BY DEF DeliveryInv, UploadInv
<1>1. ASSUME QueueOrder', OwnIds', UploadInv' PROVE DeliveryInv'
  BY <1>1 DEF DeliveryInv, UploadInv
<1>2. ASSUME NEW c \in Client, ClientNext(c) PROVE DeliveryInv'
  <2>1. UNCHANGED serverVars
    BY <1>2 DEF ClientNext
  <2>2. CASE Starts(c)
    BY <1>0, <1>1, <2>1, <2>2, StartsOrder, StartsIds, KeptIds,
       StartsUpload
  <2>3. CASE Asks(c)
    BY <1>0, <1>1, <2>1, <2>3, AsksOrder, AsksIds, KeptIds, AsksUpload
  <2>4. CASE Moves(c)
    BY <1>0, <1>1, <2>1, <2>4, MovesOrder, MovesIds, KeptIds,
       MovesUpload
  <2>. QED BY <1>0, <1>2, <2>2, <2>3, <2>4, ClientKinds
<1>3. CASE ServerNext
  <2>1. CASE Handles /\ HasId' /\ AnswerMatches'
    <3>1. QueueOrder'
      BY <1>0, <2>1, SameOrder DEF Handles, connVars, clientVars
    <3>. QED BY <1>0, <1>1, <2>1, <3>1, HandlesOwn, HandlesUpload
  <2>2. CASE Closes
    BY <1>0, <1>1, <2>2, ClosesOrder, ClosesIds, KeptIds, ClosesUpload
  <2>3. CASE Dies
    BY <1>0, <1>1, <2>3, DiesOrder, DiesIds, KeptIds, DiesUpload
  <2>4. CASE StartServer /\ UNCHANGED clientVars
    BY <1>0, <1>1, <2>4, SameOrder, SameRest DEF StartServer, clientVars
  <2>. QED BY <1>0, <1>3, <2>1, <2>2, <2>3, <2>4, ServerKinds
<1>4. CASE UNCHANGED vars
  BY <1>0, <1>1, <1>4, SameOrder, SameRest
  DEF vars, netVars, clientVars, serverVars
<1>. QED BY <1>2, <1>3, <1>4 DEF Next, Rest, Hang

\* Identifiers are never shared, and no request of an earlier run is behind one
\* of a later run: the inductive invariant holds in every reachable state.
THEOREM DeliveryCorrect == Spec => []DeliveryInv
<1>1. Init => DeliveryInv
  BY InitDelivery
<1>2. DeliveryInv /\ TypeOK' /\ [Next]_vars => DeliveryInv'
  BY NextDelivery
<1>. QED BY <1>1, <1>2, TypeCorrect, PTL DEF Spec

\* What a client reports as delivered is on the server's disk.
THEOREM DeliveredStaysStored == Spec => []DeliveredIsStored
<1>1. DeliveryInv => DeliveredIsStored
  BY DEF DeliveryInv
<1>. QED BY <1>1, DeliveryCorrect, PTL

-----------------------------------------------------------------------------
(***************************************************************************)
(* The clients and the server together implement FileDeposit: each kind of *)
(* action is a step of FileDeposit or leaves its variables alone.          *)
(***************************************************************************)
\* What FileDeposit sees of a client.
PhaseOf(c) == CASE pc[c] = "off"    -> "idle"
                [] pc[c] = "report" -> "delivered"
                [] OTHER            -> "busy"

\* A step in which only client c moves, in the terms of FileDeposit.
Visible(c) ==
    /\ UNCHANGED store
    /\ \A d \in Client \ {c} : pc'[d] = pc[d] /\ mem'[d] = mem[d]

\* The others wait in FileDeposit as well.
LEMMA VisibleStep ==
    ASSUME NEW c \in Client, Visible(c),
           \/ /\ PhaseOf(c) \in {"idle", "busy"} /\ PhaseOf(c)' = "busy"
              /\ mem'[c].id \in Nat
              /\ mem'[c].sent \in Content \cup {NoContent}
           \/ /\ PhaseOf(c) = "busy" /\ PhaseOf(c)' = "delivered"
              /\ mem[c].id \in DOMAIN store
              /\ store[mem[c].id] = mem[c].sent
              /\ mem'[c].id = mem[c].id /\ mem'[c].sent = mem[c].sent
           \/ /\ PhaseOf(c)' = "idle"
              /\ mem'[c].id = 0 /\ mem'[c].sent = NoContent
    PROVE  Deposit!Next
<1>1. Deposit!OthersWait(c)
  BY DEF Deposit!OthersWait, Visible
<1>2. Deposit!Work(c) \/ Deposit!Deliver(c) \/ Deposit!Leave(c)
  BY <1>1 DEF Deposit!Work, Deposit!Deliver, Deposit!Leave, PhaseOf, Visible
<1>. QED BY <1>2 DEF Deposit!Next

\* Starting the program is a beginning.
LEMMA StartsDeposit ==
    ASSUME TypeOK, TypeOK', NEW c \in Client, Starts(c), UNCHANGED serverVars
    PROVE  Deposit!Next
<1>1. Visible(c)
  BY DEF Starts, Visible, serverVars, TypeOK, ClientTypeOK
<1>2. PhaseOf(c) = "idle" /\ PhaseOf(c)' = "busy"
  BY DEF Starts, PhaseOf, TypeOK, ClientTypeOK
<1>3. mem'[c].id \in Nat /\ mem'[c].sent \in Content \cup {NoContent}
  BY DEF TypeOK, ClientTypeOK, Memory
<1>. QED BY <1>1, <1>2, <1>3, VisibleStep

\* Sending a request is work, or seen by nobody.
LEMMA AsksDeposit ==
    ASSUME TypeOK, TypeOK', NEW c \in Client, Asks(c), UNCHANGED serverVars
    PROVE  [Deposit!Next]_(Deposit!vars)
<1>1. Visible(c) /\ pc' = pc
  BY DEF Asks, Visible, serverVars, TypeOK, ClientTypeOK
<1>2. CASE pc[c] = "report"
  <2>1. \A d \in Client : mem'[d].id = mem[d].id /\ mem'[d].sent = mem[d].sent
    BY <1>2 DEF Asks, TypeOK, ClientTypeOK
  <2>. QED BY <1>1, <2>1 DEF Deposit!vars, Visible
<1>3. CASE pc[c] # "report"
  <2>1. PhaseOf(c) = "busy" /\ PhaseOf(c)' = "busy"
    BY <1>1, <1>3 DEF Asks, PhaseOf
  <2>2. mem'[c].id \in Nat /\ mem'[c].sent \in Content \cup {NoContent}
    BY DEF TypeOK, ClientTypeOK, Memory
  <2>. QED BY <1>1, <2>1, <2>2, VisibleStep
<1>. QED BY <1>2, <1>3

\* Handling an answer is work, a delivery when the checksum of what is on the
\* disk is that of the file, or the end.
LEMMA MovesDeposit ==
    ASSUME TypeOK, TypeOK', UploadInv, NEW c \in Client, Moves(c),
           UNCHANGED serverVars
    PROVE  Deposit!Next
<1>1. PICK phase \in Phase, memory \in Memory :
         /\ Enter(c, phase, memory)
         /\ phase = "report" =>
              /\ pc[c] = "upload"
              /\ inbox[c].code = CORRECT_CRC_CODE_RESPONSE
              /\ memory.id = mem[c].id
              /\ memory.sent = mem[c].sent
              /\ memory.sent = inbox[c].sum
         /\ phase = "off" => memory = NewProcess
         /\ pc[c] = "report" => phase = "off"
  BY DEF Moves
<1>2. Visible(c) /\ pc'[c] = phase /\ mem'[c] = memory
  BY <1>1 DEF Enter, Visible, serverVars, TypeOK, ClientTypeOK
<1>3. CASE phase = "off"
  <2>1. PhaseOf(c)' = "idle" /\ mem'[c].id = 0 /\ mem'[c].sent = NoContent
    BY <1>1, <1>2, <1>3 DEF PhaseOf, NewProcess
  <2>. QED BY <1>2, <2>1, VisibleStep
<1>4. CASE phase = "report"
  <2>1. mem[c].id \in DOMAIN store /\ store[mem[c].id] = mem[c].sent
    BY <1>1, <1>4 DEF UploadInv, ChecksumMatches
  <2>2. PhaseOf(c) = "busy" /\ PhaseOf(c)' = "delivered"
    BY <1>1, <1>2, <1>4 DEF PhaseOf
  <2>. QED BY <1>1, <1>2, <1>4, <2>1, <2>2, VisibleStep
<1>5. CASE phase \notin {"off", "report"}
  <2>1. PhaseOf(c) = "busy" /\ PhaseOf(c)' = "busy"
    BY <1>1, <1>2, <1>5 DEF PhaseOf, Moves
  <2>2. mem'[c].id \in Nat /\ mem'[c].sent \in Content \cup {NoContent}
    BY DEF TypeOK, ClientTypeOK, Memory
  <2>. QED BY <1>2, <2>1, <2>2, VisibleStep
<1>. QED BY <1>3, <1>4, <1>5

\* A handler writes only where no client has a delivery to report.
LEMMA HandlesDeposit ==
    ASSUME TypeOK, QueueOrder, OwnIds, UploadInv, Handles
    PROVE  [Deposit!Next]_(Deposit!vars)
<1>1. pc' = pc /\ mem' = mem
  BY DEF Handles, clientVars
<1>2. CASE UNCHANGED store
  BY <1>1, <1>2 DEF Deposit!vars
<1>3. CASE /\ Served.code = FILE_SENDING_REQUEST_CODE
           /\ \E content \in Content \cup {Garbage, Truncated} : Write(content)
  <2>1. \A c \in Client : mem[c].id = Sender => pc[c] # "report"
    BY <1>3, WritesElsewhere DEF Handles
  <2>2. /\ DOMAIN store' = DOMAIN store \cup {Sender}
        /\ \A b \in DOMAIN store \ {Sender} : store'[b] = store[b]
    BY <1>3 DEF Write
  <2>3. Deposit!Put(Sender)
    BY <1>1, <2>1, <2>2 DEF Deposit!Put
  <2>. QED BY <2>2, <2>3 DEF Deposit!Next
<1>. QED BY <1>2, <1>3 DEF Handles

\* Every step is a step of FileDeposit or leaves its variables alone.
LEMMA NextDeposit ==
    ASSUME DeliveryInv, TypeOK', [Next]_vars
    PROVE  [Deposit!Next]_(Deposit!vars)
<1>0. TypeOK /\ QueueOrder /\ OwnIds /\ HasId /\ AnswerMatches /\ UploadInv
  BY DEF DeliveryInv, UploadInv
<1>1. ASSUME UNCHANGED <<pc, mem, store>>
      PROVE  UNCHANGED Deposit!vars
  BY <1>1 DEF Deposit!vars
<1>2. ASSUME NEW c \in Client, ClientNext(c)
      PROVE  [Deposit!Next]_(Deposit!vars)
  <2>1. UNCHANGED serverVars
    BY <1>2 DEF ClientNext
  <2>. QED BY <1>0, <1>2, <2>1, ClientKinds, StartsDeposit, AsksDeposit,
              MovesDeposit
<1>3. CASE ServerNext
  <2>1. CASE Handles
    BY <1>0, <2>1, HandlesDeposit
  <2>2. CASE Closes \/ Dies \/ (StartServer /\ UNCHANGED clientVars)
    BY <1>1, <2>2 DEF Closes, Dies, StartServer, clientVars
  <2>. QED BY <1>0, <1>3, <2>1, <2>2, ServerKinds
<1>4. CASE UNCHANGED vars
  BY <1>1, <1>4 DEF vars, clientVars, serverVars
<1>. QED BY <1>2, <1>3, <1>4 DEF Next, Rest, Hang

\* The detailed system implements the deposit of files: whatever is retried,
\* crashes or waits in the backlog, a client takes its file for delivered only
\* when it is on the disk, and nobody writes there until the client has left.
THEOREM DepositCorrect == Spec => DepositsFiles
<1>1. Init => Deposit!Init
  BY DEF Init, ClientInit, ServerInit, Deposit!Init, NewProcess
<1>2. DeliveryInv /\ TypeOK' /\ [Next]_vars => [Deposit!Next]_(Deposit!vars)
  BY NextDeposit
<1>. QED BY <1>1, <1>2, TypeCorrect, DeliveryCorrect, PTL
         DEF Spec, DepositsFiles, Deposit!Spec

-----------------------------------------------------------------------------
(***************************************************************************)
(* The tables of defensive.db: names stay unique, no client's row changes  *)
(* hands, and a reported delivery has a record.                            *)
(***************************************************************************)
\* A registration commits a row for the name of its sender.
Registers ==
    /\ queue # << >>
    /\ ~HasName(clients, Name)
    /\ drawn' = drawn + 1
    /\ clients' = RegisterClient(clients, drawn', Name)
    /\ UNCHANGED files
    /\ step' = "answer" /\ answer'.code = REGISTRATION_WAS_SUCCESS_CODE

\* Everything else keeps the name of a row, if it keeps the row.
Narrows ==
    /\ drawn' \in Nat /\ drawn <= drawn'
    /\ DOMAIN clients' \subseteq DOMAIN clients
    /\ \A id \in DOMAIN clients' : clients'[id].name = clients[id].name

\* Only a new database forgets what was recorded, with every client.
KeepsRecords ==
    \/ \A row \in files : \E new \in files' :
          new.id = row.id /\ new.fileName = row.fileName
    \/ DOMAIN clients' = {}

\* An UPDATE of a key changes no name, and no row but the one under id.
LEMMA UpdateNames ==
    ASSUME TypeOK, NEW id, NEW value,
           \/ clients' = UpdatePublicKey(clients, id, value)
           \/ clients' = UpdateAESKey(clients, id, value)
    PROVE  /\ DOMAIN clients' = DOMAIN clients
           /\ \A i \in DOMAIN clients :
                /\ clients'[i].name = clients[i].name
                /\ i # id => clients'[i] = clients[i]
BY DEF UpdatePublicKey, UpdateAESKey, TypeOK, ServerTypeOK, Row

\* A VerifyFileByClientId keeps what the rows are about.
LEMMA VerifyKeeps ==
    ASSUME NEW id, files \subseteq FileRow,
           files' = VerifyFileByClientId(files, id)
    PROVE  KeepsRecords
<1>1. ASSUME NEW row \in files
      PROVE  \E new \in files' : new.id = row.id /\ new.fileName = row.fileName
  <2> DEFINE new == IF row.id = id THEN [row EXCEPT !.verified = TRUE] ELSE row
  <2>1. new \in files'
    BY DEF VerifyFileByClientId
  <2>2. new.id = row.id /\ new.fileName = row.fileName
    BY DEF FileRow
  <2>. QED BY <2>1, <2>2
<1>. QED BY <1>1 DEF KeepsRecords

\* Every step of the server does the one or the other.
LEMMA TableKinds ==
    ASSUME TypeOK, ServerNext
    PROVE  (Registers \/ Narrows) /\ KeepsRecords
<1>0. drawn \in Nat /\ drawn + 1 \in Nat /\ drawn <= drawn /\ drawn <= drawn + 1
  BY DEF TypeOK, ServerTypeOK
<1>1. ASSUME UNCHANGED files PROVE KeepsRecords
  BY <1>1 DEF KeepsRecords
<1>2. ASSUME UNCHANGED clients, drawn' \in {drawn, drawn + 1} PROVE Narrows
  BY <1>0, <1>2 DEF Narrows
<1>3. CASE Register
  BY <1>1, <1>3 DEF Register, Registers, Serve, Accepted, Answer, Goto, Bare
<1>4. CASE SavePublicKey \/ SaveAESKey \/ Rekey
  <2>1. UNCHANGED files /\ drawn' \in {drawn, drawn + 1}
    BY <1>4 DEF SavePublicKey, SaveAESKey, Rekey
  <2>2. \/ UNCHANGED clients
        \/ \E id, value : \/ clients' = UpdatePublicKey(clients, id, value)
                          \/ clients' = UpdateAESKey(clients, id, value)
    BY <1>4 DEF SavePublicKey, SaveAESKey, Rekey
  <2>. QED BY <1>0, <1>1, <1>2, <2>1, <2>2, UpdateNames DEF Narrows
<1>5. CASE Deny
  BY <1>0, <1>1, <1>5 DEF Deny, Narrows, DeleteClientByName
<1>6. CASE RecordFile \/ PrintRaises
  <2>1. files \subseteq files' /\ UNCHANGED <<clients, drawn>>
    BY <1>6 DEF RecordFile, PrintRaises, InsertRecord, InsertFileRecord
  <2>. QED BY <1>2, <2>1 DEF KeepsRecords
<1>7. CASE Verify
  BY <1>1, <1>2, <1>7, VerifyKeeps DEF Verify, TypeOK, ServerTypeOK
<1>8. CASE StartServer
  BY <1>0, <1>1, <1>2, <1>8
  DEF StartServer, NoClients, NoFiles, KeepsRecords, Narrows
<1>9. CASE \/ RefuseName \/ RegisterRaises \/ Block \/ UnknownSender
           \/ RejectCipher \/ OpenFile \/ WriteFile \/ RecordRaises \/ DiskFails
           \/ AcknowledgeFatal \/ IgnoreRepeat \/ SendAnswer \/ ShortRequest
           \/ DecodeRaises \/ PeerReset \/ Crash
  <2>1. UNCHANGED <<clients, files, drawn>>
    BY <1>9 DEF RefuseName, RegisterRaises, Block, UnknownSender, RejectCipher,
       OpenFile, WriteFile, RecordRaises, DiskFails, AcknowledgeFatal,
       IgnoreRepeat, SendAnswer, ShortRequest, DecodeRaises, PeerReset, Crash
  <2>. QED BY <1>1, <1>2, <2>1
<1>. QED BY <1>3, <1>4, <1>5, <1>6, <1>7, <1>8, <1>9
         DEF ServerNext, ServerSteps, ServerEvents

\* A registration adds a row that no other has the name of, under an identifier
\* that no client knew.
LEMMA RegistersTable ==
    ASSUME TypeOK, OwnIds, TableMatches, Registers,
           \A d \in Client : \A id \in IdsOf(d)' \ IdsOf(d) :
              id = drawn + 1 /\ d = Served.from
    PROVE  TableMatches'
<1>1. /\ drawn \in Nat
      /\ DOMAIN clients' = DOMAIN clients \cup {drawn + 1}
      /\ drawn + 1 \notin DOMAIN clients
      /\ clients'[drawn + 1].name = Name
      /\ \A i \in DOMAIN clients : clients'[i] = clients[i] /\ clients[i].name # Name
  BY DEF TypeOK, ServerTypeOK, Registers, RegisterClient, HasName, TableMatches
<1>2. DOMAIN clients' \subseteq 1 .. drawn'
  BY <1>1 DEF Registers, TableMatches
<1>3. ASSUME NEW i \in DOMAIN clients', NEW j \in DOMAIN clients',
             clients'[i].name = clients'[j].name
      PROVE  i = j
  BY <1>1, <1>3 DEF TableMatches
<1>4. ASSUME NEW c \in Client, NEW id \in IdsOf(c)', id \in DOMAIN clients'
      PROVE  clients'[id].name = NameOf[c]
  <2>1. CASE id \in IdsOf(c)
    <3>1. id # drawn + 1
      BY <1>1, <2>1 DEF OwnIds
    <3>. QED BY <1>1, <1>4, <2>1, <3>1 DEF TableMatches
  <2>2. CASE id \notin IdsOf(c)
    BY <1>1, <1>4, <2>2 DEF Name
  <2>. QED BY <2>1, <2>2
<1>. QED BY <1>2, <1>3, <1>4 DEF TableMatches

\* What keeps names keeps the table.
LEMMA NarrowsTable ==
    ASSUME TypeOK, TableMatches, Narrows,
           \A d \in Client : \A id \in IdsOf(d)' \ IdsOf(d) : id = drawn + 1
    PROVE  TableMatches'
<1>1. drawn \in Nat /\ drawn + 1 \notin DOMAIN clients'
  BY DEF TypeOK, ServerTypeOK, Narrows, TableMatches
<1>2. DOMAIN clients' \subseteq 1 .. drawn'
  BY <1>1 DEF Narrows, TableMatches
<1>. QED BY <1>1, <1>2 DEF Narrows, TableMatches

\* No step gives a client an identifier but a registration of that client.
LEMMA NextIds ==
    ASSUME DeliveryInv, TypeOK', [Next]_vars, NEW d \in Client,
           NEW id \in IdsOf(d)' \ IdsOf(d)
    PROVE  ServerNext /\ id = drawn + 1 /\ d = Served.from
<1>0. TypeOK /\ HasId /\ AnswerMatches
  BY DEF DeliveryInv
<1>1. ASSUME NEW c \in Client, ClientNext(c) PROVE FALSE
  BY <1>0, <1>1, ClientKinds, StartsIds, AsksIds, MovesIds DEF ClientNext
<1>2. ASSUME UNCHANGED <<queue, inbox, me, mem, step, answer>> PROVE FALSE
  <2>1. IdsOf(d)' = IdsOf(d)
    BY <1>2 DEF IdsOf, Granted, Mine
  <2>. QED BY <2>1
<1>3. CASE ServerNext
  BY <1>0, <1>2, <1>3, ServerKinds, HandlesIds, ClosesIds, DiesIds
  DEF StartServer, clientVars
<1>4. CASE UNCHANGED vars
  BY <1>2, <1>4 DEF vars, netVars, clientVars, serverVars
<1>. QED BY <1>1, <1>3, <1>4 DEF Next, Rest, Hang

\* So the table stays as it has to be.
LEMMA NextTable ==
    ASSUME DeliveryInv, TypeOK', TableMatches, [Next]_vars
    PROVE  TableMatches'
<1>0. TypeOK /\ OwnIds
  BY DEF DeliveryInv
<1>1. CASE ServerNext
  BY <1>0, <1>1, TableKinds, NextIds, RegistersTable, NarrowsTable
<1>2. CASE UNCHANGED serverVars /\ ~ServerNext
  <2>1. Narrows
    BY <1>0, <1>2 DEF Narrows, serverVars, TypeOK, ServerTypeOK
  <2>. QED BY <1>0, <1>2, <2>1, NextIds, NarrowsTable
<1>. QED BY <1>1, <1>2 DEF Next, ClientNext, Rest, Hang, vars

-----------------------------------------------------------------------------
(***************************************************************************)
(* The records of deliveries.                                              *)
(***************************************************************************)
\* A record stays one: a new row of clients is under an identifier that nothing
\* was uploaded under.
LEMMA StaysRecorded ==
    ASSUME TypeOK, NEW c \in Client, NEW id \in 0 .. drawn, Recorded(c, id),
           Registers \/ Narrows, KeepsRecords
    PROVE  Recorded(c, id)'
<1>1. id \in DOMAIN clients' => id \in DOMAIN clients
  BY DEF TypeOK, ServerTypeOK, Registers, RegisterClient, Narrows
<1>2. CASE DOMAIN clients' = {}
  BY <1>2 DEF Recorded
<1>3. CASE \A row \in files : \E new \in files' :
              new.id = row.id /\ new.fileName = row.fileName
  <2>1. ASSUME NEW row \in files, Names(row, id, FileOf[c])
        PROVE  \E new \in files' : Names(new, id, FileOf[c])
    BY <1>3, <2>1 DEF Names
  <2>. QED BY <1>1, <2>1 DEF Recorded
<1>. QED BY <1>2, <1>3 DEF KeepsRecords

\* The identifiers of a process, of me.info, and of the request that is served, were drawn.
LEMMA DrawnIds ==
    ASSUME TypeOK, OwnIds
    PROVE  /\ \A c \in Client : mem[c].id \in 0 .. drawn /\ me[c].id \in 0 .. drawn
           /\ queue # << >> => Sender \in 0 .. drawn /\ Served.from \in Client
<1>0. drawn \in Nat /\ \A id \in 1 .. drawn : id \in 0 .. drawn
  BY DEF TypeOK, ServerTypeOK
<1>1. ASSUME NEW c \in Client
      PROVE  mem[c].id \in 0 .. drawn /\ me[c].id \in 0 .. drawn
  <2>1. /\ mem[c].id # 0 => mem[c].id \in IdsOf(c)
        /\ me[c].id # 0 => me[c].id \in IdsOf(c)
    BY DEF IdsOf
  <2>. QED BY <1>0, <2>1 DEF OwnIds
<1>2. ASSUME queue # << >>
      PROVE  Sender \in 0 .. drawn /\ Served.from \in Client
  <2>1. /\ 1 \in DOMAIN queue /\ queue[1] = Served /\ Served.from \in Client
    BY <1>2, TailFacts, QueueType DEF TypeOK
  <2>2. Sender # 0 => Sender \in IdsOf(Served.from)
    BY <2>1 DEF IdsOf, Mine, Sender
  <2>. QED BY <1>0, <2>1, <2>2 DEF OwnIds
<1>. QED BY <1>1, <1>2

\* What a client compares, reports, or is being sent the checksum of.
RecordPart == RecordMatches /\ DeliveredIsRecorded

\* No step of a client makes a record necessary that is not there.
LEMMA ClientRecord ==
    ASSUME TypeOK, HasId, RecordPart, NEW c \in Client, ClientNext(c)
    PROVE  RecordPart'
<1>0. UNCHANGED <<step, answer, clients, files>>
  BY DEF ClientNext, serverVars
<1>1. CASE Starts(c)
  <2>1. /\ queue' = queue /\ inbox' = inbox
        /\ pc'[c] \in {"register", "reconnect"}
        /\ \A d \in Client : d # c => pc'[d] = pc[d] /\ mem'[d] = mem[d]
    BY <1>1 DEF Starts, TypeOK, ClientTypeOK
  <2>. QED BY <1>0, <2>1 DEF RecordPart, RecordMatches, DeliveredIsRecorded,
                             Recorded, Served, Sender
<1>2. CASE Asks(c)
  <2>1. PICK request \in Request :
           /\ queue' = Append(queue, request)
           /\ inbox' = [inbox EXCEPT ![c] = Bare(WAITING)]
    BY <1>2 DEF Asks
  <2>2. /\ pc' = pc
        /\ \A d \in Client : mem'[d].id = mem[d].id
        /\ inbox'[c].code = WAITING
        /\ \A d \in Client : d # c => inbox'[d] = inbox[d]
    BY <1>2, <2>1 DEF Asks, TypeOK, NetTypeOK, ClientTypeOK, Bare
  <2>3. step # "ready" => Head(queue') = Head(queue)
    BY <2>1, AppendFacts, TailFacts, HeadTailProperties, AppendProperties
    DEF TypeOK, NetTypeOK, ServerTypeOK, Served
  <2>. QED BY <1>0, <2>2, <2>3 DEF RecordPart, RecordMatches,
              DeliveredIsRecorded, Recorded, Served, Sender, WAITING,
              CORRECT_CRC_CODE_RESPONSE
<1>3. CASE Moves(c)
  <2>1. PICK phase \in Phase, memory \in Memory :
           /\ Enter(c, phase, memory)
           /\ phase = "report" =>
                /\ pc[c] = "upload"
                /\ inbox[c].code = CORRECT_CRC_CODE_RESPONSE
                /\ memory.id = mem[c].id
    BY <1>3 DEF Moves
  <2>2. /\ queue' = queue /\ pc'[c] = phase /\ mem'[c] = memory
        /\ inbox'[c].code = NOT_CONNECTED
        /\ \A d \in Client : d # c =>
              pc'[d] = pc[d] /\ mem'[d] = mem[d] /\ inbox'[d] = inbox[d]
    BY <1>3, <2>1 DEF Moves, Enter, Disconnect, TypeOK, NetTypeOK,
                      ClientTypeOK, Bare
  <2>. QED BY <1>0, <2>1, <2>2 DEF RecordPart, RecordMatches,
              DeliveredIsRecorded, Recorded, Served, Sender, NOT_CONNECTED,
              CORRECT_CRC_CODE_RESPONSE
<1>. QED BY <1>1, <1>2, <1>3, ClientKinds

\* A handler answers 1603 only after it has committed the record.
LEMMA HandlesRecord ==
    ASSUME TypeOK, AnswerMatches, ServerSteps, Handles,
           step' = "answer", answer'.code = CORRECT_CRC_CODE_RESPONSE
    PROVE  Recorded(Served.from, Sender)'
<1>1. CASE RecordFile
  <2> DEFINE new == [id |-> FileOf[Served.from], fileName |-> Sender,
                     verified |-> FALSE]
  <2>1. new \in files'
    BY <1>1 DEF RecordFile, InsertRecord, InsertFileRecord
  <2>2. Served' = Served /\ Sender' = Sender
    BY DEF Handles, connVars, Served, Sender
  <2>3. Names(new, Sender, FileOf[Served.from])
    BY DEF Names
  <2>. QED BY <2>1, <2>2, <2>3 DEF Recorded
<1>2. CASE ~RecordFile
  <2>1. CASE Register \/ RefuseName \/ Deny \/ RejectCipher \/ PrintRaises
             \/ RecordRaises \/ DiskFails \/ Verify \/ AcknowledgeFatal
    BY <2>1 DEF Register, RefuseName, Deny, RejectCipher, PrintRaises,
       RecordRaises, DiskFails, Verify, AcknowledgeFatal, Answer, Goto, Bare,
       REGISTRATION_WAS_SUCCESS_CODE, REGISTRATION_WAS_FAILED_CODE,
       RECONNECT_DENIED, GENERAL_ERROR_CODE, ACCEPT_CODE,
       CORRECT_CRC_CODE_RESPONSE
  <2>2. CASE SaveAESKey
    BY <2>2 DEF SaveAESKey, Answer, Goto, AnswerMatches, TypeOK, ServerTypeOK,
                Reply, PRIVATE_KEY_ENCRYPTION_CODE, CORRECT_CRC_CODE_RESPONSE
  <2>3. CASE Rekey
    BY <2>3 DEF Rekey, Answer, Goto, WithKey, RECONNECT_ACCEPTED,
                CORRECT_CRC_CODE_RESPONSE
  <2>4. CASE SavePublicKey \/ Block \/ OpenFile \/ WriteFile
    BY <2>4 DEF SavePublicKey, Block, OpenFile, WriteFile, Goto
  <2>5. CASE RegisterRaises \/ UnknownSender \/ IgnoreRepeat \/ SendAnswer
             \/ ShortRequest \/ DecodeRaises \/ PeerReset
    BY <2>5 DEF RegisterRaises, UnknownSender, IgnoreRepeat, SendAnswer,
       ShortRequest, DecodeRaises, PeerReset, Die, Close
  <2>. QED BY <1>2, <2>1, <2>2, <2>3, <2>4, <2>5 DEF ServerSteps
<1>. QED BY <1>1, <1>2

\* No step of the server loses a record that is needed.
LEMMA ServerRecord ==
    ASSUME DeliveryInv, TypeOK', RecordPart, ServerNext
    PROVE  RecordPart'
<1>0. TypeOK /\ OwnIds /\ HasId /\ AnswerMatches /\ QueueOrder
  BY DEF DeliveryInv
<1>1. ASSUME NEW c \in Client, NEW id \in 0 .. drawn, Recorded(c, id)
      PROVE  Recorded(c, id)'
  BY <1>0, <1>1, TableKinds, StaysRecorded
<1>2. UNCHANGED <<pc, mem>> /\ \A c \in Client : mem[c].id \in 0 .. drawn
  BY <1>0, DrawnIds DEF ServerNext, clientVars
<1>3. DeliveredIsRecorded'
  <2>1. \A c \in Client : pc[c] = "report" => Recorded(c, mem[c].id)
    BY DEF RecordPart, DeliveredIsRecorded, Recorded
  <2>2. \A c \in Client : pc[c] = "report" => Recorded(c, mem[c].id)'
    BY <1>1, <1>2, <2>1
  <2>. QED BY <1>2, <2>2 DEF DeliveredIsRecorded, Recorded
<1>4. ASSUME NEW c \in Client, pc[c] = "upload", inbox' = inbox,
             inbox[c].code = CORRECT_CRC_CODE_RESPONSE
      PROVE  Recorded(c, mem[c].id)'
  BY <1>1, <1>2, <1>4 DEF RecordPart, RecordMatches
<1>5. CASE StartServer
  <2>1. /\ inbox' = inbox /\ step' = step /\ answer' = answer /\ queue' = queue
        /\ Served' = Served /\ Sender' = Sender
    BY <1>5 DEF StartServer, Served, Sender
  <2>2. ASSUME step = "answer", answer.code = CORRECT_CRC_CODE_RESPONSE
        PROVE  Recorded(Served.from, Sender)'
    <3>1. PICK h \in Client, id \in 0 .. drawn : h = Served.from /\ id = Sender
      BY <1>0, <2>2, DrawnIds DEF TypeOK, ServerTypeOK
    <3>2. Recorded(h, id)'
      BY <1>1, <2>2, <3>1 DEF RecordPart, RecordMatches
    <3>. QED BY <2>1, <3>1, <3>2 DEF Recorded
  <2>. QED BY <1>2, <1>3, <1>4, <2>1, <2>2
           DEF RecordPart, RecordMatches, Recorded
<1>6. CASE Handles /\ ~StartServer
  <2>1. inbox' = inbox
    BY <1>6 DEF Handles, connVars
  <2>2. CASE ServerSteps
    BY <1>0, <1>2, <1>3, <1>4, <1>6, <2>1, <2>2, HandlesRecord
    DEF RecordPart, RecordMatches, Recorded
  <2>3. CASE Crash
    BY <1>2, <1>3, <1>4, <2>1, <2>3
    DEF Crash, Die, RecordPart, RecordMatches, Recorded
  <2>. QED BY <1>6, <2>2, <2>3 DEF ServerNext, ServerEvents
<1>7. CASE Closes
  <2>1. PICK reply \in Reply :
           /\ \/ step = "answer" /\ reply = answer
              \/ reply.code \in Refusal
           /\ Finish(reply)
    BY <1>7 DEF Closes
  <2>2. /\ step' = "ready"
        /\ \A d \in Client :
             \/ inbox'[d] = inbox[d]
             \/ inbox'[d] = reply /\ d = Served.from /\ Live(Served)
    BY <1>0, <1>7, <2>1 DEF Closes, Finish, TypeOK, NetTypeOK, Served
  <2>3. ASSUME NEW d \in Client, pc[d] = "upload",
               inbox'[d].code = CORRECT_CRC_CODE_RESPONSE
        PROVE  Recorded(d, mem[d].id)
    <3>1. CASE inbox'[d] = inbox[d]
      BY <2>3, <3>1 DEF RecordPart, RecordMatches
    <3>2. CASE inbox'[d] = reply /\ d = Served.from /\ Live(Served)
      <4>1. Current(d, 1) /\ 1 \in DOMAIN queue /\ Served = queue[1]
        BY <1>0, <1>7, <3>2, TailFacts DEF Closes, Current, Live, TypeOK
      <4>2. Sender = mem[d].id
        BY <2>3, <4>1, <1>0 DEF QueueOrder, RequestMatches, Sender
      <4>3. step = "answer" /\ reply = answer
        BY <2>1, <2>3, <3>2 DEF Refusal, RESET, EOF, GENERAL_ERROR_CODE,
                                CORRECT_CRC_CODE_RESPONSE
      <4>. QED BY <2>3, <3>2, <4>2, <4>3 DEF RecordPart, RecordMatches
    <3>. QED BY <2>2, <3>1, <3>2
  <2>4. ASSUME NEW d \in Client, pc[d] = "upload",
               inbox'[d].code = CORRECT_CRC_CODE_RESPONSE
        PROVE  Recorded(d, mem[d].id)'
    BY <1>1, <1>2, <2>3, <2>4
  <2>. QED BY <1>2, <1>3, <2>2, <2>4 DEF RecordPart, RecordMatches, Recorded
<1>8. CASE Dies
  <2>1. PICK reply \in Reply : reply.code \in Refusal /\ ServerStops(reply)
    BY <1>8 DEF Dies
  <2>2. /\ step' = "ready"
        /\ \A d \in Client : inbox'[d] = inbox[d] \/ inbox'[d].code \in Refusal
    BY <1>8, <2>1 DEF Dies, ServerStops, Refusal, Bare
  <2>3. ASSUME NEW d \in Client, pc[d] = "upload",
               inbox'[d].code = CORRECT_CRC_CODE_RESPONSE
        PROVE  Recorded(d, mem[d].id)'
    <3>1. inbox'[d] = inbox[d]
      BY <2>2, <2>3 DEF Refusal, RESET, EOF, GENERAL_ERROR_CODE,
                        CORRECT_CRC_CODE_RESPONSE
    <3>. QED BY <1>1, <1>2, <2>3, <3>1 DEF RecordPart, RecordMatches
  <2>. QED BY <1>2, <1>3, <2>2, <2>3 DEF RecordPart, RecordMatches, Recorded
<1>. QED BY <1>0, <1>5, <1>6, <1>7, <1>8, ServerKinds

\* The invariant of the records holds at the start ...
LEMMA InitRecord == Init => RecordInv
<1> SUFFICES ASSUME Init PROVE RecordInv
  OBVIOUS
<1>1. DOMAIN clients = {} /\ step = "ready"
      /\ \A c \in Client : pc[c] = "off"
  BY DEF Init, ClientInit, ServerInit, NoClients
<1>2. TableMatches
  BY <1>1 DEF TableMatches
<1>3. RecordMatches /\ DeliveredIsRecorded
  BY <1>1 DEF RecordMatches, DeliveredIsRecorded
<1>. QED BY <1>2, <1>3, InitDelivery DEF RecordInv

\* ... and is kept by every step.
LEMMA NextRecord ==
    ASSUME RecordInv, TypeOK', [Next]_vars
    PROVE  RecordInv'
<1>0. DeliveryInv /\ TableMatches /\ RecordPart /\ TypeOK /\ HasId
  BY DEF RecordInv, RecordPart, DeliveryInv
<1>1. DeliveryInv' /\ TableMatches'
  BY <1>0, NextDelivery, NextTable
<1>2. ASSUME NEW c \in Client, ClientNext(c) PROVE RecordPart'
  BY <1>0, <1>2, ClientRecord
<1>3. ASSUME ServerNext PROVE RecordPart'
  BY <1>0, <1>3, ServerRecord
<1>4. ASSUME UNCHANGED vars PROVE RecordPart'
  BY <1>0, <1>4 DEF vars, netVars, clientVars, serverVars, RecordPart,
     RecordMatches, DeliveredIsRecorded, Recorded, Served, Sender
<1>5. RecordPart'
  BY <1>2, <1>3, <1>4 DEF Next, Rest, Hang
<1>. QED BY <1>1, <1>5 DEF RecordInv, RecordPart

\* Names are unique in clients, a client's row has its name, and a checksum on
\* its way to a client is that of a recorded upload: in every reachable state.
THEOREM RecordCorrect == Spec => []RecordInv
<1>1. Init => RecordInv
  BY InitRecord
<1>2. RecordInv /\ TypeOK' /\ [Next]_vars => RecordInv'
  BY NextRecord
<1>. QED BY <1>1, <1>2, TypeCorrect, PTL DEF Spec

\* What a client reports as delivered has a record in defensive.db, unless the
\* database was replaced and does not know the client any more.
THEOREM DeliveredStaysRecorded == Spec => []DeliveredIsRecorded
<1>1. RecordInv => DeliveredIsRecorded
  BY DEF RecordInv
<1>. QED BY <1>1, RecordCorrect, PTL
=============================================================================
