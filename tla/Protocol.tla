------------------------------ MODULE Protocol ------------------------------
(***************************************************************************)
(* What the C++ client and the Python server agree on: the request and     *)
(* response codes, the fields of a message that the two programs look at,  *)
(* and the TCP connections between them.                                   *)
(*                                                                         *)
(* A connection carries one request and at most one response.  The server  *)
(* serves connections in the order they were opened, so the connections    *)
(* that exist are one queue: its head is the one being served, the rest    *)
(* wait in the backlog of the listening socket.                            *)
(***************************************************************************)
EXTENDS Naturals, Sequences, FiniteSets

CONSTANTS
    Client,      \* client installations: a directory with transfer.info, me.info
    NameOf,      \* NameOf[c]: the user name on the second line of transfer.info
    FileOf,      \* FileOf[c]: the file name on its third line
    Content,     \* the contents the file to send may have
    Unprintable, \* the contents that decode('unicode_escape') raises on
    BadName,     \* clients whose user name is not valid UTF-8
    BadFile,     \* clients whose file name is not valid UTF-8
    Garbage,     \* bytes that no client ever sent
    Truncated,   \* a file that was opened for writing and not yet written
    NoContent,   \* no content at all
    Faults,      \* the kinds of fault the environment may inject
    Backlog,     \* connections that wait while another one is served
    MaxRuns,     \* bound: MaxRuns[c]: how often the program of c is started
    MaxFaults    \* bound: how many faults happen in a behaviour

FaultKind ==
    { "kill",        \* a client process is killed
      "crash",       \* the server process is killed
      "fresh_db",    \* the server is started on a new defensive.db
      "short",       \* a recv() of the server returns part of the request
      "unreadable",  \* the client's file is missing, empty or unreadable
      "db",          \* sqlite raises sqlite3.Error
      "disk" }       \* creating or writing the uploaded file raises OSError

ASSUME ConfigAssumption ==
    /\ DOMAIN NameOf = Client
    /\ DOMAIN FileOf = Client
    /\ BadName \subseteq Client
    /\ BadFile \subseteq Client

ASSUME ContentAssumption ==
    /\ Unprintable \subseteq Content
    /\ {Garbage, Truncated, NoContent} \cap Content = {}
    /\ Cardinality({Garbage, Truncated, NoContent}) = 3

ASSUME BoundAssumption ==
    /\ Faults \subseteq FaultKind
    /\ Backlog \in Nat
    /\ MaxRuns \in [Client -> Nat]
    /\ MaxFaults \in Nat

(***************************************************************************)
(* Codes.                                                                  *)
(***************************************************************************)
REGISTRATION_REQUEST_CODE       == 825
PUBLIC_KEY_SENDING_REQUEST_CODE == 826
RECONNECT_REQUEST_CODE          == 827
FILE_SENDING_REQUEST_CODE       == 828
CORRECT_CRC_CODE                == 900
INCORRECT_CRC_CODE_REPEAT       == 901
FATA_ERROR_CODE                 == 902

REGISTRATION_WAS_SUCCESS_CODE == 1600
REGISTRATION_WAS_FAILED_CODE  == 1601
PRIVATE_KEY_ENCRYPTION_CODE   == 1602
CORRECT_CRC_CODE_RESPONSE     == 1603
ACCEPT_CODE                   == 1604
RECONNECT_ACCEPTED            == 1605
RECONNECT_DENIED              == 1606
GENERAL_ERROR_CODE            == 1607

\* What the client's socket shows when no response has been read from it.
NOT_CONNECTED == 0   \* between two connections
WAITING       == 1   \* connected, request written, blocked in read()
RESET         == 2   \* connection reset: read() fails with an error
EOF           == 3   \* closed by the server before a byte was sent

(***************************************************************************)
(* Messages.  An identifier (a uuid) and an AES key are numbers drawn by   *)
(* the server, 0 being the all-zero value.  An RSA pair is named by the    *)
(* run that generated it.  A checksum is modelled by the content it was    *)
(* computed from: different contents have different checksums.             *)
(***************************************************************************)
NoPair == << >>
Pair   == (Client \X Nat) \cup {NoPair}
NoCipher == [aes |-> 0, plain |-> NoContent]
Cipher == [aes : Nat, plain : Content \cup {NoContent}]

Request == [ from : Client, run : Nat, code : Nat, id : Nat,
             pair : Pair, cipher : Cipher ]
Reply   == [ code : Nat, id : Nat, aes : Nat, pair : Pair,
             sum : Content \cup {Garbage, NoContent} ]

\* A response, or a socket state, that carries nothing but its code.
Bare(code) == [ code |-> code, id |-> 0, aes |-> 0, pair |-> NoPair,
                sum |-> NoContent ]

\* A response with the identifier and the AES key encrypted for pair.
WithKey(code, id, aes, pair) ==
    [ code |-> code, id |-> id, aes |-> aes, pair |-> pair, sum |-> NoContent ]

(***************************************************************************)
(* Connections.                                                            *)
(***************************************************************************)
VARIABLES
    listening,  \* the server process runs and its port is open
    queue,      \* the open connections, each given by its request
    inbox,      \* inbox[c]: what client c finds on its socket
    runs,       \* runs[c]: how many times client c has been started
    faults      \* how many faults have happened

netVars == <<listening, queue, inbox, runs, faults>>

NetTypeOK ==
    /\ listening \in BOOLEAN
    /\ queue \in Seq(Request)
    /\ inbox \in [Client -> Reply]
    /\ runs \in [Client -> Nat]
    /\ faults \in Nat

NetInit ==
    /\ listening = TRUE
    /\ queue = << >>
    /\ inbox = [c \in Client |-> Bare(NOT_CONNECTED)]
    /\ runs = [c \in Client |-> 0]
    /\ faults = 0

\* The environment injects a fault of kind f.
Fault(f) == f \in Faults /\ faults < MaxFaults /\ faults' = faults + 1

\* The process that sent this request is still there, waiting for the answer.
Live(request) == /\ inbox[request.from].code = WAITING
                 /\ runs[request.from] = request.run

\* connect() succeeds and the whole request is written at once.
Connect(c, request) ==
    /\ listening
    /\ Len(queue) <= Backlog
    /\ queue' = Append(queue, request)
    /\ inbox' = [inbox EXCEPT ![c] = Bare(WAITING)]

\* connect() fails: no server, or no place in the backlog of the port.
Unreachable == ~listening \/ Len(queue) > Backlog

\* The connection being served ends; its client, if alive, is left with reply.
Finish(reply) ==
    LET request == Head(queue) IN
    /\ queue' = Tail(queue)
    /\ inbox' = IF Live(request)
                THEN [inbox EXCEPT ![request.from] = reply]
                ELSE inbox

\* The server process ends: the connection being served is left with reply,
\* those still in the backlog are reset.
ServerStops(reply) ==
    /\ listening' = FALSE
    /\ queue' = << >>
    /\ inbox' = [c \in Client |->
                   IF inbox[c].code # WAITING THEN inbox[c]
                   ELSE IF Live(Head(queue)) /\ Head(queue).from = c
                        THEN reply ELSE Bare(RESET)]
=============================================================================
