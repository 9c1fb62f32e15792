------------------------------- MODULE Client -------------------------------
(***************************************************************************)
(* The client program: one run of main() per start of the process, as a    *)
(* sequence of requests.  pc[c] is the request that the process is busy    *)
(* with; between sending it and handling the answer the process is blocked *)
(* in read() and inbox[c] is WAITING.  Only me.info outlives a run.        *)
(*                                                                         *)
(* me.info is abstracted to the identifier on its second line and the RSA  *)
(* pair named by the key that follows; its name line repeats the name of   *)
(* transfer.info.  A start that cannot get as far as a request, because    *)
(* me.info has no valid identifier or no key, changes nothing and is left  *)
(* out.                                                                    *)
(***************************************************************************)
EXTENDS Database

CONSTANTS Attempts   \* registrations, and uploads, that one run tries

ASSUME AttemptsAssumption == Attempts \in Nat \ {0}

VARIABLES
    pc,   \* pc[c]: the request the process is busy with, or "off"
    me,   \* me[c]: the file me.info
    mem   \* mem[c]: the process's variables: TransferInfo, the AES key, counters

clientVars == <<pc, me, mem>>

Phase == {"off", "register", "key", "reconnect", "upload", "repeat",
          "report", "fatal"}

\* No me.info; me.info truncated by an ofstream that was never flushed.
NoMeInfo    == [exists |-> FALSE, id |-> 0, pair |-> NoPair]
BlankMeInfo == [exists |-> TRUE,  id |-> 0, pair |-> NoPair]
MeInfo(id, pair) == [exists |-> TRUE, id |-> id, pair |-> pair]

NewProcess == [tries |-> 0, id |-> 0, pair |-> NoPair, aes |-> 0,
               sent |-> NoContent]

MeInfoFile == [exists : BOOLEAN, id : Nat, pair : Pair]
Memory     == [tries : 0 .. Attempts, id : Nat, pair : Pair, aes : Nat,
               sent : Content \cup {NoContent}]

\* An attempt is only made while the counter is below its limit, and a process
\* that has ended left no connection.
ClientTypeOK ==
    /\ pc \in [Client -> Phase]
    /\ me \in [Client -> MeInfoFile]
    /\ mem \in [Client -> Memory]
    /\ \A c \in Client :
         /\ pc[c] \in {"upload", "repeat"} => mem[c].tries < Attempts
         /\ pc[c] = "off" => inbox[c].code = NOT_CONNECTED

ClientInit ==
    /\ pc = [c \in Client |-> "off"]
    /\ me = [c \in Client |-> NoMeInfo]
    /\ mem = [c \in Client |-> NewProcess]

(***************************************************************************)
(* Control.                                                                *)
(***************************************************************************)
Idle(c) == inbox[c].code = NOT_CONNECTED

Disconnect(c) == inbox' = [inbox EXCEPT ![c] = Bare(NOT_CONNECTED)]

\* The next request of the same process.
Enter(c, phase, memory) ==
    /\ pc' = [pc EXCEPT ![c] = phase]
    /\ mem' = [mem EXCEPT ![c] = memory]
    /\ Disconnect(c)

\* main() returns.
Exit(c) == Enter(c, "off", NewProcess)

\* MUTANT of NextAttempt: counter <= Attempts in the loop of main().
OneAttemptMore(c) ==
    LET memory == [mem[c] EXCEPT !.tries = @ + 1] IN
    IF memory.tries <= Attempts THEN Enter(c, "upload", memory)
                                ELSE Enter(c, "fatal", memory)

\* MUTANT of NextAttempt: the counter is not incremented.
SameAttempt(c) ==
    IF mem[c].tries < Attempts THEN Enter(c, "upload", mem[c])
                               ELSE Enter(c, "fatal", mem[c])

\* The loop of main() goes round: its counter is incremented and compared.
NextAttempt(c) ==
    LET memory == [mem[c] EXCEPT !.tries = @ + 1] IN
    IF memory.tries < Attempts THEN Enter(c, "upload", memory)
                               ELSE Enter(c, "fatal", memory)

\* What a request that brought no usable answer leads to.
GiveUp(c) ==
    \/ pc[c] \in {"register", "key", "reconnect", "report", "fatal"} /\ Exit(c)
    \/ pc[c] = "upload" /\ Enter(c, "repeat", mem[c])
    \/ pc[c] = "repeat" /\ NextAttempt(c)

Ask(c, code, pair, cipher) ==
    /\ Idle(c)
    /\ Connect(c, [from |-> c, run |-> runs[c], code |-> code,
                   id |-> mem[c].id, pair |-> pair, cipher |-> cipher])
    /\ UNCHANGED <<pc, me, listening, runs, faults>>

(***************************************************************************)
(* Starting the program.                                                   *)
(***************************************************************************)
Start(c, phase, memory) ==
    /\ pc[c] = "off"
    /\ runs[c] < MaxRuns[c]
    /\ pc' = [pc EXCEPT ![c] = phase]
    /\ mem' = [mem EXCEPT ![c] = memory]
    /\ runs' = [runs EXCEPT ![c] = @ + 1]
    /\ UNCHANGED <<me, listening, queue, inbox, faults>>

\* There is no me.info: the user is new.
StartNew(c) == ~me[c].exists /\ Start(c, "register", NewProcess)

\* me.info has an identifier and a key: the user is known.
StartKnown(c) ==
    /\ me[c].id # 0
    /\ me[c].pair # NoPair
    /\ Start(c, "reconnect",
             [NewProcess EXCEPT !.id = me[c].id, !.pair = me[c].pair])

(***************************************************************************)
(* 825, registration.                                                      *)
(***************************************************************************)
SendRegistration(c) ==
    /\ pc[c] = "register"
    /\ Ask(c, REGISTRATION_REQUEST_CODE, NoPair, NoCipher)
    /\ UNCHANGED mem

\* 1600: me.info is truncated and written anew, then read back.
RegistrationSucceeded(c) ==
    /\ pc[c] = "register"
    /\ inbox[c].code = REGISTRATION_WAS_SUCCESS_CODE
    /\ me' = [me EXCEPT ![c] = MeInfo(inbox[c].id, NoPair)]
    /\ Enter(c, "key", [NewProcess EXCEPT !.id = inbox[c].id])
    /\ UNCHANGED <<listening, queue, runs, faults>>

\* 1601: the same request again, up to Attempts in all.
RegistrationFailed(c) ==
    /\ pc[c] = "register"
    /\ inbox[c].code = REGISTRATION_WAS_FAILED_CODE
    /\ IF mem[c].tries + 1 < Attempts
       THEN Enter(c, "register", [mem[c] EXCEPT !.tries = @ + 1])
       ELSE Exit(c)
    /\ UNCHANGED <<me, listening, queue, runs, faults>>

(***************************************************************************)
(* 826, sending the public key of a pair generated for this request.       *)
(***************************************************************************)
\* MUTANT of SendPublicKey: the private key is saved when it is generated.
SaveKeyThenSend(c) ==
    /\ pc[c] = "key"
    /\ Idle(c)
    /\ mem' = [mem EXCEPT ![c].pair = <<c, runs[c]>>]
    /\ me' = [me EXCEPT ![c].pair = <<c, runs[c]>>]
    /\ Connect(c, [from |-> c, run |-> runs[c],
                   code |-> PUBLIC_KEY_SENDING_REQUEST_CODE,
                   id |-> mem[c].id, pair |-> <<c, runs[c]>>,
                   cipher |-> NoCipher])
    /\ UNCHANGED <<pc, listening, runs, faults>>

SendPublicKey(c) ==
    /\ pc[c] = "key"
    /\ mem' = [mem EXCEPT ![c].pair = <<c, runs[c]>>]
    /\ Ask(c, PUBLIC_KEY_SENDING_REQUEST_CODE, <<c, runs[c]>>, NoCipher)

\* The cipher of the AES key is found where the identifier before it ends, and
\* it opens with the pair it was made for.
CanDecryptKey(c) == inbox[c].id # 0 /\ inbox[c].pair = mem[c].pair

\* The private key is appended to me.info before the AES key is decrypted.  A
\* key appended after another one is not read: the first one is.
SavePrivateKey(c) ==
    me' = [me EXCEPT ![c].pair = IF @ = NoPair THEN mem[c].pair ELSE @]

ReceiveAESKey(c) ==
    \/ /\ pc[c] = "key"
       /\ inbox[c].code = PRIVATE_KEY_ENCRYPTION_CODE
    \/ /\ pc[c] = "reconnect"
       /\ inbox[c].code = RECONNECT_ACCEPTED

KeyReceived(c) ==
    /\ ReceiveAESKey(c)
    /\ SavePrivateKey(c)
    /\ IF CanDecryptKey(c)
       THEN Enter(c, "upload",
                  [mem[c] EXCEPT !.aes = inbox[c].aes, !.tries = 0])
       ELSE Exit(c)
    /\ UNCHANGED <<listening, queue, runs, faults>>

(***************************************************************************)
(* 827, reconnection of a known user.                                      *)
(***************************************************************************)
SendReconnect(c) ==
    /\ pc[c] = "reconnect"
    /\ Ask(c, RECONNECT_REQUEST_CODE, NoPair, NoCipher)
    /\ UNCHANGED mem

\* 1606: the user is registered again, as a new one.  When the connection was
\* closed without an answer, the code is read from a buffer nobody wrote to.
\* What info still holds of the old user is read anew from me.info before it is
\* used again.
ReconnectDenied(c) ==
    /\ pc[c] = "reconnect"
    /\ inbox[c].code \in {RECONNECT_DENIED, EOF}
    /\ Enter(c, "register", NewProcess)
    /\ UNCHANGED <<me, listening, queue, runs, faults>>

(***************************************************************************)
(* 828, the upload, and 900, 901, 902, the reports on its checksum.        *)
(***************************************************************************)
\* The file is read and encrypted again for every attempt.
SendFile(c) ==
    /\ pc[c] = "upload"
    /\ \E content \in Content :
         /\ Ask(c, FILE_SENDING_REQUEST_CODE, NoPair,
                [aes |-> mem[c].aes, plain |-> content])
         /\ mem' = [mem EXCEPT ![c].sent = content]

\* The file cannot be read: the attempt has failed before a connection is made.
ReadFails(c) ==
    /\ pc[c] = "upload"
    /\ Idle(c)
    /\ Fault("unreadable")
    /\ Enter(c, "repeat", mem[c])
    /\ UNCHANGED <<me, listening, queue, runs>>

\* MUTANT of ChecksumReceived: any 1603 counts, its checksum is not compared.
AnyChecksumReceived(c) ==
    /\ pc[c] = "upload"
    /\ inbox[c].code \in {CORRECT_CRC_CODE_RESPONSE, GENERAL_ERROR_CODE}
    /\ IF inbox[c].code = CORRECT_CRC_CODE_RESPONSE
       THEN Enter(c, "report", mem[c])
       ELSE Enter(c, "repeat", mem[c])
    /\ UNCHANGED <<me, listening, queue, runs, faults>>

ChecksumReceived(c) ==
    /\ pc[c] = "upload"
    /\ inbox[c].code \in {CORRECT_CRC_CODE_RESPONSE, GENERAL_ERROR_CODE}
    /\ IF /\ inbox[c].code = CORRECT_CRC_CODE_RESPONSE
          /\ inbox[c].sum = mem[c].sent
       THEN Enter(c, "report", mem[c])
       ELSE Enter(c, "repeat", mem[c])
    /\ UNCHANGED <<me, listening, queue, runs, faults>>

ReportCode(phase) == CASE phase = "report" -> CORRECT_CRC_CODE
                       [] phase = "repeat" -> INCORRECT_CRC_CODE_REPEAT
                       [] phase = "fatal"  -> FATA_ERROR_CODE

SendReport(c) ==
    /\ pc[c] \in {"report", "repeat", "fatal"}
    /\ Ask(c, ReportCode(pc[c]), NoPair, NoCipher)
    /\ UNCHANGED mem

\* main() does not look at the code that runCRCRequest returns.
ReportAnswered(c) ==
    /\ pc[c] \in {"report", "repeat", "fatal"}
    /\ inbox[c].code = ACCEPT_CODE
    /\ GiveUp(c)
    /\ UNCHANGED <<me, listening, queue, runs, faults>>

(***************************************************************************)
(* Failures.                                                               *)
(***************************************************************************)
\* connect() throws, read() fails, or the buffer that was not written to holds
\* no code that this request expects.
RequestFails(c) ==
    /\ pc[c] # "off"
    /\ \/ Idle(c) /\ Unreachable
       \/ inbox[c].code \in {RESET, EOF}
    /\ GiveUp(c)
    /\ UNCHANGED <<me, listening, queue, runs, faults>>

\* The process is killed.  If that happens while it writes me.info for a new
\* registration, the file is left as open() truncated it.
ClientKilled(c) ==
    /\ pc[c] # "off"
    /\ Fault("kill")
    /\ Exit(c)
    /\ \/ UNCHANGED me
       \/ /\ pc[c] = "register"
          /\ inbox[c].code = REGISTRATION_WAS_SUCCESS_CODE
          /\ me' = [me EXCEPT ![c] = BlankMeInfo]
    /\ UNCHANGED <<listening, queue, runs>>

\* The steps of a process that is left alone, and those the user or the
\* environment decides on.
ClientSteps(c) ==
    \/ SendRegistration(c) \/ RegistrationSucceeded(c) \/ RegistrationFailed(c)
    \/ SendPublicKey(c) \/ KeyReceived(c)
    \/ SendReconnect(c) \/ ReconnectDenied(c)
    \/ SendFile(c) \/ ChecksumReceived(c)
    \/ SendReport(c) \/ ReportAnswered(c)
    \/ RequestFails(c)

ClientEvents(c) ==
    StartNew(c) \/ StartKnown(c) \/ ReadFails(c) \/ ClientKilled(c)
=============================================================================
