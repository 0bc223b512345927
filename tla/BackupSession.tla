--------------------------- MODULE BackupSession ---------------------------
(***************************************************************************)
(* A client that backs up its files, composed with BackupService.  The     *)
(* client is no part of this repository: it is the one the protocol is     *)
(* made for.  It sends the packets of an upload in order, waits for the    *)
(* response, compares the checksum with its own, confirms or rejects the   *)
(* upload, tries again, and may give up and reconnect at any time.         *)
(*                                                                         *)
(* It has one connection, and connects again when the thread of the last   *)
(* one has ended.  Messages arrive in the order they are sent.             *)
(***************************************************************************)
EXTENDS BackupService

CONSTANTS
    Owner,       \* the user the client is
    Line,        \* the thread that serves it
    MaxAttempts  \* bound: uploads the client starts

ASSUME SessionAssumption ==
    /\ Owner \in Users /\ Line \in Conns /\ Serves[Line] = {Owner}
    /\ MaxAttempts \in Nat /\ MaxAttempts <= MaxRows
    /\ MaxAttempts <= MaxIVs

VARIABLES
    phase,      \* what the client is doing
    upload,     \* the upload it is sending, or sent last
    attempts,   \* number of uploads it started
    toServer,   \* requests sent and not yet received
    toClient,   \* responses sent and not yet read
    confirmed,  \* history: versions the client found to be what it sent
    abandoned   \* history: files and packet numbers of uploads it gave up

clientVars == <<phase, upload, attempts, toServer, toClient, confirmed, abandoned>>

Phases == {"away", "ready", "sending", "waiting", "matched", "mismatch", "confirming"}

SessionInit ==
    /\ Init
    /\ phase = "away"
    /\ upload = NoReq
    /\ attempts = 0
    /\ toServer = <<>> /\ toClient = <<>>
    /\ confirmed = {} /\ abandoned = {}

-----------------------------------------------------------------------------
(* The client.                                                             *)

ClientConnects ==
    /\ phase = "away"
    /\ Connect(Line)
    /\ phase' = "ready"
    /\ toServer' = <<>> /\ toClient' = <<>>
    /\ UNCHANGED <<upload, attempts, confirmed, abandoned>>

\* It registers, or registers again.  The response may be lost: see StartUpload.
ExchangesKey ==
    /\ phase = "ready"
    /\ Rekey(Owner)
    /\ UNCHANGED clientVars

(***************************************************************************)
(* It encrypts a file under the key it has, which may be the one before    *)
(* the last (0: it never got one), with an initialization vector of this   *)
(* attempt, and cuts the result into packets.                              *)
(***************************************************************************)
StartUpload ==
    /\ phase = "ready"
    /\ attempts < MaxAttempts
    /\ \E n \in Names, c \in Contents, total \in 1..MaxPackets :
          \E key \in (aes_key[Owner] - 1..aes_key[Owner]) \cap Nat :
             upload' = [name |-> n, total |-> total, next |-> 1,
                        chunk |-> [content |-> c, key |-> key, iv |-> attempts + 1]]
    /\ attempts' = attempts + 1
    /\ phase' = "sending"
    /\ UNCHANGED <<vars, toServer, toClient, confirmed, abandoned>>

SendPacket ==
    /\ phase = "sending"
    /\ toServer' = Append(toServer, [code |-> "CREATE_BACKUP", upload |-> upload])
    /\ upload' = [upload EXCEPT !.next = @ + 1]
    /\ phase' = IF upload.next = upload.total THEN "waiting" ELSE "sending"
    /\ UNCHANGED <<vars, attempts, toClient, confirmed, abandoned>>

\* The client closes the connection, having given up an upload it was sending.
GoAway ==
    /\ phase' = "away"
    /\ toClient' = <<>>
    /\ abandoned' = IF phase \in {"sending", "waiting"}
                    THEN abandoned \cup {<<upload.name, upload.total>>} ELSE abandoned
    /\ UNCHANGED <<vars, upload, attempts, toServer, confirmed>>

HangUp == phase # "away" /\ GoAway

\* recv finds that the server closed the connection.
SeeEnd == phase # "away" /\ pc[Line] = "closed" /\ toClient = <<>> /\ GoAway

ReadFailure ==
    /\ phase # "away" /\ toClient # <<>>
    /\ Head(toClient).code = "FAILED"
    /\ GoAway

ReadResponse ==
    /\ toClient # <<>>
    /\ toClient' = Tail(toClient)
    /\ LET r == Head(toClient)
       IN  \/ /\ phase = "waiting" /\ r.code = "UPLOAD_RECEIVED"
              /\ r.content = upload.chunk.content
              /\ phase' = "matched"
              /\ confirmed' = confirmed \cup {[path |-> r.path, content |-> r.content]}
           \/ /\ phase = "waiting" /\ r.code = "UPLOAD_RECEIVED"
              /\ r.content # upload.chunk.content
              /\ phase' = "mismatch"
              /\ UNCHANGED confirmed
           \/ /\ phase = "confirming" /\ r.code = "ACK"
              /\ phase' = "ready"
              /\ UNCHANGED confirmed
    /\ UNCHANGED <<vars, upload, attempts, toServer, abandoned>>

\* CRC_ERROR gets no response: the client may start again at once.
SendVerdict ==
    /\ \/ /\ phase = "matched"
          /\ toServer' = Append(toServer, [code |-> "CRC_SUCCESS", upload |-> upload])
          /\ phase' = "confirming"
       \/ /\ phase = "mismatch"
          /\ toServer' = Append(toServer, [code |-> "CRC_ERROR", upload |-> upload])
          /\ phase' = "ready"
       \/ /\ phase = "mismatch"
          /\ toServer' = Append(toServer, [code |-> "CRC_FAILURE", upload |-> upload])
          /\ phase' = "confirming"
    /\ UNCHANGED <<vars, upload, attempts, toClient, confirmed, abandoned>>

-----------------------------------------------------------------------------
(* The server: the actions of BackupService, on what the client sent.      *)

\* Responses among `codes`, as the client will read them.
Sent(codes) ==
    toClient' = IF phase = "away" THEN <<>>
                ELSE toClient \o [i \in DOMAIN codes |->
                        [code |-> codes[i], content |-> data[Line], path |-> path[Line]]]

OnServer == UNCHANGED <<phase, upload, attempts, confirmed, abandoned>>

TakeRequest ==
    /\ pc[Line] = "idle"
    /\ toServer # <<>>
    /\ LET m == Head(toServer)
           u == m.upload
       IN  \/ /\ m.code = "CREATE_BACKUP"
              /\ AddChunk(Line, Owner, u.name, u.next, u.total, u.chunk)
           \/ /\ m.code = "CREATE_BACKUP"
              /\ ~Accepts(Owner, u.name, u.next, u.total)
              /\ RejectChunk(Line)
           \/ /\ m.code \in CrcCodes
              /\ ReceiveCrc(Line)
              /\ req'[Line] = [code |-> m.code, user |-> Owner, name |-> u.name]
           \/ /\ m.code \in {"CRC_SUCCESS", "CRC_FAILURE"}
              /\ FirstSendFails(Line)
    /\ toServer' = Tail(toServer)
    /\ Sent(replies'[Line])
    /\ OnServer

ThreadStep ==
    /\ Handle(Line)
    /\ Sent(SubSeq(replies'[Line], Len(replies[Line]) + 1, Len(replies'[Line])))
    /\ UNCHANGED toServer
    /\ OnServer

\* The client has closed: what it sent is read first, unless recv fails before.
ThreadEnds ==
    /\ phase = "away"
    /\ toServer = <<>> \/ "send" \in Faults
    /\ Disconnect(Line)
    /\ toServer' = <<>>
    /\ UNCHANGED toClient
    /\ OnServer

ServerDies == Crash /\ toServer' = <<>> /\ UNCHANGED toClient /\ OnServer

-----------------------------------------------------------------------------

ClientStep ==
    \/ ClientConnects \/ ExchangesKey \/ StartUpload \/ SendPacket \/ HangUp
    \/ ReadFailure \/ ReadResponse \/ SendVerdict

\* What a client does that waits for an answer.
Reading == SeeEnd \/ ReadFailure \/ ReadResponse

Serving == TakeRequest \/ ThreadStep

SessionNext == ClientStep \/ SeeEnd \/ Serving \/ ThreadEnds \/ ServerDies

sessionVars == <<vars, clientVars>>

(***************************************************************************)
(* Only what an answer needs is fair: the thread goes on while there is a  *)
(* request to read or to handle, and the client reads what is sent to it.  *)
(***************************************************************************)
SessionSpec ==
    /\ SessionInit /\ [][SessionNext]_sessionVars
    /\ WF_sessionVars(Serving) /\ WF_sessionVars(Reading)

-----------------------------------------------------------------------------
(* Properties.                                                             *)

(***************************************************************************)
(* `verified` means that the client confirmed the checksum: the version it *)
(* found to hold what it sent, and no other, for all the attempts, stale   *)
(* keys, disconnections, errors and crashes between the upload and its     *)
(* confirmation.                                                           *)
(***************************************************************************)
VerifiedWasConfirmed ==
    \A i \in DOMAIN files :
        files[i].verified =>
            \E r \in confirmed :
                /\ r.path = files[i].path_name
                /\ r.path \in DOMAIN disk => disk[r.path] = r.content

(***************************************************************************)
(* A completed upload is never put together from the packets of two        *)
(* attempts, though the buffer keeps what an interrupted one left and the  *)
(* file may have changed since.                                            *)
(***************************************************************************)
NeverMixed ==
    pc[Line] = "decrypt" =>
        \A p, q \in DOMAIN data[Line] : data[Line][p] = data[Line][q]

(***************************************************************************)
(* A packet of the client is refused only when the buffer holds an upload  *)
(* the client gave up: never after uploads that ended, well or not.        *)
(***************************************************************************)
RefusedOnlyAfterGivingUp ==
    pc[Line] = "idle" /\ toServer # <<>> /\ Head(toServer).code = "CREATE_BACKUP" =>
        LET u == Head(toServer).upload
        IN  \/ Accepts(Owner, u.name, u.next, u.total)
            \/ /\ Owner \in DOMAIN uploads
               /\ <<uploads[Owner].file_name, uploads[Owner].total_packets>> \in abandoned

(***************************************************************************)
(* A client that sent all packets of an upload does not wait for ever,     *)
(* though only the packet that completes the upload is answered.           *)
(***************************************************************************)
UploadAnswered == phase = "waiting" ~> phase # "waiting"
=============================================================================
