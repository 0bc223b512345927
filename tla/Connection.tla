----------------------------- MODULE Connection -----------------------------
(***************************************************************************)
(* One connection: a client that writes requests, the thread of            *)
(* handle_client that cuts the stream of bytes into requests with          *)
(* recv_exact and answers them, and the client that cuts the stream of     *)
(* responses by their payload_size.                                        *)
(*                                                                         *)
(* A byte is known by its place: which message it belongs to, which field  *)
(* and which position.  A reader that has lost its place takes bytes of    *)
(* other fields, and what it decodes from them is garbage.  What the       *)
(* handlers do is modelled by Registration and BackupService; here a       *)
(* handler is a step that may answer in any of the ways its code allows.   *)
(***************************************************************************)
EXTENDS WireFormat, SequencesExt

CONSTANTS
    Uuids,        \* what generate_uuid may return: strings of 2 * UNIQUE_ID_LEN digits
    Width,        \* the sizes of the fixed fields of a request
    ResponseWidth,\* the sizes of the fixed fields of a response
    KeyLen,       \* the length of an encrypted AES key
    None,         \* a field that is not there
    Codes,        \* bound: the request codes the client uses
    MaxChunk,     \* bound: the size of a chunk
    MaxRequests   \* bound: the requests on the connection

RequestLayout == <<"user_id", "header", "username", "public_key", "backup_metadata",
                   "file_name", "encrypted_chunk">>
ResponseLayout == <<"header", "user_id", "encrypted_aes_key", "encrypted_chunk_size",
                    "file_name", "checksum">>

ClientCode == {"REGISTRATION", "PUBLIC_KEY_SEND", "RE_REGISTRATION", "CREATE_BACKUP",
               "CRC_SUCCESS", "CRC_ERROR", "CRC_FAILURE", "DISCONNECT"}

\* A code that is not in ClientCode.
Unknown == "unknown"

IdLen == Width["user_id"]
Zeros == PadBytes(<< >>, IdLen)

ASSUME ConnectionAssumption ==
    /\ Width \in [ToSet(RequestLayout) \ {"encrypted_chunk"} -> Nat \ {0}]
    /\ ResponseWidth \in [ToSet(ResponseLayout) \ {"encrypted_aes_key"} -> Nat \ {0}]
    /\ ResponseWidth["user_id"] = IdLen
    /\ Uuids \subseteq [1..2 * IdLen -> Digit]
    /\ Codes \subseteq ClientCode \cup {Unknown}
    /\ KeyLen \in Nat /\ MaxChunk \in Nat /\ MaxRequests \in Nat

VARIABLES
    \* the client
    clientOpen,  \* it has not closed the connection
    mine,        \* the bytes of its id, all 0 before it has one
    sent,        \* history: the requests it wrote
    received,    \* history: the responses it read, by number; 0 for garbage
    \* the streams
    toServer, toClient,
    \* the thread
    pc,          \* "reading", "handling" or "closed"
    field,       \* which field deserialize_request is reading
    got,         \* the bytes recv_exact has of it
    frame,       \* the fields it has read: the request each one came from, 0 for garbage
    handled,     \* history: the requests it handled
    answers,     \* history: the responses it sent
    registered   \* ids in the clients table

clientVars == <<clientOpen, mine, sent, received>>
readVars == <<field, got, frame>>
vars == <<clientVars, toServer, toClient, pc, readVars, handled, answers, registered>>

\* The bytes of message n, a field after the other; Size gives the size of each field.
Encode(n, Layout, Size(_)) ==
    FlattenSeq([k \in 1..Len(Layout) |->
        [i \in 1..Size(Layout[k]) |-> [message |-> n, field |-> Layout[k], at |-> i]]])

RequestBytes(n, chunk) ==
    LET Size(f) == IF f = "encrypted_chunk" THEN chunk ELSE Width[f]
    IN  Encode(n, RequestLayout, Size)

\* serialize_response
ResponseBytes(n, response) ==
    LET Size(f) == IF f = "encrypted_aes_key" THEN response.key ELSE ResponseWidth[f]
    IN  Encode(n, ResponseLayout, Size)

Init ==
    /\ clientOpen = TRUE /\ mine = Zeros /\ sent = << >> /\ received = << >>
    /\ toServer = << >> /\ toClient = << >>
    /\ pc = "reading" /\ field = 1 /\ got = << >>
    /\ frame = [f \in ToSet(RequestLayout) |-> 0]
    /\ handled = << >> /\ answers = << >> /\ registered = {}

-----------------------------------------------------------------------------
(* The client.  It may write a request before it has the answer to the     *)
(* last one, and may go away in the middle of one.                         *)

Request(code, chunk, whole) ==
    [code |-> code, user_id |-> mine, chunk |-> chunk, whole |-> whole]

WriteRequest ==
    /\ clientOpen
    /\ Len(sent) < MaxRequests
    /\ \E code \in Codes, chunk \in 0..MaxChunk :
          /\ sent' = Append(sent, Request(code, chunk, TRUE))
          /\ toServer' = toServer \o RequestBytes(Len(sent) + 1, chunk)
    /\ UNCHANGED <<clientOpen, mine, received, toClient, pc, readVars, handled, answers,
                   registered>>

HangUp ==
    /\ clientOpen
    /\ clientOpen' = FALSE
    /\ \/ UNCHANGED <<sent, toServer>>
       \/ /\ Len(sent) < MaxRequests
          /\ \E code \in Codes :
                LET bytes == RequestBytes(Len(sent) + 1, MaxChunk)
                IN  \E k \in 1..Len(bytes) - 1 :
                       /\ sent' = Append(sent, Request(code, MaxChunk, FALSE))
                       /\ toServer' = toServer \o SubSeq(bytes, 1, k)
    /\ UNCHANGED <<mine, received, toClient, pc, readVars, handled, answers, registered>>

\* The response a header at the front of the stream belongs to; 0 when it is none.
HeaderOf(stream) ==
    LET header == ResponseWidth["header"]
        fits == {n \in 1..Len(answers) :
                   SubSeq(stream, 1, header) = SubSeq(ResponseBytes(n, answers[n]), 1, header)}
    IN  IF fits = {} THEN 0 ELSE CHOOSE n \in fits : TRUE

(***************************************************************************)
(* The client reads the header, and then as many bytes as it declares.     *)
(***************************************************************************)
ReadResponse ==
    /\ clientOpen
    /\ Len(toClient) >= ResponseWidth["header"]
    /\ LET n == HeaderOf(toClient)
           size == ResponseWidth["header"] + (IF n = 0 THEN 0 ELSE answers[n].payload_size)
           taken == SubSeq(toClient, 1, size)
       IN  /\ Len(toClient) >= size
           /\ toClient' = SubSeq(toClient, size + 1, Len(toClient))
           /\ IF n # 0 /\ taken = ResponseBytes(n, answers[n])
              THEN /\ received' = Append(received, n)
                   /\ mine' = IF answers[n].code = "REGISTRATION_SUCCESS"
                              THEN answers[n].user_id ELSE mine
              ELSE received' = Append(received, 0) /\ UNCHANGED mine
    /\ UNCHANGED <<clientOpen, sent, toServer, pc, readVars, handled, answers, registered>>

-----------------------------------------------------------------------------
(* deserialize_request                                                     *)

\* The request whose field f the bytes are; 0 when they are no such field.
Origin(f, bytes) ==
    LET fits == {n \in 1..Len(sent) :
                   bytes = [i \in 1..Len(bytes) |-> [message |-> n, field |-> f, at |-> i]]}
    IN  IF fits = {} THEN 0 ELSE CHOOSE n \in fits : TRUE

Current == RequestLayout[field]

\* The request code and the chunk size as decoded; garbage may decode to anything.
RequestCodes(n) == IF n = 0 THEN ClientCode \cup {Unknown} ELSE {sent[n].code}
ChunkSize(n) == IF n = 0 THEN MaxChunk ELSE sent[n].chunk

\* The code in the header that was read.
Code == CHOOSE code \in RequestCodes(frame["header"]) : TRUE

\* Mutant: only a backup request is expected to have a chunk.
WantedOfBackup ==
    IF Current # "encrypted_chunk" THEN Width[Current]
    ELSE IF Code = "CREATE_BACKUP" THEN ChunkSize(frame["backup_metadata"]) ELSE 0

\* Mutant: a chunk is expected to have full size.
WantedFixed == IF Current # "encrypted_chunk" THEN Width[Current] ELSE MaxChunk

\* The size recv_exact is asked for.
Wanted ==
    IF Current # "encrypted_chunk" THEN Width[Current] ELSE ChunkSize(frame["backup_metadata"])

\* Mutant: recv is asked for the full size again after a part has come.
RecvTooMuch ==
    /\ pc = "reading"
    /\ Len(got) < Wanted
    /\ \E k \in 1..Wanted :
          /\ k <= Len(toServer)
          /\ got' = got \o SubSeq(toServer, 1, k)
          /\ toServer' = SubSeq(toServer, k + 1, Len(toServer))
    /\ UNCHANGED <<clientVars, toClient, pc, field, frame, handled, answers, registered>>

\* recv: as many of the bytes asked for as have come, or fewer.
Recv ==
    /\ pc = "reading"
    /\ Len(got) < Wanted
    /\ \E k \in 1..Wanted - Len(got) :
          /\ k <= Len(toServer)
          /\ got' = got \o SubSeq(toServer, 1, k)
          /\ toServer' = SubSeq(toServer, k + 1, Len(toServer))
    /\ UNCHANGED <<clientVars, toClient, pc, field, frame, handled, answers, registered>>

FileNameCodes == {"CREATE_BACKUP", "CRC_SUCCESS", "CRC_ERROR", "CRC_FAILURE"}

\* The codes for which a field is decoded as text.
TextCodes(f) ==
    CASE f = "username" -> ClientCode \ {"CREATE_BACKUP"}
      [] f = "file_name" -> FileNameCodes
      [] OTHER -> {}

(***************************************************************************)
(* A field is complete.  An unknown code raises ValueError, and bytes that *)
(* are no text UnicodeDecodeError; either ends the connection.             *)
(***************************************************************************)
ReadField ==
    /\ pc = "reading"
    /\ Len(got) >= Wanted
    /\ LET from == Origin(Current, got)
       IN  /\ frame' = [frame EXCEPT ![Current] = from]
           /\ \/ /\ Current = "header" /\ Unknown \in RequestCodes(from)
                 /\ pc' = "closed"
              \/ /\ RequestCodes(frame["header"]) \cap TextCodes(Current) # {}
                 /\ pc' = "closed"
              \/ /\ Current = "header" => RequestCodes(from) # {Unknown}
                 /\ pc' = IF Current = "encrypted_chunk" THEN "handling" ELSE "reading"
    /\ field' = IF field = Len(RequestLayout) THEN 1 ELSE field + 1
    /\ got' = << >>
    /\ UNCHANGED <<clientVars, toServer, toClient, handled, answers, registered>>

\* Mutant: an empty read is taken for a read of nothing.
ReadNothing ==
    /\ pc = "reading"
    /\ ~clientOpen /\ toServer = << >> /\ Len(got) < Wanted
    /\ UNCHANGED vars

(***************************************************************************)
(* recv returns nothing: the client has closed the connection.  When it    *)
(* did so with responses unread, recv fails even before the end.           *)
(***************************************************************************)
RecvFails ==
    /\ pc = "reading"
    /\ ~clientOpen /\ (toServer = << >> \/ toClient # << >>)
    /\ Len(got) < Wanted
    /\ pc' = "closed"
    /\ UNCHANGED <<clientVars, toServer, toClient, readVars, handled, answers, registered>>

-----------------------------------------------------------------------------
(* handle_request and the responses.                                       *)

(***************************************************************************)
(* The request deserialize_request returns: each field by the request it   *)
(* came from, or None.                                                     *)
(***************************************************************************)
Decoded(code) ==
    LET Only(codes, f) == IF code \in codes THEN frame[f] ELSE None
    IN  [code |-> code,
         user_id |-> IF frame["user_id"] = 0 THEN << >>
                     ELSE ReadUserId(sent[frame["user_id"]].user_id),
         username |-> Only(TextCodes("username"), "username"),
         public_key |-> Only({"PUBLIC_KEY_SEND"}, "public_key"),
         metadata |-> Only({"CREATE_BACKUP"}, "backup_metadata"),
         file_name |-> Only(TextCodes("file_name"), "file_name"),
         chunk |-> IF code = "CREATE_BACKUP" /\ ChunkSize(frame["backup_metadata"]) > 0
                   THEN frame["encrypted_chunk"] ELSE None]

BasePayloadSize == ResponseWidth["user_id"] + ResponseWidth["encrypted_chunk_size"]
                     + ResponseWidth["file_name"] + ResponseWidth["checksum"]

\* Mutant: send_session_key leaves the size as it is.
BaseSizeOnly(key) == BasePayloadSize

PayloadSize(key) == BasePayloadSize + key

(***************************************************************************)
(* Responses: one without an id, and one with an id and a session key.     *)
(* An id that cannot be encoded raises, and FAILED is sent instead.        *)
(***************************************************************************)
Plain(code) ==
    [code |-> code, user_id |-> Zeros, key |-> 0, payload_size |-> PayloadSize(0),
     request |-> Len(handled) + 1]

ForClient(code, id, key) ==
    IF CanSerialize(id)
    THEN [code |-> code, user_id |-> SerializeUserId(id, IdLen), key |-> key,
          payload_size |-> PayloadSize(key), request |-> Len(handled) + 1]
    ELSE Plain("FAILED")

\* The ways a handler answers a request; any of them may fail.
Answers(code, id) ==
    LET acks == IF CanSerialize(id)
                THEN {<<ForClient("ACK", id, 0)>>,
                      <<ForClient("ACK", id, 0), Plain("FAILED")>>}
                ELSE {}
    IN  {<<Plain("FAILED")>>} \cup
        CASE code = "REGISTRATION" ->
                {<<Plain("REGISTRATION_FAILED")>>, <<Plain("USERNAME_TAKEN")>>}
                  \cup {<<ForClient("REGISTRATION_SUCCESS", u, 0)>> : u \in Uuids \ registered}
          [] code = "PUBLIC_KEY_SEND" ->
                {<<Plain("REGISTRATION_FAILED")>>} \cup
                (IF id \in registered
                 THEN {<<ForClient("KEY_SEND_SUCCESS", id, KeyLen)>>} ELSE {})
          [] code = "RE_REGISTRATION" ->
                {<<Plain("RE_REGISTRATION_FAILED")>>} \cup
                (IF id \in registered
                 THEN {<<ForClient("RE_REGISTRATION_SUCCESS", id, KeyLen)>>} ELSE {})
          [] code = "CREATE_BACKUP" ->
                {<< >>, <<Plain("UPLOAD_REJECTED_TOO_LARGE")>>} \cup
                (IF id \in registered THEN {<<ForClient("UPLOAD_RECEIVED", id, 0)>>} ELSE {})
          [] code \in {"CRC_SUCCESS", "CRC_FAILURE"} -> acks
          [] code = "CRC_ERROR" -> {<< >>}

\* The bytes of the responses that are sent next.
ResponsesBytes(responses) ==
    FlattenSeq([k \in 1..Len(responses) |-> ResponseBytes(Len(answers) + k, responses[k])])

Handle ==
    /\ pc = "handling"
    /\ \E code \in RequestCodes(frame["header"]) \ {Unknown, "DISCONNECT"} :
          LET request == Decoded(code)
          IN  \E responses \in Answers(code, request.user_id) :
                 /\ handled' = Append(handled, request)
                 /\ answers' = answers \o responses
                 /\ toClient' = toClient \o ResponsesBytes(responses)
                 /\ registered' = registered \cup
                       {u \in Uuids : \E k \in 1..Len(responses) :
                           /\ responses[k].code = "REGISTRATION_SUCCESS"
                           /\ responses[k].user_id = SerializeUserId(u, IdLen)}
    /\ pc' = "reading"
    /\ UNCHANGED <<clientVars, toServer, readVars>>

Disconnect ==
    /\ pc = "handling"
    /\ "DISCONNECT" \in RequestCodes(frame["header"])
    /\ pc' = "closed"
    /\ UNCHANGED <<clientVars, toServer, toClient, readVars, handled, answers, registered>>

\* sendall fails for a response and for FAILED after it: the thread ends.
SendFails ==
    /\ pc = "handling"
    /\ ~clientOpen
    /\ \E code \in RequestCodes(frame["header"]) \ {Unknown, "DISCONNECT"} :
          handled' = Append(handled, Decoded(code))
    /\ pc' = "closed"
    /\ UNCHANGED <<clientVars, toServer, toClient, readVars, answers, registered>>

-----------------------------------------------------------------------------

Client == WriteRequest \/ HangUp \/ ReadResponse
Thread == Recv \/ ReadField \/ RecvFails \/ Handle \/ Disconnect \/ SendFails
Next == Client \/ Thread
Spec == Init /\ [][Next]_vars /\ WF_vars(Thread)

-----------------------------------------------------------------------------
(* Properties.                                                             *)

TypeOK ==
    /\ clientOpen \in BOOLEAN
    /\ mine \in [1..IdLen -> Byte]
    /\ pc \in {"reading", "handling", "closed"}
    /\ field \in 1..Len(RequestLayout)
    /\ frame \in [ToSet(RequestLayout) -> 0..Len(sent)]
    /\ Len(got) <= Wanted
    /\ registered \subseteq Uuids

(***************************************************************************)
(* The thread never loses its place, however the stream is cut into reads: *)
(* what it handles is what the client wrote, in order, whole requests only *)
(* and none of its fields from another one.                                *)
(***************************************************************************)
InStep ==
    \A k \in 1..Len(handled) :
        LET h == handled[k]
        IN  /\ k <= Len(sent) /\ sent[k].whole
            /\ h.code = sent[k].code
            /\ {h.username, h.public_key, h.metadata, h.file_name, h.chunk} \subseteq {k, None}
            /\ h.user_id = ReadUserId(sent[k].user_id)

(***************************************************************************)
(* Neither does the client: payload_size counts every byte of a response,  *)
(* the session key included, so that it reads the responses that were sent *)
(* and no others.                                                          *)
(***************************************************************************)
ClientInStep == \A k \in 1..Len(received) : received[k] = k

(***************************************************************************)
(* A client is only ever answered under the bytes of its own id, even when *)
(* zeros were stripped from them.                                          *)
(***************************************************************************)
IdEchoed ==
    \A k \in 1..Len(answers) :
        LET a == answers[k]
        IN  a.user_id # Zeros /\ a.code # "REGISTRATION_SUCCESS" =>
                a.user_id = sent[a.request].user_id

(***************************************************************************)
(* The id a client was given at registration is the id the handlers look   *)
(* for when the client sends it.                                           *)
(***************************************************************************)
IdPreserved ==
    \A k \in 1..Len(handled), u \in registered :
        sent[k].user_id = FromHex(u) => handled[k].user_id = u

\* A request that was written in full is handled, or the connection ends before.
EveryRequestHandled ==
    \A n \in 1..MaxRequests :
        n <= Len(sent) /\ sent[n].whole ~> Len(handled) >= n \/ pc = "closed"

\* A thread does not outlive its client.
ThreadEnds == ~clientOpen ~> pc = "closed"
=============================================================================
