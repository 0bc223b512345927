--------------------------- MODULE BackupService ---------------------------
(***************************************************************************)
(* The backup path of the server: handlers/backup_handlers.py and          *)
(* services/backup_service.py, run by one thread per client connection     *)
(* (handlers/server_handler.py).  The threads share the upload buffer      *)
(* (under its lock), the `files` table (one transaction per call), the     *)
(* user directories on disk and the stored session keys; a thread may be   *)
(* preempted between any two of those accesses, and an exception may end   *)
(* its handler at any of them.                                             *)
(*                                                                         *)
(* One action is one access to shared state, together with the local work  *)
(* of the handler up to the next one.                                      *)
(***************************************************************************)
EXTENDS Database, UploadAssembler

CONSTANTS
    Conns,        \* connection threads
    Serves,       \* Serves[t]: the users whose requests arrive on connection t
    NoName,       \* a requested file name with an empty basename, such as "/"
    Contents,     \* plaintexts of the files clients back up
    Garbage,      \* plaintext of bytes that are not one client's ciphertext
    Empty,        \* a file opened for writing and not written
    Torn,         \* a file partly written, or written by two threads at once
    NoData, NoPath, NoReq,
    KeyedUsers,   \* users that hold a session key when the server starts
    MaxPackets,   \* bound: packets of one upload
    MaxKeys,      \* bound: session keys issued to one user
    MaxIVs,       \* bound: initialization vectors clients draw
    MaxRows,      \* bound: rows of the files table
    Faults        \* the faults of the environment: a subset of FaultKinds

FaultKinds == {"db", "disk", "send", "crash"}

ASSUME BackupAssumption ==
    /\ Serves \in [Conns -> SUBSET Users]
    /\ MaxPackets \in Nat /\ MaxKeys \in Nat \ {0} /\ MaxRows \in Nat
    /\ MaxIVs \in Nat \ {0}
    /\ KeyedUsers \subseteq Users
    /\ Faults \subseteq FaultKinds
    /\ NoName \notin Names
    /\ NoPath \notin Paths
    /\ {Garbage, Empty, Torn} \cap Contents = {}
    /\ Garbage \notin {Empty, Torn}

VARIABLES
    uploads,   \* UploadAssembler._uploads
    files,     \* the files table
    disk,      \* stored files: a function from the paths that exist
    aes_key,   \* number of the session key stored for a user, 0 for none
    pc,        \* where each connection thread stands
    req,       \* the request it is handling
    data,      \* its local full_encrypted_data, then decrypted_data
    path,      \* its local file_path or stored_path
    fd,        \* directory entry its open file still has, NoPath if none
    replies    \* responses sent on the connection for its last request

shared == <<uploads, files, disk, aes_key>>
locals == <<req, data, path, fd>>
vars == <<uploads, files, disk, aes_key, pc, req, data, path, fd, replies>>

(***************************************************************************)
(* An encrypted chunk: its position is the packet number it is sent under, *)
(* and it was cut from the encryption of `content` under session key       *)
(* number `key` (0: bytes under no key the server ever issued) with the    *)
(* initialization vector `iv`, which is drawn anew for every encryption.   *)
(***************************************************************************)
ReqNames == Names \cup {NoName}
Chunks == [content : Contents, key : 0..MaxKeys, iv : 1..MaxIVs]
Assemblies == UNION {[1..n -> Chunks] : n \in 1..MaxPackets}
UploadState ==
    [total_packets : 1..MaxPackets, file_name : ReqNames,
     chunks : UNION {[S -> Chunks] : S \in SUBSET (1..MaxPackets)}]
Plain == Contents \cup {Garbage}
Stored == Plain \cup {Empty, Torn}

CrcCodes == {"CRC_SUCCESS", "CRC_ERROR", "CRC_FAILURE"}
Requests == [code : {"CREATE_BACKUP"} \cup CrcCodes, user : Users, name : ReqNames]
Responses == {"UPLOAD_RECEIVED", "UPLOAD_REJECTED_TOO_LARGE", "ACK", "FAILED"}

SavingSteps == {"decrypt", "version", "open", "write", "add_file"}
CrcSteps == {"lookup", "exists", "mark", "unlink", "unmark"}
Steps == SavingSteps \cup CrcSteps \cup {"last_seen", "reply", "fail"}

Init ==
    /\ uploads = EmptyMap
    /\ files = <<>>
    /\ disk = EmptyMap
    /\ aes_key = [u \in Users |-> IF u \in KeyedUsers THEN 1 ELSE 0]
    /\ pc = [t \in Conns |-> "closed"]
    /\ req = [t \in Conns |-> NoReq]
    /\ data = [t \in Conns |-> NoData]
    /\ path = [t \in Conns |-> NoPath]
    /\ fd = [t \in Conns |-> NoPath]
    /\ replies = [t \in Conns |-> <<>>]

Goto(t, s) == pc' = [pc EXCEPT ![t] = s]

(***************************************************************************)
(* The handler's frame is gone: it returned, or raised out of any          *)
(* `with open(...)` it was in.                                             *)
(***************************************************************************)
Leave(t, s) ==
    /\ Goto(t, s)
    /\ req' = [req EXCEPT ![t] = NoReq]
    /\ data' = [data EXCEPT ![t] = NoData]
    /\ path' = [path EXCEPT ![t] = NoPath]
    /\ fd' = [fd EXCEPT ![t] = NoPath]

\* The exception reaches handle_client, which answers FAILED.
Raise(t) == Leave(t, "fail")

Reply(t, r) == replies' = [replies EXCEPT ![t] = Append(@, r)]
FirstReply(t, rs) == replies' = [replies EXCEPT ![t] = rs]

-----------------------------------------------------------------------------
(* Connections: ServerHandler.start_server and handle_client.              *)

Connect(t) ==
    /\ pc[t] = "closed"
    /\ Goto(t, "idle")
    /\ FirstReply(t, <<>>)
    /\ UNCHANGED <<shared, locals>>

\* A DISCONNECT request, or recv_exact finding the connection closed.
Disconnect(t) ==
    /\ pc[t] = "idle"
    /\ Goto(t, "closed")
    /\ FirstReply(t, <<>>)
    /\ UNCHANGED <<shared, locals>>

\* ResponseSender.send_failure
SendFailure(t) ==
    /\ pc[t] = "fail"
    /\ Goto(t, "idle")
    /\ Reply(t, "FAILED")
    /\ UNCHANGED <<shared, locals>>

\* send_failure raises: the thread ends, and `finally` closes the socket.
LoseConnection(t) ==
    /\ "send" \in Faults
    /\ pc[t] = "fail"
    /\ Goto(t, "closed")
    /\ FirstReply(t, <<>>)
    /\ UNCHANGED <<shared, locals>>

-----------------------------------------------------------------------------
(* CREATE_BACKUP: handle_backup_request and add_chunk.                     *)

\* file_size > MAX_FILE_SIZE: answered before the buffer is looked at.
RejectTooLarge(t) ==
    /\ pc[t] = "idle"
    /\ FirstReply(t, <<"UPLOAD_REJECTED_TOO_LARGE">>)
    /\ UNCHANGED <<shared, locals, pc>>

Accepts(u, n, p, total) ==
    /\ ValidPacket(p, total)
    /\ Consistent(uploads, u, n, total)

(***************************************************************************)
(* Raised before the chunk is stored: by _validate_backup_request, which   *)
(* looks first, when the request has no chunk (the decoder reads none of   *)
(* size 0), or by add_chunk, a ValueError or an UploadStateError.          *)
(***************************************************************************)
RejectChunk(t) ==
    /\ pc[t] = "idle"
    /\ \E u \in Serves[t], n \in ReqNames, p, total \in 0..MaxPackets, empty \in BOOLEAN :
          empty \/ ~Accepts(u, n, p, total)
    /\ Raise(t)
    /\ FirstReply(t, <<>>)
    /\ UNCHANGED shared

\* Bound: no upload completes that the files table has no room for.
Room == Len(files) + Cardinality({t \in Conns : pc[t] \in SavingSteps}) < MaxRows

(***************************************************************************)
(* The chunk is stored.  An incomplete upload gets no response; a complete *)
(* one leaves the buffer and goes on to persist_completed_upload; one with *)
(* as many chunks as packets but a packet missing raises and stays.        *)
(***************************************************************************)
AddChunk(t, u, n, p, total, c) ==
    /\ pc[t] = "idle"
    /\ Accepts(u, n, p, total)
    /\ FirstReply(t, <<>>)
    /\ LET s == WithChunk(uploads, u, n, p, total, c)
       IN  \/ /\ ~IsFull(s)
              /\ uploads' = With(uploads, u, s)
              /\ UNCHANGED <<pc, locals>>
           \/ /\ IsFull(s)
              /\ Room
              /\ IF NoneMissing(s)
                 THEN /\ uploads' = Without(uploads, u)
                      /\ Goto(t, "decrypt")
                      /\ req' = [req EXCEPT ![t] =
                            [code |-> "CREATE_BACKUP", user |-> u, name |-> n]]
                      /\ data' = [data EXCEPT ![t] = Assemble(s)]
                      /\ UNCHANGED <<path, fd>>
                 ELSE /\ uploads' = With(uploads, u, s)
                      /\ Raise(t)
    /\ UNCHANGED <<files, disk, aes_key>>

ReceiveChunk(t) ==
    \E u \in Serves[t], n \in ReqNames, total \in 0..MaxPackets :
        \E p \in 0..MaxPackets, c \in Contents, k \in 0..aes_key[u], v \in 1..MaxIVs :
            AddChunk(t, u, n, p, total, [content |-> c, key |-> k, iv |-> v])

-----------------------------------------------------------------------------
(* persist_completed_upload                                                *)

(***************************************************************************)
(* What aes_cbc_decrypt returns: the content, when every chunk was cut     *)
(* from one encryption of it under this key.  Anything else is bytes whose *)
(* padding is wrong (ValueError), or right by chance.                      *)
(***************************************************************************)
Plaintexts(parts, key) ==
    {c \in Contents : \E v \in 1..MaxIVs : \A p \in DOMAIN parts :
        parts[p] = [content |-> c, key |-> key, iv |-> v]}

Decrypt(t) ==
    /\ pc[t] = "decrypt"
    /\ req[t].name # NoName
    /\ aes_key[req[t].user] # 0
    /\ \E d \in LET ok == Plaintexts(data[t], aes_key[req[t].user])
                IN  IF ok = {} THEN {Garbage} ELSE ok :
          data' = [data EXCEPT ![t] = d]
    /\ Goto(t, "version")
    /\ UNCHANGED <<shared, req, path, fd, replies>>

\* Mutant: an upload of a user without a session key waits for one.
DecryptWaits(t) ==
    /\ pc[t] = "decrypt"
    /\ aes_key[req[t].user] # 0
    /\ \/ req[t].name = NoName
       \/ Plaintexts(data[t], aes_key[req[t].user]) = {}
    /\ Raise(t)
    /\ UNCHANGED <<shared, replies>>

\* No basename, no session key, or bad padding.
DecryptFails(t) ==
    /\ pc[t] = "decrypt"
    /\ \/ req[t].name = NoName
       \/ aes_key[req[t].user] = 0
       \/ Plaintexts(data[t], aes_key[req[t].user]) = {}
    /\ Raise(t)
    /\ UNCHANGED <<shared, replies>>

\* _build_versioned_file_path
PickVersion(t) ==
    /\ pc[t] = "version"
    /\ LET u == req[t].user
           n == req[t].name
       IN  path' = [path EXCEPT ![t] = VersionedPath(u, n, NextVersion(files, u, n))]
    /\ Goto(t, "open")
    /\ UNCHANGED <<shared, req, data, fd, replies>>

\* Mutant: the row is recorded before the contents are written.
OpenFileForRecord(t) ==
    /\ pc[t] = "open"
    /\ disk' = With(disk, path[t], Empty)
    /\ fd' = [fd EXCEPT ![t] = path[t]]
    /\ Goto(t, "add_file")
    /\ UNCHANGED <<uploads, files, aes_key, req, data, path, replies>>

\* open(file_path, "wb") creates the file or truncates the one that is there.
OpenFile(t) ==
    /\ pc[t] = "open"
    /\ disk' = With(disk, path[t], Empty)
    /\ fd' = [fd EXCEPT ![t] = path[t]]
    /\ Goto(t, "write")
    /\ UNCHANGED <<uploads, files, aes_key, req, data, path, replies>>

(***************************************************************************)
(* file.write and the close.  If another thread unlinked the file since it *)
(* was opened the bytes go to no path; if another thread wrote to it since *)
(* then, the two contents overlay.                                         *)
(***************************************************************************)
WriteFile(t) ==
    /\ pc[t] = "write"
    /\ \/ fd[t] = NoPath /\ UNCHANGED disk
       \/ /\ fd[t] # NoPath
          /\ \E d \in IF disk[fd[t]] \in {Empty, data[t]}
                      THEN {data[t]} ELSE {data[t], Torn} :
                disk' = [disk EXCEPT ![fd[t]] = d]
    /\ fd' = [fd EXCEPT ![t] = NoPath]
    /\ Goto(t, "add_file")
    /\ UNCHANGED <<uploads, files, aes_key, req, data, path, replies>>

\* Mutant: an error of the write is swallowed.
WriteFailsSilently(t) ==
    /\ "disk" \in Faults
    /\ pc[t] = "write"
    /\ disk' = IF fd[t] = NoPath THEN disk ELSE [disk EXCEPT ![fd[t]] = Torn]
    /\ fd' = [fd EXCEPT ![t] = NoPath]
    /\ Goto(t, "add_file")
    /\ UNCHANGED <<uploads, files, aes_key, req, data, path, replies>>

\* The write raises OSError part of the way, or before it wrote anything.
WriteFails(t) ==
    /\ "disk" \in Faults
    /\ pc[t] = "write"
    /\ disk' \in {disk, IF fd[t] = NoPath THEN disk ELSE [disk EXCEPT ![fd[t]] = Torn]}
    /\ Raise(t)
    /\ UNCHANGED <<uploads, files, aes_key, replies>>

AddFile(t) ==
    /\ pc[t] = "add_file"
    /\ files' = WithFile(files, req[t].user, req[t].name, path[t], path[t][3])
    /\ Goto(t, "last_seen")
    /\ UNCHANGED <<uploads, disk, aes_key, locals, replies>>

\* update_last_seen, of an upload before its response and of a CRC_SUCCESS.
TouchLastSeen(t) ==
    /\ pc[t] = "last_seen"
    /\ IF req[t].code = "CREATE_BACKUP"
       THEN Goto(t, "reply") /\ UNCHANGED locals
       ELSE Leave(t, "idle")
    /\ UNCHANGED <<shared, replies>>

\* send_upload_received
SendUploadReceived(t) ==
    /\ pc[t] = "reply"
    /\ Leave(t, "idle")
    /\ Reply(t, "UPLOAD_RECEIVED")
    /\ UNCHANGED shared

-----------------------------------------------------------------------------
(* CRC_SUCCESS, CRC_ERROR and CRC_FAILURE.                                 *)

\* The acknowledgement, where there is one, goes out before any work is done.
ReceiveCrc(t) ==
    \E u \in Serves[t], n \in ReqNames, code \in CrcCodes :
        /\ pc[t] = "idle"
        /\ Goto(t, "lookup")
        /\ req' = [req EXCEPT ![t] = [code |-> code, user |-> u, name |-> n]]
        /\ FirstReply(t, IF code = "CRC_ERROR" THEN <<>> ELSE <<"ACK">>)
        /\ UNCHANGED <<shared, data, path, fd>>

\* OSError of send_upload_too_large, or of send_ack before the service is called.
FirstSendFails(t) ==
    /\ "send" \in Faults
    /\ pc[t] = "idle"
    /\ Raise(t)
    /\ FirstReply(t, <<>>)
    /\ UNCHANGED shared

\* get_file_path
Lookup(t) ==
    /\ pc[t] = "lookup"
    /\ req[t].name # NoName
    /\ \E p \in LatestPaths(files, req[t].user, req[t].name) :
          path' = [path EXCEPT ![t] = p]
    /\ Goto(t, "exists")
    /\ UNCHANGED <<shared, req, data, fd, replies>>

LookupFails(t) ==
    /\ pc[t] = "lookup"
    /\ \/ req[t].name = NoName
       \/ LatestPaths(files, req[t].user, req[t].name) = {}
    /\ Raise(t)
    /\ UNCHANGED <<shared, replies>>

AfterExists(t) == IF req[t].code = "CRC_SUCCESS" THEN "mark" ELSE "unlink"

\* path.exists(), or UploadNotFoundError
CheckExists(t) ==
    /\ pc[t] = "exists"
    /\ IF path[t] \in DOMAIN disk
       THEN Goto(t, AfterExists(t)) /\ UNCHANGED locals
       ELSE Raise(t)
    /\ UNCHANGED <<shared, replies>>

\* mark_upload_verified: update_file_verified_status(.., True)
MarkVerified(t) ==
    /\ pc[t] = "mark"
    /\ files' = WithVerified(files, req[t].user, path[t], TRUE)
    /\ Goto(t, "last_seen")
    /\ UNCHANGED <<uploads, disk, aes_key, locals, replies>>

\* Mutant: the handler ends with the unlink.
UnlinkOnly(t) ==
    /\ pc[t] = "unlink"
    /\ path[t] \in DOMAIN disk
    /\ disk' = Restrict(disk, DOMAIN disk \ {path[t]})
    /\ Leave(t, "idle")
    /\ UNCHANGED <<uploads, files, aes_key, replies>>

(***************************************************************************)
(* delete_failed_upload: path.unlink().  A file open for writing loses its *)
(* directory entry; a file another thread removed first raises.            *)
(***************************************************************************)
Unlink(t) ==
    /\ pc[t] = "unlink"
    /\ path[t] \in DOMAIN disk
    /\ disk' = Restrict(disk, DOMAIN disk \ {path[t]})
    /\ fd' = [c \in Conns |-> IF fd[c] = path[t] THEN NoPath ELSE fd[c]]
    /\ Goto(t, "unmark")
    /\ UNCHANGED <<uploads, files, aes_key, req, data, path, replies>>

UnlinkFails(t) ==
    /\ pc[t] = "unlink"
    /\ path[t] \notin DOMAIN disk
    /\ Raise(t)
    /\ UNCHANGED <<shared, replies>>

\* update_file_verified_status(.., False)
MarkUnverified(t) ==
    /\ pc[t] = "unmark"
    /\ files' = WithVerified(files, req[t].user, path[t], FALSE)
    /\ Leave(t, "idle")
    /\ UNCHANGED <<uploads, disk, aes_key, replies>>

-----------------------------------------------------------------------------
(* Faults and the rest of the server.                                      *)

\* sqlite3.Error in the database call the thread is at; nothing is written.
DatabaseError(t) ==
    /\ "db" \in Faults
    /\ pc[t] \in {"decrypt", "version", "add_file", "last_seen", "lookup", "mark", "unmark"}
    /\ Raise(t)
    /\ UNCHANGED <<shared, replies>>

\* OSError of mkdir, open, exists or unlink.
DiskError(t) ==
    /\ "disk" \in Faults
    /\ pc[t] \in {"version", "open", "exists", "unlink"}
    /\ Raise(t)
    /\ UNCHANGED <<shared, replies>>

\* OSError of send_upload_received.
SendError(t) ==
    /\ "send" \in Faults
    /\ pc[t] = "reply"
    /\ Raise(t)
    /\ UNCHANGED <<shared, replies>>

(***************************************************************************)
(* The process dies and is started again: the table and the directories    *)
(* are what they were, the buffer and every connection are gone.           *)
(***************************************************************************)
Crash ==
    /\ "crash" \in Faults
    /\ \E t \in Conns : pc[t] # "closed"
    /\ uploads' = EmptyMap
    /\ pc' = [t \in Conns |-> "closed"]
    /\ req' = [t \in Conns |-> NoReq]
    /\ data' = [t \in Conns |-> NoData]
    /\ path' = [t \in Conns |-> NoPath]
    /\ fd' = [t \in Conns |-> NoPath]
    /\ replies' = [t \in Conns |-> <<>>]
    /\ UNCHANGED <<files, disk, aes_key>>

\* provision_session_key on some connection stores a new key for the user.
Rekey(u) ==
    /\ aes_key[u] < MaxKeys
    /\ aes_key' = [aes_key EXCEPT ![u] = @ + 1]
    /\ UNCHANGED <<uploads, files, disk, pc, locals, replies>>

-----------------------------------------------------------------------------

\* What the next line of a request handler does.
Persist(t) ==
    \/ Decrypt(t) \/ DecryptFails(t) \/ PickVersion(t) \/ OpenFile(t)
    \/ WriteFile(t) \/ WriteFails(t) \/ AddFile(t) \/ TouchLastSeen(t)
    \/ SendUploadReceived(t)

HandleCrc(t) ==
    \/ Lookup(t) \/ LookupFails(t) \/ CheckExists(t) \/ MarkVerified(t)
    \/ Unlink(t) \/ UnlinkFails(t) \/ MarkUnverified(t)

HandlerError(t) == DatabaseError(t) \/ DiskError(t) \/ SendError(t)

Answer(t) == SendFailure(t) \/ LoseConnection(t)

Handle(t) == Persist(t) \/ HandleCrc(t) \/ HandlerError(t) \/ Answer(t)

\* What a client makes happen.
Receive(t) ==
    \/ Connect(t) \/ Disconnect(t) \/ RejectTooLarge(t) \/ RejectChunk(t)
    \/ ReceiveChunk(t) \/ ReceiveCrc(t) \/ FirstSendFails(t)

Next ==
    \/ \E t \in Conns : Receive(t) \/ Handle(t)
    \/ \E u \in Users : Rekey(u)
    \/ Crash

Spec == Init /\ [][Next]_vars

\* The scheduler runs every thread, and no call of a handler blocks forever.
FairSpec == Spec /\ \A t \in Conns : WF_vars(Handle(t))

-----------------------------------------------------------------------------
(* Properties.                                                             *)

\* The state has the shape the code gives it.
TypeOK ==
    /\ DOMAIN uploads \subseteq Users
    /\ uploads \in [DOMAIN uploads -> UploadState]
    /\ files \in Seq(Row)
    /\ DOMAIN disk \subseteq Paths
    /\ disk \in [DOMAIN disk -> Stored]
    /\ aes_key \in [Users -> 0..MaxKeys]
    /\ pc \in [Conns -> Steps \cup {"idle", "closed"}]
    /\ req \in [Conns -> Requests \cup {NoReq}]
    /\ data \in [Conns -> Assemblies \cup Plain \cup {NoData}]
    /\ path \in [Conns -> Paths \cup {NoPath}]
    /\ fd \in [Conns -> Paths \cup {NoPath}]
    /\ replies \in [Conns -> Seq(Responses)]

(***************************************************************************)
(* A buffered upload always waits for at least one packet it may still     *)
(* receive.  Were it full, no chunk could complete it any more and         *)
(* _validate_all_packets_received would raise on every further packet of   *)
(* the user, for no code path drops the buffer.                            *)
(***************************************************************************)
BufferIncomplete ==
    \A u \in DOMAIN uploads :
        LET s == uploads[u]
        IN  /\ DOMAIN s.chunks \subseteq 1..s.total_packets
            /\ DOMAIN s.chunks # {}
            /\ Cardinality(DOMAIN s.chunks) < s.total_packets

(***************************************************************************)
(* The versions on record of a file are 1..m, with no gap, whatever        *)
(* handlers race, fail or die between get_next_version_number and          *)
(* add_file.                                                               *)
(***************************************************************************)
VersionsContiguous ==
    \A u \in Users, n \in Names :
        \E m \in 0..Len(files) : VersionsOf(files, u, n) = 1..m

(***************************************************************************)
(* Each stored version of a file has a version number, and so a path, of   *)
(* its own.                                                                *)
(***************************************************************************)
UniqueVersions ==
    \A i, j \in DOMAIN files :
        files[i].path_name = files[j].path_name => i = j

(***************************************************************************)
(* A version on record is never a torn or an empty file: it is removed, or *)
(* it holds the whole of what one upload decrypted to, across write errors *)
(* and crashes.                                                            *)
(***************************************************************************)
NoTornBackup ==
    \A i \in DOMAIN files :
        LET p == files[i].path_name
        IN  p \in DOMAIN disk => disk[p] \in Plain

(***************************************************************************)
(* UPLOAD_RECEIVED carries the checksum of the decrypted data: when it is  *)
(* sent, that version is on record and the file on disk has that content.  *)
(***************************************************************************)
ReportedIsStored ==
    \A t \in Conns :
        pc[t] = "reply" =>
            /\ path[t] \in Recorded(files)
            /\ path[t] \in DOMAIN disk
            /\ disk[path[t]] = data[t]

(***************************************************************************)
(* A CRC message acts on the file it names, and on the latest version of   *)
(* it: mark_upload_verified and delete_failed_upload promise "the latest   *)
(* stored version of a file".                                              *)
(***************************************************************************)
TargetsLatest ==
    \A t \in Conns :
        pc[t] \in CrcSteps \ {"lookup"} =>
            LET u == req[t].user
                n == req[t].name
            IN  /\ VersionsOf(files, u, n) # {}
                /\ path[t] = VersionedPath(u, n, LatestVersion(files, u, n))

(***************************************************************************)
(* A version marked as verified is on disk, except between the two steps   *)
(* of the handler that is deleting it.                                     *)
(***************************************************************************)
VerifiedOnDisk ==
    \A i \in DOMAIN files :
        files[i].verified =>
            \/ files[i].path_name \in DOMAIN disk
            \/ \E t \in Conns : pc[t] = "unmark" /\ path[t] = files[i].path_name

(***************************************************************************)
(* No step changes the content of a version on record: an upload never     *)
(* overwrites an earlier backup.                                           *)
(***************************************************************************)
RecordedUnchanged ==
    \A p \in Recorded(files) \cap DOMAIN disk \cap DOMAIN disk' : disk'[p] = disk[p]

NoOverwrite == [][RecordedUnchanged]_vars

(***************************************************************************)
(* A row marked as verified whose file is gone, and of which no handler is *)
(* about to clear the mark, comes about in two ways only: the handler that *)
(* unlinked the file is cut short, by a crash or an error of the database, *)
(* before it clears the mark; or a CRC_SUCCESS that saw the file marks it  *)
(* after another connection's CRC_ERROR or CRC_FAILURE has removed it.  No *)
(* write, no upload and no other handler, of any connection, leaves one.   *)
(***************************************************************************)
Orphans ==
    {i \in DOMAIN files :
        /\ files[i].verified
        /\ files[i].path_name \notin DOMAIN disk
        /\ ~\E t \in Conns : pc[t] = "unmark" /\ path[t] = files[i].path_name}

CutShort(t, p) == pc[t] = "unmark" /\ path[t] = p /\ pc'[t] \in {"fail", "closed"}

MarksLate(t, p) == MarkVerified(t) /\ path[t] = p /\ p \notin DOMAIN disk

OrphanExplained ==
    \A i \in Orphans' \ Orphans :
        \E t \in Conns : \/ CutShort(t, files[i].path_name)
                        \/ MarksLate(t, files[i].path_name)

OrphansExplained == [][OrphanExplained]_vars

\* Every request that a handler starts on is done with.
RequestCompletes == \A t \in Conns : pc[t] \in Steps ~> pc[t] \notin Steps

(***************************************************************************)
(* A user's requests arrive on one connection at a time.  The server does  *)
(* not enforce it; the properties about one version at a time need it.     *)
(***************************************************************************)
OneConnPerUser ==
    \A s, t \in Conns : s # t => Serves[s] \cap Serves[t] = {}

\* No file name is a prefix of another one, in the sense of LIKE.
PrefixFree == \A m, n \in Names : <<m, n>> \in Like => m = n
=============================================================================
