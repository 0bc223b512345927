------------------------ MODULE BackupServiceProofs ------------------------
(***************************************************************************)
(* What holds of the backup path for any connections, users, file names    *)
(* and faults: the state keeps its shape, a buffered upload never fills up *)
(* and the versions of a file have no gap.                                 *)
(*                                                                         *)
(* The inductive invariant adds two things to these: what the frame of a   *)
(* handler holds at each of its steps (FrameOK), and that the version a    *)
(* handler has picked is at most one above those on record (NextInLine).   *)
(***************************************************************************)
EXTENDS BackupService, DatabaseProofs, FiniteSetTheorems

Frame(t) ==
    /\ pc[t] \in Steps \ {"fail"} => req[t] \in Requests /\ req[t].user \in Serves[t]
    /\ pc[t] \in SavingSteps \cup {"reply"} => req[t].code = "CREATE_BACKUP"
    /\ pc[t] = "decrypt" => data[t] \in Assemblies
    /\ pc[t] \in SavingSteps \ {"decrypt"} => req[t].name \in Names /\ data[t] \in Plain
    /\ pc[t] \in {"open", "write", "add_file"} =>
          \E v \in Versions : path[t] = <<req[t].user, req[t].name, v>>
    /\ pc[t] \in CrcSteps => req[t].code \in CrcCodes
    /\ pc[t] \in CrcSteps \ {"lookup"} => path[t] \in Paths
    /\ fd[t] # NoPath => pc[t] = "write" /\ fd[t] = path[t] /\ fd[t] \in DOMAIN disk

FrameOK == \A t \in Conns : Frame(t)

NextInLine ==
    \A t \in Conns :
        pc[t] \in {"open", "write", "add_file"} =>
            \/ path[t][3] = 1
            \/ \E v \in VersionsOf(files, req[t].user, req[t].name) : path[t][3] = v + 1

-----------------------------------------------------------------------------
(* What one call of add_chunk does to the buffered upload.                 *)

(***************************************************************************)
(* `f[x] = y` on a dictionary f.                                           *)
(***************************************************************************)
LEMMA WithType ==
    ASSUME NEW S, NEW f, f \in [DOMAIN f -> S], NEW x, NEW y \in S
    PROVE  /\ DOMAIN With(f, x, y) = DOMAIN f \cup {x}
           /\ With(f, x, y) \in [DOMAIN f \cup {x} -> S]
  BY DEF With

\* A dictionary with one key deleted keeps its other entries.
LEMMA RestrictType ==
    ASSUME NEW S, NEW f, f \in [DOMAIN f -> S], NEW x
    PROVE  LET g == Restrict(f, DOMAIN f \ {x})
           IN  /\ DOMAIN g = DOMAIN f \ {x}
               /\ g \in [DOMAIN g -> S]
               /\ \A z \in DOMAIN g : g[z] = f[z]
  BY DEF Restrict

\* The numbers of the packets of an upload.
LEMMA UpToIsFinite ==
    ASSUME NEW n \in Nat
    PROVE  IsFiniteSet(1..n) /\ Cardinality(1..n) = n
<1>1. 1 \in Int /\ n \in Int
  OBVIOUS
<1>2. /\ IsFiniteSet(1..n)
      /\ Cardinality(1..n) = IF 1 > n THEN 0 ELSE n - 1 + 1
  <2>1. \A a, b \in Int : /\ IsFiniteSet(a..b)
                          /\ Cardinality(a..b) = IF a > b THEN 0 ELSE b - a + 1
    BY FS_Interval
  <2> QED
    BY <1>1, <2>1
<1>3. (IF 1 > n THEN 0 ELSE n - 1 + 1) = n
  OBVIOUS
<1> QED
  BY <1>2, <1>3

(***************************************************************************)
(* A buffer of packets of one upload that has as many chunks as packets    *)
(* lacks none, so _validate_all_packets_received never raises.             *)
(***************************************************************************)
LEMMA FullLacksNone ==
    ASSUME NEW s, s.total_packets \in Nat,
           DOMAIN s.chunks \subseteq 1..s.total_packets, IsFull(s)
    PROVE  NoneMissing(s)
<1>1. IsFiniteSet(1..s.total_packets) /\ Cardinality(1..s.total_packets) = s.total_packets
  BY UpToIsFinite, Zenon
<1> QED
  BY <1>1, FS_Subset DEF IsFull, NoneMissing

(***************************************************************************)
(* A buffer that is not full has fewer chunks than packets.                *)
(***************************************************************************)
LEMMA NotFullIsShort ==
    ASSUME NEW s, s.total_packets \in Nat,
           DOMAIN s.chunks \subseteq 1..s.total_packets, ~IsFull(s)
    PROVE  Cardinality(DOMAIN s.chunks) < s.total_packets
<1>1. IsFiniteSet(1..s.total_packets) /\ Cardinality(1..s.total_packets) = s.total_packets
  BY UpToIsFinite, Zenon
<1>2. /\ Cardinality(DOMAIN s.chunks) \in Nat
      /\ Cardinality(DOMAIN s.chunks) <= s.total_packets
  BY <1>1, FS_Subset, FS_CardinalityType
<1> QED
  BY <1>2 DEF IsFull

-----------------------------------------------------------------------------
(* The shape of the state.                                                 *)

(***************************************************************************)
(* A request handler that returns or raises leaves a frame of the right    *)
(* shape.                                                                  *)
(***************************************************************************)
LEMMA LeaveType ==
    ASSUME TypeOK, NEW t \in Conns, NEW s \in {"idle", "fail"}, Leave(t, s)
    PROVE  /\ pc' \in [Conns -> Steps \cup {"idle", "closed"}]
           /\ req' \in [Conns -> Requests \cup {NoReq}]
           /\ data' \in [Conns -> Assemblies \cup Plain \cup {NoData}]
           /\ path' \in [Conns -> Paths \cup {NoPath}]
           /\ fd' \in [Conns -> Paths \cup {NoPath}]
  BY DEF Leave, Goto, TypeOK, Steps

\* Sending a reply leaves every connection with a sequence of responses.
LEMMA RepliesType ==
    ASSUME TypeOK, NEW t \in Conns
    PROVE  /\ \A r \in Responses : Reply(t, r) => replies' \in [Conns -> Seq(Responses)]
           /\ FirstReply(t, <<>>) => replies' \in [Conns -> Seq(Responses)]
           /\ \A r \in Responses : FirstReply(t, <<r>>) => replies' \in [Conns -> Seq(Responses)]
<1>1. replies \in [Conns -> Seq(Responses)]
  BY DEF TypeOK
<1>2. ASSUME NEW rs \in Seq(Responses), FirstReply(t, rs)
      PROVE  replies' \in [Conns -> Seq(Responses)]
  BY <1>1, <1>2 DEF FirstReply
<1>3. ASSUME NEW r \in Responses, Reply(t, r)
      PROVE  replies' \in [Conns -> Seq(Responses)]
  <2>1. Append(replies[t], r) \in Seq(Responses)
    BY <1>1
  <2> QED
    BY <1>1, <1>3, <2>1 DEF Reply
<1>4. <<>> \in Seq(Responses) /\ \A r \in Responses : <<r>> \in Seq(Responses)
  OBVIOUS
<1> QED
  BY <1>2, <1>3, <1>4

(***************************************************************************)
(* Storing an accepted chunk gives an upload state whose chunks are        *)
(* packets of that upload, and one of them is the chunk.                   *)
(***************************************************************************)
LEMMA ChunkStored ==
    ASSUME TypeOK, BufferIncomplete, NEW u \in Users, NEW n \in ReqNames,
           NEW p \in 0..MaxPackets, NEW total \in 0..MaxPackets, NEW c \in Chunks,
           Accepts(u, n, p, total)
    PROVE  LET s == WithChunk(uploads, u, n, p, total, c)
           IN  /\ s \in UploadState
               /\ s.file_name = n
               /\ s.total_packets = total
               /\ DOMAIN s.chunks \subseteq 1..total
               /\ p \in DOMAIN s.chunks
<1> DEFINE old == StateFor(uploads, u, n, total)
           s == WithChunk(uploads, u, n, p, total, c)
<1> USE BackupAssumption
<1>1. total \in 1..MaxPackets /\ p \in 1..total /\ total \in Nat
  BY DEF Accepts, ValidPacket
<1>2. /\ old \in UploadState
      /\ old.file_name = n /\ old.total_packets = total
      /\ DOMAIN old.chunks \subseteq 1..total
  <2>1. CASE u \in DOMAIN uploads
    BY <2>1 DEF Accepts, Consistent, StateFor, TypeOK, BufferIncomplete
  <2>2. CASE u \notin DOMAIN uploads
    <3>1. EmptyMap \in [{} -> Chunks] /\ {} \in SUBSET (1..MaxPackets)
      BY DEF EmptyMap
    <3>2. EmptyMap \in UNION {[S -> Chunks] : S \in SUBSET (1..MaxPackets)}
      BY <3>1
    <3>3. DOMAIN EmptyMap = {}
      BY DEF EmptyMap
    <3> QED
      BY <2>2, <3>2, <3>3, <1>1 DEF StateFor, UploadState
  <2> QED
    BY <2>1, <2>2
<1>3. s = [old EXCEPT !.chunks = With(old.chunks, p, c)]
  BY DEF WithChunk
<1> HIDE DEF old, s
<1>4. /\ s.file_name = n /\ s.total_packets = total
      /\ s.chunks = With(old.chunks, p, c)
      /\ s = [total_packets |-> total, file_name |-> n, chunks |-> s.chunks]
  BY <1>2, <1>3 DEF UploadState
<1>5. old.chunks \in [DOMAIN old.chunks -> Chunks]
  <2>1. old.chunks \in UNION {[S -> Chunks] : S \in SUBSET (1..MaxPackets)}
    BY <1>2 DEF UploadState
  <2>2. PICK S \in SUBSET (1..MaxPackets) : old.chunks \in [S -> Chunks]
    BY <2>1
  <2> QED
    BY <2>2
<1>6. /\ DOMAIN s.chunks = DOMAIN old.chunks \cup {p}
      /\ s.chunks \in [DOMAIN s.chunks -> Chunks]
  <2>1. /\ DOMAIN With(old.chunks, p, c) = DOMAIN old.chunks \cup {p}
        /\ With(old.chunks, p, c) \in [DOMAIN old.chunks \cup {p} -> Chunks]
    BY <1>5, WithType, c \in Chunks, Zenon
  <2> QED
    BY <1>4, <2>1
<1>7. DOMAIN s.chunks \in SUBSET (1..MaxPackets)
  BY <1>1, <1>2, <1>6
<1>8. s.chunks \in UNION {[S -> Chunks] : S \in SUBSET (1..MaxPackets)}
  BY <1>6, <1>7
<1>9. s \in UploadState
  BY <1>1, <1>4, <1>8 DEF UploadState
<1> QED
  BY <1>1, <1>2, <1>4, <1>6, <1>9 DEF s

(***************************************************************************)
(* An accepted chunk leaves its upload short of a packet in the buffer, or *)
(* takes the upload out of it and hands it to persist_completed_upload;    *)
(* the error of _validate_all_packets_received cannot happen.              *)
(***************************************************************************)
Buffers(t, u, s) ==
    /\ ~IsFull(s)
    /\ uploads' = With(uploads, u, s)
    /\ UNCHANGED <<pc, locals>>

Completes(t, u, s) ==
    /\ IsFull(s)
    /\ uploads' = Without(uploads, u)
    /\ Goto(t, "decrypt")
    /\ req' = [req EXCEPT ![t] = [code |-> "CREATE_BACKUP", user |-> u, name |-> s.file_name]]
    /\ Assemble(s) \in Assemblies
    /\ data' = [data EXCEPT ![t] = Assemble(s)]
    /\ UNCHANGED <<path, fd>>

LEMMA ChunkOutcome ==
    ASSUME TypeOK, BufferIncomplete, NEW t \in Conns, ReceiveChunk(t)
    PROVE  /\ pc[t] = "idle"
           /\ UNCHANGED <<files, disk, aes_key>>
           /\ FirstReply(t, <<>>)
           /\ \E u \in Serves[t], s \in UploadState :
                 /\ DOMAIN s.chunks \subseteq 1..s.total_packets
                 /\ DOMAIN s.chunks # {}
                 /\ Buffers(t, u, s) \/ Completes(t, u, s)
<1> USE BackupAssumption
<1>0. PICK u \in Serves[t], n \in ReqNames, total \in 0..MaxPackets :
          \E p \in 0..MaxPackets, c \in Contents, k \in 0..aes_key[u], v \in 1..MaxIVs :
              AddChunk(t, u, n, p, total, [content |-> c, key |-> k, iv |-> v])
  BY Zenon DEF ReceiveChunk
<1>1. PICK p \in 0..MaxPackets, c \in Contents, k \in 0..aes_key[u], v \in 1..MaxIVs :
          AddChunk(t, u, n, p, total, [content |-> c, key |-> k, iv |-> v])
  BY <1>0, Zenon
<1> DEFINE ch == [content |-> c, key |-> k, iv |-> v]
           s == WithChunk(uploads, u, n, p, total, ch)
<1>2. u \in Users
  OBVIOUS
<1>3. ch \in Chunks
  <2>1. aes_key[u] \in 0..MaxKeys
    BY <1>2 DEF TypeOK
  <2> QED
    BY <2>1 DEF Chunks
<1>4. Accepts(u, n, p, total)
  BY <1>1 DEF AddChunk
<1>5. /\ s \in UploadState
      /\ s.file_name = n
      /\ s.total_packets = total
      /\ DOMAIN s.chunks \subseteq 1..total
      /\ p \in DOMAIN s.chunks
  BY <1>2, <1>3, <1>4, ChunkStored
<1>6. /\ pc[t] = "idle"
      /\ UNCHANGED <<files, disk, aes_key>>
      /\ FirstReply(t, <<>>)
      /\ \/ /\ ~IsFull(s)
            /\ uploads' = With(uploads, u, s)
            /\ UNCHANGED <<pc, locals>>
         \/ /\ IsFull(s)
            /\ IF NoneMissing(s)
               THEN /\ uploads' = Without(uploads, u)
                    /\ Goto(t, "decrypt")
                    /\ req' = [req EXCEPT ![t] =
                          [code |-> "CREATE_BACKUP", user |-> u, name |-> n]]
                    /\ data' = [data EXCEPT ![t] = Assemble(s)]
                    /\ UNCHANGED <<path, fd>>
               ELSE /\ uploads' = With(uploads, u, s)
                    /\ Raise(t)
  BY <1>1 DEF AddChunk
<1> HIDE DEF s
<1>7. IsFull(s) => NoneMissing(s)
  BY <1>5, FullLacksNone
<1>8. NoneMissing(s) => Assemble(s) \in Assemblies
  <2>1. PICK S \in SUBSET (1..MaxPackets) : s.chunks \in [S -> Chunks]
    BY <1>5 DEF UploadState
  <2>2. total \in 1..MaxPackets
    BY <1>5 DEF UploadState
  <2>3. NoneMissing(s) => Assemble(s) \in [1..total -> Chunks]
    BY <1>5, <2>1 DEF NoneMissing, Assemble
  <2> QED
    BY <2>2, <2>3 DEF Assemblies
<1>9. Buffers(t, u, s) \/ Completes(t, u, s)
  BY <1>5, <1>6, <1>7, <1>8 DEF Buffers, Completes
<1> QED
  BY <1>5, <1>6, <1>9

-----------------------------------------------------------------------------

(***************************************************************************)
(* A step of the buffer keeps every upload in it short of a packet.        *)
(***************************************************************************)
LEMMA BufferStep ==
    ASSUME TypeOK, BufferIncomplete, [Next]_vars
    PROVE  BufferIncomplete'
<1> USE BackupAssumption
<1>1. ASSUME NEW t \in Conns, ReceiveChunk(t)
      PROVE  BufferIncomplete'
  <2>1. PICK u \in Serves[t], s \in UploadState :
            /\ DOMAIN s.chunks \subseteq 1..s.total_packets
            /\ DOMAIN s.chunks # {}
            /\ Buffers(t, u, s) \/ Completes(t, u, s)
    BY <1>1, ChunkOutcome
  <2>2. CASE Buffers(t, u, s)
    <3>1. s.total_packets \in Nat
      BY DEF UploadState
    <3>2. Cardinality(DOMAIN s.chunks) < s.total_packets
      BY <2>1, <2>2, <3>1, NotFullIsShort DEF Buffers
    <3> QED
      BY <2>1, <2>2, <3>2 DEF Buffers, BufferIncomplete, With
  <2>3. CASE Completes(t, u, s)
    BY <2>3 DEF Completes, BufferIncomplete, Without, Restrict
  <2> QED
    BY <2>1, <2>2, <2>3
<1>2. CASE Crash
  BY <1>2 DEF Crash, BufferIncomplete, EmptyMap
<1>3. CASE UNCHANGED uploads
  BY <1>3 DEF BufferIncomplete
<1>4. ASSUME NEW t \in Conns, Receive(t), ~ReceiveChunk(t)
      PROVE  UNCHANGED uploads
  BY <1>4 DEF Receive, Connect, Disconnect, RejectTooLarge, RejectChunk, ReceiveCrc,
              FirstSendFails, shared
<1>5. ASSUME NEW t \in Conns, Handle(t)
      PROVE  UNCHANGED uploads
  BY <1>5 DEF Handle, Persist, Decrypt, DecryptFails, PickVersion, OpenFile, WriteFile,
              WriteFails, AddFile, TouchLastSeen, SendUploadReceived, HandleCrc, Lookup,
              LookupFails, CheckExists, MarkVerified, Unlink, UnlinkFails, MarkUnverified,
              HandlerError, DatabaseError, DiskError, SendError, Answer, SendFailure,
              LoseConnection, shared
<1>6. ASSUME NEW u \in Users, Rekey(u)
      PROVE  UNCHANGED uploads
  BY <1>6 DEF Rekey
<1> QED
  BY <1>1, <1>2, <1>3, <1>4, <1>5, <1>6 DEF Next, vars

(***************************************************************************)
(* The path a handler is saving to names a user, a file and a version.     *)
(***************************************************************************)
LEMMA SavingPath ==
    ASSUME FrameOK, NEW t \in Conns, pc[t] \in {"open", "write", "add_file"}
    PROVE  /\ req[t].user \in Users /\ req[t].name \in Names
           /\ path[t] \in Paths /\ path[t][3] \in Versions
           /\ path[t] = <<req[t].user, req[t].name, path[t][3]>>
<1>1. req[t].user \in Users /\ req[t].name \in Names
  BY DEF FrameOK, Frame, Requests, Steps, SavingSteps
<1>2. PICK v \in Versions : path[t] = <<req[t].user, req[t].name, v>>
  BY DEF FrameOK, Frame
<1> QED
  BY <1>1, <1>2 DEF Paths

(***************************************************************************)
(* The version that get_next_version_number returns follows those on       *)
(* record.                                                                 *)
(***************************************************************************)
LEMMA PickedVersion ==
    ASSUME VersionsContiguous, NEW u \in Users, NEW n \in Names
    PROVE  LET v == NextVersion(files, u, n)
           IN  /\ v \in Versions
               /\ v = 1 \/ v - 1 \in VersionsOf(files, u, n)
               /\ v \notin VersionsOf(files, u, n)
<1>1. PICK m \in 0..Len(files) : VersionsOf(files, u, n) = 1..m
  BY DEF VersionsContiguous
<1>2. m \in Nat
  OBVIOUS
<1>3. NextVersion(files, u, n) = m + 1
  BY <1>1, <1>2, NextAfter
<1> QED
  BY <1>1, <1>2, <1>3 DEF Versions

(***************************************************************************)
(* No step takes the state out of its shape.                               *)
(***************************************************************************)
LEMMA TypeStep ==
    ASSUME TypeOK, BufferIncomplete, VersionsContiguous, FrameOK, [Next]_vars
    PROVE  TypeOK'
<1> USE BackupAssumption DEF Steps, SavingSteps, CrcSteps
<1>1. ASSUME NEW t \in Conns, Connect(t)
      PROVE  TypeOK'
  BY <1>1, RepliesType DEF TypeOK, Connect, Goto, shared, locals
<1>2. ASSUME NEW t \in Conns, Disconnect(t)
      PROVE  TypeOK'
  BY <1>2, RepliesType DEF TypeOK, Disconnect, Goto, shared, locals
<1>3. ASSUME NEW t \in Conns, RejectTooLarge(t)
      PROVE  TypeOK'
  BY <1>3, RepliesType DEF TypeOK, RejectTooLarge, Responses, shared, locals
<1>4. ASSUME NEW t \in Conns, RejectChunk(t)
      PROVE  TypeOK'
  BY <1>4, RepliesType, LeaveType DEF TypeOK, RejectChunk, Raise, shared
<1>5. ASSUME NEW t \in Conns, ReceiveChunk(t)
      PROVE  TypeOK'
  <2>1. PICK u \in Serves[t], s \in UploadState : Buffers(t, u, s) \/ Completes(t, u, s)
    BY <1>5, ChunkOutcome
  <2>2. UNCHANGED <<files, disk, aes_key>> /\ replies' \in [Conns -> Seq(Responses)]
    BY <1>5, ChunkOutcome, RepliesType
  <2>3. u \in Users
    OBVIOUS
  <2>4. uploads \in [DOMAIN uploads -> UploadState] /\ DOMAIN uploads \subseteq Users
    BY DEF TypeOK
  <2>5. CASE Buffers(t, u, s)
    <3>1. /\ DOMAIN With(uploads, u, s) = DOMAIN uploads \cup {u}
          /\ With(uploads, u, s) \in [DOMAIN uploads \cup {u} -> UploadState]
      BY <2>4, WithType, Zenon
    <3> QED
      BY <2>2, <2>3, <2>4, <2>5, <3>1 DEF TypeOK, Buffers, locals
  <2>6. CASE Completes(t, u, s)
    <3>1. /\ DOMAIN uploads' = DOMAIN uploads \ {u}
          /\ uploads' \in [DOMAIN uploads' -> UploadState]
      BY <2>4, <2>6, RestrictType, Zenon DEF Completes, Without
    <3>2. s.file_name \in ReqNames
      BY DEF UploadState
    <3>3. req' \in [Conns -> Requests \cup {NoReq}]
      BY <2>3, <2>6, <3>2 DEF TypeOK, Completes, Requests
    <3> QED
      BY <2>2, <2>4, <2>6, <3>1, <3>3 DEF TypeOK, Completes, Goto
  <2> QED
    BY <2>1, <2>5, <2>6
<1>6. ASSUME NEW t \in Conns, ReceiveCrc(t)
      PROVE  TypeOK'
  <2>1. PICK u \in Serves[t], n \in ReqNames, code \in CrcCodes :
            /\ Goto(t, "lookup")
            /\ req' = [req EXCEPT ![t] = [code |-> code, user |-> u, name |-> n]]
            /\ FirstReply(t, IF code = "CRC_ERROR" THEN <<>> ELSE <<"ACK">>)
            /\ UNCHANGED <<shared, data, path, fd>>
    BY <1>6 DEF ReceiveCrc
  <2>2. replies' \in [Conns -> Seq(Responses)]
    BY <2>1, RepliesType DEF Responses
  <2>3. req' \in [Conns -> Requests \cup {NoReq}]
    BY <2>1 DEF TypeOK, Requests
  <2> QED
    BY <2>1, <2>2, <2>3 DEF TypeOK, Goto, shared
<1>7. ASSUME NEW t \in Conns, FirstSendFails(t)
      PROVE  TypeOK'
  BY <1>7, RepliesType, LeaveType DEF TypeOK, FirstSendFails, Raise, shared
<1>8. ASSUME NEW t \in Conns, Decrypt(t)
      PROVE  TypeOK'
  BY <1>8 DEF TypeOK, Decrypt, Plaintexts, Plain, Goto, shared
<1>9. ASSUME NEW t \in Conns, PickVersion(t)
      PROVE  TypeOK'
  <2>1. req[t].user \in Users /\ req[t].name \in Names
    BY <1>9 DEF PickVersion, FrameOK, Frame, Requests
  <2>2. NextVersion(files, req[t].user, req[t].name) \in Versions
    BY <2>1, PickedVersion
  <2>3. VersionedPath(req[t].user, req[t].name, NextVersion(files, req[t].user, req[t].name))
          \in Paths
    BY <2>1, <2>2 DEF VersionedPath, Paths
  <2> QED
    BY <1>9, <2>3 DEF TypeOK, PickVersion, Goto, shared
<1>10. ASSUME NEW t \in Conns, OpenFile(t)
       PROVE  TypeOK'
  <2>1. path[t] \in Paths
    BY <1>10, SavingPath DEF OpenFile
  <2>2. disk \in [DOMAIN disk -> Stored] /\ DOMAIN disk \subseteq Paths /\ Empty \in Stored
    BY DEF TypeOK, Stored
  <2>3. /\ DOMAIN With(disk, path[t], Empty) = DOMAIN disk \cup {path[t]}
        /\ With(disk, path[t], Empty) \in [DOMAIN disk \cup {path[t]} -> Stored]
    BY <2>2, WithType, Zenon
  <2> QED
    BY <1>10, <2>1, <2>2, <2>3 DEF TypeOK, OpenFile, Goto
<1>11. ASSUME NEW t \in Conns, WriteFile(t)
       PROVE  TypeOK'
  <2>1. data[t] \in Stored /\ Torn \in Stored
    BY <1>11 DEF WriteFile, FrameOK, Frame, Stored
  <2>2. \/ UNCHANGED disk
        \/ fd[t] # NoPath /\ \E d \in Stored : disk' = [disk EXCEPT ![fd[t]] = d]
    BY <1>11, <2>1 DEF WriteFile
  <2>3. DOMAIN disk' = DOMAIN disk /\ disk' \in [DOMAIN disk -> Stored]
    <3>1. disk \in [DOMAIN disk -> Stored]
      BY DEF TypeOK
    <3>2. ASSUME NEW d \in Stored, disk' = [disk EXCEPT ![fd[t]] = d]
          PROVE  DOMAIN disk' = DOMAIN disk /\ disk' \in [DOMAIN disk -> Stored]
      BY <3>1, <3>2
    <3> QED
      BY <2>2, <3>1, <3>2
  <2> QED
    BY <1>11, <2>3 DEF TypeOK, WriteFile, Goto
<1>12. ASSUME NEW t \in Conns, WriteFails(t)
       PROVE  TypeOK'
  BY <1>12, LeaveType DEF TypeOK, WriteFails, FrameOK, Frame, Raise, Stored
<1>13. ASSUME NEW t \in Conns, AddFile(t)
       PROVE  TypeOK'
  <2>1. /\ path[t] \in Paths /\ path[t][3] \in Versions
        /\ req[t].user \in Users /\ req[t].name \in Names
    BY <1>13, SavingPath DEF AddFile
  <2>2. files \in Seq(Row)
    BY DEF TypeOK
  <2>3. files' \in Seq(Row)
    BY <1>13, <2>1, <2>2, AddedRowType DEF AddFile
  <2> QED
    BY <1>13, <2>3 DEF TypeOK, AddFile, Goto, locals
<1>14. ASSUME NEW t \in Conns, TouchLastSeen(t)
       PROVE  TypeOK'
  BY <1>14, LeaveType DEF TypeOK, TouchLastSeen, Goto, shared, locals
<1>15. ASSUME NEW t \in Conns, SendUploadReceived(t)
       PROVE  TypeOK'
  BY <1>15, LeaveType, RepliesType DEF TypeOK, SendUploadReceived, Responses, shared
<1>16. ASSUME NEW t \in Conns, Lookup(t)
       PROVE  TypeOK'
  <2>1. LatestPaths(files, req[t].user, req[t].name) \subseteq Paths
    <3>1. \A i \in DOMAIN files : files[i] \in Row
      BY DEF TypeOK
    <3>2. \A i \in DOMAIN files : files[i].path_name \in Paths
      BY <3>1 DEF Row
    <3> QED
      BY <3>2 DEF LatestPaths, Candidates
  <2> QED
    BY <1>16, <2>1 DEF TypeOK, Lookup, Goto, shared
<1>17. ASSUME NEW t \in Conns, CheckExists(t)
       PROVE  TypeOK'
  BY <1>17, LeaveType DEF TypeOK, CheckExists, AfterExists, Raise, Goto, shared, locals
<1>18. ASSUME NEW t \in Conns, MarkVerified(t) \/ MarkUnverified(t)
       PROVE  TypeOK'
  <2>1. files' \in Seq(Row)
    <3>1. files \in Seq(Row)
      BY DEF TypeOK
    <3>2. PICK b \in BOOLEAN : files' = WithVerified(files, req[t].user, path[t], b)
      BY <1>18 DEF MarkVerified, MarkUnverified
    <3> QED
      BY <3>1, <3>2, VerifiedRows
  <2> QED
    BY <1>18, <2>1, LeaveType DEF TypeOK, MarkVerified, MarkUnverified, Goto, locals
<1>19. ASSUME NEW t \in Conns, Unlink(t)
       PROVE  TypeOK'
  <2>1. disk \in [DOMAIN disk -> Stored] /\ DOMAIN disk \subseteq Paths
    BY DEF TypeOK
  <2>2. DOMAIN disk' = DOMAIN disk \ {path[t]} /\ disk' \in [DOMAIN disk' -> Stored]
    <3>1. disk' = Restrict(disk, DOMAIN disk \ {path[t]})
      BY <1>19 DEF Unlink
    <3> QED
      BY <2>1, <3>1 DEF Restrict
  <2> QED
    BY <1>19, <2>1, <2>2 DEF TypeOK, Unlink, Goto
<1>20. ASSUME NEW t \in Conns,
              \/ DecryptFails(t) \/ LookupFails(t) \/ UnlinkFails(t)
              \/ DatabaseError(t) \/ DiskError(t) \/ SendError(t)
       PROVE  TypeOK'
  <2>1. Raise(t) /\ UNCHANGED <<shared, replies>>
    BY <1>20 DEF DecryptFails, LookupFails, UnlinkFails, DatabaseError, DiskError, SendError
  <2> QED
    BY <2>1, LeaveType DEF TypeOK, Raise, shared
<1>21. ASSUME NEW t \in Conns, SendFailure(t) \/ LoseConnection(t)
       PROVE  TypeOK'
  BY <1>21, RepliesType DEF TypeOK, SendFailure, LoseConnection, Goto, Responses, shared, locals
<1>22. CASE Crash
  BY <1>22 DEF TypeOK, Crash, EmptyMap
<1>23. ASSUME NEW u \in Users, Rekey(u)
       PROVE  TypeOK'
  BY <1>23 DEF TypeOK, Rekey, locals
<1>24. CASE UNCHANGED vars
  BY <1>24 DEF TypeOK, vars
<1> QED
  BY <1>1, <1>2, <1>3, <1>4, <1>5, <1>6, <1>7, <1>8, <1>9, <1>10, <1>11, <1>12, <1>13,
     <1>14, <1>15, <1>16, <1>17, <1>18, <1>19, <1>20, <1>21, <1>22, <1>23, <1>24
  DEF Next, Receive, Handle, Persist, HandleCrc, HandlerError, Answer

-----------------------------------------------------------------------------

(***************************************************************************)
(* A thread's step leaves the frames of the other threads as they are,     *)
(* but for the directory entry an unlink takes from under an open file.    *)
(***************************************************************************)
OthersStay(t) ==
    \A c \in Conns \ {t} :
        /\ pc'[c] = pc[c] /\ req'[c] = req[c]
        /\ data'[c] = data[c] /\ path'[c] = path[c]
        /\ \/ fd'[c] = fd[c]
           \/ Unlink(t) /\ fd'[c] = NoPath /\ fd[c] = path[t]

LEMMA ReceiveIsLocal ==
    ASSUME TypeOK, BufferIncomplete, NEW t \in Conns, Receive(t)
    PROVE  OthersStay(t)
<1>1. CASE ReceiveChunk(t)
  <2>1. PICK u \in Serves[t], s \in UploadState : Buffers(t, u, s) \/ Completes(t, u, s)
    BY <1>1, ChunkOutcome
  <2> QED
    BY <2>1 DEF OthersStay, TypeOK, Buffers, Completes, Goto, locals
<1>2. CASE ~ReceiveChunk(t)
  BY <1>2 DEF OthersStay, TypeOK, Receive, Connect, Disconnect, RejectTooLarge, RejectChunk,
              ReceiveCrc, FirstSendFails, Raise, Leave, Goto, locals
<1> QED
  BY <1>1, <1>2

LEMMA HandleIsLocal ==
    ASSUME TypeOK, NEW t \in Conns, Handle(t)
    PROVE  OthersStay(t)
<1>1. CASE Persist(t)
  BY <1>1 DEF OthersStay, TypeOK, Persist, Decrypt, DecryptFails, PickVersion, OpenFile,
              WriteFile, WriteFails, AddFile, TouchLastSeen, SendUploadReceived, Raise,
              Leave, Goto, locals
<1>2. CASE HandleCrc(t)
  <2>1. CASE Unlink(t)
    <3>1. /\ pc' = [pc EXCEPT ![t] = "unmark"]
          /\ fd' = [c \in Conns |-> IF fd[c] = path[t] THEN NoPath ELSE fd[c]]
          /\ UNCHANGED <<req, data, path>>
      BY <2>1 DEF Unlink, Goto
    <3>2. \A c \in Conns : fd'[c] = fd[c] \/ (fd'[c] = NoPath /\ fd[c] = path[t])
      BY <3>1
    <3>3. \A c \in Conns \ {t} : pc'[c] = pc[c]
      BY <3>1 DEF TypeOK
    <3> QED
      BY <2>1, <3>1, <3>2, <3>3 DEF OthersStay
  <2>2. CASE ~Unlink(t)
    <3>1. /\ DOMAIN pc = Conns /\ DOMAIN req = Conns /\ DOMAIN data = Conns
          /\ DOMAIN path = Conns /\ DOMAIN fd = Conns
      BY DEF TypeOK
    <3>2. \A c \in Conns \ {t} :
              /\ pc'[c] = pc[c] /\ req'[c] = req[c]
              /\ data'[c] = data[c] /\ path'[c] = path[c] /\ fd'[c] = fd[c]
      BY <1>2, <2>2, <3>1 DEF HandleCrc, Lookup, LookupFails, CheckExists,
          MarkVerified, UnlinkFails, MarkUnverified, Raise, Leave, Goto, locals
    <3> QED
      BY <3>2 DEF OthersStay
  <2> QED
    BY <2>1, <2>2
<1>3. CASE HandlerError(t) \/ Answer(t)
  BY <1>3 DEF OthersStay, TypeOK, HandlerError, DatabaseError, DiskError, SendError, Answer,
              SendFailure, LoseConnection, Raise, Leave, Goto, locals
<1> QED
  BY <1>1, <1>2, <1>3 DEF Handle

(***************************************************************************)
(* The steps that write to the files table, and those that touch the disk. *)
(***************************************************************************)
LEMMA FilesStep ==
    ASSUME TypeOK, BufferIncomplete, [Next]_vars
    PROVE  \/ UNCHANGED files
           \/ \E t \in Conns : AddFile(t) \/ MarkVerified(t) \/ MarkUnverified(t)
<1>1. ASSUME NEW t \in Conns, Receive(t)
      PROVE  UNCHANGED files
  <2>1. ReceiveChunk(t) => UNCHANGED files
    BY ChunkOutcome
  <2> QED
    BY <1>1, <2>1 DEF Receive, Connect, Disconnect, RejectTooLarge, RejectChunk,
                      ReceiveCrc, FirstSendFails, shared
<1>2. ASSUME NEW t \in Conns, Persist(t)
      PROVE  UNCHANGED files \/ AddFile(t) \/ MarkVerified(t) \/ MarkUnverified(t)
  BY <1>2 DEF Persist, Decrypt, DecryptFails, PickVersion, OpenFile, WriteFile,
              WriteFails, TouchLastSeen, SendUploadReceived, shared
<1>3. ASSUME NEW t \in Conns, HandleCrc(t)
      PROVE  UNCHANGED files \/ AddFile(t) \/ MarkVerified(t) \/ MarkUnverified(t)
  BY <1>3 DEF HandleCrc, Lookup, LookupFails, CheckExists, Unlink, UnlinkFails, shared
<1>4. ASSUME NEW t \in Conns, HandlerError(t) \/ Answer(t)
      PROVE  UNCHANGED files
  BY <1>4 DEF HandlerError, DatabaseError, DiskError, SendError, Answer, SendFailure,
              LoseConnection, shared
<1>5. CASE Crash \/ (\E u \in Users : Rekey(u)) \/ UNCHANGED vars
  BY <1>5 DEF Crash, Rekey, vars
<1> QED
  BY <1>1, <1>2, <1>3, <1>4, <1>5 DEF Next, Handle

LEMMA DiskStep ==
    ASSUME TypeOK, BufferIncomplete, [Next]_vars
    PROVE  \/ UNCHANGED disk
           \/ \E t \in Conns : OpenFile(t) \/ WriteFile(t) \/ WriteFails(t) \/ Unlink(t)
<1>1. ASSUME NEW t \in Conns, Receive(t)
      PROVE  UNCHANGED disk
  <2>1. ReceiveChunk(t) => UNCHANGED disk
    BY ChunkOutcome
  <2> QED
    BY <1>1, <2>1 DEF Receive, Connect, Disconnect, RejectTooLarge, RejectChunk,
                      ReceiveCrc, FirstSendFails, shared
<1>2. ASSUME NEW t \in Conns, Persist(t)
      PROVE  UNCHANGED disk \/ OpenFile(t) \/ WriteFile(t) \/ WriteFails(t) \/ Unlink(t)
  BY <1>2 DEF Persist, Decrypt, DecryptFails, PickVersion, AddFile, TouchLastSeen,
              SendUploadReceived, shared
<1>3. ASSUME NEW t \in Conns, HandleCrc(t)
      PROVE  UNCHANGED disk \/ OpenFile(t) \/ WriteFile(t) \/ WriteFails(t) \/ Unlink(t)
  BY <1>3 DEF HandleCrc, Lookup, LookupFails, CheckExists, MarkVerified, UnlinkFails,
              MarkUnverified, shared
<1>4. ASSUME NEW t \in Conns, HandlerError(t) \/ Answer(t)
      PROVE  UNCHANGED disk
  BY <1>4 DEF HandlerError, DatabaseError, DiskError, SendError, Answer, SendFailure,
              LoseConnection, shared
<1>5. CASE Crash \/ (\E u \in Users : Rekey(u)) \/ UNCHANGED vars
  BY <1>5 DEF Crash, Rekey, vars
<1> QED
  BY <1>1, <1>2, <1>3, <1>4, <1>5 DEF Next, Handle

(***************************************************************************)
(* Only an unlink removes a directory entry.                               *)
(***************************************************************************)
LEMMA DiskGrows ==
    ASSUME TypeOK, BufferIncomplete, [Next]_vars, \A t \in Conns : ~Unlink(t)
    PROVE  DOMAIN disk \subseteq DOMAIN disk'
<1>1. CASE UNCHANGED disk
  BY <1>1
<1>2. ASSUME NEW t \in Conns, OpenFile(t)
      PROVE  DOMAIN disk \subseteq DOMAIN disk'
  BY <1>2 DEF OpenFile, With
<1>3. ASSUME NEW t \in Conns, WriteFile(t) \/ WriteFails(t)
      PROVE  DOMAIN disk \subseteq DOMAIN disk'
  BY <1>3 DEF WriteFile, WriteFails
<1> QED
  BY <1>1, <1>2, <1>3, DiskStep

(***************************************************************************)
(* A step of one thread leaves the frames of the others in shape.          *)
(***************************************************************************)
LEMMA OtherFrames ==
    ASSUME TypeOK, BufferIncomplete, FrameOK, [Next]_vars,
           NEW t \in Conns, Receive(t) \/ Handle(t), NEW c \in Conns \ {t}
    PROVE  Frame(c)'
<1>1. OthersStay(t)
  BY ReceiveIsLocal, HandleIsLocal
<1>2. /\ pc'[c] = pc[c] /\ req'[c] = req[c]
      /\ data'[c] = data[c] /\ path'[c] = path[c]
      /\ fd'[c] = fd[c] \/ fd'[c] = NoPath
  BY <1>1 DEF OthersStay
<1>3. fd'[c] # NoPath => fd[c] \in DOMAIN disk /\ fd'[c] = fd[c]
  BY <1>2 DEF FrameOK, Frame
<1>4. fd'[c] # NoPath => fd'[c] \in DOMAIN disk'
  <2>1. CASE \E d \in Conns : Unlink(d)
    <3>1. PICK d \in Conns : Unlink(d)
      BY <2>1
    <3>2. fd'[c] = IF fd[c] = path[d] THEN NoPath ELSE fd[c]
      BY <3>1 DEF Unlink
    <3>3. DOMAIN disk' = DOMAIN disk \ {path[d]}
      BY <3>1 DEF Unlink, Restrict
    <3> QED
      BY <1>3, <3>2, <3>3
  <2>2. CASE \A d \in Conns : ~Unlink(d)
    BY <1>3, <2>2, DiskGrows
  <2> QED
    BY <2>1, <2>2
<1>5. Frame(c)
  BY DEF FrameOK
<1> QED
  BY <1>2, <1>4, <1>5 DEF Frame

(***************************************************************************)
(* A step of a thread leaves its own frame in shape.                       *)
(***************************************************************************)
LEMMA OwnFrame ==
    ASSUME TypeOK, BufferIncomplete, VersionsContiguous, FrameOK, [Next]_vars,
           NEW t \in Conns, Receive(t) \/ Handle(t)
    PROVE  Frame(t)'
<1> USE BackupAssumption DEF Steps, SavingSteps, CrcSteps
<1>a. /\ DOMAIN pc = Conns /\ DOMAIN req = Conns /\ DOMAIN data = Conns
      /\ DOMAIN path = Conns /\ DOMAIN fd = Conns
  BY DEF TypeOK
<1>b. Frame(t)
  BY DEF FrameOK
<1>1. ASSUME \E s \in {"idle", "fail"} : Leave(t, s)
      PROVE  Frame(t)'
  BY <1>a, <1>1 DEF Frame, Leave, Goto
<1>2. ASSUME pc'[t] \in {"idle", "closed"}, fd' = fd, pc[t] # "write"
      PROVE  Frame(t)'
  BY <1>b, <1>2 DEF Frame
<1>3. CASE ReceiveChunk(t)
  <2>1. PICK u \in Serves[t], s \in UploadState : Buffers(t, u, s) \/ Completes(t, u, s)
    BY <1>3, ChunkOutcome
  <2>2. pc[t] = "idle" /\ u \in Users /\ s.file_name \in ReqNames
    BY <1>3, ChunkOutcome DEF UploadState
  <2>3. CASE Buffers(t, u, s)
    BY <1>2, <2>2, <2>3 DEF Buffers, locals
  <2>4. CASE Completes(t, u, s)
    <3>1. /\ pc'[t] = "decrypt" /\ data'[t] \in Assemblies /\ fd' = fd
          /\ req'[t] = [code |-> "CREATE_BACKUP", user |-> u, name |-> s.file_name]
      BY <1>a, <2>4 DEF Completes, Goto
    <3>2. req'[t] \in Requests /\ req'[t].user \in Serves[t] /\ req'[t].code = "CREATE_BACKUP"
      BY <2>2, <3>1 DEF Requests
    <3> QED
      BY <1>b, <2>2, <3>1, <3>2 DEF Frame
  <2> QED
    BY <2>1, <2>3, <2>4
<1>4. CASE ReceiveCrc(t)
  <2>1. PICK u \in Serves[t], n \in ReqNames, code \in CrcCodes :
            /\ pc[t] = "idle" /\ Goto(t, "lookup") /\ fd' = fd
            /\ req' = [req EXCEPT ![t] = [code |-> code, user |-> u, name |-> n]]
    BY <1>4 DEF ReceiveCrc
  <2>2. req'[t] \in Requests /\ req'[t].user \in Serves[t] /\ req'[t].code \in CrcCodes
    BY <1>a, <2>1 DEF Requests
  <2> QED
    BY <1>a, <1>b, <2>1, <2>2 DEF Frame, Goto
<1>5. CASE Connect(t) \/ Disconnect(t) \/ RejectTooLarge(t) \/ RejectChunk(t) \/ FirstSendFails(t)
  BY <1>a, <1>1, <1>2, <1>5 DEF Connect, Disconnect, RejectTooLarge, RejectChunk,
                                FirstSendFails, Raise, Goto, locals
<1>6. CASE Decrypt(t)
  <2>1. data'[t] \in Plain
    BY <1>a, <1>6 DEF Decrypt, Plaintexts, Plain
  <2>2. req[t].name \in Names
    BY <1>b, <1>6 DEF Decrypt, Frame, Requests, ReqNames
  <2> QED
    BY <1>a, <1>b, <1>6, <2>1, <2>2 DEF Decrypt, Frame, Goto
<1>7. CASE PickVersion(t)
  <2>1. req[t].user \in Users /\ req[t].name \in Names
    BY <1>b, <1>7 DEF PickVersion, Frame, Requests
  <2>2. NextVersion(files, req[t].user, req[t].name) \in Versions
    BY <2>1, PickedVersion
  <2> QED
    BY <1>a, <1>b, <1>7, <2>2 DEF PickVersion, VersionedPath, Frame, Goto
<1>8. CASE OpenFile(t)
  <2>1. path[t] \in DOMAIN disk'
    BY <1>8 DEF OpenFile, With
  <2> QED
    BY <1>a, <1>b, <1>8, <2>1 DEF OpenFile, Frame, Goto
<1>9. CASE WriteFile(t) \/ AddFile(t)
  BY <1>a, <1>b, <1>9 DEF WriteFile, AddFile, Frame, Goto, locals
<1>10. CASE TouchLastSeen(t)
  BY <1>a, <1>b, <1>1, <1>10 DEF TouchLastSeen, Frame, Goto, locals
<1>11. CASE Lookup(t)
  <2>1. path'[t] \in LatestPaths(files, req[t].user, req[t].name)
    BY <1>a, <1>11 DEF Lookup
  <2>2. \A i \in DOMAIN files : files[i].path_name \in Paths
    <3>1. \A i \in DOMAIN files : files[i] \in Row
      BY DEF TypeOK
    <3> QED
      BY <3>1 DEF Row
  <2>3. path'[t] \in Paths
    BY <2>1, <2>2 DEF LatestPaths, Candidates
  <2> QED
    BY <1>a, <1>b, <1>11, <2>3 DEF Lookup, Frame, Goto
<1>12. CASE CheckExists(t)
  BY <1>a, <1>b, <1>1, <1>12 DEF CheckExists, AfterExists, Raise, Frame, Goto, locals
<1>13. CASE MarkVerified(t) \/ Unlink(t)
  BY <1>a, <1>b, <1>13 DEF MarkVerified, Unlink, Frame, Goto, locals
<1>14. CASE \/ DecryptFails(t) \/ WriteFails(t) \/ SendUploadReceived(t) \/ LookupFails(t)
           \/ UnlinkFails(t) \/ MarkUnverified(t) \/ HandlerError(t)
  BY <1>1, <1>14 DEF DecryptFails, WriteFails, SendUploadReceived, LookupFails, UnlinkFails,
                     MarkUnverified, HandlerError, DatabaseError, DiskError, SendError, Raise
<1>15. CASE Answer(t)
  BY <1>a, <1>2, <1>15 DEF Answer, SendFailure, LoseConnection, Goto, locals
<1> QED
  BY <1>3, <1>4, <1>5, <1>6, <1>7, <1>8, <1>9, <1>10, <1>11, <1>12, <1>13, <1>14, <1>15
  DEF Receive, Handle, Persist, HandleCrc

LEMMA FrameStep ==
    ASSUME TypeOK, BufferIncomplete, VersionsContiguous, FrameOK, [Next]_vars
    PROVE  FrameOK'
<1>1. ASSUME NEW t \in Conns, Receive(t) \/ Handle(t)
      PROVE  FrameOK'
  BY <1>1, OtherFrames, OwnFrame DEF FrameOK
<1>2. CASE Crash
  BY <1>2 DEF Crash, FrameOK, Frame, Steps, SavingSteps, CrcSteps
<1>3. CASE (\E u \in Users : Rekey(u)) \/ UNCHANGED vars
  BY <1>3 DEF FrameOK, Frame, Rekey, vars, locals
<1> QED
  BY <1>1, <1>2, <1>3 DEF Next

-----------------------------------------------------------------------------

(***************************************************************************)
(* No step takes a version off the record, and only add_file adds one.     *)
(***************************************************************************)
LEMMA VersionsStep ==
    ASSUME TypeOK, BufferIncomplete, FrameOK, [Next]_vars
    PROVE  /\ Len(files) \in Nat
           /\ \/ /\ Len(files') = Len(files)
                 /\ \A u \in Users, n \in Names : VersionsOf(files', u, n) = VersionsOf(files, u, n)
              \/ \E t \in Conns :
                    /\ AddFile(t)
                    /\ Len(files') = Len(files) + 1
                    /\ \A u \in Users, n \in Names :
                          VersionsOf(files', u, n) = VersionsOf(files, u, n) \cup
                            (IF u = req[t].user /\ n = req[t].name THEN {path[t][3]} ELSE {})
<1>0. files \in Seq(Row) /\ Len(files) \in Nat
  BY DEF TypeOK
<1>1. CASE UNCHANGED files
  BY <1>0, <1>1
<1>2. ASSUME NEW t \in Conns, AddFile(t)
      PROVE  /\ Len(files') = Len(files) + 1
             /\ \A u \in Users, n \in Names :
                   VersionsOf(files', u, n) = VersionsOf(files, u, n) \cup
                     (IF u = req[t].user /\ n = req[t].name THEN {path[t][3]} ELSE {})
  <2>1. /\ req[t].user \in Users /\ req[t].name \in Names
        /\ path[t] \in Paths /\ path[t][3] \in Versions
        /\ files' = WithFile(files, req[t].user, req[t].name, path[t], path[t][3])
    BY <1>2, SavingPath DEF AddFile
  <2>2. Len(files') = Len(files) + 1
    <3>1. ASSUME NEW r
          PROVE  Len(Append(files, r)) = Len(files) + 1
      BY <1>0
    <3> QED
      BY <2>1, <3>1 DEF WithFile
  <2> QED
    BY <1>0, <2>1, <2>2, AddedVersion
<1>3. ASSUME NEW t \in Conns, MarkVerified(t) \/ MarkUnverified(t)
      PROVE  /\ Len(files') = Len(files)
             /\ \A u \in Users, n \in Names : VersionsOf(files', u, n) = VersionsOf(files, u, n)
  <2>1. PICK b \in BOOLEAN : files' = WithVerified(files, req[t].user, path[t], b)
    BY <1>3 DEF MarkVerified, MarkUnverified
  <2>2. Len(files') = Len(files)
    BY <1>0, <2>1, VerifiedRows
  <2> QED
    BY <1>0, <2>1, <2>2, VerifiedVersions
<1> QED
  BY <1>0, <1>1, <1>2, <1>3, FilesStep

(***************************************************************************)
(* A thread keeps its frame, ends or restarts it, picks or looks up a      *)
(* path, or makes one of the steps that carry the frame on.                *)
(***************************************************************************)
LEMMA FrameSteps ==
    ASSUME TypeOK, BufferIncomplete, [Next]_vars, NEW c \in Conns
    PROVE  \/ pc'[c] \in {"idle", "closed", "fail", "decrypt", "lookup", "version"}
           \/ PickVersion(c)
           \/ Lookup(c)
           \/ /\ path'[c] = path[c] /\ req'[c] = req[c] /\ data'[c] = data[c]
              /\ \/ pc'[c] = pc[c]
                 \/ OpenFile(c) \/ WriteFile(c) \/ AddFile(c) \/ TouchLastSeen(c)
                 \/ CheckExists(c) \/ MarkVerified(c) \/ Unlink(c)
<1>a. DOMAIN pc = Conns
  BY DEF TypeOK
<1>1. ASSUME NEW t \in Conns \ {c}, Receive(t) \/ Handle(t)
      PROVE  /\ path'[c] = path[c] /\ req'[c] = req[c] /\ data'[c] = data[c]
             /\ pc'[c] = pc[c]
  BY <1>1, ReceiveIsLocal, HandleIsLocal DEF OthersStay
<1>2. CASE Receive(c)
  <2>1. ReceiveChunk(c) => pc'[c] \in {"idle", "decrypt"}
    BY <1>a, ChunkOutcome DEF Buffers, Completes, Goto, locals
  <2> QED
    BY <1>2, <1>a, <2>1 DEF Receive, Connect, Disconnect, RejectTooLarge, RejectChunk,
                            ReceiveCrc, FirstSendFails, Raise, Leave, Goto
<1>3. CASE Handle(c)
  <2>1. CASE Persist(c)
    BY <1>a, <2>1 DEF Persist, Decrypt, DecryptFails, OpenFile, WriteFile, WriteFails,
                      AddFile, TouchLastSeen, SendUploadReceived, Raise, Leave, Goto, locals
  <2>2. CASE HandleCrc(c)
    <3>1. CASE DecryptFails(c) \/ LookupFails(c) \/ UnlinkFails(c) \/ MarkUnverified(c)
      BY <1>a, <3>1 DEF DecryptFails, LookupFails, UnlinkFails, MarkUnverified, Raise, Leave, Goto
    <3>2. CASE CheckExists(c)
      BY <1>a, <3>2 DEF CheckExists, Raise, Leave, Goto, locals
    <3>3. CASE MarkVerified(c) \/ Unlink(c)
      BY <3>3 DEF MarkVerified, Unlink, locals
    <3> QED
      BY <2>2, <3>1, <3>2, <3>3 DEF HandleCrc
  <2>3. CASE HandlerError(c) \/ Answer(c)
    BY <1>a, <2>3 DEF HandlerError, DatabaseError, DiskError, SendError, Answer,
                      SendFailure, LoseConnection, Raise, Leave, Goto
  <2> QED
    BY <1>3, <2>1, <2>2, <2>3 DEF Handle
<1>4. CASE Crash
  BY <1>4 DEF Crash
<1>5. CASE (\E u \in Users : Rekey(u)) \/ UNCHANGED vars
  BY <1>5 DEF Rekey, vars, locals
<1> QED
  BY <1>1, <1>2, <1>3, <1>4, <1>5 DEF Next

(***************************************************************************)
(* A handler at open, write or add_file has just picked its version, or    *)
(* still saves to the path it had.                                         *)
(***************************************************************************)
LEMMA SavingStep ==
    ASSUME TypeOK, BufferIncomplete, [Next]_vars,
           NEW c \in Conns, pc'[c] \in {"open", "write", "add_file"}
    PROVE  \/ PickVersion(c)
           \/ /\ pc[c] \in {"open", "write", "add_file"}
              /\ path'[c] = path[c] /\ req'[c] = req[c]
<1>a. DOMAIN pc = Conns
  BY DEF TypeOK
<1>1. Lookup(c) => pc'[c] = "exists"
  BY <1>a DEF Lookup, Goto
<1>2. CASE /\ path'[c] = path[c] /\ req'[c] = req[c]
           /\ \/ pc'[c] = pc[c]
              \/ OpenFile(c) \/ WriteFile(c) \/ AddFile(c) \/ TouchLastSeen(c)
              \/ CheckExists(c) \/ MarkVerified(c) \/ Unlink(c)
  BY <1>a, <1>2 DEF OpenFile, WriteFile, AddFile, TouchLastSeen, CheckExists, AfterExists,
                    MarkVerified, Unlink, Raise, Leave, Goto
<1> QED
  BY <1>1, <1>2, FrameSteps

LEMMA InLineStep ==
    ASSUME TypeOK, BufferIncomplete, VersionsContiguous, FrameOK, NextInLine, [Next]_vars
    PROVE  NextInLine'
<1> SUFFICES ASSUME NEW c \in Conns, pc'[c] \in {"open", "write", "add_file"}
             PROVE  \/ path'[c][3] = 1
                    \/ \E v \in VersionsOf(files', req'[c].user, req'[c].name) :
                          path'[c][3] = v + 1
  BY DEF NextInLine
<1>1. CASE PickVersion(c)
  <2> DEFINE u == req[c].user
             n == req[c].name
             v == NextVersion(files, u, n)
  <2>1. u \in Users /\ n \in Names
    BY <1>1 DEF PickVersion, FrameOK, Frame, Requests, Steps, SavingSteps
  <2>2. v \in Versions /\ (v = 1 \/ v - 1 \in VersionsOf(files, u, n))
    BY <2>1, PickedVersion
  <2>3. path'[c] = <<u, n, v>> /\ req' = req /\ files' = files
    BY <1>1 DEF PickVersion, VersionedPath, TypeOK, shared
  <2>4. path'[c][3] = v /\ (v = 1 \/ v = (v - 1) + 1)
    BY <2>2, <2>3 DEF Versions
  <2> QED
    BY <2>2, <2>3, <2>4
<1>2. CASE /\ pc[c] \in {"open", "write", "add_file"}
           /\ path'[c] = path[c] /\ req'[c] = req[c]
  <2>1. req[c].user \in Users /\ req[c].name \in Names
    BY <1>2, SavingPath
  <2>2. VersionsOf(files, req[c].user, req[c].name)
          \subseteq VersionsOf(files', req[c].user, req[c].name)
    BY <2>1, VersionsStep
  <2> QED
    BY <1>2, <2>2 DEF NextInLine
<1> QED
  BY <1>1, <1>2, SavingStep

(***************************************************************************)
(* A version that is 1 or follows one on record leaves no gap.             *)
(***************************************************************************)
LEMMA ContiguousStep ==
    ASSUME TypeOK, BufferIncomplete, VersionsContiguous, FrameOK, NextInLine, [Next]_vars
    PROVE  VersionsContiguous'
<1> SUFFICES ASSUME NEW u \in Users, NEW n \in Names
             PROVE  \E m \in 0..Len(files') : VersionsOf(files', u, n) = 1..m
  BY DEF VersionsContiguous
<1>1. PICK m \in 0..Len(files) : VersionsOf(files, u, n) = 1..m
  BY DEF VersionsContiguous
<1>2. Len(files) \in Nat
  BY VersionsStep
<1>3. CASE Len(files') = Len(files) /\ VersionsOf(files', u, n) = VersionsOf(files, u, n)
  BY <1>1, <1>3
<1>4. ASSUME NEW t \in Conns, AddFile(t),
             Len(files') = Len(files) + 1,
             VersionsOf(files', u, n) = VersionsOf(files, u, n) \cup
               (IF u = req[t].user /\ n = req[t].name THEN {path[t][3]} ELSE {})
      PROVE  \E k \in 0..Len(files') : VersionsOf(files', u, n) = 1..k
  <2>1. CASE u = req[t].user /\ n = req[t].name
    <3> DEFINE w == path[t][3]
    <3>1. w = 1 \/ \E v \in 1..m : w = v + 1
      BY <1>1, <1>4, <2>1 DEF AddFile, NextInLine
    <3>2. VersionsOf(files', u, n) = (1..m) \cup {w}
      BY <1>1, <1>4, <2>1
    <3> HIDE DEF w
    <3>3. (1..m) \cup {w} = 1..m \/ (1..m) \cup {w} = 1..(m + 1)
      BY <3>1
    <3> QED
      BY <1>2, <1>4, <3>2, <3>3
  <2>2. CASE ~(u = req[t].user /\ n = req[t].name)
    <3>1. VersionsOf(files', u, n) = 1..m
      BY <1>1, <1>4, <2>2
    <3> QED
      BY <1>2, <1>4, <3>1
  <2> QED
    BY <2>1, <2>2
<1> QED
  BY <1>3, <1>4, VersionsStep

-----------------------------------------------------------------------------

IInv ==
    /\ TypeOK
    /\ BufferIncomplete
    /\ VersionsContiguous
    /\ FrameOK
    /\ NextInLine

LEMMA InitIInv == Init => IInv
<1> USE BackupAssumption
<1>1. ASSUME Init
      PROVE  TypeOK
  <2>1. DOMAIN EmptyMap = {} /\ \A S : EmptyMap \in [{} -> S]
    BY DEF EmptyMap
  <2>2. uploads = EmptyMap /\ disk = EmptyMap /\ files = <<>>
    BY <1>1 DEF Init
  <2>3. aes_key = [u \in Users |-> IF u \in KeyedUsers THEN 1 ELSE 0]
    BY <1>1 DEF Init
  <2>4. aes_key \in [Users -> 0..MaxKeys]
    <3>1. 0 \in 0..MaxKeys /\ 1 \in 0..MaxKeys
      OBVIOUS
    <3> QED
      BY <2>3, <3>1
  <2>5. replies \in [Conns -> Seq(Responses)]
    BY <1>1 DEF Init
  <2>6. files \in Seq(Row)
    BY <2>2
  <2> QED
    BY <1>1, <2>1, <2>2, <2>4, <2>5, <2>6 DEF Init, TypeOK
<1>2. ASSUME Init
      PROVE  BufferIncomplete /\ FrameOK /\ NextInLine
  BY <1>2 DEF Init, BufferIncomplete, EmptyMap, FrameOK, Frame, NextInLine, Steps,
              SavingSteps, CrcSteps
<1>3. ASSUME Init
      PROVE  VersionsContiguous
  <2>1. Len(files) = 0 /\ DOMAIN files = {}
    BY <1>3 DEF Init
  <2>2. \A u \in Users, n \in Names : VersionsOf(files, u, n) = {}
    BY <2>1 DEF VersionsOf
  <2> QED
    BY <2>1, <2>2 DEF VersionsContiguous
<1> QED
  BY <1>1, <1>2, <1>3 DEF IInv

(***************************************************************************)
(* The invariant holds in every behaviour of the backup path.              *)
(***************************************************************************)
THEOREM Invariance == Spec => []IInv
<1>1. IInv /\ [Next]_vars => IInv'
  BY TypeStep, BufferStep, ContiguousStep, FrameStep, InLineStep DEF IInv
<1> QED
  BY InitIInv, <1>1, PTL DEF Spec

(***************************************************************************)
(* The buffer, the table, the disk and the frames of the handlers keep     *)
(* their shape.                                                            *)
(***************************************************************************)
THEOREM TypeCorrect == Spec => []TypeOK
<1>1. IInv => TypeOK
  BY DEF IInv
<1> QED
  BY Invariance, <1>1, PTL

(***************************************************************************)
(* An upload in the buffer can always still be completed: it lacks a       *)
(* packet, whatever chunks of whatever uploads arrive on any connection.   *)
(***************************************************************************)
THEOREM BufferNeverFull == Spec => []BufferIncomplete
<1>1. IInv => BufferIncomplete
  BY DEF IInv
<1> QED
  BY Invariance, <1>1, PTL

(***************************************************************************)
(* The versions on record of a file are 1..m, under every race of uploads, *)
(* every failure of a handler and every crash of the server.               *)
(***************************************************************************)
THEOREM VersionsHaveNoGap == Spec => []VersionsContiguous
<1>1. IInv => VersionsContiguous
  BY DEF IInv
<1> QED
  BY Invariance, <1>1, PTL
=============================================================================
