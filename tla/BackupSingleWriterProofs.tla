---------------------- MODULE BackupSingleWriterProofs ----------------------
(***************************************************************************)
(* What holds of the backup path when the requests of a user arrive on one *)
(* connection at a time (OneConnPerUser), for any number of users, files   *)
(* and connections and under every fault: each version is a file of its    *)
(* own, whole and never overwritten, and what UPLOAD_RECEIVED reports is   *)
(* what is stored.                                                         *)
(*                                                                         *)
(* The server does not enforce the assumption.  The argument is that a     *)
(* path carries its user, so that no two threads ever hold the same path   *)
(* (Apart); that a path being saved to is not yet on record (Fresh); and   *)
(* that from file.write to the response the file has the decrypted data    *)
(* (Written).                                                              *)
(***************************************************************************)
EXTENDS BackupServiceProofs

\* The handler uses path[t]: it saves to it, has saved to it, or acts on it.
Saved(t) ==
    \/ pc[t] \in {"add_file", "reply"}
    \/ pc[t] = "last_seen" /\ req[t].code = "CREATE_BACKUP"

Holds(t) ==
    \/ pc[t] \in {"open", "write"} \cup (CrcSteps \ {"lookup"})
    \/ Saved(t)

RowOK ==
    \A i \in DOMAIN files :
        files[i].path_name = <<files[i].user_id, files[i].file_name, files[i].version>>

OwnPath == \A t \in Conns : Holds(t) => path[t][1] = req[t].user

Fresh ==
    \A t \in Conns :
        pc[t] \in {"open", "write", "add_file"} => path[t] \notin Recorded(files)

Written ==
    \A t \in Conns :
        /\ pc[t] = "write" =>
              fd[t] = path[t] /\ path[t] \in DOMAIN disk /\ disk[path[t]] = Empty
        /\ Saved(t) => path[t] \in DOMAIN disk /\ disk[path[t]] = data[t]
        /\ Saved(t) /\ pc[t] # "add_file" => path[t] \in Recorded(files)

-----------------------------------------------------------------------------

(***************************************************************************)
(* A path in use was picked, looked up, or in use before the step.         *)
(***************************************************************************)
LEMMA HoldsStep ==
    ASSUME IInv, [Next]_vars, NEW c \in Conns, Holds(c)'
    PROVE  \/ PickVersion(c) /\ path'[c] = VersionedPath(req[c].user, req[c].name,
                                  NextVersion(files, req[c].user, req[c].name))
                             /\ req'[c] = req[c] /\ UNCHANGED files
           \/ Lookup(c) /\ path'[c] \in LatestPaths(files, req[c].user, req[c].name)
                        /\ req'[c] = req[c]
           \/ Holds(c) /\ path'[c] = path[c] /\ req'[c] = req[c]
<1>a. DOMAIN pc = Conns /\ DOMAIN path = Conns
  BY DEF IInv, TypeOK
<1>b. pc'[c] \notin {"idle", "closed", "fail", "decrypt", "lookup", "version"}
  BY DEF Holds, Saved, CrcSteps
<1>1. CASE PickVersion(c)
  BY <1>1, <1>a DEF PickVersion, shared
<1>2. CASE Lookup(c)
  BY <1>2, <1>a DEF Lookup
<1>3. CASE /\ path'[c] = path[c] /\ req'[c] = req[c]
           /\ \/ pc'[c] = pc[c]
              \/ OpenFile(c) \/ WriteFile(c) \/ AddFile(c) \/ TouchLastSeen(c)
              \/ CheckExists(c) \/ MarkVerified(c) \/ Unlink(c)
  <2>1. CASE pc'[c] = pc[c]
    BY <1>3, <2>1 DEF Holds, Saved
  <2>2. CASE TouchLastSeen(c)
    BY <1>3, <1>a, <1>b, <2>2 DEF TouchLastSeen, Leave, Goto, Holds, Saved
  <2>3. CASE \/ OpenFile(c) \/ WriteFile(c) \/ AddFile(c)
             \/ CheckExists(c) \/ MarkVerified(c) \/ Unlink(c)
    BY <1>3, <2>3 DEF OpenFile, WriteFile, AddFile, CheckExists, MarkVerified, Unlink,
                      Holds, Saved, CrcSteps
  <2> QED
    BY <1>3, <2>1, <2>2, <2>3
<1> QED
  BY <1>b, <1>1, <1>2, <1>3, FrameSteps DEF IInv

-----------------------------------------------------------------------------

(***************************************************************************)
(* Two threads never use the same path.                                    *)
(***************************************************************************)
LEMMA HolderServes ==
    ASSUME IInv, OwnPath, NEW t \in Conns, Holds(t)
    PROVE  path[t][1] \in Serves[t]
<1>1. pc[t] \in Steps \ {"fail"}
  BY DEF Holds, Saved, Steps, SavingSteps, CrcSteps
<1> QED
  BY <1>1 DEF IInv, FrameOK, Frame, OwnPath

LEMMA Apart ==
    ASSUME OneConnPerUser, IInv, OwnPath,
           NEW s \in Conns, NEW t \in Conns, Holds(s), Holds(t), path[s] = path[t]
    PROVE  s = t
<1>1. path[s][1] \in Serves[s] \cap Serves[t]
  BY HolderServes
<1> QED
  BY <1>1 DEF OneConnPerUser

(***************************************************************************)
(* What a step does to the paths on record, and to the content of a path.  *)
(***************************************************************************)
LEMMA RecordedStep ==
    ASSUME IInv, [Next]_vars
    PROVE  \/ Recorded(files') = Recorded(files)
           \/ \E t \in Conns : AddFile(t) /\ Recorded(files') = Recorded(files) \cup {path[t]}
<1>0. files \in Seq(Row)
  BY DEF IInv, TypeOK
<1>1. ASSUME NEW t \in Conns, AddFile(t)
      PROVE  Recorded(files') = Recorded(files) \cup {path[t]}
  <2>1. /\ req[t].user \in Users /\ req[t].name \in Names
        /\ path[t] \in Paths /\ path[t][3] \in Versions
        /\ files' = WithFile(files, req[t].user, req[t].name, path[t], path[t][3])
    BY <1>1, SavingPath DEF AddFile, IInv
  <2> QED
    BY <1>0, <2>1, AddedPath
<1>2. ASSUME NEW t \in Conns, MarkVerified(t) \/ MarkUnverified(t)
      PROVE  Recorded(files') = Recorded(files)
  <2>1. PICK b \in BOOLEAN : files' = WithVerified(files, req[t].user, path[t], b)
    BY <1>2 DEF MarkVerified, MarkUnverified
  <2> QED
    BY <1>0, <2>1, VerifiedVersions
<1> QED
  BY <1>1, <1>2, FilesStep DEF IInv

LEMMA ContentKept ==
    ASSUME IInv, [Next]_vars, NEW p, p \in DOMAIN disk', disk'[p] # disk[p] \/ p \notin DOMAIN disk
    PROVE  \E t \in Conns : path[t] = p /\ (OpenFile(t) \/ WriteFile(t) \/ WriteFails(t))
<1>1. CASE UNCHANGED disk
  BY <1>1
<1>2. ASSUME NEW t \in Conns, OpenFile(t)
      PROVE  path[t] = p
  BY <1>2 DEF OpenFile, With
<1>3. ASSUME NEW t \in Conns, WriteFile(t) \/ WriteFails(t)
      PROVE  path[t] = p
  <2>1. /\ fd[t] # NoPath => fd[t] = path[t] /\ fd[t] \in DOMAIN disk
        /\ DOMAIN disk' = DOMAIN disk
    BY <1>3 DEF WriteFile, WriteFails, IInv, FrameOK, Frame
  <2>2. \/ UNCHANGED disk
        \/ fd[t] # NoPath /\ \E d : disk' = [disk EXCEPT ![fd[t]] = d]
    BY <1>3 DEF WriteFile, WriteFails
  <2> QED
    BY <2>1, <2>2
<1>4. ASSUME NEW t \in Conns, Unlink(t)
      PROVE  FALSE
  BY <1>4 DEF Unlink, Restrict
<1> QED
  BY <1>1, <1>2, <1>3, <1>4, DiskStep DEF IInv

LEMMA EntryKept ==
    ASSUME IInv, [Next]_vars, NEW p \in DOMAIN disk, p \notin DOMAIN disk'
    PROVE  \E t \in Conns : path[t] = p /\ Unlink(t)
<1>1. PICK t \in Conns : Unlink(t)
  BY DiskGrows DEF IInv
<1> QED
  BY <1>1 DEF Unlink, Restrict

(***************************************************************************)
(* The path of a row is built from its user, file and version.             *)
(***************************************************************************)
LEMMA RowStep ==
    ASSUME IInv, RowOK, [Next]_vars
    PROVE  RowOK'
<1>0. files \in Seq(Row)
  BY DEF IInv, TypeOK
<1>1. ASSUME NEW t \in Conns, AddFile(t)
      PROVE  RowOK'
  <2>1. /\ path[t] = <<req[t].user, req[t].name, path[t][3]>>
        /\ files' = WithFile(files, req[t].user, req[t].name, path[t], path[t][3])
    BY <1>1, SavingPath DEF AddFile, IInv
  <2> QED
    BY <1>0, <2>1, AddedRow DEF RowOK
<1>2. ASSUME NEW t \in Conns, MarkVerified(t) \/ MarkUnverified(t)
      PROVE  RowOK'
  <2>1. PICK b \in BOOLEAN : files' = WithVerified(files, req[t].user, path[t], b)
    BY <1>2 DEF MarkVerified, MarkUnverified
  <2> QED
    BY <1>0, <2>1, VerifiedRows DEF RowOK
<1>3. CASE UNCHANGED files
  BY <1>3 DEF RowOK
<1> QED
  BY <1>1, <1>2, <1>3, FilesStep DEF IInv

LEMMA OwnPathStep ==
    ASSUME IInv, RowOK, OwnPath, [Next]_vars
    PROVE  OwnPath'
<1> SUFFICES ASSUME NEW c \in Conns, Holds(c)'
             PROVE  path'[c][1] = req'[c].user
  BY DEF OwnPath
<1>1. ASSUME path'[c] \in LatestPaths(files, req[c].user, req[c].name)
      PROVE  path'[c][1] = req[c].user
  <2>1. PICK i \in DOMAIN files :
            path'[c] = files[i].path_name /\ files[i].user_id = req[c].user
    BY <1>1 DEF LatestPaths, Candidates
  <2>2. files[i].path_name = <<files[i].user_id, files[i].file_name, files[i].version>>
    BY DEF RowOK
  <2> QED
    BY <2>1, <2>2
<1> QED
  BY <1>1, HoldsStep DEF OwnPath, VersionedPath

(***************************************************************************)
(* A version that get_next_version_number returned stays off the record    *)
(* until the handler that asked for it records it.                         *)
(***************************************************************************)
LEMMA PickedIsFresh ==
    ASSUME IInv, RowOK, NEW c \in Conns, PickVersion(c)
    PROVE  VersionedPath(req[c].user, req[c].name, NextVersion(files, req[c].user, req[c].name))
             \notin Recorded(files)
<1> DEFINE u == req[c].user
           n == req[c].name
           v == NextVersion(files, u, n)
<1>1. u \in Users /\ n \in Names
  BY DEF PickVersion, IInv, FrameOK, Frame, Requests, Steps, SavingSteps
<1>2. v \notin VersionsOf(files, u, n)
  BY <1>1, PickedVersion DEF IInv
<1> HIDE DEF u, n, v
<1>3. ASSUME NEW i \in DOMAIN files, files[i].path_name = <<u, n, v>>
      PROVE  v \in VersionsOf(files, u, n)
  BY <1>3 DEF RowOK, VersionsOf
<1>4. <<u, n, v>> \notin Recorded(files)
  BY <1>2, <1>3 DEF Recorded
<1> QED
  BY <1>4 DEF u, n, v, VersionedPath

LEMMA FreshStep ==
    ASSUME OneConnPerUser, IInv, RowOK, OwnPath, Fresh, [Next]_vars
    PROVE  Fresh'
<1> SUFFICES ASSUME NEW c \in Conns, pc'[c] \in {"open", "write", "add_file"}
             PROVE  path'[c] \notin Recorded(files')
  BY DEF Fresh
<1>1. CASE PickVersion(c)
  <2>1. UNCHANGED files /\ path'[c] =
          VersionedPath(req[c].user, req[c].name, NextVersion(files, req[c].user, req[c].name))
    BY <1>1 DEF PickVersion, shared, IInv, TypeOK
  <2> QED
    BY <1>1, <2>1, PickedIsFresh
<1>2. CASE pc[c] \in {"open", "write", "add_file"} /\ path'[c] = path[c]
  <2>1. path[c] \notin Recorded(files)
    BY <1>2 DEF Fresh
  <2>2. ASSUME NEW t \in Conns, AddFile(t)
        PROVE  path[t] # path[c]
    <3>1. pc[t] = "add_file" /\ pc'[t] = "last_seen"
      BY <2>2 DEF AddFile, Goto, IInv, TypeOK
    <3>2. t # c
      BY <3>1
    <3> QED
      BY <1>2, <3>1, <3>2, Apart DEF Holds, Saved
  <2> QED
    BY <1>2, <2>1, <2>2, RecordedStep
<1> QED
  BY <1>1, <1>2, SavingStep DEF IInv

(***************************************************************************)
(* Whatever another thread does, the file of a path in use stays.          *)
(***************************************************************************)
LEMMA FileOfHolder ==
    ASSUME OneConnPerUser, IInv, OwnPath, [Next]_vars,
           NEW c \in Conns, Holds(c), path[c] \in DOMAIN disk,
           ~(OpenFile(c) \/ WriteFile(c) \/ WriteFails(c) \/ Unlink(c))
    PROVE  path[c] \in DOMAIN disk' /\ disk'[path[c]] = disk[path[c]]
<1>1. ASSUME NEW t \in Conns,
             OpenFile(t) \/ WriteFile(t) \/ WriteFails(t) \/ Unlink(t)
      PROVE  path[t] # path[c]
  <2>1. Holds(t)
    BY <1>1 DEF OpenFile, WriteFile, WriteFails, Unlink, Holds, CrcSteps
  <2>2. t # c
    BY <1>1
  <2> QED
    BY <2>1, <2>2, Apart
<1>2. path[c] \in DOMAIN disk'
  BY <1>1, EntryKept
<1> QED
  BY <1>1, <1>2, ContentKept

LEMMA WrittenStep ==
    ASSUME OneConnPerUser, IInv, RowOK, OwnPath, Fresh, Written, [Next]_vars
    PROVE  Written'
<1>a. DOMAIN pc = Conns /\ DOMAIN fd = Conns
  BY DEF IInv, TypeOK
<1>1. ASSUME NEW c \in Conns, pc'[c] = "write"
      PROVE  /\ fd'[c] = path'[c] /\ path'[c] \in DOMAIN disk' /\ disk'[path'[c]] = Empty
  <2>1. CASE OpenFile(c)
    BY <1>a, <2>1 DEF OpenFile, With
  <2>2. CASE pc[c] = "write" /\ path'[c] = path[c]
    <3>1. ~(OpenFile(c) \/ WriteFile(c) \/ WriteFails(c) \/ Unlink(c))
      BY <1>1, <1>a, <2>2 DEF OpenFile, WriteFile, WriteFails, Unlink, Raise, Leave, Goto
    <3>2. fd[c] = path[c] /\ path[c] \in DOMAIN disk /\ disk[path[c]] = Empty
      BY <2>2 DEF Written
    <3>3. Holds(c)
      BY <2>2 DEF Holds
    <3>4. path[c] \in DOMAIN disk' /\ disk'[path[c]] = Empty
      BY <3>1, <3>2, <3>3, FileOfHolder
    <3>5. fd'[c] = fd[c]
      <4>1. ASSUME NEW t \in Conns, t # c, Receive(t) \/ Handle(t)
            PROVE  fd'[c] = fd[c]
        <5>1. OthersStay(t)
          BY <4>1, ReceiveIsLocal, HandleIsLocal DEF IInv
        <5>2. Unlink(t) => path[t] # path[c]
          BY <3>3, <4>1, Apart DEF Unlink, Holds, CrcSteps
        <5> QED
          BY <3>2, <4>1, <5>1, <5>2 DEF OthersStay
      <4>2. CASE Receive(c)
        <5>1. pc[c] \in {"idle", "closed"}
          BY <4>2, ChunkOutcome DEF IInv, Receive, Connect, Disconnect, RejectTooLarge,
                                    RejectChunk, ReceiveCrc, FirstSendFails
        <5> QED
          BY <2>2, <5>1
      <4>3. CASE Handle(c)
        BY <1>1, <1>a, <2>2, <3>1, <4>3 DEF Handle, Persist, Decrypt, DecryptFails, PickVersion,
            AddFile, TouchLastSeen, SendUploadReceived, HandleCrc, Lookup, LookupFails,
            CheckExists, MarkVerified, UnlinkFails, MarkUnverified, HandlerError,
            DatabaseError, DiskError, SendError, Answer, SendFailure, LoseConnection
      <4>4. CASE Crash
        BY <1>1, <4>4 DEF Crash
      <4>5. CASE (\E u \in Users : Rekey(u)) \/ UNCHANGED vars
        BY <4>5 DEF Rekey, vars, locals
      <4> QED
        BY <4>1, <4>2, <4>3, <4>4, <4>5 DEF Next
    <3> QED
      BY <2>2, <3>2, <3>4, <3>5
  <2>3. Lookup(c) \/ PickVersion(c) => pc'[c] # "write"
    BY <1>a DEF Lookup, PickVersion, Goto
  <2>4. CASE /\ path'[c] = path[c]
             /\ \/ WriteFile(c) \/ AddFile(c) \/ TouchLastSeen(c)
                \/ CheckExists(c) \/ MarkVerified(c) \/ Unlink(c)
    BY <1>1, <1>a, <2>4 DEF WriteFile, AddFile, TouchLastSeen, CheckExists, AfterExists,
                            MarkVerified, Unlink, Raise, Leave, Goto
  <2> QED
    BY <1>1, <2>1, <2>2, <2>3, <2>4, FrameSteps DEF IInv
<1>2. ASSUME NEW c \in Conns, Saved(c)'
      PROVE  /\ path'[c] \in DOMAIN disk' /\ disk'[path'[c]] = data'[c]
             /\ pc'[c] # "add_file" => path'[c] \in Recorded(files')
  <2>1. CASE WriteFile(c) /\ path'[c] = path[c] /\ data'[c] = data[c]
    <3>1. fd[c] = path[c] /\ path[c] \in DOMAIN disk /\ disk[path[c]] = Empty
      BY <2>1 DEF WriteFile, Written
    <3>2. disk' = [disk EXCEPT ![path[c]] = data[c]] /\ pc'[c] = "add_file"
      <4>1. path[c] # NoPath
        BY <2>1, SavingPath, BackupAssumption DEF WriteFile, IInv
      <4> QED
        BY <1>a, <2>1, <3>1, <4>1 DEF WriteFile, Goto
    <3> QED
      BY <2>1, <3>1, <3>2
  <2>2. CASE /\ Saved(c) /\ path'[c] = path[c] /\ data'[c] = data[c]
             /\ pc'[c] = "add_file" \/ AddFile(c) \/ pc[c] # "add_file"
    <3>1. path[c] \in DOMAIN disk /\ disk[path[c]] = data[c] /\ Holds(c)
      BY <2>2 DEF Written, Holds
    <3>2. ~(OpenFile(c) \/ WriteFile(c) \/ WriteFails(c) \/ Unlink(c))
      BY <2>2 DEF Saved, OpenFile, WriteFile, WriteFails, Unlink
    <3>3. path[c] \in DOMAIN disk' /\ disk'[path[c]] = data[c]
      BY <3>1, <3>2, FileOfHolder
    <3>4. CASE AddFile(c)
      <4>1. path[c] \in Recorded(files')
        <5>1. /\ req[c].user \in Users /\ req[c].name \in Names
              /\ path[c] \in Paths /\ path[c][3] \in Versions
              /\ files' = WithFile(files, req[c].user, req[c].name, path[c], path[c][3])
              /\ files \in Seq(Row)
          BY <3>4, SavingPath DEF AddFile, IInv, TypeOK
        <5> QED
          BY <5>1, AddedPath
      <4> QED
        BY <2>2, <3>3, <4>1
    <3>5. CASE pc[c] # "add_file"
      <4>1. path[c] \in Recorded(files')
        BY <2>2, <3>5, RecordedStep DEF Written
      <4> QED
        BY <2>2, <3>3, <4>1
    <3> QED
      BY <2>2, <3>3, <3>4, <3>5
  <2>3. /\ pc'[c] \in {"add_file", "last_seen", "reply"}
        /\ pc'[c] = "last_seen" => req'[c].code = "CREATE_BACKUP"
    BY <1>2 DEF Saved
  <2>4. ~Lookup(c) /\ ~PickVersion(c) /\ ~OpenFile(c) /\ ~CheckExists(c) /\ ~Unlink(c)
    BY <1>a, <2>3 DEF Lookup, PickVersion, OpenFile, CheckExists, AfterExists, Unlink,
                      Raise, Leave, Goto
  <2>5. ~MarkVerified(c)
    BY <1>a, <2>3 DEF MarkVerified, Goto, locals, IInv, FrameOK, Frame, CrcSteps, CrcCodes
  <2>6. CASE /\ path'[c] = path[c] /\ req'[c] = req[c] /\ data'[c] = data[c]
             /\ pc'[c] = pc[c] \/ AddFile(c) \/ TouchLastSeen(c)
    <3>1. Saved(c)
      BY <1>a, <2>3, <2>6 DEF Saved, AddFile, TouchLastSeen, Leave, Goto
    <3>2. pc'[c] = "add_file" \/ AddFile(c) \/ pc[c] # "add_file"
      BY <2>6 DEF TouchLastSeen
    <3> QED
      BY <2>2, <2>6, <3>1, <3>2
  <2> QED
    BY <2>1, <2>3, <2>4, <2>5, <2>6, FrameSteps DEF IInv
<1> QED
  BY <1>1, <1>2 DEF Written

(***************************************************************************)
(* Recording a path that is not on record keeps the paths distinct.        *)
(***************************************************************************)
LEMMA UniqueStep ==
    ASSUME IInv, Fresh, UniqueVersions, [Next]_vars
    PROVE  UniqueVersions'
<1>0. files \in Seq(Row)
  BY DEF IInv, TypeOK
<1>1. ASSUME NEW t \in Conns, AddFile(t)
      PROVE  UniqueVersions'
  <2>1. files' = WithFile(files, req[t].user, req[t].name, path[t], path[t][3])
    BY <1>1 DEF AddFile
  <2>2. \A i \in DOMAIN files : files[i].path_name # path[t]
    BY <1>1 DEF AddFile, Fresh, Recorded
  <2>3. \A i \in DOMAIN files' :
            \/ i \in DOMAIN files /\ files'[i] = files[i]
            \/ i = Len(files) + 1 /\ files'[i].path_name = path[t]
    BY <1>0, <2>1, AddedRow
  <2> QED
    BY <2>2, <2>3 DEF UniqueVersions
<1>2. ASSUME NEW t \in Conns, MarkVerified(t) \/ MarkUnverified(t)
      PROVE  UniqueVersions'
  <2>1. PICK b \in BOOLEAN : files' = WithVerified(files, req[t].user, path[t], b)
    BY <1>2 DEF MarkVerified, MarkUnverified
  <2> QED
    BY <1>0, <2>1, VerifiedRows DEF UniqueVersions
<1>3. CASE UNCHANGED files
  BY <1>3 DEF UniqueVersions
<1> QED
  BY <1>1, <1>2, <1>3, FilesStep DEF IInv

(***************************************************************************)
(* No write reaches a path on record.                                      *)
(***************************************************************************)
LEMMA RecordedKept ==
    ASSUME IInv, Fresh, [Next]_vars
    PROVE  RecordedUnchanged
<1>1. ASSUME NEW t \in Conns, OpenFile(t) \/ WriteFile(t) \/ WriteFails(t)
      PROVE  path[t] \notin Recorded(files)
  BY <1>1 DEF OpenFile, WriteFile, WriteFails, Fresh
<1> QED
  BY <1>1, ContentKept DEF RecordedUnchanged

LEMMA WholeStep ==
    ASSUME IInv, Fresh, Written, NoTornBackup, [Next]_vars
    PROVE  NoTornBackup'
<1> SUFFICES ASSUME NEW p \in Recorded(files'), p \in DOMAIN disk'
             PROVE  disk'[p] \in Plain
  BY DEF NoTornBackup, Recorded
<1>1. CASE p \in Recorded(files)
  <2>1. ASSUME NEW t \in Conns, OpenFile(t) \/ WriteFile(t) \/ WriteFails(t)
        PROVE  path[t] # p
    BY <1>1, <2>1 DEF OpenFile, WriteFile, WriteFails, Fresh
  <2>2. p \in DOMAIN disk /\ disk'[p] = disk[p]
    BY <2>1, ContentKept
  <2> QED
    BY <1>1, <2>2 DEF NoTornBackup, Recorded
<1>2. ASSUME NEW t \in Conns, AddFile(t), p = path[t]
      PROVE  disk'[p] \in Plain
  <2>1. disk[path[t]] = data[t] /\ UNCHANGED disk
    BY <1>2 DEF AddFile, Written, Saved
  <2>2. data[t] \in Plain
    BY <1>2 DEF AddFile, IInv, FrameOK, Frame, SavingSteps
  <2> QED
    BY <1>2, <2>1, <2>2
<1> QED
  BY <1>1, <1>2, RecordedStep

-----------------------------------------------------------------------------

SIInv ==
    /\ IInv
    /\ RowOK
    /\ OwnPath
    /\ Fresh
    /\ Written
    /\ UniqueVersions
    /\ NoTornBackup

LEMMA InitSIInv == Init => SIInv
<1>1. Init => DOMAIN files = {} /\ \A t \in Conns : pc[t] = "closed"
  BY DEF Init
<1>2. Init => RowOK /\ UniqueVersions /\ NoTornBackup
  BY <1>1 DEF RowOK, UniqueVersions, NoTornBackup
<1>3. Init => OwnPath /\ Fresh /\ Written
  BY <1>1 DEF OwnPath, Fresh, Written, Holds, Saved, CrcSteps
<1> QED
  BY <1>2, <1>3, InitIInv DEF SIInv

LEMMA StepSIInv ==
    ASSUME OneConnPerUser, SIInv, [Next]_vars
    PROVE  SIInv'
<1>1. IInv'
  BY TypeStep, BufferStep, ContiguousStep, FrameStep, InLineStep DEF SIInv, IInv
<1> QED
  BY <1>1, RowStep, OwnPathStep, FreshStep, WrittenStep, UniqueStep, WholeStep DEF SIInv

THEOREM SingleWriterInvariance ==
    ASSUME OneConnPerUser
    PROVE  Spec => []SIInv
<1>1. SIInv /\ [Next]_vars => SIInv'
  BY StepSIInv
<1> QED
  BY InitSIInv, <1>1, PTL DEF Spec

(***************************************************************************)
(* Each stored version of a file has a version number, and so a path, of   *)
(* its own: get_next_version_number and add_file are two transactions, but *)
(* with one writer per user nothing comes between them.                    *)
(***************************************************************************)
THEOREM VersionsAreUnique ==
    ASSUME OneConnPerUser
    PROVE  Spec => []UniqueVersions
<1>1. SIInv => UniqueVersions
  BY DEF SIInv
<1> QED
  BY SingleWriterInvariance, <1>1, PTL

(***************************************************************************)
(* A version on record is never a torn or an empty file, whatever write    *)
(* fails and whenever the server dies: the row is added after the close.   *)
(***************************************************************************)
THEOREM BackupsAreWhole ==
    ASSUME OneConnPerUser
    PROVE  Spec => []NoTornBackup
<1>1. SIInv => NoTornBackup
  BY DEF SIInv
<1> QED
  BY SingleWriterInvariance, <1>1, PTL

(***************************************************************************)
(* When UPLOAD_RECEIVED is sent, the version is on record and its file has *)
(* the data whose checksum the response carries.                           *)
(***************************************************************************)
THEOREM ReportIsTrue ==
    ASSUME OneConnPerUser
    PROVE  Spec => []ReportedIsStored
<1>1. SIInv => ReportedIsStored
  BY DEF SIInv, Written, Saved, ReportedIsStored
<1> QED
  BY SingleWriterInvariance, <1>1, PTL

(***************************************************************************)
(* No step changes the content of a version on record.                     *)
(***************************************************************************)
THEOREM BackupsAreKept ==
    ASSUME OneConnPerUser
    PROVE  Spec => NoOverwrite
<1>1. SIInv /\ [Next]_vars => [RecordedUnchanged]_vars
  BY RecordedKept DEF SIInv
<1> QED
  BY SingleWriterInvariance, <1>1, PTL DEF Spec, NoOverwrite
=============================================================================
