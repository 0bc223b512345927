------------------------- MODULE BackupStoreProofs -------------------------
(***************************************************************************)
(* With one connection per user and no file name that is a prefix of       *)
(* another one, a CRC message acts on the latest version of the file it    *)
(* names, and the service implements VersionedStore: for any number of     *)
(* users, files, packets and threads, and under every fault.  With any use *)
(* of the server, a verified version loses its file in two ways only.      *)
(***************************************************************************)
EXTENDS BackupSingleWriterProofs, BackupStore, FiniteSetTheorems

-----------------------------------------------------------------------------
(* The latest version.                                                     *)

LEMMA RowName ==
    ASSUME NEW fs \in Seq(Row), NEW i \in DOMAIN fs
    PROVE  fs[i].file_name \in Names
<1>1. fs[i] \in Row
  OBVIOUS
<1> QED
  BY <1>1 DEF Row

(***************************************************************************)
(* With versions 1..m on record the latest is m.                           *)
(***************************************************************************)
LEMMA LatestIsLast ==
    ASSUME NEW fs, NEW u, NEW n, NEW m \in Nat, m # 0, VersionsOf(fs, u, n) = 1..m
    PROVE  LatestVersion(fs, u, n) = m
<1>1. m \in 1..m /\ \A w \in 1..m : w <= m
  OBVIOUS
<1>2. LET L == LatestVersion(fs, u, n)
      IN  L \in 1..m /\ \A w \in 1..m : w <= L
  BY <1>1 DEF LatestVersion
<1> QED
  BY <1>1, <1>2

(***************************************************************************)
(* With no prefixes among the names, get_file_path finds the latest        *)
(* version of the very file it was asked for.                              *)
(***************************************************************************)
LEMMA FoundIsLatest ==
    ASSUME PrefixFree, IInv, RowOK, NEW u \in Users, NEW n \in Names,
           NEW p \in LatestPaths(files, u, n)
    PROVE  /\ VersionsOf(files, u, n) # {}
           /\ p = VersionedPath(u, n, LatestVersion(files, u, n))
<1>0. files \in Seq(Row)
  BY DEF IInv, TypeOK
<1>1. ASSUME NEW i \in DOMAIN files
      PROVE  i \in Candidates(files, u, n) <=> files[i].user_id = u /\ files[i].file_name = n
  <2>1. files[i].file_name \in Names
    BY <1>0, RowName
  <2>2. <<n, files[i].file_name>> \in Like <=> n = files[i].file_name
    BY <2>1, LikeAssumption, Zenon DEF PrefixFree
  <2> QED
    BY <2>2 DEF Candidates
<1>2. PICK j \in DOMAIN files :
        /\ p = files[j].path_name
        /\ j \in Candidates(files, u, n)
        /\ \A k \in Candidates(files, u, n) : files[k].version <= files[j].version
  BY DEF LatestPaths, Candidates
<1>3. files[j].user_id = u /\ files[j].file_name = n
  BY <1>1, <1>2
<1>4. files[j].version \in VersionsOf(files, u, n)
  BY <1>3 DEF VersionsOf
<1>5. \A w \in VersionsOf(files, u, n) : w <= files[j].version
  BY <1>1, <1>2 DEF VersionsOf, Candidates
<1>6. PICK m \in 0..Len(files) : VersionsOf(files, u, n) = 1..m
  BY DEF IInv, VersionsContiguous
<1>7. files[j].version = m /\ m \in Nat /\ m # 0
  <2>1. m \in Nat
    BY <1>0, <1>6
  <2>2. files[j].version \in 1..m
    BY <1>4, <1>6, Zenon
  <2>3. m \in 1..m
    BY <2>1, <2>2
  <2>4. m <= files[j].version
    BY <1>5, <1>6, <2>3, Zenon
  <2> QED
    BY <2>1, <2>2, <2>4
<1>8. LatestVersion(files, u, n) = m
  BY <1>6, <1>7, LatestIsLast
<1>9. p = <<u, n, m>>
  BY <1>2, <1>3, <1>7 DEF RowOK
<1> QED
  BY <1>4, <1>8, <1>9 DEF VersionedPath

\* The handler acts on a version it has looked up.
Targets(t) == pc[t] \in CrcSteps \ {"lookup"}

LEMMA TargetsStep ==
    ASSUME IInv, [Next]_vars, NEW c \in Conns, Targets(c)'
    PROVE  /\ req'[c] = req[c] /\ req[c].user \in Users /\ req[c].user \in Serves[c]
           /\ \/ Lookup(c) /\ UNCHANGED files /\ req[c].name \in Names
                           /\ path'[c] \in LatestPaths(files, req[c].user, req[c].name)
              \/ Targets(c) /\ path'[c] = path[c]
<1>a. DOMAIN pc = Conns /\ DOMAIN path = Conns
  BY DEF IInv, TypeOK
<1>b. pc'[c] \in {"exists", "mark", "unlink", "unmark"}
  BY DEF Targets, CrcSteps
<1>1. CASE Lookup(c)
  <2>1. UNCHANGED files /\ path'[c] \in LatestPaths(files, req[c].user, req[c].name)
    BY <1>1, <1>a DEF Lookup, shared
  <2>2. pc[c] = "lookup" /\ req[c].name # NoName /\ req'[c] = req[c]
    BY <1>1 DEF Lookup
  <2>3. req[c] \in Requests /\ req[c].user \in Serves[c]
    BY <2>2 DEF IInv, FrameOK, Frame, Steps, CrcSteps
  <2> QED
    BY <1>1, <2>1, <2>2, <2>3 DEF Requests, ReqNames
<1>2. CASE Targets(c) /\ path'[c] = path[c] /\ req'[c] = req[c]
  <2>1. req[c] \in Requests /\ req[c].user \in Serves[c]
    BY <1>2 DEF IInv, FrameOK, Frame, Steps, Targets, CrcSteps
  <2> QED
    BY <1>2, <2>1 DEF Requests
<1>3. CASE /\ path'[c] = path[c] /\ req'[c] = req[c]
           /\ \/ pc'[c] = pc[c]
              \/ OpenFile(c) \/ WriteFile(c) \/ AddFile(c) \/ TouchLastSeen(c)
              \/ CheckExists(c) \/ MarkVerified(c) \/ Unlink(c)
  <2>1. CASE pc'[c] = pc[c]
    BY <1>2, <1>3, <1>b, <2>1 DEF Targets, CrcSteps
  <2>2. CASE CheckExists(c) \/ Unlink(c)
    BY <1>2, <1>3, <2>2 DEF CheckExists, Unlink, Targets, CrcSteps
  <2>3. CASE OpenFile(c) \/ WriteFile(c) \/ AddFile(c) \/ TouchLastSeen(c) \/ MarkVerified(c)
    BY <1>a, <1>b, <2>3 DEF OpenFile, WriteFile, AddFile, TouchLastSeen, MarkVerified,
                            Leave, Goto
  <2> QED
    BY <1>3, <2>1, <2>2, <2>3
<1>4. CASE PickVersion(c)
  BY <1>a, <1>b, <1>4 DEF PickVersion, Goto
<1> QED
  BY <1>b, <1>1, <1>3, <1>4, FrameSteps DEF IInv

(***************************************************************************)
(* While a handler acts on a version of a file, nobody adds another one:   *)
(* only a thread of the same user could.                                   *)
(***************************************************************************)
LEMMA TargetsLatestStep ==
    ASSUME OneConnPerUser, PrefixFree, IInv, RowOK, TargetsLatest, [Next]_vars
    PROVE  TargetsLatest'
<1> SUFFICES ASSUME NEW c \in Conns, Targets(c)'
             PROVE  /\ VersionsOf(files', req'[c].user, req'[c].name) # {}
                    /\ path'[c] = VersionedPath(req'[c].user, req'[c].name,
                                    LatestVersion(files', req'[c].user, req'[c].name))
  BY DEF TargetsLatest, Targets
<1> DEFINE u == req[c].user
           n == req[c].name
<1>1. req'[c] = req[c] /\ u \in Users /\ u \in Serves[c]
  BY TargetsStep
<1>2. CASE Lookup(c) /\ UNCHANGED files /\ n \in Names /\ path'[c] \in LatestPaths(files, u, n)
  BY <1>1, <1>2, FoundIsLatest
<1>3. CASE Targets(c) /\ path'[c] = path[c]
  <2>1. VersionsOf(files, u, n) # {} /\ path[c] = VersionedPath(u, n, LatestVersion(files, u, n))
    BY <1>3 DEF TargetsLatest, Targets
  <2>2. n \in Names
    <3>1. PICK i \in DOMAIN files : files[i].file_name = n
      BY <2>1 DEF VersionsOf
    <3>2. files \in Seq(Row)
      BY DEF IInv, TypeOK
    <3> QED
      BY <3>1, <3>2, RowName
  <2>3. VersionsOf(files', u, n) = VersionsOf(files, u, n)
    <3>1. ASSUME NEW t \in Conns, AddFile(t)
          PROVE  req[t].user # u
      <4>1. pc[t] = "add_file" /\ req[t].user \in Serves[t]
        BY <3>1 DEF AddFile, IInv, FrameOK, Frame, Steps, SavingSteps
      <4>2. t # c
        BY <1>3, <4>1 DEF Targets, CrcSteps
      <4> QED
        BY <1>1, <4>1, <4>2 DEF OneConnPerUser
    <3> HIDE DEF u, n
    <3>2. \A t \in Conns : AddFile(t) => req[t].user # u
      BY <3>1
    <3>3. \/ VersionsOf(files', u, n) = VersionsOf(files, u, n)
          \/ \E t \in Conns :
                /\ AddFile(t)
                /\ VersionsOf(files', u, n) = VersionsOf(files, u, n) \cup
                     (IF u = req[t].user /\ n = req[t].name THEN {path[t][3]} ELSE {})
      BY <1>1, <2>2, VersionsStep DEF IInv
    <3> QED
      BY <3>2, <3>3
  <2> QED
    BY <1>1, <1>3, <2>1, <2>3 DEF LatestVersion
<1> QED
  BY <1>2, <1>3, TargetsStep

\* A version that is being marked as rejected is no longer on disk.
Gone == \A t \in Conns : pc[t] = "unmark" => path[t] \notin DOMAIN disk

LEMMA GoneStep ==
    ASSUME OneConnPerUser, IInv, OwnPath, Gone, [Next]_vars
    PROVE  Gone'
<1> SUFFICES ASSUME NEW c \in Conns, pc'[c] = "unmark"
             PROVE  path'[c] \notin DOMAIN disk'
  BY DEF Gone
<1>a. DOMAIN pc = Conns
  BY DEF IInv, TypeOK
<1>1. CASE Unlink(c) /\ path'[c] = path[c]
  BY <1>1 DEF Unlink, Restrict
<1>2. CASE pc[c] = "unmark" /\ path'[c] = path[c]
  <2>1. path[c] \notin DOMAIN disk
    BY <1>2 DEF Gone
  <2>2. ASSUME NEW t \in Conns, path[t] = path[c], OpenFile(t) \/ WriteFile(t) \/ WriteFails(t)
        PROVE  FALSE
    <3>1. pc[t] \in {"open", "write"}
      BY <2>2 DEF OpenFile, WriteFile, WriteFails
    <3>2. Holds(t) /\ Holds(c)
      BY <1>2, <3>1 DEF Holds, CrcSteps
    <3> QED
      BY <1>2, <2>2, <3>1, <3>2, Apart
  <2> QED
    BY <1>2, <2>1, <2>2, ContentKept
<1>3. CASE OpenFile(c) \/ WriteFile(c) \/ AddFile(c) \/ TouchLastSeen(c)
           \/ CheckExists(c) \/ MarkVerified(c) \/ Lookup(c) \/ PickVersion(c)
  BY <1>a, <1>3 DEF OpenFile, WriteFile, AddFile, TouchLastSeen, CheckExists, AfterExists,
                    MarkVerified, Lookup, PickVersion, Raise, Leave, Goto
<1> QED
  BY <1>1, <1>2, <1>3, FrameSteps DEF IInv

-----------------------------------------------------------------------------
(* The inductive invariant.                                                *)

LInv == SIInv /\ TargetsLatest /\ Gone

LEMMA InitLInv == Init => LInv
<1>1. Init => \A t \in Conns : pc[t] = "closed"
  BY DEF Init
<1>2. Init => TargetsLatest /\ Gone
  BY <1>1 DEF TargetsLatest, Gone, CrcSteps
<1> QED
  BY <1>2, InitSIInv DEF LInv

THEOREM LatestInvariance ==
    ASSUME OneConnPerUser, PrefixFree
    PROVE  Spec => []LInv
<1>1. LInv /\ [Next]_vars => LInv'
  BY StepSIInv, TargetsLatestStep, GoneStep DEF LInv, SIInv
<1> QED
  BY InitLInv, <1>1, PTL DEF Spec

(***************************************************************************)
(* A CRC message acts on the latest version of the file it names, however  *)
(* its handler is preempted between get_file_path and the accesses that    *)
(* use what it returned.                                                   *)
(***************************************************************************)
THEOREM TargetsAreLatest ==
    ASSUME OneConnPerUser, PrefixFree
    PROVE  Spec => []TargetsLatest
<1>1. LInv => TargetsLatest
  BY DEF LInv
<1> QED
  BY LatestInvariance, <1>1, PTL

-----------------------------------------------------------------------------
(* The versions of a file.                                                 *)

LEMMA HeightIs ==
    ASSUME NEW fs, NEW u, NEW n, NEW m \in Nat, VersionsOf(fs, u, n) = 1..m
    PROVE  Height(fs, u, n) = m
<1>1. Cardinality(1..m) = IF 1 > m THEN 0 ELSE m - 1 + 1
  BY FS_Interval
<1> QED
  BY <1>1 DEF Height

\* The number of versions of a file.
LEMMA Contiguous ==
    ASSUME VersionsContiguous, NEW u \in Users, NEW n \in Names
    PROVE  /\ Height(files, u, n) \in Nat
           /\ VersionsOf(files, u, n) = 1..Height(files, u, n)
<1>1. PICK m \in 0..Len(files) : VersionsOf(files, u, n) = 1..m
  BY DEF VersionsContiguous
<1> QED
  BY <1>1, HeightIs

(***************************************************************************)
(* The version of a path depends on the file there and on its rows only.   *)
(***************************************************************************)
LEMMA VersionRecorded ==
    ASSUME IInv, RowOK, NEW u \in Users, NEW n \in Names, NEW v \in 1..Height(files, u, n)
    PROVE  <<u, n, v>> \in Recorded(files)
<1>1. v \in VersionsOf(files, u, n)
  BY Contiguous DEF IInv
<1>2. PICK i \in DOMAIN files :
          files[i].user_id = u /\ files[i].file_name = n /\ files[i].version = v
  BY <1>1 DEF VersionsOf
<1>3. files[i].path_name = <<u, n, v>>
  BY <1>2 DEF RowOK
<1> QED
  BY <1>3 DEF Recorded

(***************************************************************************)
(* A handler of a CRC message acts on a version that is on record, under   *)
(* the user of its request.                                                *)
(***************************************************************************)
LEMMA TargetRecorded ==
    ASSUME LInv, NEW t \in Conns, Targets(t)
    PROVE  LET u == req[t].user
               n == req[t].name
               m == Height(files, u, n)
           IN  /\ u \in Users /\ n \in Names
               /\ m \in Nat \ {0} /\ path[t] = <<u, n, m>>
               /\ \E i \in DOMAIN files : files[i].path_name = path[t] /\ files[i].user_id = u
<1> DEFINE u == req[t].user
           n == req[t].name
           m == Height(files, u, n)
<1>1. VersionsOf(files, u, n) # {} /\ path[t] = VersionedPath(u, n, LatestVersion(files, u, n))
  BY DEF LInv, TargetsLatest, Targets
<1>2. u \in Users
  BY DEF LInv, SIInv, IInv, FrameOK, Frame, Targets, Steps, CrcSteps, Requests
<1>3. n \in Names
  <2>1. PICK i \in DOMAIN files : files[i].file_name = n
    BY <1>1 DEF VersionsOf
  <2>2. files \in Seq(Row)
    BY DEF LInv, SIInv, IInv, TypeOK
  <2> QED
    BY <2>1, <2>2, RowName
<1>4. m \in Nat /\ VersionsOf(files, u, n) = 1..m
  BY <1>2, <1>3, Contiguous DEF LInv, SIInv, IInv
<1> HIDE DEF m
<1>5. m # 0
  BY <1>1, <1>4
<1>6. path[t] = <<u, n, m>>
  BY <1>1, <1>4, <1>5, LatestIsLast DEF VersionedPath
<1>7. m \in VersionsOf(files, u, n)
  BY <1>4, <1>5
<1>8. PICK i \in DOMAIN files :
          files[i].user_id = u /\ files[i].file_name = n /\ files[i].version = m
  BY <1>7 DEF VersionsOf
<1>9. files[i].path_name = <<u, n, m>>
  BY <1>8 DEF LInv, SIInv, RowOK
<1> QED
  BY <1>2, <1>3, <1>4, <1>5, <1>6, <1>8, <1>9 DEF m

-----------------------------------------------------------------------------
(* What a step does to the versions.                                       *)

\* A function on 1..m is a sequence of length m.
LEMMA LenOfRange ==
    ASSUME NEW f, NEW m \in Nat, DOMAIN f = 1..m, f = [i \in DOMAIN f |-> f[i]]
    PROVE  f \in Seq({f[i] : i \in 1..m}) /\ Len(f) = m
<1>1. f \in [1..m -> {f[i] : i \in 1..m}]
  OBVIOUS
<1> QED
  BY <1>1

(***************************************************************************)
(* The versions of a file stay as they are when none is added and each of  *)
(* them does.                                                              *)
(***************************************************************************)
LEMMA VersionsStay ==
    ASSUME NEW fs, NEW dk, NEW fs2, NEW dk2, NEW u, NEW n,
           VersionsOf(fs2, u, n) = VersionsOf(fs, u, n),
           \A v \in 1..Height(fs, u, n) :
               VersionAt(fs2, dk2, <<u, n, v>>) = VersionAt(fs, dk, <<u, n, v>>)
    PROVE  VersionsAt(fs2, dk2, u, n) = VersionsAt(fs, dk, u, n)
<1>1. Height(fs2, u, n) = Height(fs, u, n)
  BY DEF Height
<1> QED
  BY <1>1 DEF VersionsAt, VersionedPath

(***************************************************************************)
(* With every file's versions unchanged the view is unchanged; with those  *)
(* of one file changed, the view changes at that file.                     *)
(***************************************************************************)
LEMMA ViewStays ==
    ASSUME \A u \in Users, n \in Names :
               VersionsAt(files', disk', u, n) = VersionsAt(files, disk, u, n)
    PROVE  StoreView' = StoreView
  BY DEF StoreView, View

LEMMA ViewChangesAt ==
    ASSUME NEW u \in Users, NEW n \in Names,
           \A u2 \in Users, n2 \in Names :
               <<u2, n2>> # <<u, n>> =>
                   VersionsAt(files', disk', u2, n2) = VersionsAt(files, disk, u2, n2)
    PROVE  /\ StoreView' = [StoreView EXCEPT ![<<u, n>>] = VersionsAt(files', disk', u, n)]
           /\ StoreView[<<u, n>>] = VersionsAt(files, disk, u, n)
           /\ <<u, n>> \in Users \X Names
<1> DEFINE k == <<u, n>>
<1>1. ASSUME NEW k2 \in Users \X Names, k2 # k
      PROVE  VersionsAt(files', disk', k2[1], k2[2]) = VersionsAt(files, disk, k2[1], k2[2])
  <2>1. k2[1] \in Users /\ k2[2] \in Names /\ k2 = <<k2[1], k2[2]>>
    OBVIOUS
  <2> QED
    BY <1>1, <2>1
<1>2. k \in Users \X Names /\ k[1] = u /\ k[2] = n
  OBVIOUS
<1>3. StoreView' = [k2 \in Users \X Names |-> VersionsAt(files', disk', k2[1], k2[2])]
  BY DEF StoreView, View
<1>4. StoreView = [k2 \in Users \X Names |-> VersionsAt(files, disk, k2[1], k2[2])]
  BY DEF StoreView, View
<1> HIDE DEF k
<1> QED
  BY <1>1, <1>2, <1>3, <1>4 DEF k

(***************************************************************************)
(* The rows decide whether a path is verified: a new row is not, and an    *)
(* update is seen at its path only.                                        *)
(***************************************************************************)
LEMMA AddedMark ==
    ASSUME NEW fs \in Seq(Row), NEW u, NEW n, NEW p, NEW v, NEW q
    PROVE  MarkedVerified(WithFile(fs, u, n, p, v), q) <=> MarkedVerified(fs, q)
<1> DEFINE r == [user_id |-> u, file_name |-> n, path_name |-> p, version |-> v, verified |-> FALSE]
           gs == WithFile(fs, u, n, p, v)
<1>1. ~r.verified
  OBVIOUS
<1>2. gs = Append(fs, r)
  BY DEF WithFile
<1> HIDE DEF r, gs
<1>3. /\ DOMAIN gs = DOMAIN fs \cup {Len(fs) + 1}
      /\ \A i \in DOMAIN fs : gs[i] = fs[i]
      /\ gs[Len(fs) + 1] = r
  BY <1>2
<1>4. MarkedVerified(gs, q) <=> MarkedVerified(fs, q)
  BY <1>1, <1>3 DEF MarkedVerified
<1> QED
  BY <1>4 DEF gs

LEMMA UpdatedMark ==
    ASSUME NEW fs \in Seq(Row), NEW u, NEW p, NEW b \in BOOLEAN, NEW q
    PROVE  LET gs == WithVerified(fs, u, p, b)
           IN  /\ q # p => (MarkedVerified(gs, q) <=> MarkedVerified(fs, q))
               /\ b /\ (\E i \in DOMAIN fs : fs[i].path_name = p /\ fs[i].user_id = u)
                     => MarkedVerified(gs, p)
<1> DEFINE gs == WithVerified(fs, u, p, b)
<1>1. DOMAIN gs = DOMAIN fs
  BY DEF WithVerified
<1>2. ASSUME NEW i \in DOMAIN fs
      PROVE  /\ gs[i].path_name = fs[i].path_name
             /\ fs[i].path_name # p => gs[i] = fs[i]
             /\ fs[i].path_name = p /\ fs[i].user_id = u => gs[i].verified = b
  <2>1. fs[i] \in Row
    OBVIOUS
  <2>2. CASE fs[i].user_id = u /\ fs[i].path_name = p
    <3>1. gs[i] = [fs[i] EXCEPT !.verified = b]
      BY <2>2 DEF WithVerified
    <3> QED
      BY <2>1, <2>2, <3>1 DEF Row
  <2>3. CASE ~(fs[i].user_id = u /\ fs[i].path_name = p)
    BY <2>3 DEF WithVerified
  <2> QED
    BY <2>2, <2>3
<1> HIDE DEF gs
<1>3. q # p => (MarkedVerified(gs, q) <=> MarkedVerified(fs, q))
  BY <1>1, <1>2 DEF MarkedVerified
<1>4. b /\ (\E i \in DOMAIN fs : fs[i].path_name = p /\ fs[i].user_id = u) => MarkedVerified(gs, p)
  BY <1>1, <1>2 DEF MarkedVerified
<1> QED
  BY <1>3, <1>4 DEF gs

-----------------------------------------------------------------------------
(* Each step of the service is a step of the store, or leaves it alone.    *)

(***************************************************************************)
(* add_file is the upload: the version that the handler picked follows     *)
(* those on record, and its file holds the decrypted data.                 *)
(***************************************************************************)
LEMMA AddFileUploads ==
    ASSUME LInv, NEW t \in Conns, AddFile(t)
    PROVE  Store!Next
<1> DEFINE u == req[t].user
           n == req[t].name
           w == path[t][3]
           m == Height(files, u, n)
           d == data[t]
<1>0. files \in Seq(Row)
  BY DEF LInv, SIInv, IInv, TypeOK
<1>1. /\ u \in Users /\ n \in Names /\ path[t] = <<u, n, w>>
      /\ path[t] \in Paths /\ w \in Versions
  BY SavingPath DEF AddFile, LInv, SIInv, IInv
<1>2. files' = WithFile(files, u, n, path[t], w) /\ disk' = disk
  BY DEF AddFile
<1>3. path[t] \notin Recorded(files)
  BY DEF AddFile, LInv, SIInv, Fresh
<1>4. path[t] \in DOMAIN disk /\ disk[path[t]] = d /\ d \in Plain
  BY DEF AddFile, LInv, SIInv, IInv, FrameOK, Frame, Written, Saved, SavingSteps
<1>5. m \in Nat /\ VersionsOf(files, u, n) = 1..m
  BY <1>1, Contiguous DEF LInv, SIInv, IInv
<1>6. w = 1 \/ \E v \in VersionsOf(files, u, n) : w = v + 1
  BY DEF AddFile, LInv, SIInv, IInv, NextInLine
<1>7. w \notin 1..m
  BY <1>1, <1>3, VersionRecorded DEF LInv, SIInv
<1> HIDE DEF m, w, u, n, d
<1>8. w = m + 1
  BY <1>1, <1>5, <1>6, <1>7 DEF Versions
<1>9. VersionsOf(files', u, n) = 1..(m + 1)
  <2>1. VersionsOf(files', u, n) = VersionsOf(files, u, n) \cup (IF u = u /\ n = n THEN {w} ELSE {})
    BY <1>0, <1>1, <1>2, AddedVersion
  <2> QED
    BY <1>5, <1>8, <2>1
<1>10. Height(files', u, n) = m + 1
  BY <1>5, <1>9, HeightIs
<1>11. ASSUME NEW q, q \in Recorded(files) \/ q = path[t]
       PROVE  MarkedVerified(files', q) <=> MarkedVerified(files, q)
  BY <1>0, <1>2, AddedMark
<1>12. ~MarkedVerified(files', path[t])
  BY <1>3, <1>11 DEF MarkedVerified, Recorded
<1>13. ASSUME NEW u2 \in Users, NEW n2 \in Names, NEW v \in 1..Height(files, u2, n2)
       PROVE  VersionAt(files', disk', <<u2, n2, v>>) = VersionAt(files, disk, <<u2, n2, v>>)
  <2>1. <<u2, n2, v>> \in Recorded(files)
    BY VersionRecorded DEF LInv, SIInv
  <2> QED
    BY <1>2, <1>11, <2>1 DEF VersionAt
<1>14. ASSUME NEW u2 \in Users, NEW n2 \in Names, <<u2, n2>> # <<u, n>>
       PROVE  VersionsAt(files', disk', u2, n2) = VersionsAt(files, disk, u2, n2)
  <2>1. VersionsOf(files', u2, n2) =
          VersionsOf(files, u2, n2) \cup (IF u2 = u /\ n2 = n THEN {w} ELSE {})
    BY <1>0, <1>1, <1>2, AddedVersion
  <2>2. VersionsOf(files', u2, n2) = VersionsOf(files, u2, n2)
    BY <1>14, <2>1
  <2> QED
    BY <1>13, <2>2, VersionsStay
<1> DEFINE old == VersionsAt(files, disk, u, n)
           new == VersionsAt(files', disk', u, n)
           r == [content |-> d, state |-> "pending"]
<1>15. VersionAt(files', disk', <<u, n, m + 1>>) = r
  BY <1>1, <1>2, <1>4, <1>8, <1>12 DEF VersionAt
<1>16. new = [v \in 1..(m + 1) |-> IF v = m + 1 THEN r ELSE old[v]]
  <2>1. old = [v \in 1..m |-> VersionAt(files, disk, <<u, n, v>>)]
    BY DEF VersionsAt, VersionedPath, m
  <2>2. new = [v \in 1..(m + 1) |-> VersionAt(files', disk', <<u, n, v>>)]
    BY <1>10 DEF VersionsAt, VersionedPath
  <2>3. ASSUME NEW v \in 1..m
        PROVE  VersionAt(files', disk', <<u, n, v>>) = VersionAt(files, disk, <<u, n, v>>)
    BY <1>1, <1>13 DEF m
  <2>4. ASSUME NEW v \in 1..(m + 1), v # m + 1
        PROVE  v \in 1..m
    BY <1>5, <2>4
  <2> HIDE DEF old, new, r
  <2> QED
    BY <1>15, <2>1, <2>2, <2>3, <2>4
<1>17. DOMAIN old = 1..m /\ old = [v \in DOMAIN old |-> old[v]]
  BY DEF VersionsAt, m
<1> HIDE DEF old, new, r
<1>18. old \in Seq({old[v] : v \in 1..m}) /\ Len(old) = m
  BY <1>5, <1>17, LenOfRange
<1>19. new = Append(old, r)
  BY <1>5, <1>16, <1>18
<1>20. new # old
  BY <1>5, <1>18, <1>19
<1>21. /\ StoreView' = [StoreView EXCEPT ![<<u, n>>] = new]
       /\ StoreView[<<u, n>>] = old
       /\ <<u, n>> \in Users \X Names
  BY <1>1, <1>14, ViewChangesAt DEF old, new
<1>22. StoreView'[<<u, n>>] = new
  BY <1>21 DEF StoreView, View
<1>23. Store!Upload(<<u, n>>, d)
  BY <1>19, <1>21 DEF Store!Upload, Store!Becomes, r
<1> QED
  BY <1>4, <1>20, <1>21, <1>22, <1>23 DEF Store!Next

(***************************************************************************)
(* A step that adds no version and changes none but the latest one of one  *)
(* file settles it, or leaves the store alone.                             *)
(***************************************************************************)
LEMMA Settles ==
    ASSUME LInv, NEW u \in Users, NEW n \in Names, NEW m \in Nat \ {0},
           m = Height(files, u, n),
           \A u2, n2 : VersionsOf(files', u2, n2) = VersionsOf(files, u2, n2),
           \A q \in Recorded(files) : q # <<u, n, m>> =>
               VersionAt(files', disk', q) = VersionAt(files, disk, q)
    PROVE  LET a == VersionAt(files, disk, <<u, n, m>>)
               b == VersionAt(files', disk', <<u, n, m>>)
           IN  \/ a = b /\ StoreView' = StoreView
               \/ /\ a # b
                  /\ <<u, n>> \in Users \X Names
                  /\ StoreView'[<<u, n>>] # StoreView[<<u, n>>]
                  /\ Len(StoreView[<<u, n>>]) = m
                  /\ StoreView[<<u, n>>][m] = a
                  /\ a.state # "removed" =>
                        Store!SettleLatest(<<u, n>>, b)
<1> DEFINE a == VersionAt(files, disk, <<u, n, m>>)
           b == VersionAt(files', disk', <<u, n, m>>)
           old == VersionsAt(files, disk, u, n)
           new == VersionsAt(files', disk', u, n)
<1>1. ASSUME NEW u2 \in Users, NEW n2 \in Names, NEW v \in 1..Height(files, u2, n2),
             <<u2, n2, v>> # <<u, n, m>>
      PROVE  VersionAt(files', disk', <<u2, n2, v>>) = VersionAt(files, disk, <<u2, n2, v>>)
  BY <1>1, VersionRecorded DEF LInv, SIInv
<1>2. ASSUME NEW u2 \in Users, NEW n2 \in Names, a = b \/ <<u2, n2>> # <<u, n>>
      PROVE  VersionsAt(files', disk', u2, n2) = VersionsAt(files, disk, u2, n2)
  <2>1. ASSUME NEW v \in 1..Height(files, u2, n2)
        PROVE  VersionAt(files', disk', <<u2, n2, v>>) = VersionAt(files, disk, <<u2, n2, v>>)
    <3>1. CASE <<u2, n2, v>> = <<u, n, m>>
      BY <1>2, <3>1
    <3>2. CASE <<u2, n2, v>> # <<u, n, m>>
      BY <1>1, <3>2
    <3> QED
      BY <3>1, <3>2
  <2> QED
    BY <2>1, VersionsStay
<1>3. a = b => StoreView' = StoreView
  BY <1>2, ViewStays
<1>4. ASSUME a # b
      PROVE  /\ <<u, n>> \in Users \X Names
             /\ StoreView'[<<u, n>>] # StoreView[<<u, n>>]
             /\ Len(StoreView[<<u, n>>]) = m
             /\ StoreView[<<u, n>>][m] = a
             /\ a.state # "removed" => Store!SettleLatest(<<u, n>>, b)
  <2>1. /\ StoreView' = [StoreView EXCEPT ![<<u, n>>] = new]
        /\ StoreView[<<u, n>>] = old
        /\ <<u, n>> \in Users \X Names
    BY <1>2, ViewChangesAt
  <2>2. StoreView'[<<u, n>>] = new
    BY <2>1 DEF StoreView, View
  <2>3. old = [v \in 1..m |-> VersionAt(files, disk, <<u, n, v>>)]
    BY DEF VersionsAt, VersionedPath
  <2>4. new = [v \in 1..m |-> VersionAt(files', disk', <<u, n, v>>)]
    BY DEF VersionsAt, VersionedPath, Height
  <2>5. \A v \in 1..m : v # m =>
          VersionAt(files', disk', <<u, n, v>>) = VersionAt(files, disk, <<u, n, v>>)
    BY <1>1
  <2>6. old[m] = a /\ new[m] = b /\ DOMAIN old = 1..m
    BY <2>3, <2>4
  <2> HIDE DEF a, b, old, new
  <2>7. new = [old EXCEPT ![m] = b]
    BY <2>3, <2>4, <2>5, <2>6
  <2>8. Len(old) = m
    BY <2>3, <2>6, LenOfRange
  <2>9. new # old
    BY <1>4, <2>6
  <2>10. a.state # "removed" => Store!SettleLatest(<<u, n>>, b)
    BY <2>1, <2>6, <2>7, <2>8 DEF Store!SettleLatest, Store!Becomes
  <2> QED
    BY <2>1, <2>2, <2>6, <2>8, <2>9, <2>10
<1> QED
  BY <1>3, <1>4

LEMMA MarkConfirms ==
    ASSUME LInv, NEW t \in Conns, MarkVerified(t)
    PROVE  Store!Next \/ StoreView' = StoreView
<1> DEFINE u == req[t].user
           n == req[t].name
           m == Height(files, u, n)
           p == <<u, n, m>>
<1>0. files \in Seq(Row)
  BY DEF LInv, SIInv, IInv, TypeOK
<1>1. Targets(t)
  BY DEF MarkVerified, Targets, CrcSteps
<1>2. /\ u \in Users /\ n \in Names /\ m \in Nat \ {0} /\ path[t] = p
      /\ \E i \in DOMAIN files : files[i].path_name = p /\ files[i].user_id = u
  BY <1>1, TargetRecorded
<1>3. files' = WithVerified(files, u, p, TRUE) /\ disk' = disk
  BY <1>2 DEF MarkVerified
<1> HIDE DEF u, n, m, p
<1>4. ASSUME NEW u2, NEW n2
      PROVE  VersionsOf(files', u2, n2) = VersionsOf(files, u2, n2)
  <2>1. PICK b \in BOOLEAN : files' = WithVerified(files, u, p, b)
    BY <1>3
  <2> QED
    BY <1>0, <2>1, VerifiedVersions
<1>5. MarkedVerified(files', p)
  BY <1>0, <1>2, <1>3, UpdatedMark
<1>6. \A q : q # p => (MarkedVerified(files', q) <=> MarkedVerified(files, q))
  BY <1>0, <1>3, UpdatedMark
<1>7. \A q : q # p => VersionAt(files', disk', q) = VersionAt(files, disk, q)
  BY <1>3, <1>6 DEF VersionAt
<1> DEFINE a == VersionAt(files, disk, p)
           b == VersionAt(files', disk', p)
<1>8. \/ a = b /\ StoreView' = StoreView
      \/ /\ a # b
         /\ <<u, n>> \in Users \X Names
         /\ StoreView'[<<u, n>>] # StoreView[<<u, n>>]
         /\ Len(StoreView[<<u, n>>]) = m
         /\ StoreView[<<u, n>>][m] = a
         /\ a.state # "removed" => Store!SettleLatest(<<u, n>>, b)
  BY <1>2, <1>4, <1>7, Settles DEF p, m
<1>9. CASE p \notin DOMAIN disk
  BY <1>3, <1>8, <1>9 DEF VersionAt
<1>10. CASE p \in DOMAIN disk
  <2>1. a.state # "removed" /\ b = [a EXCEPT !.state = "verified"]
    BY <1>3, <1>5, <1>10 DEF VersionAt
  <2> HIDE DEF a, b
  <2>2. CASE a # b
    <3>1. Store!Confirm(<<u, n>>)
      BY <1>8, <2>1, <2>2 DEF Store!Confirm
    <3> QED
      BY <1>8, <2>2, <3>1 DEF Store!Next
  <2> QED
    BY <1>8, <2>2
<1> QED
  BY <1>9, <1>10

LEMMA UnlinkRemoves ==
    ASSUME LInv, NEW t \in Conns, Unlink(t), UNCHANGED files
    PROVE  Store!Next \/ StoreView' = StoreView
<1> DEFINE u == req[t].user
           n == req[t].name
           m == Height(files, u, n)
           p == <<u, n, m>>
<1>1. Targets(t)
  BY DEF Unlink, Targets, CrcSteps
<1>2. /\ u \in Users /\ n \in Names /\ m \in Nat \ {0} /\ path[t] = p
      /\ \E i \in DOMAIN files : files[i].path_name = p /\ files[i].user_id = u
  BY <1>1, TargetRecorded
<1>3. p \in DOMAIN disk /\ disk' = Restrict(disk, DOMAIN disk \ {p})
  BY <1>2 DEF Unlink
<1> HIDE DEF u, n, m, p
<1>4. /\ DOMAIN disk' = DOMAIN disk \ {p}
      /\ \A q \in DOMAIN disk' : disk'[q] = disk[q]
  BY <1>3 DEF Restrict
<1>5. \A u2, n2 : VersionsOf(files', u2, n2) = VersionsOf(files, u2, n2)
  OBVIOUS
<1>6. ASSUME NEW q, q # p
      PROVE  VersionAt(files', disk', q) = VersionAt(files, disk, q)
  BY <1>4, <1>6 DEF VersionAt
<1> DEFINE a == VersionAt(files, disk, p)
           b == VersionAt(files', disk', p)
<1>8. \/ a = b /\ StoreView' = StoreView
      \/ /\ a # b
         /\ <<u, n>> \in Users \X Names
         /\ StoreView'[<<u, n>>] # StoreView[<<u, n>>]
         /\ Len(StoreView[<<u, n>>]) = m
         /\ StoreView[<<u, n>>][m] = a
         /\ a.state # "removed" => Store!SettleLatest(<<u, n>>, b)
  BY <1>2, <1>5, <1>6, Settles DEF p, m
<1>9. a.state # "removed" /\ b = [content |-> NoData, state |-> "removed"]
  BY <1>3, <1>4 DEF VersionAt
<1> HIDE DEF a, b
<1>10. CASE a # b
  <2>1. Store!Remove(<<u, n>>)
    BY <1>8, <1>9, <1>10 DEF Store!Remove
  <2> QED
    BY <1>8, <1>10, <2>1 DEF Store!Next
<1> QED
  BY <1>8, <1>10

(***************************************************************************)
(* A version is marked as rejected when it is gone, and no other one is.   *)
(***************************************************************************)
LEMMA UnmarkIsSilent ==
    ASSUME LInv, NEW t \in Conns, MarkUnverified(t)
    PROVE  StoreView' = StoreView
<1>0. files \in Seq(Row)
  BY DEF LInv, SIInv, IInv, TypeOK
<1>1. path[t] \notin DOMAIN disk
  BY DEF MarkUnverified, LInv, Gone
<1>2. files' = WithVerified(files, req[t].user, path[t], FALSE) /\ disk' = disk
  BY DEF MarkUnverified
<1>3. ASSUME NEW u, NEW n
      PROVE  VersionsOf(files', u, n) = VersionsOf(files, u, n)
  <2>1. PICK b \in BOOLEAN : files' = WithVerified(files, req[t].user, path[t], b)
    BY <1>2
  <2> QED
    BY <1>0, <2>1, VerifiedVersions
<1>4. ASSUME NEW q, q # path[t]
      PROVE  MarkedVerified(files', q) <=> MarkedVerified(files, q)
  BY <1>0, <1>2, <1>4, UpdatedMark
<1>5. ASSUME NEW q
      PROVE  VersionAt(files', disk', q) = VersionAt(files, disk, q)
  BY <1>1, <1>2, <1>4 DEF VersionAt
<1>6. ASSUME NEW u \in Users, NEW n \in Names
      PROVE  VersionsAt(files', disk', u, n) = VersionsAt(files, disk, u, n)
  BY <1>3, <1>5, VersionsStay
<1> QED
  BY <1>6, ViewStays

(***************************************************************************)
(* A step that neither changes the table nor unlinks a file writes, if at  *)
(* all, to a path that is not on record.                                   *)
(***************************************************************************)
LEMMA OtherStepsAreSilent ==
    ASSUME LInv, [Next]_vars, UNCHANGED files, \A t \in Conns : ~Unlink(t)
    PROVE  StoreView' = StoreView
<1>1. ASSUME NEW q \in Recorded(files)
      PROVE  VersionAt(files', disk', q) = VersionAt(files, disk, q)
  <2>1. q \in DOMAIN disk => q \in DOMAIN disk'
    BY EntryKept DEF LInv, SIInv
  <2>2. ASSUME NEW t \in Conns, path[t] = q, OpenFile(t) \/ WriteFile(t) \/ WriteFails(t)
        PROVE  FALSE
    BY <2>2 DEF OpenFile, WriteFile, WriteFails, LInv, SIInv, Fresh
  <2>3. q \in DOMAIN disk' => q \in DOMAIN disk /\ disk'[q] = disk[q]
    BY <2>2, ContentKept DEF LInv, SIInv
  <2>4. MarkedVerified(files', q) <=> MarkedVerified(files, q)
    OBVIOUS
  <2> QED
    BY <2>1, <2>3, <2>4 DEF VersionAt
<1>2. ASSUME NEW u \in Users, NEW n \in Names
      PROVE  VersionsAt(files', disk', u, n) = VersionsAt(files, disk, u, n)
  <2>1. ASSUME NEW v \in 1..Height(files, u, n)
        PROVE  VersionAt(files', disk', <<u, n, v>>) = VersionAt(files, disk, <<u, n, v>>)
    BY <1>1, VersionRecorded DEF LInv, SIInv
  <2>2. VersionsOf(files', u, n) = VersionsOf(files, u, n)
    OBVIOUS
  <2> QED
    BY <2>1, <2>2, VersionsStay
<1> QED
  BY <1>2, ViewStays

LEMMA InitStore == Init => Store!Init
<1> SUFFICES ASSUME Init
             PROVE  StoreView = [k \in Users \X Names |-> <<>>]
  BY DEF Store!Init
<1>1. DOMAIN files = {}
  BY DEF Init
<1>2. ASSUME NEW u, NEW n
      PROVE  VersionsAt(files, disk, u, n) = <<>>
  <2>1. VersionsOf(files, u, n) = 1..0
    BY <1>1 DEF VersionsOf
  <2>2. Height(files, u, n) = 0
    BY <2>1, HeightIs
  <2> QED
    BY <2>2 DEF VersionsAt
<1> QED
  BY <1>2 DEF StoreView, View

LEMMA StoreStep ==
    ASSUME LInv, [Next]_vars
    PROVE  Store!Next \/ StoreView' = StoreView
<1>1. ASSUME NEW t \in Conns, AddFile(t) \/ MarkVerified(t) \/ MarkUnverified(t)
      PROVE  Store!Next \/ StoreView' = StoreView
  BY <1>1, AddFileUploads, MarkConfirms, UnmarkIsSilent
<1>2. CASE UNCHANGED files
  BY <1>2, UnlinkRemoves, OtherStepsAreSilent
<1> QED
  BY <1>1, <1>2, FilesStep DEF LInv, SIInv, IInv

(***************************************************************************)
(* The service implements the versioned store: an upload of many packets   *)
(* and many accesses takes effect in one step, as one whole version after  *)
(* those before it; a CRC message settles the latest version only; and no  *)
(* other step, failure or crash changes a version.                         *)
(***************************************************************************)
THEOREM ImplementsVersionedStore ==
    ASSUME OneConnPerUser, PrefixFree
    PROVE  Spec => IsVersionedStore
<1>1. LInv /\ [Next]_vars => [Store!Next]_StoreView
  BY StoreStep
<1> QED
  BY InitStore, LatestInvariance, <1>1, PTL DEF Spec, IsVersionedStore, Store!Spec

-----------------------------------------------------------------------------
(* How a verified version loses its file.                                  *)

(***************************************************************************)
(* A handler that has unlinked a version marks it as rejected next, or is  *)
(* cut short.                                                              *)
(***************************************************************************)
LEMMA UnmarkStep ==
    ASSUME IInv, [Next]_vars, NEW c \in Conns, pc[c] = "unmark"
    PROVE  \/ MarkUnverified(c)
           \/ pc'[c] = "unmark" /\ path'[c] = path[c]
           \/ pc'[c] \in {"fail", "closed"}
<1>a. DOMAIN pc = Conns
  BY DEF IInv, TypeOK
<1>1. ASSUME NEW t \in Conns \ {c}, Receive(t) \/ Handle(t)
      PROVE  pc'[c] = pc[c] /\ path'[c] = path[c]
  BY <1>1, ReceiveIsLocal, HandleIsLocal DEF OthersStay, IInv
<1>2. ~Receive(c)
  <2>1. ~ReceiveChunk(c)
    BY DEF ReceiveChunk, AddChunk
  <2> QED
    BY <2>1 DEF Receive, Connect, Disconnect, RejectTooLarge, RejectChunk,
                ReceiveCrc, FirstSendFails
<1>3. Handle(c) => MarkUnverified(c) \/ pc'[c] = "fail"
  <2>1. ~Persist(c)
    BY DEF Persist, Decrypt, DecryptFails, PickVersion, OpenFile, WriteFile, WriteFails,
           AddFile, TouchLastSeen, SendUploadReceived
  <2>2. HandleCrc(c) => MarkUnverified(c)
    BY DEF HandleCrc, Lookup, LookupFails, CheckExists, MarkVerified, Unlink, UnlinkFails
  <2>3. HandlerError(c) => pc'[c] = "fail"
    BY <1>a DEF HandlerError, DatabaseError, DiskError, SendError, Raise, Leave, Goto
  <2>4. ~Answer(c)
    BY DEF Answer, SendFailure, LoseConnection
  <2> QED
    BY <2>1, <2>2, <2>3, <2>4 DEF Handle
<1>4. Crash => pc'[c] = "closed"
  BY DEF Crash
<1>5. CASE (\E u \in Users : Rekey(u)) \/ UNCHANGED vars
  BY <1>5 DEF Rekey, vars, locals
<1> QED
  BY <1>1, <1>2, <1>3, <1>4, <1>5 DEF Next

(***************************************************************************)
(* A row that is marked after a step was there before.  Either it was      *)
(* marked, and the step clears no mark of its path, for all rows of a path *)
(* are of the user whose handler holds it; or the step marks its path.     *)
(***************************************************************************)
LEMMA RowMarked ==
    ASSUME IInv, RowOK, OwnPath, [Next]_vars, NEW i \in DOMAIN files', files'[i].verified
    PROVE  /\ i \in DOMAIN files /\ files'[i].path_name = files[i].path_name
           /\ \/ /\ files[i].verified
                 /\ \A t \in Conns : MarkUnverified(t) => path[t] # files[i].path_name
              \/ \E t \in Conns : MarkVerified(t) /\ path[t] = files[i].path_name
<1>0. files \in Seq(Row)
  BY DEF IInv, TypeOK
<1>1. ASSUME NEW t \in Conns, AddFile(t)
      PROVE  i \in DOMAIN files /\ files'[i] = files[i] /\ UNCHANGED path
  <2>1. files' = WithFile(files, req[t].user, req[t].name, path[t], path[t][3])
        /\ UNCHANGED path
    BY <1>1 DEF AddFile, locals
  <2>2. files'[Len(files) + 1].verified = FALSE
    BY <1>0, <2>1 DEF WithFile
  <2> QED
    BY <1>0, <2>1, <2>2, AddedRow
<1>2. ASSUME NEW t \in Conns, MarkVerified(t) \/ MarkUnverified(t)
      PROVE  /\ i \in DOMAIN files /\ files'[i].path_name = files[i].path_name
             /\ path[t] # files[i].path_name => files'[i] = files[i]
  <2>1. PICK b \in BOOLEAN : files' = WithVerified(files, req[t].user, path[t], b)
    BY <1>2 DEF MarkVerified, MarkUnverified
  <2> QED
    BY <1>0, <2>1, VerifiedRows DEF WithVerified
<1>3. ASSUME NEW t \in Conns, MarkUnverified(t), path[t] = files[i].path_name
      PROVE  FALSE
  <2>1. path[t][1] = req[t].user
    BY <1>3 DEF OwnPath, Holds, CrcSteps, MarkUnverified
  <2>2. i \in DOMAIN files /\ files' = WithVerified(files, req[t].user, path[t], FALSE)
    BY <1>2, <1>3 DEF MarkUnverified
  <2>3. files[i].user_id = req[t].user /\ files[i] \in Row
    BY <1>0, <1>3, <2>1, <2>2 DEF RowOK
  <2>4. files'[i] = [files[i] EXCEPT !.verified = FALSE]
    BY <1>3, <2>2, <2>3 DEF WithVerified
  <2> QED
    BY <2>3, <2>4 DEF Row
<1>4. CASE \E t \in Conns : AddFile(t)
  <2>1. PICK t \in Conns : AddFile(t)
    BY <1>4
  <2> QED
    BY <1>1, <1>3, <2>1
<1>5. CASE \E t \in Conns : MarkVerified(t) \/ MarkUnverified(t)
  <2>1. PICK t \in Conns : MarkVerified(t) \/ MarkUnverified(t)
    BY <1>5
  <2>2. path[t] = files[i].path_name => MarkVerified(t)
    BY <1>3, <2>1
  <2> QED
    BY <1>2, <1>3, <2>1, <2>2
<1>6. CASE UNCHANGED files
  BY <1>3, <1>6
<1> QED
  BY <1>4, <1>5, <1>6, FilesStep DEF IInv

LEMMA OrphanStep ==
    ASSUME IInv, RowOK, OwnPath, [Next]_vars
    PROVE  OrphanExplained
<1> SUFFICES ASSUME NEW i \in Orphans' \ Orphans
             PROVE  \E t \in Conns : CutShort(t, files[i].path_name)
                                     \/ MarksLate(t, files[i].path_name)
  BY DEF OrphanExplained
<1> DEFINE p == files[i].path_name
<1>1. /\ i \in DOMAIN files' /\ files'[i].verified
      /\ files'[i].path_name \notin DOMAIN disk'
      /\ \A t \in Conns : pc'[t] = "unmark" => path'[t] # files'[i].path_name
  BY DEF Orphans
<1>2. i \in DOMAIN files /\ files'[i].path_name = p
  BY <1>1, RowMarked
<1>3. ASSUME NEW t \in Conns, MarkVerified(t), path[t] = p
      PROVE  MarksLate(t, p)
  BY <1>1, <1>2, <1>3 DEF MarkVerified, MarksLate
<1>4. CASE files[i].verified /\ \A t \in Conns : MarkUnverified(t) => path[t] # p
  <2>1. p \in DOMAIN disk \/ \E t \in Conns : pc[t] = "unmark" /\ path[t] = p
    BY <1>2, <1>4 DEF Orphans
  <2>2. p \notin DOMAIN disk
    <3>1. ASSUME NEW t \in Conns, path[t] = p, Unlink(t)
          PROVE  pc'[t] = "unmark" /\ path'[t] = p
      BY <3>1 DEF Unlink, Goto, IInv, TypeOK
    <3> QED
      BY <1>1, <1>2, <3>1, EntryKept
  <2>3. PICK t \in Conns : pc[t] = "unmark" /\ path[t] = p
    BY <2>1, <2>2
  <2>4. pc'[t] \in {"fail", "closed"}
    BY <1>1, <1>2, <1>4, <2>3, UnmarkStep
  <2> QED
    BY <2>3, <2>4 DEF CutShort
<1> QED
  BY <1>1, <1>2, <1>3, <1>4, RowMarked

(***************************************************************************)
(* A verified version loses its file for good only to a handler that is    *)
(* cut short between the unlink and the update, or to a confirmation that  *)
(* comes after another connection's rejection: for any connections, users  *)
(* and names, any number of threads of one user, and under every fault.    *)
(***************************************************************************)
THEOREM OrphansAreExplained == Spec => OrphansExplained
<1> DEFINE I == IInv /\ RowOK /\ OwnPath
<1>1. Init => I
  BY InitSIInv DEF SIInv
<1>2. I /\ [Next]_vars => I'
  BY TypeStep, BufferStep, ContiguousStep, FrameStep, InLineStep, RowStep, OwnPathStep
     DEF IInv
<1>3. I /\ [Next]_vars => [OrphanExplained]_vars
  BY OrphanStep
<1> QED
  BY <1>1, <1>2, <1>3, PTL DEF Spec, OrphansExplained
=============================================================================
