--------------------------- MODULE DatabaseProofs ---------------------------
(***************************************************************************)
(* What the calls of Database do to the rows, the versions and the paths   *)
(* on record.                                                              *)
(***************************************************************************)
EXTENDS Database, TLAPS

(***************************************************************************)
(* add_file leaves a table of rows.                                        *)
(***************************************************************************)
LEMMA AddedRowType ==
    ASSUME NEW fs \in Seq(Row), NEW u \in Users, NEW n \in Names,
           NEW p \in Paths, NEW v \in Versions
    PROVE  WithFile(fs, u, n, p, v) \in Seq(Row)
<1> DEFINE r == [user_id |-> u, file_name |-> n, path_name |-> p,
                 version |-> v, verified |-> FALSE]
<1>1. r \in Row
  BY DEF Row
<1>2. WithFile(fs, u, n, p, v) = Append(fs, r)
  BY DEF WithFile
<1> HIDE DEF r
<1> QED
  BY <1>1, <1>2

(***************************************************************************)
(* add_file adds its version to those of its file, and to no other's.      *)
(***************************************************************************)
LEMMA AddedVersion ==
    ASSUME NEW fs \in Seq(Row), NEW u \in Users, NEW n \in Names,
           NEW p \in Paths, NEW v \in Versions,
           NEW u2 \in Users, NEW n2 \in Names
    PROVE  VersionsOf(WithFile(fs, u, n, p, v), u2, n2) =
             VersionsOf(fs, u2, n2) \cup (IF u2 = u /\ n2 = n THEN {v} ELSE {})
<1> DEFINE gs == WithFile(fs, u, n, p, v)
           k == Len(fs) + 1
           r == [user_id |-> u, file_name |-> n, path_name |-> p,
                 version |-> v, verified |-> FALSE]
<1>0. gs = Append(fs, r)
  BY DEF WithFile
<1>1. gs \in Seq(Row)
  BY AddedRowType
<1> HIDE DEF gs
<1>2. /\ DOMAIN gs = DOMAIN fs \cup {k}
      /\ \A i \in DOMAIN fs : gs[i] = fs[i]
      /\ gs[k].user_id = u /\ gs[k].file_name = n
      /\ gs[k].path_name = p /\ gs[k].version = v
      /\ k \notin DOMAIN fs
  <2>1. /\ r.user_id = u /\ r.file_name = n
        /\ r.path_name = p /\ r.version = v
    OBVIOUS
  <2> HIDE DEF r
  <2>2. /\ Len(gs) = Len(fs) + 1
        /\ \A i \in DOMAIN fs : gs[i] = fs[i]
        /\ gs[k] = r
    BY <1>0
  <2> QED
    BY <1>1, <2>1, <2>2
<1> HIDE DEF k, r
<1>3. ASSUME NEW w
      PROVE  w \in VersionsOf(gs, u2, n2) <=>
               w \in VersionsOf(fs, u2, n2) \/ (u2 = u /\ n2 = n /\ w = v)
  BY <1>2 DEF VersionsOf
<1>4. VersionsOf(gs, u2, n2) =
        VersionsOf(fs, u2, n2) \cup (IF u2 = u /\ n2 = n THEN {v} ELSE {})
  BY <1>3
<1> QED
  BY <1>4 DEF gs

LEMMA AddedPath ==
    ASSUME NEW fs \in Seq(Row), NEW u \in Users, NEW n \in Names,
           NEW p \in Paths, NEW v \in Versions
    PROVE  Recorded(WithFile(fs, u, n, p, v)) = Recorded(fs) \cup {p}
<1> DEFINE gs == WithFile(fs, u, n, p, v)
           k == Len(fs) + 1
           r == [user_id |-> u, file_name |-> n, path_name |-> p,
                 version |-> v, verified |-> FALSE]
<1>0. gs = Append(fs, r)
  BY DEF WithFile
<1>1. gs \in Seq(Row)
  BY AddedRowType
<1> HIDE DEF gs
<1>2. /\ DOMAIN gs = DOMAIN fs \cup {k}
      /\ \A i \in DOMAIN fs : gs[i] = fs[i]
      /\ gs[k].user_id = u /\ gs[k].file_name = n
      /\ gs[k].path_name = p /\ gs[k].version = v
      /\ k \notin DOMAIN fs
  <2>1. /\ r.user_id = u /\ r.file_name = n
        /\ r.path_name = p /\ r.version = v
    OBVIOUS
  <2> HIDE DEF r
  <2>2. /\ Len(gs) = Len(fs) + 1
        /\ \A i \in DOMAIN fs : gs[i] = fs[i]
        /\ gs[k] = r
    BY <1>0
  <2> QED
    BY <1>1, <2>1, <2>2
<1> HIDE DEF k, r
<1>3. Recorded(gs) = Recorded(fs) \cup {p}
  BY <1>2 DEF Recorded
<1> QED
  BY <1>3 DEF gs

(***************************************************************************)
(* add_file keeps the rows there are and puts the new one after them.      *)
(***************************************************************************)
LEMMA AddedRow ==
    ASSUME NEW fs \in Seq(Row), NEW u, NEW n, NEW p, NEW v,
           NEW gs, gs = WithFile(fs, u, n, p, v), NEW i \in DOMAIN gs
    PROVE  \/ i \in DOMAIN fs /\ gs[i] = fs[i]
           \/ /\ i = Len(fs) + 1
              /\ gs[i].user_id = u /\ gs[i].file_name = n
              /\ gs[i].path_name = p /\ gs[i].version = v
<1> DEFINE r == [user_id |-> u, file_name |-> n, path_name |-> p,
                 version |-> v, verified |-> FALSE]
<1>1. /\ r.user_id = u /\ r.file_name = n
      /\ r.path_name = p /\ r.version = v
  OBVIOUS
<1>2. gs = Append(fs, r)
  BY DEF WithFile
<1> HIDE DEF r
<1>3. i \in 1..(Len(fs) + 1) /\ Len(fs) \in Nat
  BY <1>2
<1>4. CASE i \in 1..Len(fs)
  BY <1>2, <1>4
<1>5. CASE i = Len(fs) + 1
  BY <1>1, <1>2, <1>5
<1> QED
  BY <1>3, <1>4, <1>5

(***************************************************************************)
(* update_file_verified_status changes the verified column alone.          *)
(***************************************************************************)
LEMMA VerifiedRows ==
    ASSUME NEW fs \in Seq(Row), NEW u, NEW p, NEW b \in BOOLEAN,
           NEW gs, gs = WithVerified(fs, u, p, b)
    PROVE  /\ gs \in Seq(Row)
           /\ Len(gs) = Len(fs)
           /\ DOMAIN gs = DOMAIN fs
           /\ \A i \in DOMAIN fs :
                 /\ gs[i].user_id = fs[i].user_id
                 /\ gs[i].file_name = fs[i].file_name
                 /\ gs[i].path_name = fs[i].path_name
                 /\ gs[i].version = fs[i].version
<1>1. DOMAIN gs = 1..Len(fs) /\ DOMAIN fs = 1..Len(fs) /\ Len(fs) \in Nat
  BY DEF WithVerified
<1>2. ASSUME NEW i \in 1..Len(fs)
      PROVE  /\ gs[i] \in Row
             /\ gs[i].user_id = fs[i].user_id
             /\ gs[i].file_name = fs[i].file_name
             /\ gs[i].path_name = fs[i].path_name
             /\ gs[i].version = fs[i].version
  <2>1. fs[i] \in Row
    OBVIOUS
  <2>2. gs[i] = IF fs[i].user_id = u /\ fs[i].path_name = p
                THEN [fs[i] EXCEPT !.verified = b] ELSE fs[i]
    BY <1>1 DEF WithVerified
  <2>3. [fs[i] EXCEPT !.verified = b] \in Row
    BY <2>1 DEF Row
  <2>4. LET r == [fs[i] EXCEPT !.verified = b]
        IN  /\ r.user_id = fs[i].user_id
            /\ r.file_name = fs[i].file_name
            /\ r.path_name = fs[i].path_name
            /\ r.version = fs[i].version
    BY <2>1 DEF Row
  <2> QED
    BY <2>1, <2>2, <2>3, <2>4
<1>3. gs = [i \in 1..Len(fs) |-> gs[i]]
  BY <1>1 DEF WithVerified
<1>4. gs \in [1..Len(fs) -> Row]
  BY <1>2, <1>3
<1>5. gs \in Seq(Row) /\ Len(gs) = Len(fs)
  BY <1>1, <1>4
<1> QED
  BY <1>1, <1>2, <1>5

LEMMA VerifiedVersions ==
    ASSUME NEW fs \in Seq(Row), NEW u, NEW p, NEW b \in BOOLEAN,
           NEW u2, NEW n2
    PROVE  /\ VersionsOf(WithVerified(fs, u, p, b), u2, n2) = VersionsOf(fs, u2, n2)
           /\ Recorded(WithVerified(fs, u, p, b)) = Recorded(fs)
<1> DEFINE gs == WithVerified(fs, u, p, b)
<1>1. /\ DOMAIN gs = DOMAIN fs
      /\ \A i \in DOMAIN fs :
            /\ gs[i].user_id = fs[i].user_id
            /\ gs[i].file_name = fs[i].file_name
            /\ gs[i].path_name = fs[i].path_name
            /\ gs[i].version = fs[i].version
  BY VerifiedRows
<1> HIDE DEF gs
<1>2. VersionsOf(gs, u2, n2) = VersionsOf(fs, u2, n2)
  BY <1>1 DEF VersionsOf
<1>3. Recorded(gs) = Recorded(fs)
  BY <1>1 DEF Recorded
<1> QED
  BY <1>2, <1>3 DEF gs

(***************************************************************************)
(* get_next_version_number: with versions 1..m on record the next is m+1.  *)
(***************************************************************************)
LEMMA NextAfter ==
    ASSUME NEW fs, NEW u, NEW n, NEW m \in Nat, VersionsOf(fs, u, n) = 1..m
    PROVE  NextVersion(fs, u, n) = m + 1
<1>1. CASE m = 0
  BY <1>1 DEF NextVersion
<1>2. CASE m # 0
  <2> DEFINE L == LatestVersion(fs, u, n)
  <2>1. m \in 1..m /\ \A w \in 1..m : w <= m
    BY <1>2
  <2>2. L \in 1..m /\ \A w \in 1..m : w <= L
    BY <2>1 DEF LatestVersion
  <2>3. L = m
    BY <2>1, <2>2
  <2> QED
    BY <1>2, <2>1, <2>3 DEF NextVersion
<1> QED
  BY <1>1, <1>2
=============================================================================
