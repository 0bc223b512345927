------------------------------ MODULE Database ------------------------------
(***************************************************************************)
(* The `files` table of storage/database.py.                               *)
(*                                                                         *)
(* Every function of that module opens its own SQLite connection, runs one *)
(* statement and commits, so a call is one atomic read or one atomic write *)
(* of the table.  This module gives the value each call reads or writes;   *)
(* the modules that own the variable `files` decide when a call happens.   *)
(* The table has no UNIQUE constraint and nothing ever deletes a row, so   *)
(* it is a sequence of rows in insertion order.                            *)
(***************************************************************************)
EXTENDS Naturals, Sequences

CONSTANTS Users,   \* user ids
          Names,   \* sanitized, non-empty file names
          Like     \* the pairs <<m, n>> for which SQLite's  n LIKE 'm%'  holds

(***************************************************************************)
(* A name matches itself: a literal character matches itself, and the      *)
(* wildcards `_` and `%` inside a name match themselves too.               *)
(***************************************************************************)
ASSUME LikeAssumption ==
    /\ Like \subseteq Names \X Names
    /\ \A n \in Names : <<n, n>> \in Like

Versions == Nat \ {0}

(***************************************************************************)
(* The path  <user_id>/<stem>_v<version><suffix>.  Only which triple it    *)
(* was built from matters here.                                            *)
(***************************************************************************)
VersionedPath(u, n, v) == <<u, n, v>>

Paths == Users \X Names \X Versions

Row == [user_id : Users, file_name : Names, path_name : Paths,
        version : Versions, verified : BOOLEAN]

(***************************************************************************)
(* add_file                                                                *)
(***************************************************************************)
WithFile(fs, u, n, p, v) ==
    Append(fs, [user_id |-> u, file_name |-> n, path_name |-> p,
                version |-> v, verified |-> FALSE])

(***************************************************************************)
(* get_next_version_number: SELECT MAX(version) over the exact name.       *)
(***************************************************************************)
VersionsOf(fs, u, n) ==
    {fs[i].version : i \in {j \in DOMAIN fs : fs[j].user_id = u /\ fs[j].file_name = n}}

LatestVersion(fs, u, n) ==
    CHOOSE v \in VersionsOf(fs, u, n) : \A w \in VersionsOf(fs, u, n) : w <= v

\* Mutant: the first version is 0.
NextVersionFromZero(fs, u, n) ==
    IF VersionsOf(fs, u, n) = {} THEN 0 ELSE LatestVersion(fs, u, n) + 1

\* Mutant: a version is skipped.
NextVersionSkipping(fs, u, n) ==
    IF VersionsOf(fs, u, n) = {} THEN 1 ELSE LatestVersion(fs, u, n) + 2

\* Mutant: rows that are not verified do not count.
NextVersionOfVerified(fs, u, n) ==
    LET vs == {fs[i].version : i \in {j \in DOMAIN fs :
                  fs[j].user_id = u /\ fs[j].file_name = n /\ fs[j].verified}}
    IN  IF vs = {} THEN 1 ELSE 1 + CHOOSE v \in vs : \A w \in vs : w <= v

\* Mutant: the latest version is handed out again.
NextVersionReused(fs, u, n) ==
    IF VersionsOf(fs, u, n) = {} THEN 1 ELSE LatestVersion(fs, u, n)

NextVersion(fs, u, n) ==
    IF VersionsOf(fs, u, n) = {} THEN 1 ELSE LatestVersion(fs, u, n) + 1

(***************************************************************************)
(* get_file_path: the rows of the user whose name is LIKE '<name>%',       *)
(* ordered by version, the highest first, one taken.  SQLite leaves the    *)
(* order of rows with equal versions open, so the result is a set of       *)
(* possible answers; it is empty when the call raises ValueError.          *)
(***************************************************************************)
Candidates(fs, u, n) ==
    {i \in DOMAIN fs : fs[i].user_id = u /\ <<n, fs[i].file_name>> \in Like}

\* Mutant: ORDER BY version without DESC.
OldestPaths(fs, u, n) ==
    {fs[i].path_name : i \in {j \in Candidates(fs, u, n) :
        \A k \in Candidates(fs, u, n) : fs[k].version >= fs[j].version}}

LatestPaths(fs, u, n) ==
    {fs[i].path_name : i \in {j \in Candidates(fs, u, n) :
        \A k \in Candidates(fs, u, n) : fs[k].version <= fs[j].version}}

\* Mutant: the WHERE clause has lost the path.
WithVerifiedOfUser(fs, u, p, b) ==
    [i \in DOMAIN fs |->
        IF fs[i].user_id = u THEN [fs[i] EXCEPT !.verified = b] ELSE fs[i]]

(***************************************************************************)
(* update_file_verified_status: every row with the user and the path.      *)
(***************************************************************************)
WithVerified(fs, u, p, b) ==
    [i \in DOMAIN fs |->
        IF fs[i].user_id = u /\ fs[i].path_name = p
        THEN [fs[i] EXCEPT !.verified = b]
        ELSE fs[i]]

Recorded(fs) == {fs[i].path_name : i \in DOMAIN fs}
=============================================================================
