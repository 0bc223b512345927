---------------------------- MODULE BackupStore ----------------------------
(***************************************************************************)
(* BackupService seen as a VersionedStore.  Version v of a file is the     *)
(* file on disk at its v-th path, as soon as it is on record: add_file is  *)
(* the step at which an upload takes effect, unlink the one at which a     *)
(* rejected version is gone, whatever its row still says.                  *)
(***************************************************************************)
EXTENDS BackupService

Height(fs, u, n) == Cardinality(VersionsOf(fs, u, n))

MarkedVerified(fs, p) == \E i \in DOMAIN fs : fs[i].path_name = p /\ fs[i].verified

VersionAt(fs, dk, p) ==
    IF p \notin DOMAIN dk THEN [content |-> NoData, state |-> "removed"]
    ELSE [content |-> dk[p],
          state |-> IF MarkedVerified(fs, p) THEN "verified" ELSE "pending"]

VersionsAt(fs, dk, u, n) ==
    [v \in 1..Height(fs, u, n) |-> VersionAt(fs, dk, VersionedPath(u, n, v))]

View(fs, dk) == [k \in Users \X Names |-> VersionsAt(fs, dk, k[1], k[2])]

StoreView == View(files, disk)

Store == INSTANCE VersionedStore WITH Data <- Plain, store <- StoreView

(***************************************************************************)
(* The service is a versioned store: to whoever looks at the recorded      *)
(* versions, an upload of many packets and many accesses appends one whole *)
(* version in one step, a CRC message settles the latest version of the    *)
(* file it names and no other one, and nothing else, fault and crash       *)
(* included, changes a version.                                            *)
(***************************************************************************)
IsVersionedStore == Store!Spec
=============================================================================
