--------------------------- MODULE VersionedStore ---------------------------
(***************************************************************************)
(* What the backup service promises, without threads, packets, keys, rows  *)
(* or files: every file of every user is a sequence of whole versions.  An *)
(* upload appends one in a single step; the client then confirms the       *)
(* latest one or has it removed; no earlier version is ever touched.       *)
(***************************************************************************)
EXTENDS Naturals, Sequences

CONSTANTS Users, Names,
          Data,     \* contents a version may have
          NoData    \* content of a removed version

VARIABLE store   \* store[u, n]: the versions of the file n of the user u

Version == [content : Data, state : {"pending", "verified"}]
             \cup [content : {NoData}, state : {"removed"}]

TypeOK == store \in [Users \X Names -> Seq(Version)]

Init == store = [k \in Users \X Names |-> <<>>]

\* The versions of k become vs, and nothing else changes.
Becomes(k, vs) == store' = [store EXCEPT ![k] = vs]

Upload(k, d) ==
    Becomes(k, Append(store[k], [content |-> d, state |-> "pending"]))

\* The latest version of k becomes v, unless it was removed.
SettleLatest(k, v) ==
    LET n == Len(store[k])
    IN  /\ n # 0
        /\ store[k][n].state # "removed"
        /\ Becomes(k, [store[k] EXCEPT ![n] = v])

Confirm(k) ==
    SettleLatest(k, [store[k][Len(store[k])] EXCEPT !.state = "verified"])

Remove(k) == SettleLatest(k, [content |-> NoData, state |-> "removed"])

Next ==
    \E k \in Users \X Names :
        /\ store'[k] # store[k]
        /\ \/ \E d \in Data : Upload(k, d)
           \/ Confirm(k)
           \/ Remove(k)

Spec == Init /\ [][Next]_store
=============================================================================
