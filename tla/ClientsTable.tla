---------------------------- MODULE ClientsTable ----------------------------
(***************************************************************************)
(* The `clients` table of storage/database.py, as the value each call      *)
(* reads or writes.  As in Database, a call is one statement in a          *)
(* transaction of its own.  user_id is the primary key and nothing deletes *)
(* a row, so the table is a function from the ids in it; nothing makes the *)
(* user name unique.                                                       *)
(***************************************************************************)
EXTENDS Naturals

CONSTANTS Ids,          \* ids generate_uuid may return
          Usernames,    \* names that _validate_username accepts
          PublicKeys,   \* RSA public keys that can be imported
          Null          \* the value of a column that was never set

(***************************************************************************)
(* A stored time is a number, and so is a stored session key: keys are     *)
(* numbered in the order they are generated, from 1.                       *)
(***************************************************************************)
ASSUME NullAssumption == Null \notin Nat \cup PublicKeys \cup Ids

ClientRow == [username : Usernames, public_key : PublicKeys \cup {Null},
              last_seen : Nat \cup {Null}, aes_key : Nat \cup {Null}]

\* username_exists
UsernameExists(cs, name) == \E id \in DOMAIN cs : cs[id].username = name

(***************************************************************************)
(* get_user_id: the id of the first row with the name.  SQLite leaves open *)
(* which row that is, so the result is a set of possible answers; it is    *)
(* empty when the call raises ValueError.                                  *)
(***************************************************************************)
IdsOf(cs, name) == {id \in DOMAIN cs : cs[id].username = name}

\* add_client: INSERT OR IGNORE
WithClient(cs, id, name) ==
    IF id \in DOMAIN cs THEN cs
    ELSE [i \in DOMAIN cs \cup {id} |->
            IF i = id
            THEN [username |-> name, public_key |-> Null, last_seen |-> Null, aes_key |-> Null]
            ELSE cs[i]]

\* The row an update with the id and the name finds; without one it raises.
HasRow(cs, id, name) == id \in DOMAIN cs /\ cs[id].username = name

\* update_public_key
WithPublicKey(cs, id, name, pk) ==
    [i \in DOMAIN cs |->
        IF i = id /\ cs[i].username = name THEN [cs[i] EXCEPT !.public_key = pk] ELSE cs[i]]

\* update_aes_key
WithSessionKey(cs, id, name, key) ==
    [i \in DOMAIN cs |->
        IF i = id /\ cs[i].username = name THEN [cs[i] EXCEPT !.aes_key = key] ELSE cs[i]]

\* update_last_seen: no row is no error.
WithLastSeen(cs, id, time) ==
    [i \in DOMAIN cs |->
        IF i = id THEN [cs[i] EXCEPT !.last_seen = time] ELSE cs[i]]
=============================================================================
