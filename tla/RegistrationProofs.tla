------------------------- MODULE RegistrationProofs -------------------------
(***************************************************************************)
(* What holds of registration for any number of clients, connections and   *)
(* keys, under every fault and whatever connections carry a name: what a   *)
(* client was told stays true, the key that is sent is the one on record   *)
(* unless the exchange was overtaken, and a rightful client is refused for *)
(* three reasons only.  With one connection per user name: a name belongs  *)
(* to one client.                                                          *)
(***************************************************************************)
EXTENDS Registration, TLAPS

-----------------------------------------------------------------------------
(* The operators of the table.                                             *)

(***************************************************************************)
(* Each update changes one column of at most one row.                      *)
(***************************************************************************)
LEMMA LastSeenRows ==
    ASSUME NEW cs, cs \in [DOMAIN cs -> ClientRow], NEW id, NEW time \in Nat,
           NEW ds, ds = WithLastSeen(cs, id, time)
    PROVE  /\ DOMAIN ds = DOMAIN cs
           /\ ds \in [DOMAIN ds -> ClientRow]
           /\ \A i \in DOMAIN cs :
                 /\ ds[i].username = cs[i].username
                 /\ ds[i].public_key = cs[i].public_key
                 /\ ds[i].aes_key = cs[i].aes_key
                 /\ ds[i].last_seen = IF i = id THEN time ELSE cs[i].last_seen
<1>1. DOMAIN ds = DOMAIN cs
  BY DEF WithLastSeen
<1>2. ASSUME NEW i \in DOMAIN cs
      PROVE  /\ ds[i] \in ClientRow
             /\ ds[i].username = cs[i].username
             /\ ds[i].public_key = cs[i].public_key
             /\ ds[i].aes_key = cs[i].aes_key
             /\ ds[i].last_seen = IF i = id THEN time ELSE cs[i].last_seen
  <2>1. cs[i] \in ClientRow
    OBVIOUS
  <2>2. CASE i = id
    <3>1. ds[i] = [cs[i] EXCEPT !.last_seen = time]
      BY <2>2 DEF WithLastSeen
    <3> QED
      BY <2>1, <2>2, <3>1 DEF ClientRow
  <2>3. CASE i # id
    BY <2>1, <2>3 DEF WithLastSeen
  <2> QED
    BY <2>2, <2>3
<1>3. ds = [i \in DOMAIN ds |-> ds[i]]
  BY DEF WithLastSeen
<1> QED
  BY <1>1, <1>2, <1>3

LEMMA PublicKeyRows ==
    ASSUME NEW cs, cs \in [DOMAIN cs -> ClientRow], NEW id, NEW name, NEW pk \in PublicKeys,
           NEW ds, ds = WithPublicKey(cs, id, name, pk)
    PROVE  /\ DOMAIN ds = DOMAIN cs
           /\ ds \in [DOMAIN ds -> ClientRow]
           /\ \A i \in DOMAIN cs :
                 /\ ds[i].username = cs[i].username
                 /\ ds[i].last_seen = cs[i].last_seen
                 /\ ds[i].aes_key = cs[i].aes_key
                 /\ ds[i].public_key =
                      IF i = id /\ cs[i].username = name THEN pk ELSE cs[i].public_key
<1>1. DOMAIN ds = DOMAIN cs
  BY DEF WithPublicKey
<1>2. ASSUME NEW i \in DOMAIN cs
      PROVE  /\ ds[i] \in ClientRow
             /\ ds[i].username = cs[i].username
             /\ ds[i].last_seen = cs[i].last_seen
             /\ ds[i].aes_key = cs[i].aes_key
             /\ ds[i].public_key =
                  IF i = id /\ cs[i].username = name THEN pk ELSE cs[i].public_key
  <2>1. cs[i] \in ClientRow
    OBVIOUS
  <2>2. CASE i = id /\ cs[i].username = name
    <3>1. ds[i] = [cs[i] EXCEPT !.public_key = pk]
      BY <2>2 DEF WithPublicKey
    <3> QED
      BY <2>1, <2>2, <3>1 DEF ClientRow
  <2>3. CASE ~(i = id /\ cs[i].username = name)
    <3>1. ds[i] = cs[i]
      BY <2>3 DEF WithPublicKey
    <3> QED
      BY <2>1, <2>3, <3>1
  <2> QED
    BY <2>2, <2>3
<1>3. ds = [i \in DOMAIN ds |-> ds[i]]
  BY DEF WithPublicKey
<1> QED
  BY <1>1, <1>2, <1>3

LEMMA SessionKeyRows ==
    ASSUME NEW cs, cs \in [DOMAIN cs -> ClientRow], NEW id, NEW name, NEW key \in Nat,
           NEW ds, ds = WithSessionKey(cs, id, name, key)
    PROVE  /\ DOMAIN ds = DOMAIN cs
           /\ ds \in [DOMAIN ds -> ClientRow]
           /\ \A i \in DOMAIN cs :
                 /\ ds[i].username = cs[i].username
                 /\ ds[i].last_seen = cs[i].last_seen
                 /\ ds[i].public_key = cs[i].public_key
                 /\ ds[i].aes_key =
                      IF i = id /\ cs[i].username = name THEN key ELSE cs[i].aes_key
<1>1. DOMAIN ds = DOMAIN cs
  BY DEF WithSessionKey
<1>2. ASSUME NEW i \in DOMAIN cs
      PROVE  /\ ds[i] \in ClientRow
             /\ ds[i].username = cs[i].username
             /\ ds[i].last_seen = cs[i].last_seen
             /\ ds[i].public_key = cs[i].public_key
             /\ ds[i].aes_key =
                  IF i = id /\ cs[i].username = name THEN key ELSE cs[i].aes_key
  <2>1. cs[i] \in ClientRow
    OBVIOUS
  <2>2. CASE i = id /\ cs[i].username = name
    <3>1. ds[i] = [cs[i] EXCEPT !.aes_key = key]
      BY <2>2 DEF WithSessionKey
    <3> QED
      BY <2>1, <2>2, <3>1 DEF ClientRow
  <2>3. CASE ~(i = id /\ cs[i].username = name)
    <3>1. ds[i] = cs[i]
      BY <2>3 DEF WithSessionKey
    <3> QED
      BY <2>1, <2>3, <3>1
  <2> QED
    BY <2>2, <2>3
<1>3. ds = [i \in DOMAIN ds |-> ds[i]]
  BY DEF WithSessionKey
<1> QED
  BY <1>1, <1>2, <1>3

\* A stored time is less than a second old.
LEMMA StoredTimeIsClose ==
    ASSUME NEW time \in Nat
    PROVE  StoredTime(time) \in Nat /\ StoredTime(time) + Second > time
BY RegistrationAssumption DEF StoredTime

-----------------------------------------------------------------------------
(* The inductive invariant.                                                *)

LoadedSteps == {"expiry", "load_key", "stamp", "store_public", "store_session", "send_key"}
KeyedSteps == {"stamp", "store_public", "store_session", "send_key"}
StampedSteps == {"mkdir", "welcome", "store_public", "store_session", "send_key"}

\* The client of a row has been seen in the second of the time, or later.
SeenSince(id, time) == clients[id].last_seen # Null /\ clients[id].last_seen + Second > time

(***************************************************************************)
(* What the frame of a handler holds at each of its steps, and what the    *)
(* tables then hold of its client.                                         *)
(***************************************************************************)
Frame(t) ==
    LET r == req[t]
    IN  /\ pc[t] \in Steps \ {"fail"} => r \in Requests /\ r.since <= now
        /\ pc[t] \in NewClientSteps => r.code = "REGISTRATION" /\ r.username \in Serves[t]
        /\ pc[t] \in KeySteps => r.code # "REGISTRATION" /\ r.username \in Serves[t]
        /\ pc[t] = "refuse" =>
              r.user_id = Null \/ (r.code # "REGISTRATION" /\ r.username \in Serves[t])
        /\ pc[t] = "check_user" =>
              /\ r.user_id \in SentIds
              /\ r.code = "PUBLIC_KEY_SEND" => r.public_key # Null
        /\ pc[t] \in {"stamp_new", "mkdir", "welcome"} \cup LoadedSteps =>
              HasRow(clients, r.user_id, r.username)
        /\ pc[t] \in LoadedSteps => r.user_id \in DOMAIN served
        /\ pc[t] \in {"expiry", "load_key"} => r.code = "RE_REGISTRATION"
        /\ pc[t] = "store_public" => r.code = "PUBLIC_KEY_SEND"
        /\ pc[t] \in StampedSteps => SeenSince(r.user_id, r.since)
        /\ pc[t] = "welcome" => r.user_id \in dirs
        /\ pc[t] \in KeyedSteps => r.public_key \in PublicKeys /\ r.aes_key \in Nat
        /\ (pc[t] = "stamp" /\ r.code = "RE_REGISTRATION") \/ pc[t] \in {"store_session", "send_key"}
              => clients[r.user_id].public_key # Null
        /\ pc[t] = "send_key" => clients[r.user_id].aes_key # Null

FrameOK == \A t \in Conns : Frame(t)

\* No answered request arrived in the future.
TimesOK == \A id \in DOMAIN served : served[id].since <= now

RInv ==
    /\ TypeOK
    /\ FrameOK
    /\ TimesOK
    /\ ServedIsRecorded

-----------------------------------------------------------------------------
(* What a step does to the tables, and to the frames of the other threads. *)

\* Nothing is forgotten.
Grows ==
    /\ DOMAIN clients \subseteq DOMAIN clients'
    /\ \A id \in DOMAIN clients :
          /\ clients'[id].username = clients[id].username
          /\ clients[id].public_key # Null => clients'[id].public_key # Null
          /\ clients[id].aes_key # Null => clients'[id].aes_key # Null
          /\ \A time \in Nat : time <= now /\ SeenSince(id, time) => SeenSince(id, time)'
    /\ dirs \subseteq dirs'
    /\ DOMAIN served \subseteq DOMAIN served'
    /\ now <= now'

LEMMA ClientsStep ==
    ASSUME [Next]_vars
    PROVE  \/ UNCHANGED clients
           \/ \E t \in Conns : \/ InsertClient(t) \/ StampNew(t) \/ Stamp(t) \/ BackupActivity(t)
                              \/ StorePublicKey(t) \/ StoreSessionKey(t)
<1>1. ASSUME NEW t \in Conns, Request(t), ~BackupActivity(t)
      PROVE  UNCHANGED clients
  BY <1>1 DEF Request, Connect, Disconnect, ReceiveRegistration, ReceivePublicKey,
              ReceiveReRegistration, Receive, tables
<1>2. ASSUME NEW t \in Conns, Register(t), ~InsertClient(t), ~StampNew(t)
      PROVE  UNCHANGED clients
  BY <1>2 DEF Register, CheckName, MakeDirectory, SendWelcome, SendRefusal, tables
<1>3. ASSUME NEW t \in Conns, ExchangeKey(t), ~Stamp(t), ~StorePublicKey(t), ~StoreSessionKey(t)
      PROVE  UNCHANGED clients
  BY <1>3 DEF ExchangeKey, CheckUser, CheckUserFails, CheckExpiry, LoadKey, LoadKeyFails,
              Provision, SendKey, tables
<1>4. ASSUME NEW t \in Conns, HandlerError(t) \/ SendFailure(t) \/ LoseConnection(t)
      PROVE  UNCHANGED clients
  BY <1>4 DEF HandlerError, DatabaseError, DiskError, SendError, SendFailure, LoseConnection,
              tables
<1>5. Crash \/ Tick \/ UNCHANGED vars => UNCHANGED clients
  BY DEF Crash, Tick, tables, vars
<1> QED
  BY <1>1, <1>2, <1>3, <1>4, <1>5 DEF Next, Handle

LEMMA ServedStep ==
    ASSUME [Next]_vars
    PROVE  \/ UNCHANGED served
           \/ \E t \in Conns : /\ SendWelcome(t) \/ SendKey(t)
                              /\ UNCHANGED <<clients, dirs, now>>
<1>1. ASSUME NEW t \in Conns, Request(t)
      PROVE  UNCHANGED served
  BY <1>1 DEF Request, Connect, Disconnect, ReceiveRegistration, ReceivePublicKey,
              ReceiveReRegistration, Receive, BackupActivity
<1>2. ASSUME NEW t \in Conns, Register(t), ~SendWelcome(t)
      PROVE  UNCHANGED served
  BY <1>2 DEF Register, CheckName, MakeDirectory, InsertClient, StampNew, SendRefusal
<1>3. ASSUME NEW t \in Conns, ExchangeKey(t), ~SendKey(t)
      PROVE  UNCHANGED served
  BY <1>3 DEF ExchangeKey, CheckUser, CheckUserFails, CheckExpiry, LoadKey, LoadKeyFails,
              Provision, Stamp, StorePublicKey, StoreSessionKey
<1>4. ASSUME NEW t \in Conns, HandlerError(t) \/ SendFailure(t) \/ LoseConnection(t)
      PROVE  UNCHANGED served
  BY <1>4 DEF HandlerError, DatabaseError, DiskError, SendError, SendFailure, LoseConnection
<1>5. Crash \/ Tick \/ UNCHANGED vars => UNCHANGED served
  BY DEF Crash, Tick, vars
<1>6. ASSUME NEW t \in Conns, SendWelcome(t) \/ SendKey(t)
      PROVE  UNCHANGED <<clients, dirs, now>>
  BY <1>6 DEF SendWelcome, SendKey, tables
<1>7. ASSUME NEW t \in Conns, Request(t) \/ Handle(t), served' # served
      PROVE  SendWelcome(t) \/ SendKey(t)
  BY <1>1, <1>2, <1>3, <1>4, <1>7 DEF Handle
<1>8. CASE UNCHANGED served
  BY <1>8
<1>9. CASE served' # served
  <2>1. PICK t \in Conns : Request(t) \/ Handle(t)
    BY <1>5, <1>9 DEF Next
  <2>2. SendWelcome(t) \/ SendKey(t)
    BY <1>7, <1>9, <2>1
  <2> QED
    BY <1>6, <2>2
<1> QED
  BY <1>8, <1>9

\* A thread is marked as overtaken among the threads; only a step of its own clears the mark.
LEMMA RacedStep ==
    ASSUME TypeOK, [Next]_vars
    PROVE  /\ raced' \subseteq Conns
           /\ \A s \in raced \ raced' : pc'[s] = "closed" \/ pc'[s] # pc[s]
<1> DEFINE Kept == /\ raced' \subseteq Conns
                   /\ \A s \in raced \ raced' : pc'[s] = "closed" \/ pc'[s] # pc[s]
<1>1. UNCHANGED raced => Kept
  BY DEF TypeOK
<1>2. ASSUME NEW t \in Conns, NEW s, raced' \subseteq Conns, raced \ raced' \subseteq {t},
             Goto(t, s), s # pc[t]
      PROVE  Kept
  BY <1>2 DEF TypeOK, Goto
<1>3. ASSUME NEW t \in Conns, Request(t)
      PROVE  Kept
  <2>1. ASSUME NEW code, NEW id, NEW name, NEW pk, NEW s, s # "idle",
               Receive(t, code, id, name, pk, s)
        PROVE  Kept
    <3>1. Goto(t, s) /\ pc[t] = "idle" /\ raced' = raced \ {t}
      BY <2>1 DEF Receive
    <3> QED
      BY <1>2, <2>1, <3>1 DEF TypeOK
  <2>2. Connect(t) \/ Disconnect(t) \/ BackupActivity(t) => UNCHANGED raced
    BY DEF Connect, Disconnect, BackupActivity
  <2> HIDE DEF Kept
  <2> QED
    BY <1>1, <1>3, <2>1, <2>2
       DEF Request, ReceiveRegistration, ReceivePublicKey, ReceiveReRegistration
<1>4. ASSUME NEW t \in Conns, Register(t)
      PROVE  UNCHANGED raced
  BY <1>4 DEF Register, CheckName, InsertClient, StampNew, MakeDirectory, SendWelcome,
              SendRefusal
<1>5. ASSUME NEW t \in Conns, ExchangeKey(t)
      PROVE  Kept
  <2>1. ASSUME NEW pk, Provision(t, pk)
        PROVE  Goto(t, "fail") \/ Goto(t, "stamp")
    BY <2>1 DEF Provision, Raise, Leave
  <2>2. CASE LoadKey(t)
    <3>1. /\ pc[t] = "load_key" /\ raced' = raced \ {t}
          /\ Goto(t, "fail") \/ Goto(t, "stamp")
      BY <2>1, <2>2 DEF LoadKey
    <3> QED
      BY <1>2, <3>1 DEF TypeOK
  <2>3. CASE StorePublicKey(t)
    <3>1. CASE UNCHANGED raced
      BY <1>1, <3>1
    <3>2. CASE ~UNCHANGED raced
      <4>1. /\ pc[t] = "store_public" /\ raced' = (raced \cup Rivals(t)) \ {t}
            /\ Goto(t, "store_session")
        BY <2>3, <3>2 DEF StorePublicKey
      <4> QED
        BY <1>2, <4>1 DEF TypeOK, Rivals
    <3> QED
      BY <3>1, <3>2
  <2>4. CASE StoreSessionKey(t)
    <3>1. raced' = raced \/ raced' = raced \cup {s \in Rivals(t) : pc[s] = "send_key"}
      BY <2>4 DEF StoreSessionKey
    <3> QED
      BY <3>1 DEF TypeOK, Rivals
  <2>5. CheckUser(t) \/ CheckUserFails(t) \/ CheckExpiry(t) \/ LoadKeyFails(t) \/ Stamp(t)
          \/ SendKey(t) => UNCHANGED raced
    BY DEF CheckUser, CheckUserFails, CheckExpiry, LoadKeyFails, Stamp, SendKey
  <2> HIDE DEF Kept
  <2> QED
    BY <1>1, <1>5, <2>2, <2>3, <2>4, <2>5 DEF ExchangeKey
<1>6. ASSUME NEW t \in Conns, HandlerError(t) \/ SendFailure(t) \/ LoseConnection(t)
      PROVE  UNCHANGED raced
  BY <1>6 DEF HandlerError, DatabaseError, DiskError, SendError, SendFailure, LoseConnection
<1>7. Crash => Kept
  BY DEF Crash, TypeOK
<1>8. Tick \/ UNCHANGED vars => UNCHANGED raced
  BY DEF Tick, vars
<1> HIDE DEF Kept
<1>9. Kept
  BY <1>1, <1>3, <1>4, <1>5, <1>6, <1>7, <1>8 DEF Next, Handle
<1> QED
  BY <1>9 DEF Kept

LEMMA OtherFields ==
    ASSUME TypeOK, [Next]_vars
    PROVE  dirs \subseteq dirs' /\ now <= now' /\ now' \in Nat
<1>1. ASSUME NEW t \in Conns, Request(t)
      PROVE  UNCHANGED <<dirs, now>>
  BY <1>1 DEF Request, Connect, Disconnect, ReceiveRegistration, ReceivePublicKey,
              ReceiveReRegistration, Receive, BackupActivity, tables
<1>2. ASSUME NEW t \in Conns, Register(t)
      PROVE  dirs \subseteq dirs' /\ now' = now
  BY <1>2 DEF Register, CheckName, MakeDirectory, InsertClient, StampNew, SendWelcome,
              SendRefusal, tables
<1>3. ASSUME NEW t \in Conns, ExchangeKey(t)
      PROVE  UNCHANGED <<dirs, now>>
  <2>1. CheckUser(t) \/ CheckUserFails(t) \/ CheckExpiry(t) \/ LoadKey(t) \/ LoadKeyFails(t)
        => UNCHANGED <<dirs, now>>
    BY DEF CheckUser, CheckUserFails, CheckExpiry, LoadKey, LoadKeyFails, Provision, tables
  <2>2. Stamp(t) \/ StorePublicKey(t) \/ StoreSessionKey(t) \/ SendKey(t)
        => UNCHANGED <<dirs, now>>
    BY DEF Stamp, StorePublicKey, StoreSessionKey, SendKey, tables
  <2> QED
    BY <1>3, <2>1, <2>2 DEF ExchangeKey
<1>4. ASSUME NEW t \in Conns, HandlerError(t) \/ SendFailure(t) \/ LoseConnection(t)
      PROVE  UNCHANGED <<dirs, now>>
  BY <1>4 DEF HandlerError, DatabaseError, DiskError, SendError, SendFailure, LoseConnection,
              tables
<1>5. Crash \/ UNCHANGED vars => UNCHANGED <<dirs, now>>
  BY DEF Crash, tables, vars
<1>6. Tick => UNCHANGED dirs /\ now' = now + 1
  BY DEF Tick, tables
<1> QED
  BY <1>1, <1>2, <1>3, <1>4, <1>5, <1>6 DEF Next, Handle, TypeOK

\* A row keeps its name, and its other columns are set or stay.
RowKept(old, new) ==
    /\ new.username = old.username
    /\ old.public_key # Null => new.public_key # Null
    /\ old.aes_key # Null => new.aes_key # Null
    /\ new.last_seen = old.last_seen \/ new.last_seen = StoredTime(now)

LEMMA TableStep ==
    ASSUME RInv, [Next]_vars
    PROVE  /\ DOMAIN clients \subseteq DOMAIN clients'
           /\ DOMAIN clients' \subseteq Ids
           /\ clients' \in [DOMAIN clients' -> ClientRow]
           /\ \A id \in DOMAIN clients : RowKept(clients[id], clients'[id])
<1>1. /\ DOMAIN clients \subseteq Ids
      /\ clients \in [DOMAIN clients -> ClientRow]
      /\ now \in Nat
  BY DEF RInv, TypeOK
<1>2. CASE UNCHANGED clients
  BY <1>1, <1>2 DEF RowKept
<1>3. ASSUME NEW t \in Conns, InsertClient(t)
      PROVE  \E id \in Ids \ DOMAIN clients :
                /\ DOMAIN clients' = DOMAIN clients \cup {id}
                /\ clients' \in [DOMAIN clients' -> ClientRow]
                /\ \A i \in DOMAIN clients : RowKept(clients[i], clients'[i])
  <2>1. pc[t] = "insert"
    BY <1>3 DEF InsertClient
  <2>2. req[t].username \in Usernames
    BY <2>1, RegistrationAssumption DEF RInv, FrameOK, Frame, NewClientSteps
  <2>4. PICK id \in Ids \ DOMAIN clients, name \in Usernames :
            clients' = WithClient(clients, id, name)
    BY <1>3, <2>2 DEF InsertClient
  <2> DEFINE row == [username |-> name, public_key |-> Null, last_seen |-> Null,
                     aes_key |-> Null]
  <2>5. row \in ClientRow
    BY DEF ClientRow
  <2>6. clients' = [i \in DOMAIN clients \cup {id} |-> IF i = id THEN row ELSE clients[i]]
    BY <2>4 DEF WithClient
  <2> HIDE DEF row
  <2>7. DOMAIN clients' = DOMAIN clients \cup {id} /\ clients'[id] = row
    BY <2>6
  <2>8. \A i \in DOMAIN clients : clients'[i] = clients[i]
    BY <2>6
  <2>9. \A i \in DOMAIN clients : RowKept(clients[i], clients'[i])
    <3>1. \A a, b : a = b => RowKept(a, b)
      BY Zenon DEF RowKept
    <3> QED
      BY <2>8, <3>1, Zenon
  <2>10. clients' \in [DOMAIN clients' -> ClientRow]
    BY <1>1, <2>5, <2>6, <2>7
  <2> QED
    BY <2>7, <2>9, <2>10, Zenon
<1>4. ASSUME NEW id, clients' = WithLastSeen(clients, id, StoredTime(now))
      PROVE  /\ DOMAIN clients' = DOMAIN clients
             /\ clients' \in [DOMAIN clients' -> ClientRow]
             /\ \A i \in DOMAIN clients : RowKept(clients[i], clients'[i])
  BY <1>1, <1>4, LastSeenRows, StoredTimeIsClose DEF RowKept
<1>5. ASSUME NEW t \in Conns, StampNew(t) \/ Stamp(t) \/ BackupActivity(t)
      PROVE  \E id : clients' = WithLastSeen(clients, id, StoredTime(now))
  BY <1>5 DEF StampNew, Stamp, BackupActivity
<1>6. ASSUME NEW t \in Conns, StorePublicKey(t), clients' # clients
      PROVE  /\ DOMAIN clients' = DOMAIN clients
             /\ clients' \in [DOMAIN clients' -> ClientRow]
             /\ \A i \in DOMAIN clients : RowKept(clients[i], clients'[i])
  <2>1. pc[t] = "store_public"
    BY <1>6 DEF StorePublicKey
  <2>2. req[t].public_key \in PublicKeys
    BY <2>1 DEF RInv, FrameOK, Frame, KeyedSteps
  <2>3. clients' = WithPublicKey(clients, req[t].user_id, req[t].username, req[t].public_key)
    BY <1>6 DEF StorePublicKey
  <2> QED
    BY <1>1, <2>2, <2>3, PublicKeyRows, NullAssumption DEF RowKept
<1>7. ASSUME NEW t \in Conns, StoreSessionKey(t), clients' # clients
      PROVE  /\ DOMAIN clients' = DOMAIN clients
             /\ clients' \in [DOMAIN clients' -> ClientRow]
             /\ \A i \in DOMAIN clients : RowKept(clients[i], clients'[i])
  <2>1. pc[t] = "store_session"
    BY <1>7 DEF StoreSessionKey
  <2>2. req[t].aes_key \in Nat
    BY <2>1 DEF RInv, FrameOK, Frame, KeyedSteps
  <2>3. clients' = WithSessionKey(clients, req[t].user_id, req[t].username, req[t].aes_key)
    BY <1>7 DEF StoreSessionKey
  <2> QED
    BY <1>1, <2>2, <2>3, SessionKeyRows, NullAssumption DEF RowKept
<1>8. CASE clients' # clients
  <2>1. PICK t \in Conns : \/ InsertClient(t) \/ StampNew(t) \/ Stamp(t) \/ BackupActivity(t)
                           \/ StorePublicKey(t) \/ StoreSessionKey(t)
    BY <1>8, ClientsStep
  <2>2. CASE InsertClient(t)
    BY <1>1, <1>3, <2>2
  <2>3. CASE StampNew(t) \/ Stamp(t) \/ BackupActivity(t)
    BY <1>1, <1>4, <1>5, <2>3
  <2>4. CASE StorePublicKey(t)
    BY <1>1, <1>6, <1>8, <2>4
  <2>5. CASE StoreSessionKey(t)
    BY <1>1, <1>7, <1>8, <2>5
  <2> QED
    BY <2>1, <2>2, <2>3, <2>4, <2>5
<1> QED
  BY <1>2, <1>8

LEMMA TimesStep ==
    ASSUME RInv, [Next]_vars
    PROVE  TimesOK'
<1>1. now <= now' /\ now \in Nat /\ now' \in Nat
  BY OtherFields DEF RInv, TypeOK
<1>2. ASSUME NEW id \in DOMAIN served
      PROVE  served[id].since \in Nat /\ served[id].since <= now
  <2>1. served[id] \in Told
    BY DEF RInv, TypeOK
  <2> QED
    BY <2>1 DEF Told, RInv, TimesOK
<1>3. CASE UNCHANGED served
  BY <1>1, <1>2, <1>3 DEF TimesOK
<1>4. CASE served' # served
  <2>1. PICK t \in Conns : SendWelcome(t) \/ SendKey(t)
    BY <1>4, ServedStep
  <2>2. PICK keyed \in BOOLEAN : Tell(t, keyed)
    BY <2>1 DEF SendWelcome, SendKey
  <2>3. pc[t] \in Steps \ {"fail"}
    BY <2>1 DEF SendWelcome, SendKey, Steps, NewClientSteps, KeySteps
  <2>4. req[t].since \in Nat /\ req[t].since <= now
    BY <2>3 DEF RInv, FrameOK, Frame, Requests
  <2>5. ASSUME NEW id \in DOMAIN served'
        PROVE  served'[id].since <= now'
    <3>1. CASE id = req[t].user_id
      BY <1>1, <2>2, <2>4, <3>1 DEF Tell
    <3>2. CASE id # req[t].user_id
      <4>1. id \in DOMAIN served /\ served'[id] = served[id]
        BY <2>2, <3>2 DEF Tell
      <4> QED
        BY <1>1, <1>2, <4>1
    <3> QED
      BY <3>1, <3>2
  <2> QED
    BY <2>5 DEF TimesOK
<1> QED
  BY <1>3, <1>4

LEMMA GrowsStep ==
    ASSUME RInv, [Next]_vars
    PROVE  Grows
<1>1. now <= now' /\ now \in Nat /\ dirs \subseteq dirs'
  BY OtherFields DEF RInv, TypeOK
<1>2. DOMAIN served \subseteq DOMAIN served'
  BY ServedStep DEF SendWelcome, SendKey, Tell
<1>3. ASSUME NEW id \in DOMAIN clients, NEW time \in Nat, time <= now, SeenSince(id, time)
      PROVE  SeenSince(id, time)'
  <2>1. RowKept(clients[id], clients'[id])
    BY TableStep
  <2>2. StoredTime(now) \in Nat /\ StoredTime(now) + Second > time
    BY <1>1, <1>3, StoredTimeIsClose, RegistrationAssumption
  <2> QED
    BY <1>3, <2>1, <2>2, NullAssumption DEF SeenSince, RowKept
<1> QED
  BY <1>1, <1>2, <1>3, TableStep DEF Grows, RowKept

\* A handler that does not move keeps what its frame holds.
LEMMA FrameKept ==
    ASSUME TypeOK, Grows, NEW t \in Conns, Frame(t), pc'[t] = pc[t], req'[t] = req[t],
           now' \in Nat
    PROVE  Frame(t)'
<1> DEFINE r == req[t]
<1>1. now \in Nat /\ now <= now'
  BY DEF TypeOK, Grows
<1>2. r \in Requests => r.since \in Nat
  BY DEF Requests
<1>3. pc[t] \in Steps \ {"fail"} => r \in Requests /\ r.since <= now'
  BY <1>1, <1>2 DEF Frame
<1>4. HasRow(clients, r.user_id, r.username) => HasRow(clients', r.user_id, r.username)
  BY DEF HasRow, Grows
<1>5. pc[t] \in {"stamp_new", "mkdir", "welcome"} \cup LoadedSteps =>
        r.user_id \in DOMAIN clients
  BY DEF Frame, HasRow
<1>6. pc[t] \in StampedSteps => SeenSince(r.user_id, r.since)'
  <2>1. SUFFICES ASSUME pc[t] \in StampedSteps PROVE SeenSince(r.user_id, r.since)'
    OBVIOUS
  <2>2. r.user_id \in DOMAIN clients /\ r.since \in Nat /\ r.since <= now
    BY <1>2, <1>5, <2>1
       DEF Frame, StampedSteps, LoadedSteps, Steps, NewClientSteps, KeySteps
  <2> QED
    BY <2>1, <2>2 DEF Frame, Grows
<1>7. pc[t] = "check_user" => r.user_id \in SentIds'
  BY DEF Frame, Grows, SentIds
<1> QED
  BY <1>3, <1>4, <1>5, <1>6, <1>7 DEF Frame, Grows, LoadedSteps

-----------------------------------------------------------------------------
(* What a step does to the thread that takes it.                           *)

\* The handler's locals: an id is assigned, or a key and the key it is encrypted under.
LEMMA FrameFields ==
    ASSUME NEW r \in Requests, NEW id \in Ids, NEW pk \in PublicKeys, NEW key \in Nat
    PROVE  LET q == [r EXCEPT !.user_id = id]
               k == [r EXCEPT !.public_key = pk, !.aes_key = key]
           IN  /\ q \in Requests /\ k \in Requests
               /\ q.user_id = id /\ q.code = r.code /\ q.username = r.username
               /\ q.since = r.since
               /\ k.user_id = r.user_id /\ k.code = r.code /\ k.username = r.username
               /\ k.since = r.since /\ k.public_key = pk /\ k.aes_key = key
BY DEF Requests

\* Only the thread moves, and it moves to a step of the handlers.
Moves(t) ==
    /\ pc' \in [Conns -> Steps \cup {"idle", "closed"}]
    /\ replies' \in [Conns -> Nat]
    /\ req' = [s \in Conns |-> req'[s]]
    /\ \A s \in Conns \ {t} : pc'[s] = pc[s] /\ req'[s] = req[s]

LEMMA GotoMoves ==
    ASSUME TypeOK, NEW t \in Conns, NEW s \in Steps \cup {"idle", "closed"}, Goto(t, s),
           \/ UNCHANGED req
           \/ \E r : req' = [req EXCEPT ![t] = r],
           \/ UNCHANGED replies
           \/ \E n \in Nat : replies' = [replies EXCEPT ![t] = n]
    PROVE  Moves(t) /\ pc'[t] = s
BY DEF TypeOK, Goto, Moves

LEMMA RequestMoves ==
    ASSUME TypeOK, NEW t \in Conns, Request(t)
    PROVE  Moves(t)
<1>1. CASE Connect(t) \/ Disconnect(t)
  BY <1>1, GotoMoves DEF Connect, Disconnect
<1>2. CASE BackupActivity(t)
  BY <1>2 DEF BackupActivity, TypeOK, Moves
<1>3. ASSUME NEW code, NEW id, NEW name, NEW pk, NEW s \in Steps, Receive(t, code, id, name, pk, s)
      PROVE  Moves(t)
  <2>1. /\ Goto(t, s)
        /\ \E r : req' = [req EXCEPT ![t] = r]
        /\ \E n \in Nat : replies' = [replies EXCEPT ![t] = n]
    BY <1>3 DEF Receive
  <2> QED
    BY <2>1, GotoMoves
<1>4. {"refuse", "check_name", "check_user"} \subseteq Steps
  BY DEF Steps, NewClientSteps, KeySteps
<1> QED
  BY <1>1, <1>2, <1>3, <1>4
     DEF Request, ReceiveRegistration, ReceivePublicKey, ReceiveReRegistration

LEMMA HandleMoves ==
    ASSUME TypeOK, NEW t \in Conns, Handle(t)
    PROVE  Moves(t)
<1> DEFINE OneReply == \/ UNCHANGED replies
                       \/ \E n \in Nat : replies' = [replies EXCEPT ![t] = n]
           OneFrame == \/ UNCHANGED req
                       \/ \E r : req' = [req EXCEPT ![t] = r]
           OneStep == \E s \in Steps \cup {"idle", "closed"} : Goto(t, s)
<1>1. OneStep /\ OneFrame /\ OneReply => Moves(t)
  BY GotoMoves
<1>2. Raise(t) => OneStep /\ OneFrame
  BY DEF Raise, Leave, Steps
<1>3. Reply(t) => OneReply
  <2>1. replies[t] + 1 \in Nat
    BY DEF TypeOK
  <2> QED
    BY <2>1 DEF Reply
<1>4. Leave(t, "idle") => OneStep /\ OneFrame
  BY DEF Leave
<1>5. CASE CheckName(t) \/ InsertClient(t) \/ StampNew(t) \/ MakeDirectory(t)
  <2>1. {"taken", "insert", "stamp_new", "mkdir", "welcome"} \subseteq Steps
    BY DEF Steps, NewClientSteps
  <2>2. OneStep /\ OneFrame /\ UNCHANGED replies
    BY <1>5, <2>1 DEF CheckName, InsertClient, StampNew, MakeDirectory
  <2> QED
    BY <1>1, <2>2
<1>6. CASE SendWelcome(t) \/ SendRefusal(t) \/ SendKey(t)
  <2> HIDE DEF OneStep, OneFrame, OneReply
  <2> QED
    BY <1>1, <1>3, <1>4, <1>6 DEF SendWelcome, SendRefusal, SendKey
<1>7. CASE HandlerError(t) \/ CheckUserFails(t) \/ LoadKeyFails(t)
  <2>1. Raise(t) /\ UNCHANGED replies
    BY <1>7 DEF HandlerError, DatabaseError, DiskError, SendError, CheckUserFails, LoadKeyFails
  <2> QED
    BY <1>1, <1>2, <2>1
<1>8. CASE SendFailure(t) \/ LoseConnection(t)
  <2>1. OneStep /\ OneFrame
    BY <1>8 DEF SendFailure, LoseConnection
  <2>2. OneReply
    BY <1>3, <1>8 DEF SendFailure, LoseConnection
  <2> QED
    BY <1>1, <2>1, <2>2
<1>9. CASE CheckExpiry(t) \/ Stamp(t) \/ StorePublicKey(t) \/ StoreSessionKey(t)
  <2>1. {"refuse", "load_key", "store_public", "store_session", "send_key"} \subseteq Steps
    BY DEF Steps, KeySteps
  <2>2. Raise(t) \/ (UNCHANGED req /\ OneStep)
    BY <1>9, <2>1 DEF CheckExpiry, Stamp, AfterStamp, StorePublicKey, StoreSessionKey
  <2>3. UNCHANGED replies
    BY <1>9 DEF CheckExpiry, Stamp, StorePublicKey, StoreSessionKey
  <2> QED
    BY <1>1, <1>2, <2>2, <2>3
<1>10. ASSUME NEW pk, Provision(t, pk)
       PROVE  OneStep /\ OneFrame /\ UNCHANGED replies
  <2>1. "stamp" \in Steps
    BY DEF Steps, KeySteps
  <2>2. Raise(t) \/ (OneStep /\ OneFrame)
    BY <1>10, <2>1 DEF Provision
  <2> QED
    BY <1>2, <1>10, <2>2 DEF Provision
<1>11. CASE CheckUser(t)
  <2>1. {"refuse", "expiry"} \subseteq Steps
    BY DEF Steps, KeySteps
  <2>2. \/ \E s \in {"refuse", "expiry"} : Goto(t, s) /\ UNCHANGED <<req, replies>>
        \/ Provision(t, req[t].public_key)
    BY <1>11 DEF CheckUser
  <2>3. CASE Provision(t, req[t].public_key)
    BY <1>1, <1>10, <2>3
  <2> QED
    BY <1>1, <2>1, <2>2, <2>3
<1>12. CASE LoadKey(t)
  <2>1. \E pk : Provision(t, pk)
    BY <1>12 DEF LoadKey
  <2> QED
    BY <1>1, <1>10, <2>1
<1> HIDE DEF OneStep, OneFrame, OneReply
<1> QED
  BY <1>5, <1>6, <1>7, <1>8, <1>9, <1>11, <1>12 DEF Handle, Register, ExchangeKey

\* A thread outside the handlers, or about to answer FAILED, has no frame.
LEMMA NoFrame ==
    ASSUME NEW t \in Conns, pc'[t] \in {"idle", "closed", "fail"}
    PROVE  Frame(t)'
BY DEF Frame, Steps, NewClientSteps, KeySteps, LoadedSteps, StampedSteps, KeyedSteps

\* The frame of a thread at a step, for the handler that is about to use it.
LEMMA FrameOf ==
    ASSUME RInv, NEW t \in Conns, pc[t] \in Steps \ {"fail"}
    PROVE  /\ req[t] \in Requests
           /\ req[t].since \in Nat /\ req[t].since <= now
           /\ req \in [Conns -> Requests \cup {NoReq}]
           /\ DOMAIN req = Conns /\ DOMAIN pc = Conns
           /\ Frame(t)
BY DEF RInv, TypeOK, FrameOK, Frame, Requests

LEMMA ReceiveFrame ==
    ASSUME RInv, NEW t \in Conns,
           ReceiveRegistration(t) \/ ReceivePublicKey(t) \/ ReceiveReRegistration(t)
    PROVE  Frame(t)' /\ req'[t] \in Requests \cup {NoReq}
<1>1. /\ now \in Nat /\ DOMAIN pc = Conns /\ DOMAIN req = Conns
      /\ SentIds \subseteq Ids \cup {Null}
      /\ \A id \in SentIds : ReadId(id) \in SentIds
      /\ Serves[t] \subseteq Usernames
  BY RegistrationAssumption DEF RInv, TypeOK, SentIds, ReadId
<1>2. ASSUME NEW code \in RegistrationCodes, NEW id \in SentIds,
             NEW name \in Usernames \cup {BadName},
             NEW pk \in PublicKeys \cup {BadKey, Null}, NEW s, Receive(t, code, id, name, pk, s)
      PROVE  /\ req'[t] \in Requests
             /\ req'[t].code = code /\ req'[t].user_id = ReadId(id) /\ req'[t].username = name
             /\ req'[t].public_key = pk /\ req'[t].since = now
             /\ pc'[t] = s /\ now' = now /\ served' = served
  <2> DEFINE r == [code |-> code, user_id |-> ReadId(id), username |-> name,
                   public_key |-> pk, aes_key |-> Null, since |-> now,
                   sent |-> id, heard |-> Heard(id, name)]
  <2>1. /\ r \in Requests
        /\ r.code = code /\ r.user_id = ReadId(id) /\ r.username = name
        /\ r.public_key = pk /\ r.since = now
    <3>1. ReadId(id) \in Ids \cup {Null} /\ id \in Ids \cup {Null}
      BY <1>1, <1>2
    <3>2. Heard(id, name) \in Nat \cup {Null}
      <4>1. \A i \in DOMAIN served : served[i] \in Told
        BY DEF RInv, TypeOK
      <4> QED
        BY <4>1 DEF Heard, Told
    <3> QED
      BY <1>1, <1>2, <3>1, <3>2 DEF Requests
  <2>2. req'[t] = r
    BY <1>1, <1>2 DEF Receive
  <2>3. pc'[t] = s /\ now' = now /\ served' = served
    BY <1>1, <1>2 DEF Receive, Goto
  <2> HIDE DEF r
  <2> QED
    BY <2>1, <2>2, <2>3
<1>3. CASE ReceiveRegistration(t)
  <2>1. \E name \in Usernames \cup {BadName}, s \in {"refuse", "check_name"} :
           /\ Receive(t, "REGISTRATION", Null, name, Null, s)
           /\ s = "check_name" => name \in Serves[t]
    BY <1>1, <1>3 DEF ReceiveRegistration
  <2>2. "REGISTRATION" \in RegistrationCodes /\ Null \in SentIds
    BY DEF RegistrationCodes, SentIds
  <2>4. ReadId(Null) = Null
    BY NullAssumption, RegistrationAssumption DEF ReadId
  <2>3. /\ req'[t] \in Requests
        /\ req'[t].code = "REGISTRATION" /\ req'[t].user_id = Null
        /\ req'[t].since = now /\ now' = now
        /\ pc'[t] \in {"refuse", "check_name"}
        /\ pc'[t] = "check_name" => req'[t].username \in Serves[t]
    BY <1>2, <2>1, <2>2, <2>4
  <2> QED
    BY <1>1, <2>3
       DEF Frame, Steps, NewClientSteps, KeySteps, LoadedSteps, StampedSteps, KeyedSteps
<1>4. CASE ReceivePublicKey(t) \/ ReceiveReRegistration(t)
  <2>1. \E id \in SentIds, name \in Serves[t], pk \in PublicKeys \cup {BadKey, Null},
           code \in {"PUBLIC_KEY_SEND", "RE_REGISTRATION"} :
           /\ Receive(t, code, id, name, pk, "check_user")
           /\ code = "PUBLIC_KEY_SEND" => pk # Null
    BY <1>4, NullAssumption, RegistrationAssumption DEF ReceivePublicKey, ReceiveReRegistration
  <2>2. {"PUBLIC_KEY_SEND", "RE_REGISTRATION"} \subseteq RegistrationCodes
    BY DEF RegistrationCodes
  <2>3. /\ req'[t] \in Requests
        /\ req'[t].code \in {"PUBLIC_KEY_SEND", "RE_REGISTRATION"}
        /\ req'[t].user_id \in SentIds
        /\ req'[t].username \in Serves[t]
        /\ req'[t].code = "PUBLIC_KEY_SEND" => req'[t].public_key # Null
        /\ req'[t].since = now /\ now' = now /\ served' = served
        /\ pc'[t] = "check_user"
    BY <1>1, <1>2, <2>1, <2>2
  <2> QED
    BY <1>1, <2>3
       DEF Frame, Steps, NewClientSteps, KeySteps, LoadedSteps, StampedSteps, KeyedSteps, SentIds
<1> QED
  BY <1>3, <1>4

\* While the frame stays, the step may only add to what it must hold.
LEMMA RegisterFrame ==
    ASSUME RInv, [Next]_vars, NEW t \in Conns,
           CheckName(t) \/ InsertClient(t) \/ StampNew(t) \/ MakeDirectory(t)
    PROVE  Frame(t)' /\ req'[t] \in Requests \cup {NoReq}
<1> DEFINE r == req[t]
<1>1. pc[t] \in {"check_name", "insert", "stamp_new", "mkdir"}
  BY DEF CheckName, InsertClient, StampNew, MakeDirectory
<1>2. /\ r \in Requests /\ r.since \in Nat /\ r.since <= now
      /\ req \in [Conns -> Requests \cup {NoReq}]
      /\ DOMAIN req = Conns /\ DOMAIN pc = Conns
      /\ r.code = "REGISTRATION" /\ r.username \in Serves[t]
      /\ pc[t] \in {"stamp_new", "mkdir"} => HasRow(clients, r.user_id, r.username)
      /\ pc[t] = "mkdir" => SeenSince(r.user_id, r.since)
  <2>1. pc[t] \in Steps \ {"fail"} /\ pc[t] \in NewClientSteps
    BY <1>1 DEF Steps, NewClientSteps
  <2> QED
    BY <1>1, <2>1, FrameOf DEF Frame, StampedSteps
<1>3. Grows /\ now \in Nat
  BY GrowsStep DEF RInv, TypeOK
<1>4. CASE CheckName(t)
  <2>1. UNCHANGED <<req, now>> /\ pc'[t] \in {"taken", "insert"}
    BY <1>2, <1>4 DEF CheckName, Goto
  <2> QED
    BY <1>2, <2>1
       DEF Frame, Steps, NewClientSteps, KeySteps, LoadedSteps, StampedSteps, KeyedSteps
<1>5. CASE InsertClient(t)
  <2>2. PICK id \in Ids \ DOMAIN clients :
           /\ clients' = WithClient(clients, id, r.username)
           /\ req'[t] = [r EXCEPT !.user_id = id]
    BY <1>2, <1>5 DEF InsertClient
  <2>3. /\ req'[t] \in Requests /\ req'[t].user_id = id /\ req'[t].code = r.code
        /\ req'[t].username = r.username /\ req'[t].since = r.since
    BY <1>2, <2>2 DEF Requests
  <2>4. HasRow(clients', id, r.username)
    <3>1. id \in DOMAIN clients' /\ clients'[id].username = r.username
      BY <2>2 DEF WithClient
    <3> QED
      BY <3>1 DEF HasRow
  <2>5. now' = now /\ pc'[t] = "stamp_new"
    BY <1>2, <1>5 DEF InsertClient, Goto
  <2> QED
    BY <1>2, <2>3, <2>4, <2>5
       DEF Frame, Steps, NewClientSteps, KeySteps, LoadedSteps, StampedSteps, KeyedSteps
<1>6. CASE StampNew(t)
  <2>1. UNCHANGED <<req, now>> /\ pc'[t] = "mkdir" /\ pc[t] = "stamp_new"
        /\ clients' = WithLastSeen(clients, r.user_id, StoredTime(now))
    BY <1>2, <1>6 DEF StampNew, Goto
  <2>2. r.user_id \in DOMAIN clients
    BY <1>2, <2>1 DEF HasRow
  <2>3. clients'[r.user_id].last_seen = StoredTime(now)
    <3>1. clients \in [DOMAIN clients -> ClientRow]
      BY DEF RInv, TypeOK
    <3> QED
      BY <1>3, <2>1, <2>2, <3>1, LastSeenRows, StoredTimeIsClose
  <2>4. SeenSince(r.user_id, r.since)'
    BY <1>2, <1>3, <2>1, <2>3, NullAssumption, StoredTimeIsClose, RegistrationAssumption DEF SeenSince
  <2>5. HasRow(clients', r.user_id, r.username)
    BY <1>2, <1>3, <2>1 DEF Grows, HasRow
  <2> QED
    BY <1>2, <2>1, <2>4, <2>5
       DEF Frame, Steps, NewClientSteps, KeySteps, LoadedSteps, StampedSteps, KeyedSteps
<1>7. CASE MakeDirectory(t)
  <2>1. UNCHANGED <<req, now, clients>> /\ pc'[t] = "welcome" /\ pc[t] = "mkdir"
        /\ r.user_id \in dirs'
    BY <1>2, <1>7 DEF MakeDirectory, Goto
  <2>2. SeenSince(r.user_id, r.since)' /\ HasRow(clients', r.user_id, r.username)
    BY <1>2, <2>1 DEF SeenSince
  <2> QED
    BY <1>2, <2>1, <2>2
       DEF Frame, Steps, NewClientSteps, KeySteps, LoadedSteps, StampedSteps, KeyedSteps
<1> QED
  BY <1>4, <1>5, <1>6, <1>7

\* A key is generated for a client on record, and encrypted under a key that can be imported.
LEMMA ProvisionFrame ==
    ASSUME RInv, NEW t \in Conns, pc[t] \in {"check_user", "load_key"},
           NEW pk \in PublicKeys \cup {BadKey}, Provision(t, pk),
           HasRow(clients, req[t].user_id, req[t].username),
           req[t].user_id \in DOMAIN served,
           req[t].code = "RE_REGISTRATION" => clients[req[t].user_id].public_key # Null
    PROVE  Frame(t)' /\ req'[t] \in Requests \cup {NoReq}
<1> DEFINE r == req[t]
<1>1. /\ r \in Requests /\ r.since \in Nat /\ r.since <= now
      /\ DOMAIN req = Conns /\ DOMAIN pc = Conns
      /\ r.code # "REGISTRATION" /\ r.username \in Serves[t]
      /\ issued + 1 \in Nat
  <2>1. pc[t] \in Steps \ {"fail"} /\ pc[t] \in KeySteps
    BY DEF Steps, KeySteps
  <2> QED
    BY <2>1, FrameOf DEF Frame, RInv, TypeOK
<1>2. UNCHANGED <<clients, served, now>>
  BY DEF Provision, tables
<1>3. CASE Raise(t)
  <2>1. pc'[t] = "fail" /\ req'[t] = NoReq
    BY <1>1, <1>3 DEF Raise, Leave, Goto
  <2> QED
    BY <2>1, NoFrame
<1>4. CASE ~Raise(t)
  <2>1. /\ pc'[t] = "stamp" /\ pk \in PublicKeys
        /\ req'[t] = [r EXCEPT !.public_key = pk, !.aes_key = issued + 1]
    BY <1>1, <1>4 DEF Provision, Goto
  <2>2. /\ req'[t] \in Requests /\ req'[t].user_id = r.user_id /\ req'[t].code = r.code
        /\ req'[t].username = r.username /\ req'[t].since = r.since
        /\ req'[t].public_key = pk /\ req'[t].aes_key = issued + 1
    BY <1>1, <2>1 DEF Requests
  <2> QED
    BY <1>1, <1>2, <2>1, <2>2
       DEF Frame, Steps, NewClientSteps, KeySteps, LoadedSteps, StampedSteps, KeyedSteps
<1> QED
  BY <1>3, <1>4

LEMMA ExchangeFrame ==
    ASSUME RInv, [Next]_vars, NEW t \in Conns,
           \/ CheckUser(t) \/ CheckExpiry(t) \/ LoadKey(t)
           \/ Stamp(t) \/ StorePublicKey(t) \/ StoreSessionKey(t)
    PROVE  Frame(t)' /\ req'[t] \in Requests \cup {NoReq}
<1> DEFINE r == req[t]
<1>1. pc[t] \in {"check_user", "expiry", "load_key", "stamp", "store_public", "store_session"}
  BY DEF CheckUser, CheckExpiry, LoadKey, Stamp, StorePublicKey, StoreSessionKey
<1>2. pc[t] \in Steps \ {"fail"} /\ pc[t] \in KeySteps
  BY <1>1 DEF Steps, KeySteps
<1>3. /\ r \in Requests /\ r.since \in Nat /\ r.since <= now
      /\ req \in [Conns -> Requests \cup {NoReq}]
      /\ DOMAIN req = Conns /\ DOMAIN pc = Conns
      /\ r.code \in {"PUBLIC_KEY_SEND", "RE_REGISTRATION"} /\ r.username \in Serves[t]
      /\ Frame(t)
  BY <1>2, FrameOf DEF Frame, Requests, RegistrationCodes
<1>4. Grows /\ now \in Nat /\ clients \in [DOMAIN clients -> ClientRow]
      /\ DOMAIN clients \subseteq Ids
  BY GrowsStep DEF RInv, TypeOK
<1>5. /\ pc[t] # "check_user" => /\ HasRow(clients, r.user_id, r.username)
                                 /\ r.user_id \in DOMAIN served
      /\ pc[t] # "check_user" => r.user_id \in DOMAIN clients
  BY <1>1, <1>3 DEF Frame, LoadedSteps, HasRow
<1>6. CASE CheckUser(t)
  <2>1. pc[t] = "check_user" /\ r.user_id \in SentIds
        /\ (r.code = "PUBLIC_KEY_SEND" => r.public_key \in PublicKeys \cup {BadKey})
    BY <1>3, <1>6 DEF CheckUser, Frame, Requests
  <2>2. CASE UNCHANGED <<req, now>> /\ pc'[t] = "refuse"
    BY <1>3, <2>2
       DEF Frame, Steps, NewClientSteps, KeySteps, LoadedSteps, StampedSteps, KeyedSteps
  <2>3. ASSUME r.user_id \in IdsOf(clients, r.username)
        PROVE  HasRow(clients, r.user_id, r.username) /\ r.user_id \in DOMAIN served
    BY <1>4, <2>1, <2>3, NullAssumption DEF IdsOf, HasRow, SentIds
  <2>4. CASE /\ UNCHANGED <<req, now, clients, served>> /\ pc'[t] = "expiry"
             /\ r.code = "RE_REGISTRATION" /\ r.user_id \in IdsOf(clients, r.username)
    BY <1>3, <2>3, <2>4
       DEF Frame, Steps, NewClientSteps, KeySteps, LoadedSteps, StampedSteps, KeyedSteps
  <2>5. CASE /\ r.code = "PUBLIC_KEY_SEND" /\ r.user_id \in IdsOf(clients, r.username)
             /\ Provision(t, r.public_key)
    BY <1>3, <2>1, <2>3, <2>5, ProvisionFrame
  <2> QED
    BY <1>3, <1>6, <2>2, <2>4, <2>5 DEF CheckUser, Goto, tables
<1>7. CASE CheckExpiry(t)
  <2>1. UNCHANGED <<now, clients, served>> /\ pc[t] = "expiry"
    BY <1>7 DEF CheckExpiry, tables
  <2>2. CASE Raise(t)
    <3>1. pc'[t] = "fail" /\ req'[t] = NoReq
      BY <1>3, <2>2 DEF Raise, Leave, Goto
    <3> QED
      BY <3>1, NoFrame
  <2>3. CASE ~Raise(t)
    <3>1. UNCHANGED req /\ pc'[t] \in {"refuse", "load_key"}
      BY <1>3, <1>7, <2>3 DEF CheckExpiry, Goto
    <3>2. r.code = "RE_REGISTRATION"
      BY <1>3, <2>1 DEF Frame
    <3> QED
      BY <1>3, <1>5, <2>1, <3>1, <3>2
         DEF Frame, Steps, NewClientSteps, KeySteps, LoadedSteps, StampedSteps, KeyedSteps
  <2> QED
    BY <2>2, <2>3
<1>8. CASE LoadKey(t)
  <2>1. /\ pc[t] = "load_key" /\ clients[r.user_id].public_key # Null
        /\ Provision(t, clients[r.user_id].public_key)
    BY <1>8 DEF LoadKey
  <2>2. clients[r.user_id].public_key \in PublicKeys
    <3>1. clients[r.user_id] \in ClientRow
      BY <1>4, <1>5, <2>1
    <3> QED
      BY <2>1, <3>1 DEF ClientRow
  <2> QED
    BY <1>5, <2>1, <2>2, ProvisionFrame
<1>9. CASE Stamp(t)
  <2>1. /\ UNCHANGED <<req, now, served>> /\ pc[t] = "stamp"
        /\ clients' = WithLastSeen(clients, r.user_id, StoredTime(now))
        /\ r.code = "PUBLIC_KEY_SEND" => pc'[t] = "store_public"
        /\ r.code = "RE_REGISTRATION" => pc'[t] = "store_session"
    BY <1>3, <1>9 DEF Stamp, Goto, AfterStamp
  <2>2. clients'[r.user_id].last_seen = StoredTime(now)
    BY <1>4, <1>5, <2>1, LastSeenRows, StoredTimeIsClose
  <2>3. SeenSince(r.user_id, r.since)'
    BY <1>3, <1>4, <2>1, <2>2, NullAssumption, StoredTimeIsClose, RegistrationAssumption DEF SeenSince
  <2>4. HasRow(clients', r.user_id, r.username)
    BY <1>4, <1>5, <2>1 DEF Grows, HasRow
  <2>5. r.code = "RE_REGISTRATION" => clients'[r.user_id].public_key # Null
    BY <1>3, <1>4, <1>5, <2>1 DEF Frame, Grows
  <2>6. r.public_key \in PublicKeys /\ r.aes_key \in Nat
    BY <1>3, <2>1 DEF Frame, KeyedSteps
  <2> QED
    BY <1>3, <1>5, <2>1, <2>3, <2>4, <2>5, <2>6
       DEF Frame, Steps, NewClientSteps, KeySteps, LoadedSteps, StampedSteps, KeyedSteps
<1>10. ASSUME StorePublicKey(t) \/ StoreSessionKey(t), Raise(t)
       PROVE  Frame(t)' /\ req'[t] \in Requests \cup {NoReq}
  <2>1. pc'[t] = "fail" /\ req'[t] = NoReq
    BY <1>3, <1>10 DEF Raise, Leave, Goto
  <2> QED
    BY <2>1, NoFrame
<1>11. CASE StorePublicKey(t) /\ ~Raise(t)
  <2>1. /\ UNCHANGED <<req, now, served>> /\ pc[t] = "store_public" /\ pc'[t] = "store_session"
        /\ clients' = WithPublicKey(clients, r.user_id, r.username, r.public_key)
    BY <1>3, <1>11 DEF StorePublicKey, Goto
  <2>2. r.public_key \in PublicKeys /\ r.aes_key \in Nat /\ SeenSince(r.user_id, r.since)
    BY <1>3, <2>1 DEF Frame, KeyedSteps, StampedSteps
  <2>3. HasRow(clients', r.user_id, r.username) /\ SeenSince(r.user_id, r.since)'
    BY <1>3, <1>4, <1>5, <2>1, <2>2 DEF Grows, HasRow
  <2>4. clients'[r.user_id].public_key = r.public_key
    BY <1>4, <1>5, <2>1, <2>2, PublicKeyRows DEF HasRow
  <2>5. clients'[r.user_id].public_key # Null
    BY <2>2, <2>4, NullAssumption
  <2> QED
    BY <1>3, <1>5, <2>1, <2>2, <2>3, <2>5
       DEF Frame, Steps, NewClientSteps, KeySteps, LoadedSteps, StampedSteps, KeyedSteps
<1>12. CASE StoreSessionKey(t) /\ ~Raise(t)
  <2>1. /\ UNCHANGED <<req, now, served>> /\ pc[t] = "store_session" /\ pc'[t] = "send_key"
        /\ clients' = WithSessionKey(clients, r.user_id, r.username, r.aes_key)
    BY <1>3, <1>12 DEF StoreSessionKey, Goto
  <2>2. r.public_key \in PublicKeys /\ r.aes_key \in Nat /\ SeenSince(r.user_id, r.since)
    BY <1>3, <2>1 DEF Frame, KeyedSteps, StampedSteps
  <2>3. HasRow(clients', r.user_id, r.username) /\ SeenSince(r.user_id, r.since)'
    BY <1>3, <1>4, <1>5, <2>1, <2>2 DEF Grows, HasRow
  <2>4. clients'[r.user_id].aes_key = r.aes_key
    BY <1>4, <1>5, <2>1, <2>2, SessionKeyRows DEF HasRow
  <2>5. clients'[r.user_id].aes_key # Null
    BY <2>2, <2>4, NullAssumption
  <2>6. clients'[r.user_id].public_key # Null
    BY <1>3, <1>4, <1>5, <2>1 DEF Frame, Grows
  <2> QED
    BY <1>3, <1>5, <2>1, <2>2, <2>3, <2>5, <2>6
       DEF Frame, Steps, NewClientSteps, KeySteps, LoadedSteps, StampedSteps, KeyedSteps
<1> QED
  BY <1>6, <1>7, <1>8, <1>9, <1>10, <1>11, <1>12

\* The frame of the thread that moves.
LEMMA OwnFrame ==
    ASSUME RInv, [Next]_vars, NEW t \in Conns, Request(t) \/ Handle(t)
    PROVE  Frame(t)' /\ req'[t] \in Requests \cup {NoReq} /\ Moves(t)
<1>1. /\ DOMAIN pc = Conns /\ DOMAIN req = Conns
      /\ req \in [Conns -> Requests \cup {NoReq}] /\ Moves(t)
  BY RequestMoves, HandleMoves DEF RInv, TypeOK
<1>2. CASE Connect(t) \/ Disconnect(t)
  <2>1. pc'[t] \in {"idle", "closed"} /\ UNCHANGED req
    BY <1>1, <1>2 DEF Connect, Disconnect, Goto
  <2> QED
    BY <1>1, <2>1, NoFrame
<1>3. CASE BackupActivity(t)
  <2>1. pc'[t] = "idle" /\ UNCHANGED req
    BY <1>3 DEF BackupActivity
  <2> QED
    BY <1>1, <2>1, NoFrame
<1>4. CASE ReceiveRegistration(t) \/ ReceivePublicKey(t) \/ ReceiveReRegistration(t)
  BY <1>1, <1>4, ReceiveFrame
<1>5. ASSUME NEW s \in {"idle", "fail"}, Leave(t, s)
      PROVE  Frame(t)' /\ req'[t] \in Requests \cup {NoReq}
  <2>1. pc'[t] = s /\ req'[t] = NoReq
    BY <1>1, <1>5 DEF Leave, Goto
  <2> QED
    BY <2>1, NoFrame
<1>6. CASE SendWelcome(t) \/ SendRefusal(t) \/ SendKey(t)
  BY <1>1, <1>5, <1>6 DEF SendWelcome, SendRefusal, SendKey
<1>7. CASE HandlerError(t) \/ CheckUserFails(t) \/ LoadKeyFails(t)
  BY <1>1, <1>5, <1>7
     DEF HandlerError, DatabaseError, DiskError, SendError, CheckUserFails, LoadKeyFails, Raise
<1>8. CASE SendFailure(t) \/ LoseConnection(t)
  <2>1. pc'[t] \in {"idle", "closed"} /\ UNCHANGED req
    BY <1>1, <1>8 DEF SendFailure, LoseConnection, Goto
  <2> QED
    BY <1>1, <2>1, NoFrame
<1>9. CASE CheckName(t) \/ InsertClient(t) \/ StampNew(t) \/ MakeDirectory(t)
  BY <1>1, <1>9, RegisterFrame
<1>10. CASE \/ CheckUser(t) \/ CheckExpiry(t) \/ LoadKey(t)
            \/ Stamp(t) \/ StorePublicKey(t) \/ StoreSessionKey(t)
  BY <1>1, <1>10, ExchangeFrame
<1> QED
  BY <1>2, <1>3, <1>4, <1>6, <1>7, <1>8, <1>9, <1>10
     DEF Request, Handle, Register, ExchangeKey

LEMMA FrameStep ==
    ASSUME RInv, [Next]_vars
    PROVE  FrameOK'
<1>1. Grows /\ now' \in Nat
  BY GrowsStep, OtherFields DEF RInv
<1>2. ASSUME NEW t \in Conns, Request(t) \/ Handle(t), NEW s \in Conns
      PROVE  Frame(s)'
  <2>1. CASE s = t
    BY <1>2, <2>1, OwnFrame
  <2>2. CASE s # t
    <3>1. pc'[s] = pc[s] /\ req'[s] = req[s]
      BY <1>2, <2>2, OwnFrame DEF Moves
    <3> QED
      BY <1>1, <3>1, FrameKept DEF RInv, FrameOK
  <2> QED
    BY <2>1, <2>2
<1>3. CASE Crash
  BY <1>3, NoFrame DEF Crash, FrameOK
<1>4. CASE Tick \/ UNCHANGED vars
  <2>1. UNCHANGED <<pc, req>>
    BY <1>4 DEF Tick, vars
  <2> QED
    BY <1>1, <2>1, FrameKept DEF RInv, FrameOK
<1> QED
  BY <1>2, <1>3, <1>4 DEF Next, FrameOK

LEMMA ServedTyped ==
    ASSUME RInv, [Next]_vars
    PROVE  DOMAIN served' \subseteq Ids /\ served' \in [DOMAIN served' -> Told]
<1>1. DOMAIN served \subseteq Ids /\ served \in [DOMAIN served -> Told]
  BY DEF RInv, TypeOK
<1>2. CASE UNCHANGED served
  BY <1>1, <1>2
<1>3. CASE served' # served
  <2>1. PICK t \in Conns : SendWelcome(t) \/ SendKey(t)
    BY <1>3, ServedStep
  <2>2. PICK keyed \in BOOLEAN : Tell(t, keyed)
    BY <2>1 DEF SendWelcome, SendKey
  <2>3. pc[t] \in {"welcome", "send_key"}
    BY <2>1 DEF SendWelcome, SendKey
  <2>4. pc[t] \in Steps \ {"fail"} /\ pc[t] \in NewClientSteps \cup KeySteps
    BY <2>3 DEF Steps, NewClientSteps, KeySteps
  <2>5. /\ req[t].user_id \in Ids /\ req[t].username \in Usernames /\ req[t].since \in Nat
    BY <2>3, <2>4, FrameOf, RegistrationAssumption
       DEF Frame, HasRow, LoadedSteps, RInv, TypeOK
  <2> DEFINE told == [username |-> req[t].username, keyed |-> keyed, since |-> req[t].since]
  <2>6. told \in Told
    BY <2>5 DEF Told
  <2>7. served' = [id \in DOMAIN served \cup {req[t].user_id} |->
                     IF id = req[t].user_id THEN told ELSE served[id]]
    BY <2>2 DEF Tell
  <2> HIDE DEF told
  <2>8. served' \in [DOMAIN served \cup {req[t].user_id} -> Told]
    BY <1>1, <2>6, <2>7
  <2> QED
    BY <1>1, <2>5, <2>8
<1> QED
  BY <1>2, <1>3

LEMMA TypeStep ==
    ASSUME RInv, [Next]_vars
    PROVE  TypeOK'
<1>1. TypeOK
  BY DEF RInv
<1>2. dirs' \subseteq Ids
  <2>1. ASSUME NEW t \in Conns, MakeDirectory(t)
        PROVE  dirs' \subseteq Ids
    <3>1. pc[t] = "mkdir" /\ dirs' = dirs \cup {req[t].user_id}
      BY <2>1 DEF MakeDirectory
    <3>2. req[t].user_id \in DOMAIN clients
      BY <3>1 DEF RInv, FrameOK, Frame, HasRow
    <3> QED
      BY <1>1, <3>1, <3>2 DEF TypeOK
  <2>2. ASSUME NEW t \in Conns, Request(t)
        PROVE  UNCHANGED dirs
    BY <2>2 DEF Request, Connect, Disconnect, ReceiveRegistration, ReceivePublicKey,
                ReceiveReRegistration, Receive, BackupActivity, tables
  <2>3. ASSUME NEW t \in Conns, Register(t), ~MakeDirectory(t)
        PROVE  UNCHANGED dirs
    BY <2>3 DEF Register, CheckName, InsertClient, StampNew, SendWelcome, SendRefusal, tables
  <2>4. ASSUME NEW t \in Conns, ExchangeKey(t)
        PROVE  UNCHANGED dirs
    <3>1. CheckUser(t) \/ CheckUserFails(t) \/ CheckExpiry(t) \/ LoadKey(t) \/ LoadKeyFails(t)
          => UNCHANGED dirs
      BY DEF CheckUser, CheckUserFails, CheckExpiry, LoadKey, LoadKeyFails, Provision, tables
    <3>2. Stamp(t) \/ StorePublicKey(t) \/ StoreSessionKey(t) \/ SendKey(t) => UNCHANGED dirs
      BY DEF Stamp, StorePublicKey, StoreSessionKey, SendKey, tables
    <3> QED
      BY <2>4, <3>1, <3>2 DEF ExchangeKey
  <2>5. ASSUME NEW t \in Conns, HandlerError(t) \/ SendFailure(t) \/ LoseConnection(t)
        PROVE  UNCHANGED dirs
    BY <2>5 DEF HandlerError, DatabaseError, DiskError, SendError, SendFailure, LoseConnection,
                tables
  <2>6. Crash \/ Tick \/ UNCHANGED vars => UNCHANGED dirs
    BY DEF Crash, Tick, tables, vars
  <2>7. UNCHANGED dirs => dirs' \subseteq Ids
    BY <1>1 DEF TypeOK
  <2> QED
    BY <2>1, <2>2, <2>3, <2>4, <2>5, <2>6, <2>7 DEF Next, Handle
<1>3. issued' \in Nat
  <2>1. issued' = issued \/ issued' = issued + 1
    <3>1. ASSUME NEW t \in Conns, Request(t)
          PROVE  UNCHANGED issued
      BY <3>1 DEF Request, Connect, Disconnect, ReceiveRegistration, ReceivePublicKey,
                  ReceiveReRegistration, Receive, BackupActivity
    <3>2. ASSUME NEW t \in Conns, Register(t)
          PROVE  UNCHANGED issued
      BY <3>2 DEF Register, CheckName, InsertClient, StampNew, MakeDirectory, SendWelcome,
                  SendRefusal
    <3>3. ASSUME NEW t \in Conns, ExchangeKey(t)
          PROVE  issued' = issued \/ issued' = issued + 1
      <4>1. CheckUser(t) \/ CheckUserFails(t) \/ CheckExpiry(t) \/ LoadKey(t) \/ LoadKeyFails(t)
            => issued' = issued \/ issued' = issued + 1
        BY DEF CheckUser, CheckUserFails, CheckExpiry, LoadKey, LoadKeyFails, Provision
      <4>2. Stamp(t) \/ StorePublicKey(t) \/ StoreSessionKey(t) \/ SendKey(t)
            => UNCHANGED issued
        BY DEF Stamp, StorePublicKey, StoreSessionKey, SendKey
      <4> QED
        BY <3>3, <4>1, <4>2 DEF ExchangeKey
    <3>4. ASSUME NEW t \in Conns, HandlerError(t) \/ SendFailure(t) \/ LoseConnection(t)
          PROVE  UNCHANGED issued
      BY <3>4 DEF HandlerError, DatabaseError, DiskError, SendError, SendFailure, LoseConnection
    <3>5. Crash \/ Tick \/ UNCHANGED vars => UNCHANGED issued
      BY DEF Crash, Tick, vars
    <3> QED
      BY <3>1, <3>2, <3>3, <3>4, <3>5 DEF Next, Handle
  <2> QED
    BY <1>1, <2>1 DEF TypeOK
<1>4. /\ pc' \in [Conns -> Steps \cup {"idle", "closed"}]
      /\ replies' \in [Conns -> Nat]
      /\ req' \in [Conns -> Requests \cup {NoReq}]
  <2>1. ASSUME NEW t \in Conns, Request(t) \/ Handle(t)
        PROVE  /\ pc' \in [Conns -> Steps \cup {"idle", "closed"}]
               /\ replies' \in [Conns -> Nat]
               /\ req' \in [Conns -> Requests \cup {NoReq}]
    <3>1. Moves(t) /\ req'[t] \in Requests \cup {NoReq}
      BY <2>1, OwnFrame
    <3>2. \A s \in Conns : req'[s] \in Requests \cup {NoReq}
      BY <1>1, <3>1 DEF Moves, TypeOK
    <3>3. req' = [s \in Conns |-> req'[s]]
      BY <3>1 DEF Moves
    <3> QED
      BY <3>1, <3>2, <3>3 DEF Moves
  <2>2. CASE Crash
    BY <2>2 DEF Crash
  <2>3. CASE Tick \/ UNCHANGED vars
    BY <1>1, <2>3 DEF Tick, vars, TypeOK
  <2> QED
    BY <2>1, <2>2, <2>3 DEF Next
<1> QED
  BY <1>1, <1>2, <1>3, <1>4, OtherFields, TableStep, ServedTyped, RacedStep DEF TypeOK, RInv

LEMMA ServedIsRecordedStep ==
    ASSUME RInv, [Next]_vars
    PROVE  ServedIsRecorded'
<1>1. Grows /\ TypeOK'
  BY GrowsStep, TypeStep
<1>2. ASSUME NEW id \in DOMAIN served
      PROVE  /\ HasRow(clients', id, served[id].username) /\ id \in dirs'
             /\ clients'[id].last_seen # Null /\ clients'[id].last_seen + Second > served[id].since
             /\ served[id].keyed =>
                  clients'[id].public_key # Null /\ clients'[id].aes_key # Null
  <2>1. /\ HasRow(clients, id, served[id].username) /\ id \in DOMAIN clients
        /\ id \in dirs /\ SeenSince(id, served[id].since)
        /\ served[id].keyed => clients[id].public_key # Null /\ clients[id].aes_key # Null
    BY DEF RInv, ServedIsRecorded, HasRow, SeenSince
  <2>2. served[id].since \in Nat /\ served[id].since <= now
    <3>1. served[id] \in Told
      BY DEF RInv, TypeOK
    <3> QED
      BY <3>1 DEF Told, RInv, TimesOK
  <2>3. clients'[id].last_seen # Null /\ clients'[id].last_seen + Second > served[id].since
    <3>1. PICK time \in Nat : time = served[id].since /\ time <= now
      BY <2>2
    <3>2. SeenSince(id, time)'
      BY <1>1, <2>1, <3>1 DEF Grows
    <3> QED
      BY <3>1, <3>2 DEF SeenSince
  <2> QED
    BY <1>1, <2>1, <2>3 DEF Grows, HasRow
<1>3. CASE UNCHANGED served
  BY <1>2, <1>3 DEF ServedIsRecorded
<1>4. CASE served' # served
  <2>1. PICK t \in Conns : (SendWelcome(t) \/ SendKey(t)) /\ UNCHANGED <<clients, dirs, now>>
    BY <1>4, ServedStep
  <2>2. PICK keyed \in BOOLEAN :
           /\ Tell(t, keyed) /\ (pc[t] = "welcome" \/ pc[t] = "send_key")
           /\ keyed => pc[t] = "send_key"
    BY <2>1 DEF SendWelcome, SendKey
  <2> DEFINE r == req[t]
             told == [username |-> r.username, keyed |-> keyed, since |-> r.since]
  <2>3. /\ HasRow(clients, r.user_id, r.username) /\ SeenSince(r.user_id, r.since)
        /\ r.user_id \in dirs
        /\ pc[t] = "send_key" =>
             clients[r.user_id].public_key # Null /\ clients[r.user_id].aes_key # Null
    <3>1. Frame(t)
      BY DEF RInv, FrameOK
    <3> QED
      BY <2>2, <3>1 DEF Frame, LoadedSteps, StampedSteps, RInv, ServedIsRecorded
  <2>4. told.username = r.username /\ told.keyed = keyed /\ told.since = r.since
    OBVIOUS
  <2>5. served' = [id \in DOMAIN served \cup {r.user_id} |->
                     IF id = r.user_id THEN told ELSE served[id]]
    BY <2>2 DEF Tell
  <2> HIDE DEF told
  <2>6. ASSUME NEW id \in DOMAIN served'
        PROVE  /\ HasRow(clients', id, served'[id].username) /\ id \in dirs'
               /\ clients'[id].last_seen # Null /\ clients'[id].last_seen + Second > served'[id].since
               /\ served'[id].keyed =>
                    clients'[id].public_key # Null /\ clients'[id].aes_key # Null
    <3>1. CASE id = r.user_id
      <4>1. served'[id] = told
        BY <2>5, <3>1
      <4> QED
        BY <2>1, <2>2, <2>3, <2>4, <3>1, <4>1 DEF SeenSince
    <3>2. CASE id # r.user_id
      <4>1. id \in DOMAIN served /\ served'[id] = served[id]
        BY <2>5, <3>2
      <4> QED
        BY <1>2, <4>1
    <3> QED
      BY <3>1, <3>2
  <2> QED
    BY <2>6 DEF ServedIsRecorded
<1> QED
  BY <1>3, <1>4

LEMMA Invariance ==
    Spec => []RInv
<1>1. Init => RInv
  <2>1. SUFFICES ASSUME Init PROVE RInv
    OBVIOUS
  <2>2. /\ DOMAIN clients = {} /\ clients = [id \in DOMAIN clients |-> clients[id]]
        /\ DOMAIN served = {} /\ served = [id \in DOMAIN served |-> served[id]]
    BY <2>1 DEF Init
  <2>3. clients \in [DOMAIN clients -> ClientRow] /\ served \in [DOMAIN served -> Told]
    BY <2>2
  <2>4. /\ pc \in [Conns -> Steps \cup {"idle", "closed"}]
        /\ req \in [Conns -> Requests \cup {NoReq}]
        /\ replies \in [Conns -> Nat]
        /\ \A t \in Conns : pc[t] = "closed"
        /\ dirs = {} /\ now = 0 /\ issued = 0 /\ raced = {}
    BY <2>1 DEF Init
  <2>5. TypeOK
    BY <2>2, <2>3, <2>4 DEF TypeOK
  <2>6. FrameOK
    BY <2>4 DEF FrameOK, Frame, Steps, NewClientSteps, KeySteps, LoadedSteps, StampedSteps,
                KeyedSteps
  <2>7. TimesOK /\ ServedIsRecorded
    BY <2>2 DEF TimesOK, ServedIsRecorded
  <2> QED
    BY <2>5, <2>6, <2>7 DEF RInv
<1>2. RInv /\ [Next]_vars => RInv'
  BY TypeStep, FrameStep, TimesStep, ServedIsRecordedStep DEF RInv
<1> QED
  BY <1>1, <1>2, PTL DEF Spec

(***************************************************************************)
(* The tables, the history and every handler's locals keep their types:    *)
(* only a key that can be imported is ever stored.                         *)
(***************************************************************************)
THEOREM RegistrationType ==
    Spec => []TypeOK
<1>1. RInv => TypeOK
  BY DEF RInv
<1> QED
  BY <1>1, Invariance, PTL

(***************************************************************************)
(* Whatever the number of connections, whatever name they carry, and under *)
(* every fault: what a client was told stays true of the tables.           *)
(***************************************************************************)
THEOREM ToldIsTrue ==
    Spec => []ServedIsRecorded
<1>1. RInv => ServedIsRecorded
  BY DEF RInv
<1> QED
  BY <1>1, Invariance, PTL

-----------------------------------------------------------------------------
(* With one connection per user name.                                      *)

\* A name about to be inserted is still free.
NameFree(t) == pc[t] = "insert" => ~UsernameExists(clients, req[t].username)

NamesInv == RInv /\ NamesUnique /\ \A t \in Conns : NameFree(t)

\* A step inserts one name or leaves the names as they are.
LEMMA NamesChange ==
    ASSUME RInv, [Next]_vars
    PROVE  \/ /\ DOMAIN clients' = DOMAIN clients
              /\ \A id \in DOMAIN clients : clients'[id].username = clients[id].username
           \/ \E t \in Conns, new \in Ids \ DOMAIN clients :
                 /\ InsertClient(t)
                 /\ DOMAIN clients' = DOMAIN clients \cup {new}
                 /\ clients'[new].username = req[t].username
                 /\ \A id \in DOMAIN clients : clients'[id].username = clients[id].username
<1>1. Grows
  BY GrowsStep
<1>2. CASE UNCHANGED clients
  BY <1>2
<1>3. CASE clients' # clients
  <2>1. PICK t \in Conns : \/ InsertClient(t) \/ StampNew(t) \/ Stamp(t) \/ BackupActivity(t)
                           \/ StorePublicKey(t) \/ StoreSessionKey(t)
    BY <1>3, ClientsStep
  <2>2. CASE InsertClient(t)
    <3>2. PICK new \in Ids \ DOMAIN clients : clients' = WithClient(clients, new, req[t].username)
      BY <2>2 DEF InsertClient
    <3>3. DOMAIN clients' = DOMAIN clients \cup {new} /\ clients'[new].username = req[t].username
      BY <3>2 DEF WithClient
    <3> QED
      BY <1>1, <2>2, <3>3 DEF Grows
  <2>3. CASE ~InsertClient(t)
    <3>1. DOMAIN clients' = DOMAIN clients
      BY <1>3, <2>1, <2>3 DEF StampNew, Stamp, BackupActivity, StorePublicKey, StoreSessionKey,
                              WithLastSeen, WithPublicKey, WithSessionKey
    <3> QED
      BY <1>1, <3>1 DEF Grows
  <2> QED
    BY <2>2, <2>3
<1> QED
  BY <1>2, <1>3

\* The names of two threads at work are different.
LEMMA NamesApart ==
    ASSUME OneConnPerName, RInv, NEW s \in Conns, NEW t \in Conns, s # t,
           pc[s] \in NewClientSteps \cup KeySteps, pc[t] \in NewClientSteps \cup KeySteps
    PROVE  req[s].username # req[t].username
BY DEF OneConnPerName, RInv, FrameOK, Frame

\* From where a thread comes to the steps the properties are about.
LEMMA Arrivals ==
    ASSUME TypeOK, NEW t \in Conns, Request(t) \/ Handle(t)
    PROVE  /\ pc'[t] = "insert" => CheckName(t)
           /\ pc'[t] = "refuse" => ReceiveRegistration(t) \/ CheckUser(t) \/ CheckExpiry(t)
           /\ pc'[t] = "stamp" => CheckUser(t) \/ LoadKey(t)
           /\ pc'[t] = "store_session" => Stamp(t) \/ StorePublicKey(t)
           /\ pc'[t] = "send_key" => StoreSessionKey(t)
<1> DEFINE Watched == {"insert", "refuse", "stamp", "store_session", "send_key"}
<1>1. DOMAIN pc = Conns
  BY DEF TypeOK
<1>2. ASSUME NEW s, Leave(t, s)
      PROVE  pc'[t] = s
  BY <1>1, <1>2 DEF Leave, Goto
<1>3. ASSUME Request(t), ~ReceiveRegistration(t)
      PROVE  pc'[t] \notin Watched
  BY <1>1, <1>3 DEF Request, Connect, Disconnect, ReceivePublicKey, ReceiveReRegistration,
                    Receive, BackupActivity, Goto
<1>4. ASSUME ReceiveRegistration(t)
      PROVE  pc'[t] \in {"refuse", "check_name"}
  BY <1>1, <1>4 DEF ReceiveRegistration, Receive, Goto
<1>5. CheckName(t) => pc'[t] \in {"insert", "taken"}
  BY <1>1 DEF CheckName, Goto
<1>6. InsertClient(t) \/ StampNew(t) \/ MakeDirectory(t) => pc'[t] \notin Watched
  BY <1>1 DEF InsertClient, StampNew, MakeDirectory, Goto
<1>7. SendWelcome(t) \/ SendRefusal(t) \/ SendKey(t) => pc'[t] \notin Watched
  BY <1>2 DEF SendWelcome, SendRefusal, SendKey
<1>8. HandlerError(t) \/ CheckUserFails(t) \/ LoadKeyFails(t) => pc'[t] \notin Watched
  BY <1>2 DEF HandlerError, DatabaseError, DiskError, SendError, CheckUserFails, LoadKeyFails,
              Raise
<1>9. SendFailure(t) \/ LoseConnection(t) => pc'[t] \notin Watched
  BY <1>1 DEF SendFailure, LoseConnection, Goto
<1>10. ASSUME NEW pk, Provision(t, pk)
       PROVE  pc'[t] \in {"stamp", "fail"}
  BY <1>1, <1>2, <1>10 DEF Provision, Raise, Goto
<1>11. CheckUser(t) => pc'[t] \in {"refuse", "expiry", "stamp", "fail"}
  BY <1>1, <1>10 DEF CheckUser, Goto
<1>12. CheckExpiry(t) => pc'[t] \in {"refuse", "load_key", "fail"}
  BY <1>1, <1>2 DEF CheckExpiry, Goto, Raise
<1>13. LoadKey(t) => pc'[t] \in {"stamp", "fail"}
  BY <1>10 DEF LoadKey
<1>14. Stamp(t) => pc'[t] \in {"store_public", "store_session"}
  BY <1>1 DEF Stamp, AfterStamp, Goto
<1>15. StorePublicKey(t) => pc'[t] \in {"store_session", "fail"}
  BY <1>1, <1>2 DEF StorePublicKey, Raise, Goto
<1>16. StoreSessionKey(t) => pc'[t] \in {"send_key", "fail"}
  BY <1>1, <1>2 DEF StoreSessionKey, Raise, Goto
<1> QED
  BY <1>3, <1>4, <1>5, <1>6, <1>7, <1>8, <1>9, <1>11, <1>12, <1>13, <1>14, <1>15, <1>16
     DEF Handle, Register, ExchangeKey

\* Who moves a thread.
LEMMA Mover ==
    ASSUME TypeOK, [Next]_vars, NEW s \in Conns, pc'[s] # "closed",
           ~(pc'[s] = pc[s] /\ req'[s] = req[s])
    PROVE  Request(s) \/ Handle(s)
<1>1. ~Crash /\ ~Tick /\ ~UNCHANGED vars
  BY DEF Crash, Tick, vars
<1>2. PICK t \in Conns : Request(t) \/ Handle(t)
  BY <1>1 DEF Next
<1>3. \A r \in Conns \ {t} : pc'[r] = pc[r] /\ req'[r] = req[r]
  BY <1>2, RequestMoves, HandleMoves DEF Moves
<1> QED
  BY <1>2, <1>3

LEMMA NamesStep ==
    ASSUME OneConnPerName, NamesInv, [Next]_vars
    PROVE  NamesInv'
<1>1. RInv /\ RInv'
  BY TypeStep, FrameStep, TimesStep, ServedIsRecordedStep DEF RInv, NamesInv
<1>2. NamesUnique'
  <2>1. CASE /\ DOMAIN clients' = DOMAIN clients
             /\ \A id \in DOMAIN clients : clients'[id].username = clients[id].username
    BY <2>1 DEF NamesInv, NamesUnique
  <2>2. ASSUME NEW t \in Conns, NEW new \in Ids \ DOMAIN clients,
               InsertClient(t),
               DOMAIN clients' = DOMAIN clients \cup {new},
               clients'[new].username = req[t].username,
               \A id \in DOMAIN clients : clients'[id].username = clients[id].username
        PROVE  NamesUnique'
    <3>1. \A id \in DOMAIN clients : clients[id].username # req[t].username
      BY <2>2 DEF NamesInv, NameFree, UsernameExists, InsertClient
    <3> QED
      BY <2>2, <3>1 DEF NamesInv, NamesUnique
  <2> QED
    BY <1>1, <2>1, <2>2, NamesChange
<1>3. ASSUME NEW s \in Conns, pc'[s] = "insert"
      PROVE  NameFree(s)'
  <2>1. CASE pc'[s] = pc[s] /\ req'[s] = req[s]
    <3>1. \A id \in DOMAIN clients : clients[id].username # req[s].username
      BY <1>3, <2>1 DEF NamesInv, NameFree, UsernameExists
    <3>2. CASE /\ DOMAIN clients' = DOMAIN clients
               /\ \A id \in DOMAIN clients : clients'[id].username = clients[id].username
      BY <2>1, <3>1, <3>2 DEF NameFree, UsernameExists
    <3>3. ASSUME NEW t \in Conns, NEW new \in Ids \ DOMAIN clients,
                 InsertClient(t),
                 DOMAIN clients' = DOMAIN clients \cup {new},
                 clients'[new].username = req[t].username,
                 \A id \in DOMAIN clients : clients'[id].username = clients[id].username
          PROVE  NameFree(s)'
      <4>1. pc[t] = "insert" /\ pc'[t] = "stamp_new"
        BY <1>1, <3>3 DEF InsertClient, Goto, RInv, TypeOK
      <4>2. req[s].username # req[t].username
        BY <1>1, <1>3, <2>1, <4>1, NamesApart DEF NewClientSteps
      <4> QED
        BY <2>1, <3>1, <3>3, <4>2 DEF NameFree, UsernameExists
    <3> QED
      BY <1>1, <3>2, <3>3, NamesChange
  <2>2. CASE ~(pc'[s] = pc[s] /\ req'[s] = req[s])
    <3>1. Request(s) \/ Handle(s)
      BY <1>1, <1>3, <2>2, Mover DEF RInv
    <3>2. CheckName(s)
      BY <1>1, <1>3, <3>1, Arrivals DEF RInv
    <3> QED
      BY <1>1, <3>2 DEF CheckName, Goto, NameFree, RInv, TypeOK, tables
  <2> QED
    BY <2>1, <2>2
<1> QED
  BY <1>1, <1>2, <1>3 DEF NamesInv, NameFree

LEMMA NamesInvariance ==
    ASSUME OneConnPerName
    PROVE  Spec => []NamesInv
<1>1. Init => NamesUnique /\ \A t \in Conns : NameFree(t)
  BY DEF Init, NamesUnique, NameFree
<1>2. RInv /\ NamesUnique /\ (\A t \in Conns : NameFree(t)) => NamesInv
  BY DEF NamesInv
<1>3. NamesInv /\ [Next]_vars => NamesInv'
  BY NamesStep
<1> QED
  BY <1>1, <1>2, <1>3, Invariance, PTL DEF Spec

(***************************************************************************)
(* Checking a name in one transaction and inserting it in another is safe  *)
(* as long as the requests under a name arrive on one connection.          *)
(***************************************************************************)
THEOREM NamesAreUnique ==
    ASSUME OneConnPerName
    PROVE  Spec => []NamesUnique
<1>1. NamesInv => NamesUnique
  BY DEF NamesInv
<1> QED
  BY <1>1, NamesInvariance, PTL

-----------------------------------------------------------------------------
(* The key that is sent.                                                   *)

\* The public key a session key is encrypted under is on record by the time it is stored.
KeyInStep(t) ==
    LET r == req[t]
    IN  t \notin raced =>
          /\ \/ pc[t] \in {"store_session", "send_key"}
             \/ pc[t] = "stamp" /\ r.code = "RE_REGISTRATION"
             => clients[r.user_id].public_key = r.public_key
          /\ pc[t] = "send_key" => clients[r.user_id].aes_key = r.aes_key

KeysInv == RInv /\ \A t \in Conns : KeyInStep(t)

LEMMA KeysStep ==
    ASSUME KeysInv, [Next]_vars
    PROVE  KeysInv'
<1>1. /\ RInv /\ RInv' /\ clients \in [DOMAIN clients -> ClientRow]
      /\ DOMAIN pc = Conns /\ DOMAIN req = Conns
  BY TypeStep, FrameStep, TimesStep, ServedIsRecordedStep DEF RInv, KeysInv, TypeOK
<1>2. ASSUME NEW s \in Conns, NEW t \in Conns, s # t, s \notin raced', pc[s] \in KeyedSteps,
             req[s].user_id = req[t].user_id
      PROVE  /\ StorePublicKey(t) => UNCHANGED clients
             /\ StoreSessionKey(t) /\ clients' # clients => pc[s] # "send_key"
  <2>1. s \in Rivals(t)
    BY <1>2 DEF Rivals, KeyedSteps, KeySteps
  <2> QED
    BY <1>2, <2>1 DEF StorePublicKey, StoreSessionKey
<1>3. ASSUME NEW s \in Conns, pc[s] \in KeyedSteps, s \notin raced',
             ~StorePublicKey(s), ~StoreSessionKey(s)
      PROVE  /\ clients'[req[s].user_id].public_key = clients[req[s].user_id].public_key
             /\ pc[s] = "send_key" =>
                  clients'[req[s].user_id].aes_key = clients[req[s].user_id].aes_key
  <2> DEFINE id == req[s].user_id
  <2>1. id \in DOMAIN clients
    BY <1>1, <1>3 DEF RInv, FrameOK, Frame, HasRow, KeyedSteps, LoadedSteps
  <2>2. CASE UNCHANGED clients
    BY <2>2
  <2>3. ASSUME NEW t \in Conns, InsertClient(t)
        PROVE  clients'[id] = clients[id]
    BY <2>1, <2>3 DEF InsertClient, WithClient
  <2>4. ASSUME NEW t \in Conns, StampNew(t) \/ Stamp(t) \/ BackupActivity(t)
        PROVE  clients'[id].public_key = clients[id].public_key
               /\ clients'[id].aes_key = clients[id].aes_key
    <3>1. PICK i : clients' = WithLastSeen(clients, i, StoredTime(now))
      BY <2>4 DEF StampNew, Stamp, BackupActivity
    <3>2. StoredTime(now) \in Nat
      BY <1>1, StoredTimeIsClose DEF RInv, TypeOK
    <3> QED
      BY <1>1, <2>1, <3>1, <3>2, LastSeenRows
  <2>5. ASSUME NEW t \in Conns, StorePublicKey(t) \/ StoreSessionKey(t), clients' # clients
        PROVE  /\ clients'[id].public_key = clients[id].public_key
               /\ pc[s] = "send_key" => clients'[id].aes_key = clients[id].aes_key
    <3>1. t # s
      BY <1>3, <2>5
    <3>2. CASE req[t].user_id # id
      BY <2>1, <2>5, <3>2 DEF StorePublicKey, StoreSessionKey, WithPublicKey, WithSessionKey
    <3>3. CASE req[t].user_id = id
      <4>1. StoreSessionKey(t) /\ pc[s] # "send_key"
        BY <1>2, <1>3, <2>5, <3>1, <3>3
      <4>2. /\ pc[t] = "store_session"
            /\ clients' = WithSessionKey(clients, req[t].user_id, req[t].username,
                                         req[t].aes_key)
        BY <2>5, <4>1 DEF StoreSessionKey
      <4>3. req[t].aes_key \in Nat
        BY <1>1, <4>2 DEF RInv, FrameOK, Frame, KeyedSteps
      <4> QED
        BY <1>1, <2>1, <4>1, <4>2, <4>3, SessionKeyRows
    <3> QED
      BY <3>2, <3>3
  <2>6. CASE clients' # clients
    <3>1. PICK t \in Conns : \/ InsertClient(t) \/ StampNew(t) \/ Stamp(t) \/ BackupActivity(t)
                             \/ StorePublicKey(t) \/ StoreSessionKey(t)
      BY <2>6, ClientsStep
    <3> QED
      BY <2>3, <2>4, <2>5, <2>6, <3>1
  <2> QED
    BY <2>2, <2>6
<1>4. ASSUME NEW s \in Conns, pc'[s] = pc[s], req'[s] = req[s]
      PROVE  KeyInStep(s)'
  <2>1. CASE pc[s] \in KeyedSteps /\ s \notin raced'
    <3>1. ~StorePublicKey(s) /\ ~StoreSessionKey(s)
      BY <1>1, <1>4 DEF StorePublicKey, StoreSessionKey, Raise, Leave, Goto
    <3>2. s \notin raced
      BY <1>1, <1>4, <2>1, RacedStep DEF KeyedSteps, RInv
    <3> QED
      BY <1>3, <1>4, <2>1, <3>1, <3>2 DEF KeysInv, KeyInStep
  <2>2. CASE pc[s] \notin KeyedSteps \/ s \in raced'
    BY <1>4, <2>2 DEF KeyInStep, KeyedSteps
  <2> QED
    BY <2>1, <2>2
<1>5. ASSUME NEW s \in Conns, ~(pc'[s] = pc[s] /\ req'[s] = req[s]), s \notin raced'
      PROVE  KeyInStep(s)'
  <2> DEFINE r == req[s]
  <2>1. CASE pc'[s] \notin {"stamp", "store_session", "send_key"}
    BY <2>1 DEF KeyInStep
  <2>2. CASE pc'[s] = "stamp"
    <3>1. CheckUser(s) \/ LoadKey(s)
      BY <1>1, <1>5, <2>2, Mover, Arrivals DEF RInv
    <3>2. r \in Requests
      <4>1. pc[s] \in Steps \ {"fail"}
        BY <3>1 DEF CheckUser, LoadKey, Steps, KeySteps
      <4> QED
        BY <1>1, <4>1, FrameOf
    <3>3. CASE CheckUser(s)
      <4>1. r.code = "PUBLIC_KEY_SEND" /\ Provision(s, r.public_key)
        BY <1>1, <2>2, <3>3 DEF CheckUser, Goto
      <4>2. req'[s] = [r EXCEPT !.public_key = r.public_key, !.aes_key = issued + 1]
        BY <1>1, <2>2, <4>1 DEF Provision, Raise, Leave, Goto
      <4>3. req'[s].code = r.code
        BY <3>2, <4>2 DEF Requests
      <4> QED
        BY <2>2, <4>1, <4>3 DEF KeyInStep
    <3>4. CASE LoadKey(s)
      <4>1. Provision(s, clients[r.user_id].public_key)
        BY <3>4 DEF LoadKey
      <4>2. PICK pk : /\ pk = clients[r.user_id].public_key
                      /\ req'[s] = [r EXCEPT !.public_key = pk, !.aes_key = issued + 1]
                      /\ UNCHANGED clients
        BY <1>1, <2>2, <4>1 DEF Provision, Raise, Leave, Goto, tables
      <4>3. req'[s].public_key = pk /\ req'[s].user_id = r.user_id
        BY <3>2, <4>2 DEF Requests
      <4> QED
        BY <2>2, <4>2, <4>3 DEF KeyInStep
    <3> QED
      BY <3>1, <3>3, <3>4
  <2>3. CASE pc'[s] = "store_session"
    <3>1. Stamp(s) \/ StorePublicKey(s)
      BY <1>1, <1>5, <2>3, Mover, Arrivals DEF RInv
    <3>2. CASE Stamp(s)
      <4>1. pc[s] = "stamp" /\ r.code # "PUBLIC_KEY_SEND" /\ req' = req
        BY <1>1, <2>3, <3>2 DEF Stamp, AfterStamp, Goto
      <4>2. r.code = "RE_REGISTRATION"
        <5>1. r.code # "REGISTRATION" /\ r \in Requests
          BY <1>1, <4>1 DEF RInv, FrameOK, Frame, KeySteps, Steps
        <5> QED
          BY <4>1, <5>1 DEF Requests, RegistrationCodes
      <4>3. clients'[r.user_id].public_key = clients[r.user_id].public_key
        BY <1>3, <1>5, <4>1 DEF StorePublicKey, StoreSessionKey, KeyedSteps
      <4>4. s \notin raced
        BY <1>5, <3>2 DEF Stamp
      <4> QED
        BY <2>3, <4>1, <4>2, <4>3, <4>4 DEF KeysInv, KeyInStep
    <3>3. CASE StorePublicKey(s)
      <4>1. /\ pc[s] = "store_public" /\ req' = req
            /\ HasRow(clients, r.user_id, r.username)
            /\ clients' = WithPublicKey(clients, r.user_id, r.username, r.public_key)
        BY <1>1, <2>3, <3>3 DEF StorePublicKey, Raise, Leave, Goto
      <4>2. r.public_key \in PublicKeys
        BY <1>1, <4>1 DEF RInv, FrameOK, Frame, KeyedSteps
      <4>3. clients'[r.user_id].public_key = r.public_key
        BY <1>1, <4>1, <4>2, PublicKeyRows DEF HasRow
      <4> QED
        BY <2>3, <4>1, <4>3 DEF KeyInStep
    <3> QED
      BY <3>1, <3>2, <3>3
  <2>4. CASE pc'[s] = "send_key"
    <3>1. StoreSessionKey(s)
      BY <1>1, <1>5, <2>4, Mover, Arrivals DEF RInv
    <3>2. /\ pc[s] = "store_session" /\ req' = req
          /\ HasRow(clients, r.user_id, r.username)
          /\ clients' = WithSessionKey(clients, r.user_id, r.username, r.aes_key)
      BY <1>1, <2>4, <3>1 DEF StoreSessionKey, Raise, Leave, Goto
    <3>3. r.aes_key \in Nat /\ clients[r.user_id].public_key = r.public_key
      <4>1. s \notin raced
        BY <1>5, <3>1 DEF StoreSessionKey
      <4> QED
        BY <1>1, <3>2, <4>1 DEF RInv, FrameOK, Frame, KeyedSteps, KeysInv, KeyInStep
    <3>4. /\ clients'[r.user_id].public_key = r.public_key
          /\ clients'[r.user_id].aes_key = r.aes_key
      BY <1>1, <3>2, <3>3, SessionKeyRows DEF HasRow
    <3> QED
      BY <2>4, <3>2, <3>4 DEF KeyInStep
  <2> QED
    BY <2>1, <2>2, <2>3, <2>4
<1>6. ASSUME NEW s \in Conns, s \in raced'
      PROVE  KeyInStep(s)'
  BY <1>6 DEF KeyInStep
<1> QED
  BY <1>1, <1>4, <1>5, <1>6 DEF KeysInv

(***************************************************************************)
(* Whatever else is going on: the session key a client is about to get is  *)
(* the one on record, encrypted under the public key on record, unless     *)
(* another connection stored a key of the same client since.               *)
(***************************************************************************)
THEOREM KeysAreCurrent ==
    Spec => []KeyIsCurrent
<1>1. Init => \A t \in Conns : KeyInStep(t)
  BY DEF Init, KeyInStep
<1>2. RInv /\ (\A t \in Conns : KeyInStep(t)) => KeysInv
  BY DEF KeysInv
<1>3. KeysInv /\ [Next]_vars => KeysInv'
  BY KeysStep
<1>4. KeysInv => KeyIsCurrent
  BY DEF KeysInv, KeyIsCurrent, KeyInStep, RInv, FrameOK, Frame, LoadedSteps
<1> QED
  BY <1>1, <1>2, <1>3, <1>4, Invariance, PTL DEF Spec

-----------------------------------------------------------------------------
(* Refusals.                                                               *)

\* What a client had heard when it sent a request for a key is still on record.
Claim(t) ==
    LET r == req[t]
    IN  pc[t] \in KeySteps =>
            /\ r.user_id = ReadId(r.sent)
            /\ r.heard # Null =>
                  /\ HasRow(clients, r.sent, r.username)
                  /\ r.heard \in Nat /\ r.heard <= now
                  /\ SeenSince(r.sent, r.heard)

\* A refusal that RightfulIsServed allows.
RefusedRightly(t) ==
    LET r == req[t]
    IN  pc[t] = "refuse" /\ r.heard # Null =>
            \/ r.sent \in RoundIds
            \/ \E id \in DOMAIN clients \ {r.sent} : clients[id].username = r.username
            \/ r.code = "RE_REGISTRATION" /\ now - r.heard > Window - Second

RefusalInv == RInv /\ \A t \in Conns : Claim(t) /\ RefusedRightly(t)

LEMMA HeardIsOnRecord ==
    ASSUME RInv, NEW id, NEW name, Heard(id, name) # Null
    PROVE  LET time == Heard(id, name)
           IN  /\ HasRow(clients, id, name)
               /\ time \in Nat /\ time <= now
               /\ SeenSince(id, time)
<1>1. /\ id \in DOMAIN served /\ served[id].username = name
      /\ Heard(id, name) = served[id].since
  BY DEF Heard
<1>2. served[id] \in Told
  BY <1>1 DEF RInv, TypeOK
<1>3. served[id].since \in Nat /\ served[id].since <= now
  BY <1>1, <1>2 DEF Told, RInv, TimesOK
<1>4. HasRow(clients, id, name) /\ SeenSince(id, served[id].since)
  BY <1>1 DEF RInv, ServedIsRecorded, SeenSince
<1> QED
  BY <1>1, <1>3, <1>4

\* The fields that identify the client stay what they were through an exchange.
LEMMA SameClient ==
    ASSUME RInv, NEW t \in Conns, Request(t) \/ Handle(t), pc'[t] \in KeySteps
    PROVE  \/ ReceivePublicKey(t) \/ ReceiveReRegistration(t) \/ UNCHANGED <<pc, req>>
           \/ /\ pc[t] \in KeySteps
              /\ req'[t].user_id = req[t].user_id /\ req'[t].username = req[t].username
              /\ req'[t].sent = req[t].sent /\ req'[t].heard = req[t].heard
<1>1. DOMAIN pc = Conns /\ DOMAIN req = Conns
  BY DEF RInv, TypeOK
<1>2. ASSUME NEW s, Leave(t, s)
      PROVE  pc'[t] = s
  BY <1>1, <1>2 DEF Leave, Goto
<1>3. ASSUME Request(t), ~ReceivePublicKey(t), ~ReceiveReRegistration(t)
      PROVE  UNCHANGED <<pc, req>>
  <2>1. Connect(t) \/ Disconnect(t) => pc'[t] \in {"idle", "closed"}
    BY <1>1 DEF Connect, Disconnect, Goto
  <2>2. ReceiveRegistration(t) => pc'[t] \in {"refuse", "check_name"}
    BY <1>1 DEF ReceiveRegistration, Receive, Goto
  <2>3. BackupActivity(t) => UNCHANGED <<pc, req>>
    BY DEF BackupActivity
  <2> QED
    BY <1>3, <2>1, <2>2, <2>3 DEF Request, KeySteps
<1>4. ~Register(t)
  <2>1. CheckName(t) \/ InsertClient(t) \/ StampNew(t) \/ MakeDirectory(t)
          => pc'[t] \in {"taken", "insert", "stamp_new", "mkdir", "welcome"}
    BY <1>1 DEF CheckName, InsertClient, StampNew, MakeDirectory, Goto
  <2>2. SendWelcome(t) \/ SendRefusal(t) => pc'[t] = "idle"
    BY <1>2 DEF SendWelcome, SendRefusal
  <2> QED
    BY <2>1, <2>2 DEF Register, KeySteps
<1>5. ~HandlerError(t) /\ ~CheckUserFails(t) /\ ~LoadKeyFails(t) /\ ~SendKey(t) /\ ~Raise(t)
  <2>1. pc'[t] \notin {"idle", "fail"}
    BY DEF KeySteps
  <2> QED
    BY <1>2, <2>1 DEF HandlerError, DatabaseError, DiskError, SendError, CheckUserFails,
                      LoadKeyFails, SendKey, Raise
<1>6. ~SendFailure(t) /\ ~LoseConnection(t)
  BY <1>1 DEF SendFailure, LoseConnection, Goto, KeySteps
<1>7. ASSUME NEW pk, Provision(t, pk), pc[t] \in {"check_user", "load_key"}
      PROVE  /\ req'[t].user_id = req[t].user_id /\ req'[t].username = req[t].username
             /\ req'[t].sent = req[t].sent /\ req'[t].heard = req[t].heard
  <2>1. req'[t] = [req[t] EXCEPT !.public_key = pk, !.aes_key = issued + 1]
    BY <1>1, <1>5, <1>7 DEF Provision
  <2>2. req[t] \in Requests
    BY <1>7, FrameOf DEF Steps, KeySteps
  <2> QED
    BY <2>1, <2>2 DEF Requests
<1>8. CASE CheckUser(t) \/ LoadKey(t)
  <2>1. pc[t] \in {"check_user", "load_key"}
    BY <1>8 DEF CheckUser, LoadKey
  <2>2. UNCHANGED req \/ \E pk : Provision(t, pk)
    BY <1>8 DEF CheckUser, LoadKey
  <2> QED
    BY <1>7, <2>1, <2>2 DEF KeySteps
<1>9. CASE CheckExpiry(t) \/ Stamp(t) \/ StorePublicKey(t) \/ StoreSessionKey(t)
  <2>1. pc[t] \in KeySteps
    BY <1>9 DEF CheckExpiry, Stamp, StorePublicKey, StoreSessionKey, KeySteps
  <2>2. UNCHANGED req
    BY <1>5, <1>9 DEF CheckExpiry, Stamp, StorePublicKey, StoreSessionKey
  <2> QED
    BY <2>1, <2>2
<1> QED
  BY <1>3, <1>4, <1>5, <1>6, <1>8, <1>9 DEF Handle, ExchangeKey

LEMMA ClaimStep ==
    ASSUME RefusalInv, [Next]_vars, NEW t \in Conns
    PROVE  Claim(t)'
<1> DEFINE r == req[t]
<1>1. RInv /\ TypeOK /\ Grows /\ now \in Nat /\ now' \in Nat
  BY GrowsStep, OtherFields DEF RefusalInv, RInv, TypeOK
<1>2. ASSUME pc[t] \in KeySteps,
             req'[t].user_id = r.user_id, req'[t].username = r.username,
             req'[t].sent = r.sent, req'[t].heard = r.heard
      PROVE  Claim(t)'
  <2>1. r.user_id = ReadId(r.sent)
    BY <1>2 DEF RefusalInv, Claim
  <2>2. ASSUME r.heard # Null
        PROVE  /\ HasRow(clients', r.sent, r.username)
               /\ r.heard \in Nat /\ r.heard <= now'
               /\ clients'[r.sent].last_seen # Null
               /\ clients'[r.sent].last_seen + Second > r.heard
    <3>1. /\ HasRow(clients, r.sent, r.username) /\ r.heard \in Nat /\ r.heard <= now
          /\ SeenSince(r.sent, r.heard)
      BY <1>2, <2>2 DEF RefusalInv, Claim
    <3>2. PICK id \in DOMAIN clients, time \in Nat : id = r.sent /\ time = r.heard
      BY <3>1 DEF HasRow
    <3>3. SeenSince(id, time)' /\ HasRow(clients', r.sent, r.username) /\ now <= now'
      BY <1>1, <3>1, <3>2 DEF Grows, HasRow
    <3> QED
      BY <1>1, <3>1, <3>2, <3>3 DEF SeenSince
  <2> QED
    BY <1>2, <2>1, <2>2 DEF Claim, SeenSince
<1>3. CASE pc'[t] = pc[t] /\ req'[t] = req[t]
  BY <1>2, <1>3 DEF Claim
<1>4. CASE ~(pc'[t] = pc[t] /\ req'[t] = req[t]) /\ pc'[t] \in KeySteps
  <2>1. pc'[t] # "closed"
    BY <1>4 DEF KeySteps
  <2>2. Request(t) \/ Handle(t)
    BY <1>1, <1>4, <2>1, Mover
  <2>3. CASE ReceivePublicKey(t) \/ ReceiveReRegistration(t)
    <3>1. PICK code, id, name, pk : Receive(t, code, id, name, pk, "check_user")
      BY <2>3 DEF ReceivePublicKey, ReceiveReRegistration
    <3>2. /\ req'[t].user_id = ReadId(id) /\ req'[t].username = name
          /\ req'[t].sent = id /\ req'[t].heard = Heard(id, name)
          /\ UNCHANGED <<clients, now>>
      BY <1>1, <3>1 DEF Receive, TypeOK, tables
    <3> QED
      BY <1>1, <3>2, HeardIsOnRecord DEF Claim, SeenSince
  <2> QED
    BY <1>1, <1>2, <1>4, <2>2, <2>3, SameClient
<1> QED
  BY <1>3, <1>4 DEF Claim

LEMMA RefusalStep ==
    ASSUME RefusalInv, [Next]_vars
    PROVE  RefusalInv'
<1>1. /\ RInv /\ RInv' /\ TypeOK /\ Grows
      /\ DOMAIN pc = Conns /\ DOMAIN req = Conns
      /\ now \in Nat /\ now' \in Nat /\ now <= now'
      /\ Window \in Nat /\ Second \in Nat
  BY GrowsStep, OtherFields, TypeStep, FrameStep, TimesStep, ServedIsRecordedStep,
     RegistrationAssumption DEF RefusalInv, RInv, TypeOK
<1>2. ASSUME NEW s \in Conns, pc'[s] = pc[s], req'[s] = req[s], pc[s] = "refuse"
      PROVE  RefusedRightly(s)'
  <2> DEFINE r == req[s]
  <2>1. SUFFICES ASSUME r.heard # Null, r.sent \notin RoundIds
                 PROVE  \/ \E id \in DOMAIN clients' \ {r.sent} :
                              clients'[id].username = r.username
                        \/ r.code = "RE_REGISTRATION" /\ now' - r.heard > Window - Second
    BY <1>2 DEF RefusedRightly
  <2>2. CASE \E id \in DOMAIN clients \ {r.sent} : clients[id].username = r.username
    BY <1>1, <2>2 DEF Grows
  <2>3. CASE r.code = "RE_REGISTRATION" /\ now - r.heard > Window - Second
    <3>1. r \in Requests
      BY <1>1, <1>2, FrameOf DEF Steps
    <3>2. r.heard \in Nat
      BY <2>1, <3>1 DEF Requests
    <3> QED
      BY <1>1, <2>3, <3>2
  <2> QED
    BY <1>2, <2>1, <2>2, <2>3 DEF RefusalInv, RefusedRightly
<1>3. ASSUME NEW s \in Conns, ~(pc'[s] = pc[s] /\ req'[s] = req[s]), pc'[s] = "refuse"
      PROVE  RefusedRightly(s)'
  <2> DEFINE r == req[s]
  <2>1. ReceiveRegistration(s) \/ CheckUser(s) \/ CheckExpiry(s)
    BY <1>1, <1>3, Mover, Arrivals
  <2>2. CASE ReceiveRegistration(s)
    <3>1. PICK name : req'[s].heard = Heard(Null, name)
      BY <1>1, <2>2 DEF ReceiveRegistration, Receive
    <3>2. Heard(Null, name) = Null
      BY <1>1, NullAssumption DEF Heard, TypeOK
    <3> QED
      BY <3>1, <3>2 DEF RefusedRightly
  <2>3. ASSUME pc[s] \in KeySteps, r.heard # Null, r.sent \notin RoundIds
        PROVE  /\ r.user_id = r.sent /\ r.sent \in DOMAIN clients
               /\ r.heard \in Nat /\ SeenSince(r.sent, r.heard)
    BY <2>3 DEF RefusalInv, Claim, ReadId, HasRow
  <2>4. CASE CheckUser(s)
    <3>1. pc[s] = "check_user" /\ UNCHANGED <<req, clients>>
      BY <1>1, <1>3, <2>4 DEF CheckUser, Provision, Raise, Leave, Goto, tables
    <3>2. PICK id \in IdsOf(clients, r.username) : id # r.user_id
      BY <1>1, <1>3, <2>4 DEF CheckUser, Provision, Raise, Leave, Goto
    <3>3. id \in DOMAIN clients /\ clients[id].username = r.username
      BY DEF IdsOf
    <3> QED
      BY <2>3, <3>1, <3>2, <3>3 DEF RefusedRightly, KeySteps
  <2>5. CASE CheckExpiry(s)
    <3>1. /\ pc[s] = "expiry" /\ UNCHANGED <<req, now>>
          /\ now - clients[r.user_id].last_seen > Window
          /\ clients[r.user_id].last_seen # Null
      BY <1>1, <1>3, <2>5 DEF CheckExpiry, Raise, Leave, Goto
    <3>2. r.code = "RE_REGISTRATION"
      BY <1>1, <3>1 DEF RInv, FrameOK, Frame
    <3>3. ASSUME r.heard # Null, r.sent \notin RoundIds
          PROVE  now - r.heard > Window - Second
      <4>1. /\ r.user_id = r.sent /\ r.sent \in DOMAIN clients
            /\ r.heard \in Nat /\ SeenSince(r.sent, r.heard)
        BY <2>3, <3>1, <3>3 DEF KeySteps
      <4>2. clients[r.sent] \in ClientRow
        BY <1>1, <4>1 DEF TypeOK
      <4>3. PICK seen \in Nat : seen = clients[r.sent].last_seen
        BY <3>1, <4>1, <4>2 DEF ClientRow
      <4>4. seen + Second > r.heard /\ now - seen > Window
        BY <3>1, <4>1, <4>3 DEF SeenSince
      <4> QED
        BY <1>1, <4>1, <4>4
    <3> QED
      BY <3>1, <3>2, <3>3 DEF RefusedRightly
  <2> QED
    BY <2>1, <2>2, <2>4, <2>5
<1>4. ASSUME NEW s \in Conns, pc'[s] # "refuse"
      PROVE  RefusedRightly(s)'
  BY <1>4 DEF RefusedRightly
<1> QED
  BY <1>1, <1>2, <1>3, <1>4, ClaimStep DEF RefusalInv

(***************************************************************************)
(* A client that uses what it was given, on any connection and under every *)
(* fault, is turned away for one of three reasons: its id ends in a zero,  *)
(* its name is on record twice, or it re-registers too late.               *)
(***************************************************************************)
THEOREM RightfulAreServed ==
    Spec => []RightfulIsServed
<1>1. Init => \A t \in Conns : Claim(t) /\ RefusedRightly(t)
  BY DEF Init, Claim, RefusedRightly, KeySteps
<1>2. RInv /\ (\A t \in Conns : Claim(t) /\ RefusedRightly(t)) => RefusalInv
  BY DEF RefusalInv
<1>3. RefusalInv /\ [Next]_vars => RefusalInv'
  BY RefusalStep
<1>4. RefusalInv => RightfulIsServed
  BY DEF RefusalInv, RefusedRightly, RightfulIsServed
<1> QED
  BY <1>1, <1>2, <1>3, <1>4, Invariance, PTL DEF Spec
=============================================================================
