---------------------------- MODULE Registration ----------------------------
(***************************************************************************)
(* Registration, public keys and re-registration:                          *)
(* services/registration_service.py and services/session_key_service.py,   *)
(* run by the connection threads of handlers/server_handler.py.  The       *)
(* threads share the clients table, the user directories and the clock.    *)
(*                                                                         *)
(* One action is one access to shared state, together with the local work  *)
(* of the handler up to the next one.                                      *)
(***************************************************************************)
EXTENDS ClientsTable, Integers, FiniteSets

CONSTANTS
    Conns,      \* connection threads
    Serves,     \* Serves[t]: the user names that requests on connection t carry
    BadName,    \* a user name that _validate_username refuses
    BadKey,     \* bytes that RSA.import_key refuses
    NoReq,
    RoundIds,   \* the ids whose last hexadecimal digit is 0
    Second,     \* ticks of the clock in a second
    Window,     \* RE_REGISTRATION_WINDOW_DAYS, in ticks of the clock
    MaxTime,    \* bound: ticks of the clock
    MaxKeys,    \* bound: session keys generated
    MaxClients, \* bound: clients registered
    Faults      \* the faults of the environment: a subset of FaultKinds

FaultKinds == {"db", "disk", "send", "crash"}

ASSUME RegistrationAssumption ==
    /\ Serves \in [Conns -> SUBSET Usernames]
    /\ BadName \notin Usernames
    /\ BadKey \notin PublicKeys \cup {Null}
    /\ RoundIds \subseteq Ids
    /\ Second \in Nat \ {0}
    /\ Window \in Nat /\ MaxTime \in Nat /\ MaxKeys \in Nat /\ MaxClients \in Nat
    /\ Faults \subseteq FaultKinds

VARIABLES
    clients,   \* the clients table
    dirs,      \* ids that have a directory
    now,       \* the clock
    issued,    \* number of session keys generated
    served,    \* history: what each client was last told, by id
    raced,     \* history: threads whose keys another thread has since replaced
    pc,        \* where each connection thread stands
    req,       \* the request it is handling and the handler's locals
    replies    \* number of responses sent for its last request

tables == <<clients, dirs>>
vars == <<clients, dirs, now, issued, served, raced, pc, req, replies>>

RegistrationCodes == {"REGISTRATION", "PUBLIC_KEY_SEND", "RE_REGISTRATION"}

(***************************************************************************)
(* user_id is the id read from the header, and later the id the handler    *)
(* generated; public_key is the one received, and later the one loaded;    *)
(* aes_key is the number of the key generated; since is when the request   *)
(* arrived.  Only properties read the other two: sent is the id the client *)
(* sent, and heard the time of the last request it had success with under  *)
(* that id and name (Null: none).                                          *)
(***************************************************************************)
Requests == [code : RegistrationCodes, user_id : Ids \cup {Null},
             username : Usernames \cup {BadName},
             public_key : PublicKeys \cup {BadKey, Null},
             aes_key : Nat \cup {Null}, since : Nat,
             sent : Ids \cup {Null}, heard : Nat \cup {Null}]

NewClientSteps == {"check_name", "insert", "stamp_new", "mkdir", "welcome", "taken"}
KeySteps == {"check_user", "expiry", "load_key", "stamp", "store_public",
             "store_session", "send_key"}
Steps == NewClientSteps \cup KeySteps \cup {"refuse", "fail"}

\* What a client was told: its name, whether it got a key, and for which request.
Told == [username : Usernames, keyed : BOOLEAN, since : Nat]

Init ==
    /\ clients = [id \in {} |-> Null]
    /\ dirs = {}
    /\ now = 0
    /\ issued = 0
    /\ served = [id \in {} |-> Null]
    /\ raced = {}
    /\ pc = [t \in Conns |-> "closed"]
    /\ req = [t \in Conns |-> NoReq]
    /\ replies = [t \in Conns |-> 0]

Goto(t, s) == pc' = [pc EXCEPT ![t] = s]

\* The handler's frame is gone: it returned or raised.
Leave(t, s) == Goto(t, s) /\ req' = [req EXCEPT ![t] = NoReq]

\* The exception reaches handle_client, which answers FAILED.
Raise(t) == Leave(t, "fail")

\* ResponseSender.send
Reply(t) == replies' = [replies EXCEPT ![t] = @ + 1]

-----------------------------------------------------------------------------
(* Connections and requests.                                               *)

Connect(t) ==
    /\ pc[t] = "closed"
    /\ Goto(t, "idle")
    /\ UNCHANGED <<tables, now, issued, served, raced, req, replies>>

Disconnect(t) ==
    /\ pc[t] = "idle"
    /\ Goto(t, "closed")
    /\ replies' = [replies EXCEPT ![t] = 0]
    /\ UNCHANGED <<tables, now, issued, served, raced, req>>

\* Bounds: a request that may register a client or need a key finds room for it.
InFlight(codes) == Cardinality({t \in Conns : pc[t] \in Steps /\ req[t] # NoReq /\ req[t].code \in codes})
ClientRoom == Cardinality(DOMAIN clients) + InFlight({"REGISTRATION"}) < MaxClients
KeyRoom == issued + InFlight({"PUBLIC_KEY_SEND", "RE_REGISTRATION"}) < MaxKeys

(***************************************************************************)
(* _read_user_id drops the zeros an id ends with, and what is left is      *)
(* nobody's id (WireFormatProofs!IdsStayApart).                            *)
(***************************************************************************)
ReadId(id) == IF id \in RoundIds THEN Null ELSE id

Heard(id, name) ==
    IF id \in DOMAIN served /\ served[id].username = name THEN served[id].since ELSE Null

Receive(t, code, id, name, pk, s) ==
    /\ pc[t] = "idle"
    /\ Goto(t, s)
    /\ req' = [req EXCEPT ![t] = [code |-> code, user_id |-> ReadId(id), username |-> name,
                                  public_key |-> pk, aes_key |-> Null, since |-> now,
                                  sent |-> id, heard |-> Heard(id, name)]]
    /\ replies' = [replies EXCEPT ![t] = 0]
    /\ raced' = raced \ {t}
    /\ UNCHANGED <<tables, now, issued, served>>

\* handle_client_registration, up to username_exists.
ReceiveRegistration(t) ==
    \/ Receive(t, "REGISTRATION", Null, BadName, Null, "refuse")
    \/ /\ ClientRoom
       /\ \E name \in Serves[t] : Receive(t, "REGISTRATION", Null, name, Null, "check_name")

(***************************************************************************)
(* A client sends an id that the server gave out, to it or to another      *)
(* client, or one that is no client's (Null).                              *)
(***************************************************************************)
SentIds == DOMAIN served \cup {Null}

ReceivePublicKey(t) ==
    /\ KeyRoom
    /\ \E id \in SentIds, name \in Serves[t], pk \in PublicKeys \cup {BadKey} :
          Receive(t, "PUBLIC_KEY_SEND", id, name, pk, "check_user")

ReceiveReRegistration(t) ==
    /\ KeyRoom
    /\ \E id \in SentIds, name \in Serves[t] :
          Receive(t, "RE_REGISTRATION", id, name, Null, "check_user")

(***************************************************************************)
(* DATE_FORMAT has no fraction of a second: a stored time is cut to the    *)
(* second it falls in.                                                     *)
(***************************************************************************)
StoredTime(time) == time - (time % Second)

(***************************************************************************)
(* A backup request of a client, which BackupService models: here it only  *)
(* brings last_seen up to date; an id that ends in zero finds no row.      *)
(***************************************************************************)
BackupActivity(t) ==
    /\ pc[t] = "idle"
    /\ \E id \in DOMAIN clients \ RoundIds :
          /\ clients[id].username \in Serves[t]
          /\ clients' = WithLastSeen(clients, id, StoredTime(now))
    /\ UNCHANGED <<dirs, now, issued, served, raced, pc, req, replies>>

-----------------------------------------------------------------------------
(* handle_client_registration                                              *)

\* Mutant: the name is not looked up.
CheckNothing(t) ==
    /\ pc[t] = "check_name"
    /\ Goto(t, "insert")
    /\ UNCHANGED <<tables, now, issued, served, raced, req, replies>>

CheckName(t) ==
    /\ pc[t] = "check_name"
    /\ Goto(t, IF UsernameExists(clients, req[t].username) THEN "taken" ELSE "insert")
    /\ UNCHANGED <<tables, now, issued, served, raced, req, replies>>

\* generate_uuid, which never returns an id again, and add_client.
InsertClient(t) ==
    /\ pc[t] = "insert"
    /\ \E id \in Ids \ DOMAIN clients :
          /\ clients' = WithClient(clients, id, req[t].username)
          /\ req' = [req EXCEPT ![t] = [@ EXCEPT !.user_id = id]]
    /\ Goto(t, "stamp_new")
    /\ UNCHANGED <<dirs, now, issued, served, raced, replies>>

\* Mutant: the client is told before its directory exists.
StampAndWelcome(t) ==
    /\ pc[t] = "stamp_new"
    /\ clients' = WithLastSeen(clients, req[t].user_id, StoredTime(now))
    /\ Goto(t, "welcome")
    /\ UNCHANGED <<dirs, now, issued, served, raced, req, replies>>

StampNew(t) ==
    /\ pc[t] = "stamp_new"
    /\ clients' = WithLastSeen(clients, req[t].user_id, StoredTime(now))
    /\ Goto(t, "mkdir")
    /\ UNCHANGED <<dirs, now, issued, served, raced, req, replies>>

\* mkdir(exist_ok=False)
MakeDirectory(t) ==
    /\ pc[t] = "mkdir"
    /\ req[t].user_id \notin dirs
    /\ dirs' = dirs \cup {req[t].user_id}
    /\ Goto(t, "welcome")
    /\ UNCHANGED <<clients, now, issued, served, raced, req, replies>>

-----------------------------------------------------------------------------
(* handle_public_key_send and handle_client_re_registration                *)

\* Mutant: a key is stored before anything was encrypted under it.
ProvisionUnchecked(t, pk) ==
    /\ issued' = issued + 1
    /\ Goto(t, "stamp")
    /\ req' = [req EXCEPT ![t] = [@ EXCEPT !.public_key = pk, !.aes_key = issued + 1]]
    /\ UNCHANGED <<tables, now, served, replies>>

(***************************************************************************)
(* provision_session_key: a key is generated and encrypted; only a public  *)
(* key that can be imported gets past that.                                *)
(***************************************************************************)
Provision(t, pk) ==
    /\ issued' = issued + 1
    /\ IF pk = BadKey
       THEN Raise(t)
       ELSE /\ Goto(t, "stamp")
            /\ req' = [req EXCEPT ![t] = [@ EXCEPT !.public_key = pk, !.aes_key = issued + 1]]
    /\ UNCHANGED <<tables, now, served, replies>>

\* _is_registered_user
CheckUser(t) ==
    /\ pc[t] = "check_user"
    /\ \E id \in IdsOf(clients, req[t].username) :
          \/ /\ id # req[t].user_id
             /\ Goto(t, "refuse")
             /\ UNCHANGED <<tables, now, issued, served, raced, req, replies>>
          \/ /\ id = req[t].user_id
             /\ req[t].code = "RE_REGISTRATION"
             /\ Goto(t, "expiry")
             /\ UNCHANGED <<tables, now, issued, served, raced, req, replies>>
          \/ /\ id = req[t].user_id
             /\ req[t].code = "PUBLIC_KEY_SEND"
             /\ Provision(t, req[t].public_key)
             /\ UNCHANGED raced

CheckUserFails(t) ==
    /\ pc[t] = "check_user"
    /\ IdsOf(clients, req[t].username) = {}
    /\ Raise(t)
    /\ UNCHANGED <<tables, now, issued, served, raced, replies>>

\* _is_re_registration_expired; the clock does not tick between its two reads.
CheckExpiry(t) ==
    /\ pc[t] = "expiry"
    /\ LET seen == clients[req[t].user_id].last_seen
       IN  IF seen = Null
           THEN Raise(t)
           ELSE /\ Goto(t, IF now - seen > Window THEN "refuse" ELSE "load_key")
                /\ UNCHANGED req
    /\ UNCHANGED <<tables, now, issued, served, raced, replies>>

\* get_public_key
LoadKey(t) ==
    /\ pc[t] = "load_key"
    /\ clients[req[t].user_id].public_key # Null
    /\ Provision(t, clients[req[t].user_id].public_key)
    /\ raced' = raced \ {t}

LoadKeyFails(t) ==
    /\ pc[t] = "load_key"
    /\ clients[req[t].user_id].public_key = Null
    /\ Raise(t)
    /\ UNCHANGED <<tables, now, issued, served, raced, replies>>

\* Mutant: the public key that was received is not stored.
AfterStampForgets(t) == "store_session"

AfterStamp(t) == IF req[t].code = "PUBLIC_KEY_SEND" THEN "store_public" ELSE "store_session"

\* Mutant: provision_session_key does not bring last_seen up to date.
NoStamp(t) ==
    /\ pc[t] = "stamp"
    /\ Goto(t, AfterStamp(t))
    /\ UNCHANGED <<tables, now, issued, served, raced, req, replies>>

Stamp(t) ==
    /\ pc[t] = "stamp"
    /\ clients' = WithLastSeen(clients, req[t].user_id, StoredTime(now))
    /\ Goto(t, AfterStamp(t))
    /\ UNCHANGED <<dirs, now, issued, served, raced, req, replies>>

\* The other threads at work on the keys of the client.
Rivals(t) == {s \in Conns \ {t} : pc[s] \in KeySteps /\ req[s].user_id = req[t].user_id}

StorePublicKey(t) ==
    /\ pc[t] = "store_public"
    /\ IF HasRow(clients, req[t].user_id, req[t].username)
       THEN /\ clients' = WithPublicKey(clients, req[t].user_id, req[t].username,
                                        req[t].public_key)
            /\ Goto(t, "store_session")
            /\ raced' = (raced \cup Rivals(t)) \ {t}
            /\ UNCHANGED req
       ELSE Raise(t) /\ UNCHANGED <<clients, raced>>
    /\ UNCHANGED <<dirs, now, issued, served, replies>>

StoreSessionKey(t) ==
    /\ pc[t] = "store_session"
    /\ IF HasRow(clients, req[t].user_id, req[t].username)
       THEN /\ clients' = WithSessionKey(clients, req[t].user_id, req[t].username,
                                         req[t].aes_key)
            /\ Goto(t, "send_key")
            /\ raced' = raced \cup {s \in Rivals(t) : pc[s] = "send_key"}
            /\ UNCHANGED req
       ELSE Raise(t) /\ UNCHANGED <<clients, raced>>
    /\ UNCHANGED <<dirs, now, issued, served, replies>>

-----------------------------------------------------------------------------
(* Responses.                                                              *)

\* send_username_taken; send_registration_failed or send_re_registration_failed.
SendRefusal(t) ==
    /\ pc[t] \in {"refuse", "taken"}
    /\ Reply(t)
    /\ Leave(t, "idle")
    /\ UNCHANGED <<tables, now, issued, served, raced>>

Tell(t, keyed) ==
    served' = [id \in DOMAIN served \cup {req[t].user_id} |->
                 IF id = req[t].user_id
                 THEN [username |-> req[t].username, keyed |-> keyed, since |-> req[t].since]
                 ELSE served[id]]

\* send_registration_success
SendWelcome(t) ==
    /\ pc[t] = "welcome"
    /\ Tell(t, FALSE)
    /\ Reply(t)
    /\ Leave(t, "idle")
    /\ UNCHANGED <<tables, now, issued, raced>>

\* send_session_key, with KEY_SEND_SUCCESS or RE_REGISTRATION_SUCCESS.
SendKey(t) ==
    /\ pc[t] = "send_key"
    /\ Tell(t, TRUE)
    /\ Reply(t)
    /\ Leave(t, "idle")
    /\ UNCHANGED <<tables, now, issued, raced>>

\* Mutant: an exception is not answered.
SendNothing(t) ==
    /\ pc[t] = "fail"
    /\ Goto(t, "idle")
    /\ UNCHANGED <<tables, now, issued, served, raced, req, replies>>

\* send_failure
SendFailure(t) ==
    /\ pc[t] = "fail"
    /\ Reply(t)
    /\ Goto(t, "idle")
    /\ UNCHANGED <<tables, now, issued, served, raced, req>>

-----------------------------------------------------------------------------
(* Faults, and the clock.                                                  *)

DatabaseError(t) ==
    /\ "db" \in Faults
    /\ pc[t] \in {"check_name", "insert", "stamp_new", "check_user", "expiry", "load_key",
                  "stamp", "store_public", "store_session"}
    /\ Raise(t)
    /\ UNCHANGED <<tables, now, issued, served, raced, replies>>

DiskError(t) ==
    /\ "disk" \in Faults
    /\ pc[t] = "mkdir"
    /\ Raise(t)
    /\ UNCHANGED <<tables, now, issued, served, raced, replies>>

SendError(t) ==
    /\ "send" \in Faults
    /\ pc[t] \in {"refuse", "taken", "welcome", "send_key"}
    /\ Raise(t)
    /\ UNCHANGED <<tables, now, issued, served, raced, replies>>

\* send_failure raises: the thread ends, and `finally` closes the socket.
LoseConnection(t) ==
    /\ "send" \in Faults
    /\ pc[t] = "fail"
    /\ Goto(t, "closed")
    /\ replies' = [replies EXCEPT ![t] = 0]
    /\ UNCHANGED <<tables, now, issued, served, raced, req>>

\* The process dies and is started again.
Crash ==
    /\ "crash" \in Faults
    /\ \E t \in Conns : pc[t] # "closed"
    /\ pc' = [t \in Conns |-> "closed"]
    /\ req' = [t \in Conns |-> NoReq]
    /\ replies' = [t \in Conns |-> 0]
    /\ raced' = {}
    /\ UNCHANGED <<tables, now, issued, served>>

Tick ==
    /\ now < MaxTime
    /\ now' = now + 1
    /\ UNCHANGED <<tables, issued, served, raced, pc, req, replies>>

-----------------------------------------------------------------------------

Register(t) ==
    \/ CheckName(t) \/ InsertClient(t) \/ StampNew(t) \/ MakeDirectory(t)
    \/ SendWelcome(t) \/ SendRefusal(t)

ExchangeKey(t) ==
    \/ CheckUser(t) \/ CheckUserFails(t) \/ CheckExpiry(t) \/ LoadKey(t) \/ LoadKeyFails(t)
    \/ Stamp(t) \/ StorePublicKey(t) \/ StoreSessionKey(t) \/ SendKey(t)

HandlerError(t) == DatabaseError(t) \/ DiskError(t) \/ SendError(t)

Handle(t) ==
    Register(t) \/ ExchangeKey(t) \/ HandlerError(t) \/ SendFailure(t) \/ LoseConnection(t)

\* What a client makes happen.
Request(t) ==
    \/ Connect(t) \/ Disconnect(t) \/ ReceiveRegistration(t) \/ ReceivePublicKey(t)
    \/ ReceiveReRegistration(t) \/ BackupActivity(t)

Next ==
    \/ \E t \in Conns : Request(t) \/ Handle(t)
    \/ Crash
    \/ Tick

Spec == Init /\ [][Next]_vars

\* The scheduler runs every thread, and no call of a handler blocks forever.
FairSpec == Spec /\ \A t \in Conns : WF_vars(Handle(t))

-----------------------------------------------------------------------------
(* Properties.                                                             *)

\* The state has the shape the code gives it; only keys that can be imported are stored.
TypeOK ==
    /\ DOMAIN clients \subseteq Ids
    /\ clients \in [DOMAIN clients -> ClientRow]
    /\ dirs \subseteq Ids
    /\ now \in Nat /\ issued \in Nat
    /\ DOMAIN served \subseteq Ids
    /\ served \in [DOMAIN served -> Told]
    /\ raced \subseteq Conns
    /\ pc \in [Conns -> Steps \cup {"idle", "closed"}]
    /\ req \in [Conns -> Requests \cup {NoReq}]
    /\ replies \in [Conns -> Nat]

(***************************************************************************)
(* A user name belongs to one client: USERNAME_TAKEN is what everybody     *)
(* else gets, though username_exists and add_client are two transactions.  *)
(***************************************************************************)
NamesUnique ==
    \A i, j \in DOMAIN clients : clients[i].username = clients[j].username => i = j

(***************************************************************************)
(* What a client was told stays true, whatever failed since and however    *)
(* many connections carry its name: its id is on record under its name     *)
(* with a directory and with a last_seen less than a second older than the *)
(* request that was answered; and once it got a key, there are a public    *)
(* key and a session key to re-register and to decrypt with.               *)
(***************************************************************************)
ServedIsRecorded ==
    \A id \in DOMAIN served :
        /\ HasRow(clients, id, served[id].username)
        /\ id \in dirs
        /\ clients[id].last_seen # Null
        /\ clients[id].last_seen + Second > served[id].since
        /\ served[id].keyed => clients[id].public_key # Null /\ clients[id].aes_key # Null

(***************************************************************************)
(* The session key about to be sent is the one on record for the client,   *)
(* encrypted under the public key on record, so that what the client       *)
(* encrypts with it the server can decrypt.  Only another connection that  *)
(* stored a key of the same client meanwhile makes that untrue: the public *)
(* key, the session key and the response of an exchange are three steps,   *)
(* and nothing keeps two exchanges apart.                                  *)
(***************************************************************************)
KeyIsCurrent ==
    \A t \in Conns :
        pc[t] = "send_key" /\ t \notin raced =>
            LET r == req[t]
            IN  /\ HasRow(clients, r.user_id, r.username)
                /\ clients[r.user_id].aes_key = r.aes_key
                /\ clients[r.user_id].public_key = r.public_key

(***************************************************************************)
(* A client that has had success with an id under a name and uses them     *)
(* again is refused for one of three reasons only: its id ends in a zero;  *)
(* the name is on record twice; or it re-registers when that success is    *)
(* longer ago than the window, give or take the second that last_seen is   *)
(* cut to.                                                                 *)
(***************************************************************************)
RightfulIsServed ==
    \A t \in Conns :
        LET r == req[t]
        IN  pc[t] = "refuse" /\ r.heard # Null =>
                \/ r.sent \in RoundIds
                \/ \E id \in DOMAIN clients \ {r.sent} : clients[id].username = r.username
                \/ r.code = "RE_REGISTRATION" /\ now - r.heard > Window - Second

(***************************************************************************)
(* Every request is answered with one response, or the connection ends.    *)
(***************************************************************************)
Answered ==
    \A t \in Conns :
        pc[t] \in Steps ~> pc[t] = "closed" \/ (pc[t] = "idle" /\ replies[t] = 1)

(***************************************************************************)
(* The requests under a user name arrive on one connection at a time.  The *)
(* server does not enforce it.                                             *)
(***************************************************************************)
OneConnPerName ==
    \A s, t \in Conns : s # t => Serves[s] \cap Serves[t] = {}
=============================================================================
