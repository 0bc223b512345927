------------------------ MODULE BackupSessionProofs ------------------------
(***************************************************************************)
(* A client that follows the protocol: what it has verified is what it     *)
(* confirmed, its uploads are not mixed with each other, and its packets   *)
(* are refused only because of an upload it gave up.                       *)
(*                                                                         *)
(* Every step of the session is a step of the server, so the invariant of  *)
(* the versioned store (LInv) holds.  To it are added: which packets wait, *)
(* so which were taken (InOrder, Taken); that those taken are in the       *)
(* buffer and the last one never is (Buffered); whose turn it is (Turns);  *)
(* and that the version under way is the newest one (Versioned).           *)
(***************************************************************************)
EXTENDS BackupStoreProofs, BackupSession

Uploads == [name : Names, total : 1..MaxPackets, next : 1..MaxPackets + 1, chunk : Chunks]

Message == [code : {"CREATE_BACKUP"} \cup CrcCodes, upload : Uploads]

ServerMessage ==
    [code : Responses, content : Assemblies \cup Plain \cup {NoData}, path : Paths \cup {NoPath}]

-----------------------------------------------------------------------------
(* The messages that wait for the server.                                  *)

\* A verdict on the upload before waits in front of the packets.
VerdictFirst(q) == Len(q) > 0 /\ q[1].code \in CrcCodes

\* The number of packets that wait.
Waiting(q) == Len(q) - IF VerdictFirst(q) THEN 1 ELSE 0

\* The number of packets of upload u that the server has taken.
Taken(q, u) == u.next - 1 - Waiting(q)

\* The packets that wait are the last ones sent of upload u, in their order.
InOrder(q, u) ==
    \A i \in 1..Len(q) :
        \/ i = 1 /\ q[i].code \in CrcCodes
        \/ /\ q[i].code = "CREATE_BACKUP"
           /\ u.next - 1 - (Len(q) - i) >= 1
           /\ q[i].upload = [u EXCEPT !.next = u.next - 1 - (Len(q) - i)]

-----------------------------------------------------------------------------
(* The inductive invariant.                                                *)

Begun ==
    phase \in {"sending", "waiting", "matched", "mismatch", "confirming"} \/ toServer # <<>>

SessionTypes ==
    /\ phase \in Phases
    /\ attempts \in 0..MaxAttempts
    /\ toServer \in Seq(Message) /\ toClient \in Seq(ServerMessage)
    /\ \A i \in 1..Len(toServer) : toServer[i].upload.chunk.key <= aes_key[Owner]
    /\ Begun => /\ upload \in Uploads
                /\ upload.chunk.key <= aes_key[Owner]
                /\ upload.next <= upload.total + 1

\* Only the client's own thread has a connection.
OneLine == \A t \in Conns \ {Line} : pc[t] = "closed"

\* The thread has nothing to do for a request it has taken.
Still == pc[Line] \in {"idle", "closed"}

\* It saves the upload whose last packet it has taken.
Saving ==
    \/ pc[Line] \in SavingSteps \cup {"reply"}
    \/ pc[Line] = "last_seen" /\ req[Line].code = "CREATE_BACKUP"

\* One of the responses has the code.
Told(responses, code) == \E i \in 1..Len(responses) : responses[i].code = code

\* No upload is reported twice, no verdict acknowledged twice.
AnsweredOnce(responses) ==
    \A i, j \in 1..Len(responses) :
        /\ responses[i].code = responses[j].code
        /\ responses[i].code \in {"UPLOAD_RECEIVED", "ACK"}
        => i = j

\* Whose turn it is, in every phase.
Turns ==
    /\ phase = "away" => toClient = <<>>
    /\ phase = "sending" => upload.next <= upload.total
    /\ phase = "waiting" => upload.next = upload.total + 1
    /\ phase \in {"matched", "mismatch"} => toServer = <<>> /\ Still
    /\ Waiting(toServer) > 0 =>
          \/ phase \in {"sending", "waiting"}
          \/ phase = "away" /\ <<upload.name, upload.total>> \in abandoned
    /\ VerdictFirst(toServer) =>
          /\ Still
          /\ \/ phase = "away"
             \/ toServer[1].code = "CRC_ERROR" /\ phase \in {"ready", "sending", "waiting"}
             \/ toServer[1].code # "CRC_ERROR" /\ phase = "confirming"
    /\ Saving => /\ toServer = <<>> /\ phase \in {"waiting", "away"}
                 /\ Owner \notin DOMAIN uploads
                 /\ req[Line].name = upload.name
    /\ Told(toClient, "UPLOAD_RECEIVED") =>
          toServer = <<>> /\ phase = "waiting" /\ Still /\ Owner \notin DOMAIN uploads
    /\ Told(toClient, "ACK") => toServer = <<>> /\ phase = "confirming"

\* The buffer holds packets of an upload like the one the client is at.
Matches ==
    /\ Owner \in DOMAIN uploads
    /\ uploads[Owner].file_name = upload.name
    /\ uploads[Owner].total_packets = upload.total

\* The last packet is never in the buffer, for it is sent last.
LastIsMissing ==
    Owner \in DOMAIN uploads =>
        uploads[Owner].total_packets \notin DOMAIN uploads[Owner].chunks

\* What is buffered is of the current upload or of one that was given up.
BufferIsOf ==
    Owner \in DOMAIN uploads =>
        \/ <<uploads[Owner].file_name, uploads[Owner].total_packets>> \in abandoned
        \/ phase \in {"sending", "waiting"} /\ Matches

\* The packets taken of the current upload are in the buffer, if it takes them at all.
TakenIsBuffered ==
    pc[Line] # "closed" /\ (phase = "sending" \/ Waiting(toServer) > 0) =>
        /\ Taken(toServer, upload) >= 0
        /\ Taken(toServer, upload) > 0 => Owner \in DOMAIN uploads
        /\ Matches => \A p \in 1..Taken(toServer, upload) :
                          /\ p \in DOMAIN uploads[Owner].chunks
                          /\ uploads[Owner].chunks[p] = upload.chunk

Buffered == LastIsMissing /\ BufferIsOf /\ TakenIsBuffered

\* The newest version of the client's file n.
HasVersions(fs, n) == VersionsOf(fs, Owner, n) # {}

Newest(fs, n) == VersionedPath(Owner, n, LatestVersion(fs, Owner, n))

\* What is at p, if anything, is c.
Stands(dk, p, c) == p \in DOMAIN dk => dk[p] = c

\* The client found that the newest version of n is what it sent.
Confirmed(fs, dk, found, n) ==
    /\ HasVersions(fs, n)
    /\ \E r \in found : r.path = Newest(fs, n) /\ Stands(dk, r.path, r.content)

\* The version that is saved, reported, confirmed and marked is the newest one.
SavesNext ==
    pc[Line] \in {"open", "write", "add_file"} =>
        path[Line] = VersionedPath(Owner, req[Line].name, NextVersion(files, Owner, req[Line].name))

SavesNewest ==
    Saving /\ pc[Line] \in {"last_seen", "reply"} =>
        HasVersions(files, req[Line].name) /\ path[Line] = Newest(files, req[Line].name)

ReportsNewest ==
    \A i \in 1..Len(toClient) :
        toClient[i].code = "UPLOAD_RECEIVED" =>
            /\ HasVersions(files, upload.name)
            /\ toClient[i].path = Newest(files, upload.name)
            /\ Stands(disk, toClient[i].path, toClient[i].content)

VerdictIsTrue ==
    /\ phase = "matched" => Confirmed(files, disk, confirmed, upload.name)
    /\ VerdictFirst(toServer) /\ toServer[1].code = "CRC_SUCCESS" =>
          Confirmed(files, disk, confirmed, toServer[1].upload.name)
    /\ \/ pc[Line] \in {"lookup", "exists"} /\ req[Line].code = "CRC_SUCCESS"
       \/ pc[Line] = "mark"
       => Confirmed(files, disk, confirmed, req[Line].name)

Versioned == SavesNext /\ SavesNewest /\ ReportsNewest /\ VerdictIsTrue

ClientInv ==
    /\ SessionTypes /\ OneLine /\ InOrder(toServer, upload)
    /\ Turns /\ AnsweredOnce(toClient) /\ Buffered /\ NeverMixed
    /\ Versioned /\ VerifiedWasConfirmed

SessionInv == LInv /\ ClientInv

-----------------------------------------------------------------------------
(* The queue of messages.                                                  *)

\* What an empty queue is.
LEMMA EmptyQueue ==
    ASSUME NEW q, Len(q) = 0
    PROVE  Waiting(q) = 0 /\ ~VerdictFirst(q) /\ \A u : InOrder(q, u)
BY DEF Waiting, VerdictFirst, InOrder

\* The first message is a verdict or a packet; then there is a packet that waits.
LEMMA WaitingIs ==
    ASSUME NEW q \in Seq(Message), NEW u \in Uploads, InOrder(q, u)
    PROVE  /\ Waiting(q) \in Nat
           /\ Waiting(q) > 0 => q # <<>>
           /\ VerdictFirst(q) => q # <<>>
           /\ q # <<>> => VerdictFirst(q) \/ (Waiting(q) > 0 /\ q[1].code = "CREATE_BACKUP")
           /\ u.next \in Nat /\ u.next >= 1 /\ Waiting(q) <= u.next - 1
<1> DEFINE l == Len(q)
           w == Waiting(q)
           x == u.next
<1>1. l \in Nat /\ (q # <<>> <=> l > 0)
  OBVIOUS
<1>2. x \in Nat /\ x >= 1
  BY BackupAssumption DEF Uploads, BackupAssumption
<1>3. w = l - IF VerdictFirst(q) THEN 1 ELSE 0
  BY DEF Waiting
<1>4. VerdictFirst(q) => l > 0
  BY DEF VerdictFirst
<1>5. l > 1 => x - 1 - (l - 2) >= 1
  <2>1. ASSUME l > 1
        PROVE  x - 1 - (l - 2) >= 1
    <3>1. 2 \in 1..l /\ 2 # 1
      BY <1>1, <2>1
    <3> QED
      BY <3>1 DEF InOrder
  <2> QED
    BY <2>1
<1>6. ASSUME l > 0, ~VerdictFirst(q)
      PROVE  q[1].code = "CREATE_BACKUP" /\ x - 1 - (l - 1) >= 1
  <2>1. 1 \in 1..l /\ q[1].code \notin CrcCodes
    BY <1>1, <1>6 DEF VerdictFirst
  <2> QED
    BY <2>1 DEF InOrder
<1> HIDE DEF l, w, x
<1>7. w \in Nat /\ (w > 0 => l > 0) /\ w <= x - 1
  <2>1. CASE VerdictFirst(q)
    BY <1>1, <1>2, <1>3, <1>4, <1>5, <2>1
  <2>2. CASE ~VerdictFirst(q)
    BY <1>1, <1>2, <1>3, <1>6, <2>2
  <2> QED
    BY <2>1, <2>2
<1>8. l > 0 /\ ~VerdictFirst(q) => w > 0
  BY <1>1, <1>3
<1> QED
  BY <1>1, <1>2, <1>4, <1>6, <1>7, <1>8 DEF l, w, x

\* The first message is taken.
LEMMA QueueTake ==
    ASSUME NEW q \in Seq(Message), NEW u \in Uploads, InOrder(q, u), q # <<>>
    PROVE  LET r == Tail(q)
           IN  /\ r \in Seq(Message) /\ InOrder(r, u) /\ ~VerdictFirst(r)
               /\ Head(q) = q[1] /\ q[1] \in Message
               /\ \A i \in 1..Len(r) : \E j \in 1..Len(q) : r[i] = q[j]
               /\ VerdictFirst(q) => Waiting(r) = Waiting(q)
               /\ ~VerdictFirst(q) =>
                     /\ Waiting(q) = Waiting(r) + 1
                     /\ q[1].code = "CREATE_BACKUP"
                     /\ q[1].upload = [u EXCEPT !.next = Taken(q, u) + 1]
<1> DEFINE r == Tail(q)
<1>1. /\ Len(q) \in Nat /\ Len(q) > 0 /\ r \in Seq(Message) /\ Len(r) = Len(q) - 1
      /\ Head(q) = q[1] /\ q[1] \in Message
      /\ \A i \in 1..Len(r) : r[i] = q[i + 1] /\ i + 1 \in 1..Len(q) /\ i + 1 # 1
  OBVIOUS
<1> HIDE DEF r
<1>2. u.next \in Nat
  BY BackupAssumption DEF Uploads, BackupAssumption
<1>3. ASSUME NEW i \in 1..Len(r)
      PROVE  /\ r[i].code = "CREATE_BACKUP"
             /\ u.next - 1 - (Len(r) - i) >= 1
             /\ r[i].upload = [u EXCEPT !.next = u.next - 1 - (Len(r) - i)]
  <2>1. /\ q[i + 1].code = "CREATE_BACKUP"
        /\ u.next - 1 - (Len(q) - (i + 1)) >= 1
        /\ q[i + 1].upload = [u EXCEPT !.next = u.next - 1 - (Len(q) - (i + 1))]
    BY <1>1 DEF InOrder
  <2>2. Len(q) - (i + 1) = Len(r) - i
    BY <1>1
  <2> QED
    BY <1>1, <2>1, <2>2
<1>4. InOrder(r, u)
  BY <1>3 DEF InOrder
<1>5. ~VerdictFirst(r) /\ Waiting(r) = Len(r)
  <2>1. Len(r) > 0 => r[1].code = "CREATE_BACKUP"
    <3>1. Len(r) > 0 => 1 \in 1..Len(r)
      BY <1>1
    <3> QED
      BY <1>3, <3>1
  <2>2. ~VerdictFirst(r)
    BY <2>1 DEF VerdictFirst, CrcCodes
  <2> QED
    BY <1>1, <2>2 DEF Waiting
<1>6. VerdictFirst(q) => Waiting(r) = Waiting(q)
  BY <1>1, <1>5 DEF Waiting
<1>7. ASSUME ~VerdictFirst(q)
      PROVE  /\ Waiting(q) = Waiting(r) + 1
             /\ q[1].code = "CREATE_BACKUP"
             /\ q[1].upload = [u EXCEPT !.next = Taken(q, u) + 1]
  <2>1. Waiting(q) = Len(q)
    BY <1>1, <1>7 DEF Waiting
  <2>2. 1 \in 1..Len(q) /\ q[1].code \notin CrcCodes
    BY <1>1, <1>7 DEF VerdictFirst
  <2>3. /\ q[1].code = "CREATE_BACKUP"
        /\ q[1].upload = [u EXCEPT !.next = u.next - 1 - (Len(q) - 1)]
    BY <2>2 DEF InOrder
  <2>4. Taken(q, u) + 1 = u.next - 1 - (Len(q) - 1)
    <3>1. \A x \in Nat, l \in Nat : x - 1 - l + 1 = x - 1 - (l - 1)
      OBVIOUS
    <3> QED
      BY <1>1, <1>2, <2>1, <3>1 DEF Taken
  <2> QED
    BY <1>1, <1>5, <2>1, <2>3, <2>4
<1>8. \A i \in 1..Len(r) : \E j \in 1..Len(q) : r[i] = q[j]
  BY <1>1
<1> QED
  BY <1>1, <1>4, <1>5, <1>6, <1>7, <1>8 DEF r

\* The client sends the next packet.
LEMMA QueuePacket ==
    ASSUME NEW q \in Seq(Message), NEW u \in Uploads, InOrder(q, u), u.next <= u.total
    PROVE  LET r == Append(q, [code |-> "CREATE_BACKUP", upload |-> u])
               v == [u EXCEPT !.next = @ + 1]
           IN  /\ v \in Uploads
               /\ r \in Seq(Message) /\ InOrder(r, v)
               /\ VerdictFirst(r) <=> VerdictFirst(q)
               /\ VerdictFirst(q) => r[1] = q[1]
               /\ Waiting(r) = Waiting(q) + 1
               /\ \A i \in 1..Len(r) : r[i].upload = u \/ \E j \in 1..Len(q) : r[i] = q[j]
<1> DEFINE m == [code |-> "CREATE_BACKUP", upload |-> u]
           r == Append(q, m)
           v == [u EXCEPT !.next = @ + 1]
<1>1. /\ u.next \in Nat /\ u.next >= 1 /\ v \in Uploads /\ v.next = u.next + 1
      /\ m \in Message /\ m.code = "CREATE_BACKUP" /\ m.upload = u
  <2>1. MaxPackets \in Nat /\ u.total \in 1..MaxPackets /\ u.next \in 1..MaxPackets + 1
    BY BackupAssumption DEF Uploads, BackupAssumption
  <2>2. u.next \in Nat /\ u.next >= 1 /\ u.next + 1 \in 1..MaxPackets + 1
    BY <2>1
  <2>3. v \in Uploads /\ v.next = u.next + 1
    BY <2>2 DEF Uploads
  <2>4. m \in Message /\ m.code = "CREATE_BACKUP" /\ m.upload = u
    BY DEF Message
  <2> QED
    BY <2>2, <2>3, <2>4
<1>2. \A k : [v EXCEPT !.next = k] = [u EXCEPT !.next = k]
  BY DEF Uploads
<1>3. [v EXCEPT !.next = u.next] = u
  BY DEF Uploads
<1> HIDE DEF m, v
<1>4. /\ Len(q) \in Nat /\ r \in Seq(Message) /\ Len(r) = Len(q) + 1
      /\ r[Len(q) + 1] = m /\ \A i \in 1..Len(q) : r[i] = q[i]
  BY <1>1
<1> HIDE DEF r
<1>5. ASSUME NEW i \in 1..Len(r)
      PROVE  \/ i = 1 /\ r[i].code \in CrcCodes
             \/ /\ r[i].code = "CREATE_BACKUP"
                /\ v.next - 1 - (Len(r) - i) >= 1
                /\ r[i].upload = [v EXCEPT !.next = v.next - 1 - (Len(r) - i)]
  <2>1. CASE i \in 1..Len(q)
    <3>1. \/ i = 1 /\ q[i].code \in CrcCodes
          \/ /\ q[i].code = "CREATE_BACKUP"
             /\ u.next - 1 - (Len(q) - i) >= 1
             /\ q[i].upload = [u EXCEPT !.next = u.next - 1 - (Len(q) - i)]
      BY <2>1 DEF InOrder
    <3>2. v.next - 1 - (Len(r) - i) = u.next - 1 - (Len(q) - i) /\ r[i] = q[i]
      <4>1. \A x, l, j \in Nat : x + 1 - 1 - (l + 1 - j) = x - 1 - (l - j)
        OBVIOUS
      <4>2. i \in Nat /\ r[i] = q[i]
        BY <1>4, <2>1
      <4>3. u.next + 1 - 1 - (Len(q) + 1 - i) = u.next - 1 - (Len(q) - i)
        <5>1. u.next \in Nat /\ Len(q) \in Nat
          BY <1>1, <1>4
        <5> QED
          BY <4>1, <4>2, <5>1, Zenon
      <4> QED
        BY <1>1, <1>4, <4>2, <4>3
    <3> QED
      BY <1>2, <3>1, <3>2
  <2>2. CASE i = Len(q) + 1
    <3>1. v.next - 1 - (Len(r) - i) = u.next /\ r[i] = m
      BY <1>1, <1>4, <2>2
    <3> QED
      BY <1>1, <1>3, <3>1
  <2> QED
    BY <1>4, <2>1, <2>2
<1>6. InOrder(r, v)
  BY <1>5 DEF InOrder
<1>7. (VerdictFirst(r) <=> VerdictFirst(q)) /\ (VerdictFirst(q) => r[1] = q[1])
  <2>1. Len(q) = 0 => r[1] = m
    BY <1>4
  <2>2. Len(q) > 0 => r[1] = q[1]
    BY <1>4
  <2> QED
    BY <1>1, <1>4, <2>1, <2>2 DEF VerdictFirst, CrcCodes
<1>8. Waiting(r) = Waiting(q) + 1
  BY <1>4, <1>7 DEF Waiting
<1>9. \A i \in 1..Len(r) : r[i].upload = u \/ \E j \in 1..Len(q) : r[i] = q[j]
  BY <1>1, <1>4
<1> QED
  BY <1>1, <1>4, <1>6, <1>7, <1>8, <1>9 DEF r, m, v

\* The client sends its verdict.
LEMMA QueueVerdict ==
    ASSUME NEW u \in Uploads, NEW code \in CrcCodes
    PROVE  LET r == Append(<<>>, [code |-> code, upload |-> u])
           IN  /\ r \in Seq(Message) /\ InOrder(r, u) /\ VerdictFirst(r) /\ Waiting(r) = 0
               /\ Len(r) = 1 /\ r[1] = [code |-> code, upload |-> u]
<1> DEFINE m == [code |-> code, upload |-> u]
           r == Append(<<>>, m)
<1>1. m \in Message /\ m.code \in CrcCodes
  BY DEF Message
<1> HIDE DEF m
<1>2. r \in Seq(Message) /\ Len(r) = 1 /\ r[1] = m
  BY <1>1
<1> HIDE DEF r
<1>3. InOrder(r, u) /\ VerdictFirst(r) /\ Waiting(r) = 0
  BY <1>1, <1>2 DEF InOrder, VerdictFirst, Waiting
<1> QED
  BY <1>2, <1>3 DEF r, m

-----------------------------------------------------------------------------
(* The session is a use of the server.                                     *)

\* The first message that waits.
LEMMA FirstMessage ==
    ASSUME SessionInv, toServer # <<>>
    PROVE  /\ toServer \in Seq(Message) /\ upload \in Uploads /\ InOrder(toServer, upload)
           /\ Head(toServer) = toServer[1] /\ toServer[1] \in Message
           /\ toServer[1].upload.chunk.key <= aes_key[Owner]
<1>1. toServer \in Seq(Message) /\ upload \in Uploads /\ InOrder(toServer, upload)
  BY DEF SessionInv, ClientInv, SessionTypes, Begun
<1>2. 1 \in 1..Len(toServer) /\ Head(toServer) = toServer[1] /\ toServer[1] \in Message
  BY <1>1
<1>3. toServer[1].upload.chunk.key <= aes_key[Owner]
  BY <1>2 DEF SessionInv, ClientInv, SessionTypes
<1> QED
  BY <1>1, <1>2, <1>3

\* ReceiveChunk takes any chunk that may be sent.
LEMMA ChunkIsReceived ==
    ASSUME NEW t \in Conns, NEW u \in Serves[t], NEW n \in ReqNames,
           NEW total \in 0..MaxPackets, NEW p \in 0..MaxPackets,
           NEW c \in Contents, NEW k \in 0..aes_key[u], NEW v \in 1..MaxIVs,
           AddChunk(t, u, n, p, total, [content |-> c, key |-> k, iv |-> v])
    PROVE  ReceiveChunk(t)
<1>1. \E q \in 0..MaxPackets, d \in Contents, j \in 0..aes_key[u], w \in 1..MaxIVs :
         AddChunk(t, u, n, q, total, [content |-> d, key |-> j, iv |-> w])
  BY Zenon
<1> QED
  BY <1>1, Zenon DEF ReceiveChunk

\* A packet of the client is one the server may receive.
LEMMA PacketIsReceived ==
    ASSUME SessionInv, toServer # <<>>, NEW u, u = toServer[1].upload,
           AddChunk(Line, Owner, u.name, u.next, u.total, u.chunk)
    PROVE  ReceiveChunk(Line)
<1>1. u \in Uploads /\ u.chunk.key <= aes_key[Owner]
  BY FirstMessage DEF Message
<1>2. Owner \in Serves[Line] /\ MaxPackets \in Nat /\ aes_key[Owner] \in 0..MaxKeys
      /\ MaxKeys \in Nat
  BY BackupAssumption, SessionAssumption
     DEF BackupAssumption, SessionAssumption, SessionInv, LInv, SIInv, IInv, TypeOK
<1>3. /\ u.name \in ReqNames /\ u.total \in 0..MaxPackets /\ u.next \in Nat
      /\ u.chunk \in Chunks
  BY <1>1, <1>2 DEF Uploads, ReqNames
<1>4. u.next \in 0..MaxPackets
  <2>1. u.next <= u.total
    BY DEF AddChunk, Accepts, ValidPacket
  <2> QED
    BY <1>2, <1>3, <2>1
<1>5. /\ u.chunk.content \in Contents /\ u.chunk.key \in 0..aes_key[Owner]
      /\ u.chunk.iv \in 1..MaxIVs
      /\ u.chunk = [content |-> u.chunk.content, key |-> u.chunk.key, iv |-> u.chunk.iv]
  BY <1>1, <1>2, <1>3 DEF Chunks
<1>6. AddChunk(Line, Owner, u.name, u.next, u.total,
               [content |-> u.chunk.content, key |-> u.chunk.key, iv |-> u.chunk.iv])
  BY <1>5, Zenon
<1>7. Line \in Conns
  BY SessionAssumption DEF SessionAssumption
<1> QED
  BY <1>2, <1>3, <1>4, <1>5, <1>6, <1>7, ChunkIsReceived, Zenon

\* Every step of the session is one of the server, or leaves it as it is.
LEMMA SessionIsUse ==
    ASSUME SessionInv, [SessionNext]_sessionVars
    PROVE  [Next]_vars
<1>0. Line \in Conns /\ Owner \in Users
  BY SessionAssumption DEF SessionAssumption
<1>1. CASE TakeRequest
  <2>1. Receive(Line)
    <3>1. toServer # <<>> /\ Head(toServer) = toServer[1]
      BY <1>1, FirstMessage DEF TakeRequest
    <3>2. LET u == toServer[1].upload
          IN  \/ AddChunk(Line, Owner, u.name, u.next, u.total, u.chunk)
              \/ RejectChunk(Line) \/ ReceiveCrc(Line) \/ FirstSendFails(Line)
      BY <1>1, <3>1 DEF TakeRequest
    <3> QED
      BY <3>1, <3>2, PacketIsReceived DEF Receive
  <2> QED
    BY <1>0, <2>1 DEF Next
<1>2. CASE ThreadStep
  BY <1>0, <1>2 DEF ThreadStep, Next
<1>3. CASE ClientConnects
  BY <1>0, <1>3 DEF ClientConnects, Next, Receive
<1>4. CASE ExchangesKey
  BY <1>0, <1>4 DEF ExchangesKey, Next
<1>5. CASE ThreadEnds
  BY <1>0, <1>5 DEF ThreadEnds, Next, Receive
<1>6. CASE ServerDies
  BY <1>6 DEF ServerDies, Next
<1>7. CASE \/ StartUpload \/ SendPacket \/ HangUp \/ ReadFailure \/ ReadResponse
           \/ SendVerdict \/ SeeEnd
  BY <1>7 DEF StartUpload, SendPacket, HangUp, ReadFailure, ReadResponse, SendVerdict, SeeEnd,
              GoAway
<1>8. CASE UNCHANGED sessionVars
  BY <1>8 DEF sessionVars
<1> QED
  BY <1>1, <1>2, <1>3, <1>4, <1>5, <1>6, <1>7, <1>8 DEF SessionNext, ClientStep, Serving

\* What the proofs about the server show of it is true of it in a session.
LEMMA ServerKeeps ==
    ASSUME OneConnPerUser, PrefixFree, SessionInv, [SessionNext]_sessionVars
    PROVE  LInv'
<1>1. [Next]_vars /\ LInv
  BY SessionIsUse DEF SessionInv
<1>2. SIInv'
  BY <1>1, StepSIInv DEF LInv
<1>3. TargetsLatest'
  BY <1>1, TargetsLatestStep DEF LInv, SIInv
<1>4. Gone'
  BY <1>1, GoneStep DEF LInv, SIInv
<1> QED
  BY <1>2, <1>3, <1>4 DEF LInv

-----------------------------------------------------------------------------
(* Verified versions.                                                      *)

\* The client forgets nothing that it found to be what it sent.
LEMMA ConfirmedGrows ==
    ASSUME [SessionNext]_sessionVars
    PROVE  confirmed \subseteq confirmed'
BY DEF SessionNext, ClientStep, Serving, ClientConnects, ExchangesKey, StartUpload, SendPacket,
       HangUp, ReadFailure, ReadResponse, SendVerdict, SeeEnd, GoAway, TakeRequest, ThreadStep,
       ThreadEnds, ServerDies, OnServer, sessionVars, clientVars

\* The content of a version on record stays as long as there is one.
LEMMA StandsStep ==
    ASSUME LInv, [Next]_vars, NEW p \in Recorded(files), NEW c, Stands(disk, p, c)
    PROVE  Stands(disk', p, c)
<1> SUFFICES ASSUME p \in DOMAIN disk'
             PROVE  disk'[p] = c
  BY DEF Stands
<1>1. ASSUME NEW t \in Conns, path[t] = p, OpenFile(t) \/ WriteFile(t) \/ WriteFails(t)
      PROVE  FALSE
  BY <1>1 DEF LInv, SIInv, Fresh, OpenFile, WriteFile, WriteFails
<1>2. p \in DOMAIN disk /\ disk'[p] = disk[p]
  BY <1>1, ContentKept DEF LInv, SIInv
<1> QED
  BY <1>2 DEF Stands

\* The server marks the newest version, which the client has confirmed.
LEMMA MarksConfirmed ==
    ASSUME SessionInv, NEW t \in Conns, pc[t] = "mark"
    PROVE  \E r \in confirmed : r.path = path[t] /\ Stands(disk, r.path, r.content)
<1>1. t = Line
  BY DEF SessionInv, ClientInv, OneLine
<1>2. req[t].user = Owner
  BY <1>1, SessionAssumption
     DEF SessionAssumption, SessionInv, LInv, SIInv, IInv, FrameOK, Frame, Steps, CrcSteps
<1>3. path[t] = Newest(files, req[t].name)
  BY <1>2 DEF SessionInv, LInv, TargetsLatest, CrcSteps, Newest
<1>4. Confirmed(files, disk, confirmed, req[t].name)
  BY <1>1 DEF SessionInv, ClientInv, Versioned, VerdictIsTrue
<1> QED
  BY <1>3, <1>4 DEF Confirmed

\* What is verified was confirmed before, or is confirmed now.
LEMMA VerifiedStep ==
    ASSUME SessionInv, [SessionNext]_sessionVars
    PROVE  VerifiedWasConfirmed'
<1>1. [Next]_vars /\ LInv
  BY SessionIsUse DEF SessionInv
<1> SUFFICES ASSUME NEW i \in DOMAIN files', files'[i].verified
             PROVE  \E r \in confirmed' : /\ r.path = files'[i].path_name
                                          /\ Stands(disk', r.path, r.content)
  BY DEF VerifiedWasConfirmed, Stands
<1> DEFINE q == files'[i].path_name
<1>2. q = files[i].path_name /\ i \in DOMAIN files
      /\ \/ files[i].verified
         \/ \E t \in Conns : MarkVerified(t) /\ path[t] = files[i].path_name
  BY <1>1, RowMarked DEF LInv, SIInv
<1> HIDE DEF q
<1>3. \E r \in confirmed : r.path = q /\ Stands(disk, r.path, r.content)
  <2>1. CASE files[i].verified
    BY <1>2, <2>1 DEF SessionInv, ClientInv, VerifiedWasConfirmed, Stands
  <2>2. CASE \E t \in Conns : MarkVerified(t) /\ path[t] = q
    BY <2>2, MarksConfirmed DEF MarkVerified
  <2> QED
    BY <1>2, <2>1, <2>2
<1>4. q \in Recorded(files)
  BY <1>2 DEF Recorded
<1>5. PICK r \in confirmed : r.path = q /\ Stands(disk, r.path, r.content)
  BY <1>3
<1>6. Stands(disk', r.path, r.content)
  BY <1>1, <1>4, <1>5, StandsStep
<1> QED
  BY <1>5, <1>6, ConfirmedGrows DEF q

-----------------------------------------------------------------------------
(* The steps of the client.                                                *)

\* A queue in which no packet waits is in order for any upload.
LEMMA NoneWaiting ==
    ASSUME NEW q \in Seq(Message), Waiting(q) = 0, NEW u
    PROVE  InOrder(q, u)
<1>1. Len(q) \in Nat
  OBVIOUS
<1>2. Len(q) = 0 \/ (Len(q) = 1 /\ q[1].code \in CrcCodes)
  BY <1>1 DEF Waiting, VerdictFirst
<1> QED
  BY <1>2 DEF InOrder

\* What the invariant says of the queue while an upload is being sent or waits.
LEMMA QueueIs ==
    ASSUME SessionInv
    PROVE  /\ toServer \in Seq(Message) /\ toClient \in Seq(ServerMessage)
           /\ InOrder(toServer, upload)
           /\ toServer = <<>> => Waiting(toServer) = 0 /\ ~VerdictFirst(toServer)
           /\ Waiting(toServer) \in Nat
           /\ Waiting(toServer) > 0 => toServer # <<>>
<1>1. /\ toServer \in Seq(Message) /\ toClient \in Seq(ServerMessage)
      /\ InOrder(toServer, upload)
  BY DEF SessionInv, ClientInv, SessionTypes
<1>2. toServer = <<>> => Waiting(toServer) = 0 /\ ~VerdictFirst(toServer)
  <2>1. Len(<<>>) = 0
    OBVIOUS
  <2> QED
    BY <2>1, EmptyQueue
<1>3. CASE toServer = <<>>
  BY <1>1, <1>2, <1>3
<1>4. CASE toServer # <<>>
  <2>1. upload \in Uploads
    BY <1>4, FirstMessage
  <2> QED
    BY <1>1, <1>2, <1>4, <2>1, WaitingIs
<1> QED
  BY <1>3, <1>4

\* No client step and no other one changes what the server has: a frame for both.
LEMMA ServerStays ==
    ASSUME SessionInv, UNCHANGED vars
    PROVE  /\ OneLine' /\ NeverMixed' /\ SavesNext' /\ LastIsMissing'
           /\ Still' = Still
           /\ Saving' = Saving
           /\ SavesNewest'
BY DEF SessionInv, ClientInv, OneLine, NeverMixed, Buffered, LastIsMissing, Versioned, SavesNext,
       SavesNewest, Saving, Still, vars

\* The first upload of a queue in which no packet waits.
LEMMA StartUploadKeeps ==
    ASSUME SessionInv, StartUpload
    PROVE  ClientInv'
<1>0. [SessionNext]_sessionVars
  BY DEF SessionNext, ClientStep
<1>1. /\ phase = "ready" /\ phase' = "sending" /\ attempts' = attempts + 1
      /\ attempts < MaxAttempts
      /\ UNCHANGED <<vars, toServer, toClient, confirmed, abandoned>>
  BY DEF StartUpload
<1>2. UNCHANGED <<uploads, files, disk, aes_key, pc, req, data, path>>
  BY <1>1 DEF vars
<1>3. upload' \in Uploads /\ upload'.next = 1 /\ upload'.chunk.key <= aes_key[Owner]
      /\ upload'.total >= 1
  <2>1. aes_key[Owner] \in 0..MaxKeys /\ MaxKeys \in Nat /\ MaxPackets \in Nat
    BY BackupAssumption, SessionAssumption
       DEF BackupAssumption, SessionAssumption, SessionInv, LInv, SIInv, IInv, TypeOK
  <2>2. PICK n \in Names, c \in Contents, total \in 1..MaxPackets :
           \E key \in (aes_key[Owner] - 1..aes_key[Owner]) \cap Nat :
             upload' = [name |-> n, total |-> total, next |-> 1,
                        chunk |-> [content |-> c, key |-> key, iv |-> attempts + 1]]
    BY Zenon DEF StartUpload
  <2>3. PICK key \in (aes_key[Owner] - 1..aes_key[Owner]) \cap Nat :
             upload' = [name |-> n, total |-> total, next |-> 1,
                        chunk |-> [content |-> c, key |-> key, iv |-> attempts + 1]]
    BY <2>2, Zenon
  <2>4. key \in 0..MaxKeys /\ key <= aes_key[Owner] /\ 1 \in 1..MaxPackets + 1 /\ total >= 1
    BY <2>1
  <2>5. attempts + 1 \in 1..MaxIVs
    BY <1>1, BackupAssumption, SessionAssumption
       DEF BackupAssumption, SessionAssumption, SessionInv, ClientInv, SessionTypes
  <2> QED
    BY <2>3, <2>4, <2>5 DEF Uploads, Chunks
<1>4. /\ Waiting(toServer) = 0
      /\ VerdictFirst(toServer) => Still /\ toServer[1].code = "CRC_ERROR"
      /\ ~Saving /\ ~Told(toClient, "UPLOAD_RECEIVED") /\ ~Told(toClient, "ACK")
  BY <1>1, QueueIs DEF SessionInv, ClientInv, Turns
<1>5. SessionTypes'
  <2>1. attempts' \in 0..MaxAttempts
    BY <1>1, SessionAssumption DEF SessionAssumption, SessionInv, ClientInv, SessionTypes
  <2>2. upload'.next <= upload'.total + 1
    BY <1>3 DEF Uploads
  <2> QED
    BY <1>1, <1>2, <1>3, <2>1, <2>2 DEF SessionInv, ClientInv, SessionTypes, Phases
<1>6. InOrder(toServer, upload)'
  BY <1>1, <1>4, QueueIs, NoneWaiting
<1>7. Turns'
  <2>1. upload'.next <= upload'.total
    BY <1>3
  <2> QED
    BY <1>1, <1>4, <2>1, ServerStays DEF Turns
<1>8. Buffered'
  <2>1. LastIsMissing'
    BY <1>1, ServerStays
  <2>2. BufferIsOf'
    BY <1>1, <1>2 DEF SessionInv, ClientInv, Buffered, BufferIsOf
  <2>3. Taken(toServer', upload') = 0
    BY <1>1, <1>3, <1>4 DEF Taken
  <2>4. TakenIsBuffered'
    BY <2>3 DEF TakenIsBuffered
  <2> QED
    BY <2>1, <2>2, <2>4 DEF Buffered
<1>9. Versioned'
  <2>1. ReportsNewest'
    BY <1>1, <1>4 DEF ReportsNewest, Told
  <2>2. VerdictIsTrue'
    BY <1>1, <1>2, <1>4 DEF SessionInv, ClientInv, Versioned, VerdictIsTrue
  <2> QED
    BY <1>1, <2>1, <2>2, ServerStays DEF Versioned
<1>10. AnsweredOnce(toClient)'
  BY <1>1 DEF SessionInv, ClientInv, AnsweredOnce
<1> QED
  BY <1>0, <1>1, <1>5, <1>6, <1>7, <1>8, <1>9, <1>10, ServerStays, VerifiedStep DEF ClientInv

\* One packet more is sent, and one more waits.
LEMMA SendPacketKeeps ==
    ASSUME SessionInv, SendPacket
    PROVE  ClientInv'
<1>0. [SessionNext]_sessionVars
  BY DEF SessionNext, ClientStep
<1> DEFINE m == [code |-> "CREATE_BACKUP", upload |-> upload]
<1>1. /\ phase = "sending"
      /\ phase' = IF upload.next = upload.total THEN "waiting" ELSE "sending"
      /\ toServer' = Append(toServer, m)
      /\ upload' = [upload EXCEPT !.next = @ + 1]
      /\ UNCHANGED <<vars, attempts, toClient, confirmed, abandoned>>
  BY DEF SendPacket
<1>2. UNCHANGED <<uploads, files, disk, aes_key, pc, req, data, path>>
  BY <1>1 DEF vars
<1>3. /\ upload \in Uploads /\ upload.next <= upload.total
      /\ upload.next \in Nat /\ upload.total \in Nat
      /\ upload.chunk.key <= aes_key[Owner]
  BY <1>1, BackupAssumption
     DEF BackupAssumption, Uploads, SessionInv, ClientInv, SessionTypes, Begun, Turns
<1>4. /\ upload' \in Uploads /\ toServer' \in Seq(Message) /\ InOrder(toServer', upload')
      /\ VerdictFirst(toServer') <=> VerdictFirst(toServer)
      /\ VerdictFirst(toServer) => toServer'[1] = toServer[1]
      /\ Waiting(toServer') = Waiting(toServer) + 1
      /\ \A i \in 1..Len(toServer') :
            toServer'[i].upload = upload \/ \E j \in 1..Len(toServer) : toServer'[i] = toServer[j]
  <2>1. toServer \in Seq(Message) /\ InOrder(toServer, upload)
    BY QueueIs
  <2> HIDE DEF m
  <2> QED
    BY <1>1, <1>3, <2>1, QueuePacket DEF m
<1>5. /\ upload'.next = upload.next + 1 /\ upload'.name = upload.name
      /\ upload'.total = upload.total /\ upload'.chunk = upload.chunk
  BY <1>1, <1>3 DEF Uploads
<1>6. /\ VerdictFirst(toServer) => Still /\ toServer[1].code = "CRC_ERROR"
      /\ ~Saving /\ ~Told(toClient, "UPLOAD_RECEIVED") /\ ~Told(toClient, "ACK")
  BY <1>1, QueueIs DEF SessionInv, ClientInv, Turns
<1>7. phase' \in {"sending", "waiting"}
  BY <1>1
<1>8. SessionTypes'
  <2>1. \A i \in 1..Len(toServer') : toServer'[i].upload.chunk.key <= aes_key[Owner]
    BY <1>3, <1>4 DEF SessionInv, ClientInv, SessionTypes
  <2>2. upload'.next <= upload'.total + 1
    BY <1>3, <1>5
  <2>3. upload'.chunk.key <= aes_key[Owner]
    BY <1>3, <1>5
  <2> QED
    BY <1>1, <1>2, <1>4, <1>7, <2>1, <2>2, <2>3 DEF SessionInv, ClientInv, SessionTypes, Phases
<1>9. Turns'
  <2>1. phase' = "sending" => upload'.next <= upload'.total
    BY <1>1, <1>3, <1>5
  <2>2. phase' = "waiting" => upload'.next = upload'.total + 1
    BY <1>1, <1>3, <1>5
  <2>3. phase' \notin {"away", "matched", "mismatch"}
    BY <1>7
  <2> QED
    BY <1>1, <1>4, <1>6, <1>7, <2>1, <2>2, <2>3, ServerStays DEF Turns
<1>10. Buffered'
  <2>1. LastIsMissing'
    BY <1>1, ServerStays
  <2>2. BufferIsOf'
    BY <1>1, <1>2, <1>5, <1>7 DEF SessionInv, ClientInv, Buffered, BufferIsOf, Matches
  <2>3. Taken(toServer', upload') = Taken(toServer, upload)
    BY <1>3, <1>4, <1>5, QueueIs DEF Taken
  <2>4. TakenIsBuffered'
    BY <1>1, <1>2, <1>5, <2>3 DEF SessionInv, ClientInv, Buffered, TakenIsBuffered, Matches
  <2> QED
    BY <2>1, <2>2, <2>4 DEF Buffered
<1>11. Versioned'
  <2>1. ReportsNewest'
    BY <1>1, <1>6 DEF ReportsNewest, Told
  <2>2. VerdictIsTrue'
    BY <1>1, <1>2, <1>4, <1>6, <1>7 DEF SessionInv, ClientInv, Versioned, VerdictIsTrue
  <2> QED
    BY <1>1, <2>1, <2>2, ServerStays DEF Versioned
<1>12. AnsweredOnce(toClient)'
  BY <1>1 DEF SessionInv, ClientInv, AnsweredOnce
<1> QED
  BY <1>0, <1>1, <1>4, <1>8, <1>9, <1>10, <1>11, <1>12, ServerStays, VerifiedStep DEF ClientInv

\* The upload that was being sent counts as given up.
LEMMA GoAwayKeeps ==
    ASSUME SessionInv, HangUp \/ SeeEnd \/ ReadFailure
    PROVE  ClientInv'
<1>0. [SessionNext]_sessionVars
  BY DEF SessionNext, ClientStep
<1>1. /\ phase # "away" /\ phase' = "away" /\ toClient' = <<>>
      /\ abandoned' = IF phase \in {"sending", "waiting"}
                      THEN abandoned \cup {<<upload.name, upload.total>>} ELSE abandoned
      /\ UNCHANGED <<vars, upload, attempts, toServer, confirmed>>
  BY DEF HangUp, SeeEnd, ReadFailure, GoAway
<1>2. UNCHANGED <<uploads, files, disk, aes_key, pc, req, data, path>>
  BY <1>1 DEF vars
<1>3. Len(toClient') = 0
  BY <1>1
<1>4. SessionTypes'
  <2>1. toClient' \in Seq(ServerMessage)
    BY <1>1
  <2>2. Begun' => Begun
    BY <1>1 DEF Begun
  <2> QED
    BY <1>1, <1>2, <2>1, <2>2 DEF SessionInv, ClientInv, SessionTypes, Phases
<1>5. InOrder(toServer, upload)'
  BY <1>1 DEF SessionInv, ClientInv
<1>6. Turns'
  <2>1. Waiting(toServer) > 0 => <<upload.name, upload.total>> \in abandoned'
    BY <1>1 DEF SessionInv, ClientInv, Turns
  <2>2. \A code : ~Told(toClient', code)
    BY <1>3 DEF Told
  <2>3. VerdictFirst(toServer) => Still
    BY DEF SessionInv, ClientInv, Turns
  <2>4. Saving => toServer = <<>> /\ Owner \notin DOMAIN uploads /\ req[Line].name = upload.name
    BY DEF SessionInv, ClientInv, Turns
  <2> QED
    BY <1>1, <1>2, <2>1, <2>2, <2>3, <2>4, ServerStays DEF Turns
<1>7. Buffered'
  <2>1. LastIsMissing'
    BY <1>1, ServerStays
  <2>2. BufferIsOf'
    BY <1>1, <1>2 DEF SessionInv, ClientInv, Buffered, BufferIsOf, Matches
  <2>3. TakenIsBuffered'
    BY <1>1, <1>2 DEF SessionInv, ClientInv, Buffered, TakenIsBuffered, Matches
  <2> QED
    BY <2>1, <2>2, <2>3 DEF Buffered
<1>8. Versioned'
  <2>1. ReportsNewest'
    BY <1>3 DEF ReportsNewest
  <2>2. VerdictIsTrue'
    BY <1>1, <1>2 DEF SessionInv, ClientInv, Versioned, VerdictIsTrue
  <2> QED
    BY <1>1, <2>1, <2>2, ServerStays DEF Versioned
<1>9. AnsweredOnce(toClient)'
  BY <1>3 DEF AnsweredOnce
<1> QED
  BY <1>0, <1>1, <1>4, <1>5, <1>6, <1>7, <1>8, <1>9, ServerStays, VerifiedStep DEF ClientInv

\* The client reads the first response.
LEMMA ResponseRead ==
    ASSUME NEW q \in Seq(ServerMessage), q # <<>>, AnsweredOnce(q)
    PROVE  LET r == Tail(q)
           IN  /\ Head(q) = q[1] /\ q[1] \in ServerMessage /\ 1 \in 1..Len(q)
               /\ r \in Seq(ServerMessage) /\ AnsweredOnce(r)
               /\ \A i \in 1..Len(r) : \E j \in 1..Len(q) : r[i] = q[j]
               /\ \A code : Told(r, code) => Told(q, code)
               /\ q[1].code \in {"UPLOAD_RECEIVED", "ACK"} => ~Told(r, q[1].code)
<1> DEFINE r == Tail(q)
<1>1. /\ Head(q) = q[1] /\ q[1] \in ServerMessage /\ 1 \in 1..Len(q)
      /\ r \in Seq(ServerMessage)
      /\ \A i \in 1..Len(r) : i + 1 \in 1..Len(q) /\ i + 1 # 1 /\ r[i] = q[i + 1]
      /\ \A i, j \in 1..Len(r) : i + 1 = j + 1 => i = j
  OBVIOUS
<1> HIDE DEF r
<1>2. AnsweredOnce(r)
  <2> SUFFICES ASSUME NEW i \in 1..Len(r), NEW j \in 1..Len(r), r[i].code = r[j].code,
                      r[i].code \in {"UPLOAD_RECEIVED", "ACK"}
               PROVE  i = j
    BY DEF AnsweredOnce
  <2>1. i + 1 = j + 1
    BY <1>1 DEF AnsweredOnce
  <2> QED
    BY <1>1, <2>1
<1>3. \A i \in 1..Len(r) : \E j \in 1..Len(q) : r[i] = q[j]
  BY <1>1
<1>4. \A code : Told(r, code) => Told(q, code)
  BY <1>3 DEF Told
<1>5. ASSUME q[1].code \in {"UPLOAD_RECEIVED", "ACK"}, Told(r, q[1].code)
      PROVE  FALSE
  <2>1. PICK i \in 1..Len(r) : r[i].code = q[1].code
    BY <1>5 DEF Told
  <2>2. i + 1 \in 1..Len(q) /\ i + 1 # 1 /\ q[i + 1].code = q[1].code
    BY <1>1, <2>1
  <2> QED
    BY <1>1, <1>5, <2>2 DEF AnsweredOnce
<1> QED
  BY <1>1, <1>2, <1>3, <1>4, <1>5 DEF r

\* The only report of an upload, or the only ACK of a verdict, is read.
LEMMA ReadResponseKeeps ==
    ASSUME SessionInv, ReadResponse
    PROVE  ClientInv'
<1>0. [SessionNext]_sessionVars
  BY DEF SessionNext, ClientStep
<1> DEFINE r == toClient[1]
<1>1. /\ toClient # <<>> /\ toClient' = Tail(toClient)
      /\ UNCHANGED <<vars, upload, attempts, toServer, abandoned>>
  BY DEF ReadResponse
<1>2. UNCHANGED <<uploads, files, disk, aes_key, pc, req, data, path>>
  BY <1>1 DEF vars
<1>3. /\ Head(toClient) = r /\ 1 \in 1..Len(toClient)
      /\ toClient' \in Seq(ServerMessage) /\ AnsweredOnce(toClient')
      /\ \A i \in 1..Len(toClient') : \E j \in 1..Len(toClient) : toClient'[i] = toClient[j]
      /\ \A code : Told(toClient', code) => Told(toClient, code)
      /\ r.code \in {"UPLOAD_RECEIVED", "ACK"} => Told(toClient, r.code) /\ ~Told(toClient', r.code)
  <2>1. toClient \in Seq(ServerMessage) /\ AnsweredOnce(toClient)
    BY QueueIs DEF SessionInv, ClientInv
  <2>2. Told(toClient, r.code)
    BY <1>1, <2>1, ResponseRead DEF Told
  <2> QED
    BY <1>1, <2>1, <2>2, ResponseRead
<1>4. \/ /\ phase = "waiting" /\ r.code = "UPLOAD_RECEIVED" /\ phase' = "matched"
         /\ confirmed' = confirmed \cup {[path |-> r.path, content |-> r.content]}
      \/ phase = "waiting" /\ r.code = "UPLOAD_RECEIVED" /\ phase' = "mismatch"
      \/ phase = "confirming" /\ r.code = "ACK" /\ phase' = "ready"
  BY <1>3 DEF ReadResponse
<1>5. /\ toServer = <<>> /\ ~Saving
      /\ Waiting(toServer) = 0 /\ ~VerdictFirst(toServer)
      /\ phase \in {"waiting", "confirming"} /\ phase' \in {"matched", "mismatch", "ready"}
      /\ phase = "waiting" => Still /\ Owner \notin DOMAIN uploads
      /\ ~Told(toClient', "UPLOAD_RECEIVED") /\ ~Told(toClient', "ACK")
  <2>1. CASE phase = "waiting"
    <3>1. Told(toClient, "UPLOAD_RECEIVED") /\ ~Told(toClient', "UPLOAD_RECEIVED")
      BY <1>3, <1>4, <2>1
    <3>2. ~Told(toClient', "ACK")
      BY <1>3, <2>1 DEF SessionInv, ClientInv, Turns
    <3>3. toServer = <<>> /\ Still /\ Owner \notin DOMAIN uploads
      BY <3>1 DEF SessionInv, ClientInv, Turns
    <3>4. ~Saving
      BY <3>3 DEF Saving, Still, SavingSteps
    <3> QED
      BY <1>4, <2>1, <3>1, <3>2, <3>3, <3>4, QueueIs
  <2>2. CASE phase = "confirming"
    <3>1. Told(toClient, "ACK") /\ ~Told(toClient', "ACK")
      BY <1>3, <1>4, <2>2
    <3>2. ~Told(toClient', "UPLOAD_RECEIVED")
      BY <1>3, <2>2 DEF SessionInv, ClientInv, Turns
    <3>3. toServer = <<>> /\ ~Saving
      BY <2>2, <3>1 DEF SessionInv, ClientInv, Turns
    <3> QED
      BY <1>4, <2>2, <3>1, <3>2, <3>3, QueueIs
  <2> QED
    BY <1>4, <2>1, <2>2
<1>6. phase' \in {"matched", "mismatch"} => phase = "waiting"
  BY <1>4
<1>7. SessionTypes'
  <2>1. Begun' => Begun
    BY <1>1, <1>5, <1>6 DEF Begun
  <2> QED
    BY <1>1, <1>2, <1>3, <1>5, <2>1 DEF SessionInv, ClientInv, SessionTypes, Phases
<1>8. InOrder(toServer, upload)'
  BY <1>1 DEF SessionInv, ClientInv
<1>9. Turns'
  BY <1>1, <1>2, <1>5, <1>6, ServerStays DEF Turns
<1>10. Buffered'
  <2>1. LastIsMissing'
    BY <1>1, ServerStays
  <2>2. BufferIsOf'
    BY <1>1, <1>2, <1>5 DEF SessionInv, ClientInv, Buffered, BufferIsOf
  <2>3. TakenIsBuffered'
    BY <1>1, <1>5 DEF TakenIsBuffered
  <2> QED
    BY <2>1, <2>2, <2>3 DEF Buffered
<1>11. Versioned'
  <2>1. ReportsNewest'
    BY <1>5 DEF ReportsNewest, Told
  <2>2. ASSUME phase' = "matched"
        PROVE  Confirmed(files, disk, confirmed', upload.name)
    <3>1. /\ r.code = "UPLOAD_RECEIVED"
          /\ [path |-> r.path, content |-> r.content] \in confirmed'
      BY <1>4, <2>2
    <3>2. /\ HasVersions(files, upload.name) /\ r.path = Newest(files, upload.name)
          /\ Stands(disk, r.path, r.content)
      BY <1>3, <3>1 DEF SessionInv, ClientInv, Versioned, ReportsNewest
    <3> QED
      BY <3>1, <3>2 DEF Confirmed
  <2>3. \A n : Confirmed(files, disk, confirmed, n) => Confirmed(files, disk, confirmed', n)
    BY <1>0, ConfirmedGrows DEF Confirmed
  <2>4. VerdictIsTrue'
    BY <1>1, <1>2, <1>5, <2>2, <2>3 DEF SessionInv, ClientInv, Versioned, VerdictIsTrue
  <2> QED
    BY <1>1, <2>1, <2>4, ServerStays DEF Versioned
<1> QED
  BY <1>0, <1>1, <1>3, <1>7, <1>8, <1>9, <1>10, <1>11, ServerStays, VerifiedStep DEF ClientInv

\* The verdict is the only message that waits.
LEMMA SendVerdictKeeps ==
    ASSUME SessionInv, SendVerdict
    PROVE  ClientInv'
<1>0. [SessionNext]_sessionVars
  BY DEF SessionNext, ClientStep
<1>1. PICK code \in CrcCodes :
         /\ toServer' = Append(toServer, [code |-> code, upload |-> upload])
         /\ \/ phase = "matched" /\ code = "CRC_SUCCESS" /\ phase' = "confirming"
            \/ phase = "mismatch" /\ code = "CRC_ERROR" /\ phase' = "ready"
            \/ phase = "mismatch" /\ code = "CRC_FAILURE" /\ phase' = "confirming"
  BY DEF SendVerdict, CrcCodes
<1>2. UNCHANGED <<vars, upload, attempts, toClient, confirmed, abandoned>>
  BY DEF SendVerdict
<1>3. UNCHANGED <<uploads, files, disk, aes_key, pc, req, data, path>>
  BY <1>2 DEF vars
<1>4. /\ phase \in {"matched", "mismatch"} /\ phase' \in {"ready", "confirming"}
      /\ toServer = <<>> /\ Still /\ ~Saving
      /\ ~Told(toClient, "UPLOAD_RECEIVED") /\ ~Told(toClient, "ACK")
  BY <1>1 DEF SessionInv, ClientInv, Turns
<1>5. upload \in Uploads /\ upload.chunk.key <= aes_key[Owner] /\ upload.next <= upload.total + 1
  BY <1>4 DEF SessionInv, ClientInv, SessionTypes, Begun
<1>6. /\ toServer' \in Seq(Message) /\ InOrder(toServer', upload) /\ VerdictFirst(toServer')
      /\ Waiting(toServer') = 0 /\ Len(toServer') = 1
      /\ toServer'[1].code = code /\ toServer'[1].upload = upload
  <2>1. toServer' = Append(<<>>, [code |-> code, upload |-> upload])
    BY <1>1, <1>4
  <2> QED
    BY <1>5, <2>1, QueueVerdict
<1>7. SessionTypes'
  <2>1. \A i \in 1..Len(toServer') : toServer'[i].upload.chunk.key <= aes_key[Owner]
    BY <1>5, <1>6
  <2> QED
    BY <1>2, <1>3, <1>4, <1>5, <1>6, <2>1 DEF SessionInv, ClientInv, SessionTypes, Phases
<1>8. InOrder(toServer, upload)'
  BY <1>2, <1>6
<1>9. Turns'
  <2>1. \/ code = "CRC_ERROR" /\ phase' = "ready"
        \/ code # "CRC_ERROR" /\ phase' = "confirming"
    BY <1>1
  <2> QED
    BY <1>2, <1>3, <1>4, <1>6, <2>1, ServerStays DEF Turns
<1>10. Buffered'
  <2>1. LastIsMissing'
    BY <1>2, ServerStays
  <2>2. BufferIsOf'
    BY <1>2, <1>3, <1>4 DEF SessionInv, ClientInv, Buffered, BufferIsOf
  <2>3. TakenIsBuffered'
    BY <1>4, <1>6 DEF TakenIsBuffered
  <2> QED
    BY <2>1, <2>2, <2>3 DEF Buffered
<1>11. Versioned'
  <2>1. ReportsNewest'
    BY <1>2, <1>4 DEF ReportsNewest, Told
  <2>2. code = "CRC_SUCCESS" => Confirmed(files, disk, confirmed, upload.name)
    BY <1>1 DEF SessionInv, ClientInv, Versioned, VerdictIsTrue
  <2>3. VerdictIsTrue'
    BY <1>2, <1>3, <1>4, <1>6, <2>2 DEF Still, VerdictIsTrue
  <2> QED
    BY <1>2, <2>1, <2>3, ServerStays DEF Versioned
<1>12. AnsweredOnce(toClient)'
  BY <1>2 DEF SessionInv, ClientInv, AnsweredOnce
<1> QED
  BY <1>0, <1>2, <1>7, <1>8, <1>9, <1>10, <1>11, <1>12, ServerStays, VerifiedStep DEF ClientInv

\* The client registers again: its uploads may be under an older key now.
LEMMA ExchangesKeyKeeps ==
    ASSUME SessionInv, ExchangesKey
    PROVE  ClientInv'
<1>0. [SessionNext]_sessionVars
  BY DEF SessionNext, ClientStep
<1>1. /\ aes_key' = [aes_key EXCEPT ![Owner] = @ + 1]
      /\ UNCHANGED <<uploads, files, disk, pc, req, data, path>>
      /\ UNCHANGED <<phase, upload, attempts, toServer, toClient, confirmed, abandoned>>
  BY DEF ExchangesKey, Rekey, locals, clientVars
<1>2. aes_key[Owner] \in Nat /\ aes_key'[Owner] = aes_key[Owner] + 1
  <2>1. aes_key \in [Users -> 0..MaxKeys] /\ MaxKeys \in Nat /\ Owner \in Users
    BY BackupAssumption, SessionAssumption
       DEF BackupAssumption, SessionAssumption, SessionInv, LInv, SIInv, IInv, TypeOK
  <2> QED
    BY <1>1, <2>1
<1>3. \A k \in Nat : k <= aes_key[Owner] => k <= aes_key'[Owner]
  BY <1>2
<1>4. SessionTypes'
  <2>1. \A i \in 1..Len(toServer) :
           toServer[i].upload.chunk.key \in Nat /\ toServer[i].upload.chunk.key <= aes_key[Owner]
    <3> SUFFICES ASSUME NEW i \in 1..Len(toServer)
                 PROVE  /\ toServer[i].upload.chunk.key \in Nat
                        /\ toServer[i].upload.chunk.key <= aes_key[Owner]
      OBVIOUS
    <3>1. toServer[i] \in Message
      BY QueueIs
    <3>2. toServer[i].upload \in Uploads
      BY <3>1 DEF Message
    <3>3. toServer[i].upload.chunk \in Chunks
      BY <3>2 DEF Uploads
    <3>4. toServer[i].upload.chunk.key \in Nat
      BY <3>3, BackupAssumption DEF Chunks, BackupAssumption
    <3>5. toServer[i].upload.chunk.key <= aes_key[Owner]
      BY DEF SessionInv, ClientInv, SessionTypes
    <3> QED
      BY <3>4, <3>5
  <2>2. Begun => upload.chunk.key \in Nat /\ upload.chunk.key <= aes_key[Owner]
    BY DEF Uploads, Chunks, SessionInv, ClientInv, SessionTypes
  <2> QED
    BY <1>1, <1>3, <2>1, <2>2 DEF SessionInv, ClientInv, SessionTypes, Begun
<1>5. OneLine' /\ InOrder(toServer, upload)' /\ AnsweredOnce(toClient)' /\ NeverMixed'
  BY <1>1 DEF SessionInv, ClientInv, OneLine, AnsweredOnce, NeverMixed
<1>6. Turns'
  BY <1>1 DEF SessionInv, ClientInv, Turns, Still, Saving
<1>7. Buffered'
  BY <1>1 DEF SessionInv, ClientInv, Buffered, LastIsMissing, BufferIsOf, TakenIsBuffered, Matches
<1>8. Versioned'
  BY <1>1 DEF SessionInv, ClientInv, Versioned, SavesNext, SavesNewest, ReportsNewest,
              VerdictIsTrue, Saving
<1> QED
  BY <1>0, <1>4, <1>5, <1>6, <1>7, <1>8, VerifiedStep DEF ClientInv

-----------------------------------------------------------------------------
(* Connections begin and end.                                              *)

\* The client begins again with nothing under way.
LEMMA ClientConnectsKeeps ==
    ASSUME SessionInv, ClientConnects
    PROVE  ClientInv'
<1>0. [SessionNext]_sessionVars
  BY DEF SessionNext, ClientStep
<1>1. /\ phase = "away" /\ phase' = "ready" /\ toServer' = <<>> /\ toClient' = <<>>
      /\ UNCHANGED <<upload, attempts, confirmed, abandoned>>
      /\ UNCHANGED <<uploads, files, disk, aes_key>>
      /\ pc' = [pc EXCEPT ![Line] = "idle"]
  BY DEF ClientConnects, Connect, Goto, shared
<1>2. pc'[Line] = "idle" /\ \A t \in Conns \ {Line} : pc'[t] = pc[t]
  BY <1>1, SessionAssumption DEF SessionAssumption, SessionInv, LInv, SIInv, IInv, TypeOK
<1>3. Len(toServer') = 0 /\ Len(toClient') = 0 /\ ~Saving'
  BY <1>1, <1>2 DEF Saving, SavingSteps
<1>4. Waiting(toServer') = 0 /\ ~VerdictFirst(toServer') /\ InOrder(toServer', upload')
  BY <1>3, EmptyQueue
<1>5. SessionTypes'
  <2>1. toServer' \in Seq(Message) /\ toClient' \in Seq(ServerMessage)
    BY <1>1
  <2>2. ~Begun'
    BY <1>1 DEF Begun
  <2> QED
    BY <1>1, <1>3, <2>1, <2>2 DEF SessionInv, ClientInv, SessionTypes, Phases
<1>6. OneLine' /\ NeverMixed' /\ AnsweredOnce(toClient)'
  BY <1>2, <1>3 DEF SessionInv, ClientInv, OneLine, NeverMixed, AnsweredOnce
<1>7. Turns'
  BY <1>1, <1>3, <1>4 DEF Turns, Told
<1>8. Buffered'
  BY <1>1, <1>4 DEF SessionInv, ClientInv, Buffered, LastIsMissing, BufferIsOf, TakenIsBuffered
<1>9. Versioned'
  BY <1>1, <1>2, <1>3, <1>4 DEF Versioned, SavesNext, SavesNewest, ReportsNewest, VerdictIsTrue
<1> QED
  BY <1>0, <1>4, <1>5, <1>6, <1>7, <1>8, <1>9, VerifiedStep DEF ClientInv

\* What was sent and not read is lost.
LEMMA ThreadEndsKeeps ==
    ASSUME SessionInv, ThreadEnds
    PROVE  ClientInv'
<1>0. [SessionNext]_sessionVars
  BY DEF SessionNext
<1>1. /\ phase = "away" /\ toServer' = <<>> /\ pc' = [pc EXCEPT ![Line] = "closed"]
      /\ UNCHANGED <<toClient, phase, upload, attempts, confirmed, abandoned>>
      /\ UNCHANGED <<uploads, files, disk, aes_key>>
  BY DEF ThreadEnds, Disconnect, Goto, shared, OnServer
<1>2. pc'[Line] = "closed" /\ \A t \in Conns \ {Line} : pc'[t] = pc[t]
  BY <1>1, SessionAssumption DEF SessionAssumption, SessionInv, LInv, SIInv, IInv, TypeOK
<1>3. Len(toServer') = 0 /\ toClient' = <<>> /\ Len(toClient') = 0 /\ ~Saving'
  BY <1>1, <1>2 DEF Saving, SavingSteps, SessionInv, ClientInv, Turns
<1>4. Waiting(toServer') = 0 /\ ~VerdictFirst(toServer') /\ InOrder(toServer', upload')
  BY <1>3, EmptyQueue
<1>5. SessionTypes'
  <2>1. toServer' \in Seq(Message) /\ toClient' \in Seq(ServerMessage)
    BY <1>1, <1>3
  <2>2. ~Begun'
    BY <1>1 DEF Begun
  <2> QED
    BY <1>1, <1>3, <2>1, <2>2 DEF SessionInv, ClientInv, SessionTypes, Phases
<1>6. OneLine' /\ NeverMixed' /\ AnsweredOnce(toClient)'
  BY <1>2, <1>3 DEF SessionInv, ClientInv, OneLine, NeverMixed, AnsweredOnce
<1>7. Turns'
  BY <1>1, <1>3, <1>4 DEF Turns, Told
<1>8. Buffered'
  BY <1>1, <1>2, <1>4 DEF SessionInv, ClientInv, Buffered, LastIsMissing, BufferIsOf, TakenIsBuffered
<1>9. Versioned'
  BY <1>1, <1>2, <1>3, <1>4 DEF Versioned, SavesNext, SavesNewest, ReportsNewest, VerdictIsTrue
<1> QED
  BY <1>0, <1>4, <1>5, <1>6, <1>7, <1>8, <1>9, VerifiedStep DEF ClientInv

\* The responses that were sent can still be read.
LEMMA ServerDiesKeeps ==
    ASSUME SessionInv, ServerDies
    PROVE  ClientInv'
<1>0. [SessionNext]_sessionVars
  BY DEF SessionNext
<1>1. /\ toServer' = <<>> /\ uploads' = EmptyMap /\ pc' = [t \in Conns |-> "closed"]
      /\ UNCHANGED <<toClient, phase, upload, attempts, confirmed, abandoned>>
      /\ UNCHANGED <<files, disk, aes_key>>
  BY DEF ServerDies, Crash, OnServer
<1>2. pc'[Line] = "closed" /\ \A t \in Conns : pc'[t] = "closed"
  BY <1>1, SessionAssumption DEF SessionAssumption
<1>3. Len(toServer') = 0 /\ ~Saving' /\ Still' /\ Owner \notin DOMAIN uploads'
  BY <1>1, <1>2 DEF Saving, SavingSteps, Still, EmptyMap
<1>4. Waiting(toServer') = 0 /\ ~VerdictFirst(toServer') /\ InOrder(toServer', upload')
  BY <1>3, EmptyQueue
<1>5. SessionTypes'
  <2>1. toServer' \in Seq(Message)
    BY <1>1
  <2>2. Begun' => Begun
    BY <1>1 DEF Begun
  <2> QED
    BY <1>1, <1>3, <2>1, <2>2 DEF SessionInv, ClientInv, SessionTypes, Phases
<1>6. OneLine' /\ NeverMixed' /\ AnsweredOnce(toClient)'
  BY <1>1, <1>2 DEF SessionInv, ClientInv, OneLine, NeverMixed, AnsweredOnce
<1>7. Turns'
  BY <1>1, <1>3, <1>4 DEF SessionInv, ClientInv, Turns
<1>8. Buffered'
  BY <1>2, <1>3 DEF Buffered, LastIsMissing, BufferIsOf, TakenIsBuffered
<1>9. Versioned'
  BY <1>1, <1>2, <1>3, <1>4 DEF SessionInv, ClientInv, Versioned, SavesNext, SavesNewest,
                                ReportsNewest, VerdictIsTrue
<1> QED
  BY <1>0, <1>4, <1>5, <1>6, <1>7, <1>8, <1>9, VerifiedStep DEF ClientInv

-----------------------------------------------------------------------------
(* The responses of the server.                                            *)

\* What a step of a handler adds to the responses of its request.
LEMMA NewReplies ==
    ASSUME NEW q \in Seq(Responses)
    PROVE  /\ SubSeq(q, Len(q) + 1, Len(q)) = <<>>
           /\ SubSeq(<<>>, Len(q) + 1, Len(<<>>)) = <<>>
           /\ \A r \in Responses :
                 SubSeq(Append(q, r), Len(q) + 1, Len(Append(q, r))) = <<r>>
<1>1. Len(q) \in Nat
  OBVIOUS
<1>2. SubSeq(q, Len(q) + 1, Len(q)) = <<>>
  OBVIOUS
<1>3. SubSeq(<<>>, Len(q) + 1, Len(<<>>)) = <<>>
  <2>1. Len(<<>>) = 0
    OBVIOUS
  <2> QED
    BY <1>1, <2>1
<1>4. ASSUME NEW r \in Responses
      PROVE  SubSeq(Append(q, r), Len(q) + 1, Len(Append(q, r))) = <<r>>
  <2> DEFINE s == Append(q, r)
  <2>1. s \in Seq(Responses) /\ Len(s) = Len(q) + 1 /\ s[Len(q) + 1] = r
    OBVIOUS
  <2> HIDE DEF s
  <2>2. ASSUME NEW k \in 1..Len(s)
        PROVE  SubSeq(s, k, k) = <<s[k]>>
    <3> DEFINE z == SubSeq(s, k, k)
    <3>1. z \in Seq(Responses) /\ Len(z) = 1 /\ z[1] = s[k]
      BY <2>1
    <3> HIDE DEF z
    <3>2. z = <<z[1]>>
      BY <3>1
    <3> QED
      BY <3>1, <3>2 DEF z
  <2>3. Len(q) + 1 \in 1..Len(s)
    BY <1>1, <2>1
  <2>4. SubSeq(s, Len(q) + 1, Len(s)) = <<s[Len(q) + 1]>>
    BY <2>1, <2>2, <2>3
  <2> QED
    BY <2>1, <2>4 DEF s
<1> QED
  BY <1>2, <1>3, <1>4

\* A step without a response leaves the client's queue as it is.
LEMMA NothingSent ==
    ASSUME SessionInv, Sent(<<>>)
    PROVE  toClient' = toClient
<1>1. CASE phase = "away"
  BY <1>1 DEF Sent, SessionInv, ClientInv, Turns
<1>2. CASE phase # "away"
  <2>1. toClient \in Seq(ServerMessage)
    BY QueueIs
  <2>2. \A f : [i \in DOMAIN <<>> |-> f[i]] = <<>>
    OBVIOUS
  <2>3. [i \in DOMAIN <<>> |-> [code |-> <<>>[i], content |-> data[Line], path |-> path[Line]]] = <<>>
    OBVIOUS
  <2>4. toClient' = toClient \o <<>>
    BY <1>2, <2>3 DEF Sent
  <2> QED
    BY <2>1, <2>4
<1> QED
  BY <1>1, <1>2

\* A response reaches a client that is there, after those before it.
LEMMA OneSent ==
    ASSUME SessionInv, NEW code \in Responses, Sent(<<code>>)
    PROVE  /\ toClient' \in Seq(ServerMessage)
           /\ phase = "away" => toClient' = <<>>
           /\ code = "FAILED" \/ ~Told(toClient, code) => AnsweredOnce(toClient')
           /\ \A c : Told(toClient', c) => Told(toClient, c) \/ (c = code /\ phase # "away")
           /\ \A i \in 1..Len(toClient') :
                 \/ \E j \in 1..Len(toClient) : toClient'[i] = toClient[j]
                 \/ /\ toClient'[i].code = code /\ toClient'[i].path = path[Line]
                    /\ toClient'[i].content = data[Line]
<1> DEFINE m == [code |-> code, content |-> data[Line], path |-> path[Line]]
<1>1. CASE phase = "away"
  <2>1. toClient' = <<>>
    BY <1>1 DEF Sent
  <2>2. Len(toClient') = 0
    BY <2>1
  <2> QED
    BY <2>1, <2>2 DEF AnsweredOnce, Told
<1>2. CASE phase # "away"
  <2>1. toClient \in Seq(ServerMessage)
    BY QueueIs
  <2>2. m \in ServerMessage /\ m.code = code /\ m.path = path[Line] /\ m.content = data[Line]
    BY SessionAssumption
       DEF SessionAssumption, ServerMessage, SessionInv, LInv, SIInv, IInv, TypeOK
  <2>3. [i \in DOMAIN <<code>> |-> [code |-> <<code>>[i], content |-> data[Line], path |-> path[Line]]]
          = <<m>>
    <3> DEFINE f == [i \in DOMAIN <<code>> |->
                        [code |-> <<code>>[i], content |-> data[Line], path |-> path[Line]]]
    <3>1. DOMAIN <<code>> = 1..1 /\ <<code>>[1] = code
      OBVIOUS
    <3>2. f = [i \in 1..1 |-> m]
      BY <3>1
    <3> HIDE DEF m, f
    <3>3. [i \in 1..1 |-> m] = <<m>>
      OBVIOUS
    <3> QED
      BY <3>2, <3>3 DEF f, m
  <2>4. toClient' = toClient \o <<m>>
    BY <1>2, <2>3 DEF Sent
  <2> HIDE DEF m
  <2>5. /\ toClient' \in Seq(ServerMessage) /\ Len(toClient') = Len(toClient) + 1
        /\ Len(toClient) \in Nat
        /\ toClient'[Len(toClient) + 1] = m
        /\ \A i \in 1..Len(toClient) : toClient'[i] = toClient[i]
    BY <2>1, <2>2, <2>4
  <2>6. \A i \in 1..Len(toClient') : i \in 1..Len(toClient) \/ i = Len(toClient) + 1
    BY <2>5
  <2>7. \A c : Told(toClient', c) => Told(toClient, c) \/ c = code
    BY <2>2, <2>5, <2>6 DEF Told
  <2>8. ASSUME code = "FAILED" \/ ~Told(toClient, code)
        PROVE  AnsweredOnce(toClient')
    <3>1. AnsweredOnce(toClient)
      BY DEF SessionInv, ClientInv
    <3> QED
      BY <2>2, <2>5, <2>6, <2>8, <3>1 DEF AnsweredOnce, Told
  <2>9. \A i \in 1..Len(toClient') :
            (\E j \in 1..Len(toClient) : toClient'[i] = toClient[j]) \/ toClient'[i] = m
    BY <2>5, <2>6
  <2> QED
    BY <1>2, <2>2, <2>5, <2>7, <2>8, <2>9
<1> QED
  BY <1>1, <1>2

\* What a handler leaves alone, and what it answers.
LEMMA HandleOutcome ==
    ASSUME TypeOK, NEW t \in Conns, Handle(t)
    PROVE  /\ UNCHANGED <<uploads, aes_key>>
           /\ pc[t] \in Steps /\ pc'[t] # "decrypt"
           /\ LET new == SubSeq(replies'[t], Len(replies[t]) + 1, Len(replies'[t]))
              IN  \/ new = <<>>
                  \/ new = <<"FAILED">>
                  \/ SendUploadReceived(t) /\ new = <<"UPLOAD_RECEIVED">>
<1>1. /\ pc \in [Conns -> Steps \cup {"idle", "closed"}]
      /\ replies \in [Conns -> Seq(Responses)] /\ replies[t] \in Seq(Responses)
  BY DEF TypeOK
<1>2. UNCHANGED <<uploads, aes_key>>
  BY DEF Handle, Persist, HandleCrc, HandlerError, Answer, Decrypt, DecryptFails, PickVersion,
         OpenFile, WriteFile, WriteFails, AddFile, TouchLastSeen, SendUploadReceived, Lookup,
         LookupFails, CheckExists, MarkVerified, Unlink, UnlinkFails, MarkUnverified,
         DatabaseError, DiskError, SendError, SendFailure, LoseConnection, shared
<1>3. pc[t] \in Steps
  BY DEF Handle, Persist, HandleCrc, HandlerError, Answer, Decrypt, DecryptFails, PickVersion,
         OpenFile, WriteFile, WriteFails, AddFile, TouchLastSeen, SendUploadReceived, Lookup,
         LookupFails, CheckExists, MarkVerified, Unlink, UnlinkFails, MarkUnverified,
         DatabaseError, DiskError, SendError, SendFailure, LoseConnection,
         Steps, SavingSteps, CrcSteps
<1>4. pc'[t] # "decrypt"
  <2>1. CASE Persist(t)
    BY <1>1, <2>1
       DEF Persist, Decrypt, DecryptFails, PickVersion, OpenFile, WriteFile, WriteFails, AddFile,
           TouchLastSeen, SendUploadReceived, Raise, Leave, Goto
  <2>2. CASE HandleCrc(t)
    BY <1>1, <2>2
       DEF HandleCrc, Lookup, LookupFails, CheckExists, MarkVerified, Unlink, UnlinkFails,
           MarkUnverified, AfterExists, Raise, Leave, Goto
  <2>3. CASE HandlerError(t) \/ Answer(t)
    BY <1>1, <2>3
       DEF HandlerError, Answer, DatabaseError, DiskError, SendError, SendFailure,
           LoseConnection, Raise, Leave, Goto
  <2> QED
    BY <2>1, <2>2, <2>3 DEF Handle
<1>5. \/ replies'[t] = replies[t]
      \/ replies'[t] = <<>>
      \/ replies'[t] = Append(replies[t], "FAILED")
      \/ SendUploadReceived(t) /\ replies'[t] = Append(replies[t], "UPLOAD_RECEIVED")
  BY <1>1
     DEF Handle, Persist, HandleCrc, HandlerError, Answer, Decrypt, DecryptFails, PickVersion,
         OpenFile, WriteFile, WriteFails, AddFile, TouchLastSeen, SendUploadReceived, Lookup,
         LookupFails, CheckExists, MarkVerified, Unlink, UnlinkFails, MarkUnverified,
         DatabaseError, DiskError, SendError, SendFailure, LoseConnection, Reply, FirstReply
<1>6. LET new == SubSeq(replies'[t], Len(replies[t]) + 1, Len(replies'[t]))
      IN  \/ new = <<>>
          \/ new = <<"FAILED">>
          \/ SendUploadReceived(t) /\ new = <<"UPLOAD_RECEIVED">>
  <2>1. "FAILED" \in Responses /\ "UPLOAD_RECEIVED" \in Responses
    BY DEF Responses
  <2> QED
    BY <1>1, <1>5, <2>1, NewReplies
<1> QED
  BY <1>2, <1>3, <1>4, <1>6

-----------------------------------------------------------------------------
(* The steps of a request handler.                                         *)

\* An upload is saved by the handler of its own last packet.
LEMMA SavingStays ==
    ASSUME LInv, Handle(Line), Saving'
    PROVE  Saving /\ req'[Line] = req[Line]
<1>1. /\ Line \in Conns /\ DOMAIN pc = Conns /\ DOMAIN req = Conns
      /\ Frame(Line)
  BY SessionAssumption DEF SessionAssumption, LInv, SIInv, IInv, TypeOK, FrameOK
<1>2. CASE Persist(Line)
  BY <1>1, <1>2
     DEF Persist, Decrypt, DecryptFails, PickVersion, OpenFile, WriteFile, WriteFails, AddFile,
         TouchLastSeen, SendUploadReceived, Raise, Leave, Goto, Saving, SavingSteps, shared, locals
<1>3. CASE HandleCrc(Line)
  BY <1>1, <1>3
     DEF HandleCrc, Lookup, LookupFails, CheckExists, MarkVerified, Unlink, UnlinkFails,
         MarkUnverified, AfterExists, Raise, Leave, Goto, Saving, SavingSteps, Frame, CrcSteps,
         CrcCodes, shared, locals
<1>4. CASE HandlerError(Line) \/ Answer(Line)
  BY <1>1, <1>4
     DEF HandlerError, Answer, DatabaseError, DiskError, SendError, SendFailure, LoseConnection,
         Raise, Leave, Goto, Saving, SavingSteps, shared, locals
<1> QED
  BY <1>2, <1>3, <1>4 DEF Handle

\* The user of the request at hand is the client.
LEMMA OwnersRequest ==
    ASSUME LInv, pc[Line] \in Steps \ {"fail"}
    PROVE  req[Line].user = Owner
BY SessionAssumption DEF SessionAssumption, LInv, SIInv, IInv, FrameOK, Frame

\* The version that is picked is the one after the newest, and stays so.
LEMMA SavesNextStep ==
    ASSUME SessionInv, Handle(Line)
    PROVE  SavesNext'
<1>0. Line \in Conns /\ TypeOK /\ BufferIncomplete /\ LInv /\ DOMAIN path = Conns
  BY SessionAssumption DEF SessionAssumption, SessionInv, LInv, SIInv, IInv, TypeOK
<1> SUFFICES ASSUME pc'[Line] \in {"open", "write", "add_file"}
             PROVE  path'[Line] = VersionedPath(Owner, req'[Line].name,
                                      NextVersion(files', Owner, req'[Line].name))
  BY DEF SavesNext
<1>1. [Next]_vars
  BY <1>0 DEF Next
<1>2. UNCHANGED files
  <2>1. ~AddFile(Line) /\ ~MarkVerified(Line) /\ ~MarkUnverified(Line)
    BY <1>0 DEF AddFile, MarkVerified, MarkUnverified, Leave, Goto, TypeOK
  <2> QED
    BY <2>1
       DEF Handle, Persist, HandleCrc, HandlerError, Answer, Decrypt, DecryptFails, PickVersion,
           OpenFile, WriteFile, WriteFails, TouchLastSeen, SendUploadReceived, Lookup,
           LookupFails, CheckExists, Unlink, UnlinkFails, DatabaseError, DiskError, SendError,
           SendFailure, LoseConnection, shared
<1>3. CASE PickVersion(Line)
  <2>1. req[Line].user = Owner
    BY <1>0, <1>3, OwnersRequest DEF PickVersion, Steps, SavingSteps
  <2> QED
    BY <1>0, <1>2, <1>3, <2>1 DEF PickVersion
<1>4. CASE /\ pc[Line] \in {"open", "write", "add_file"}
           /\ path'[Line] = path[Line] /\ req'[Line] = req[Line]
  BY <1>2, <1>4 DEF SessionInv, ClientInv, Versioned, SavesNext
<1> QED
  BY <1>0, <1>1, <1>3, <1>4, SavingStep

\* With the row it becomes the newest one, and stays so until it is reported.
LEMMA SavesNewestStep ==
    ASSUME SessionInv, Handle(Line)
    PROVE  SavesNewest'
<1>0. /\ Line \in Conns /\ TypeOK /\ BufferIncomplete /\ FrameOK /\ VersionsContiguous
      /\ LInv /\ DOMAIN path = Conns /\ DOMAIN pc = Conns
  BY SessionAssumption DEF SessionAssumption, SessionInv, LInv, SIInv, IInv, TypeOK
<1> SUFFICES ASSUME Saving', pc'[Line] \in {"last_seen", "reply"}
             PROVE  /\ HasVersions(files', req'[Line].name)
                    /\ path'[Line] = Newest(files', req'[Line].name)
  BY DEF SavesNewest
<1>1. Saving /\ req'[Line] = req[Line] /\ [Next]_vars
  BY <1>0, SavingStays DEF Next
<1>2. CASE AddFile(Line)
  <2> DEFINE n == req[Line].name
  <2>1. req[Line].user = Owner /\ Owner \in Users /\ n \in Names
    BY <1>0, <1>2, OwnersRequest, SavingPath DEF AddFile, Steps, SavingSteps
  <2>2. PICK m \in Nat : VersionsOf(files, Owner, n) = 1..m
    BY <1>0, <2>1 DEF VersionsContiguous, TypeOK
  <2>3. path[Line] = <<Owner, n, m + 1>> /\ path'[Line] = path[Line]
    <3>1. path[Line] = VersionedPath(Owner, n, NextVersion(files, Owner, n))
      BY <1>2 DEF AddFile, SessionInv, ClientInv, Versioned, SavesNext
    <3> QED
      BY <1>2, <2>2, <3>1, NextAfter DEF AddFile, VersionedPath, locals
  <2>4. VersionsOf(files', Owner, n) = 1..m + 1
    <3>1. files' = WithFile(files, Owner, n, path[Line], m + 1)
      BY <1>2, <2>1, <2>3 DEF AddFile
    <3>2. files \in Seq(Row) /\ path[Line] \in Paths /\ m + 1 \in Versions
      BY <1>0, <1>2, <2>2, SavingPath DEF AddFile, TypeOK, Versions
    <3>3. VersionsOf(files', Owner, n) = VersionsOf(files, Owner, n) \cup {m + 1}
      BY <2>1, <3>1, <3>2, AddedVersion
    <3> QED
      BY <2>2, <3>3
  <2>5. LatestVersion(files', Owner, n) = m + 1
    <3>1. m + 1 \in Nat /\ m + 1 # 0
      BY <2>2
    <3> QED
      BY <2>4, <3>1, LatestIsLast
  <2>6. m + 1 \in VersionsOf(files', Owner, n)
    BY <2>2, <2>4
  <2> QED
    BY <1>1, <2>3, <2>5, <2>6 DEF HasVersions, Newest, VersionedPath
<1>3. CASE TouchLastSeen(Line)
  <2>1. UNCHANGED files /\ path'[Line] = path[Line] /\ pc[Line] = "last_seen"
    <3>1. req[Line].code = "CREATE_BACKUP"
      BY <1>0, <1>3 DEF TouchLastSeen, Leave, Goto
    <3> QED
      BY <1>3, <3>1 DEF TouchLastSeen, locals, shared
  <2> QED
    BY <1>1, <2>1 DEF SessionInv, ClientInv, Versioned, SavesNewest
<1>4. AddFile(Line) \/ TouchLastSeen(Line)
  <2>1. CASE Persist(Line)
    BY <1>0, <2>1
       DEF Persist, Decrypt, DecryptFails, PickVersion, OpenFile, WriteFile, WriteFails,
           SendUploadReceived, Raise, Leave, Goto
  <2>2. CASE HandleCrc(Line)
    BY <1>0, <1>1, <2>2
       DEF HandleCrc, Lookup, LookupFails, CheckExists, MarkVerified, Unlink, UnlinkFails,
           MarkUnverified, AfterExists, Raise, Leave, Goto, Saving, SavingSteps
  <2>3. CASE HandlerError(Line) \/ Answer(Line)
    BY <1>0, <2>3
       DEF HandlerError, Answer, DatabaseError, DiskError, SendError, SendFailure,
           LoseConnection, Raise, Leave, Goto
  <2> QED
    BY <2>1, <2>2, <2>3 DEF Handle
<1> QED
  BY <1>2, <1>3, <1>4

\* A CRC_SUCCESS is handled for a version that the client confirmed.
LEMMA ConfirmedIsMarked ==
    ASSUME SessionInv, Handle(Line),
           \/ pc'[Line] \in {"lookup", "exists"} /\ req'[Line].code = "CRC_SUCCESS"
           \/ pc'[Line] = "mark"
    PROVE  Confirmed(files', disk', confirmed, req'[Line].name)
<1>0. Line \in Conns /\ DOMAIN pc = Conns
  BY SessionAssumption DEF SessionAssumption, SessionInv, LInv, SIInv, IInv, TypeOK
<1>1. CASE Lookup(Line) \/ CheckExists(Line)
  <2>1. /\ UNCHANGED <<files, disk, req>> /\ pc[Line] \in {"lookup", "exists"}
        /\ req[Line].code = "CRC_SUCCESS"
    BY <1>0, <1>1 DEF Lookup, CheckExists, AfterExists, Raise, Leave, Goto, shared, locals
  <2>2. Confirmed(files, disk, confirmed, req[Line].name)
    BY <2>1 DEF SessionInv, ClientInv, Versioned, VerdictIsTrue
  <2> QED
    BY <2>1, <2>2
<1>2. Lookup(Line) \/ CheckExists(Line)
  <2>1. CASE Persist(Line)
    BY <1>0, <2>1
       DEF Persist, Decrypt, DecryptFails, PickVersion, OpenFile, WriteFile, WriteFails, AddFile,
           TouchLastSeen, SendUploadReceived, Raise, Leave, Goto
  <2>2. CASE HandleCrc(Line)
    BY <1>0, <2>2
       DEF HandleCrc, LookupFails, MarkVerified, Unlink, UnlinkFails, MarkUnverified, Raise,
           Leave, Goto
  <2>3. CASE HandlerError(Line) \/ Answer(Line)
    BY <1>0, <2>3
       DEF HandlerError, Answer, DatabaseError, DiskError, SendError, SendFailure,
           LoseConnection, Raise, Leave, Goto
  <2> QED
    BY <2>1, <2>2, <2>3 DEF Handle
<1> QED
  BY <1>1, <1>2

\* Exactly one handler is running, so the rest of the threads has not moved.
LEMMA OneLineStep ==
    ASSUME SessionInv, Receive(Line) \/ Handle(Line)
    PROVE  OneLine'
<1>1. OthersStay(Line)
  BY SessionAssumption, ReceiveIsLocal, HandleIsLocal
     DEF SessionAssumption, SessionInv, LInv, SIInv, IInv
<1> QED
  BY <1>1 DEF OthersStay, OneLine, SessionInv, ClientInv

\* A step of the handler: only the report of a saved upload is of interest.
LEMMA ThreadStepKeeps ==
    ASSUME SessionInv, ThreadStep
    PROVE  ClientInv'
<1>0. [SessionNext]_sessionVars
  BY DEF SessionNext, Serving
<1>1. /\ Handle(Line)
      /\ Sent(SubSeq(replies'[Line], Len(replies[Line]) + 1, Len(replies'[Line])))
      /\ UNCHANGED <<phase, upload, attempts, toServer, confirmed, abandoned>>
  BY DEF ThreadStep, OnServer
<1>2. Line \in Conns /\ TypeOK /\ LInv
  BY SessionAssumption DEF SessionAssumption, SessionInv, LInv, SIInv, IInv
<1>3. /\ UNCHANGED <<uploads, aes_key>>
      /\ pc[Line] \in Steps /\ pc'[Line] # "decrypt" /\ ~Still
      /\ \/ Sent(<<>>)
         \/ Sent(<<"FAILED">>)
         \/ SendUploadReceived(Line) /\ Sent(<<"UPLOAD_RECEIVED">>)
  <2>1. /\ UNCHANGED <<uploads, aes_key>> /\ pc[Line] \in Steps /\ pc'[Line] # "decrypt"
        /\ LET new == SubSeq(replies'[Line], Len(replies[Line]) + 1, Len(replies'[Line]))
           IN  \/ new = <<>>
               \/ new = <<"FAILED">>
               \/ SendUploadReceived(Line) /\ new = <<"UPLOAD_RECEIVED">>
    BY <1>1, <1>2, HandleOutcome
  <2>2. ~Still
    BY <2>1 DEF Still, Steps, SavingSteps, CrcSteps
  <2> QED
    BY <1>1, <2>1, <2>2
<1>4. /\ phase \notin {"matched", "mismatch"} /\ ~VerdictFirst(toServer)
      /\ ~Told(toClient, "UPLOAD_RECEIVED")
  BY <1>3 DEF SessionInv, ClientInv, Turns
<1>5. Saving' => Saving /\ req'[Line] = req[Line]
  BY <1>1, <1>2, SavingStays
\* What becomes of the responses.
<1>6. /\ toClient' \in Seq(ServerMessage) /\ AnsweredOnce(toClient')
      /\ phase = "away" => toClient' = <<>>
      /\ Told(toClient', "ACK") => Told(toClient, "ACK")
      /\ Told(toClient', "UPLOAD_RECEIVED") => SendUploadReceived(Line) /\ phase # "away"
      /\ \A i \in 1..Len(toClient') :
            toClient'[i].code = "UPLOAD_RECEIVED" =>
                toClient'[i].path = path[Line] /\ toClient'[i].content = data[Line]
  <2>1. AnsweredOnce(toClient) /\ (phase = "away" => toClient = <<>>)
    BY DEF SessionInv, ClientInv, Turns
  <2>2. CASE Sent(<<>>)
    <3>1. toClient' = toClient
      BY <2>2, NothingSent
    <3> QED
      BY <1>4, <2>1, <3>1, QueueIs DEF Told
  <2>3. CASE Sent(<<"FAILED">>)
    <3>1. "FAILED" \in Responses
      BY DEF Responses
    <3>2. /\ toClient' \in Seq(ServerMessage)
          /\ phase = "away" => toClient' = <<>>
          /\ \A c : Told(toClient', c) => Told(toClient, c) \/ c = "FAILED"
          /\ \A i \in 1..Len(toClient') :
                \/ \E j \in 1..Len(toClient) : toClient'[i] = toClient[j]
                \/ toClient'[i].code = "FAILED"
      BY <2>3, <3>1, OneSent
    <3>3. ~Told(toClient', "UPLOAD_RECEIVED") /\ (Told(toClient', "ACK") => Told(toClient, "ACK"))
      BY <1>4, <3>2
    <3>4. AnsweredOnce(toClient')
      BY <2>3, <3>1, OneSent
    <3> QED
      BY <3>2, <3>3, <3>4 DEF Told
  <2>4. CASE SendUploadReceived(Line) /\ Sent(<<"UPLOAD_RECEIVED">>)
    <3>1. "UPLOAD_RECEIVED" \in Responses
      BY DEF Responses
    <3>2. /\ toClient' \in Seq(ServerMessage)
          /\ phase = "away" => toClient' = <<>>
          /\ AnsweredOnce(toClient')
          /\ \A c : Told(toClient', c) => Told(toClient, c) \/ (c = "UPLOAD_RECEIVED" /\ phase # "away")
          /\ \A i \in 1..Len(toClient') :
                \/ \E j \in 1..Len(toClient) : toClient'[i] = toClient[j]
                \/ toClient'[i].path = path[Line] /\ toClient'[i].content = data[Line]
      BY <1>4, <2>1, <2>4, <3>1, OneSent
    <3>3. Told(toClient', "ACK") => Told(toClient, "ACK")
      BY <3>2
    <3> QED
      BY <1>4, <2>4, <3>2, <3>3 DEF Told
  <2> QED
    BY <1>3, <2>2, <2>3, <2>4
\* The upload that is reported is the one the client waits for.
<1>7. ASSUME SendUploadReceived(Line), phase # "away"
      PROVE  /\ phase = "waiting" /\ toServer = <<>> /\ Owner \notin DOMAIN uploads /\ Still'
             /\ HasVersions(files, upload.name) /\ path[Line] = Newest(files, upload.name)
             /\ Stands(disk, path[Line], data[Line])
             /\ UNCHANGED <<files, disk>>
  <2>1. /\ pc[Line] = "reply" /\ Saving /\ pc'[Line] = "idle" /\ UNCHANGED <<files, disk>>
    BY <1>2, <1>7 DEF SendUploadReceived, Saving, Leave, Goto, TypeOK, shared
  <2>2. /\ toServer = <<>> /\ phase \in {"waiting", "away"} /\ Owner \notin DOMAIN uploads
        /\ req[Line].name = upload.name
    BY <2>1 DEF SessionInv, ClientInv, Turns
  <2>3. HasVersions(files, upload.name) /\ path[Line] = Newest(files, upload.name)
    BY <2>1, <2>2 DEF SessionInv, ClientInv, Versioned, SavesNewest
  <2>4. Stands(disk, path[Line], data[Line])
    BY <1>2, <2>1 DEF Stands, LInv, SIInv, Written, Saved
  <2> QED
    BY <1>7, <2>1, <2>2, <2>3, <2>4 DEF Still
<1>8. SessionTypes'
  <2>1. Begun' = Begun
    BY <1>1 DEF Begun
  <2> QED
    BY <1>1, <1>3, <1>6, <2>1 DEF SessionInv, ClientInv, SessionTypes
<1>9. InOrder(toServer, upload)'
  BY <1>1 DEF SessionInv, ClientInv
<1>10. Turns'
  <2>1. Saving' => /\ toServer = <<>> /\ phase \in {"waiting", "away"}
                   /\ Owner \notin DOMAIN uploads'
                   /\ req'[Line].name = upload.name
    BY <1>3, <1>5 DEF SessionInv, ClientInv, Turns
  <2>2. Told(toClient', "UPLOAD_RECEIVED") =>
          toServer = <<>> /\ phase = "waiting" /\ Still' /\ Owner \notin DOMAIN uploads'
    BY <1>3, <1>6, <1>7
  <2>3. Told(toClient', "ACK") => toServer = <<>> /\ phase = "confirming"
    BY <1>6 DEF SessionInv, ClientInv, Turns
  <2>4. /\ phase = "sending" => upload.next <= upload.total
        /\ phase = "waiting" => upload.next = upload.total + 1
        /\ Waiting(toServer) > 0 =>
              \/ phase \in {"sending", "waiting"}
              \/ phase = "away" /\ <<upload.name, upload.total>> \in abandoned
    BY DEF SessionInv, ClientInv, Turns
  <2> QED
    BY <1>1, <1>4, <1>6, <2>1, <2>2, <2>3, <2>4 DEF Turns
<1>11. Buffered' /\ NeverMixed'
  <2>1. LastIsMissing' /\ BufferIsOf'
    BY <1>1, <1>3 DEF SessionInv, ClientInv, Buffered, LastIsMissing, BufferIsOf, Matches
  <2>2. TakenIsBuffered'
    BY <1>1, <1>3
       DEF SessionInv, ClientInv, Buffered, TakenIsBuffered, Matches, Steps, SavingSteps, CrcSteps
  <2> QED
    BY <1>3, <2>1, <2>2 DEF Buffered, NeverMixed
<1>12. Versioned'
  <2>1. ReportsNewest'
    <3> SUFFICES ASSUME NEW i \in 1..Len(toClient'), toClient'[i].code = "UPLOAD_RECEIVED"
                 PROVE  /\ HasVersions(files', upload.name)
                        /\ toClient'[i].path = Newest(files', upload.name)
                        /\ Stands(disk', toClient'[i].path, toClient'[i].content)
      BY <1>1 DEF ReportsNewest
    <3>1. SendUploadReceived(Line) /\ phase # "away"
      BY <1>6 DEF Told
    <3> QED
      BY <1>6, <1>7, <3>1
  <2>2. VerdictIsTrue'
    BY <1>1, <1>4, ConfirmedIsMarked DEF VerdictIsTrue
  <2> QED
    BY <1>1, <2>1, <2>2, SavesNextStep, SavesNewestStep DEF Versioned
<1> QED
  BY <1>0, <1>1, <1>6, <1>8, <1>9, <1>10, <1>11, <1>12, OneLineStep, VerifiedStep DEF ClientInv

-----------------------------------------------------------------------------
(* The server takes a request.                                             *)

\* The packet at the front of the queue is the one after those taken.
LEMMA PacketIsNext ==
    ASSUME SessionInv, pc[Line] = "idle", toServer # <<>>, toServer[1].code = "CREATE_BACKUP"
    PROVE  LET u == toServer[1].upload
               p == Taken(toServer, upload) + 1
           IN  /\ ~VerdictFirst(toServer) /\ Waiting(toServer) > 0
               /\ Waiting(toServer) = Waiting(Tail(toServer)) + 1
               /\ upload \in Uploads
               /\ u.name = upload.name /\ u.total = upload.total /\ u.chunk = upload.chunk
               /\ u.next = p /\ p - 1 = Taken(toServer, upload)
               /\ p - 1 \in Nat /\ p \in 1..upload.total
               /\ \/ phase \in {"sending", "waiting"}
                  \/ phase = "away" /\ <<upload.name, upload.total>> \in abandoned
               /\ ~Accepts(Owner, u.name, u.next, u.total) => Owner \in DOMAIN uploads /\ ~Matches
               /\ Accepts(Owner, u.name, u.next, u.total) =>
                     (Owner \in DOMAIN uploads => Matches)
<1> DEFINE u == toServer[1].upload
           p == Taken(toServer, upload) + 1
<1>1. ~VerdictFirst(toServer)
  BY DEF VerdictFirst, CrcCodes
<1>2. /\ upload \in Uploads /\ toServer \in Seq(Message) /\ InOrder(toServer, upload)
  BY FirstMessage
<1>3. /\ Waiting(toServer) = Waiting(Tail(toServer)) + 1
      /\ u = [upload EXCEPT !.next = p]
  BY <1>1, <1>2, QueueTake
<1>4. Waiting(toServer) \in Nat /\ Waiting(toServer) > 0
  BY <1>1, <1>2, WaitingIs
<1>5. /\ \/ phase \in {"sending", "waiting"}
         \/ phase = "away" /\ <<upload.name, upload.total>> \in abandoned
      /\ Taken(toServer, upload) >= 0
  BY <1>4 DEF SessionInv, ClientInv, Turns, Buffered, TakenIsBuffered
<1>6. u.name = upload.name /\ u.total = upload.total /\ u.chunk = upload.chunk /\ u.next = p
  BY <1>2, <1>3 DEF Uploads
<1>7. upload.next \in Nat /\ upload.total \in Nat /\ upload.total >= 1
      /\ upload.next <= upload.total + 1
  BY <1>2, BackupAssumption
     DEF BackupAssumption, Uploads, SessionInv, ClientInv, SessionTypes, Begun
<1>8. p - 1 = Taken(toServer, upload) /\ p - 1 \in Nat /\ p \in 1..upload.total
  BY <1>4, <1>5, <1>7 DEF Taken
<1>9. Accepts(Owner, u.name, u.next, u.total) <=> (Owner \in DOMAIN uploads => Matches)
  <2>1. ValidPacket(p, upload.total)
    BY <1>7, <1>8 DEF ValidPacket
  <2> QED
    BY <1>6, <2>1 DEF Accepts, Consistent, Matches
<1> HIDE DEF u, p
<1>10. ~(Owner \in DOMAIN uploads => Matches) => Owner \in DOMAIN uploads /\ ~Matches
  OBVIOUS
<1> QED
  BY <1>1, <1>2, <1>3, <1>4, <1>5, <1>6, <1>8, <1>9, <1>10 DEF u, p

\* The upload as it is with that packet.
LEMMA PacketStored ==
    ASSUME SessionInv, pc[Line] = "idle", toServer # <<>>, toServer[1].code = "CREATE_BACKUP",
           NEW u, u = toServer[1].upload, Accepts(Owner, u.name, u.next, u.total)
    PROVE  LET s == WithChunk(uploads, Owner, u.name, u.next, u.total, u.chunk)
           IN  /\ s.total_packets = upload.total /\ s.file_name = upload.name
               /\ \A k \in 1..u.next : k \in DOMAIN s.chunks /\ s.chunks[k] = upload.chunk
               /\ IsFull(s) => NoneMissing(s) /\ u.next = upload.total
               /\ ~IsFull(s) => upload.total \notin DOMAIN s.chunks
<1> DEFINE old == StateFor(uploads, Owner, u.name, u.total)
           s == WithChunk(uploads, Owner, u.name, u.next, u.total, u.chunk)
           total == upload.total
           p == u.next
<1>0. /\ TypeOK /\ BufferIncomplete /\ Owner \in Users /\ MaxPackets \in Nat
  BY BackupAssumption, SessionAssumption
     DEF BackupAssumption, SessionAssumption, SessionInv, LInv, SIInv, IInv
<1>1. /\ upload \in Uploads
      /\ u.name = upload.name /\ u.total = total /\ u.chunk = upload.chunk
      /\ p - 1 = Taken(toServer, upload) /\ p - 1 \in Nat /\ p \in 1..total
      /\ Waiting(toServer) > 0
      /\ Owner \in DOMAIN uploads => Matches
  BY PacketIsNext
<1>2. /\ u.name \in ReqNames /\ total \in 0..MaxPackets /\ p \in 0..MaxPackets
      /\ u.chunk \in Chunks /\ total \in Nat /\ u.total \in 0..MaxPackets
  <2>1. upload.name \in Names /\ total \in 1..MaxPackets /\ upload.chunk \in Chunks
    BY <1>1 DEF Uploads
  <2> HIDE DEF total, p
  <2>2. total \in 0..MaxPackets /\ p \in 0..MaxPackets /\ total \in Nat
    BY <1>0, <1>1, <2>1
  <2> QED
    BY <1>1, <2>1, <2>2 DEF ReqNames
<1>3. /\ s.file_name = u.name /\ s.total_packets = u.total
      /\ DOMAIN s.chunks \subseteq 1..u.total
  BY <1>0, <1>2, ChunkStored
\* The packets before it are in the buffer, and the last one is not.
<1>4. /\ DOMAIN old.chunks \subseteq 1..total
      /\ total \notin DOMAIN old.chunks
      /\ \A k \in 1..p - 1 : k \in DOMAIN old.chunks /\ old.chunks[k] = upload.chunk
      /\ s.chunks = With(old.chunks, p, u.chunk)
  <2>1. CASE Owner \in DOMAIN uploads
    <3>1. old = uploads[Owner] /\ Matches /\ uploads[Owner] \in UploadState
      BY <1>0, <1>1, <2>1 DEF StateFor, TypeOK
    <3>2. total \notin DOMAIN old.chunks
      BY <2>1, <3>1 DEF Matches, SessionInv, ClientInv, Buffered, LastIsMissing
    <3>3. DOMAIN old.chunks \subseteq 1..total
      BY <1>0, <2>1, <3>1 DEF Matches, BufferIncomplete
    <3>4. p - 1 = Taken(toServer, upload)
      BY <1>1
    <3>5. \A k \in 1..p - 1 : k \in DOMAIN old.chunks /\ old.chunks[k] = upload.chunk
      BY <1>1, <3>1, <3>4 DEF SessionInv, ClientInv, Buffered, TakenIsBuffered
    <3>6. s.chunks = With(old.chunks, p, u.chunk)
      BY <3>1 DEF WithChunk, UploadState
    <3> QED
      BY <3>2, <3>3, <3>5, <3>6
  <2>2. CASE Owner \notin DOMAIN uploads
    <3>1. old.chunks = EmptyMap /\ DOMAIN EmptyMap = {}
      BY <2>2 DEF StateFor, EmptyMap
    <3>2. p - 1 = 0
      <4>1. Taken(toServer, upload) = p - 1
        BY <1>1
      <4>2. ~(p - 1 > 0)
        BY <1>1, <2>2, <4>1 DEF SessionInv, ClientInv, Buffered, TakenIsBuffered
      <4> QED
        BY <1>1, <4>2
    <3>3. s.chunks = With(old.chunks, p, u.chunk)
      BY <2>2 DEF WithChunk, StateFor
    <3>4. 1..0 = {}
      OBVIOUS
    <3> QED
      BY <3>1, <3>2, <3>3, <3>4
  <2> QED
    BY <2>1, <2>2
<1>5. /\ DOMAIN s.chunks = DOMAIN old.chunks \cup {p}
      /\ \A k \in DOMAIN s.chunks : s.chunks[k] = IF k = p THEN u.chunk ELSE old.chunks[k]
  <2>1. s.chunks = With(old.chunks, p, u.chunk)
    BY <1>4
  <2> HIDE DEF old, s, total, p
  <2>2. DOMAIN s.chunks = DOMAIN old.chunks \cup {p}
    BY <2>1, ZenonT(30) DEF With
  <2> QED
    BY <2>1, <2>2, SMTT(30) DEF With
<1> HIDE DEF old, s, total, p
<1>6. ASSUME NEW k \in 1..p
      PROVE  k \in DOMAIN s.chunks /\ s.chunks[k] = upload.chunk
  <2>1. k = p \/ k \in 1..p - 1
    BY <1>1
  <2> QED
    BY <1>1, <1>4, <1>5, <2>1
<1>7. ASSUME IsFull(s)
      PROVE  NoneMissing(s) /\ p = total
  <2>1. NoneMissing(s)
    BY <1>1, <1>2, <1>3, <1>7, FullLacksNone
  <2>2. total \in DOMAIN s.chunks
    <3>1. total \in 1..total
      BY <1>1, <1>2
    <3> QED
      BY <1>1, <1>3, <2>1, <3>1 DEF NoneMissing
  <2> QED
    BY <1>4, <1>5, <2>1, <2>2
<1>8. ASSUME total \in DOMAIN s.chunks
      PROVE  IsFull(s)
  <2>1. p = total
    BY <1>4, <1>5, <1>8
  <2>2. DOMAIN s.chunks = 1..total
    BY <1>1, <1>3, <1>6, <2>1
  <2>3. Cardinality(1..total) = total
    <3>1. \A n \in Nat : Cardinality(1..n) = n
      BY FS_Interval
    <3> QED
      BY <1>2, <3>1
  <2> QED
    BY <1>1, <1>3, <2>2, <2>3 DEF IsFull
<1> QED
  BY <1>1, <1>3, <1>6, <1>7, <1>8 DEF s, total, p

\* What a request that is taken leaves alone.
LEMMA TakeFrame ==
    ASSUME SessionInv, TakeRequest
    PROVE  /\ pc[Line] = "idle" /\ toServer # <<>> /\ toServer' = Tail(toServer)
           /\ Head(toServer) = toServer[1]
           /\ UNCHANGED <<phase, upload, attempts, confirmed, abandoned, files, disk, aes_key>>
           /\ upload \in Uploads /\ upload.next <= upload.total + 1
           /\ toServer' \in Seq(Message) /\ InOrder(toServer', upload)
           /\ ~VerdictFirst(toServer') /\ Waiting(toServer') \in Nat
           /\ Waiting(toServer') = 0 => toServer' = <<>>
           /\ phase \notin {"matched", "mismatch"}
           /\ ~Told(toClient, "UPLOAD_RECEIVED") /\ ~Told(toClient, "ACK")
           /\ toClient' \in Seq(ServerMessage) => SessionTypes'
           /\ OneLine'
<1>1. /\ pc[Line] = "idle" /\ toServer # <<>> /\ toServer' = Tail(toServer)
      /\ UNCHANGED <<phase, upload, attempts, confirmed, abandoned>>
  BY DEF TakeRequest, OnServer
<1>2. /\ toServer \in Seq(Message) /\ upload \in Uploads /\ InOrder(toServer, upload)
      /\ Head(toServer) = toServer[1]
  BY <1>1, FirstMessage
<1>3. UNCHANGED <<files, disk, aes_key>>
  <2>1. LET u == Head(toServer).upload
        IN  \/ AddChunk(Line, Owner, u.name, u.next, u.total, u.chunk)
            \/ RejectChunk(Line) \/ ReceiveCrc(Line) \/ FirstSendFails(Line)
    BY DEF TakeRequest
  <2>2. LET u == Head(toServer).upload
        IN  AddChunk(Line, Owner, u.name, u.next, u.total, u.chunk)
              => UNCHANGED <<files, disk, aes_key>>
    BY DEF AddChunk
  <2>3. CASE RejectChunk(Line) \/ ReceiveCrc(Line) \/ FirstSendFails(Line)
    BY <2>3 DEF RejectChunk, ReceiveCrc, FirstSendFails, shared
  <2> QED
    BY <2>1, <2>2, <2>3
<1>4. /\ toServer' \in Seq(Message) /\ InOrder(toServer', upload) /\ ~VerdictFirst(toServer')
      /\ \A i \in 1..Len(toServer') : \E j \in 1..Len(toServer) : toServer'[i] = toServer[j]
  <2> DEFINE r == Tail(toServer)
  <2>1. /\ r \in Seq(Message) /\ InOrder(r, upload) /\ ~VerdictFirst(r)
        /\ \A i \in 1..Len(r) : \E j \in 1..Len(toServer) : r[i] = toServer[j]
    BY <1>1, <1>2, QueueTake
  <2> HIDE DEF r
  <2>2. toServer' = r
    BY <1>1 DEF r
  <2> QED
    BY <2>1, <2>2
<1>5. Waiting(toServer') \in Nat /\ (Waiting(toServer') = 0 => toServer' = <<>>)
  BY <1>2, <1>4, WaitingIs
<1>6. /\ phase \notin {"matched", "mismatch"}
      /\ ~Told(toClient, "UPLOAD_RECEIVED") /\ ~Told(toClient, "ACK")
  BY <1>1 DEF SessionInv, ClientInv, Turns
<1>7. ASSUME toClient' \in Seq(ServerMessage)
      PROVE  SessionTypes'
  <2>1. \A i \in 1..Len(toServer') : toServer'[i].upload.chunk.key <= aes_key[Owner]
    BY <1>4 DEF SessionInv, ClientInv, SessionTypes
  <2>2. Begun' => Begun
    BY <1>1 DEF Begun
  <2> QED
    BY <1>1, <1>3, <1>4, <1>7, <2>1, <2>2 DEF SessionInv, ClientInv, SessionTypes
<1>8. upload.next <= upload.total + 1
  BY <1>1 DEF SessionInv, ClientInv, SessionTypes, Begun
<1>9. OneLine'
  <2>1. Receive(Line)
    <3>1. LET u == toServer[1].upload
          IN  \/ AddChunk(Line, Owner, u.name, u.next, u.total, u.chunk)
              \/ RejectChunk(Line) \/ ReceiveCrc(Line) \/ FirstSendFails(Line)
      BY <1>2 DEF TakeRequest
    <3> QED
      BY <1>1, <3>1, PacketIsReceived DEF Receive
  <2> QED
    BY <2>1, OneLineStep
<1> QED
  BY <1>1, <1>2, <1>3, <1>4, <1>5, <1>6, <1>7, <1>8, <1>9

\* What taking a request may come to.
TakesChunk ==
    LET u == toServer[1].upload
    IN  /\ toServer[1].code = "CREATE_BACKUP"
        /\ AddChunk(Line, Owner, u.name, u.next, u.total, u.chunk)

TakesRefused ==
    LET u == toServer[1].upload
    IN  /\ toServer[1].code = "CREATE_BACKUP"
        /\ ~Accepts(Owner, u.name, u.next, u.total)
        /\ RejectChunk(Line)

TakesVerdict ==
    /\ toServer[1].code \in CrcCodes
    /\ \/ /\ ReceiveCrc(Line)
          /\ req'[Line] = [code |-> toServer[1].code, user |-> Owner, name |-> toServer[1].upload.name]
       \/ FirstSendFails(Line)

\* A packet is stored or refused, a verdict is acknowledged or not.
LEMMA TakeCases ==
    ASSUME SessionInv, TakeRequest
    PROVE  /\ TakesChunk \/ TakesRefused \/ TakesVerdict
           /\ Sent(replies'[Line])
<1>1. Head(toServer) = toServer[1]
  BY TakeFrame
<1> QED
  BY <1>1 DEF TakeRequest, TakesChunk, TakesRefused, TakesVerdict, CrcCodes

\* The packet is buffered and not answered.
LEMMA ChunkKeeps ==
    ASSUME SessionInv, TakeRequest, TakesChunk,
           LET u == toServer[1].upload
           IN  ~IsFull(WithChunk(uploads, Owner, u.name, u.next, u.total, u.chunk))
    PROVE  ClientInv'
<1> DEFINE u == toServer[1].upload
           s == WithChunk(uploads, Owner, u.name, u.next, u.total, u.chunk)
           p == u.next
<1>0. [SessionNext]_sessionVars
  BY DEF SessionNext, Serving
<1>1. /\ pc[Line] = "idle" /\ toServer # <<>> /\ toServer' = Tail(toServer)
      /\ UNCHANGED <<phase, upload, attempts, confirmed, abandoned, files, disk, aes_key>>
      /\ upload \in Uploads /\ InOrder(toServer', upload) /\ ~VerdictFirst(toServer')
      /\ Waiting(toServer') \in Nat /\ phase \notin {"matched", "mismatch"}
      /\ ~Told(toClient, "UPLOAD_RECEIVED") /\ ~Told(toClient, "ACK")
      /\ toClient' \in Seq(ServerMessage) => SessionTypes'
      /\ OneLine'
  BY TakeFrame
<1>2. /\ toServer[1].code = "CREATE_BACKUP"
      /\ Accepts(Owner, u.name, u.next, u.total)
      /\ uploads' = With(uploads, Owner, s)
      /\ UNCHANGED <<pc, locals>>
      /\ FirstReply(Line, <<>>)
  BY DEF TakesChunk, AddChunk
<1>3. UNCHANGED <<pc, req, data, path>>
  BY <1>2 DEF locals
<1>4. toClient' = toClient /\ toClient \in Seq(ServerMessage)
  <2>1. replies'[Line] = <<>>
    BY <1>2, SessionAssumption
       DEF SessionAssumption, FirstReply, SessionInv, LInv, SIInv, IInv, TypeOK
  <2> QED
    BY <2>1, TakeCases, NothingSent, QueueIs
<1>5. /\ Waiting(toServer) > 0 /\ Waiting(toServer) = Waiting(toServer') + 1
      /\ p - 1 = Taken(toServer, upload) /\ p \in 1..upload.total
      /\ \/ phase \in {"sending", "waiting"}
         \/ phase = "away" /\ <<upload.name, upload.total>> \in abandoned
  BY <1>1, <1>2, PacketIsNext
<1>6. /\ s.total_packets = upload.total /\ s.file_name = upload.name
      /\ \A k \in 1..p : k \in DOMAIN s.chunks /\ s.chunks[k] = upload.chunk
      /\ upload.total \notin DOMAIN s.chunks
  BY <1>1, <1>2, PacketStored
<1>7. Owner \in DOMAIN uploads' /\ uploads'[Owner] = s
  BY <1>2 DEF With
<1>8. Taken(toServer', upload) = p
  <2>1. upload.next \in Nat
    BY <1>1, BackupAssumption DEF BackupAssumption, Uploads
  <2> DEFINE x == upload.next
             w == Waiting(toServer)
             v == Waiting(toServer')
  <2>2. p \in Int /\ p - 1 = x - 1 - w /\ w = v + 1 /\ v \in Nat /\ x \in Nat
    BY <1>1, <1>5, <2>1 DEF Taken
  <2> HIDE DEF x, w, v, p
  <2>3. x - 1 - v = p
    BY <2>2
  <2> QED
    BY <2>3 DEF x, v, Taken
<1> HIDE DEF u, s, p
<1>9. ~Saving'
  BY <1>1, <1>3 DEF Saving, SavingSteps
<1>10. Turns'
  BY <1>1, <1>3, <1>4, <1>5, <1>9 DEF SessionInv, ClientInv, Turns
<1>11. Buffered'
  <2>1. LastIsMissing'
    BY <1>6, <1>7 DEF LastIsMissing
  <2>2. BufferIsOf'
    BY <1>1, <1>5, <1>6, <1>7 DEF BufferIsOf, Matches
  <2>3. TakenIsBuffered'
    <3>1. p >= 0
      BY <1>5
    <3> QED
      BY <1>1, <1>6, <1>7, <1>8, <3>1 DEF TakenIsBuffered
  <2> QED
    BY <2>1, <2>2, <2>3 DEF Buffered
<1>12. NeverMixed' /\ AnsweredOnce(toClient')
  BY <1>1, <1>3, <1>4 DEF SessionInv, ClientInv, NeverMixed
<1>13. Versioned'
  <2>1. SavesNext' /\ SavesNewest'
    BY <1>1, <1>3 DEF SavesNext, SavesNewest
  <2>2. ReportsNewest'
    BY <1>1, <1>4 DEF ReportsNewest, Told
  <2>3. VerdictIsTrue'
    BY <1>1, <1>3 DEF VerdictIsTrue
  <2> QED
    BY <2>1, <2>2, <2>3 DEF Versioned
<1> QED
  BY <1>0, <1>1, <1>4, <1>10, <1>11, <1>12, <1>13, VerifiedStep DEF ClientInv

\* The packet completes the upload: it is the last one, and all are of this upload.
LEMMA LastChunkKeeps ==
    ASSUME SessionInv, TakeRequest, TakesChunk,
           LET u == toServer[1].upload
           IN  IsFull(WithChunk(uploads, Owner, u.name, u.next, u.total, u.chunk))
    PROVE  ClientInv'
<1> DEFINE u == toServer[1].upload
           s == WithChunk(uploads, Owner, u.name, u.next, u.total, u.chunk)
           p == u.next
<1>0. [SessionNext]_sessionVars
  BY DEF SessionNext, Serving
<1>1. /\ pc[Line] = "idle" /\ toServer # <<>>
      /\ UNCHANGED <<phase, upload, attempts, confirmed, abandoned, files, disk, aes_key>>
      /\ upload \in Uploads /\ InOrder(toServer', upload) /\ ~VerdictFirst(toServer')
      /\ Waiting(toServer') \in Nat /\ phase \notin {"matched", "mismatch"}
      /\ Waiting(toServer') = 0 => toServer' = <<>>
      /\ upload.next <= upload.total + 1
      /\ ~Told(toClient, "UPLOAD_RECEIVED") /\ ~Told(toClient, "ACK")
      /\ toClient' \in Seq(ServerMessage) => SessionTypes'
      /\ OneLine' /\ toServer' = Tail(toServer)
  BY TakeFrame
<1>2. toServer[1].code = "CREATE_BACKUP" /\ Accepts(Owner, u.name, u.next, u.total)
  BY DEF TakesChunk, AddChunk
<1>3. /\ Waiting(toServer) > 0 /\ Waiting(toServer) = Waiting(toServer') + 1
      /\ p - 1 = Taken(toServer, upload) /\ p \in 1..upload.total /\ u.name = upload.name
      /\ \/ phase \in {"sending", "waiting"}
         \/ phase = "away" /\ <<upload.name, upload.total>> \in abandoned
  BY <1>1, <1>2, PacketIsNext
<1>4. /\ s.total_packets = upload.total
      /\ \A k \in 1..p : k \in DOMAIN s.chunks /\ s.chunks[k] = upload.chunk
      /\ NoneMissing(s) /\ p = upload.total
  BY <1>1, <1>2, PacketStored
<1>5. /\ uploads' = Without(uploads, Owner)
      /\ pc' = [pc EXCEPT ![Line] = "decrypt"]
      /\ req' = [req EXCEPT ![Line] = [code |-> "CREATE_BACKUP", user |-> Owner, name |-> u.name]]
      /\ data' = [data EXCEPT ![Line] = Assemble(s)]
      /\ FirstReply(Line, <<>>)
  BY <1>4 DEF TakesChunk, AddChunk, Goto
<1>6. /\ pc'[Line] = "decrypt" /\ req'[Line].name = upload.name /\ data'[Line] = Assemble(s)
      /\ replies'[Line] = <<>>
  <2>1. /\ Line \in Conns /\ DOMAIN pc = Conns /\ DOMAIN req = Conns /\ DOMAIN data = Conns
        /\ DOMAIN replies = Conns
    BY SessionAssumption DEF SessionAssumption, SessionInv, LInv, SIInv, IInv, TypeOK
  <2> HIDE DEF s, u
  <2> QED
    BY <1>3, <1>5, <2>1 DEF FirstReply, u
<1>7. toClient' = toClient /\ toClient \in Seq(ServerMessage)
  BY <1>6, TakeCases, NothingSent, QueueIs
<1>8. Owner \notin DOMAIN uploads'
  BY <1>5 DEF Without, Restrict
<1> HIDE DEF u, s
\* Nothing of the upload waits any more.
<1>9. toServer' = <<>> /\ phase \in {"waiting", "away"}
  <2> DEFINE x == upload.next
             l == upload.total
             w == Waiting(toServer)
             v == Waiting(toServer')
  <2>1. x \in Nat /\ l \in Nat
    BY <1>1, BackupAssumption DEF BackupAssumption, Uploads
  <2>2. p \in Int /\ p - 1 = x - 1 - w /\ w = v + 1 /\ v \in Nat /\ p = l /\ x <= l + 1
    BY <1>1, <1>3, <1>4, <2>1 DEF Taken
  <2>3. phase = "sending" => x <= l
    BY DEF SessionInv, ClientInv, Turns
  <2> HIDE DEF x, l, w, v, p
  <2>4. v = 0 /\ x = l + 1
    BY <2>1, <2>2
  <2>5. phase # "sending"
    BY <2>1, <2>3, <2>4
  <2> QED
    BY <1>1, <1>3, <2>4, <2>5 DEF v
<1>10. Len(toServer') = 0 /\ Waiting(toServer') = 0
  <2>1. Len(<<>>) = 0
    OBVIOUS
  <2> QED
    BY <1>9, <2>1, EmptyQueue
<1>11. Turns'
  <2>1. /\ phase = "away" => toClient = <<>>
        /\ phase = "waiting" => upload.next = upload.total + 1
    BY DEF SessionInv, ClientInv, Turns
  <2> QED
    BY <1>1, <1>6, <1>7, <1>8, <1>9, <1>10, <2>1 DEF Turns
<1>12. Buffered'
  <2>1. LastIsMissing' /\ BufferIsOf'
    BY <1>8 DEF LastIsMissing, BufferIsOf
  <2>2. TakenIsBuffered'
    BY <1>1, <1>9, <1>10 DEF TakenIsBuffered
  <2> QED
    BY <2>1, <2>2 DEF Buffered
<1>13. NeverMixed'
  <2>1. DOMAIN data'[Line] = 1..p /\ \A k \in 1..p : data'[Line][k] = upload.chunk
    BY <1>4, <1>6 DEF Assemble
  <2> QED
    BY <2>1 DEF NeverMixed
<1>14. Versioned'
  <2>1. SavesNext' /\ SavesNewest'
    BY <1>6 DEF SavesNext, SavesNewest
  <2>2. ReportsNewest'
    BY <1>1, <1>7 DEF ReportsNewest, Told
  <2>3. VerdictIsTrue'
    BY <1>1, <1>6 DEF VerdictIsTrue
  <2> QED
    BY <2>1, <2>2, <2>3 DEF Versioned
<1>15. AnsweredOnce(toClient')
  BY <1>7 DEF SessionInv, ClientInv
<1> QED
  BY <1>0, <1>1, <1>7, <1>11, <1>12, <1>13, <1>14, <1>15, VerifiedStep DEF ClientInv

\* The packet is refused: the buffer keeps another upload.
LEMMA RefusedKeeps ==
    ASSUME SessionInv, TakeRequest, TakesRefused
    PROVE  ClientInv'
<1> DEFINE u == toServer[1].upload
<1>0. [SessionNext]_sessionVars
  BY DEF SessionNext, Serving
<1>1. /\ pc[Line] = "idle" /\ toServer # <<>>
      /\ UNCHANGED <<phase, upload, attempts, confirmed, abandoned, files, disk, aes_key>>
      /\ upload \in Uploads /\ InOrder(toServer', upload) /\ ~VerdictFirst(toServer')
      /\ Waiting(toServer') \in Nat /\ phase \notin {"matched", "mismatch"}
      /\ ~Told(toClient, "UPLOAD_RECEIVED") /\ ~Told(toClient, "ACK")
      /\ toClient' \in Seq(ServerMessage) => SessionTypes'
      /\ OneLine' /\ toServer' = Tail(toServer)
  BY TakeFrame
<1>2. /\ toServer[1].code = "CREATE_BACKUP" /\ ~Accepts(Owner, u.name, u.next, u.total)
      /\ pc' = [pc EXCEPT ![Line] = "fail"] /\ UNCHANGED uploads /\ FirstReply(Line, <<>>)
  BY DEF TakesRefused, RejectChunk, Raise, Leave, Goto, shared
<1>3. /\ Waiting(toServer) > 0 /\ Waiting(toServer) = Waiting(toServer') + 1
      /\ 0 <= Taken(toServer, upload)
      /\ Owner \in DOMAIN uploads /\ ~Matches
      /\ \/ phase \in {"sending", "waiting"}
         \/ phase = "away" /\ <<upload.name, upload.total>> \in abandoned
  BY <1>1, <1>2, PacketIsNext
<1>4. pc'[Line] = "fail" /\ replies'[Line] = <<>>
  BY <1>2, SessionAssumption
     DEF SessionAssumption, FirstReply, SessionInv, LInv, SIInv, IInv, TypeOK
<1>5. toClient' = toClient /\ toClient \in Seq(ServerMessage)
  BY <1>4, TakeCases, NothingSent, QueueIs
<1> HIDE DEF u
<1>6. ~Saving'
  BY <1>4 DEF Saving, SavingSteps
<1>7. Turns'
  BY <1>1, <1>3, <1>5, <1>6 DEF SessionInv, ClientInv, Turns
<1>8. Buffered'
  <2>1. LastIsMissing' /\ BufferIsOf'
    BY <1>1, <1>2 DEF SessionInv, ClientInv, Buffered, LastIsMissing, BufferIsOf, Matches
  <2>2. Taken(toServer', upload) >= 0
    <3>1. upload.next \in Nat
      BY <1>1, BackupAssumption DEF BackupAssumption, Uploads
    <3> QED
      BY <1>1, <1>3, <3>1 DEF Taken
  <2>3. TakenIsBuffered'
    BY <1>1, <1>2, <1>3, <2>2 DEF TakenIsBuffered, Matches
  <2> QED
    BY <2>1, <2>3 DEF Buffered
<1>9. NeverMixed' /\ AnsweredOnce(toClient')
  BY <1>4, <1>5 DEF SessionInv, ClientInv, NeverMixed
<1>10. Versioned'
  <2>1. SavesNext' /\ SavesNewest'
    BY <1>4 DEF SavesNext, SavesNewest
  <2>2. ReportsNewest'
    BY <1>1, <1>5 DEF ReportsNewest, Told
  <2>3. VerdictIsTrue'
    BY <1>1, <1>4 DEF VerdictIsTrue
  <2> QED
    BY <2>1, <2>2, <2>3 DEF Versioned
<1> QED
  BY <1>0, <1>1, <1>5, <1>7, <1>8, <1>9, <1>10, VerifiedStep DEF ClientInv

\* The verdict is acknowledged where it is to be, or the connection fails.
LEMMA VerdictKeeps ==
    ASSUME SessionInv, TakeRequest, TakesVerdict
    PROVE  ClientInv'
<1> DEFINE m == toServer[1]
<1>0. [SessionNext]_sessionVars
  BY DEF SessionNext, Serving
<1>1. /\ pc[Line] = "idle" /\ toServer # <<>>
      /\ UNCHANGED <<phase, upload, attempts, confirmed, abandoned, files, disk, aes_key>>
      /\ upload \in Uploads /\ InOrder(toServer', upload) /\ ~VerdictFirst(toServer')
      /\ Waiting(toServer') \in Nat /\ phase \notin {"matched", "mismatch"}
      /\ Waiting(toServer') = 0 => toServer' = <<>>
      /\ ~Told(toClient, "UPLOAD_RECEIVED") /\ ~Told(toClient, "ACK")
      /\ toClient' \in Seq(ServerMessage) => SessionTypes'
      /\ OneLine' /\ toServer' = Tail(toServer)
  BY TakeFrame
<1>2. Line \in Conns /\ TypeOK
  BY SessionAssumption DEF SessionAssumption, SessionInv, LInv, SIInv, IInv
<1>3. m.code \in CrcCodes /\ VerdictFirst(toServer)
  <2>1. toServer \in Seq(Message) /\ Len(toServer) > 0
    BY <1>1, QueueIs
  <2> QED
    BY <2>1 DEF TakesVerdict, VerdictFirst
<1>4. Waiting(toServer') = Waiting(toServer)
  <2>1. toServer \in Seq(Message) /\ InOrder(toServer, upload)
    BY QueueIs
  <2>2. Waiting(Tail(toServer)) = Waiting(toServer)
    BY <1>1, <1>3, <2>1, QueueTake
  <2> QED
    BY <1>1, <2>2
<1>5. /\ UNCHANGED uploads
      /\ \/ /\ pc'[Line] = "lookup"
            /\ req'[Line].code = m.code /\ req'[Line].name = m.upload.name
            /\ replies'[Line] = IF m.code = "CRC_ERROR" THEN <<>> ELSE <<"ACK">>
         \/ pc'[Line] = "fail" /\ replies'[Line] = <<>>
  <2>1. CASE /\ ReceiveCrc(Line)
             /\ req'[Line] = [code |-> m.code, user |-> Owner, name |-> m.upload.name]
    <3>1. PICK n, code, w :
             /\ Goto(Line, "lookup")
             /\ req' = [req EXCEPT ![Line] = [code |-> code, user |-> w, name |-> n]]
             /\ FirstReply(Line, IF code = "CRC_ERROR" THEN <<>> ELSE <<"ACK">>)
             /\ UNCHANGED shared
      BY <2>1 DEF ReceiveCrc, shared
    <3>2. req'[Line].code = m.code /\ req'[Line].name = m.upload.name
      BY <2>1
    <3>3. req'[Line].code = code
      BY <1>2, <3>1 DEF TypeOK
    <3>4. pc'[Line] = "lookup" /\ replies'[Line] = IF code = "CRC_ERROR" THEN <<>> ELSE <<"ACK">>
      BY <1>2, <3>1 DEF TypeOK, Goto, FirstReply
    <3> QED
      BY <3>1, <3>2, <3>3, <3>4 DEF shared
  <2>2. CASE FirstSendFails(Line)
    BY <1>2, <2>2 DEF FirstSendFails, Raise, Leave, Goto, FirstReply, shared, TypeOK
  <2> QED
    BY <2>1, <2>2 DEF TakesVerdict
\* Which answer the client gets.
<1>6. /\ toClient' \in Seq(ServerMessage) /\ AnsweredOnce(toClient')
      /\ phase = "away" => toClient' = <<>>
      /\ ~Told(toClient', "UPLOAD_RECEIVED")
      /\ Told(toClient', "ACK") => m.code # "CRC_ERROR" /\ phase # "away"
  <2>1. CASE replies'[Line] = <<>>
    <3>1. toClient' = toClient
      BY <2>1, TakeCases, NothingSent
    <3> QED
      BY <1>1, <3>1, QueueIs DEF SessionInv, ClientInv, Turns
  <2>2. CASE m.code # "CRC_ERROR" /\ replies'[Line] = <<"ACK">>
    <3>1. Sent(<<"ACK">>) /\ "ACK" \in Responses
      BY <2>2, TakeCases DEF Responses
    <3>2. /\ toClient' \in Seq(ServerMessage) /\ AnsweredOnce(toClient')
          /\ phase = "away" => toClient' = <<>>
          /\ \A c : Told(toClient', c) => Told(toClient, c) \/ (c = "ACK" /\ phase # "away")
      BY <1>1, <3>1, OneSent
    <3> QED
      BY <1>1, <2>2, <3>2
  <2> QED
    BY <1>5, <2>1, <2>2
<1>7. /\ Told(toClient', "ACK") => toServer' = <<>> /\ phase = "confirming"
      /\ ~Saving'
  <2>1. ASSUME Told(toClient', "ACK")
        PROVE  toServer' = <<>> /\ phase = "confirming"
    <3>1. phase = "confirming"
      BY <1>3, <1>6, <2>1 DEF SessionInv, ClientInv, Turns
    <3>2. ~(Waiting(toServer) > 0)
      BY <3>1 DEF SessionInv, ClientInv, Turns
    <3> QED
      BY <1>1, <1>4, <3>1, <3>2
  <2>2. ~Saving'
    BY <1>5 DEF Saving, SavingSteps
  <2> QED
    BY <2>1, <2>2
<1>8. Turns'
  <2>1. /\ phase = "sending" => upload.next <= upload.total
        /\ phase = "waiting" => upload.next = upload.total + 1
        /\ Waiting(toServer) > 0 =>
              \/ phase \in {"sending", "waiting"}
              \/ phase = "away" /\ <<upload.name, upload.total>> \in abandoned
    BY DEF SessionInv, ClientInv, Turns
  <2> QED
    BY <1>1, <1>4, <1>6, <1>7, <2>1 DEF Turns
<1>9. Buffered'
  <2>1. LastIsMissing' /\ BufferIsOf'
    BY <1>1, <1>5 DEF SessionInv, ClientInv, Buffered, LastIsMissing, BufferIsOf, Matches
  <2>2. Taken(toServer', upload) = Taken(toServer, upload)
    BY <1>4 DEF Taken
  <2>3. TakenIsBuffered'
    BY <1>1, <1>4, <1>5, <2>2 DEF SessionInv, ClientInv, Buffered, TakenIsBuffered, Matches
  <2> QED
    BY <2>1, <2>3 DEF Buffered
<1>10. NeverMixed'
  BY <1>5 DEF NeverMixed
<1>11. Versioned'
  <2>1. SavesNext' /\ SavesNewest'
    BY <1>5 DEF SavesNext, SavesNewest
  <2>2. ReportsNewest'
    BY <1>6 DEF ReportsNewest, Told
  <2>3. m.code = "CRC_SUCCESS" => Confirmed(files, disk, confirmed, m.upload.name)
    BY <1>3 DEF SessionInv, ClientInv, Versioned, VerdictIsTrue
  <2> HIDE DEF m
  <2>4. VerdictIsTrue'
    BY <1>1, <1>5, <2>3 DEF VerdictIsTrue
  <2> QED
    BY <2>1, <2>2, <2>4 DEF Versioned
<1> QED
  BY <1>0, <1>1, <1>6, <1>8, <1>9, <1>10, <1>11, VerifiedStep DEF ClientInv

\* The server takes any request.
LEMMA TakeKeeps ==
    ASSUME SessionInv, TakeRequest
    PROVE  ClientInv'
BY TakeCases, ChunkKeeps, LastChunkKeeps, RefusedKeeps, VerdictKeeps

-----------------------------------------------------------------------------
(* The invariant.                                                          *)

\* The client is away and nothing is stored.
LEMMA SessionStarts == SessionInit => SessionInv
<1> SUFFICES ASSUME SessionInit
             PROVE  SessionInv
  OBVIOUS
<1>1. LInv
  BY InitLInv DEF SessionInit
<1>2. /\ phase = "away" /\ attempts = 0 /\ toServer = <<>> /\ toClient = <<>>
      /\ confirmed = {} /\ abandoned = {}
      /\ uploads = EmptyMap /\ files = <<>> /\ \A t \in Conns : pc[t] = "closed"
      /\ pc[Line] = "closed"
  BY SessionAssumption DEF SessionAssumption, SessionInit, Init
<1>3. Len(toServer) = 0 /\ Len(toClient) = 0 /\ DOMAIN files = {} /\ DOMAIN uploads = {}
  BY <1>2 DEF EmptyMap
<1>4. Waiting(toServer) = 0 /\ ~VerdictFirst(toServer) /\ InOrder(toServer, upload)
  BY <1>3, EmptyQueue
<1>5. SessionTypes
  <2>1. attempts \in 0..MaxAttempts
    BY <1>2, SessionAssumption DEF SessionAssumption
  <2>2. toServer \in Seq(Message) /\ toClient \in Seq(ServerMessage)
    BY <1>2
  <2> QED
    BY <1>2, <1>3, <2>1, <2>2 DEF SessionTypes, Begun, Phases
<1>6. Turns
  BY <1>2, <1>3, <1>4 DEF Turns, Told, Saving, SavingSteps
<1>7. Buffered /\ NeverMixed /\ OneLine /\ AnsweredOnce(toClient) /\ VerifiedWasConfirmed
  BY <1>2, <1>3 DEF Buffered, LastIsMissing, BufferIsOf, TakenIsBuffered, NeverMixed, OneLine,
                    AnsweredOnce, VerifiedWasConfirmed
<1>8. Versioned
  BY <1>2, <1>3, <1>4 DEF Versioned, SavesNext, SavesNewest, ReportsNewest, VerdictIsTrue
<1> QED
  BY <1>1, <1>4, <1>5, <1>6, <1>7, <1>8 DEF SessionInv, ClientInv

\* A step of something else.
LEMMA StutterKeeps ==
    ASSUME SessionInv, UNCHANGED sessionVars
    PROVE  ClientInv'
<1>1. /\ phase' = phase /\ upload' = upload /\ attempts' = attempts
      /\ toServer' = toServer /\ toClient' = toClient
      /\ confirmed' = confirmed /\ abandoned' = abandoned
      /\ UNCHANGED vars
  BY DEF sessionVars, clientVars
<1>2. UNCHANGED <<uploads, files, disk, aes_key, pc, req, data, path>>
  BY <1>1 DEF vars
<1>3. SessionTypes' /\ InOrder(toServer, upload)' /\ AnsweredOnce(toClient)'
  BY <1>1, <1>2 DEF SessionInv, ClientInv, SessionTypes, Begun
<1>4. Turns'
  BY <1>1, <1>2 DEF SessionInv, ClientInv, Turns, Still, Saving
<1>5. Buffered'
  BY <1>1, <1>2
     DEF SessionInv, ClientInv, Buffered, LastIsMissing, BufferIsOf, TakenIsBuffered, Matches
<1>6. Versioned'
  BY <1>1, <1>2, ServerStays
     DEF SessionInv, ClientInv, Versioned, ReportsNewest, VerdictIsTrue
<1> QED
  BY <1>1, <1>3, <1>4, <1>5, <1>6, ServerStays, VerifiedStep DEF ClientInv

\* No step breaks the invariant.
LEMMA SessionStep ==
    ASSUME OneConnPerUser, PrefixFree, SessionInv, [SessionNext]_sessionVars
    PROVE  SessionInv'
<1>1. LInv'
  BY ServerKeeps
<1>2. ClientStep \/ SeeEnd => ClientInv'
  BY ClientConnectsKeeps, ExchangesKeyKeeps, StartUploadKeeps, SendPacketKeeps, GoAwayKeeps,
     ReadResponseKeeps, SendVerdictKeeps DEF ClientStep
<1>3. Serving => ClientInv'
  BY TakeKeeps, ThreadStepKeeps DEF Serving
<1>4. ThreadEnds \/ ServerDies => ClientInv'
  BY ThreadEndsKeeps, ServerDiesKeeps
<1>5. UNCHANGED sessionVars => ClientInv'
  BY StutterKeeps
<1>6. ClientInv'
  BY <1>2, <1>3, <1>4, <1>5 DEF SessionNext
<1> QED
  BY <1>1, <1>6 DEF SessionInv

(***************************************************************************)
(* The queues, the buffer, the handler and the table agree with what the   *)
(* client is doing, at every moment of a session.                          *)
(***************************************************************************)
THEOREM SessionInvariance ==
    ASSUME OneConnPerUser, PrefixFree
    PROVE  SessionSpec => []SessionInv
<1>1. SessionInit => SessionInv
  BY SessionStarts
<1>2. SessionInv /\ [SessionNext]_sessionVars => SessionInv'
  BY SessionStep
<1> QED
  BY <1>1, <1>2, PTL DEF SessionSpec

(***************************************************************************)
(* A version is verified only when the client compared the checksum of     *)
(* that very version with its own: whatever attempts, keys, disconnections *)
(* errors and crashes come between the upload and its confirmation.        *)
(***************************************************************************)
THEOREM VerifiedIsConfirmed ==
    ASSUME OneConnPerUser, PrefixFree
    PROVE  SessionSpec => []VerifiedWasConfirmed
<1>1. SessionInv => VerifiedWasConfirmed
  BY DEF SessionInv, ClientInv
<1> QED
  BY <1>1, SessionInvariance, PTL

(***************************************************************************)
(* A completed upload has the packets of one attempt only, for whatever    *)
(* number of packets and attempts: the last packet is sent last and is     *)
(* never in the buffer, and the attempt that completes an upload sent all  *)
(* packets before it.                                                      *)
(***************************************************************************)
THEOREM AttemptsNeverMix ==
    ASSUME OneConnPerUser, PrefixFree
    PROVE  SessionSpec => []NeverMixed
<1>1. SessionInv => NeverMixed
  BY DEF SessionInv, ClientInv
<1> QED
  BY <1>1, SessionInvariance, PTL

(***************************************************************************)
(* A packet is refused only because of an upload the client gave up.       *)
(***************************************************************************)
THEOREM RefusedForAbandoned ==
    ASSUME OneConnPerUser, PrefixFree
    PROVE  SessionSpec => []RefusedOnlyAfterGivingUp
<1>1. ASSUME SessionInv
      PROVE  RefusedOnlyAfterGivingUp
  <2> SUFFICES ASSUME pc[Line] = "idle", toServer # <<>>,
                      Head(toServer).code = "CREATE_BACKUP",
                      ~Accepts(Owner, Head(toServer).upload.name, Head(toServer).upload.next,
                               Head(toServer).upload.total)
               PROVE  /\ Owner \in DOMAIN uploads
                      /\ <<uploads[Owner].file_name, uploads[Owner].total_packets>> \in abandoned
    BY DEF RefusedOnlyAfterGivingUp
  <2>1. Head(toServer) = toServer[1]
    BY <1>1, FirstMessage
  <2>2. Owner \in DOMAIN uploads /\ ~Matches
    BY <1>1, <2>1, PacketIsNext
  <2> QED
    BY <1>1, <2>2 DEF SessionInv, ClientInv, Buffered, BufferIsOf
<1> QED
  BY <1>1, SessionInvariance, PTL

(***************************************************************************)
(* What a session does to the server is what clients may do to it: every   *)
(* theorem about BackupService holds in a session.                         *)
(***************************************************************************)
THEOREM SessionUsesService ==
    ASSUME OneConnPerUser, PrefixFree
    PROVE  SessionSpec => Spec
<1>1. SessionInit => Init
  BY DEF SessionInit
<1>2. SessionInv /\ [SessionNext]_sessionVars => [Next]_vars
  BY SessionIsUse
<1> QED
  BY <1>1, <1>2, SessionInvariance, PTL DEF SessionSpec, Spec
=============================================================================
