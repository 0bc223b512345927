# A formal model of the encrypted backup server

TLA+ modules, TLC configurations and TLAPS proofs about the server in this
repository: a Python program that keeps one thread per client connection,
collects encrypted file chunks, decrypts a completed upload under the client's
session key, stores it as a new version on disk and in SQLite, and lets the
client confirm or reject it by checksum. Clients register under a name, send a
public key and get a session key encrypted under it.

## 1. Inventory

| Component | Source | State it keeps | Operations |
| --- | --- | --- | --- |
| Connection threads | `handlers/server_handler.py` | one socket and one request at a time per thread | accept, decode a request, route it, answer `FAILED` when the handler raises, close |
| Backup handlers | `handlers/backup_handlers.py` | none | `CREATE_BACKUP`, `CRC_SUCCESS`, `CRC_ERROR`, `CRC_FAILURE` |
| Upload buffer | `services/backup_service.py`, `UploadAssembler` | `_uploads`: user id to upload in progress, under one lock | `add_chunk`; `discard`, which nothing calls |
| Backup persistence | `services/backup_service.py` | files under `<user_id>/` | `persist_completed_upload`, `mark_upload_verified`, `delete_failed_upload` |
| Files table | `storage/database.py` | rows (user, name, path, version, last_modified, verified) | `add_file`, `get_next_version_number`, `get_file_path`, `update_file_verified_status` |
| Clients table | `storage/database.py` | rows (id, name, public key, last_seen, session key) | lookups and single-column updates |
| Session keys | `services/session_key_service.py`, `services/crypto.py` | none of their own | generate, encrypt for the client, store |
| Registration | `services/registration_service.py` | none of its own | registration, public key, re-registration |
| Protocol codec | `protocol/`, `utils/socket_io.py` | none | decode requests, encode and send responses |

**How they interact.** Every connection thread calls handlers, services and
database functions directly. Threads share the upload buffer (guarded by its
lock), the database (each function opens a connection, runs one statement and
commits) and the directories on disk (unguarded). Nothing spans two of these
accesses: there is no transaction over two calls and no lock over a call of the
database or the file system.

**What is hard.** Two threads that act for one user interleave between any two
accesses; a handler may raise at any access, after the effects of the earlier
ones; the process may die at any point, losing the buffer and keeping table and
disk; a client that gave up leaves its packets in the buffer; and an id that a
client sends is not always the one it was given.
`PROJECT.json` lists each hazard at its line.

**What makes it correct.**

- Buffer: an upload that is accepted can be completed; counting the chunks is
  the same as having every packet.
- Files table: versions of a file are 1, 2, ... without a gap or a repetition.
- Persistence: a version on record is a whole file, is not overwritten, and is
  what the reported checksum is of.
- CRC messages: they act on the file they name, in its latest version; a
  verified version is on disk, and where it is not, it is known why.
- Threads: every request ends, with the thread back in its loop or closed.
- Registration: a name belongs to one client; what a client was told is on
  record; the session key that is sent is the one stored, unless another
  exchange replaced it meanwhile; a client that uses its own id is refused for
  known reasons only.
- Codec: both sides cut the streams where the other one does, whatever `recv`
  returns; decoding a user id inverts encoding it.
- Backup, seen from the client: a verified version is the one the client
  confirmed, and an upload that was sent is answered.

## 2. Modules

| Module | Models |
| --- | --- |
| `Database` | the files table: the value each database function reads or writes, as operators |
| `UploadAssembler` | one call of `add_chunk` on the dictionary of uploads, as operators |
| `BackupService` | connection threads running the four backup requests over the shared buffer, table, disk and keys |
| `VersionedStore` | what the backup service promises: every file is a sequence of whole versions |
| `BackupStore` | the view of `BackupService` as a `VersionedStore`; extends `BackupService` |
| `BackupSession` | a client that follows the protocol, composed with `BackupService` |
| `ClientsTable` | the clients table, as operators |
| `Registration` | connection threads running the three registration requests over the table, the user directories and the clock |
| `WireFormat` | how an id travels: digits, bytes, stripped zeros, padding |
| `Connection` | one connection as two streams of bytes, with the request loop of `handle_client` and a client |
| `*MC` | constants for TLC |
| `DatabaseProofs` | lemmas about the operators on the files table |
| `BackupServiceProofs` | lemmas about the buffer, and the theorems that hold for any use of the backup service |
| `BackupSingleWriterProofs` | the theorems that need one connection per user |
| `BackupStoreProofs` | CRC messages act on the latest version; the refinement; how a verified version loses its file |
| `BackupSessionProofs` | a client that follows the protocol: its queue, the buffer, the verified versions |
| `RegistrationProofs` | registration, for any use and with one connection per name |
| `WireFormatProofs` | ids, of any length |
| `ConnectionProofs` | both readers of a connection keep their place, for fields of any size |

The code does its work in three places that share little, and so do the
modules. `Connection` is about bytes: it says that a thread handles the requests
that were written, each once and in order, and leaves what a handler does to a
choice among the responses its code can send. `Registration` and
`BackupService` start from decoded requests and model what every handler does.
They meet in two columns: the session key (`Rekey` in `BackupService` is the
last step of key provisioning, `StoreSessionKey` in `Registration`) and
`last_seen` (`BackupActivity` in `Registration` is what `TouchLastSeen` in
`BackupService` does).

### BackupService

**State.** `uploads` is `UploadAssembler._uploads`; `files` the table, a
sequence in insertion order, for nothing deletes a row; `disk` maps the paths
that exist to their content; `aes_key` numbers the session key stored for each
user. Each thread has a program counter `pc`, the request `req`, its local
`data` (`full_encrypted_data`, then `decrypted_data`) and `path` (`file_path`
or `stored_path`), the directory entry `fd` that the file it has open still
has, and the `replies` it sent since the last request arrived.

**Actions.** One action is one access to shared state with the local work up to
the next one, which is where a thread switch can matter. An upload goes
`ReceiveChunk`, `Decrypt`, `PickVersion`, `OpenFile`, `WriteFile`, `AddFile`,
`TouchLastSeen`, `SendUploadReceived`; a CRC message goes `ReceiveCrc`,
`Lookup`, `CheckExists`, then `MarkVerified`, `TouchLastSeen` or `Unlink`,
`MarkUnverified`. `add_chunk` is one action because it holds the lock from the
first read to the last write. Each way a step can raise is an action too
(`RejectChunk`, `DecryptFails`, `LookupFails`, `UnlinkFails`, `WriteFails`, and
`DatabaseError`, `DiskError`, `SendError`, `FirstSendFails` for faults of the
environment); all of them lead to `SendFailure`, as in `handle_client`, or to
`LoseConnection` when that fails too. `Crash` ends every thread and empties
the buffer; the server then accepts connections again.

`RejectChunk` includes a backup request without a chunk: the decoder reads none
when the declared size is 0, and `_validate_backup_request`
(`backup_handlers.py:57`) raises before the size or the buffer is looked at.

**Data.** A plaintext is a member of `Contents`. A chunk remembers the content
it was cut from, the key and the initialization vector it was encrypted with
(`aes_cbc_encrypt` draws a vector for every encryption), so decryption gives
the content when all chunks are of one encryption and under the stored key, and
otherwise raises or, when the padding happens to be right, gives `Garbage`. An
open file is `Empty`, and `Torn` when written in part or by two threads at
once. A path is the triple it is built from: the text
`<stem>_v<version><suffix>` tells triples apart for all names but some that end
in a dot, which the model leaves out. `Like` says which names a name is a
prefix of in the sense of SQLite's LIKE.

**Faults.** The constant `Faults` selects which of database, disk and send
errors and crashes happen; `Registration` has the same constant.

### VersionedStore and BackupStore

`VersionedStore` has no threads, packets, keys, rows or files: `Upload` appends
a whole version, `Confirm` and `Remove` settle the latest one. `BackupStore`
maps the service to it. Version v of a file is the file on disk at the path of
v once a row with v exists; it is removed when the file is gone. So `AddFile`
is where an upload takes effect, `MarkVerified` where a confirmation does,
`Unlink` where a rejection does, and every other step, the ones of an upload
that will fail included, is a stutter.

### BackupSession

The client is not in this repository; its actions are the protocol as the
README describes it and are marked external in `PROJECT.json`. It sends the
packets of an upload in order, waits for `UPLOAD_RECEIVED`, compares the
checksum, sends `CRC_SUCCESS`, `CRC_ERROR` or `CRC_FAILURE`, goes on to another
upload, and may hang up at any time. It treats `FAILED` as a reason to
reconnect. Each attempt has an initialization vector of its own, so that
`NeverMixed` tells two attempts apart even when they send one content under one
key. `toServer` and `toClient` are the messages in transit. The server's
steps are the actions of `BackupService`, taken on the first message of
`toServer`. A checksum is equal exactly when the contents are: collisions of
CRC32 are left out.

### ClientsTable and Registration

`clients` is the table, `dirs` the ids that have a directory, `now` the clock,
`issued` the number of session keys generated. `served` is a history variable:
what each client was last told, that is, its name, whether it has a key, and
when the request that was answered had arrived. `raced` is another: the threads
in a key exchange of a client for which another thread has stored a public key
since they took or stored theirs, or a session key since they stored theirs. A request carries, as history, the id as the
client sent it and when a client was last served under that id and name. A
registration goes
`ReceiveRegistration`, `CheckName`, `InsertClient`, `StampNew`,
`MakeDirectory`, `SendWelcome`; a key exchange goes `ReceivePublicKey`,
`CheckUser` (with `Provision`, which has no effect outside the thread),
`Stamp`, `StorePublicKey`, `StoreSessionKey`, `SendKey`; a re-registration adds
`CheckExpiry` and `LoadKey` and does not store the public key. Session keys are
numbered as they are generated; a public key can be imported or is `BadKey`. A
name that `_validate_username` refuses is `BadName`. Clients send ids that the
server gave out, their own or another's, or none it knows (`Null`). `RoundIds`
are the ids that end in the digit 0: `_read_user_id` strips it, and what the
handler gets is nobody's id (`ReadId`; `WireFormat` has the digits, and
`IdsStayApart` is why it is nobody's). Times are stored to the second
(`StoredTime`) and compared with a clock that ticks `Second` times in one.

### WireFormat and Connection

A byte on a stream is known by the message and the field it belongs to and its
place in the field, so a reader that has lost its place reads fields made of
bytes of several others, which decode to garbage: any code, any id. `Recv` takes
any part of what has come. The thread reads `RequestLayout` field by field, the
chunk as long as the metadata says, whatever the code; it ends the connection on
a code it does not know, or when the name or the file name its code uses is not
UTF-8 (`TextCodes`); `payload_size` and
`version` are not looked at, which is what `deserialize_request` does. The
client cuts the responses by the `payload_size` they declare. Ids are digits and
bytes, as in `WireFormat`.

## 3. Runs

| Run | Instance | Shows |
| --- | --- | --- |
| `shared` | two connections carrying the requests of one user, two packets, two rows, every fault | `TypeOK`, `BufferIncomplete`, `VersionsContiguous`, `OrphansExplained` |
| `private` | one connection, two names neither of which is a prefix of the other, two contents, two packets, two rows, every fault | `UniqueVersions`, `NoTornBackup`, `ReportedIsStored`, `TargetsLatest`, `NoOverwrite`, `IsVersionedStore` |
| `clean` | two users, each on its own connection, disk and send errors | under fairness `RequestCompletes` |
| `registration` | two names, each on a connection of its own, every fault | `NamesUnique`, and under fairness `Answered` |
| `same_name` | two connections that carry one name, two ids of which one ends in zero, two public keys that can be imported and one that cannot, every fault, four ticks of a clock of two ticks to the second | `TypeOK`, `ServedIsRecorded`, `KeyIsCurrent`, `RightfulIsServed` |
| `connection` | one connection, two requests of any of six codes, ids of four digits with zeros at either end, a chunk of one byte or none | `TypeOK`, `InStep`, `ClientInStep`, `IdEchoed`, and under fairness `EveryRequestHandled`, `ThreadEnds` |
| `session` | one client and one connection at a time, three uploads of a file that may change between them, stale keys, every fault | `VerifiedWasConfirmed`, `NeverMixed`, `RefusedOnlyAfterGivingUp`, and under fairness `UploadAnswered` |
| `version_race` | two connections of one user, no fault | `UniqueVersions` is violated |
| `prefix_lookup` | two names, one a prefix of the other | `TargetsLatest` is violated |
| `interrupted_delete` | one connection and a crash | `VerifiedOnDisk` is violated |
| `name_race` | two connections that carry one name, no fault | `NamesUnique` is violated |
| `zero_id` | ids that end in the digit 0 among others | `IdPreserved` is violated |

**Bounds.** `MaxPackets`, `MaxKeys` and `MaxRows` bound the packets of an
upload, the keys of a user and the rows of the table (`Room` keeps an upload
from completing when the table is full). Two packets are the least that can
arrive out of order, be repeated or be missing; two rows are the least for a
version to follow, repeat or shadow another one; two threads are the least
that race. `MaxIVs` bounds the initialization vectors: in `session` there is one
for every attempt, and elsewhere one in all, for there two contents (in
`private`) already make chunks that do not belong together. In `registration`
and `same_name`, `MaxClients`, `MaxKeys` and `MaxTime` bound the clients, the
session keys and the clock: two clients and two keys are enough for a second
exchange to replace the key of a first one, or another client's. In `same_name`
the second has two ticks and so has the window: a stored time can be a tick
late, and a re-registration comes inside the window, in the second at its end,
or past it. In `connection`, fields of one or two bytes are enough to be cut in the middle, and
a request after another one to be read from the wrong place; the codes
left out are decoded and answered as one of those kept. In `session`, three
uploads let one follow an abandoned one and its retry; `MaxRows` is at least
`MaxAttempts`, so the table never fills. The proved theorems hold for every
value of the bounds.

**Symmetry.** Connections and contents, in `private` names, and in `same_name`
connections and public keys, are permuted in the runs that check safety only.
Connections that serve different users are not interchangeable and are not
permuted.

**Fairness.** `FairSpec` assumes weak fairness of `Handle(t)` for each thread:
the interpreter schedules every thread, and the calls of a handler (SQLite with
its default timeout, the file system, `sendall`) return or raise. Nothing is
assumed of clients: `Receive(t)` is not fair, so a thread may wait for a
request for ever. `Registration` has the same `FairSpec`. In `Connection` the
fairness is of `Thread`: `recv` returns once there are bytes or the peer has
closed. In `BackupSession` the client's reading is fair as well (`Reading`), and
nothing else it does: the claim is that a client that does listen is answered.

**What the violations show.**

1. `version_race`: the version is read in one transaction and inserted in
   another, so two uploads of one file can share a version and a path; the
   second overwrites the first.
2. `prefix_lookup`: a CRC message for `report` can verify, or delete, the
   latest version of `report.txt`.
3. `interrupted_delete`: between the unlink and the update a crash leaves a row
   that says verified and has no file.
4. `name_race`: the name is looked up in one transaction and inserted in
   another, and the column is not unique, so both clients are told that they
   are registered; later one of them is refused.
5. `zero_id`: `_read_user_id` strips the zeros at the end of an id. One id in 16
   that `generate_uuid` returns ends in the digit 0; its client is told the id,
   and is unknown in every request that follows.

## 4. Proofs

TLAPS checks every theorem. They assume what their modules assume of the
constants (`LikeAssumption`, `BackupAssumption`, `SessionAssumption`,
`NullAssumption`, `RegistrationAssumption`, `ConnectionAssumption`), which TLC also
evaluates in the runs.

**For any use of the server** (`BackupServiceProofs`): `TypeCorrect`,
`BufferNeverFull`, `VersionsHaveNoGap`. The inductive invariant `IInv` adds to
the three properties `FrameOK` (what a handler's locals hold at each of its
steps; without it the row that `AddFile` writes need not even be a row) and
`NextInLine` (the version a handler has picked is 1 or follows one on record).
`NextInLine` is what makes the absence of gaps inductive under races: other
handlers only add versions, so what followed a version still does. The buffer
argument is about cardinality: the packets of a buffered upload are among
`1..total_packets`, so as many chunks as packets means all of them, and
the error of `_validate_all_packets_received` cannot happen (`ChunkOutcome`).

**With one connection per user** (`BackupSingleWriterProofs`, assumption
`OneConnPerUser`): `VersionsAreUnique`, `BackupsAreWhole`, `ReportIsTrue`,
`BackupsAreKept`. The server does not enforce the assumption, and
`version_race` shows the first of them false without it. The argument: a path
carries its user, so two threads never hold the same path (`Apart`); a path
being saved to is not on record (`Fresh`); from `file.write` to the response
the file holds the decrypted data (`Written`). Faults, crashes, key changes
and the other users' threads are all allowed.

**The refinement** (`BackupStoreProofs`, assumptions `OneConnPerUser` and
`PrefixFree`, no name is a prefix of another one): `TargetsAreLatest` and
`ImplementsVersionedStore`. `prefix_lookup` shows the first false without the
second assumption. While a thread works for a user no other one adds versions
for that user, so the path that its lookup found stays the latest (`LInv`,
which also has `Gone`: a file just unlinked is not there again). The
refinement then goes step by step: `AddFile` appends to the
view, `MarkVerified` and `Unlink` change at most the last version of a file, and
what the other actions do to table and disk, `MarkUnverified` included, the view
does not show.

**Verified versions** (`BackupStoreProofs`), for any use of the server:
`OrphansAreExplained`. `interrupted_delete` shows that a verified version can
lose its file. The theorem says that it does so in two ways only: the handler
that unlinked the file is cut short, by a crash or a failed update, before it
clears the mark, or a `CRC_SUCCESS` that had seen the file marks it after
another connection's rejection removed it. The run `shared` reaches both. A
handler that has unlinked a file can do nothing but clear the mark next
(`UnmarkStep`), and clears it in every row of the path, because the path carries
the user the update is restricted to (`RowOK`, `OwnPath`, `RowMarked`).
Connections may share users, and names may be prefixes of one another.

**Registration** (`RegistrationProofs`). For any use of the server, with any
number of connections for one name: `RegistrationType`, `ToldIsTrue`,
`KeysAreCurrent` and `RightfulAreServed`. The invariant `RInv` adds `FrameOK`
(at each step of a handler, what it did before is on record: after
`InsertClient` there is the row, after `StampNew` the time, and so on) and
`TimesOK` (no stored time is in the future). It is inductive under any race
because the table only grows: rows are not deleted, their names do not change,
and no column becomes empty again. `KeysAreCurrent` says exactly how far two
exchanges of one client can spoil each other: what a thread stored is still
there unless a rival stored since, and then the thread is in `raced`
(`RacedStep`). `RightfulAreServed` follows the last success a client had with
the id and name it uses again: what it was told is on record
(`HeardIsOnRecord`), so only its own zero, a second row with its name, or the
window less a second, which is how old the stored time may look
(`StoredTimeIsClose`), can have it refused. Each of the three does, in
`same_name`. With `OneConnPerName`, the requests under a name arrive on one
connection: `NamesAreUnique` (a name about to be inserted is still free), which
`name_race` shows false without it.

**Ids** (`WireFormatProofs`): for ids of any length, `IdSurvives` (an id comes
back from encoding and decoding if and only if its last digit is not 0),
`IdIsEchoed` (if the server can encode the stripped id at all, the response has
the bytes of the request) and `IdsStayApart` (stripping maps no two ids to one:
a client may be unknown, but is never taken for another).

**The connection** (`ConnectionProofs`, assumption `ConnectionAssumption`: every
field but the chunk and the key has at least one byte). For any sizes of fields,
chunks and reads: `ConnectionTypes`, `ThreadKeepsStep`, `ClientKeepsStep`,
`ClientsOwnId`. None of them is inductive: a thread that has handled whole
requests so far may still be about to read from the wrong place. The invariant
`ConnectionInv` (`PlacesKept`) gives every message of a stream an offset
relative to the first byte not yet read, negative for the message being read
(`Laid`), and says at which offset the thread is, for each field it may be in
(`ReadingAt`), and the client (`StreamOf`). `Recv` moves all offsets by what was
received; the two writers put a message at the end of the last one. Only the
last request may be cut short, and then the thread reads what there is and
ends, before it handles anything. A message is the concatenation of its fields,
`FlattenSeq`, whose definition is a recursive function: that it has a value
(`PartialsExist`) and that field k begins after the fields before it
(`FlattenPlaces`) are shown by the least number for which they fail
(`LeastNatural`), since the induction theorems cannot be instantiated.

**A session** (`BackupSessionProofs`, assumptions `OneConnPerUser` and
`PrefixFree`): `VerifiedIsConfirmed`, `AttemptsNeverMix`,
`RefusedForAbandoned`, for any number of packets, attempts, keys and versions,
with every fault. A session is a use of the server (`SessionUsesService`), so
`LInv` and all that was proved of `BackupService` hold in it. `SessionInv`
(`SessionInvariance`) adds what the two sides know of each other:

- *Whose turn it is* (`Turns`, `AnsweredOnce`): the thread works, or packets
  wait, or the client does; no upload is reported twice and no verdict
  acknowledged twice.
- *The queue* (`InOrder`): what waits are the last packets sent of the current
  upload, perhaps behind one verdict; so the packets `1..Taken` have been
  handled.
- *The buffer* (`Buffered`): it belongs to the current upload or to one that was
  given up; if to the current one, it holds the packets `1..Taken` as they were
  sent, and never the last packet. This is why attempts do not mix: the
  packet that completes an upload is the last one, the attempt that sends it has
  sent all before it, and each of them replaced what an older attempt left.
- *The version* (`Versioned`): the version that is saved, reported, confirmed and
  marked is the newest one of the file, though each step looks it up again. Each
  link is needed to carry `VerifiedWasConfirmed` from one exchange to the next.

TLC checked `SessionInv` as an invariant on the instance of `session` before it
was proved; that pointed out `AnsweredOnce` and that `VerdictIsTrue` must still
hold when the handler is about to mark.

**Only model-checked.** The liveness properties `RequestCompletes`, `Answered`,
`EveryRequestHandled`, `ThreadEnds` and `UploadAnswered`: every safety property
of a passing run is also a theorem. Liveness under fairness, ENABLED, induction
over data and RECURSIVE operators are out of the prover's reach; nothing here
uses RECURSIVE.

## 5. Not modelled

- Byte order and character sets: fields are known by their place. (README.md:128
  says little-endian; responses are encoded in network order.)
- Sizes: `MAX_FILE_SIZE` is a choice of the client's packet (`RejectTooLarge`),
  and memory is not bounded, as it is not in the code.
- Cryptography: keys are numbers, a decryption under another key gives garbage
  or raises. Collisions of CRC32.
- A property that a verdict's work is done when it is acknowledged: `ACK` goes
  out first, as the code says it does, and a client may get `FAILED` after it.
- A property that a given-up upload stops refusing others: nothing in the code
  ends it but a restart. `RefusedOnlyAfterGivingUp` says that nothing else
  refuses a packet.
- A client that reconnects while the thread of its last connection still works:
  `BackupSession` has one connection at a time. `shared` and `version_race` have
  two connections of one user, without the client's side.
- Two clients with one name in the backup service: it never looks at names.
- `last_modified`, which nothing reads; `UploadAssembler.discard` and the
  `update_last_seen` flag of `delete_failed_upload`, which nothing uses; text
  printed to the console; `main.py` and `cleanup.sh`.

## 6. Plan

1. `BackupSession` with a connection per attempt, to show what a late thread
   does to the confirmation of a later upload.
2. The session as an implementation of an abstract one: a client that learns, for
   each of its files, whether the newest version is what it sent.
