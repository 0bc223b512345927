-------------------------- MODULE UploadAssembler --------------------------
(***************************************************************************)
(* The in-memory buffer of services/backup_service.py: what one call of    *)
(* UploadAssembler.add_chunk does to the dictionary `_uploads` while it    *)
(* holds `_lock`.  `ups` is the dictionary: a function from the users that *)
(* have an upload in progress to their UploadState.  The key is the user   *)
(* id alone, and a packet number already received is overwritten.          *)
(***************************************************************************)
EXTENDS Naturals, FiniteSets, Functions

EmptyMap == [x \in {} |-> x]

\* `f[x] = y` on a dictionary.
With(f, x, y) == [z \in DOMAIN f \cup {x} |-> IF z = x THEN y ELSE f[z]]

(***************************************************************************)
(* The checks made before the lock is taken.                               *)
(***************************************************************************)
\* Mutant: packet_number > total_packets is not refused.
PacketUnbounded(p, total) == p >= 1 /\ total >= 1

ValidPacket(p, total) == p >= 1 /\ total >= 1 /\ p <= total

(***************************************************************************)
(* _validate_existing_upload_state                                         *)
(***************************************************************************)
Consistent(ups, u, n, total) ==
    u \in DOMAIN ups => /\ ups[u].total_packets = total
                        /\ ups[u].file_name = n

(***************************************************************************)
(* The state after `state.chunks[packet_number] = chunk`, of a new         *)
(* UploadState when the user had none.                                     *)
(***************************************************************************)
StateFor(ups, u, n, total) ==
    IF u \in DOMAIN ups THEN ups[u]
    ELSE [total_packets |-> total, file_name |-> n, chunks |-> EmptyMap]

\* Mutant: a packet number already received is not overwritten.
WithFirstChunk(ups, u, n, p, total, c) ==
    LET s == StateFor(ups, u, n, total)
    IN  IF p \in DOMAIN s.chunks THEN s ELSE [s EXCEPT !.chunks = With(@, p, c)]

WithChunk(ups, u, n, p, total, c) ==
    [StateFor(ups, u, n, total) EXCEPT !.chunks = With(@, p, c)]

(***************************************************************************)
(* len(state.chunks) = state.total_packets, and what                       *)
(* _validate_all_packets_received then requires.                           *)
(***************************************************************************)
\* Mutant: one chunk too many is waited for.
IsOverfull(s) == Cardinality(DOMAIN s.chunks) > s.total_packets

IsFull(s) == Cardinality(DOMAIN s.chunks) = s.total_packets

NoneMissing(s) == 1..s.total_packets \subseteq DOMAIN s.chunks

(***************************************************************************)
(* _assemble_chunks_in_order                                               *)
(***************************************************************************)
Assemble(s) == [p \in 1..s.total_packets |-> s.chunks[p]]

(***************************************************************************)
(* `del self._uploads[user_id]`                                            *)
(***************************************************************************)
\* Mutant: a completed upload stays in the buffer.
StillWith(ups, u) == ups

Without(ups, u) == Restrict(ups, DOMAIN ups \ {u})
=============================================================================
