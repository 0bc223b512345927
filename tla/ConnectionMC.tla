---------------------------- MODULE ConnectionMC ----------------------------
(* Constants for TLC.                                                      *)
EXTENDS Connection

\* Ids that begin with zeros, and ids that end in one zero and in two.
SomeUuids == {<<0, 0, 1, 1>>, <<1, 1, 1, 0>>, <<1, 1, 0, 0>>}
RoundUuids == {<<1, 1, 0, 1>>, <<1, 1, 1, 0>>}

SmallWidth ==
    [f \in {"user_id", "header", "username", "public_key", "backup_metadata", "file_name"} |->
        IF f \in {"user_id", "backup_metadata"} THEN 2 ELSE 1]
SmallResponseWidth ==
    [f \in {"header", "user_id", "encrypted_chunk_size", "file_name", "checksum"} |->
        IF f \in {"header", "user_id"} THEN 2 ELSE 1]

SomeCodes == {"REGISTRATION", "PUBLIC_KEY_SEND", "CREATE_BACKUP", "CRC_SUCCESS", "DISCONNECT",
              "unknown"}
=============================================================================
