----------------------------- MODULE WireFormat -----------------------------
(***************************************************************************)
(* How a client id travels: as raw bytes on the wire, as a string of       *)
(* hexadecimal digits in the server, which generate_uuid made.             *)
(* protocol/request_decoder.py, protocol/response_encoder.py.              *)
(***************************************************************************)
EXTENDS Integers, Sequences

Byte == 0..255
Digit == 0..15

\* bytes.hex()
Hex(bytes) ==
    [i \in 1..2 * Len(bytes) |->
        IF i % 2 = 1 THEN bytes[(i + 1) \div 2] \div 16 ELSE bytes[i \div 2] % 16]

\* bytes.fromhex(); it raises ValueError on an odd number of digits.
CanFromHex(digits) == Len(digits) % 2 = 0
FromHex(digits) ==
    [i \in 1..Len(digits) \div 2 |-> 16 * digits[2 * i - 1] + digits[2 * i]]

\* The position of the last digit that is not 0; 0 when there is none.
LastNonZero(digits) ==
    CHOOSE n \in 0..Len(digits) :
        /\ n > 0 => digits[n] # 0
        /\ \A i \in n + 1..Len(digits) : digits[i] = 0

\* Mutant: zeros are removed at both ends, as strip does for the text fields.
StripBothEnds(digits) ==
    LET first == CHOOSE n \in 1..Len(digits) + 1 :
                     /\ n <= Len(digits) => digits[n] # 0
                     /\ \A i \in 1..n - 1 : digits[i] = 0
    IN  SubSeq(digits, first, LastNonZero(digits))

\* rstrip("0")
RStrip(digits) == SubSeq(digits, 1, LastNonZero(digits))

\* _pad_bytes, of a value that fits.
PadBytes(bytes, size) ==
    [i \in 1..size |-> IF i <= Len(bytes) THEN bytes[i] ELSE 0]

\* _read_user_id
ReadUserId(bytes) == RStrip(Hex(bytes))

(***************************************************************************)
(* _serialize_user_id of a string; send_ack and the other senders refuse   *)
(* an empty one first.                                                     *)
(***************************************************************************)
CanSerialize(digits) == Len(digits) > 0 /\ CanFromHex(digits)
SerializeUserId(digits, size) == PadBytes(FromHex(digits), size)
=============================================================================
