-------------------------- MODULE ConnectionProofs --------------------------
(***************************************************************************)
(* The thread and the client keep their places in the two streams, for     *)
(* fields of any size and any number of requests.                          *)
(***************************************************************************)
EXTENDS Connection, WireFormatProofs, SequenceTheorems

\* f[i] is the concatenation of the first i of the n sequences of ss.
Partials(ss, n, f) ==
    f = [i \in 1..n |-> IF i = 1 THEN ss[i] ELSE f[i - 1] \o ss[i]]

\* off[k] elements come before the k-th of the n sequences of ss.
Offsets(X, n, ss, off) ==
    /\ n \in Nat /\ ss \in [1..n -> Seq(X)]
    /\ off \in [1..n + 1 -> Nat] /\ off[1] = 0
    /\ \A k \in 1..n : off[k + 1] = off[k] + Len(ss[k])

\* The partial concatenations exist: the recursion over the positions has a value.
LEMMA PartialsExist ==
    ASSUME NEW ss, NEW n \in Nat
    PROVE  \E f : Partials(ss, n, f)
<1> DEFINE T == {k \in Nat : ~ \E f : Partials(ss, k, f)}
<1>1. SUFFICES ASSUME T # {}
               PROVE  FALSE
  OBVIOUS
<1>2. PICK k \in T : \A j \in T : k <= j
  <2>1. T \in SUBSET Nat
    OBVIOUS
  <2> HIDE DEF T
  <2> QED
    BY <1>1, <2>1, LeastNatural
<1>3. k \in Nat /\ ~ \E f : Partials(ss, k, f)
  OBVIOUS
<1>4. CASE k = 0
  <2>1. Partials(ss, 0, << >>)
    BY DEF Partials
  <2> QED
    BY <1>3, <1>4, <2>1
<1>5. CASE k # 0
  <2>1. k - 1 \in Nat /\ k - 1 \notin T
    BY <1>2, <1>3, <1>5
  <2>2. PICK f : Partials(ss, k - 1, f)
    BY <2>1
  <2> DEFINE g == [i \in 1..k |-> IF i < k THEN f[i] ELSE IF k = 1 THEN ss[k] ELSE f[k - 1] \o ss[k]]
  <2>3. ASSUME NEW i \in 1..k
        PROVE  g[i] = IF i = 1 THEN ss[i] ELSE g[i - 1] \o ss[i]
    <3>1. CASE i < k
      <4>1. i \in 1..k - 1 /\ (i # 1 => i - 1 \in 1..k - 1 /\ i - 1 < k)
        BY <1>3, <3>1
      <4>2. f[i] = IF i = 1 THEN ss[i] ELSE f[i - 1] \o ss[i]
        BY <2>2, <4>1, Zenon DEF Partials
      <4> QED
        BY <3>1, <4>1, <4>2
    <3>2. CASE i = k
      BY <1>3, <3>2
    <3> QED
      BY <1>3, <3>1, <3>2
  <2>4. Partials(ss, k, g)
    BY <2>3 DEF Partials
  <2> QED
    BY <1>3, <2>4
<1> QED
  BY <1>4, <1>5

\* One step of that recursion.
LEMMA PartialsAt ==
    ASSUME NEW ss, NEW n \in Nat, NEW f, Partials(ss, n, f), NEW i \in 1..n
    PROVE  (i = 1 => f[i] = ss[i]) /\ (i # 1 => f[i] = f[i - 1] \o ss[i])
BY Zenon DEF Partials

\* FlattenSeq is the last of the partial concatenations.
LEMMA FlattenIs ==
    ASSUME NEW ss, Len(ss) \in Nat \ {0}
    PROVE  \E f : Partials(ss, Len(ss), f) /\ FlattenSeq(ss) = f[Len(ss)]
<1>1. \E f : f = [i \in 1..Len(ss) |-> IF i = 1 THEN ss[i] ELSE f[i - 1] \o ss[i]]
  BY PartialsExist DEF Partials
<1> DEFINE F == CHOOSE f : f = [i \in 1..Len(ss) |-> IF i = 1 THEN ss[i] ELSE f[i - 1] \o ss[i]]
<1>2. Partials(ss, Len(ss), F)
  BY <1>1, Zenon DEF Partials
<1>3. Len(ss) # 0
  OBVIOUS
<1>4. FlattenSeq(ss) = F[Len(ss)]
  BY <1>3, Zenon DEF FlattenSeq
<1> QED
  BY <1>2, <1>4

\* The elements of a concatenation.
LEMMA JoinedAt ==
    ASSUME NEW X, NEW a \in Seq(X), NEW b \in Seq(X)
    PROVE  /\ a \o b \in Seq(X) /\ Len(a \o b) = Len(a) + Len(b)
           /\ \A j \in 1..Len(a) : (a \o b)[j] = a[j]
           /\ \A j \in 1..Len(b) : (a \o b)[Len(a) + j] = b[j]
OBVIOUS

\* Where each of the first k sequences is in the k-th partial concatenation.
LEMMA PartialPlaces ==
    ASSUME NEW X, NEW n, NEW ss, NEW off, NEW f
    PROVE  Offsets(X, n, ss, off) /\ Partials(ss, n, f)
           => \A k \in 1..n :
                 /\ f[k] \in Seq(X) /\ Len(f[k]) = off[k + 1]
                 /\ \A l \in 1..k : \A j \in 1..Len(ss[l]) :
                       off[l] + j \in 1..off[k + 1] /\ f[k][off[l] + j] = ss[l][j]
<1>s. SUFFICES ASSUME Offsets(X, n, ss, off), Partials(ss, n, f)
               PROVE  \A k \in 1..n :
                 /\ f[k] \in Seq(X) /\ Len(f[k]) = off[k + 1]
                 /\ \A l \in 1..k : \A j \in 1..Len(ss[l]) :
                       off[l] + j \in 1..off[k + 1] /\ f[k][off[l] + j] = ss[l][j]
  OBVIOUS
<1>h. /\ n \in Nat /\ ss \in [1..n -> Seq(X)]
      /\ off \in [1..n + 1 -> Nat] /\ off[1] = 0
      /\ \A k \in 1..n : off[k + 1] = off[k] + Len(ss[k])
      /\ Partials(ss, n, f)
  BY <1>s DEF Offsets
<1> DEFINE P(k) ==
              /\ f[k] \in Seq(X) /\ Len(f[k]) = off[k + 1]
              /\ \A l \in 1..k : \A j \in 1..Len(ss[l]) :
                    off[l] + j \in 1..off[k + 1] /\ f[k][off[l] + j] = ss[l][j]
           T == {k \in 1..n : ~P(k)}
<1>1. SUFFICES ASSUME T # {}
               PROVE  FALSE
  OBVIOUS
<1>2. \E k \in T : \A j \in T : k <= j
  <2>1. T \in SUBSET Nat
    BY <1>h
  <2> HIDE DEF T
  <2> QED
    BY <1>1, <2>1, LeastNatural
<1>3. PICK k : k \in 1..n /\ ~P(k) /\ \A j \in 1..n : ~P(j) => k <= j
  BY <1>2, SMTT(30)
<1> HIDE DEF P, T
<1>4. /\ k = 1 => f[k] = ss[k]
      /\ k # 1 => f[k] = f[k - 1] \o ss[k]
  BY <1>h, <1>3, PartialsAt
<1>5. ss[k] \in Seq(X) /\ Len(ss[k]) \in Nat /\ off[k + 1] = off[k] + Len(ss[k])
      /\ off[k] \in Nat
  BY <1>h, <1>3
<1>6. CASE k = 1
  <2>1. f[k] = ss[k]
    BY <1>4, <1>6
  <2>2. off[k] = 0 /\ off[k + 1] = Len(ss[k])
    BY <1>h, <1>5, <1>6
  <2>3. ASSUME NEW l \in 1..k, NEW j \in 1..Len(ss[l])
        PROVE  off[l] + j \in 1..off[k + 1] /\ f[k][off[l] + j] = ss[l][j]
    <3>1. l = k /\ j \in 1..Len(ss[k]) /\ off[l] + j = j
      BY <1>6, <2>2
    <3> QED
      BY <1>5, <2>1, <2>2, <3>1
  <2>4. P(k)
    BY <1>5, <2>1, <2>2, <2>3 DEF P
  <2> QED
    BY <1>3, <2>4
<1>7. CASE k # 1
  <2>0. k - 1 \in 1..n /\ k - 1 + 1 = k /\ ~(k <= k - 1)
    BY <1>h, <1>3, <1>7
  <2>1. PICK i : i \in 1..n /\ i = k - 1 /\ i + 1 = k /\ ~(k <= i)
    BY <2>0
  <2>2. P(i)
    BY <1>3, <2>1
  <2>3. f[k] = f[i] \o ss[k]
    BY <1>4, <1>7, <2>1
  <2>4. f[i] \in Seq(X) /\ Len(f[i]) = off[k]
    BY <2>1, <2>2 DEF P
  <2>5. /\ f[k] \in Seq(X) /\ Len(f[k]) = off[k] + Len(ss[k])
        /\ \A j \in 1..Len(f[i]) : f[k][j] = f[i][j]
        /\ \A j \in 1..Len(ss[k]) : f[k][Len(f[i]) + j] = ss[k][j]
    <3>1. f[i] \in Seq(X) /\ ss[k] \in Seq(X)
      BY <1>5, <2>4
    <3>2. LET c == f[i] \o ss[k]
          IN  /\ c \in Seq(X) /\ Len(c) = Len(f[i]) + Len(ss[k])
              /\ \A j \in 1..Len(f[i]) : c[j] = f[i][j]
              /\ \A j \in 1..Len(ss[k]) : c[Len(f[i]) + j] = ss[k][j]
      <4> DEFINE a == f[i]
                 b == ss[k]
      <4>1. a \in Seq(X) /\ b \in Seq(X)
        BY <3>1
      <4> HIDE DEF a, b
      <4>2. LET c == a \o b
            IN  /\ c \in Seq(X) /\ Len(c) = Len(a) + Len(b)
                /\ \A j \in 1..Len(a) : c[j] = a[j]
                /\ \A j \in 1..Len(b) : c[Len(a) + j] = b[j]
        BY <4>1
      <4> QED
        BY <4>2, Zenon DEF a, b
    <3> QED
      BY <2>3, <2>4, <3>2, Zenon
  <2>6. ASSUME NEW l \in 1..k, NEW j \in 1..Len(ss[l])
        PROVE  off[l] + j \in 1..off[k + 1] /\ f[k][off[l] + j] = ss[l][j]
    <3>1. CASE l = k
      <4>1. j \in 1..Len(ss[k])
        BY <3>1
      <4>2. f[k][off[k] + j] = ss[k][j]
        BY <2>4, <2>5, <4>1
      <4>3. off[k] + j \in 1..off[k + 1]
        BY <1>5, <4>1
      <4> QED
        BY <3>1, <4>2, <4>3
    <3>2. CASE l # k
      <4>1. l \in 1..i
        BY <1>h, <1>3, <2>1, <3>2
      <4>2. off[l] + j \in 1..off[k] /\ f[i][off[l] + j] = ss[l][j]
        BY <2>1, <2>2, <4>1 DEF P
      <4>3. off[l] + j \in 1..off[k + 1]
        BY <1>5, <4>2
      <4>4. f[k][off[l] + j] = f[i][off[l] + j]
        BY <2>4, <2>5, <4>2
      <4> QED
        BY <4>2, <4>3, <4>4
    <3> QED
      BY <3>1, <3>2
  <2>7. P(k)
    BY <1>5, <2>5, <2>6 DEF P
  <2> QED
    BY <1>3, <2>7
<1> QED
  BY <1>6, <1>7

\* Every element of every sequence of ss is in FlattenSeq(ss), at its offset.
Flattened(X, n, ss, off) ==
    /\ FlattenSeq(ss) \in Seq(X)
    /\ Len(FlattenSeq(ss)) = off[n + 1]
    /\ \A k \in 1..n : \A j \in 1..Len(ss[k]) :
          off[k] + j \in 1..off[n + 1] /\ FlattenSeq(ss)[off[k] + j] = ss[k][j]

\* FlattenSeq puts one sequence after the other: the k-th begins after off[k] elements.
LEMMA FlattenPlaces ==
    ASSUME NEW X, NEW n, NEW ss, NEW off
    PROVE  Offsets(X, n, ss, off) /\ n # 0 => Flattened(X, n, ss, off)
<1>h. SUFFICES ASSUME Offsets(X, n, ss, off), n # 0
               PROVE  Flattened(X, n, ss, off)
  OBVIOUS
<1>1. Len(ss) = n /\ n \in Nat /\ n \in 1..n /\ n \in Nat \ {0}
  BY <1>h DEF Offsets
<1>2. PICK f : Partials(ss, n, f) /\ FlattenSeq(ss) = f[n]
  BY <1>1, FlattenIs
<1>3. \A k \in 1..n :
         /\ f[k] \in Seq(X) /\ Len(f[k]) = off[k + 1]
         /\ \A l \in 1..k : \A j \in 1..Len(ss[l]) :
               off[l] + j \in 1..off[k + 1] /\ f[k][off[l] + j] = ss[l][j]
  BY <1>h, <1>2, PartialPlaces
<1>4. /\ f[n] \in Seq(X) /\ Len(f[n]) = off[n + 1]
      /\ \A l \in 1..n : \A j \in 1..Len(ss[l]) :
            off[l] + j \in 1..off[n + 1] /\ f[n][off[l] + j] = ss[l][j]
  BY <1>1, <1>3, Zenon
<1> QED
  BY <1>2, <1>4, Zenon DEF Flattened

\* What FlattenSeq makes of one sequence and of two.
LEMMA FlattenFew ==
    ASSUME NEW ss
    PROVE  /\ Len(ss) = 1 => FlattenSeq(ss) = ss[1]
           /\ Len(ss) = 2 => FlattenSeq(ss) = ss[1] \o ss[2]
<1>0. /\ 1 \in Nat /\ 2 \in Nat /\ 1 \in Nat \ {0} /\ 2 \in Nat \ {0}
      /\ 1 \in 1..1 /\ 1 \in 1..2 /\ 2 \in 1..2 /\ 2 # 1 /\ 2 - 1 = 1
  OBVIOUS
<1>1. ASSUME Len(ss) = 1
      PROVE  FlattenSeq(ss) = ss[1]
  <2>1. \E f : Partials(ss, Len(ss), f) /\ FlattenSeq(ss) = f[Len(ss)]
    BY <1>0, <1>1, FlattenIs, Zenon
  <2>2. PICK f : Partials(ss, 1, f) /\ FlattenSeq(ss) = f[1]
    BY <1>1, <2>1, Zenon
  <2>3. f[1] = ss[1]
    BY <1>0, <2>2, Zenon DEF Partials
  <2> QED
    BY <2>2, <2>3, Zenon
<1>2. ASSUME Len(ss) = 2
      PROVE  FlattenSeq(ss) = ss[1] \o ss[2]
  <2>1. \E f : Partials(ss, Len(ss), f) /\ FlattenSeq(ss) = f[Len(ss)]
    BY <1>0, <1>2, FlattenIs, Zenon
  <2>2. PICK f : Partials(ss, 2, f) /\ FlattenSeq(ss) = f[2]
    BY <1>2, <2>1, Zenon
  <2>3. f[1] = ss[1]
    BY <1>0, <2>2, Zenon DEF Partials
  <2>4. f[2] = f[2 - 1] \o ss[2]
    BY <1>0, <2>2, Zenon DEF Partials
  <2> QED
    BY <1>0, <2>2, <2>3, <2>4, Zenon
<1> QED
  BY <1>1, <1>2, Zenon

-----------------------------------------------------------------------------
(* The bytes of a message.                                                 *)

\* A byte of a stream, as Connection has it: of which message, of which field, at which place.
Place == [message : Nat, field : ToSet(RequestLayout) \cup ToSet(ResponseLayout), at : Nat]

\* Byte number i of field f of message n.
At(n, f, i) == [message |-> n, field |-> f, at |-> i]

\* A function on 1..n is a sequence of length n.
LEMMA Listed ==
    ASSUME NEW X, NEW n \in Nat, NEW s \in [1..n -> X]
    PROVE  s \in Seq(X) /\ Len(s) = n
OBVIOUS

\* The size of field number f of a request, and what comes before it.
FieldSize(f, chunk) ==
    IF RequestLayout[f] = "encrypted_chunk" THEN chunk ELSE Width[RequestLayout[f]]

\* The bytes of a request before its chunk.
HeadLen == Width["user_id"] + Width["header"] + Width["username"] + Width["public_key"]
             + Width["backup_metadata"] + Width["file_name"]

\* The bytes of a request before each of its seven fields.
FieldStart ==
    <<0, Width["user_id"],
      Width["user_id"] + Width["header"],
      Width["user_id"] + Width["header"] + Width["username"],
      Width["user_id"] + Width["header"] + Width["username"] + Width["public_key"],
      Width["user_id"] + Width["header"] + Width["username"] + Width["public_key"]
        + Width["backup_metadata"],
      HeadLen>>

\* The fields of fixed size have one, and it is not zero.
LEMMA Widths ==
    /\ \A f \in {"user_id", "header", "username", "public_key", "backup_metadata", "file_name"} :
          f \in ToSet(RequestLayout) /\ Width[f] \in Nat \ {0}
    /\ \A f \in {"user_id", "header", "encrypted_chunk_size", "file_name", "checksum"} :
          f \in ToSet(ResponseLayout) /\ ResponseWidth[f] \in Nat \ {0}
    /\ "encrypted_chunk" \in ToSet(RequestLayout)
    /\ "encrypted_aes_key" \in ToSet(ResponseLayout)
<1>1. ToSet(RequestLayout) = {"user_id", "header", "username", "public_key", "backup_metadata",
                              "file_name", "encrypted_chunk"}
  BY DEF ToSet, RequestLayout
<1>2. ToSet(ResponseLayout) = {"header", "user_id", "encrypted_aes_key", "encrypted_chunk_size",
                               "file_name", "checksum"}
  BY DEF ToSet, ResponseLayout
<1> QED
  BY <1>1, <1>2, ConnectionAssumption DEF ConnectionAssumption

\* Each field begins where the one before it ends.
LEMMA FieldStarts ==
    ASSUME NEW chunk \in Nat
    PROVE  /\ FieldStart \in [1..7 -> Nat] /\ FieldStart[1] = 0 /\ FieldStart[7] = HeadLen
           /\ HeadLen \in Nat
           /\ \A f \in 1..6 : FieldStart[f + 1] = FieldStart[f] + FieldSize(f, chunk)
           /\ \A f \in 1..7 : FieldSize(f, chunk) \in Nat
           /\ \A f \in 1..6 : FieldSize(f, chunk) > 0 /\ RequestLayout[f] # "encrypted_chunk"
           /\ FieldSize(7, chunk) = chunk
BY Widths DEF FieldStart, HeadLen, FieldSize, RequestLayout

\* The offsets of the fields of a request.
RequestOff(chunk) == [f \in 1..8 |-> IF f = 8 THEN HeadLen + chunk ELSE FieldStart[f]]

(***************************************************************************)
(* Where the bytes of a request are.                                       *)
(***************************************************************************)
LEMMA RequestPlaces ==
    ASSUME NEW n \in Nat, NEW chunk \in Nat
    PROVE  /\ RequestBytes(n, chunk) \in Seq(Place)
           /\ Len(RequestBytes(n, chunk)) = HeadLen + chunk
           /\ \A f \in 1..7 : \A i \in 1..FieldSize(f, chunk) :
                 /\ FieldStart[f] + i \in 1..HeadLen + chunk
                 /\ RequestBytes(n, chunk)[FieldStart[f] + i] = At(n, RequestLayout[f], i)
<1> DEFINE ss == [k \in 1..7 |-> [i \in 1..FieldSize(k, chunk) |-> At(n, RequestLayout[k], i)]]
           off == RequestOff(chunk)
<1>0. /\ FieldStart \in [1..7 -> Nat] /\ FieldStart[1] = 0 /\ FieldStart[7] = HeadLen
      /\ HeadLen \in Nat
      /\ \A f \in 1..6 : FieldStart[f + 1] = FieldStart[f] + FieldSize(f, chunk)
      /\ \A f \in 1..7 : FieldSize(f, chunk) \in Nat
      /\ FieldSize(7, chunk) = chunk
  BY FieldStarts
<1>1. RequestBytes(n, chunk) = FlattenSeq(ss)
  <2>1. Len(RequestLayout) = 7
    BY DEF RequestLayout
  <2> QED
    BY <2>1, Zenon DEF RequestBytes, Encode, FieldSize, At
<1>2. \A k \in 1..7 : \A i \in 1..FieldSize(k, chunk) : At(n, RequestLayout[k], i) \in Place
  <2>1. \A k \in 1..7 : RequestLayout[k] \in ToSet(RequestLayout)
    BY DEF ToSet, RequestLayout
  <2>2. \A k \in 1..7 : \A i \in 1..FieldSize(k, chunk) : i \in Nat
    BY <1>0
  <2> QED
    BY <2>1, <2>2 DEF At, Place
<1>3. ASSUME NEW k \in 1..7
      PROVE  ss[k] \in Seq(Place) /\ Len(ss[k]) = FieldSize(k, chunk)
  <2>1. ss[k] \in [1..FieldSize(k, chunk) -> Place] /\ FieldSize(k, chunk) \in Nat
    BY <1>0, <1>2
  <2> QED
    BY <2>1, Listed, Zenon
<1>4. Offsets(Place, 7, ss, off)
  <2>1. off \in [1..7 + 1 -> Nat] /\ off[1] = 0
    BY <1>0 DEF RequestOff
  <2>2. ss \in [1..7 -> Seq(Place)]
    BY <1>3
  <2>3. \A k \in 1..7 : off[k + 1] = off[k] + Len(ss[k])
    <3>1. \A k \in 1..7 : off[k + 1] = off[k] + FieldSize(k, chunk)
      BY <1>0 DEF RequestOff
    <3> HIDE DEF ss, off
    <3> QED
      BY <1>3, <3>1
  <2> QED
    BY <2>1, <2>2, <2>3 DEF Offsets
<1> HIDE DEF ss, off
<1>9. 7 # 0
  OBVIOUS
<1>10. Flattened(Place, 7, ss, off)
  BY <1>4, <1>9, FlattenPlaces
<1>5. /\ FlattenSeq(ss) \in Seq(Place)
      /\ Len(FlattenSeq(ss)) = off[7 + 1]
      /\ \A k \in 1..7 : \A j \in 1..Len(ss[k]) :
            off[k] + j \in 1..off[7 + 1] /\ FlattenSeq(ss)[off[k] + j] = ss[k][j]
  BY <1>10, Zenon DEF Flattened
<1>6. off[7 + 1] = HeadLen + chunk /\ \A f \in 1..7 : off[f] = FieldStart[f]
  BY DEF off, RequestOff
<1>7. \A f \in 1..7 : \A i \in 1..FieldSize(f, chunk) : ss[f][i] = At(n, RequestLayout[f], i)
  BY DEF ss
<1> QED
  <2>1. ASSUME NEW f \in 1..7, NEW i \in 1..FieldSize(f, chunk)
        PROVE  /\ FieldStart[f] + i \in 1..HeadLen + chunk
               /\ RequestBytes(n, chunk)[FieldStart[f] + i] = At(n, RequestLayout[f], i)
    <3>1. i \in 1..Len(ss[f])
      BY <1>3
    <3>2. off[f] + i \in 1..off[7 + 1] /\ FlattenSeq(ss)[off[f] + i] = ss[f][i]
      BY <1>5, <3>1, Zenon
    <3> QED
      BY <1>1, <1>6, <1>7, <3>2
  <2> QED
    BY <1>1, <1>5, <1>6, <2>1

\* The parts of a response, in their order.
ResponseSize(f, key) ==
    IF ResponseLayout[f] = "encrypted_aes_key" THEN key ELSE ResponseWidth[ResponseLayout[f]]

\* The bytes of a response: the header and what payload_size counts.
ResponseLen(key) == ResponseWidth["header"] + PayloadSize(key)

\* The offsets of the parts of a response.
ResponseOff(key) ==
    <<0, ResponseWidth["header"],
      ResponseWidth["header"] + ResponseWidth["user_id"],
      ResponseWidth["header"] + ResponseWidth["user_id"] + key,
      ResponseWidth["header"] + ResponseWidth["user_id"] + key
        + ResponseWidth["encrypted_chunk_size"],
      ResponseWidth["header"] + ResponseWidth["user_id"] + key
        + ResponseWidth["encrypted_chunk_size"] + ResponseWidth["file_name"],
      ResponseLen(key)>>

(***************************************************************************)
(* payload_size is what comes after the header, the session key included,  *)
(* and the header of a response is found in no other.                      *)
(***************************************************************************)
LEMMA ResponsePlaces ==
    ASSUME NEW n \in Nat, NEW response, response.key \in Nat
    PROVE  /\ ResponseBytes(n, response) \in Seq(Place)
           /\ Len(ResponseBytes(n, response)) = ResponseLen(response.key)
           /\ ResponseLen(response.key) \in Nat /\ ResponseWidth["header"] \in Nat \ {0}
           /\ ResponseWidth["header"] <= ResponseLen(response.key)
           /\ ResponseBytes(n, response)[1] = At(n, "header", 1)
<1> DEFINE key == response.key
           ss == [k \in 1..6 |-> [i \in 1..ResponseSize(k, key) |-> At(n, ResponseLayout[k], i)]]
           off == ResponseOff(key)
<1>1. ResponseBytes(n, response) = FlattenSeq(ss)
  <2>1. Len(ResponseLayout) = 6
    BY DEF ResponseLayout
  <2> QED
    BY <2>1, Zenon DEF ResponseBytes, Encode, ResponseSize, At
<1>2. \A k \in 1..6 : \A i \in 1..ResponseSize(k, key) : At(n, ResponseLayout[k], i) \in Place
  BY Widths DEF At, Place, ResponseLayout, ResponseSize
<1>3. ASSUME NEW k \in 1..6
      PROVE  /\ ss[k] \in Seq(Place) /\ Len(ss[k]) = ResponseSize(k, key)
             /\ ResponseSize(k, key) \in Nat
  <2>1. ResponseSize(k, key) \in Nat
    BY Widths DEF ResponseLayout, ResponseSize
  <2>2. ss[k] \in [1..ResponseSize(k, key) -> Place]
    BY <1>2
  <2> QED
    BY <2>1, <2>2, Listed, Zenon
<1>8. /\ ResponseLen(key) \in Nat /\ ResponseWidth["header"] \in Nat \ {0}
      /\ ResponseWidth["header"] <= ResponseLen(key)
  BY Widths DEF ResponseLen, PayloadSize, BasePayloadSize
<1>4. Offsets(Place, 6, ss, off)
  <2>1. off \in [1..6 + 1 -> Nat] /\ off[1] = 0
    BY <1>8, Widths DEF ResponseOff
  <2>2. ss \in [1..6 -> Seq(Place)]
    BY <1>3
  <2>3. \A k \in 1..6 : off[k + 1] = off[k] + ResponseSize(k, key)
    BY Widths DEF ResponseOff, ResponseSize, ResponseLayout, ResponseLen, PayloadSize,
                  BasePayloadSize
  <2> QED
    BY <1>3, <2>1, <2>2, <2>3 DEF Offsets
<1>7. ss[1][1] = At(n, "header", 1) /\ 1 \in 1..Len(ss[1]) /\ 1 \in 1..6
  <2>1. ResponseLayout[1] = "header" /\ ResponseSize(1, key) = ResponseWidth["header"]
    BY DEF ResponseSize, ResponseLayout
  <2>2. 1 \in 1..6 /\ 1 \in 1..ResponseSize(1, key)
    BY <1>8, <2>1
  <2>3. ss[1] = [i \in 1..ResponseSize(1, key) |-> At(n, ResponseLayout[1], i)]
    BY <2>2, Zenon
  <2>4. Len(ss[1]) = ResponseSize(1, key)
    BY <1>3, <2>2, Zenon
  <2> QED
    BY <2>1, <2>2, <2>3, <2>4, Zenon
<1>6. off[6 + 1] = ResponseLen(key) /\ off[1] = 0 /\ off[1] + 1 = 1
  BY DEF ResponseOff
<1> HIDE DEF ss, off
<1>9. 6 # 0
  OBVIOUS
<1>10. Flattened(Place, 6, ss, off)
  BY <1>4, <1>9, FlattenPlaces
<1>5. /\ FlattenSeq(ss) \in Seq(Place)
      /\ Len(FlattenSeq(ss)) = off[6 + 1]
      /\ \A k \in 1..6 : \A j \in 1..Len(ss[k]) :
            off[k] + j \in 1..off[6 + 1] /\ FlattenSeq(ss)[off[k] + j] = ss[k][j]
  BY <1>10, Zenon DEF Flattened
<1> QED
  BY <1>1, <1>5, <1>6, <1>7, <1>8

-----------------------------------------------------------------------------
(* Messages in a stream.                                                   *)

(***************************************************************************)
(* The messages bs lie one after the other, and message k begins after the *)
(* first E[k] bytes of s.  E[k] is negative when the beginning of the      *)
(* message has been read, and the last message may go on after s ends.     *)
(***************************************************************************)
Laid(bs, s, E) ==
    /\ bs \in Seq(Seq(Place)) /\ s \in Seq(Place) /\ E \in [1..Len(bs) + 1 -> Int]
    /\ \A k \in 1..Len(bs) : E[k + 1] = E[k] + Len(bs[k]) /\ E[k + 1] <= E[Len(bs) + 1]
    /\ \A k \in 1..Len(bs) : \A j \in 1..Len(bs[k]) :
          E[k] + j \in 1..Len(s) => s[E[k] + j] = bs[k][j]

\* c is the beginning of message b, or all of it.
Beginning(c, b) ==
    /\ b \in Seq(Place) /\ c \in Seq(Place) /\ Len(c) <= Len(b)
    /\ \A j \in 1..Len(c) : c[j] = b[j]

\* A byte of a message that ends within the stream is within the stream.
LEMMA WithinLength ==
    ASSUME NEW e \in Int, NEW j \in Nat, NEW l \in Nat, NEW n \in Nat,
           e + j >= 1, j <= l, e + l <= n
    PROVE  e + j \in 1..n
OBVIOUS

\* A message, or the beginning c of one, is written.
LEMMA LaidWrite ==
    ASSUME NEW bs, NEW s, NEW E, NEW b, NEW c
    PROVE  /\ Laid(bs, s, E) /\ E[Len(bs) + 1] = Len(s) /\ Beginning(c, b)
           => \E F : /\ Laid(Append(bs, b), s \o c, F)
                     /\ \A k \in 1..Len(bs) + 1 : F[k] = E[k]
                     /\ F[Len(bs) + 2] = Len(s) + Len(b)
<1>g. SUFFICES ASSUME Laid(bs, s, E), E[Len(bs) + 1] = Len(s), Beginning(c, b)
               PROVE  \E F : /\ Laid(Append(bs, b), s \o c, F)
                             /\ \A k \in 1..Len(bs) + 1 : F[k] = E[k]
                             /\ F[Len(bs) + 2] = Len(s) + Len(b)
  OBVIOUS
<1>h. /\ Laid(bs, s, E) /\ E[Len(bs) + 1] = Len(s)
      /\ b \in Seq(Place) /\ c \in Seq(Place) /\ Len(c) <= Len(b)
      /\ \A j \in 1..Len(c) : c[j] = b[j]
  BY <1>g DEF Beginning
<1> DEFINE n == Len(bs)
           F == [k \in 1..n + 2 |-> IF k = n + 2 THEN Len(s) + Len(b) ELSE E[k]]
           ds == Append(bs, b)
           t == s \o c
<1>1. /\ bs \in Seq(Seq(Place)) /\ s \in Seq(Place) /\ E \in [1..n + 1 -> Int] /\ n \in Nat
      /\ Len(s) \in Nat /\ Len(b) \in Nat /\ Len(c) \in Nat
  BY <1>h DEF Laid
<1>2. /\ ds \in Seq(Seq(Place)) /\ Len(ds) = n + 1 /\ ds[n + 1] = b
      /\ \A k \in 1..n : ds[k] = bs[k]
  BY <1>h, <1>1
<1>3. /\ t \in Seq(Place) /\ Len(t) = Len(s) + Len(c)
      /\ \A j \in 1..Len(s) : t[j] = s[j]
      /\ \A j \in 1..Len(c) : t[Len(s) + j] = c[j]
  BY <1>h, <1>1, JoinedAt
<1> HIDE DEF ds, t
<1>4. /\ F \in [1..Len(ds) + 1 -> Int] /\ F[n + 2] = Len(s) + Len(b)
      /\ \A k \in 1..n + 1 : F[k] = E[k]
  BY <1>1, <1>2
<1> HIDE DEF F
<1>5. \A k \in 1..n : E[k + 1] = E[k] + Len(bs[k]) /\ E[k + 1] <= Len(s)
  BY <1>h DEF Laid
<1>6. ASSUME NEW k \in 1..Len(ds)
      PROVE  F[k + 1] = F[k] + Len(ds[k]) /\ F[k + 1] <= F[Len(ds) + 1]
  <2>0. F[Len(ds) + 1] = Len(s) + Len(b)
    BY <1>1, <1>2, <1>4
  <2>1. CASE k \in 1..n
    <3>1. /\ k \in 1..n + 1 /\ k + 1 \in 1..n + 1
          /\ F[k] = E[k] /\ F[k + 1] = E[k + 1] /\ ds[k] = bs[k]
      BY <1>1, <1>2, <1>4, <2>1, SMTT(30)
    <3>2. E[k + 1] = E[k] + Len(bs[k]) /\ E[k + 1] <= Len(s) /\ E[k + 1] \in Int
      BY <1>1, <1>5, <2>1, <3>1
    <3> QED
      BY <1>1, <2>0, <3>1, <3>2, SMTT(30)
  <2>2. CASE k = n + 1
    <3>1. k + 1 = n + 2 /\ k \in 1..n + 1
      BY <1>1, <2>2
    <3>2. F[k] = Len(s) /\ F[k + 1] = Len(s) + Len(b) /\ ds[k] = b
      BY <1>h, <1>2, <1>4, <2>2, <3>1
    <3> QED
      BY <1>1, <2>0, <3>2
  <2> QED
    BY <1>1, <1>2, <2>1, <2>2
<1>7. ASSUME NEW k \in 1..Len(ds), NEW j \in 1..Len(ds[k]), F[k] + j \in 1..Len(t)
      PROVE  t[F[k] + j] = ds[k][j]
  <2>1. CASE k \in 1..n
    <3>0. k \in 1..n + 1 /\ ds[k] = bs[k] /\ bs[k] \in Seq(Place)
      BY <1>1, <1>2, <2>1, SMTT(30)
    <3>1. ds[k] = bs[k] /\ F[k] = E[k] /\ j \in 1..Len(bs[k]) /\ Len(bs[k]) \in Nat
      BY <1>4, <3>0
    <3>2. E[k] + j \in 1..Len(s)
      <4>1. E[k + 1] = E[k] + Len(bs[k]) /\ E[k + 1] <= Len(s) /\ E[k] \in Int
        BY <1>1, <1>5, <2>1, <3>0
      <4>2. E[k] + j \in 1..Len(t)
        BY <1>7, <3>1
      <4>3. /\ Len(s) \in Nat /\ E[k] \in Int /\ j \in Nat /\ j >= 1
            /\ E[k] + j >= 1 /\ j <= Len(bs[k]) /\ Len(bs[k]) \in Nat
            /\ E[k] + Len(bs[k]) <= Len(s)
        BY <1>1, <3>1, <4>1, <4>2
      <4> QED
        BY <4>3, WithinLength
    <3>3. s[E[k] + j] = bs[k][j]
      BY <1>h, <2>1, <3>1, <3>2 DEF Laid
    <3> QED
      BY <1>3, <3>1, <3>2, <3>3
  <2>2. CASE k = n + 1
    <3>1. ds[k] = b /\ F[k] = Len(s) /\ j \in 1..Len(b)
      BY <1>h, <1>1, <1>2, <1>4, <2>2
    <3>2. j \in 1..Len(c)
      BY <1>1, <1>3, <1>7, <3>1
    <3> QED
      BY <1>h, <1>3, <3>1, <3>2
  <2> QED
    BY <1>1, <1>2, <2>1, <2>2
<1>8. Laid(ds, t, F)
  BY <1>2, <1>3, <1>4, <1>6, <1>7 DEF Laid
<1> QED
  BY <1>4, <1>8 DEF ds, t

\* The first k bytes are read.
LEMMA LaidRead ==
    ASSUME NEW bs, NEW s, NEW E, NEW k
    PROVE  Laid(bs, s, E) /\ k \in 0..Len(s)
           => \E F : /\ Laid(bs, SubSeq(s, k + 1, Len(s)), F)
                     /\ \A i \in 1..Len(bs) + 1 : F[i] = E[i] - k
<1>h. SUFFICES ASSUME Laid(bs, s, E), k \in 0..Len(s)
               PROVE  \E F : /\ Laid(bs, SubSeq(s, k + 1, Len(s)), F)
                             /\ \A i \in 1..Len(bs) + 1 : F[i] = E[i] - k
  OBVIOUS
<1> DEFINE F == [i \in 1..Len(bs) + 1 |-> E[i] - k]
           t == SubSeq(s, k + 1, Len(s))
<1>1. /\ bs \in Seq(Seq(Place)) /\ s \in Seq(Place) /\ E \in [1..Len(bs) + 1 -> Int]
      /\ Len(bs) \in Nat /\ Len(s) \in Nat /\ k \in Nat /\ k <= Len(s)
  BY <1>h DEF Laid
<1>2. /\ t \in Seq(Place) /\ Len(t) = Len(s) - k
      /\ \A j \in 1..Len(t) : t[j] = s[k + j]
  BY <1>1
<1>3. F \in [1..Len(bs) + 1 -> Int] /\ \A i \in 1..Len(bs) + 1 : F[i] = E[i] - k
  BY <1>1
<1> HIDE DEF F, t
<1>4. \A i \in 1..Len(bs) : E[i + 1] = E[i] + Len(bs[i]) /\ E[i + 1] <= E[Len(bs) + 1]
  BY <1>h DEF Laid
<1>5. ASSUME NEW i \in 1..Len(bs)
      PROVE  F[i + 1] = F[i] + Len(bs[i]) /\ F[i + 1] <= F[Len(bs) + 1]
  <2>1. /\ i \in 1..Len(bs) + 1 /\ i + 1 \in 1..Len(bs) + 1 /\ Len(bs) + 1 \in 1..Len(bs) + 1
        /\ Len(bs[i]) \in Nat
    BY <1>1
  <2>2. /\ F[i] = E[i] - k /\ F[i + 1] = E[i + 1] - k
        /\ F[Len(bs) + 1] = E[Len(bs) + 1] - k
        /\ E[i] \in Int /\ E[i + 1] \in Int /\ E[Len(bs) + 1] \in Int
    BY <1>1, <1>3, <2>1
  <2>3. E[i + 1] = E[i] + Len(bs[i]) /\ E[i + 1] <= E[Len(bs) + 1]
    BY <1>4
  <2> QED
    BY <1>1, <2>1, <2>2, <2>3, SMTT(30)
<1>6. ASSUME NEW i \in 1..Len(bs), NEW j \in 1..Len(bs[i]), F[i] + j \in 1..Len(t)
      PROVE  t[F[i] + j] = bs[i][j]
  <2>0. i \in 1..Len(bs) + 1 /\ Len(bs[i]) \in Nat
    BY <1>1
  <2>4. j \in Nat
    BY <2>0
  <2>5. F[i] = E[i] - k
    BY <1>3, <2>0
  <2>6. E[i] \in Int
    BY <1>1, <2>0
  <2>1. F[i] = E[i] - k /\ E[i] \in Int /\ j \in Nat
    BY <2>4, <2>5, <2>6
  <2>2. E[i] + j \in 1..Len(s) /\ k + (F[i] + j) = E[i] + j
    <3>1. Len(t) = Len(s) - k /\ F[i] + j \in 1..Len(t)
      BY <1>2, <1>6
    <3> QED
      BY <1>1, <2>1, <3>1, SMTT(30)
  <2>3. s[E[i] + j] = bs[i][j]
    BY <1>h, <2>2 DEF Laid
  <2> QED
    BY <1>2, <1>6, <2>2, <2>3
<1>7. Laid(bs, t, F)
  BY <1>1, <1>2, <1>3, <1>5, <1>6 DEF Laid
<1> QED
  BY <1>3, <1>7 DEF t

-----------------------------------------------------------------------------
(* The inductive invariant.                                                *)

\* What is recorded of a request, of a handled one and of a response.
Requests ==
    [code : ClientCode \cup {Unknown}, user_id : [1..IdLen -> Byte], chunk : 0..MaxChunk,
     whole : BOOLEAN]

Handled ==
    [code : ClientCode \cup {Unknown}, user_id : Seq(Digit), username : Nat \cup {None},
     public_key : Nat \cup {None}, metadata : Nat \cup {None}, file_name : Nat \cup {None},
     chunk : Nat \cup {None}]

AnswerCode ==
    {"ACK", "FAILED", "REGISTRATION_SUCCESS", "REGISTRATION_FAILED", "USERNAME_TAKEN",
     "KEY_SEND_SUCCESS", "RE_REGISTRATION_SUCCESS", "RE_REGISTRATION_FAILED",
     "UPLOAD_RECEIVED", "UPLOAD_REJECTED_TOO_LARGE"}

Responses ==
    [code : AnswerCode, user_id : [1..IdLen -> Byte], key : Nat, payload_size : Nat, request : Nat]

\* The types of the variables.
Types ==
    /\ clientOpen \in BOOLEAN
    /\ mine \in [1..IdLen -> Byte]
    /\ sent \in Seq(Requests) /\ received \in Seq(Nat)
    /\ toServer \in Seq(Place) /\ toClient \in Seq(Place) /\ got \in Seq(Place)
    /\ pc \in {"reading", "handling", "closed"}
    /\ field \in 1..7
    /\ frame \in [ToSet(RequestLayout) -> 0..Len(sent)]
    /\ handled \in Seq(Handled) /\ answers \in Seq(Responses)
    /\ registered \subseteq Uuids

\* Only the last request may be incomplete, and no more than its end is missing.
Cut == Len(sent) > 0 /\ ~sent[Len(sent)].whole

OnlyLastCut ==
    /\ \A k \in 1..Len(sent) : k < Len(sent) => sent[k].whole
    /\ clientOpen => ~Cut

\* The bytes of the requests, whole, also of the one that was cut.
Written(requests) == [k \in 1..Len(requests) |-> RequestBytes(k, requests[k].chunk)]

\* The message the thread is reading or handling.
Now == Len(handled) + 1

\* The stream ends with the last request, or inside it when it was cut.
EndOf(E) ==
    IF Cut THEN E[Len(sent) + 1] > Len(toServer) ELSE E[Len(sent) + 1] = Len(toServer)

\* Before the front of the stream are the complete fields of request Now and the bytes got.
ReadingAt(E) ==
    /\ Now <= Len(sent) + 1
    /\ E[Now] + FieldStart[field] + Len(got) = 0
    /\ \A i \in 1..Len(got) : got[i] = At(Now, RequestLayout[field], i)
    /\ \A f \in 1..field - 1 : frame[RequestLayout[f]] = Now

\* The front of the stream is where request Now ends: all its fields are of one request.
HandlingAt(E) ==
    /\ Now <= Len(sent) /\ sent[Now].whole
    /\ E[Now + 1] = 0
    /\ field = 1 /\ got = << >>
    /\ \A f \in 1..6 : frame[RequestLayout[f]] = Now
    /\ sent[Now].chunk > 0 => frame["encrypted_chunk"] = Now

\* Where the thread is in the stream.
ThreadInPlace ==
    pc # "closed" =>
        \E E : /\ Laid(Written(sent), toServer, E) /\ EndOf(E)
               /\ pc = "reading" => ReadingAt(E)
               /\ pc = "handling" => HandlingAt(E)

\* What it has handled.
HandledOK == Len(handled) <= Len(sent) /\ InStep

\* What it has answered.
AnswersOK ==
    \A k \in 1..Len(answers) :
        LET a == answers[k]
        IN  /\ a.payload_size = PayloadSize(a.key)
            /\ a.request \in 1..Len(handled)
            /\ a.user_id # Zeros /\ a.code # "REGISTRATION_SUCCESS" =>
                  a.user_id = sent[a.request].user_id

\* The bytes of the responses.
Answered(responses) ==
    [k \in 1..Len(responses) |-> ResponseBytes(k, responses[k])]

\* The stream s holds the responses after the first r.
StreamOf(s, responses, r) ==
    /\ r <= Len(responses)
    /\ \E G : /\ Laid(Answered(responses), s, G)
              /\ G[r + 1] = 0
              /\ G[Len(responses) + 1] = Len(s)

\* Where the client is in the stream of responses.
ClientInPlace == ClientInStep /\ StreamOf(toClient, answers, Len(received))

\* recv_exact has no more than it asked for.
GotOK == Len(got) <= Wanted

\* The inductive invariant: the place of both readers, and what they made of what they read.
ConnectionInv ==
    /\ Types /\ OnlyLastCut /\ GotOK /\ ThreadInPlace
    /\ HandledOK /\ AnswersOK /\ ClientInPlace

-----------------------------------------------------------------------------
(* The messages written so far.                                            *)

\* The bytes of the requests, one sequence for each.
LEMMA WrittenIs ==
    ASSUME NEW requests \in Seq(Requests)
    PROVE  /\ Written(requests) \in Seq(Seq(Place))
           /\ Len(Written(requests)) = Len(requests)
           /\ \A k \in 1..Len(requests) :
                 /\ Written(requests)[k] = RequestBytes(k, requests[k].chunk)
                 /\ Len(Written(requests)[k]) = HeadLen + requests[k].chunk
                 /\ requests[k].chunk \in Nat
<1> DEFINE n == Len(requests)
<1>1. n \in Nat /\ \A k \in 1..n : requests[k].chunk \in Nat
  <2>1. \A k \in 1..n : requests[k] \in Requests
    OBVIOUS
  <2>2. \A r \in Requests : r.chunk \in Nat
    BY ConnectionAssumption DEF Requests, ConnectionAssumption
  <2> QED
    BY <2>1, <2>2
<1>2. ASSUME NEW k \in 1..n
      PROVE  /\ RequestBytes(k, requests[k].chunk) \in Seq(Place)
             /\ Len(RequestBytes(k, requests[k].chunk)) = HeadLen + requests[k].chunk
  <2>1. k \in Nat /\ requests[k].chunk \in Nat
    BY <1>1
  <2> QED
    BY <2>1, RequestPlaces
<1> HIDE DEF n
<1>3. Written(requests) = [k \in 1..n |-> RequestBytes(k, requests[k].chunk)]
  BY DEF Written, n
<1>4. Written(requests) \in [1..n -> Seq(Place)]
  BY <1>2, <1>3
<1>5. Written(requests) \in Seq(Seq(Place)) /\ Len(Written(requests)) = n
  BY <1>1, <1>4, Listed
<1>6. \A k \in 1..n : Written(requests)[k] = RequestBytes(k, requests[k].chunk)
  BY <1>3
<1> QED
  BY <1>1, <1>2, <1>5, <1>6 DEF n

\* One request more is one sequence more.
LEMMA WrittenAppend ==
    ASSUME NEW requests \in Seq(Requests), NEW r \in Requests
    PROVE  Written(Append(requests, r))
             = Append(Written(requests), RequestBytes(Len(requests) + 1, r.chunk))
<1> DEFINE n == Len(requests)
           b == RequestBytes(n + 1, r.chunk)
           rs == Append(requests, r)
<1>1. /\ n \in Nat /\ rs \in Seq(Requests) /\ Len(rs) = n + 1 /\ rs[n + 1] = r
      /\ \A k \in 1..n : rs[k] = requests[k]
  OBVIOUS
<1>2. /\ Written(requests) \in Seq(Seq(Place)) /\ Len(Written(requests)) = n
      /\ \A k \in 1..n : Written(requests)[k] = RequestBytes(k, requests[k].chunk)
  BY WrittenIs
<1> HIDE DEF n, rs
<1>3. /\ Written(rs) \in Seq(Seq(Place)) /\ Len(Written(rs)) = n + 1
      /\ \A k \in 1..n + 1 : Written(rs)[k] = RequestBytes(k, rs[k].chunk)
  BY <1>1, WrittenIs
<1>4. /\ b \in Seq(Place)
      /\ \A k \in 1..n : Written(rs)[k] = Written(requests)[k]
      /\ Written(rs)[n + 1] = b
  <2>1. n + 1 \in 1..n + 1 /\ \A k \in 1..n : k \in 1..n + 1
    BY <1>1
  <2>2. Written(rs)[n + 1] = b
    BY <1>1, <1>3, <2>1, Zenon
  <2>3. \A k \in 1..n : Written(rs)[k] = Written(requests)[k]
    BY <1>1, <1>2, <1>3, <2>1, Zenon
  <2>4. Written(rs)[n + 1] \in Seq(Place)
    BY <1>1, <1>3
  <2> QED
    BY <2>2, <2>3, <2>4
<1> HIDE DEF b
<1> DEFINE w == Written(requests)
           v == Written(rs)
<1> HIDE DEF w, v
<1>5. v = Append(w, b)
  <2>1. /\ w \in Seq(Seq(Place)) /\ v \in Seq(Seq(Place)) /\ Len(w) = n /\ Len(v) = n + 1
        /\ b \in Seq(Place) /\ \A k \in 1..n : v[k] = w[k]
        /\ v[n + 1] = b
    BY <1>2, <1>3, <1>4 DEF w, v
  <2> QED
    BY <1>1, <2>1
<1> QED
  BY <1>5 DEF w, v, b, n, rs

\* The client writes request r, or the beginning c of it.
Writes(r, c) ==
    /\ LET b == RequestBytes(Len(sent) + 1, r.chunk)
       IN  Beginning(c, b) /\ (r.whole <=> Len(c) = Len(b))
    /\ sent' = Append(sent, r) /\ toServer' = toServer \o c
    /\ clientOpen' \in BOOLEAN /\ (clientOpen' => r.whole)
    /\ UNCHANGED <<mine, received, toClient, pc, readVars, handled, answers, registered>>

\* What the client writes keeps every place.
LEMMA WritePreserves ==
    ASSUME ConnectionInv, clientOpen, NEW r \in Requests, NEW c, Writes(r, c)
    PROVE  ConnectionInv'
<1> DEFINE n == Len(sent)
           b == RequestBytes(n + 1, r.chunk)
<1>1. /\ Types /\ OnlyLastCut /\ GotOK /\ ThreadInPlace
      /\ HandledOK /\ AnswersOK /\ ClientInPlace
  BY DEF ConnectionInv
<1>2. /\ sent \in Seq(Requests) /\ n \in Nat /\ Len(sent') = n + 1 /\ sent' \in Seq(Requests)
      /\ sent'[n + 1] = r
      /\ \A k \in 1..n : sent'[k] = sent[k]
  BY <1>1 DEF Types, Writes
<1>3. /\ b \in Seq(Place) /\ Len(b) \in Nat /\ c \in Seq(Place) /\ Len(c) \in Nat
      /\ Len(c) <= Len(b) /\ \A j \in 1..Len(c) : c[j] = b[j]
      /\ r.whole <=> Len(c) = Len(b)
  <2>1. n + 1 \in Nat /\ r.chunk \in Nat
    BY <1>2, ConnectionAssumption DEF Requests, ConnectionAssumption
  <2>2. b \in Seq(Place)
    BY <2>1, RequestPlaces
  <2> QED
    BY <2>2 DEF Writes, Beginning
<1>0. /\ toServer' = toServer \o c /\ clientOpen' \in BOOLEAN /\ (clientOpen' => r.whole)
      /\ mine' = mine /\ received' = received /\ toClient' = toClient /\ pc' = pc
      /\ field' = field /\ got' = got /\ frame' = frame
      /\ handled' = handled /\ answers' = answers /\ registered' = registered
  BY DEF Writes, readVars
<1> HIDE DEF b
<1>4. Types'
  <2>1. frame' \in [ToSet(RequestLayout) -> 0..Len(sent')]
    BY <1>0, <1>1, <1>2 DEF Types
  <2>2. toServer' \in Seq(Place)
    BY <1>0, <1>1, <1>3 DEF Types
  <2> QED
    BY <1>0, <1>1, <1>2, <2>1, <2>2 DEF Types
<1>5. OnlyLastCut'
  <2>1. ASSUME NEW k \in 1..Len(sent'), k < Len(sent')
        PROVE  sent'[k].whole
    <3>1. k \in 1..n /\ sent'[k] = sent[k]
      BY <1>2, <2>1
    <3>2. sent[k].whole
      BY <1>1, <1>2, <3>1 DEF OnlyLastCut, Cut
    <3> QED
      BY <3>1, <3>2
  <2>2. clientOpen' => ~Cut'
    BY <1>0, <1>2 DEF Cut
  <2> QED
    BY <2>1, <2>2 DEF OnlyLastCut
<1>6. GotOK'
  <2>1. ChunkSize(frame["backup_metadata"])' = ChunkSize(frame["backup_metadata"])
    <3>1. frame["backup_metadata"] \in 0..n /\ frame' = frame
      BY <1>0, <1>1, Widths DEF Types
    <3> QED
      BY <1>2, <3>1 DEF ChunkSize
  <2> QED
    BY <1>0, <1>1, <2>1 DEF GotOK, Wanted, Current
<1>7. ThreadInPlace'
  <2>1. SUFFICES ASSUME pc # "closed"
                 PROVE  ThreadInPlace'
    BY <1>0 DEF ThreadInPlace
  <2>2. PICK E : /\ Laid(Written(sent), toServer, E) /\ EndOf(E)
                 /\ pc = "reading" => ReadingAt(E)
                 /\ pc = "handling" => HandlingAt(E)
    BY <1>1, <2>1 DEF ThreadInPlace
  <2>3. E[n + 1] = Len(toServer) /\ Len(Written(sent)) = n
    BY <1>1, <2>2, WrittenIs DEF EndOf, OnlyLastCut, Types
  <2>4. PICK F : /\ Laid(Append(Written(sent), b), toServer \o c, F)
                 /\ \A k \in 1..n + 1 : F[k] = E[k]
                 /\ F[n + 2] = Len(toServer) + Len(b)
    <3>1. \E F : /\ Laid(Append(Written(sent), b), toServer \o c, F)
                 /\ \A k \in 1..Len(Written(sent)) + 1 : F[k] = E[k]
                 /\ F[Len(Written(sent)) + 2] = Len(toServer) + Len(b)
      <4>1. E[Len(Written(sent)) + 1] = Len(toServer)
        BY <2>3
      <4>2. Beginning(c, b)
        BY <1>3 DEF Beginning
      <4> QED
        BY <2>2, <4>1, <4>2, LaidWrite
    <3> QED
      BY <2>3, <3>1
  <2>5. Laid(Written(sent)', toServer', F)
    <3>1. Written(sent)' = Append(Written(sent), b)
      <4>1. sent' = Append(sent, r)
        BY DEF Writes
      <4> QED
        BY <1>2, <4>1, WrittenAppend, Zenon DEF b, n
    <3> QED
      BY <1>0, <2>4, <3>1, Zenon
  <2>6. EndOf(F)'
    <3>1. Len(toServer') = Len(toServer) + Len(c) /\ Len(toServer) \in Nat
      BY <1>0, <1>1, <1>3 DEF Types
    <3>2. Cut' <=> ~r.whole
      BY <1>2 DEF Cut
    <3>3. F[Len(sent') + 1] = Len(toServer) + Len(b)
      BY <1>2, <2>4
    <3> QED
      BY <1>3, <3>1, <3>2, <3>3 DEF EndOf
  <2>7. Now' = Now /\ Now \in Nat \ {0}
    BY <1>0, <1>1 DEF Now, Types
  <2>8. ASSUME pc' = "reading"
        PROVE  ReadingAt(F)'
    <3>1. ReadingAt(E)
      BY <1>0, <2>2, <2>8
    <3>2. F[Now] = E[Now] /\ Now <= n + 1
      BY <2>4, <2>7, <3>1 DEF ReadingAt
    <3> QED
      BY <1>0, <1>2, <2>7, <3>1, <3>2 DEF ReadingAt
  <2>9. ASSUME pc' = "handling"
        PROVE  HandlingAt(F)'
    <3>1. HandlingAt(E)
      BY <1>0, <2>2, <2>9
    <3>2. Now \in 1..n
      BY <1>2, <2>7, <3>1 DEF HandlingAt
    <3>3. F[Now + 1] = E[Now + 1]
      BY <1>2, <2>4, <2>7, <3>2
    <3> QED
      BY <1>0, <1>2, <2>7, <3>1, <3>2, <3>3 DEF HandlingAt
  <2> QED
    BY <1>0, <2>5, <2>6, <2>8, <2>9 DEF ThreadInPlace
<1>8. HandledOK'
  <2>1. \A k \in 1..Len(handled) : k \in 1..n
    BY <1>1, <1>2 DEF HandledOK, Types
  <2> QED
    <3>1. \A k \in 1..Len(handled) : sent'[k] = sent[k]
      BY <1>2, <2>1
    <3>2. Len(handled) <= n /\ n <= Len(sent') /\ Len(handled) \in Nat
      BY <1>1, <1>2 DEF HandledOK, Types
    <3>3. ASSUME NEW k \in 1..Len(handled)
          PROVE  /\ k <= Len(sent') /\ sent'[k] = sent[k] /\ k <= Len(sent)
      BY <1>2, <2>1, <3>1, <3>2
    <3>4. InStep
      BY <1>1 DEF HandledOK
    <3>5. InStep'
      BY <1>0, <3>3, <3>4, Zenon DEF InStep
    <3> QED
      BY <1>0, <1>2, <3>2, <3>5 DEF HandledOK
<1>9. AnswersOK'
  <2>1. \A k \in 1..Len(handled) : k \in 1..n
    BY <1>1, <1>2 DEF HandledOK, Types
  <2> QED
    BY <1>0, <1>1, <1>2, <2>1 DEF AnswersOK
<1>10. ClientInPlace'
  BY <1>0, <1>1 DEF ClientInPlace, ClientInStep, StreamOf
<1> QED
  BY <1>4, <1>5, <1>6, <1>7, <1>8, <1>9, <1>10 DEF ConnectionInv

-----------------------------------------------------------------------------
(* The thread reads.                                                       *)

\* Every field but the first begins after some bytes.
LEMMA LaterFields ==
    /\ FieldStart \in [1..7 -> Nat] /\ HeadLen \in Nat
    /\ \A f \in 2..7 : FieldStart[f] > 0
BY Widths DEF FieldStart, HeadLen

\* The names of the fields.
LEMMA FieldNames ==
    /\ \A f \in 1..7 : RequestLayout[f] \in ToSet(RequestLayout)
    /\ \A f \in 1..7 : RequestLayout[f] = "encrypted_chunk" <=> f = 7
    /\ \A f, g \in 1..7 : RequestLayout[f] = RequestLayout[g] => f = g
    /\ RequestLayout[1] = "user_id" /\ RequestLayout[2] = "header"
    /\ RequestLayout[3] = "username" /\ RequestLayout[4] = "public_key"
    /\ RequestLayout[5] = "backup_metadata" /\ RequestLayout[6] = "file_name"
    /\ Len(RequestLayout) = 7
BY DEF RequestLayout, ToSet

\* What the thread asks for is a size, whatever it has read.
LEMMA SizeWanted ==
    ASSUME NEW f \in 1..7, NEW n \in Nat, NEW requests \in Seq(Requests), n <= Len(requests)
    PROVE  /\ RequestLayout[f] # "encrypted_chunk" => Width[RequestLayout[f]] \in Nat
           /\ n # 0 => requests[n].chunk \in Nat
<1>1. RequestLayout[f] # "encrypted_chunk" => Width[RequestLayout[f]] \in Nat
  BY FieldNames, ConnectionAssumption DEF ConnectionAssumption
<1>2. ASSUME n # 0
      PROVE  requests[n].chunk \in Nat
  <2>1. requests[n] \in Requests
    BY <1>2
  <2> QED
    BY <2>1, ConnectionAssumption DEF Requests, ConnectionAssumption
<1> QED
  BY <1>1, <1>2

\* recv_exact is asked for a number of bytes.
LEMMA WantedNat ==
    ASSUME Types
    PROVE  Wanted \in Nat
<1>1. sent \in Seq(Requests) /\ Len(sent) \in Nat /\ field \in 1..7
  BY DEF Types
<1>2. frame["backup_metadata"] \in 0..Len(sent)
  BY Widths DEF Types
<1> QED
  BY <1>1, <1>2, SizeWanted, ConnectionAssumption
     DEF Wanted, Current, ChunkSize, ConnectionAssumption

(***************************************************************************)
(* The thread asks for the field the client wrote, and for the first one   *)
(* while there is no request.                                              *)
(***************************************************************************)
LEMMA WhileReading ==
    ASSUME ConnectionInv, pc = "reading", NEW E, Laid(Written(sent), toServer, E), EndOf(E),
           ReadingAt(E)
    PROVE  /\ field # 1 \/ Len(got) > 0 \/ Len(toServer) > 0 => Now \in 1..Len(sent)
           /\ Now \in 1..Len(sent) => Wanted = FieldSize(field, sent[Now].chunk)
<1>1. /\ sent \in Seq(Requests) /\ Len(sent) \in Nat /\ Now \in Nat \ {0}
      /\ Len(toServer) \in Nat /\ Len(got) \in Nat /\ field \in 1..7
      /\ frame \in [ToSet(RequestLayout) -> 0..Len(sent)]
  BY DEF ConnectionInv, Types, Now
<1>2. /\ Now <= Len(sent) + 1 /\ E[Now] + FieldStart[field] + Len(got) = 0
      /\ \A f \in 1..field - 1 : frame[RequestLayout[f]] = Now
  BY DEF ReadingAt
<1>3. Len(Written(sent)) = Len(sent) /\ E[Len(sent) + 1] >= Len(toServer)
      /\ E[Len(sent) + 1] \in Int
  <2>1. Len(Written(sent)) = Len(sent)
    BY <1>1, WrittenIs
  <2>2. E \in [1..Len(sent) + 1 -> Int]
    BY <2>1 DEF Laid
  <2>3. E[Len(sent) + 1] \in Int
    BY <1>1, <2>2
  <2> QED
    BY <1>1, <2>1, <2>3 DEF EndOf
<1>4. ASSUME Now \notin 1..Len(sent)
      PROVE  field = 1 /\ Len(got) = 0 /\ Len(toServer) = 0
  <2>1. Now = Len(sent) + 1
    BY <1>1, <1>2, <1>4
  <2>2. FieldStart[field] \in Nat /\ (field # 1 => FieldStart[field] > 0)
    <3>1. field \in 1..7 /\ (field # 1 => field \in 2..7)
      BY <1>1
    <3>2. FieldStart \in [1..7 -> Nat] /\ \A f \in 2..7 : FieldStart[f] > 0
      BY LaterFields
    <3> QED
      BY <3>1, <3>2
  <2>3. E[Now] >= Len(toServer) /\ E[Now] \in Int
    BY <1>3, <2>1
  <2> QED
    BY <1>1, <1>2, <2>2, <2>3
<1>5. ASSUME Now \in 1..Len(sent)
      PROVE  Wanted = FieldSize(field, sent[Now].chunk)
  <2>1. CASE field # 7
    <3>1. Current # "encrypted_chunk"
      BY <1>1, <2>1, FieldNames DEF Current
    <3> QED
      BY <3>1 DEF Wanted, FieldSize, Current
  <2>2. CASE field = 7
    <3>1. frame["backup_metadata"] = Now
      BY <1>2, <2>2, FieldNames
    <3>2. Current = "encrypted_chunk"
      BY <2>2, FieldNames DEF Current
    <3> QED
      BY <1>1, <3>1, <3>2 DEF Wanted, FieldSize, Current, ChunkSize
  <2> QED
    BY <2>1, <2>2
<1> QED
  BY <1>1, <1>4, <1>5

\* Where the p-th byte of the stream is in its message.
LEMMA PlaceOf ==
    ASSUME NEW e \in Int, NEW a \in Nat, NEW g \in Nat, NEW p \in Nat, e + a + g = 0
    PROVE  e + (a + (g + p)) = p
OBVIOUS

\* However the stream is cut into reads, the bytes of a field are put together.
LEMMA RecvPreserves ==
    ASSUME ConnectionInv, Recv
    PROVE  ConnectionInv'
<1>0. PICK k \in 1..Wanted - Len(got) :
         /\ k <= Len(toServer)
         /\ got' = got \o SubSeq(toServer, 1, k)
         /\ toServer' = SubSeq(toServer, k + 1, Len(toServer))
  BY DEF Recv
<1>1. /\ pc = "reading" /\ pc' = pc /\ field' = field /\ frame' = frame
      /\ clientOpen' = clientOpen /\ mine' = mine /\ sent' = sent /\ received' = received
      /\ toClient' = toClient /\ handled' = handled /\ answers' = answers
      /\ registered' = registered
  BY DEF Recv, clientVars
<1>2. /\ Types /\ OnlyLastCut /\ GotOK /\ ThreadInPlace
      /\ HandledOK /\ AnswersOK /\ ClientInPlace
  BY DEF ConnectionInv
<1>3. /\ sent \in Seq(Requests) /\ toServer \in Seq(Place) /\ got \in Seq(Place)
      /\ Len(sent) \in Nat /\ Len(toServer) \in Nat /\ Len(got) \in Nat /\ field \in 1..7
      /\ Now \in Nat \ {0}
  BY <1>2 DEF Types, Now
<1>4. Wanted \in Nat
  BY <1>2, WantedNat
<1>5. k \in Nat \ {0} /\ k \in 0..Len(toServer) /\ Len(got) + k <= Wanted
  BY <1>0, <1>3, <1>4
<1>6. /\ got' \in Seq(Place) /\ Len(got') = Len(got) + k
      /\ \A i \in 1..Len(got) : got'[i] = got[i]
      /\ \A i \in 1..k : got'[Len(got) + i] = toServer[i]
      /\ toServer' \in Seq(Place) /\ Len(toServer') = Len(toServer) - k
  <2> DEFINE c == SubSeq(toServer, 1, k)
             d == SubSeq(toServer, k + 1, Len(toServer))
  <2>1. c \in Seq(Place) /\ Len(c) = k /\ \A i \in 1..k : c[i] = toServer[i]
    BY <1>3, <1>5
  <2>2. d \in Seq(Place) /\ Len(d) = Len(toServer) - k
    BY <1>3, <1>5
  <2>3. got' = got \o c /\ toServer' = d
    BY <1>0
  <2> HIDE DEF c, d
  <2>4. /\ got \o c \in Seq(Place) /\ Len(got \o c) = Len(got) + Len(c)
        /\ \A j \in 1..Len(got) : (got \o c)[j] = got[j]
        /\ \A j \in 1..Len(c) : (got \o c)[Len(got) + j] = c[j]
    <3> DEFINE a == got
    <3>1. a \in Seq(Place) /\ c \in Seq(Place)
      BY <1>3, <2>1
    <3> HIDE DEF a
    <3>2. /\ a \o c \in Seq(Place) /\ Len(a \o c) = Len(a) + Len(c)
          /\ \A j \in 1..Len(a) : (a \o c)[j] = a[j]
          /\ \A j \in 1..Len(c) : (a \o c)[Len(a) + j] = c[j]
      BY <3>1
    <3> QED
      BY <3>2, Zenon DEF a
  <2> QED
    BY <2>1, <2>2, <2>3, <2>4
<1>7. PICK E : Laid(Written(sent), toServer, E) /\ EndOf(E) /\ ReadingAt(E)
  BY <1>1, <1>2, Zenon DEF ThreadInPlace
<1>8. Now \in 1..Len(sent) /\ Wanted = FieldSize(field, sent[Now].chunk)
  BY <1>1, <1>3, <1>5, <1>7, WhileReading
<1>9. PICK F : /\ Laid(Written(sent), SubSeq(toServer, k + 1, Len(toServer)), F)
               /\ \A i \in 1..Len(Written(sent)) + 1 : F[i] = E[i] - k
  BY <1>5, <1>7, LaidRead
<1>10. /\ Len(Written(sent)) = Len(sent) /\ \A i \in 1..Len(sent) + 1 : F[i] = E[i] - k
       /\ E \in [1..Len(sent) + 1 -> Int]
  BY <1>3, <1>7, <1>9, WrittenIs DEF Laid
<1>19. E[Now] \in Int /\ F[Now] = E[Now] - k /\ FieldStart[field] \in Nat
       /\ E[Now] + FieldStart[field] + Len(got) = 0
  <2>1. Now \in 1..Len(sent) + 1
    BY <1>3, <1>8
  <2>2. FieldStart[field] \in Nat
    BY <1>3, LaterFields
  <2> QED
    BY <1>7, <1>10, <2>1, <2>2 DEF ReadingAt
<1>20. \A i \in 1..Len(got) : got[i] = At(Now, RequestLayout[field], i)
  BY <1>7 DEF ReadingAt
<1>11. Laid(Written(sent)', toServer', F)
  BY <1>0, <1>1, <1>9, Zenon
<1>12. EndOf(F)'
  <2>1. F[Len(sent) + 1] = E[Len(sent) + 1] - k /\ E[Len(sent) + 1] \in Int
    BY <1>3, <1>10
  <2> QED
    BY <1>1, <1>3, <1>5, <1>6, <1>7, <2>1, SMTT(30) DEF EndOf, Cut
<1>13. ASSUME NEW i \in 1..Len(got')
       PROVE  got'[i] = At(Now, RequestLayout[field], i)
  <2>1. CASE i <= Len(got)
    <3>1. i \in 1..Len(got)
      BY <1>3, <1>6, <2>1
    <3> QED
      BY <1>6, <1>20, <3>1
  <2>2. CASE i > Len(got)
    <3> DEFINE p == i - Len(got)
    <3>1. p \in 1..k /\ p \in 1..Len(toServer) /\ i = Len(got) + p /\ i \in 1..Wanted
      BY <1>3, <1>4, <1>5, <1>6, <2>2, SMTT(30)
    <3>2. got'[i] = toServer[p]
      BY <1>6, <3>1
    <3>3. E[Now] + (FieldStart[field] + i) = p
      <4>1. Len(got) \in Nat /\ p \in Nat /\ i = Len(got) + p
        BY <1>3, <3>1
      <4> HIDE DEF p
      <4>2. E[Now] + (FieldStart[field] + (Len(got) + p)) = p
        BY <1>19, <4>1, PlaceOf
      <4> QED
        BY <4>1, <4>2, Zenon
    <3>4. /\ sent[Now].chunk \in Nat
          /\ Written(sent)[Now] = RequestBytes(Now, sent[Now].chunk)
          /\ Len(Written(sent)[Now]) = HeadLen + sent[Now].chunk
      BY <1>3, <1>8, WrittenIs
    <3>5. /\ FieldStart[field] + i \in 1..HeadLen + sent[Now].chunk
          /\ RequestBytes(Now, sent[Now].chunk)[FieldStart[field] + i]
               = At(Now, RequestLayout[field], i)
      <4>1. /\ Now \in Nat /\ sent[Now].chunk \in Nat
            /\ i \in 1..FieldSize(field, sent[Now].chunk)
        BY <1>3, <1>8, <3>1, <3>4
      <4>2. \A f \in 1..7 : \A j \in 1..FieldSize(f, sent[Now].chunk) :
               /\ FieldStart[f] + j \in 1..HeadLen + sent[Now].chunk
               /\ RequestBytes(Now, sent[Now].chunk)[FieldStart[f] + j]
                    = At(Now, RequestLayout[f], j)
        BY <4>1, RequestPlaces
      <4> QED
        BY <1>3, <4>1, <4>2, Zenon
    <3> HIDE DEF p
    <3>6. toServer[E[Now] + (FieldStart[field] + i)]
            = Written(sent)[Now][FieldStart[field] + i]
      BY <1>7, <1>8, <1>10, <3>1, <3>3, <3>4, <3>5 DEF Laid
    <3> QED
      BY <3>2, <3>3, <3>4, <3>5, <3>6
  <2> QED
    BY <1>3, <1>6, <2>1, <2>2
<1>14. ReadingAt(F)'
  <2>2. F[Now] + FieldStart[field] + Len(got') = 0
    BY <1>3, <1>5, <1>6, <1>19, SMTT(30)
  <2>3. Now' = Now
    BY <1>1 DEF Now
  <2> QED
    BY <1>1, <1>7, <1>13, <2>2, <2>3 DEF ReadingAt
<1>15. ThreadInPlace'
  BY <1>1, <1>11, <1>12, <1>14 DEF ThreadInPlace
<1>16. GotOK'
  <2>1. Wanted' = Wanted
    BY <1>1 DEF Wanted, Current, ChunkSize
  <2> QED
    BY <1>5, <1>6, <2>1 DEF GotOK
<1>17. Types' /\ OnlyLastCut'
  BY <1>1, <1>2, <1>6 DEF Types, OnlyLastCut, Cut
<1>18. HandledOK' /\ AnswersOK' /\ ClientInPlace'
  BY <1>1, <1>2 DEF HandledOK, InStep, AnswersOK, ClientInPlace, ClientInStep, StreamOf
<1> QED
  BY <1>15, <1>16, <1>17, <1>18 DEF ConnectionInv

\* The bytes of a field tell which request they are of.
LEMMA OriginIs ==
    ASSUME NEW f, NEW n \in 1..Len(sent), Len(sent) \in Nat, Len(got) \in Nat, Len(got) > 0,
           got \in Seq(Place), \A i \in 1..Len(got) : got[i] = At(n, f, i)
    PROVE  Origin(f, got) = n
<1> DEFINE fits == {k \in 1..Len(sent) : got = [i \in 1..Len(got) |-> At(k, f, i)]}
<1>1. n \in fits
  <2>1. got = [i \in 1..Len(got) |-> got[i]]
    OBVIOUS
  <2>2. [i \in 1..Len(got) |-> got[i]] = [i \in 1..Len(got) |-> At(n, f, i)]
    BY Zenon
  <2> QED
    BY <2>1, <2>2, Zenon
<1>2. ASSUME NEW k \in fits
      PROVE  k = n
  <2>1. 1 \in 1..Len(got)
    OBVIOUS
  <2>2. got = [i \in 1..Len(got) |-> At(k, f, i)]
    BY Zenon
  <2>3. got[1] = At(k, f, 1)
    BY <2>1, <2>2, Zenon
  <2>4. got[1] = At(n, f, 1)
    BY <2>1, Zenon
  <2>5. At(k, f, 1).message = k /\ At(n, f, 1).message = n
    BY DEF At
  <2> QED
    BY <2>3, <2>4, <2>5, Zenon
<1>3. Origin(f, got) = IF fits = {} THEN 0 ELSE CHOOSE k \in fits : TRUE
  BY Zenon DEF Origin, At
<1> HIDE DEF fits
<1> QED
  BY <1>1, <1>2, <1>3

\* Whatever bytes a field was read from, they are of a request or of none.
LEMMA OriginRange ==
    ASSUME NEW f, NEW bytes, Len(sent) \in Nat
    PROVE  Origin(f, bytes) \in 0..Len(sent)
<1> DEFINE fits == {n \in 1..Len(sent) :
                      bytes = [i \in 1..Len(bytes) |-> [message |-> n, field |-> f, at |-> i]]}
<1>1. Origin(f, bytes) = IF fits = {} THEN 0 ELSE CHOOSE n \in fits : TRUE
  BY Zenon DEF Origin
<1>2. fits \subseteq 1..Len(sent)
  OBVIOUS
<1> HIDE DEF fits
<1>3. CASE fits = {}
  BY <1>1, <1>3
<1>4. CASE fits # {}
  <2> DEFINE c == CHOOSE n \in fits : TRUE
  <2>1. c \in fits
    BY <1>4, Zenon
  <2>2. Origin(f, bytes) = c
    BY <1>1, <1>4, Zenon
  <2> HIDE DEF c
  <2>3. c \in 1..Len(sent)
    BY <1>2, <2>1
  <2> QED
    BY <2>2, <2>3
<1> QED
  BY <1>3, <1>4

\* A field that is complete is the next one of the request, and none is skipped.
LEMMA ReadFieldPreserves ==
    ASSUME ConnectionInv, ReadField
    PROVE  ConnectionInv'
<1> DEFINE from == Origin(Current, got)
<1>1. /\ pc = "reading" /\ Len(got) >= Wanted
      /\ clientOpen' = clientOpen /\ mine' = mine /\ sent' = sent /\ received' = received
      /\ toServer' = toServer /\ toClient' = toClient /\ handled' = handled
      /\ answers' = answers /\ registered' = registered
      /\ got' = << >> /\ frame' = [frame EXCEPT ![Current] = from]
      /\ field' = IF field = 7 THEN 1 ELSE field + 1
  BY FieldNames DEF ReadField, clientVars
<1>2. \/ pc' = "closed"
      \/ pc' = IF Current = "encrypted_chunk" THEN "handling" ELSE "reading"
  BY DEF ReadField
<1>3. /\ Types /\ OnlyLastCut /\ GotOK /\ ThreadInPlace
      /\ HandledOK /\ AnswersOK /\ ClientInPlace
  BY DEF ConnectionInv
<1>4. /\ sent \in Seq(Requests) /\ toServer \in Seq(Place) /\ got \in Seq(Place)
      /\ Len(sent) \in Nat /\ Len(toServer) \in Nat /\ Len(got) \in Nat /\ field \in 1..7
      /\ Now \in Nat \ {0} /\ frame \in [ToSet(RequestLayout) -> 0..Len(sent)]
      /\ Wanted \in Nat /\ Len(got) = Wanted
  <2>1. Wanted \in Nat /\ Len(got) \in Nat
    BY <1>3, WantedNat DEF Types
  <2>2. Len(got) = Wanted
    BY <1>1, <1>3, <2>1 DEF GotOK
  <2> QED
    BY <1>3, <2>1, <2>2 DEF Types, Now
<1>5. from \in 0..Len(sent)
  BY <1>4, OriginRange
<1>6. Current \in ToSet(RequestLayout)
  BY <1>4, FieldNames DEF Current
<1> HIDE DEF from
<1>7. /\ field' \in 1..7 /\ (field # 7 => field' = field + 1)
      /\ frame' \in [ToSet(RequestLayout) -> 0..Len(sent)]
      /\ frame'[Current] = from
      /\ \A f \in ToSet(RequestLayout) : f # Current => frame'[f] = frame[f]
      /\ got' \in Seq(Place) /\ Len(got') = 0
  BY <1>1, <1>4, <1>5, <1>6
<1>8. Types' /\ OnlyLastCut'
  BY <1>1, <1>2, <1>3, <1>7 DEF Types, OnlyLastCut, Cut
<1>9. GotOK'
  <2>1. frame'["backup_metadata"] \in 0..Len(sent)
    BY <1>7, Widths
  <2>2. Wanted' \in Nat
    <3>1. RequestLayout[field'] # "encrypted_chunk" => Width[RequestLayout[field']] \in Nat
      BY <1>4, <1>7, SizeWanted
    <3>2. frame'["backup_metadata"] # 0 => sent'[frame'["backup_metadata"]].chunk \in Nat
      BY <1>1, <1>4, <2>1, SizeWanted
    <3> QED
      BY <3>1, <3>2, ConnectionAssumption DEF Wanted, Current, ChunkSize, ConnectionAssumption
  <2> QED
    BY <1>7, <2>2 DEF GotOK
<1>10. HandledOK' /\ AnswersOK' /\ ClientInPlace'
  BY <1>1, <1>3 DEF HandledOK, InStep, AnswersOK, ClientInPlace, ClientInStep, StreamOf
<1>11. ThreadInPlace'
  <2>1. SUFFICES ASSUME pc' # "closed"
                 PROVE  ThreadInPlace'
    BY DEF ThreadInPlace
  <2>2. PICK E : Laid(Written(sent), toServer, E) /\ EndOf(E) /\ ReadingAt(E)
    BY <1>1, <1>3, Zenon DEF ThreadInPlace
  <2>3. Now \in 1..Len(sent) /\ Wanted = FieldSize(field, sent[Now].chunk)
    <3>1. field = 1 => Wanted > 0
      BY Widths, FieldNames DEF Wanted, Current
    <3>2. Wanted > 0 => Len(got) > 0
      BY <1>4
    <3> QED
      BY <1>1, <1>4, <2>2, <3>1, <3>2, WhileReading
  <2>4. Len(got) = FieldSize(field, sent[Now].chunk)
    BY <1>4, <2>3
  <2>5. /\ E[Now] + FieldStart[field] + Len(got) = 0
        /\ \A i \in 1..Len(got) : got[i] = At(Now, Current, i)
        /\ \A f \in 1..field - 1 : frame[RequestLayout[f]] = Now
    BY <2>2 DEF ReadingAt, Current
  <2>6. Len(got) > 0 => from = Now
    BY <1>4, <2>3, <2>5, OriginIs DEF from
  <2>7. sent[Now].chunk \in Nat /\ Len(Written(sent)) = Len(sent)
        /\ Len(Written(sent)[Now]) = HeadLen + sent[Now].chunk
    BY <1>4, <2>3, WrittenIs
  <2>8. /\ FieldStart[7] = HeadLen /\ HeadLen \in Nat
        /\ \A f \in 1..6 : FieldStart[f + 1] = FieldStart[f] + FieldSize(f, sent[Now].chunk)
        /\ \A f \in 1..6 : FieldSize(f, sent[Now].chunk) > 0
        /\ FieldSize(7, sent[Now].chunk) = sent[Now].chunk
        /\ FieldStart \in [1..7 -> Nat]
    BY <2>7, FieldStarts
  <2>9. E[Now] \in Int /\ E[Now + 1] = E[Now] + (HeadLen + sent[Now].chunk)
        /\ E[Now + 1] \in Int
    <3>1. E \in [1..Len(sent) + 1 -> Int] /\ Now \in 1..Len(sent) + 1 /\ Now + 1 \in 1..Len(sent) + 1
      BY <1>4, <2>2, <2>3, <2>7 DEF Laid
    <3>2. E[Now + 1] = E[Now] + Len(Written(sent)[Now])
      BY <2>2, <2>3, <2>7 DEF Laid
    <3> QED
      BY <2>7, <3>1, <3>2
  <2>10. \A f \in 1..7 : f < field => frame'[RequestLayout[f]] = Now
    <3>1. SUFFICES ASSUME NEW f \in 1..7, f < field
                   PROVE  frame'[RequestLayout[f]] = Now
      OBVIOUS
    <3>2. frame[RequestLayout[f]] = Now
      BY <1>4, <2>5, <3>1
    <3>3. RequestLayout[f] \in ToSet(RequestLayout) /\ RequestLayout[f] # Current
      <4>1. field \in 1..7 /\ f # field
        BY <1>4, <3>1
      <4>2. RequestLayout[f] \in ToSet(RequestLayout)
        BY FieldNames, Zenon
      <4>3. RequestLayout[f] = RequestLayout[field] => f = field
        BY <4>1, FieldNames, Zenon
      <4> QED
        BY <4>1, <4>2, <4>3 DEF Current
    <3> QED
      BY <1>7, <3>2, <3>3
  <2>11. Laid(Written(sent)', toServer', E) /\ EndOf(E)' /\ Now' = Now
    <3>1. Written(sent)' = Written(sent)
      BY <1>1
    <3>2. EndOf(E)' /\ Now' = Now
      BY <1>1, <2>2 DEF EndOf, Cut, Now
    <3> QED
      BY <1>1, <2>2, <3>1, <3>2
  <2>12. CASE field # 7
    <3>1. pc' = "reading" /\ field \in 1..6 /\ field' = field + 1
      BY <1>2, <1>4, <1>7, <2>1, <2>12, FieldNames, SMTT(30) DEF Current
    <3>2. E[Now] + FieldStart[field'] + Len(got') = 0
      <4>1. FieldStart[field + 1] = FieldStart[field] + Len(got) /\ FieldStart[field] \in Nat
        <5>1. FieldStart[field] \in Nat /\ field \in 1..6
          BY <1>4, <2>8, <3>1
        <5>2. FieldStart[field + 1] = FieldStart[field] + FieldSize(field, sent[Now].chunk)
          BY <2>8, <5>1, Zenon
        <5> QED
          BY <2>4, <5>1, <5>2, Zenon
      <4>2. E[Now] + FieldStart[field] + Len(got) = 0 /\ E[Now] \in Int /\ Len(got) \in Nat
        BY <1>4, <2>5, <2>9
      <4>3. E[Now] + (FieldStart[field] + Len(got)) = 0
        BY <4>1, <4>2
      <4> QED
        BY <1>7, <2>9, <3>1, <4>1, <4>3
    <3>3. from = Now
      BY <2>4, <2>6, <2>8, <3>1
    <3>4. \A f \in 1..field' - 1 : frame'[RequestLayout[f]] = Now
      <4>1. SUFFICES ASSUME NEW f \in 1..field
                     PROVE  frame'[RequestLayout[f]] = Now
        BY <1>4, <3>1
      <4>2. f \in 1..7 /\ (f < field \/ f = field)
        BY <1>4
      <4>3. f = field => RequestLayout[f] = Current
        BY DEF Current
      <4> QED
        BY <1>7, <2>10, <3>3, <4>2, <4>3
    <3>5. ReadingAt(E)'
      BY <1>1, <1>7, <2>3, <2>11, <3>2, <3>4 DEF ReadingAt
    <3> QED
      BY <2>11, <3>1, <3>5 DEF ThreadInPlace
  <2>13. CASE field = 7
    <3>1. pc' = "handling" /\ field' = 1 /\ Current = "encrypted_chunk"
      BY <1>1, <1>2, <2>1, <2>13, FieldNames DEF Current
    <3>2. E[Now + 1] = 0
      <4>1. Len(got) = sent[Now].chunk /\ FieldStart[field] = HeadLen
        BY <2>4, <2>8, <2>13
      <4>2. E[Now] + HeadLen + sent[Now].chunk = 0
        BY <2>5, <4>1
      <4>3. /\ HeadLen \in Nat /\ sent[Now].chunk \in Nat /\ E[Now] \in Int
            /\ E[Now + 1] = E[Now] + (HeadLen + sent[Now].chunk)
        BY <2>7, <2>8, <2>9, Zenon
      <4> QED
        BY <4>2, <4>3
    <3>3. sent[Now].whole
      <4>1. CASE Now = Len(sent)
        BY <1>4, <2>2, <3>2, <4>1 DEF EndOf, Cut
      <4>2. CASE Now < Len(sent)
        BY <1>3, <2>3, <4>2 DEF OnlyLastCut
      <4> QED
        BY <1>4, <2>3, <4>1, <4>2
    <3>4. \A f \in 1..6 : frame'[RequestLayout[f]] = Now
      BY <2>10, <2>13
    <3>5. sent[Now].chunk > 0 => frame'["encrypted_chunk"] = Now
      BY <1>7, <2>4, <2>6, <2>8, <2>13, <3>1
    <3>6. HandlingAt(E)'
      BY <1>1, <1>4, <2>3, <2>11, <3>1, <3>2, <3>3, <3>4, <3>5 DEF HandlingAt
    <3> QED
      BY <2>11, <3>1, <3>6 DEF ThreadInPlace
  <2> QED
    BY <2>12, <2>13
<1> QED
  BY <1>8, <1>9, <1>10, <1>11 DEF ConnectionInv

-----------------------------------------------------------------------------
(* The thread handles a request.                                           *)

\* The thread has what it needs of the request it handles.
LEMMA WhileHandling ==
    ASSUME ConnectionInv, pc = "handling"
    PROVE  /\ Now \in 1..Len(sent) /\ sent[Now] \in Requests /\ sent[Now].whole
           /\ \A f \in ToSet(RequestLayout) : f # "encrypted_chunk" => frame[f] = Now
           /\ sent[Now].chunk > 0 => frame["encrypted_chunk"] = Now
           /\ frame["encrypted_chunk"] \in Nat
           /\ ChunkSize(frame["backup_metadata"]) = sent[Now].chunk
           /\ RequestCodes(frame["header"]) = {sent[Now].code}
           /\ sent[Now].code \in ClientCode \cup {Unknown}
           /\ \E E : Laid(Written(sent), toServer, E) /\ EndOf(E) /\ HandlingAt(E)
<1>1. PICK E : Laid(Written(sent), toServer, E) /\ EndOf(E) /\ HandlingAt(E)
  BY DEF ConnectionInv, ThreadInPlace
<1>2. /\ Now <= Len(sent) /\ sent[Now].whole
      /\ \A f \in 1..6 : frame[RequestLayout[f]] = Now
      /\ sent[Now].chunk > 0 => frame["encrypted_chunk"] = Now
  BY <1>1 DEF HandlingAt
<1>3. /\ sent \in Seq(Requests) /\ Len(sent) \in Nat /\ Now \in Nat \ {0}
      /\ frame \in [ToSet(RequestLayout) -> 0..Len(sent)]
  BY DEF ConnectionInv, Types, Now
<1>4. Now \in 1..Len(sent) /\ sent[Now] \in Requests
  <2>1. Now \in 1..Len(sent)
    BY <1>2, <1>3
  <2> QED
    BY <1>3, <2>1
<1>5. \A f \in ToSet(RequestLayout) : f # "encrypted_chunk" => frame[f] = Now
  <2>1. ToSet(RequestLayout) = {RequestLayout[f] : f \in 1..7}
    BY DEF RequestLayout, ToSet
  <2>2. SUFFICES ASSUME NEW f \in 1..7, RequestLayout[f] # "encrypted_chunk"
                 PROVE  frame[RequestLayout[f]] = Now
    BY <2>1
  <2>3. f \in 1..6
    BY <2>2, FieldNames
  <2> QED
    BY <1>2, <2>3
<1>6. frame["backup_metadata"] = Now /\ frame["header"] = Now
  BY <1>5, Widths
<1>7. frame["encrypted_chunk"] \in Nat
  BY <1>3, Widths
<1>8. /\ ChunkSize(frame["backup_metadata"]) = sent[Now].chunk
      /\ RequestCodes(frame["header"]) = {sent[Now].code}
  BY <1>3, <1>6 DEF ChunkSize, RequestCodes
<1>9. sent[Now].code \in ClientCode \cup {Unknown}
  BY <1>4 DEF Requests
<1> QED
  BY <1>1, <1>2, <1>4, <1>5, <1>7, <1>8, <1>9

\* An id that is read is a string of digits.
LEMMA ReadIdType ==
    ASSUME NEW n \in Nat, NEW bytes \in [1..n -> Byte]
    PROVE  ReadUserId(bytes) \in Seq(Digit)
<1> DEFINE ds == Hex(bytes)
           last == LastNonZero(ds)
<1>1. ds \in [1..2 * n -> Digit] /\ 2 * n \in Nat
  BY FromHexOfHex
<1> HIDE DEF ds
<1>2. last \in 0..2 * n
  BY <1>1, LastNonZeroIs
<1>3. last \in Nat
  BY <1>1, <1>2
<1>4. RStrip(ds) \in [1..last -> Digit]
  BY <1>1, RStripIs
<1> HIDE DEF last
<1>5. RStrip(ds) \in Seq(Digit)
  BY <1>3, <1>4
<1> QED
  BY <1>5 DEF ReadUserId, ds

\* deserialize_request returns the request the client wrote.
LEMMA DecodedIs ==
    ASSUME ConnectionInv, pc = "handling", NEW code, code = sent[Now].code
    PROVE  /\ Decoded(code) \in Handled
           /\ Decoded(code).code = code
           /\ Decoded(code).user_id = ReadUserId(sent[Now].user_id)
           /\ {Decoded(code).username, Decoded(code).public_key, Decoded(code).metadata,
               Decoded(code).file_name, Decoded(code).chunk} \subseteq {Now, None}
<1>1. /\ Now \in 1..Len(sent) /\ sent[Now] \in Requests
      /\ \A f \in ToSet(RequestLayout) : f # "encrypted_chunk" => frame[f] = Now
      /\ sent[Now].chunk > 0 => frame["encrypted_chunk"] = Now
      /\ ChunkSize(frame["backup_metadata"]) = sent[Now].chunk
      /\ code \in ClientCode \cup {Unknown}
  BY WhileHandling
<1>2. /\ frame["user_id"] = Now /\ frame["username"] = Now /\ frame["public_key"] = Now
      /\ frame["backup_metadata"] = Now /\ frame["file_name"] = Now
  BY <1>1, Widths
<1>3. Now \in Nat /\ Now # 0
  BY DEF Now, ConnectionInv, Types
<1>4. ReadUserId(sent[Now].user_id) \in Seq(Digit)
  <2>1. IdLen \in Nat
    BY Widths DEF IdLen
  <2>2. sent[Now].user_id \in [1..IdLen -> Byte]
    BY <1>1 DEF Requests
  <2> QED
    BY <2>1, <2>2, ReadIdType
<1> DEFINE size == ChunkSize(frame["backup_metadata"])
           chunk == IF code = "CREATE_BACKUP" /\ size > 0 THEN frame["encrypted_chunk"] ELSE None
           Only(codes) == IF code \in codes THEN Now ELSE None
<1>5. chunk \in {Now, None}
  BY <1>1
<1>6. Decoded(code) =
        [code |-> code, user_id |-> ReadUserId(sent[Now].user_id),
         username |-> Only(ClientCode \ {"CREATE_BACKUP"}), public_key |-> Only({"PUBLIC_KEY_SEND"}),
         metadata |-> Only({"CREATE_BACKUP"}), file_name |-> Only(FileNameCodes),
         chunk |-> chunk]
  BY <1>2, <1>3 DEF Decoded, TextCodes
<1>7. \A codes : Only(codes) \in {Now, None}
  OBVIOUS
<1> HIDE DEF chunk, Only
<1> QED
  BY <1>1, <1>3, <1>4, <1>5, <1>6, <1>7 DEF Handled

\* When request number Now is handled, all it handled is what the client wrote.
LEMMA HandledGrows ==
    ASSUME ConnectionInv, pc = "handling", NEW code, code = sent[Now].code,
           handled' = Append(handled, Decoded(code)), sent' = sent
    PROVE  HandledOK' /\ handled' \in Seq(Handled) /\ Len(handled') = Now
<1> DEFINE h == Decoded(code)
           n == Len(handled)
<1>1. handled \in Seq(Handled) /\ n \in Nat /\ Now = n + 1
  BY DEF ConnectionInv, Types, Now
<1>2. /\ h \in Handled /\ h.code = code
      /\ h.user_id = ReadUserId(sent[Now].user_id)
      /\ {h.username, h.public_key, h.metadata, h.file_name, h.chunk} \subseteq {Now, None}
  BY DecodedIs
<1> HIDE DEF h
<1>3. /\ handled' \in Seq(Handled) /\ Len(handled') = n + 1
      /\ handled'[n + 1] = h
      /\ \A k \in 1..n : handled'[k] = handled[k]
  <2>1. handled' = Append(handled, h)
    BY DEF h
  <2> QED
    BY <1>1, <1>2, <2>1
<1>4. Now \in 1..Len(sent) /\ sent[Now].whole
  BY WhileHandling
<1>5. HandledOK'
  <2>1. SUFFICES ASSUME NEW k \in 1..Len(handled')
                 PROVE  LET g == handled'[k]
                        IN  /\ k <= Len(sent) /\ sent[k].whole
                            /\ g.code = sent[k].code
                            /\ {g.username, g.public_key, g.metadata, g.file_name, g.chunk}
                                 \subseteq {k, None}
                            /\ g.user_id = ReadUserId(sent[k].user_id)
    <3>1. Len(handled') <= Len(sent)
      BY <1>1, <1>3, <1>4
    <3> QED
      BY <2>1, <3>1 DEF HandledOK, InStep
  <2>2. CASE k \in 1..n
    <3>1. HandledOK
      BY DEF ConnectionInv
    <3> QED
      BY <1>3, <2>2, <3>1 DEF HandledOK, InStep
  <2>3. CASE k = Now
    BY <1>1, <1>2, <1>3, <1>4, <2>3
  <2> QED
    BY <1>1, <1>3, <2>2, <2>3
<1> QED
  BY <1>1, <1>3, <1>5

\* The connection ends: after a read that failed, a disconnection, or a send that failed.
LEMMA ClosePreserves ==
    ASSUME ConnectionInv, pc' = "closed",
           UNCHANGED <<clientVars, toServer, toClient, readVars, answers, registered>>,
           \/ handled' = handled
           \/ /\ pc = "handling"
              /\ \E code \in RequestCodes(frame["header"]) :
                    handled' = Append(handled, Decoded(code))
    PROVE  ConnectionInv'
<1>1. /\ clientOpen' = clientOpen /\ mine' = mine /\ sent' = sent /\ received' = received
      /\ toServer' = toServer /\ toClient' = toClient /\ answers' = answers
      /\ registered' = registered /\ field' = field /\ got' = got /\ frame' = frame
  BY DEF clientVars, readVars
<1>2. /\ Types /\ OnlyLastCut /\ GotOK /\ HandledOK /\ AnswersOK /\ ClientInPlace
  BY DEF ConnectionInv
<1>3. /\ HandledOK' /\ handled' \in Seq(Handled) /\ Len(handled) <= Len(handled')
      /\ Len(handled) \in Nat /\ Len(handled') \in Nat
  <2>1. CASE handled' = handled
    <3>1. HandledOK'
      BY <1>1, <1>2, <2>1, Zenon DEF HandledOK, InStep
    <3> QED
      BY <1>2, <2>1, <3>1 DEF Types
  <2>2. CASE /\ pc = "handling"
             /\ \E code \in RequestCodes(frame["header"]) :
                   handled' = Append(handled, Decoded(code))
    <3>1. handled' = Append(handled, Decoded(sent[Now].code))
      BY <2>2, WhileHandling
    <3>2. HandledOK' /\ handled' \in Seq(Handled) /\ Len(handled') = Now
      BY <1>1, <2>2, <3>1, HandledGrows
    <3> QED
      BY <1>2, <3>2 DEF Now, Types
  <2> QED
    BY <2>1, <2>2
<1>4. Types' /\ OnlyLastCut' /\ ThreadInPlace'
  BY <1>1, <1>2, <1>3 DEF Types, OnlyLastCut, Cut, ThreadInPlace
<1>5. GotOK'
  BY <1>1, <1>2 DEF GotOK, Wanted, Current, ChunkSize
<1>6. AnswersOK'
  BY <1>1, <1>2, <1>3 DEF AnswersOK
<1>7. ClientInPlace'
  BY <1>1, <1>2 DEF ClientInPlace, ClientInStep, StreamOf
<1> QED
  BY <1>3, <1>4, <1>5, <1>6, <1>7 DEF ConnectionInv

-----------------------------------------------------------------------------
(* The thread answers.                                                     *)

\* A response to the request that is handled now.
Good(a) ==
    /\ a \in Responses
    /\ a.payload_size = PayloadSize(a.key)
    /\ a.request = Now
    /\ a.user_id # Zeros /\ a.code # "REGISTRATION_SUCCESS" => a.user_id = sent[Now].user_id

\* The sizes in a response are numbers.
LEMMA SizesOfResponses ==
    /\ IdLen \in Nat /\ BasePayloadSize \in Nat
    /\ \A key \in Nat : PayloadSize(key) \in Nat
    /\ Zeros \in [1..IdLen -> Byte]
<1>1. IdLen \in Nat /\ BasePayloadSize \in Nat
  BY Widths DEF IdLen, BasePayloadSize
<1>2. \A key \in Nat : PayloadSize(key) \in Nat
  BY <1>1 DEF PayloadSize
<1>3. Zeros = [i \in 1..IdLen |-> 0]
  BY <1>1 DEF Zeros, PadBytes
<1>4. Zeros \in [1..IdLen -> Byte]
  BY <1>3 DEF Byte
<1> QED
  BY <1>1, <1>2, <1>4

\* build_response sets payload_size and the id of the response to what they have to be.
LEMMA AnswerIsGood ==
    ASSUME Len(handled) \in Nat, NEW code \in AnswerCode, NEW id \in [1..IdLen -> Byte],
           NEW key \in Nat,
           id # Zeros /\ code # "REGISTRATION_SUCCESS" => id = sent[Now].user_id
    PROVE  Good([code |-> code, user_id |-> id, key |-> key,
                 payload_size |-> PayloadSize(key), request |-> Now])
BY SizesOfResponses, SMTT(30) DEF Good, Responses, Now

\* A response without an id is good.
LEMMA PlainIsGood ==
    ASSUME Len(handled) \in Nat, NEW code \in AnswerCode
    PROVE  Good(Plain(code))
BY SizesOfResponses, AnswerIsGood DEF Plain, Now

\* So is one with the id of the request, or the failure sent when the id is not serialized.
LEMMA ForClientIsGood ==
    ASSUME ConnectionInv, pc = "handling", NEW code \in AnswerCode, NEW key \in Nat
    PROVE  Good(ForClient(code, ReadUserId(sent[Now].user_id), key))
<1> DEFINE id == ReadUserId(sent[Now].user_id)
<1>1. Len(handled) \in Nat
  BY DEF ConnectionInv, Types
<1>2. sent[Now].user_id \in [1..IdLen -> Byte]
  BY WhileHandling DEF Requests
<1>3. CASE CanSerialize(id)
  <2>1. SerializeUserId(id, IdLen) = sent[Now].user_id
    BY <1>2, <1>3, SizesOfResponses, IdIsEchoed
  <2> HIDE DEF id
  <2>2. ForClient(code, id, key) =
          [code |-> code, user_id |-> sent[Now].user_id, key |-> key,
           payload_size |-> PayloadSize(key), request |-> Now]
    BY <1>3, <2>1 DEF ForClient, Now
  <2>3. Good([code |-> code, user_id |-> sent[Now].user_id, key |-> key,
              payload_size |-> PayloadSize(key), request |-> Now])
    BY <1>1, <1>2, AnswerIsGood
  <2> QED
    BY <2>2, <2>3, Zenon DEF id
<1>4. CASE ~CanSerialize(id)
  <2>1. ForClient(code, id, key) = Plain("FAILED")
    BY <1>4 DEF ForClient
  <2>2. "FAILED" \in AnswerCode
    BY DEF AnswerCode
  <2>3. Good(Plain("FAILED"))
    BY <1>1, <2>2, PlainIsGood
  <2> QED
    BY <2>1, <2>3, Zenon
<1> QED
  BY <1>3, <1>4

\* So is the one that carries a new id.
LEMMA NewIdIsGood ==
    ASSUME Len(handled) \in Nat, NEW u \in Uuids
    PROVE  Good(ForClient("REGISTRATION_SUCCESS", u, 0))
<1>1. SerializeUserId(u, IdLen) \in [1..IdLen -> Byte]
  <2>1. u \in [1..2 * IdLen -> Digit] /\ IdLen \in Nat
    BY SizesOfResponses, ConnectionAssumption DEF ConnectionAssumption
  <2>2. FromHex(u) \in [1..IdLen -> Byte]
    BY <2>1, HexOfFromHex
  <2> DEFINE b == FromHex(u)
  <2>3. Len(b) = IdLen /\ \A i \in 1..IdLen : b[i] \in Byte
    BY <2>1, <2>2
  <2> HIDE DEF b
  <2>4. PadBytes(b, IdLen) \in [1..IdLen -> Byte]
    BY <2>1, <2>3 DEF PadBytes, Byte
  <2> QED
    BY <2>4 DEF SerializeUserId, b
<1>2. CASE CanSerialize(u)
  <2>1. ForClient("REGISTRATION_SUCCESS", u, 0) =
          [code |-> "REGISTRATION_SUCCESS", user_id |-> SerializeUserId(u, IdLen), key |-> 0,
           payload_size |-> PayloadSize(0), request |-> Now]
    BY <1>2 DEF ForClient, Now
  <2> DEFINE b == SerializeUserId(u, IdLen)
  <2>3. b \in [1..IdLen -> Byte] /\ 0 \in Nat /\ "REGISTRATION_SUCCESS" \in AnswerCode
    BY <1>1 DEF AnswerCode
  <2> HIDE DEF b
  <2>2. Good([code |-> "REGISTRATION_SUCCESS", user_id |-> b, key |-> 0,
              payload_size |-> PayloadSize(0), request |-> Now])
    BY <2>3, AnswerIsGood
  <2> QED
    BY <2>1, <2>2, Zenon DEF b
<1>3. CASE ~CanSerialize(u)
  <2>1. ForClient("REGISTRATION_SUCCESS", u, 0) = Plain("FAILED")
    BY <1>3 DEF ForClient
  <2>2. "FAILED" \in AnswerCode
    BY DEF AnswerCode
  <2>3. Good(Plain("FAILED"))
    BY <2>2, PlainIsGood
  <2> QED
    BY <2>1, <2>3, Zenon
<1> QED
  BY <1>2, <1>3

\* A handler sends no response, one or two, each under the id it was asked with.
Few(responses) ==
    \/ responses = << >>
    \/ \E a : Good(a) /\ responses = <<a>>
    \/ \E a, b : Good(a) /\ Good(b) /\ responses = <<a, b>>

\* Whichever handler runs, what it sends is good.
LEMMA AnswersAreGood ==
    ASSUME ConnectionInv, pc = "handling",
           NEW code \in (ClientCode \cup {Unknown}) \ {Unknown, "DISCONNECT"},
           NEW responses \in Answers(code, ReadUserId(sent[Now].user_id))
    PROVE  Few(responses)
<1> DEFINE id == ReadUserId(sent[Now].user_id)
           acks == IF CanSerialize(id)
                   THEN {<<ForClient("ACK", id, 0)>>,
                         <<ForClient("ACK", id, 0), Plain("FAILED")>>}
                   ELSE {}
<1>1. Len(handled) \in Nat /\ KeyLen \in Nat
  BY ConnectionAssumption DEF ConnectionInv, Types, ConnectionAssumption
<1>2. \A c \in AnswerCode : Good(Plain(c))
  BY <1>1, PlainIsGood
<1>3. \A c \in AnswerCode : \A key \in Nat : Good(ForClient(c, id, key))
  BY ForClientIsGood
<1>4. \A u \in Uuids : Good(ForClient("REGISTRATION_SUCCESS", u, 0))
  BY <1>1, NewIdIsGood
<1> HIDE DEF id
<1>6. \A c \in AnswerCode : Few(<<Plain(c)>>)
  BY <1>2, Zenon DEF Few
<1>7. Few(<< >>)
  BY DEF Few
<1>8. \A c \in AnswerCode : \A key \in Nat : Few(<<ForClient(c, id, key)>>)
  BY <1>3, Zenon DEF Few
<1>9. \A u \in Uuids : Few(<<ForClient("REGISTRATION_SUCCESS", u, 0)>>)
  BY <1>4, Zenon DEF Few
<1>18. 0 \in Nat
  OBVIOUS
<1>5. \A r \in acks : Few(r)
  <2>1. "ACK" \in AnswerCode /\ "FAILED" \in AnswerCode
    BY DEF AnswerCode
  <2>2. Few(<<ForClient("ACK", id, 0), Plain("FAILED")>>)
    BY <1>2, <1>3, <1>18, <2>1, Zenon DEF Few
  <2>3. Few(<<ForClient("ACK", id, 0)>>)
    BY <1>8, <1>18, <2>1, Zenon
  <2>4. acks \subseteq {<<ForClient("ACK", id, 0)>>, <<ForClient("ACK", id, 0), Plain("FAILED")>>}
    BY Zenon
  <2> HIDE DEF acks
  <2> QED
    BY <2>2, <2>3, <2>4, Zenon
<1>10. responses \in Answers(code, id)
  BY DEF id
<1> HIDE DEF acks
<1>11. code \in {"REGISTRATION", "PUBLIC_KEY_SEND", "RE_REGISTRATION", "CREATE_BACKUP",
                 "CRC_SUCCESS", "CRC_FAILURE", "CRC_ERROR"}
  BY DEF ClientCode
<1>19. /\ Few(<<Plain("FAILED")>>) /\ Few(<<Plain("REGISTRATION_FAILED")>>)
       /\ Few(<<Plain("USERNAME_TAKEN")>>) /\ Few(<<Plain("RE_REGISTRATION_FAILED")>>)
       /\ Few(<<Plain("UPLOAD_REJECTED_TOO_LARGE")>>)
       /\ Few(<<ForClient("KEY_SEND_SUCCESS", id, KeyLen)>>)
       /\ Few(<<ForClient("RE_REGISTRATION_SUCCESS", id, KeyLen)>>)
       /\ Few(<<ForClient("UPLOAD_RECEIVED", id, 0)>>)
  BY <1>1, <1>6, <1>8, <1>18 DEF AnswerCode
<1>12. CASE code = "REGISTRATION"
  <2>1. Answers("REGISTRATION", id) =
          {<<Plain("FAILED")>>} \cup
             {<<Plain("REGISTRATION_FAILED")>>, <<Plain("USERNAME_TAKEN")>>}
               \cup {<<ForClient("REGISTRATION_SUCCESS", u, 0)>> : u \in Uuids \ registered}
    BY DEF Answers
  <2> QED
    BY <1>9, <1>10, <1>12, <1>19, <2>1, Zenon
<1>13. CASE code = "PUBLIC_KEY_SEND"
  <2>1. Answers("PUBLIC_KEY_SEND", id) =
          {<<Plain("FAILED")>>} \cup
             ({<<Plain("REGISTRATION_FAILED")>>} \cup
                IF id \in registered THEN {<<ForClient("KEY_SEND_SUCCESS", id, KeyLen)>>} ELSE {})
    BY DEF Answers
  <2> QED
    BY <1>10, <1>13, <1>19, <2>1, Zenon
<1>14. CASE code = "RE_REGISTRATION"
  <2>1. Answers("RE_REGISTRATION", id) =
          {<<Plain("FAILED")>>} \cup
             ({<<Plain("RE_REGISTRATION_FAILED")>>} \cup
                IF id \in registered
                THEN {<<ForClient("RE_REGISTRATION_SUCCESS", id, KeyLen)>>} ELSE {})
    BY DEF Answers
  <2> QED
    BY <1>10, <1>14, <1>19, <2>1, Zenon
<1>15. CASE code = "CREATE_BACKUP"
  <2>1. Answers("CREATE_BACKUP", id) =
          {<<Plain("FAILED")>>} \cup
             ({<< >>, <<Plain("UPLOAD_REJECTED_TOO_LARGE")>>} \cup
                IF id \in registered THEN {<<ForClient("UPLOAD_RECEIVED", id, 0)>>} ELSE {})
    BY DEF Answers
  <2> QED
    BY <1>7, <1>10, <1>15, <1>19, <2>1, Zenon
<1>16. CASE code \in {"CRC_SUCCESS", "CRC_FAILURE"}
  <2>1. Answers(code, id) = {<<Plain("FAILED")>>} \cup acks
    BY <1>16 DEF Answers, acks
  <2> QED
    BY <1>5, <1>10, <1>19, <2>1, Zenon
<1>17. CASE code = "CRC_ERROR"
  <2>1. Answers("CRC_ERROR", id) = {<<Plain("FAILED")>>} \cup {<< >>}
    BY DEF Answers
  <2> QED
    BY <1>7, <1>10, <1>17, <1>19, <2>1, Zenon
<1> QED
  BY <1>11, <1>12, <1>13, <1>14, <1>15, <1>16, <1>17

\* The bytes of the responses, one sequence for each.
LEMMA AnsweredIs ==
    ASSUME NEW responses \in Seq(Responses)
    PROVE  /\ Answered(responses) \in Seq(Seq(Place))
           /\ Len(Answered(responses)) = Len(responses)
           /\ \A k \in 1..Len(responses) :
                 /\ Answered(responses)[k] = ResponseBytes(k, responses[k])
                 /\ Len(Answered(responses)[k]) = ResponseLen(responses[k].key)
                 /\ responses[k].key \in Nat
<1> DEFINE n == Len(responses)
<1>1. n \in Nat /\ \A k \in 1..n : responses[k].key \in Nat
  <2>1. \A k \in 1..n : responses[k] \in Responses
    OBVIOUS
  <2>2. \A r \in Responses : r.key \in Nat
    BY DEF Responses
  <2> QED
    BY <2>1, <2>2
<1>2. ASSUME NEW k \in 1..n
      PROVE  /\ ResponseBytes(k, responses[k]) \in Seq(Place)
             /\ Len(ResponseBytes(k, responses[k])) = ResponseLen(responses[k].key)
  <2>1. k \in Nat /\ responses[k].key \in Nat
    BY <1>1
  <2> QED
    BY <2>1, ResponsePlaces
<1> HIDE DEF n
<1>3. Answered(responses) = [k \in 1..n |-> ResponseBytes(k, responses[k])]
  BY DEF Answered, n
<1>4. Answered(responses) \in [1..n -> Seq(Place)]
  BY <1>2, <1>3
<1>5. Answered(responses) \in Seq(Seq(Place)) /\ Len(Answered(responses)) = n
  BY <1>1, <1>4, Listed
<1>6. \A k \in 1..n : Answered(responses)[k] = ResponseBytes(k, responses[k])
  BY <1>3
<1> QED
  BY <1>1, <1>2, <1>5, <1>6 DEF n

\* One response more is one sequence more.
LEMMA AnsweredAppend ==
    ASSUME NEW responses \in Seq(Responses), NEW a \in Responses
    PROVE  Answered(Append(responses, a))
             = Append(Answered(responses), ResponseBytes(Len(responses) + 1, a))
<1> DEFINE n == Len(responses)
           b == ResponseBytes(n + 1, a)
           rs == Append(responses, a)
<1>1. /\ n \in Nat /\ rs \in Seq(Responses) /\ Len(rs) = n + 1 /\ rs[n + 1] = a
      /\ \A k \in 1..n : rs[k] = responses[k]
  OBVIOUS
<1>2. /\ Answered(responses) \in Seq(Seq(Place)) /\ Len(Answered(responses)) = n
      /\ \A k \in 1..n : Answered(responses)[k] = ResponseBytes(k, responses[k])
  BY AnsweredIs
<1> HIDE DEF n, rs
<1>3. /\ Answered(rs) \in Seq(Seq(Place)) /\ Len(Answered(rs)) = n + 1
      /\ \A k \in 1..n + 1 : Answered(rs)[k] = ResponseBytes(k, rs[k])
  BY <1>1, AnsweredIs
<1>4. /\ b \in Seq(Place)
      /\ \A k \in 1..n : Answered(rs)[k] = Answered(responses)[k]
      /\ Answered(rs)[n + 1] = b
  <2>1. n + 1 \in 1..n + 1 /\ \A k \in 1..n : k \in 1..n + 1
    BY <1>1
  <2>2. Answered(rs)[n + 1] = b
    BY <1>1, <1>3, <2>1, Zenon
  <2>3. \A k \in 1..n : Answered(rs)[k] = Answered(responses)[k]
    BY <1>1, <1>2, <1>3, <2>1, Zenon
  <2>4. Answered(rs)[n + 1] \in Seq(Place)
    BY <1>1, <1>3
  <2> QED
    BY <2>2, <2>3, <2>4
<1> HIDE DEF b
<1> DEFINE w == Answered(responses)
           v == Answered(rs)
<1> HIDE DEF w, v
<1>5. v = Append(w, b)
  <2>1. /\ w \in Seq(Seq(Place)) /\ v \in Seq(Seq(Place)) /\ Len(w) = n /\ Len(v) = n + 1
        /\ b \in Seq(Place) /\ \A k \in 1..n : v[k] = w[k]
        /\ v[n + 1] = b
    BY <1>2, <1>3, <1>4 DEF w, v
  <2> QED
    BY <1>1, <2>1
<1> QED
  BY <1>5 DEF w, v, b, n, rs

\* Sending a response keeps the client's place.
LEMMA StreamGrows ==
    ASSUME NEW s, NEW responses \in Seq(Responses), NEW r \in Nat, NEW a \in Responses
    PROVE  StreamOf(s, responses, r)
           => StreamOf(s \o ResponseBytes(Len(responses) + 1, a), Append(responses, a), r)
<1>h. SUFFICES ASSUME StreamOf(s, responses, r)
               PROVE  StreamOf(s \o ResponseBytes(Len(responses) + 1, a),
                               Append(responses, a), r)
  OBVIOUS
<1> DEFINE n == Len(responses)
           b == ResponseBytes(n + 1, a)
           rs == Append(responses, a)
<1>1. r <= n /\ n \in Nat /\ Len(rs) = n + 1
  BY <1>h DEF StreamOf
<1>2. PICK G : Laid(Answered(responses), s, G) /\ G[r + 1] = 0 /\ G[n + 1] = Len(s)
  BY <1>h DEF StreamOf
<1>3. b \in Seq(Place) /\ Len(b) \in Nat
  <2>1. a.key \in Nat /\ n + 1 \in Nat
    BY <1>1 DEF Responses
  <2>2. b \in Seq(Place)
    BY <2>1, ResponsePlaces
  <2> HIDE DEF b
  <2> QED
    BY <2>2
<1>4. Answered(rs) = Append(Answered(responses), b)
  BY AnsweredAppend
<1>5. Len(Answered(responses)) = n
  BY AnsweredIs
<1>6. s \in Seq(Place) /\ Len(s) \in Nat
  BY <1>2 DEF Laid
<1> HIDE DEF n, b, rs
<1>7. PICK F : /\ Laid(Append(Answered(responses), b), s \o b, F)
               /\ \A k \in 1..Len(Answered(responses)) + 1 : F[k] = G[k]
               /\ F[Len(Answered(responses)) + 2] = Len(s) + Len(b)
  <2>1. Beginning(b, b)
    BY <1>3 DEF Beginning
  <2>2. G[Len(Answered(responses)) + 1] = Len(s)
    BY <1>2, <1>5
  <2> QED
    BY <1>2, <2>1, <2>2, LaidWrite
<1>8. F[r + 1] = 0 /\ F[n + 2] = Len(s) + Len(b)
  BY <1>1, <1>2, <1>5, <1>7
<1>9. Len(s \o b) = Len(s) + Len(b)
  BY <1>3, <1>6
<1>10. Laid(Answered(rs), s \o b, F) /\ r <= Len(rs) /\ F[r + 1] = 0
       /\ F[Len(rs) + 1] = Len(s \o b)
  <2>1. Len(rs) + 1 = n + 2 /\ r <= Len(rs)
    BY <1>1
  <2> QED
    BY <1>4, <1>7, <1>8, <1>9, <2>1, Zenon
<1>11. StreamOf(s \o b, rs, r)
  BY <1>10, Zenon DEF StreamOf
<1> QED
  BY <1>11 DEF b, n, rs

\* So does sending what a handler answers.
LEMMA AnswersSent ==
    ASSUME ConnectionInv, NEW responses, Few(responses)
    PROVE  /\ answers \o responses \in Seq(Responses)
           /\ toClient \o ResponsesBytes(responses) \in Seq(Place)
           /\ StreamOf(toClient \o ResponsesBytes(responses), answers \o responses,
                       Len(received))
           /\ Len(answers \o responses) >= Len(answers)
           /\ \A k \in 1..Len(answers \o responses) :
                 \/ k <= Len(answers) /\ (answers \o responses)[k] = answers[k]
                 \/ Good((answers \o responses)[k])
<1> DEFINE n == Len(answers)
           r == Len(received)
           bs == [k \in 1..Len(responses) |-> ResponseBytes(n + k, responses[k])]
<1>1. /\ answers \in Seq(Responses) /\ n \in Nat /\ r \in Nat /\ toClient \in Seq(Place)
      /\ StreamOf(toClient, answers, r)
  BY DEF ConnectionInv, Types, ClientInPlace
<1>2. ResponsesBytes(responses) = FlattenSeq(bs) /\ \A s, q : StreamOf(s, q, r) => s \in Seq(Place)
  BY Zenon DEF ResponsesBytes, StreamOf, Laid
<1>3. CASE responses = << >>
  <2>1. bs = << >> /\ Len(bs) = 0
    BY <1>3
  <2>2. FlattenSeq(bs) = << >>
    BY <2>1, Zenon DEF FlattenSeq
  <2>3. toClient \o << >> = toClient /\ answers \o << >> = answers
    BY <1>1
  <2> DEFINE q == answers \o responses
             t == toClient \o ResponsesBytes(responses)
  <2>4. q = answers /\ t = toClient
    BY <1>2, <1>3, <2>2, <2>3, Zenon
  <2> HIDE DEF q, t
  <2> QED
    <3>1. q \in Seq(Responses) /\ t \in Seq(Place) /\ StreamOf(t, q, r)
      BY <1>1, <2>4, Zenon
    <3>2. Len(q) >= n /\ \A k \in 1..Len(q) : k <= n /\ q[k] = answers[k]
      BY <1>1, <2>4
    <3> QED
      BY <3>1, <3>2, Zenon DEF q, t
<1>4. ASSUME NEW a, Good(a), responses = <<a>>
      PROVE  /\ answers \o responses = Append(answers, a)
             /\ toClient \o ResponsesBytes(responses) = toClient \o ResponseBytes(n + 1, a)
  <2>1. Len(responses) = 1 /\ responses[1] = a
    BY <1>4
  <2>2. bs[1] = ResponseBytes(n + 1, a) /\ Len(bs) = 1
    BY <2>1
  <2>3. FlattenSeq(bs) = ResponseBytes(n + 1, a)
    BY <2>2, FlattenFew, Zenon
  <2>4. answers \o <<a>> = Append(answers, a)
    BY <1>1, <1>4 DEF Good
  <2> QED
    BY <1>2, <1>4, <2>3, <2>4, Zenon
<1>5. ASSUME NEW a, NEW b, Good(a), Good(b), responses = <<a, b>>
      PROVE  /\ answers \o responses = Append(Append(answers, a), b)
             /\ toClient \o ResponsesBytes(responses)
                  = (toClient \o ResponseBytes(n + 1, a)) \o ResponseBytes(n + 2, b)
  <2>1. Len(responses) = 2 /\ responses[1] = a /\ responses[2] = b
    BY <1>5
  <2>2. bs[1] = ResponseBytes(n + 1, a) /\ bs[2] = ResponseBytes(n + 2, b) /\ Len(bs) = 2
    BY <2>1
  <2>3. FlattenSeq(bs) = ResponseBytes(n + 1, a) \o ResponseBytes(n + 2, b)
    BY <2>2, FlattenFew, Zenon
  <2>4. answers \o <<a, b>> = Append(Append(answers, a), b)
    BY <1>1, <1>5 DEF Good
  <2>5. a.key \in Nat /\ b.key \in Nat /\ n + 1 \in Nat /\ n + 2 \in Nat
    BY <1>1, <1>5 DEF Good, Responses
  <2>6. ResponseBytes(n + 1, a) \in Seq(Place) /\ ResponseBytes(n + 2, b) \in Seq(Place)
    BY <2>5, ResponsePlaces
  <2> DEFINE x == ResponseBytes(n + 1, a)
             y == ResponseBytes(n + 2, b)
  <2> HIDE DEF x, y
  <2>7. x \in Seq(Place) /\ y \in Seq(Place)
    BY <2>6 DEF x, y
  <2>8. toClient \o (x \o y) = (toClient \o x) \o y
    BY <1>1, <2>7
  <2> QED
    BY <1>2, <1>5, <2>3, <2>4, <2>8, Zenon DEF x, y
<1> HIDE DEF bs
<1>6. ASSUME NEW a, Good(a), responses = <<a>>
      PROVE  /\ Append(answers, a) \in Seq(Responses)
             /\ StreamOf(toClient \o ResponseBytes(n + 1, a), Append(answers, a), r)
             /\ Len(Append(answers, a)) = n + 1
             /\ \A k \in 1..n + 1 : \/ k <= n /\ Append(answers, a)[k] = answers[k]
                                    \/ Good(Append(answers, a)[k])
  <2>1. a \in Responses
    BY <1>6 DEF Good
  <2>2. StreamOf(toClient \o ResponseBytes(n + 1, a), Append(answers, a), r)
    BY <1>1, <2>1, StreamGrows
  <2> QED
    BY <1>1, <1>6, <2>1, <2>2
<1>7. ASSUME NEW a, NEW b, Good(a), Good(b), responses = <<a, b>>
      PROVE  LET q == Append(Append(answers, a), b)
             IN  /\ q \in Seq(Responses)
                 /\ StreamOf((toClient \o ResponseBytes(n + 1, a)) \o ResponseBytes(n + 2, b), q, r)
                 /\ Len(q) = n + 2
                 /\ \A k \in 1..n + 2 : \/ k <= n /\ q[k] = answers[k]
                                        \/ Good(q[k])
  <2>1. a \in Responses /\ b \in Responses
    BY <1>7 DEF Good
  <2> DEFINE p == Append(answers, a)
             q == Append(p, b)
             s == toClient \o ResponseBytes(n + 1, a)
  <2>2. StreamOf(s, p, r)
    BY <1>1, <2>1, StreamGrows
  <2>3. p \in Seq(Responses) /\ Len(p) = n + 1 /\ p[n + 1] = a
        /\ \A k \in 1..n : p[k] = answers[k]
    BY <1>1, <2>1
  <2> HIDE DEF p, s
  <2>4. StreamOf(s \o ResponseBytes(n + 1 + 1, b), q, r)
    BY <1>1, <2>1, <2>2, <2>3, StreamGrows
  <2>5. n + 1 + 1 = n + 2
    BY <1>1
  <2>6. q \in Seq(Responses) /\ Len(q) = n + 2 /\ q[n + 2] = b
        /\ \A k \in 1..n + 1 : q[k] = p[k]
    BY <1>1, <2>1, <2>3
  <2> HIDE DEF q
  <2>7. ASSUME NEW k \in 1..n + 2
        PROVE  \/ k <= n /\ q[k] = answers[k]
               \/ Good(q[k])
    <3>1. k \in 1..n \/ k = n + 1 \/ k = n + 2
      BY <1>1
    <3> QED
      BY <1>1, <1>7, <2>3, <2>6, <3>1
  <2> QED
    BY <2>4, <2>5, <2>6, <2>7, Zenon DEF p, q, s
<1>8. CASE \E a : Good(a) /\ responses = <<a>>
  <2>1. PICK a : Good(a) /\ responses = <<a>>
    BY <1>8
  <2> DEFINE q == answers \o responses
             t == toClient \o ResponsesBytes(responses)
  <2>2. q = Append(answers, a) /\ t = toClient \o ResponseBytes(n + 1, a)
    BY <1>4, <2>1, Zenon
  <2> HIDE DEF q, t
  <2>3. /\ q \in Seq(Responses) /\ StreamOf(t, q, r) /\ Len(q) = n + 1
        /\ \A k \in 1..n + 1 : (k <= n /\ q[k] = answers[k]) \/ Good(q[k])
    BY <1>6, <2>1, <2>2, Zenon
  <2>4. Len(q) >= n /\ t \in Seq(Place)
    BY <1>1, <1>2, <2>3
  <2> QED
    BY <2>3, <2>4, Zenon DEF q, t
<1>9. CASE \E a, b : Good(a) /\ Good(b) /\ responses = <<a, b>>
  <2>1. PICK a, b : Good(a) /\ Good(b) /\ responses = <<a, b>>
    BY <1>9
  <2> DEFINE q == answers \o responses
             t == toClient \o ResponsesBytes(responses)
  <2>2. /\ q = Append(Append(answers, a), b)
        /\ t = (toClient \o ResponseBytes(n + 1, a)) \o ResponseBytes(n + 2, b)
    BY <1>5, <2>1, Zenon
  <2> HIDE DEF q, t
  <2>3. /\ q \in Seq(Responses) /\ StreamOf(t, q, r) /\ Len(q) = n + 2
        /\ \A k \in 1..n + 2 : (k <= n /\ q[k] = answers[k]) \/ Good(q[k])
    BY <1>7, <2>1, <2>2, Zenon
  <2>4. Len(q) >= n /\ t \in Seq(Place)
    BY <1>1, <1>2, <2>3
  <2> QED
    BY <2>3, <2>4, Zenon DEF q, t
<1> QED
  BY <1>3, <1>8, <1>9 DEF Few

\* A request that is handled is answered, and the thread goes on with the next.
LEMMA HandlePreserves ==
    ASSUME ConnectionInv, Handle
    PROVE  ConnectionInv'
<1>1. /\ pc = "handling" /\ pc' = "reading" /\ field' = field /\ got' = got /\ frame' = frame
      /\ clientOpen' = clientOpen /\ mine' = mine /\ sent' = sent /\ received' = received
      /\ toServer' = toServer
  BY DEF Handle, clientVars, readVars
<1>2. /\ Types /\ OnlyLastCut /\ GotOK /\ HandledOK /\ AnswersOK /\ ClientInPlace
  BY DEF ConnectionInv
<1>3. PICK responses :
        /\ sent[Now].code \notin {Unknown, "DISCONNECT"}
        /\ responses \in Answers(sent[Now].code, ReadUserId(sent[Now].user_id))
        /\ handled' = Append(handled, Decoded(sent[Now].code))
        /\ answers' = answers \o responses
        /\ toClient' = toClient \o ResponsesBytes(responses)
        /\ registered' \subseteq Uuids
  <2>1. PICK code \in RequestCodes(frame["header"]) \ {Unknown, "DISCONNECT"} :
          \E responses \in Answers(code, Decoded(code).user_id) :
             /\ handled' = Append(handled, Decoded(code))
             /\ answers' = answers \o responses
             /\ toClient' = toClient \o ResponsesBytes(responses)
             /\ registered' = registered \cup
                   {u \in Uuids : \E k \in 1..Len(responses) :
                       /\ responses[k].code = "REGISTRATION_SUCCESS"
                       /\ responses[k].user_id = SerializeUserId(u, IdLen)}
    BY Zenon DEF Handle
  <2>2. code = sent[Now].code
    BY <1>1, <2>1, WhileHandling
  <2>3. Decoded(code).user_id = ReadUserId(sent[Now].user_id)
    BY <1>1, <2>2, DecodedIs
  <2>4. PICK responses \in Answers(code, Decoded(code).user_id) :
          /\ handled' = Append(handled, Decoded(code))
          /\ answers' = answers \o responses
          /\ toClient' = toClient \o ResponsesBytes(responses)
          /\ registered' = registered \cup
                {u \in Uuids : \E k \in 1..Len(responses) :
                    /\ responses[k].code = "REGISTRATION_SUCCESS"
                    /\ responses[k].user_id = SerializeUserId(u, IdLen)}
    BY <2>1, Zenon
  <2>5. registered' \subseteq Uuids
    <3>1. registered \subseteq Uuids
      BY <1>2 DEF Types
    <3> DEFINE new == {u \in Uuids : \E k \in 1..Len(responses) :
                          /\ responses[k].code = "REGISTRATION_SUCCESS"
                          /\ responses[k].user_id = SerializeUserId(u, IdLen)}
    <3>2. new \subseteq Uuids
      BY Zenon
    <3>3. registered' = registered \cup new
      BY <2>4, Zenon
    <3> HIDE DEF new
    <3> QED
      BY <3>1, <3>2, <3>3
  <2> QED
    BY <2>1, <2>2, <2>3, <2>4, <2>5, Zenon
<1>4. Few(responses)
  <2>1. sent[Now].code \in (ClientCode \cup {Unknown}) \ {Unknown, "DISCONNECT"}
    BY <1>1, <1>3, WhileHandling
  <2> QED
    BY <1>1, <1>3, <2>1, AnswersAreGood
<1>5. /\ answers' \in Seq(Responses) /\ toClient' \in Seq(Place)
      /\ StreamOf(toClient', answers', Len(received))
      /\ Len(answers') >= Len(answers)
      /\ \A k \in 1..Len(answers') :
            \/ k <= Len(answers) /\ answers'[k] = answers[k]
            \/ Good(answers'[k])
  BY <1>3, <1>4, AnswersSent
<1>6. HandledOK' /\ handled' \in Seq(Handled) /\ Len(handled') = Now
  BY <1>1, <1>3, HandledGrows
<1>7. Types' /\ OnlyLastCut'
  BY <1>1, <1>2, <1>3, <1>5, <1>6 DEF Types, OnlyLastCut, Cut
<1>8. GotOK'
  BY <1>1, <1>2 DEF GotOK, Wanted, Current, ChunkSize
<1>9. Len(handled) \in Nat /\ Now = Len(handled) + 1 /\ Len(answers) \in Nat
      /\ Len(answers') \in Nat
  BY <1>2, <1>5 DEF Types, Now
<1>10. AnswersOK'
  <2>1. SUFFICES ASSUME NEW k \in 1..Len(answers')
                 PROVE  LET a == answers'[k]
                        IN  /\ a.payload_size = PayloadSize(a.key)
                            /\ a.request \in 1..Now
                            /\ a.user_id # Zeros /\ a.code # "REGISTRATION_SUCCESS" =>
                                  a.user_id = sent[a.request].user_id
    BY <1>1, <1>6 DEF AnswersOK
  <2>2. CASE k <= Len(answers) /\ answers'[k] = answers[k]
    <3>1. k \in 1..Len(answers)
      BY <1>9, <2>2
    <3>2. answers[k].request \in 1..Len(handled)
      BY <1>2, <3>1 DEF AnswersOK
    <3> QED
      BY <1>2, <1>9, <2>2, <3>1, <3>2 DEF AnswersOK
  <2>3. CASE Good(answers'[k])
    BY <1>9, <2>3 DEF Good
  <2> QED
    BY <1>5, <2>2, <2>3
<1>11. ClientInPlace'
  BY <1>1, <1>2, <1>5 DEF ClientInPlace, ClientInStep
<1>12. ThreadInPlace'
  <2>1. PICK E : Laid(Written(sent), toServer, E) /\ EndOf(E) /\ HandlingAt(E)
    BY <1>1, WhileHandling
  <2>2. Now' = Now + 1
    BY <1>6 DEF Now
  <2>3. ReadingAt(E)'
    <3>1. /\ E[Now + 1] = 0 /\ field = 1 /\ got = << >> /\ Now <= Len(sent)
      BY <2>1 DEF HandlingAt
    <3>2. FieldStart[1] = 0
      BY DEF FieldStart
    <3>3. Now \in Nat /\ Len(sent) \in Nat
      BY <1>2, <1>9 DEF Types
    <3> QED
      BY <1>1, <2>2, <3>1, <3>2, <3>3 DEF ReadingAt
  <2>4. Laid(Written(sent)', toServer', E) /\ EndOf(E)'
    <3>1. Written(sent)' = Written(sent)
      BY <1>1
    <3> QED
      BY <1>1, <2>1, <3>1 DEF EndOf, Cut
  <2> QED
    BY <1>1, <2>3, <2>4 DEF ThreadInPlace
<1> QED
  BY <1>6, <1>7, <1>8, <1>10, <1>11, <1>12 DEF ConnectionInv

-----------------------------------------------------------------------------
(* The client reads a response.                                            *)

\* The header at the front of the stream is that of the next response.
LEMMA HeaderIs ==
    ASSUME NEW s \in Seq(Place), NEW n \in 1..Len(answers), answers \in Seq(Responses),
           NEW size \in Nat, size = ResponseLen(answers[n].key), Len(s) >= size,
           \A j \in 1..size : s[j] = ResponseBytes(n, answers[n])[j]
    PROVE  HeaderOf(s) = n /\ SubSeq(s, 1, size) = ResponseBytes(n, answers[n])
<1> DEFINE header == ResponseWidth["header"]
           B(k) == ResponseBytes(k, answers[k])
           fits == {k \in 1..Len(answers) : SubSeq(s, 1, header) = SubSeq(B(k), 1, header)}
<1>1. ASSUME NEW k \in 1..Len(answers)
      PROVE  /\ B(k) \in Seq(Place) /\ Len(B(k)) = ResponseLen(answers[k].key)
             /\ header \in Nat \ {0} /\ header <= Len(B(k)) /\ Len(B(k)) \in Nat
             /\ B(k)[1] = At(k, "header", 1)
  <2>1. answers[k] \in Responses
    OBVIOUS
  <2>2. answers[k].key \in Nat /\ k \in Nat
    BY <2>1, SMTT(30) DEF Responses
  <2> QED
    BY <2>2, ResponsePlaces
<1> HIDE DEF B, header
<1>2. /\ Len(s) \in Nat /\ header \in Nat \ {0} /\ header <= size /\ header <= Len(s)
      /\ Len(B(n)) = size /\ B(n) \in Seq(Place)
  BY <1>1
<1>3. ASSUME NEW k \in 1..Len(answers)
      PROVE  k \in fits <=> \A j \in 1..header : s[j] = B(k)[j]
  <2> DEFINE b == B(k)
  <2>1. /\ b \in Seq(Place) /\ Len(b) \in Nat /\ header <= Len(b)
    BY <1>1
  <2> HIDE DEF b
  <2>2. SubSeq(s, 1, header) = [j \in 1..header |-> s[j]]
    BY <1>2
  <2>3. SubSeq(b, 1, header) = [j \in 1..header |-> b[j]]
    BY <1>2, <2>1
  <2>4. SubSeq(s, 1, header) = SubSeq(b, 1, header) <=> \A j \in 1..header : s[j] = b[j]
    BY <2>2, <2>3
  <2> QED
    BY <2>4, Zenon DEF b
<1>4. \A j \in 1..size : s[j] = B(n)[j]
  BY DEF B
<1>5. n \in fits
  <2>1. \A j \in 1..header : j \in 1..size
    BY <1>2
  <2> QED
    BY <1>3, <1>4, <2>1, Zenon
<1>6. ASSUME NEW k \in fits
      PROVE  k = n
  <2>1. 1 \in 1..header /\ k \in 1..Len(answers)
    BY <1>2
  <2>5. s[1] = B(k)[1]
    BY <1>3, <2>1, Zenon
  <2>6. s[1] = B(n)[1]
    BY <1>3, <1>5, <2>1, Zenon
  <2>2. B(k)[1] = B(n)[1]
    BY <2>5, <2>6, Zenon
  <2>3. At(k, "header", 1) = At(n, "header", 1)
    BY <1>1, <2>1, <2>2, Zenon
  <2>4. At(k, "header", 1).message = k /\ At(n, "header", 1).message = n
    BY DEF At
  <2> QED
    BY <2>3, <2>4, Zenon
<1>7. HeaderOf(s) = IF fits = {} THEN 0 ELSE CHOOSE k \in fits : TRUE
  BY Zenon DEF HeaderOf, B, header
<1>8. HeaderOf(s) = n
  <2> HIDE DEF fits
  <2>1. fits # {}
    BY <1>5
  <2>2. (CHOOSE k \in fits : TRUE) \in fits
    BY <2>1, Zenon
  <2>3. (CHOOSE k \in fits : TRUE) = n
    BY <1>6, <2>2, Zenon
  <2> QED
    BY <1>7, <2>1, <2>3, Zenon
<1>9. SubSeq(s, 1, size) = B(n)
  <2> DEFINE b == B(n)
  <2>1. b \in Seq(Place) /\ Len(b) = size /\ \A j \in 1..size : s[j] = b[j]
    BY <1>2, <1>4
  <2> HIDE DEF b
  <2>2. SubSeq(s, 1, size) = [j \in 1..size |-> s[j]]
    BY <1>2
  <2>3. b = [j \in 1..size |-> b[j]]
    BY <2>1
  <2> QED
    BY <2>1, <2>2, <2>3 DEF b
<1> QED
  BY <1>8, <1>9 DEF B

\* The client reads the next response, all of it and no more.
LEMMA ReadResponsePreserves ==
    ASSUME ConnectionInv, ReadResponse
    PROVE  ConnectionInv'
<1> DEFINE r == Len(received)
           n == r + 1
           size == ResponseLen(answers[n].key)
<1>1. /\ clientOpen' = clientOpen /\ sent' = sent /\ toServer' = toServer /\ pc' = pc
      /\ field' = field /\ got' = got /\ frame' = frame /\ handled' = handled
      /\ answers' = answers /\ registered' = registered
      /\ Len(toClient) >= ResponseWidth["header"]
  BY DEF ReadResponse, readVars
<1>2. /\ Types /\ OnlyLastCut /\ GotOK /\ ThreadInPlace
      /\ HandledOK /\ AnswersOK /\ ClientInPlace
  BY DEF ConnectionInv
<1>3. /\ answers \in Seq(Responses) /\ Len(answers) \in Nat /\ r \in Nat
      /\ toClient \in Seq(Place) /\ Len(toClient) \in Nat /\ received \in Seq(Nat)
      /\ r <= Len(answers)
  BY <1>2 DEF Types, ClientInPlace, StreamOf
<1>4. PICK G : /\ Laid(Answered(answers), toClient, G)
               /\ G[n] = 0 /\ G[Len(answers) + 1] = Len(toClient)
  BY <1>2 DEF ClientInPlace, StreamOf
<1>5. n \in 1..Len(answers)
  <2>1. ResponseWidth["header"] > 0 /\ ResponseWidth["header"] \in Nat
    BY Widths
  <2>2. Len(toClient) > 0
    BY <1>1, <1>3, <2>1
  <2>3. n # Len(answers) + 1
    BY <1>4, <2>2
  <2> QED
    BY <1>3, <2>3, SMTT(30)
<1>6. answers[n] \in Responses /\ answers[n].key \in Nat /\ size \in Nat
      /\ answers[n].user_id \in [1..IdLen -> Byte]
      /\ size = ResponseWidth["header"] + answers[n].payload_size
  <2>1. answers[n] \in Responses
    BY <1>3, <1>5
  <2>2. answers[n].key \in Nat /\ answers[n].user_id \in [1..IdLen -> Byte]
    BY <2>1 DEF Responses
  <2>3. size \in Nat
    BY <1>3, <2>2, ResponsePlaces
  <2>4. answers[n].payload_size = PayloadSize(answers[n].key)
    BY <1>2, <1>5 DEF AnswersOK
  <2> QED
    BY <2>1, <2>2, <2>3, <2>4 DEF ResponseLen
<1>7. /\ Len(Answered(answers)) = Len(answers) /\ Len(Answered(answers)[n]) = size
      /\ Answered(answers)[n] = ResponseBytes(n, answers[n])
  BY <1>3, <1>5, AnsweredIs
<1> HIDE DEF size, r
<1>8. /\ G \in [1..Len(answers) + 1 -> Int] /\ G[n + 1] = size /\ size <= Len(toClient)
      /\ \A j \in 1..size : j \in 1..Len(toClient) => toClient[j] = ResponseBytes(n, answers[n])[j]
  <2>1. G[n + 1] = G[n] + Len(Answered(answers)[n]) /\ G[n + 1] <= G[Len(answers) + 1]
    BY <1>4, <1>5, <1>7 DEF Laid
  <2>2. G[n + 1] = size /\ size <= Len(toClient)
    BY <1>4, <1>6, <1>7, <2>1
  <2>3. \A j \in 1..size : G[n] + j \in 1..Len(toClient) =>
           toClient[G[n] + j] = Answered(answers)[n][j]
    BY <1>4, <1>5, <1>7 DEF Laid
  <2>4. \A j \in 1..size : G[n] + j = j
    BY <1>4, <1>6
  <2> QED
    BY <1>4, <1>7, <2>2, <2>3, <2>4 DEF Laid
<1>9. \A j \in 1..size : toClient[j] = ResponseBytes(n, answers[n])[j]
  <2>1. \A j \in 1..size : j \in 1..Len(toClient)
    BY <1>3, <1>6, <1>8
  <2> QED
    BY <1>8, <2>1, Zenon
<1>10. /\ HeaderOf(toClient) = n
       /\ SubSeq(toClient, 1, size) = ResponseBytes(n, answers[n])
  <2>1. Len(toClient) >= size /\ size = ResponseLen(answers[n].key)
    BY <1>3, <1>6, <1>8 DEF size
  <2> QED
    BY <1>3, <1>5, <1>6, <1>9, <2>1, HeaderIs
<1>11. /\ toClient' = SubSeq(toClient, size + 1, Len(toClient))
       /\ received' = Append(received, n)
       /\ mine' = IF answers[n].code = "REGISTRATION_SUCCESS" THEN answers[n].user_id ELSE mine
  <2>1. n # 0
    BY <1>3
  <2> HIDE DEF n
  <2> QED
    BY <1>6, <1>10, <2>1 DEF ReadResponse
<1>12. /\ received' \in Seq(Nat) /\ Len(received') = n /\ received'[n] = n
       /\ \A k \in 1..r : received'[k] = received[k]
  BY <1>3, <1>11 DEF r
<1>13. toClient' \in Seq(Place) /\ Len(toClient') = Len(toClient) - size
  <2>1. size \in 0..Len(toClient)
    BY <1>3, <1>6, <1>8
  <2>2. LET t == SubSeq(toClient, size + 1, Len(toClient))
        IN  t \in Seq(Place) /\ Len(t) = Len(toClient) - size
    BY <1>3, <2>1
  <2> QED
    BY <1>11, <2>2, Zenon
<1>14. ClientInPlace'
  <2>1. ClientInStep'
    <3>1. \A k \in 1..n : k \in 1..r \/ k = n
      BY <1>3
    <3>2. \A k \in 1..r : received[k] = k
      BY <1>2 DEF ClientInPlace, ClientInStep, r
    <3> QED
      BY <1>12, <3>1, <3>2 DEF ClientInStep
  <2>2. PICK F : /\ Laid(Answered(answers), SubSeq(toClient, size + 1, Len(toClient)), F)
                 /\ \A i \in 1..Len(Answered(answers)) + 1 : F[i] = G[i] - size
    <3>1. size \in 0..Len(toClient)
      BY <1>3, <1>6, <1>8
    <3> QED
      BY <1>4, <3>1, LaidRead
  <2>3. F[n + 1] = 0 /\ F[Len(answers) + 1] = Len(toClient')
    <3>1. n + 1 \in 1..Len(answers) + 1 /\ Len(answers) + 1 \in 1..Len(answers) + 1
      BY <1>3, <1>5
    <3>2. F[n + 1] = G[n + 1] - size /\ F[Len(answers) + 1] = G[Len(answers) + 1] - size
      BY <1>7, <2>2, <3>1
    <3> QED
      BY <1>4, <1>6, <1>8, <1>13, <3>2
  <2>4. Laid(Answered(answers), toClient', F) /\ n <= Len(answers)
    BY <1>5, <1>11, <2>2
  <2>5. StreamOf(toClient', answers, n)
    BY <2>3, <2>4, Zenon DEF StreamOf
  <2> QED
    BY <1>1, <1>12, <2>1, <2>5, Zenon DEF ClientInPlace
<1>15. Types' /\ OnlyLastCut'
  <2>1. mine' \in [1..IdLen -> Byte]
    BY <1>2, <1>6, <1>11 DEF Types
  <2> QED
    BY <1>1, <1>2, <1>12, <1>13, <2>1 DEF Types, OnlyLastCut, Cut
<1>16. GotOK' /\ ThreadInPlace'
  BY <1>1, <1>2 DEF GotOK, Wanted, Current, ChunkSize, ThreadInPlace, EndOf, Cut, ReadingAt,
                    HandlingAt, Now
<1>17. HandledOK' /\ AnswersOK'
  BY <1>1, <1>2 DEF HandledOK, InStep, AnswersOK
<1> QED
  BY <1>14, <1>15, <1>16, <1>17 DEF ConnectionInv

-----------------------------------------------------------------------------
(* The theorems.                                                           *)

\* A connection begins with both streams empty and the thread at the first field.
LEMMA InitConnection ==
    ASSUME Init
    PROVE  ConnectionInv
<1>1. /\ clientOpen = TRUE /\ mine = Zeros /\ sent = << >> /\ received = << >>
      /\ toServer = << >> /\ toClient = << >>
      /\ pc = "reading" /\ field = 1 /\ got = << >>
      /\ frame = [f \in ToSet(RequestLayout) |-> 0]
      /\ handled = << >> /\ answers = << >> /\ registered = {}
  BY DEF Init
<1>2. Types
  BY <1>1, SizesOfResponses DEF Types
<1>3. OnlyLastCut /\ ~Cut
  BY <1>1 DEF OnlyLastCut, Cut
<1>4. GotOK
  BY <1>1, <1>2, WantedNat DEF GotOK
<1> DEFINE E == [k \in 1..1 |-> 0]
<1>5. /\ E \in [1..1 -> Int] /\ E[1] = 0 /\ \A bs : Len(bs) = 0 /\ bs \in Seq(Seq(Place)) =>
             Laid(bs, << >>, E)
  BY DEF Laid
<1> HIDE DEF E
<1>6. ThreadInPlace
  <2>1. Laid(Written(sent), toServer, E)
    <3>1. Written(sent) \in Seq(Seq(Place)) /\ Len(Written(sent)) = 0
      BY <1>1, <1>2, WrittenIs DEF Types
    <3> QED
      BY <1>1, <1>5, <3>1
  <2>2. EndOf(E)
    BY <1>1, <1>3, <1>5 DEF EndOf
  <2>3. ReadingAt(E)
    <3>1. FieldStart[1] = 0
      BY DEF FieldStart
    <3> QED
      BY <1>1, <1>5, <3>1 DEF ReadingAt, Now
  <2> QED
    BY <1>1, <2>1, <2>2, <2>3 DEF ThreadInPlace
<1>7. HandledOK /\ AnswersOK
  BY <1>1 DEF HandledOK, InStep, AnswersOK
<1>8. ClientInPlace
  <2>1. Laid(Answered(answers), toClient, E)
    <3>1. Answered(answers) \in Seq(Seq(Place)) /\ Len(Answered(answers)) = 0
      BY <1>1, <1>2, AnsweredIs DEF Types
    <3> QED
      BY <1>1, <1>5, <3>1
  <2>2. StreamOf(toClient, answers, Len(received))
    BY <1>1, <1>5, <2>1 DEF StreamOf
  <2> QED
    BY <1>1, <2>2 DEF ClientInPlace, ClientInStep
<1> QED
  BY <1>2, <1>3, <1>4, <1>6, <1>7, <1>8 DEF ConnectionInv

\* The client writes a whole request.
LEMMA WriteRequestPreserves ==
    ASSUME ConnectionInv, WriteRequest
    PROVE  ConnectionInv'
<1>1. PICK code \in Codes, chunk \in 0..MaxChunk :
         /\ sent' = Append(sent, Request(code, chunk, TRUE))
         /\ toServer' = toServer \o RequestBytes(Len(sent) + 1, chunk)
  BY Zenon DEF WriteRequest
<1> DEFINE r == Request(code, chunk, TRUE)
           b == RequestBytes(Len(sent) + 1, chunk)
<1>2. r \in Requests /\ r.chunk = chunk /\ r.whole = TRUE
  BY ConnectionAssumption
     DEF Request, Requests, ConnectionInv, Types, ConnectionAssumption
<1>3. b \in Seq(Place) /\ Len(b) \in Nat
  <2>1. chunk \in Nat /\ Len(sent) + 1 \in Nat
    BY ConnectionAssumption DEF ConnectionInv, Types, ConnectionAssumption
  <2>2. b \in Seq(Place)
    BY <2>1, RequestPlaces
  <2> HIDE DEF b
  <2> QED
    BY <2>2
<1>4. b = RequestBytes(Len(sent) + 1, r.chunk)
  BY <1>2, Zenon
<1>5. sent' = Append(sent, r) /\ toServer' = toServer \o b
  BY <1>1, Zenon
<1> HIDE DEF r, b
<1>6. Beginning(b, b) /\ (r.whole <=> Len(b) = Len(b))
  BY <1>2, <1>3 DEF Beginning
<1>7. /\ clientOpen' \in BOOLEAN /\ (clientOpen' => r.whole)
      /\ UNCHANGED <<mine, received, toClient, pc, readVars, handled, answers, registered>>
  BY <1>2 DEF WriteRequest, ConnectionInv, Types
<1>8. Writes(r, b)
  BY <1>4, <1>5, <1>6, <1>7, Zenon DEF Writes
<1> QED
  BY <1>2, <1>8, WritePreserves DEF WriteRequest

\* The client goes away, and may leave the beginning of a request behind.
LEMMA HangUpPreserves ==
    ASSUME ConnectionInv, HangUp
    PROVE  ConnectionInv'
<1>1. /\ clientOpen /\ clientOpen' = FALSE
      /\ UNCHANGED <<mine, received, toClient, pc, readVars, handled, answers, registered>>
  BY DEF HangUp
<1>2. CASE UNCHANGED <<sent, toServer>>
  <2>1. /\ mine' = mine /\ received' = received /\ toClient' = toClient /\ pc' = pc
        /\ field' = field /\ got' = got /\ frame' = frame /\ sent' = sent
        /\ handled' = handled /\ answers' = answers /\ registered' = registered
        /\ toServer' = toServer
    BY <1>1, <1>2 DEF readVars
  <2>2. /\ Types /\ OnlyLastCut /\ GotOK /\ ThreadInPlace
        /\ HandledOK /\ AnswersOK /\ ClientInPlace
    BY DEF ConnectionInv
  <2>3. Types' /\ OnlyLastCut' /\ GotOK'
    BY <1>1, <2>1, <2>2 DEF Types, OnlyLastCut, Cut, GotOK, Wanted, Current, ChunkSize
  <2>4. ThreadInPlace'
    BY <2>1, <2>2 DEF ThreadInPlace, EndOf, Cut, ReadingAt, HandlingAt, Now
  <2>5. HandledOK' /\ AnswersOK' /\ ClientInPlace'
    BY <2>1, <2>2 DEF HandledOK, InStep, AnswersOK, ClientInPlace, ClientInStep, StreamOf
  <2> QED
    BY <2>3, <2>4, <2>5 DEF ConnectionInv
<1>3. ASSUME NEW code \in Codes, NEW k \in 1..Len(RequestBytes(Len(sent) + 1, MaxChunk)) - 1,
             sent' = Append(sent, Request(code, MaxChunk, FALSE)),
             toServer' = toServer \o SubSeq(RequestBytes(Len(sent) + 1, MaxChunk), 1, k)
      PROVE  ConnectionInv'
  <2> DEFINE r == Request(code, MaxChunk, FALSE)
             b == RequestBytes(Len(sent) + 1, MaxChunk)
             c == SubSeq(b, 1, k)
  <2>1. r \in Requests /\ r.chunk = MaxChunk /\ r.whole = FALSE
    BY ConnectionAssumption
       DEF Request, Requests, ConnectionInv, Types, ConnectionAssumption
  <2>2. b \in Seq(Place) /\ Len(b) \in Nat /\ k \in Nat /\ k < Len(b)
    <3>1. MaxChunk \in Nat /\ Len(sent) + 1 \in Nat
      BY ConnectionAssumption DEF ConnectionInv, Types, ConnectionAssumption
    <3>2. b \in Seq(Place)
      BY <3>1, RequestPlaces
    <3>3. k \in 1..Len(b) - 1
      OBVIOUS
    <3> HIDE DEF b
    <3> QED
      BY <3>2, <3>3
  <2>3. b = RequestBytes(Len(sent) + 1, r.chunk)
    BY <2>1, Zenon
  <2>4. sent' = Append(sent, r) /\ toServer' = toServer \o c
    BY <1>3, Zenon
  <2> HIDE DEF r, b
  <2>5. Beginning(c, b) /\ (r.whole <=> Len(c) = Len(b))
    BY <2>1, <2>2 DEF Beginning
  <2> HIDE DEF c
  <2>6. clientOpen' \in BOOLEAN /\ (clientOpen' => r.whole)
    BY <1>1
  <2>7. Writes(r, c)
    BY <1>1, <2>3, <2>4, <2>5, <2>6, Zenon DEF Writes
  <2> QED
    BY <1>1, <2>1, <2>7, WritePreserves
<1> QED
  BY <1>2, <1>3, Zenon DEF HangUp

\* Nothing happens.
LEMMA StutterPreserves ==
    ASSUME ConnectionInv, UNCHANGED vars
    PROVE  ConnectionInv'
<1>1. /\ mine' = mine /\ received' = received /\ toClient' = toClient /\ pc' = pc
      /\ field' = field /\ got' = got /\ frame' = frame /\ sent' = sent
      /\ handled' = handled /\ answers' = answers /\ registered' = registered
      /\ toServer' = toServer /\ clientOpen' = clientOpen
  BY DEF vars, clientVars, readVars
<1>2. /\ Types /\ OnlyLastCut /\ GotOK /\ ThreadInPlace
      /\ HandledOK /\ AnswersOK /\ ClientInPlace
  BY DEF ConnectionInv
<1>3. Types' /\ OnlyLastCut' /\ GotOK'
  BY <1>1, <1>2 DEF Types, OnlyLastCut, Cut, GotOK, Wanted, Current, ChunkSize
<1>4. ThreadInPlace'
  BY <1>1, <1>2 DEF ThreadInPlace, EndOf, Cut, ReadingAt, HandlingAt, Now
<1>5. HandledOK' /\ AnswersOK' /\ ClientInPlace'
  BY <1>1, <1>2 DEF HandledOK, InStep, AnswersOK, ClientInPlace, ClientInStep, StreamOf
<1> QED
  BY <1>3, <1>4, <1>5 DEF ConnectionInv

\* No step loses a place in either stream.
LEMMA StepPreserves ==
    ASSUME ConnectionInv, [Next]_vars
    PROVE  ConnectionInv'
<1>1. CASE WriteRequest
  BY <1>1, WriteRequestPreserves
<1>2. CASE HangUp
  BY <1>2, HangUpPreserves
<1>3. CASE ReadResponse
  BY <1>3, ReadResponsePreserves
<1>4. CASE Recv
  BY <1>4, RecvPreserves
<1>5. CASE ReadField
  BY <1>5, ReadFieldPreserves
<1>6. CASE RecvFails
  <2>1. /\ pc' = "closed" /\ handled' = handled
        /\ UNCHANGED <<clientVars, toServer, toClient, readVars, answers, registered>>
    BY <1>6 DEF RecvFails
  <2> QED
    BY <2>1, ClosePreserves
<1>7. CASE Handle
  BY <1>7, HandlePreserves
<1>8. CASE Disconnect
  <2>1. /\ pc' = "closed" /\ handled' = handled
        /\ UNCHANGED <<clientVars, toServer, toClient, readVars, answers, registered>>
    BY <1>8 DEF Disconnect
  <2> QED
    BY <2>1, ClosePreserves
<1>9. CASE SendFails
  <2>1. /\ pc = "handling" /\ pc' = "closed"
        /\ UNCHANGED <<clientVars, toServer, toClient, readVars, answers, registered>>
        /\ \E code \in RequestCodes(frame["header"]) : handled' = Append(handled, Decoded(code))
    BY <1>9, Zenon DEF SendFails
  <2> QED
    BY <2>1, ClosePreserves
<1>10. CASE UNCHANGED vars
  BY <1>10, StutterPreserves
<1> QED
  BY <1>1, <1>2, <1>3, <1>4, <1>5, <1>6, <1>7, <1>8, <1>9, <1>10 DEF Next, Client, Thread

(***************************************************************************)
(* The inductive invariant: every byte in the two streams is where the     *)
(* reader of the stream expects it, whatever the sizes of the fields, of   *)
(* the chunks and of the reads.                                            *)
(***************************************************************************)
THEOREM PlacesKept == Spec => []ConnectionInv
<1>1. Init => ConnectionInv
  BY InitConnection
<1>2. ConnectionInv /\ [Next]_vars => ConnectionInv'
  BY StepPreserves
<1> QED
  BY <1>1, <1>2, PTL DEF Spec

\* The types of the variables, and recv_exact never has more than it was asked for.
THEOREM ConnectionTypes == Spec => []TypeOK
<1>1. ConnectionInv => TypeOK
  BY FieldNames DEF ConnectionInv, Types, GotOK, TypeOK
<1> QED
  BY <1>1, PlacesKept, PTL

(***************************************************************************)
(* What a thread handles is what the client wrote: whole requests, in      *)
(* their order, each with its own fields.                                  *)
(***************************************************************************)
THEOREM ThreadKeepsStep == Spec => []InStep
<1>1. ConnectionInv => InStep
  BY DEF ConnectionInv, HandledOK
<1> QED
  BY <1>1, PlacesKept, PTL

\* The client reads the responses that were sent, in their order, and no others.
THEOREM ClientKeepsStep == Spec => []ClientInStep
<1>1. ConnectionInv => ClientInStep
  BY DEF ConnectionInv, ClientInPlace
<1> QED
  BY <1>1, PlacesKept, PTL

(***************************************************************************)
(* A response that carries an id carries the bytes the client sent, though *)
(* the server has them as a string without its last zeros.                 *)
(***************************************************************************)
THEOREM ClientsOwnId == Spec => []IdEchoed
<1>1. ConnectionInv => IdEchoed
  BY DEF ConnectionInv, AnswersOK, IdEchoed
<1> QED
  BY <1>1, PlacesKept, PTL
=============================================================================
