-------------------------- MODULE WireFormatProofs --------------------------
(***************************************************************************)
(* What becomes of an id on its way to the client and back, for ids of any *)
(* length.                                                                 *)
(***************************************************************************)
EXTENDS WireFormat, WellFoundedInduction, TLAPS

\* A set of natural numbers that is not empty has a least element.
LEMMA LeastNatural ==
    ASSUME NEW T \in SUBSET Nat, T # {}
    PROVE  \E k \in T : \A j \in T : k <= j
<1> DEFINE R == OpToRel(<, Nat)
<1>1. PICK k \in T : \A j \in T : <<j, k>> \notin R
  BY WFMin, NatLessThanWellFounded, Zenon
<1>2. \A i, j \in Nat : i < j => <<i, j>> \in R
  BY DEF OpToRel
<1> HIDE DEF R
<1>3. ASSUME NEW j \in T
      PROVE  k <= j
  <2>1. j \in Nat /\ k \in Nat
    OBVIOUS
  <2>2. ~(j < k)
    BY <1>1, <1>2, <2>1, Zenon
  <2> QED
    BY <2>1, <2>2
<1> QED
  BY <1>3

\* The last digit that is not 0: everything after it is.
LEMMA LastNonZeroIs ==
    ASSUME NEW n \in Nat, NEW ds \in [1..n -> Digit]
    PROVE  /\ LastNonZero(ds) \in 0..n
           /\ LastNonZero(ds) > 0 => ds[LastNonZero(ds)] # 0
           /\ \A i \in LastNonZero(ds) + 1..n : ds[i] = 0
<1> DEFINE T == {k \in 0..n : \A i \in k + 1..n : ds[i] = 0}
<1>1. Len(ds) = n
  OBVIOUS
<1>2. n \in T /\ T \subseteq Nat
  OBVIOUS
<1>3. PICK k \in T : \A j \in T : k <= j
  <2> HIDE DEF T
  <2> QED
    BY <1>2, LeastNatural
<1>4. k > 0 => ds[k] # 0
  <2>1. SUFFICES ASSUME k > 0, ds[k] = 0 PROVE FALSE
    OBVIOUS
  <2>2. k - 1 \in 0..n /\ \A i \in (k - 1) + 1..n : ds[i] = 0
    BY <2>1
  <2>3. k - 1 \in T
    BY <2>2
  <2> QED
    BY <1>3, <2>3
<1>5. \E l \in 0..Len(ds) : /\ l > 0 => ds[l] # 0
                            /\ \A i \in l + 1..Len(ds) : ds[i] = 0
  BY <1>1, <1>4
<1> QED
  BY <1>1, <1>5 DEF LastNonZero

\* Two digits make a byte, and the byte has these digits.
LEMMA DigitsOfByte ==
    ASSUME NEW a \in Digit, NEW b \in Digit
    PROVE  /\ 16 * a + b \in Byte
           /\ (16 * a + b) \div 16 = a
           /\ (16 * a + b) % 16 = b
BY DEF Digit, Byte

LEMMA ByteOfDigits ==
    ASSUME NEW b \in Byte, NEW q, NEW r, q = b \div 16, r = b % 16
    PROVE  q \in Digit /\ r \in Digit /\ 16 * q + r = b
<1>1. q \in Digit /\ r \in Digit
  BY DEF Digit, Byte
<1> QED
  BY <1>1 DEF Digit, Byte

\* Hex is the inverse of FromHex, and FromHex of Hex.
LEMMA HexOfFromHex ==
    ASSUME NEW n \in Nat, NEW ds \in [1..2 * n -> Digit]
    PROVE  FromHex(ds) \in [1..n -> Byte] /\ Hex(FromHex(ds)) = ds
<1>1. Len(ds) = 2 * n /\ (2 * n) \div 2 = n
  OBVIOUS
<1>2. FromHex(ds) = [i \in 1..n |-> 16 * ds[2 * i - 1] + ds[2 * i]]
  BY <1>1 DEF FromHex
<1>3. FromHex(ds) \in [1..n -> Byte]
  <2>1. \A i \in 1..n : ds[2 * i - 1] \in Digit /\ ds[2 * i] \in Digit
    OBVIOUS
  <2> QED
    BY <1>2, <2>1, DigitsOfByte
<1>4. Len(FromHex(ds)) = n
  BY <1>3
<1>5. Hex(FromHex(ds)) =
        [i \in 1..2 * n |-> IF i % 2 = 1 THEN FromHex(ds)[(i + 1) \div 2] \div 16
                           ELSE FromHex(ds)[i \div 2] % 16]
  BY <1>4 DEF Hex
<1>6. ASSUME NEW i \in 1..2 * n
      PROVE  Hex(FromHex(ds))[i] = ds[i]
  <2>1. CASE i % 2 = 1
    <3>1. PICK k \in 1..n : i = 2 * k - 1 /\ (i + 1) \div 2 = k
      BY <2>1
    <3>2. FromHex(ds)[k] = 16 * ds[2 * k - 1] + ds[2 * k]
      BY <1>2
    <3>3. ds[2 * k - 1] \in Digit /\ ds[2 * k] \in Digit
      OBVIOUS
    <3> QED
      BY <1>5, <2>1, <3>1, <3>2, <3>3, DigitsOfByte
  <2>2. CASE i % 2 # 1
    <3>1. PICK k \in 1..n : i = 2 * k /\ i \div 2 = k
      BY <2>2
    <3>2. FromHex(ds)[k] = 16 * ds[2 * k - 1] + ds[2 * k]
      BY <1>2
    <3>3. ds[2 * k - 1] \in Digit /\ ds[2 * k] \in Digit
      OBVIOUS
    <3> QED
      BY <1>5, <2>2, <3>1, <3>2, <3>3, DigitsOfByte
  <2> QED
    BY <2>1, <2>2
<1>7. Hex(FromHex(ds)) = [i \in 1..2 * n |-> Hex(FromHex(ds))[i]]
  BY <1>5
<1>8. ds = [i \in 1..2 * n |-> ds[i]]
  OBVIOUS
<1> HIDE <1>5
<1> QED
  BY <1>3, <1>6, <1>7, <1>8

LEMMA FromHexOfHex ==
    ASSUME NEW n \in Nat, NEW bs \in [1..n -> Byte]
    PROVE  Hex(bs) \in [1..2 * n -> Digit] /\ FromHex(Hex(bs)) = bs
<1>1. Len(bs) = n
  OBVIOUS
<1>2. Hex(bs) = [i \in 1..2 * n |-> IF i % 2 = 1 THEN bs[(i + 1) \div 2] \div 16
                                   ELSE bs[i \div 2] % 16]
  BY <1>1 DEF Hex
<1>3. ASSUME NEW i \in 1..2 * n
      PROVE  Hex(bs)[i] \in Digit
  <2>1. i % 2 = 1 => (i + 1) \div 2 \in 1..n
    OBVIOUS
  <2>2. i % 2 # 1 => i \div 2 \in 1..n
    OBVIOUS
  <2> QED
    BY <1>2, <2>1, <2>2, ByteOfDigits
<1>4. Hex(bs) \in [1..2 * n -> Digit]
  BY <1>2, <1>3
<1>5. Len(Hex(bs)) = 2 * n /\ (2 * n) \div 2 = n
  BY <1>4
<1>6. FromHex(Hex(bs)) = [k \in 1..n |-> 16 * Hex(bs)[2 * k - 1] + Hex(bs)[2 * k]]
  BY <1>5 DEF FromHex
<1>7. ASSUME NEW k \in 1..n
      PROVE  16 * Hex(bs)[2 * k - 1] + Hex(bs)[2 * k] = bs[k]
  <2>1. /\ 2 * k - 1 \in 1..2 * n /\ (2 * k - 1) % 2 = 1 /\ ((2 * k - 1) + 1) \div 2 = k
        /\ 2 * k \in 1..2 * n /\ (2 * k) % 2 # 1 /\ (2 * k) \div 2 = k
    OBVIOUS
  <2>2. Hex(bs)[2 * k - 1] = bs[k] \div 16
    BY <1>2, <2>1
  <2>3. Hex(bs)[2 * k] = bs[k] % 16
    BY <1>2, <2>1
  <2>4. bs[k] \in Byte
    OBVIOUS
  <2> QED
    BY <2>2, <2>3, <2>4, ByteOfDigits
<1>8. bs = [k \in 1..n |-> bs[k]]
  OBVIOUS
<1> QED
  BY <1>4, <1>6, <1>7, <1>8

\* What is stripped is a prefix.
LEMMA RStripIs ==
    ASSUME NEW n \in Nat, NEW ds \in [1..n -> Digit],
           NEW last, last = LastNonZero(ds)
    PROVE  RStrip(ds) = [i \in 1..last |-> ds[i]] /\ RStrip(ds) \in [1..last -> Digit]
<1>1. last \in 0..n
  BY LastNonZeroIs
<1>2. ds \in Seq(Digit) /\ Len(ds) = n
  OBVIOUS
<1>3. SubSeq(ds, 1, last) = [i \in 1..last |-> ds[i]]
  BY <1>1, <1>2
<1>4. [i \in 1..last |-> ds[i]] \in [1..last -> Digit]
  BY <1>1
<1> QED
  BY <1>3, <1>4 DEF RStrip

(***************************************************************************)
(* An id of any even number of digits reaches the handlers as generate_uuid*)
(* made it exactly when its last digit is not 0.                           *)
(***************************************************************************)
THEOREM IdSurvives ==
    ASSUME NEW n \in Nat \ {0}, NEW id \in [1..2 * n -> Digit]
    PROVE  ReadUserId(FromHex(id)) = id <=> id[2 * n] # 0
<1> DEFINE last == LastNonZero(id)
           m == 2 * n
<1>1. Hex(FromHex(id)) = id
  BY HexOfFromHex
<1>2. ReadUserId(FromHex(id)) = RStrip(id)
  BY <1>1 DEF ReadUserId
<1>3. m \in Nat /\ m > 0 /\ id \in [1..m -> Digit]
  OBVIOUS
<1> HIDE DEF m
<1>4. /\ last \in 0..m
      /\ last > 0 => id[last] # 0
      /\ \A i \in last + 1..m : id[i] = 0
  BY <1>3, LastNonZeroIs
<1>5. RStrip(id) = [i \in 1..last |-> id[i]]
  BY <1>3, RStripIs
<1> HIDE DEF last
<1>6. id[m] # 0 => last = m
  BY <1>3, <1>4
<1>7. id[m] = 0 => last # m
  BY <1>3, <1>4
<1>8. last = m => RStrip(id) = id
  BY <1>3, <1>5
<1>9. last # m => RStrip(id) # id
  <2>1. SUFFICES ASSUME last # m PROVE DOMAIN RStrip(id) # DOMAIN id
    OBVIOUS
  <2>2. DOMAIN RStrip(id) = 1..last /\ DOMAIN id = 1..m
    BY <1>3, <1>5
  <2>3. m \in 1..m /\ m \notin 1..last
    BY <1>3, <1>4, <2>1
  <2> QED
    BY <2>2, <2>3
<1> QED
  BY <1>2, <1>6, <1>7, <1>8, <1>9 DEF m

(***************************************************************************)
(* A response carries the very bytes of the id that the request came with, *)
(* whatever was stripped from them, if it can be encoded at all: padding   *)
(* puts back what rstrip took away.                                        *)
(***************************************************************************)
THEOREM IdIsEchoed ==
    ASSUME NEW n \in Nat, NEW bs \in [1..n -> Byte], CanSerialize(ReadUserId(bs))
    PROVE  SerializeUserId(ReadUserId(bs), n) = bs
<1> DEFINE ds == Hex(bs)
           last == LastNonZero(ds)
           m == 2 * n
           rs == ReadUserId(bs)
<1>1. ds \in [1..m -> Digit] /\ FromHex(ds) = bs /\ m \in Nat
  BY FromHexOfHex
<1>2. rs = [i \in 1..last |-> ds[i]] /\ rs \in [1..last -> Digit]
  BY <1>1, RStripIs DEF ReadUserId
<1>3. last \in 0..m /\ \A i \in last + 1..m : ds[i] = 0
  BY <1>1, LastNonZeroIs
<1>4. Len(ds) = m /\ m \div 2 = n
  BY <1>1
<1>5. \A k \in 1..n : bs[k] = 16 * ds[2 * k - 1] + ds[2 * k]
  BY <1>1, <1>4 DEF FromHex
<1> HIDE DEF ds, last, rs
<1>6. Len(rs) = last /\ Len(rs) % 2 = 0
  <2>1. Len(rs) = last
    BY <1>2, <1>3
  <2> QED
    BY <2>1 DEF CanSerialize, CanFromHex, rs
<1>7. PICK h \in 0..n : last = 2 * h /\ Len(rs) \div 2 = h
  BY <1>3, <1>6
<1>8. FromHex(rs) = [k \in 1..h |-> 16 * rs[2 * k - 1] + rs[2 * k]] /\ Len(FromHex(rs)) = h
  BY <1>7 DEF FromHex
<1>9. SerializeUserId(rs, n) = [k \in 1..n |-> IF k <= h THEN FromHex(rs)[k] ELSE 0]
  BY <1>8 DEF SerializeUserId, PadBytes
<1>10. ASSUME NEW k \in 1..n
       PROVE  (IF k <= h THEN FromHex(rs)[k] ELSE 0) = bs[k]
  <2>1. CASE k <= h
    <3>1. 2 * k - 1 \in 1..last /\ 2 * k \in 1..last
      BY <1>7, <2>1
    <3>2. rs[2 * k - 1] = ds[2 * k - 1] /\ rs[2 * k] = ds[2 * k]
      BY <1>2, <3>1
    <3> QED
      BY <1>5, <1>8, <2>1, <3>2
  <2>2. CASE k > h
    <3>1. 2 * k - 1 \in last + 1..m /\ 2 * k \in last + 1..m
      BY <1>7, <2>2
    <3>2. ds[2 * k - 1] = 0 /\ ds[2 * k] = 0
      BY <1>3, <3>1
    <3> QED
      BY <1>5, <1>7, <2>2, <3>2
  <2> QED
    BY <1>7, <2>1, <2>2
<1>11. bs = [k \in 1..n |-> bs[k]]
  OBVIOUS
<1> QED
  BY <1>9, <1>10, <1>11 DEF rs

(***************************************************************************)
(* Stripping never makes one id out of two: requests of different clients  *)
(* are never taken for each other.                                         *)
(***************************************************************************)
THEOREM IdsStayApart ==
    ASSUME NEW n \in Nat, NEW as \in [1..n -> Byte], NEW bs \in [1..n -> Byte],
           ReadUserId(as) = ReadUserId(bs)
    PROVE  as = bs
<1> DEFINE m == 2 * n
           da == Hex(as)
           db == Hex(bs)
           la == LastNonZero(da)
           lb == LastNonZero(db)
<1>1. /\ da \in [1..m -> Digit] /\ db \in [1..m -> Digit] /\ m \in Nat
      /\ FromHex(da) = as /\ FromHex(db) = bs
  <2>1. da \in [1..m -> Digit] /\ FromHex(da) = as
    BY FromHexOfHex
  <2>2. db \in [1..m -> Digit] /\ FromHex(db) = bs
    BY FromHexOfHex
  <2>3. m \in Nat
    OBVIOUS
  <2> HIDE DEF da, db, m
  <2> QED
    BY <2>1, <2>2, <2>3
<1>2. /\ la \in 0..m /\ \A i \in la + 1..m : da[i] = 0
      /\ lb \in 0..m /\ \A i \in lb + 1..m : db[i] = 0
  BY <1>1, LastNonZeroIs
<1>3. [i \in 1..la |-> da[i]] = [i \in 1..lb |-> db[i]]
  <2>1. RStrip(da) = [i \in 1..la |-> da[i]] /\ RStrip(db) = [i \in 1..lb |-> db[i]]
    BY <1>1, RStripIs
  <2> QED
    BY <2>1 DEF ReadUserId
<1> HIDE DEF da, db, la, lb
<1>4. la = lb
  <2>1. 1..la = 1..lb
    BY <1>3
  <2> QED
    BY <1>2, <2>1
<1>5. ASSUME NEW i \in 1..m
      PROVE  da[i] = db[i]
  <2>1. CASE i \in 1..la
    <3>1. da[i] = [k \in 1..la |-> da[k]][i] /\ db[i] = [k \in 1..lb |-> db[k]][i]
      BY <1>4, <2>1
    <3> QED
      BY <1>3, <3>1
  <2>2. CASE i \notin 1..la
    <3>1. i \in la + 1..m
      BY <1>2, <2>2
    <3> QED
      BY <1>2, <1>4, <3>1
  <2> QED
    BY <2>1, <2>2
<1>6. da = db
  BY <1>1, <1>5
<1> QED
  BY <1>1, <1>6
=============================================================================
