------------------------------ MODULE TextProofs ------------------------------
(***************************************************************************)
(* Strings that the server makes and reads: SHA-256 compresses the padded  *)
(* message, the two renderings of a page are one, a login verifies its own *)
(* state argument and lands on the page it was asked for, and the form     *)
(* decoder finds the attribute it looks for; for any block length,         *)
(* message, template, variables, paths, times, hash and attributes.        *)
(***************************************************************************)
EXTENDS LoginState, Sha256, Template, ContentDisposition,
        SequenceTheorems, WellFoundedInduction, TLAPS

(* A function on 1..n is a sequence of n elements.                         *)
LEMMA FcnIsSeq ==
    ASSUME NEW S, NEW n \in Nat, NEW f \in [1..n -> S]
    PROVE  f \in Seq(S) /\ Len(f) = n
<1>1. f \in Seq(S)
  BY SeqDef
<1>2. DOMAIN f = 1..n /\ DOMAIN f = 1..Len(f) /\ Len(f) \in Nat
  BY <1>1, LenProperties
<1>. QED  BY <1>2

(* Two sequences end to end.                                               *)
LEMMA Joined ==
    ASSUME NEW S, NEW a, NEW b, NEW n, NEW m,
           a \in Seq(S), b \in Seq(S), Len(a) = n, Len(b) = m
    PROVE  /\ a \o b \in Seq(S) /\ Len(a \o b) = n + m /\ n \in Nat /\ m \in Nat
           /\ \A i \in 1..n : (a \o b)[i] = a[i]
           /\ \A i \in 1..m : (a \o b)[n + i] = b[i]
<1>1. n \in Nat /\ m \in Nat
  BY LenProperties
<1>2. /\ a \o b \in Seq(S) /\ Len(a \o b) = n + m
      /\ \A i \in 1..(n + m) : (a \o b)[i] = IF i <= n THEN a[i] ELSE b[i - n]
  BY ConcatProperties
<1>3. ASSUME NEW i \in 1..n PROVE (a \o b)[i] = a[i]
  BY <1>1, <1>2
<1>4. ASSUME NEW i \in 1..m PROVE (a \o b)[n + i] = b[i]
  <2>1. n + i \in 1..(n + m) /\ ~(n + i <= n) /\ (n + i) - n = i
    BY <1>1
  <2>. QED  BY <1>2, <2>1
<1>. QED  BY <1>1, <1>2, <1>3, <1>4

WholeBlocks(n) == \E k \in Nat : n = k * BlockLength

(* What SHA256_Update has taken in is what was compressed, and after that  *)
(* the first datalen bytes of data; whole blocks were compressed, and      *)
(* bitlen counts them.                                                     *)
TakenIn ==
    /\ stage = "update"
    /\ data \in [1..BlockLength -> Bytes]
    /\ datalen \in 0..(BlockLength - 1)
    /\ hashed \in Seq(Bytes) /\ message \in Seq(Bytes)
    /\ Len(message) = Len(hashed) + datalen
    /\ bitlen = 8 * Len(hashed)
    /\ WholeBlocks(Len(hashed))
    /\ \A i \in 1..Len(hashed) : message[i] = hashed[i]
    /\ \A i \in 1..datalen : message[Len(hashed) + i] = data[i]

ShaInv == PaddingExact /\ (stage = "final" \/ TakenIn)

LEMMA ShaStart == SHA256_Init => TakenIn
<1> SUFFICES ASSUME SHA256_Init PROVE TakenIn
  OBVIOUS
<1>1. data \in [1..BlockLength -> Bytes]
  BY MemoryAssumption DEF SHA256_Init
<1>2. hashed = <<>> /\ message = <<>> /\ datalen = 0 /\ bitlen = 0 /\ stage = "update"
  BY DEF SHA256_Init
<1>3. hashed \in Seq(Bytes) /\ message \in Seq(Bytes) /\ Len(hashed) = 0 /\ Len(message) = 0
  BY <1>2
<1>4. datalen \in 0..(BlockLength - 1)
  BY <1>2, BlockAssumption
<1>5. WholeBlocks(Len(hashed))
  <2>1. 0 = 0 * BlockLength
    BY BlockAssumption
  <2>. QED  BY <1>3, <2>1 DEF WholeBlocks
<1>. QED  BY <1>1, <1>2, <1>3, <1>4, <1>5 DEF TakenIn

LEMMA UpdateTakesIn ==
    ASSUME TakenIn, NEW byte \in MessageBytes, SHA256_Update(byte)
    PROVE  TakenIn'
<1> DEFINE filled == [data EXCEPT ![datalen + 1] = byte]
           h == Len(hashed)
<1>1. byte \in Bytes /\ BlockLength \in Nat \ {0}
  BY MessageAssumption, BlockAssumption
<1>2. /\ filled \in [1..BlockLength -> Bytes] /\ filled[datalen + 1] = byte
      /\ \A i \in 1..datalen : filled[i] = data[i]
      /\ datalen \in 0..(BlockLength - 1) /\ h \in Nat
  BY <1>1, LenProperties DEF TakenIn
<1>3. data' = filled /\ stage' = "update" /\ message' = Append(message, byte)
  BY DEF SHA256_Update
<1>4. /\ message' \in Seq(Bytes) /\ Len(message') = h + datalen + 1
      /\ \A i \in 1..(h + datalen) : message'[i] = message[i]
      /\ message'[h + datalen + 1] = byte
  <2>1. message \in Seq(Bytes) /\ Len(message) = h + datalen
    BY DEF TakenIn
  <2>2. /\ Append(message, byte) \in Seq(Bytes)
        /\ Len(Append(message, byte)) = Len(message) + 1
        /\ \A i \in 1..Len(message) : Append(message, byte)[i] = message[i]
        /\ Append(message, byte)[Len(message) + 1] = byte
    BY <1>1, <2>1, AppendProperties
  <2>. QED  BY <1>2, <1>3, <2>1, <2>2
<1> HIDE DEF filled
<1>5. /\ \A i \in 1..h : message'[i] = hashed[i]
      /\ \A i \in 1..(datalen + 1) : message'[h + i] = filled[i]
  <2>1. ASSUME NEW i \in 1..h PROVE message'[i] = hashed[i]
    BY <1>2, <1>4 DEF TakenIn
  <2>2. ASSUME NEW i \in 1..(datalen + 1) PROVE message'[h + i] = filled[i]
    <3>1. CASE i = datalen + 1
      BY <1>2, <1>4, <3>1
    <3>2. CASE i \in 1..datalen
      <4>1. message[h + i] = data[i] /\ h + i \in 1..(h + datalen)
        BY <1>2, <3>2 DEF TakenIn
      <4>. QED  BY <1>2, <1>4, <3>2, <4>1
    <3>. QED  BY <1>2, <3>1, <3>2
  <2>. QED  BY <2>1, <2>2
<1>6. CASE datalen + 1 = BlockLength
  <2>1. /\ hashed' = hashed \o filled /\ datalen' = 0
        /\ bitlen' = bitlen + 8 * BlockLength
    BY <1>6 DEF SHA256_Update, filled
  <2>2. filled \in Seq(Bytes) /\ Len(filled) = BlockLength
    BY <1>1, <1>2, FcnIsSeq
  <2>3. /\ hashed' \in Seq(Bytes) /\ Len(hashed') = h + BlockLength
        /\ \A i \in 1..h : hashed'[i] = hashed[i]
        /\ \A i \in 1..BlockLength : hashed'[h + i] = filled[i]
    <3>1. hashed \in Seq(Bytes) /\ Len(hashed) = h
      BY DEF TakenIn
    <3>2. /\ hashed \o filled \in Seq(Bytes) /\ Len(hashed \o filled) = h + BlockLength
          /\ \A i \in 1..h : (hashed \o filled)[i] = hashed[i]
          /\ \A i \in 1..BlockLength : (hashed \o filled)[h + i] = filled[i]
      <4> HIDE DEF h
      <4>. QED  BY <2>2, <3>1, Joined
    <3>. QED  BY <2>1, <3>2
  <2>4. \A i \in 1..(h + BlockLength) : message'[i] = hashed'[i]
    <3> SUFFICES ASSUME NEW i \in 1..(h + BlockLength) PROVE message'[i] = hashed'[i]
      OBVIOUS
    <3>1. CASE i \in 1..h
      BY <1>5, <2>3, <3>1
    <3>2. CASE i \notin 1..h
      <4>1. PICK j \in 1..BlockLength : i = h + j
        <5>1. i - h \in 1..BlockLength /\ i = h + (i - h)
          BY <1>1, <1>2, <3>2
        <5>. QED  BY <5>1
      <4>. QED  BY <1>5, <1>6, <2>3, <4>1
    <3>. QED  BY <3>1, <3>2
  <2>5. WholeBlocks(Len(hashed'))
    <3>1. PICK k \in Nat : h = k * BlockLength
      BY DEF TakenIn, WholeBlocks
    <3>2. h + BlockLength = (k + 1) * BlockLength
      BY <1>1, <3>1
    <3>. QED  BY <2>3, <3>2 DEF WholeBlocks
  <2>6. datalen' \in 0..(BlockLength - 1)
    BY <1>1, <2>1
  <2>7. bitlen' = 8 * Len(hashed')
    BY <1>1, <1>2, <2>1, <2>3 DEF TakenIn
  <2>8. Len(message') = Len(hashed') + datalen' /\ 1..datalen' = {}
    <3>1. h + datalen + 1 = h + BlockLength + 0
      BY <1>1, <1>2, <1>6
    <3>2. 1..0 = {}
      OBVIOUS
    <3>. QED  BY <1>4, <2>1, <2>3, <3>1, <3>2
  <2>. QED
    BY <1>2, <1>3, <1>4, <2>3, <2>4, <2>5, <2>6, <2>7, <2>8 DEF TakenIn
<1>7. CASE datalen + 1 # BlockLength
  <2>1. hashed' = hashed /\ datalen' = datalen + 1 /\ bitlen' = bitlen
    BY <1>7 DEF SHA256_Update
  <2>2. datalen' \in 0..(BlockLength - 1)
    BY <1>1, <1>2, <1>7, <2>1
  <2>3. Len(message') = Len(hashed') + datalen'
    BY <1>2, <1>4, <2>1
  <2>4. WholeBlocks(Len(hashed')) /\ hashed' \in Seq(Bytes) /\ bitlen' = 8 * Len(hashed')
    BY <2>1 DEF TakenIn
  <2>. QED
    BY <1>2, <1>3, <1>4, <1>5, <2>1, <2>2, <2>3, <2>4 DEF TakenIn
<1>. QED  BY <1>6, <1>7

(* Every byte of the length is some byte: the padding does not depend on   *)
(* what they are.                                                          *)
LengthSet(n) == {BigEndian(n)[i] : i \in 1..LengthBytes}

LEMMA LengthIsSeq ==
    ASSUME NEW n
    PROVE  /\ BigEndian(n) \in Seq(Bytes \cup LengthSet(n))
           /\ Len(BigEndian(n)) = LengthBytes
<1> DEFINE S == Bytes \cup LengthSet(n)
<1>1. BigEndian(n) \in [1..LengthBytes -> S]
  <2>1. DOMAIN BigEndian(n) = 1..LengthBytes
    BY DEF BigEndian
  <2>2. \A i \in 1..LengthBytes : BigEndian(n)[i] \in S
    BY DEF LengthSet
  <2>3. BigEndian(n) = [i \in 1..LengthBytes |-> BigEndian(n)[i]]
    BY DEF BigEndian
  <2> HIDE DEF S
  <2>. QED  BY <2>2, <2>3
<1> HIDE DEF S
<1>. QED  BY <1>1, FcnIsSeq, BlockAssumption DEF S

(* 8 * Len(message) is what the length says.                               *)
LEMMA LengthIsMessages == TakenIn => Length = BigEndian(8 * Len(message))
<1> SUFFICES ASSUME TakenIn PROVE Length = BigEndian(8 * Len(message))
  OBVIOUS
<1>1. bitlen + 8 * datalen = 8 * Len(message)
  BY LenProperties, BlockAssumption DEF TakenIn
<1>. QED  BY <1>1 DEF Length

(* What is left of the message in data.                                    *)
Left == SubSeq(data, 1, datalen)

LEMMA MessageSplit ==
    ASSUME TakenIn
    PROVE  Left \in Seq(Bytes) /\ Len(Left) = datalen /\ message = hashed \o Left
<1>1. /\ datalen \in Nat /\ \A i \in 1..datalen : data[i] \in Bytes
      /\ hashed \in Seq(Bytes) /\ message \in Seq(Bytes)
      /\ Len(message) = Len(hashed) + datalen
  BY BlockAssumption DEF TakenIn
<1>2. /\ Left \in Seq(Bytes) /\ Len(Left) = datalen
      /\ \A i \in 1..datalen : Left[i] = data[i]
  <2>1. /\ Left \in Seq(Bytes) /\ Len(Left) = IF 1 <= datalen THEN datalen - 1 + 1 ELSE 0
        /\ \A i \in 1..(datalen - 1 + 1) : Left[i] = data[1 + i - 1]
    BY <1>1, SubSeqProperties DEF Left
  <2>. QED  BY <1>1, <2>1
<1> DEFINE h == Len(hashed)
           both == hashed \o Left
<1>3. /\ both \in Seq(Bytes) /\ Len(both) = h + datalen /\ h \in Nat
      /\ \A i \in 1..h : both[i] = hashed[i]
      /\ \A i \in 1..datalen : both[h + i] = Left[i]
  BY <1>1, <1>2, Joined
<1> HIDE DEF both
<1>4. ASSUME NEW i \in 1..(h + datalen) PROVE message[i] = both[i]
  <2>1. CASE i \in 1..h
    BY <1>3, <2>1 DEF TakenIn
  <2>2. CASE i \notin 1..h
    <3>1. i - h \in 1..datalen /\ i = h + (i - h)
      BY <1>1, <1>3, <2>2
    <3>2. PICK j \in 1..datalen : i = h + j
      BY <3>1
    <3>. QED  BY <1>2, <1>3, <3>2 DEF TakenIn
  <2>. QED  BY <2>1, <2>2
<1>5. message = both
  BY <1>1, <1>3, <1>4, SeqEqual
<1>. QED  BY <1>2, <1>5 DEF both

Zeros(n) == [i \in 1..n |-> 0]

LEMMA ZerosAreSeq ==
    ASSUME NEW n \in Nat
    PROVE  Zeros(n) \in Seq(Bytes) /\ Len(Zeros(n)) = n
<1>1. Zeros(n) \in [1..n -> Bytes]
  BY DEF Zeros, Bytes
<1>. QED  BY <1>1, FcnIsSeq

(* A sequence that begins with what is left of the message, the bit after  *)
(* it, and zeros to its end.                                               *)
Padding(front, n) ==
    /\ front \in Seq(Bytes) /\ Len(front) = n /\ n \in Nat /\ datalen + 1 <= n
    /\ \A i \in 1..datalen : front[i] = data[i]
    /\ front[datalen + 1] = 128
    /\ \A i \in (datalen + 2)..n : front[i] = 0

LEMMA PaddingParts ==
    ASSUME TakenIn, NEW front, NEW n, Padding(front, n)
    PROVE  front = Left \o <<128>> \o Zeros(n - datalen - 1)
<1> DEFINE z == n - datalen - 1
           one == Left \o <<128>>
           all == one \o Zeros(z)
<1>1. /\ datalen \in Nat /\ n \in Nat /\ z \in Nat /\ n = datalen + 1 + z
      /\ \A i \in 1..datalen : data[i] \in Bytes
  BY BlockAssumption DEF TakenIn, Padding
<1>2. /\ Left \in Seq(Bytes) /\ Len(Left) = datalen
      /\ \A i \in 1..datalen : Left[i] = data[i]
  <2>1. \A i \in 1..(datalen - 1 + 1) : Left[i] = data[1 + i - 1]
    BY <1>1, SubSeqProperties DEF Left
  <2>. QED  BY <1>1, <2>1, MessageSplit
<1>3. <<128>> \in Seq(Bytes) /\ Len(<<128>>) = 1 /\ <<128>>[1] = 128
  BY DEF Bytes
<1>4. /\ one \in Seq(Bytes) /\ Len(one) = datalen + 1
      /\ \A i \in 1..datalen : one[i] = data[i]
      /\ one[datalen + 1] = 128
  BY <1>2, <1>3, Joined
<1> HIDE DEF z, one
<1>5. /\ all \in Seq(Bytes) /\ Len(all) = datalen + 1 + z
      /\ \A i \in 1..(datalen + 1) : all[i] = one[i]
      /\ \A i \in 1..z : all[datalen + 1 + i] = Zeros(z)[i]
  BY <1>1, <1>4, ZerosAreSeq, Joined
<1> HIDE DEF all
<1>6. ASSUME NEW i \in 1..n PROVE front[i] = all[i]
  <2>1. CASE i \in 1..datalen
    BY <1>1, <1>4, <1>5, <2>1 DEF Padding
  <2>2. CASE i = datalen + 1
    BY <1>1, <1>4, <1>5, <2>2 DEF Padding
  <2>3. CASE i \in (datalen + 2)..n
    <3>1. i - (datalen + 1) \in 1..z /\ i = datalen + 1 + (i - (datalen + 1))
      BY <1>1, <2>3
    <3>2. PICK j \in 1..z : i = datalen + 1 + j
      BY <3>1
    <3>. QED  BY <1>5, <2>3, <3>2 DEF Padding, Zeros
  <2>. QED  BY <1>1, <2>1, <2>2, <2>3
<1>7. front \in Seq(Bytes) /\ Len(front) = Len(all)
  BY <1>1, <1>5 DEF Padding
<1>8. front = all
  BY <1>1, <1>5, <1>6, <1>7, SeqEqual
<1>. QED  BY <1>8 DEF all, one, z

(* The blocks that SHA256_Final compresses begin so.                       *)
LEMMA PaddedIsSeq ==
    ASSUME TakenIn, NEW upto
    PROVE  Padded(upto) \in Seq(Bytes) /\ Len(Padded(upto)) = BlockLength
<1>1. Padded(upto) \in [1..BlockLength -> Bytes]
  BY DEF Padded, TakenIn, Bytes
<1>. QED  BY <1>1, FcnIsSeq, BlockAssumption

LEMMA OneBlock ==
    ASSUME TakenIn, datalen < Front56
    PROVE  Padding(SubSeq(Padded(Front56), 1, Front56), Front56)
<1> DEFINE block == Padded(Front56)
           front == SubSeq(block, 1, Front56)
<1>1. /\ BlockLength \in Nat /\ Front56 \in Nat /\ 1 <= Front56 /\ Front56 <= BlockLength
      /\ datalen \in Nat
  BY BlockAssumption DEF Front56, TakenIn
<1>2. \A i \in 1..Front56 : /\ block[i] = IF i <= datalen THEN data[i]
                                          ELSE IF i = datalen + 1 THEN 128 ELSE 0
                            /\ block[i] \in Bytes
  <2>1. \A i \in 1..BlockLength : block[i] \in Bytes
    BY PaddedIsSeq, ElementOfSeq
  <2>. QED  BY <1>1, <2>1 DEF Padded
<1> HIDE DEF block
<1>3. /\ front \in Seq(Bytes) /\ Len(front) = Front56
      /\ \A i \in 1..Front56 : front[i] = block[i]
  <2>1. /\ front \in Seq(Bytes) /\ Len(front) = IF 1 <= Front56 THEN Front56 - 1 + 1 ELSE 0
        /\ \A i \in 1..(Front56 - 1 + 1) : front[i] = block[1 + i - 1]
    BY <1>1, <1>2, SubSeqProperties
  <2>. QED  BY <1>1, <2>1
<1> HIDE DEF front
<1>. QED  BY <1>1, <1>2, <1>3 DEF Padding, front, block

LEMMA TwoBlocks ==
    ASSUME TakenIn, ~(datalen < Front56)
    PROVE  Padding(Padded(BlockLength) \o Zeroed, BlockLength + Front56)
<1> DEFINE block == Padded(BlockLength)
           front == block \o Zeroed
<1>1. BlockLength \in Nat /\ Front56 \in Nat /\ datalen \in Nat /\ datalen + 1 <= BlockLength
  BY BlockAssumption DEF Front56, TakenIn
<1>2. /\ block \in Seq(Bytes) /\ Len(block) = BlockLength
      /\ \A i \in 1..BlockLength : block[i] = IF i <= datalen THEN data[i]
                                              ELSE IF i = datalen + 1 THEN 128 ELSE 0
  BY <1>1, PaddedIsSeq DEF Padded
<1>3. Zeroed \in Seq(Bytes) /\ Len(Zeroed) = Front56
  BY <1>1, ZerosAreSeq DEF Zeroed, Zeros
<1> HIDE DEF block
<1>4. /\ front \in Seq(Bytes) /\ Len(front) = BlockLength + Front56
      /\ \A i \in 1..BlockLength : front[i] = block[i]
      /\ \A i \in 1..Front56 : front[BlockLength + i] = Zeroed[i]
  BY <1>2, <1>3, Joined
<1> HIDE DEF front
<1>5. ASSUME NEW i \in (datalen + 2)..(BlockLength + Front56) PROVE front[i] = 0
  <2>1. CASE i \in 1..BlockLength
    BY <1>1, <1>2, <1>4, <2>1
  <2>2. CASE i \notin 1..BlockLength
    <3>1. i - BlockLength \in 1..Front56 /\ i = BlockLength + (i - BlockLength)
      BY <1>1, <2>2
    <3>2. PICK j \in 1..Front56 : i = BlockLength + j
      BY <3>1
    <3>. QED  BY <1>4, <3>2 DEF Zeroed
  <2>. QED  BY <2>1, <2>2
<1>. QED  BY <1>1, <1>2, <1>4, <1>5 DEF Padding, front, block

(* The two ways to put three sequences end to end are the same.            *)
Groups(a, b, c) == (a \o b) \o c = a \o (b \o c)

LEMMA Grouping == \A S : \A a, b, c \in Seq(S) : Groups(a, b, c)
BY ConcatAssociative, SMT DEF Groups

AllGroup(h, l, o, z, t) == h \o ((l \o o \o z) \o t) = (h \o l) \o o \o z \o t

LEMMA Regrouped ==
    ASSUME NEW S, NEW h \in Seq(S), NEW l \in Seq(S), NEW o \in Seq(S), NEW z \in Seq(S),
           NEW t \in Seq(S)
    PROVE  AllGroup(h, l, o, z, t)
<1> DEFINE lo == l \o o
           loz == lo \o z
<1>1. lo \in Seq(S)
  BY ConcatProperties
<1> HIDE DEF lo
<1>2. loz \in Seq(S)
  BY <1>1, ConcatProperties
<1> HIDE DEF loz
<1>3. Groups(h, loz, t) /\ Groups(h, lo, z) /\ Groups(h, l, o)
  BY <1>1, <1>2, Grouping, Zenon
<1>4. h \o (loz \o t) = (h \o loz) \o t
  BY <1>3, Zenon DEF Groups
<1>5. h \o loz = (h \o lo) \o z
  BY <1>3, Zenon DEF Groups, loz
<1>6. h \o lo = (h \o l) \o o
  BY <1>3, Zenon DEF Groups, lo
<1>. QED  BY <1>4, <1>5, <1>6, Zenon DEF AllGroup, lo, loz

(* After what was compressed they are the padded message.                  *)
LEMMA FrontPads ==
    ASSUME TakenIn, NEW front, NEW n, Padding(front, n)
    PROVE  LET L == BigEndian(8 * Len(message))
               whole == hashed \o (front \o Length)
           IN  /\ Len(whole) = Len(hashed) + n + LengthBytes
               /\ whole = message \o <<128>> \o Zeros(n - datalen - 1) \o L
<1> DEFINE L == BigEndian(8 * Len(message))
           S == Bytes \cup LengthSet(8 * Len(message))
           z == Zeros(n - datalen - 1)
<1>1. L \in Seq(S) /\ Len(L) = LengthBytes /\ Bytes \subseteq S /\ Length = L
  BY LengthIsSeq, LengthIsMessages
<1>2. /\ Left \in Seq(Bytes) /\ hashed \in Seq(Bytes) /\ z \in Seq(Bytes)
      /\ front \in Seq(Bytes) /\ <<128>> \in Seq(Bytes)
      /\ message = hashed \o Left /\ front = Left \o <<128>> \o z /\ Len(front) = n
      /\ n \in Nat
  <2>1. n - datalen - 1 \in Nat
    BY BlockAssumption DEF TakenIn, Padding
  <2>2. z \in Seq(Bytes)
    BY <2>1, ZerosAreSeq
  <2>3. <<128>> \in Seq(Bytes)
    BY DEF Bytes
  <2>. QED  BY <2>2, <2>3, MessageSplit, PaddingParts DEF TakenIn, Padding
<1> HIDE DEF L, S, z
<1>3. /\ Left \in Seq(S) /\ hashed \in Seq(S) /\ z \in Seq(S)
      /\ front \in Seq(S) /\ <<128>> \in Seq(S)
  BY <1>1, <1>2, SeqMonotonic
<1>4. /\ hashed \in Seq(S) /\ Left \in Seq(S) /\ <<128>> \in Seq(S)
      /\ z \in Seq(S) /\ L \in Seq(S)
  BY <1>1, <1>3
<1>5. hashed \o ((Left \o <<128>> \o z) \o L) = (hashed \o Left) \o <<128>> \o z \o L
  <2>1. AllGroup(hashed, Left, <<128>>, z, L)
    BY <1>4, Regrouped, Zenon
  <2>. QED  BY <2>1 DEF AllGroup
<1>6. hashed \o (front \o L) = message \o <<128>> \o z \o L
  BY <1>2, <1>5, Zenon
<1>7. Len(hashed \o (front \o L)) = Len(hashed) + n + LengthBytes
  <2>1. front \in Seq(S) /\ hashed \in Seq(S) /\ L \in Seq(S) /\ n \in Nat
    BY <1>2, <1>3, <1>4
  <2>2. front \o L \in Seq(S) /\ Len(front \o L) = n + LengthBytes
    BY <1>1, <1>2, <2>1, Joined
  <2> DEFINE rest == front \o L
  <2> HIDE DEF rest
  <2>3. Len(hashed \o rest) = Len(hashed) + (n + LengthBytes) /\ Len(hashed) \in Nat
    BY <2>1, <2>2, Joined DEF rest
  <2>4. Len(hashed) + (n + LengthBytes) = Len(hashed) + n + LengthBytes
    BY <2>1, <2>3, BlockAssumption
  <2>. QED  BY <2>3, <2>4 DEF rest
<1>. QED  BY <1>1, <1>6, <1>7 DEF L, z

LEMMA FinalPads ==
    ASSUME TakenIn, SHA256_Final
    PROVE  PaddingExact'
<1> DEFINE L == BigEndian(8 * Len(message))
<1>1. /\ BlockLength \in Nat \ {0} /\ LengthBytes \in Nat \ {0} /\ LengthBytes < BlockLength
      /\ Front56 = BlockLength - LengthBytes /\ datalen \in 0..(BlockLength - 1)
      /\ Len(hashed) \in Nat /\ Len(message) = Len(hashed) + datalen
  BY BlockAssumption, LenProperties DEF Front56, TakenIn
<1>2. message' = message
  BY DEF SHA256_Final, Finish
<1>3. PICK front, n :
          /\ hashed' = hashed \o (front \o Length) /\ Padding(front, n)
          /\ \/ n = Front56 /\ datalen < Front56
             \/ n = BlockLength + Front56 /\ ~(datalen < Front56)
  <2>1. CASE datalen < Front56
    BY <2>1, OneBlock DEF SHA256_Final, Finish
  <2>2. CASE ~(datalen < Front56)
    BY <2>2, TwoBlocks DEF SHA256_Final, Finish
  <2>. QED  BY <2>1, <2>2
<1>4. /\ Len(hashed') = Len(hashed) + n + LengthBytes
      /\ hashed' = message \o <<128>> \o Zeros(n - datalen - 1) \o L
  BY <1>3, FrontPads
<1> HIDE DEF L
<1>5. n \in Nat
  BY <1>3 DEF Padding
<1>6. /\ Len(hashed') - Len(message) - 1 - LengthBytes = n - datalen - 1
      /\ n - datalen - 1 \in 0..(BlockLength - 1)
  BY <1>1, <1>3, <1>4, <1>5
<1>7. \E m \in 1..Len(hashed') : Len(hashed') = m * BlockLength
  <2>1. PICK k \in Nat : Len(hashed) = k * BlockLength
    BY DEF TakenIn, WholeBlocks
  <2>2. PICK m \in Nat \ {0} : Len(hashed') = m * BlockLength
    <3>1. CASE n = Front56
      <4>1. Len(hashed') = (k + 1) * BlockLength
        BY <1>1, <1>4, <2>1, <3>1
      <4>. QED  BY <4>1
    <3>2. CASE n = BlockLength + Front56
      <4>1. Len(hashed') = (k + 2) * BlockLength
        BY <1>1, <1>4, <2>1, <3>2
      <4>. QED  BY <4>1
    <3>. QED  BY <1>3, <3>1, <3>2
  <2>3. m <= m * BlockLength
    BY <1>1, <2>2
  <2>. QED  BY <1>1, <2>2, <2>3
<1>. QED  BY <1>2, <1>4, <1>6, <1>7 DEF PaddingExact, L, Zeros

(* SHA256_Final compresses the message padded as FIPS 180-4 has it: for    *)
(* every block and message length, and whatever the context's memory held  *)
(* before.                                                                 *)
THEOREM PadsExactly == ShaSpec => []PaddingExact
<1>1. SHA256_Init => ShaInv
  BY ShaStart DEF ShaInv, PaddingExact, TakenIn
<1>2. ShaInv /\ [ShaNext]_shaVars => ShaInv'
  <2> SUFFICES ASSUME ShaInv, [ShaNext]_shaVars PROVE ShaInv'
    OBVIOUS
  <2>1. CASE UNCHANGED shaVars
    BY <2>1 DEF shaVars, ShaInv, TakenIn, PaddingExact
  <2>2. CASE SHA256_Final
    <3>1. TakenIn /\ stage' = "final"
      BY <2>2 DEF SHA256_Final, Finish, ShaInv
    <3>. QED  BY <2>2, <3>1, FinalPads DEF ShaInv
  <2>3. ASSUME NEW byte \in MessageBytes, SHA256_Update(byte) PROVE ShaInv'
    <3>1. TakenIn /\ stage' = "update"
      BY <2>3 DEF SHA256_Update, ShaInv
    <3>. QED  BY <2>3, <3>1, UpdateTakesIn DEF ShaInv, PaddingExact
  <2>. QED  BY <2>1, <2>2, <2>3 DEF ShaNext
<1>3. ShaInv => PaddingExact
  BY DEF ShaInv
<1>. QED  BY <1>1, <1>2, <1>3, PTL DEF ShaSpec

-----------------------------------------------------------------------------
LEMMA LeastNatural ==
    ASSUME NEW T \in SUBSET Nat, T # {}
    PROVE  \E m \in T : \A k \in T : m <= k
<1> DEFINE R == OpToRel(<, Nat)
<1>1. \A x, y \in Nat : x < y => <<x, y>> \in R
  BY DEF OpToRel
<1>2. IsWellFoundedOn(R, Nat)
  BY NatLessThanWellFounded
<1> HIDE DEF R
<1>3. PICK m \in T : \A k \in T : ~(<<k, m>> \in R)
  BY <1>2, WFMin
<1>4. \A k \in T : k \in Nat /\ m \in Nat /\ ~(k < m)
  BY <1>1, <1>3
<1>5. \A k \in T : m <= k
  BY <1>4
<1>. QED  BY <1>5

LEMMA SetInduction ==
    ASSUME NEW S, 0 \in S, \A n \in Nat : n \in S => n + 1 \in S
    PROVE  Nat \subseteq S
<1> SUFFICES ASSUME Nat \ S # {} PROVE FALSE
  OBVIOUS
<1>1. PICK m \in Nat \ S : \A k \in Nat \ S : m <= k
  BY LeastNatural
<1>2. m # 0 /\ m - 1 \in Nat /\ ~(m <= m - 1)
  BY <1>1
<1>3. m - 1 \in S
  BY <1>1, <1>2
<1>4. (m - 1) + 1 \in S
  BY <1>2, <1>3
<1>. QED  BY <1>1, <1>4

-----------------------------------------------------------------------------
(* The first place of two characters, and that there is none.              *)
PairAt(text, c, d, i) == text[i] = c /\ text[i + 1] = d

FirstPair(text, c, d, from, r) ==
    /\ r \in from..(Len(text) - 1) /\ PairAt(text, c, d, r)
    /\ \A i \in from..(r - 1) : ~PairAt(text, c, d, i)

NoPair(text, c, d, from) == \A i \in from..(Len(text) - 1) : ~PairAt(text, c, d, i)

LEMMA PairFound ==
    ASSUME NEW text \in Seq(STRING), NEW c, NEW d, NEW from \in Nat
    PROVE  /\ NoPair(text, c, d, from) => FindPair(text, c, d, from) = Len(text) + 1
           /\ \A r : FirstPair(text, c, d, from, r) => FindPair(text, c, d, from) = r
           /\ \/ NoPair(text, c, d, from)
              \/ \E r \in from..(Len(text) - 1) : FirstPair(text, c, d, from, r)
<1>0. PICK len : len = Len(text) /\ len \in Nat
  BY LenProperties
<1> DEFINE places == {i \in from..(len - 1) : text[i] = c /\ text[i + 1] = d}
<1>1. FindPair(text, c, d, from)
        = IF places = {} THEN len + 1 ELSE CHOOSE i \in places : \A j \in places : i <= j
  BY <1>0 DEF FindPair
<1>2. places \in SUBSET Nat
  OBVIOUS
<1>3. NoPair(text, c, d, from) <=> places = {}
  BY <1>0 DEF NoPair, PairAt
<1>4. ASSUME NEW r, FirstPair(text, c, d, from, r)
      PROVE  r \in places /\ \A j \in places : r <= j
  <2>1. r \in places
    BY <1>0, <1>4 DEF FirstPair, PairAt
  <2>2. ASSUME NEW j \in places PROVE r <= j
    <3>1. ~(j \in from..(r - 1))
      BY <1>4, <2>2 DEF FirstPair, PairAt
    <3>. QED  BY <2>1, <3>1
  <2>. QED  BY <2>1, <2>2
<1>5. ASSUME NEW r \in places, \A j \in places : r <= j
      PROVE  FirstPair(text, c, d, from, r)
  <2>1. ASSUME NEW i \in from..(r - 1) PROVE ~PairAt(text, c, d, i)
    <3>1. i \in from..(len - 1) /\ ~(r <= i)
      BY <1>0
    <3>2. i \notin places
      BY <1>5, <3>1
    <3>. QED  BY <3>1, <3>2 DEF PairAt
  <2>. QED  BY <1>0, <2>1 DEF FirstPair, PairAt
<1>6. places \subseteq from..(len - 1)
  OBVIOUS
<1> HIDE DEF places
<1>7. ASSUME NEW r, FirstPair(text, c, d, from, r) PROVE FindPair(text, c, d, from) = r
  <2>1. \A i \in places : (\A j \in places : i <= j) => i = r
    <3>1. r \in places /\ \A j \in places : r <= j
      BY <1>4, <1>7
    <3>2. \A i \in places : i \in Nat /\ r \in Nat
      BY <1>2, <3>1
    <3>3. \A i \in places : (\A j \in places : i <= j) => i <= r /\ r <= i
      BY <3>1
    <3>. QED  BY <3>2, <3>3
  <2>. QED  BY <1>1, <1>4, <1>7, <2>1
<1>8. places # {} => \E r \in from..(len - 1) : FirstPair(text, c, d, from, r)
  BY <1>2, <1>5, <1>6, LeastNatural
<1>. QED  BY <1>0, <1>1, <1>3, <1>7, <1>8

-----------------------------------------------------------------------------
(* What Render computes, from each place of the text.                      *)
Turn(text, variables, position, from) ==
    LET start == FindPair(text, "<", "%", position)
        end   == FindPair(text, "%", ">", start + 2)
    IN  IF start > Len(text) \/ end > Len(text) THEN SubSeq(text, position, Len(text))
        ELSE SubSeq(text, position, start - 1)
             \o Expression(text, start, end, variables) \o from[end + 2]

Rendered(text, variables, first, from) ==
    from = [position \in first..(Len(text) + 1) |-> Turn(text, variables, position, from)]

Plainly(text, position) ==
    \/ NoPair(text, "<", "%", position)
    \/ \E s \in position..(Len(text) - 1) :
          FirstPair(text, "<", "%", position, s) /\ NoPair(text, "%", ">", s + 2)

(* The expression that comes next reads from s to e + 1.                   *)
NextExpression(text, position, s, e) ==
    FirstPair(text, "<", "%", position, s) /\ FirstPair(text, "%", ">", s + 2, e)

Expanded(text, variables, position, s, e, from) ==
    SubSeq(text, position, s - 1) \o Expression(text, s, e, variables) \o from[e + 2]

LEMMA TurnExpands ==
    ASSUME NEW text \in Seq(STRING), NEW variables, NEW position \in Nat, NEW from,
           NEW s \in Nat, NEW e \in Nat, NextExpression(text, position, s, e)
    PROVE  Turn(text, variables, position, from)
             = Expanded(text, variables, position, s, e, from)
<1>0. Len(text) \in Nat
  BY LenProperties
<1>1. FindPair(text, "<", "%", position) = s /\ ~(s > Len(text))
  BY <1>0, PairFound DEF FirstPair, NextExpression
<1>2. FindPair(text, "%", ">", s + 2) = e /\ ~(e > Len(text))
  BY <1>0, PairFound DEF FirstPair, NextExpression
<1>. QED  BY <1>1, <1>2 DEF Turn, Expanded

LEMMA TurnTakes ==
    ASSUME NEW text \in Seq(STRING), NEW variables, NEW position \in Nat, NEW from
    PROVE  /\ Plainly(text, position)
                => Turn(text, variables, position, from) = SubSeq(text, position, Len(text))
           /\ \/ Plainly(text, position)
              \/ \E s \in position..(Len(text) - 1) : \E e \in (s + 2)..(Len(text) - 1) :
                    NextExpression(text, position, s, e)
<1>0. PICK len : len = Len(text) /\ len \in Nat
  BY LenProperties
<1>1. ASSUME NoPair(text, "<", "%", position)
      PROVE  Turn(text, variables, position, from) = SubSeq(text, position, Len(text))
  <2>1. FindPair(text, "<", "%", position) > Len(text)
    BY <1>0, <1>1, PairFound
  <2>. QED  BY <2>1 DEF Turn
<1>2. ASSUME NEW s \in Nat, FirstPair(text, "<", "%", position, s), NoPair(text, "%", ">", s + 2)
      PROVE  Turn(text, variables, position, from) = SubSeq(text, position, Len(text))
  <2>1. FindPair(text, "<", "%", position) = s
    BY <1>2, PairFound
  <2>2. FindPair(text, "%", ">", s + 2) = Len(text) + 1 /\ Len(text) + 1 > Len(text)
    BY <1>0, <1>2, PairFound
  <2>. QED  BY <2>1, <2>2 DEF Turn
<1>4. ASSUME ~Plainly(text, position)
      PROVE  \E s \in position..(Len(text) - 1) : \E e \in (s + 2)..(Len(text) - 1) :
                    NextExpression(text, position, s, e)
  <2>1. PICK s \in position..(Len(text) - 1) : FirstPair(text, "<", "%", position, s)
    BY <1>4, PairFound DEF Plainly
  <2>2. ~NoPair(text, "%", ">", s + 2) /\ s + 2 \in Nat
    BY <1>4, <2>1 DEF Plainly
  <2>3. PICK e \in (s + 2)..(Len(text) - 1) : FirstPair(text, "%", ">", s + 2, e)
    BY <2>2, PairFound
  <2>. QED  BY <2>1, <2>3 DEF NextExpression
<1>5. \A s \in position..(Len(text) - 1) : s \in Nat
  OBVIOUS
<1>. QED  BY <1>1, <1>2, <1>4, <1>5 DEF Plainly

LEMMA TurnLooksAhead ==
    ASSUME NEW text \in Seq(STRING), NEW variables, NEW position \in Nat, NEW f, NEW g,
           \A k \in (position + 1)..(Len(text) + 1) : f[k] = g[k]
    PROVE  Turn(text, variables, position, f) = Turn(text, variables, position, g)
<1>1. CASE Plainly(text, position)
  <2>1. Turn(text, variables, position, f) = SubSeq(text, position, Len(text))
    BY <1>1, TurnTakes
  <2>2. Turn(text, variables, position, g) = SubSeq(text, position, Len(text))
    BY <1>1, TurnTakes
  <2>. QED  BY <2>1, <2>2
<1>2. ASSUME NEW s \in position..(Len(text) - 1), NEW e \in (s + 2)..(Len(text) - 1),
             NextExpression(text, position, s, e)
      PROVE  Turn(text, variables, position, f) = Turn(text, variables, position, g)
  <2>1. s \in Nat /\ e \in Nat /\ e + 2 \in (position + 1)..(Len(text) + 1)
    BY LenProperties
  <2>2. f[e + 2] = g[e + 2]
    BY <2>1
  <2>3. Turn(text, variables, position, f)
           = Expanded(text, variables, position, s, e, f)
    BY <1>2, <2>1, TurnExpands
  <2>4. Turn(text, variables, position, g)
           = Expanded(text, variables, position, s, e, g)
    BY <1>2, <2>1, TurnExpands
  <2>. QED  BY <2>2, <2>3, <2>4 DEF Expanded
<1>. QED  BY <1>1, <1>2, TurnTakes

LEMMA RenderedExists ==
    ASSUME NEW text \in Seq(STRING), NEW variables
    PROVE  \E f : Rendered(text, variables, 1, f)
<1>0. PICK len : len = Len(text) /\ len \in Nat
  BY LenProperties
<1> DEFINE S == {d \in Nat : d <= len + 1 => \E f : Rendered(text, variables, len + 2 - d, f)}
<1>1. 0 \in S
  <2>1. (len + 2 - 0)..(len + 1) = {}
    BY <1>0
  <2> DEFINE f == [position \in (len + 2 - 0)..(len + 1) |-> 0]
  <2>2. f = [position \in (len + 2 - 0)..(len + 1) |-> Turn(text, variables, position, f)]
    BY <2>1
  <2>3. Rendered(text, variables, len + 2 - 0, f)
    BY <1>0, <2>2 DEF Rendered
  <2>. QED  BY <2>3
<1>2. ASSUME NEW d \in Nat, d \in S PROVE d + 1 \in S
  <2> SUFFICES ASSUME d + 1 <= len + 1
               PROVE  \E f : Rendered(text, variables, len + 2 - (d + 1), f)
    OBVIOUS
  <2>1. PICK m : m = len + 2 - d /\ m - 1 = len + 2 - (d + 1) /\ m \in 2..(len + 2)
    BY <1>0
  <2>2. PICK f : Rendered(text, variables, m, f)
    BY <1>0, <1>2, <2>1
  <2> DEFINE g == [position \in (m - 1)..(len + 1) |->
                      IF position = m - 1 THEN Turn(text, variables, position, f)
                                          ELSE f[position]]
  <2>3. \A k \in m..(len + 1) : g[k] = f[k] /\ f[k] = Turn(text, variables, k, f)
    <3> SUFFICES ASSUME NEW k \in m..(len + 1)
                 PROVE  g[k] = f[k] /\ f[k] = Turn(text, variables, k, f)
      OBVIOUS
    <3>1. k \in (m - 1)..(len + 1) /\ k # m - 1 /\ k \in m..(Len(text) + 1)
      BY <1>0, <2>1
    <3>2. f[k] = Turn(text, variables, k, f)
      BY <2>2, <3>1 DEF Rendered
    <3>. QED  BY <3>1, <3>2
  <2>4. ASSUME NEW k \in (m - 1)..(len + 1) PROVE g[k] = Turn(text, variables, k, g)
    <3>1. k \in Nat /\ \A j \in (k + 1)..(Len(text) + 1) : g[j] = f[j]
      BY <1>0, <2>1, <2>3
    <3>2. Turn(text, variables, k, g) = Turn(text, variables, k, f)
      <4> HIDE DEF g
      <4>. QED  BY <3>1, TurnLooksAhead
    <3>3. CASE k = m - 1
      <4>1. g[k] = Turn(text, variables, k, f)
        BY <3>3
      <4>. QED  BY <3>2, <4>1
    <3>4. CASE k \in m..(len + 1)
      BY <2>3, <3>2, <3>4
    <3>. QED  BY <2>1, <3>3, <3>4
  <2>5. DOMAIN g = (m - 1)..(len + 1) /\ g = [k \in DOMAIN g |-> g[k]]
    OBVIOUS
  <2> HIDE DEF g
  <2>6. g = [k \in (m - 1)..(len + 1) |-> Turn(text, variables, k, g)]
    BY <2>4, <2>5
  <2>7. Rendered(text, variables, m - 1, g)
    BY <1>0, <2>6 DEF Rendered
  <2>. QED  BY <2>1, <2>7
<1> HIDE DEF S
<1>3. len + 1 \in S
  BY <1>0, <1>1, <1>2, SetInduction
<1>4. len + 2 - (len + 1) = 1
  BY <1>0
<1>. QED  BY <1>0, <1>3, <1>4 DEF S

(* From every place of the text on, f is what is made of it.               *)
Renders(text, variables, f) ==
    \A k \in 1..(Len(text) + 1) : f[k] = Turn(text, variables, k, f)

LEMMA RenderIs ==
    ASSUME NEW text \in Seq(STRING), NEW variables
    PROVE  \E f : Render(text, variables) = f[1] /\ Renders(text, variables, f)
<1> DEFINE f == CHOOSE f : Rendered(text, variables, 1, f)
<1>1. Rendered(text, variables, 1, f)
  BY RenderedExists
<1>2. Render(text, variables) = f[1]
  BY DEF Render, Rendered, Turn
<1> HIDE DEF f
<1>3. \A k \in 1..(Len(text) + 1) : f[k] = Turn(text, variables, k, f)
  BY <1>1 DEF Rendered
<1>. QED  BY <1>2, <1>3 DEF Renders

(* Backwards from the end of a text.                                       *)
LEMMA Descending ==
    ASSUME NEW n \in Nat, NEW S,
           \A k \in 1..(n + 1) : (\A j \in (k + 1)..(n + 1) : j \in S) => k \in S
    PROVE  \A k \in 1..(n + 1) : k \in S
<1> SUFFICES ASSUME NEW bad \in 1..(n + 1), bad \notin S PROVE FALSE
  OBVIOUS
<1> DEFINE T == {d \in 0..n : n + 1 - d \notin S}
<1>1. T \in SUBSET Nat /\ n + 1 - bad \in T
  <2>1. n + 1 - bad \in 0..n /\ n + 1 - (n + 1 - bad) = bad
    OBVIOUS
  <2>. QED  BY <2>1
<1>2. PICK m \in T : \A k \in T : m <= k
  BY <1>1, LeastNatural
<1>3. ASSUME NEW j \in (n + 1 - m + 1)..(n + 1) PROVE j \in S
  <2>1. m \in 0..n
    BY <1>2
  <2>2. n + 1 - j \in 0..n /\ ~(m <= n + 1 - j) /\ n + 1 - (n + 1 - j) = j
    BY <2>1
  <2>3. n + 1 - j \notin T
    BY <1>2, <2>2
  <2>. QED  BY <2>2, <2>3
<1>4. n + 1 - m \in 1..(n + 1) /\ n + 1 - m \notin S
  BY <1>2
<1>. QED  BY <1>3, <1>4

(* A part of a text.                                                       *)
LEMMA Part ==
    ASSUME NEW x \in Seq(STRING), NEW a \in 1..(Len(x) + 1), NEW b \in 0..Len(x), a <= b + 1
    PROVE  /\ SubSeq(x, a, b) \in Seq(STRING) /\ Len(SubSeq(x, a, b)) = b - a + 1
           /\ \A i \in 1..(b - a + 1) : SubSeq(x, a, b)[i] = x[a + i - 1]
<1>0. PICK len : len = Len(x) /\ len \in Nat
  BY LenProperties
<1>1. a \in Int /\ b \in Int
  BY <1>0
<1>2. \A i \in a..b : x[i] \in STRING
  <2>1. \A i \in a..b : i \in 1..len
    BY <1>0
  <2>. QED  BY <1>0, <2>1, ElementOfSeq
<1> DEFINE part == SubSeq(x, a, b)
<1>3. /\ part \in Seq(STRING) /\ Len(part) = (IF a <= b THEN b - a + 1 ELSE 0)
      /\ \A i \in 1..(b - a + 1) : part[i] = x[a + i - 1]
  BY <1>1, <1>2, SubSeqProperties
<1> HIDE DEF part
<1>4. Len(part) = b - a + 1
  BY <1>1, <1>3
<1>. QED  BY <1>3, <1>4 DEF part

(* The same characters at another place.                                   *)
LEMMA SamePart ==
    ASSUME NEW x \in Seq(STRING), NEW a \in 1..(Len(x) + 1), NEW b \in 0..Len(x), a <= b + 1,
           NEW y \in Seq(STRING), Len(y) = b - a + 1,
           \A i \in 1..Len(y) : x[a + i - 1] = y[i]
    PROVE  SubSeq(x, a, b) = y
<1> DEFINE part == SubSeq(x, a, b)
<1>1. /\ part \in Seq(STRING) /\ Len(part) = b - a + 1
      /\ \A i \in 1..(b - a + 1) : part[i] = x[a + i - 1]
  BY Part
<1> HIDE DEF part
<1>2. \A i \in 1..Len(part) : part[i] = y[i]
  BY <1>1
<1>3. part = y
  BY <1>1, <1>2, SeqEqual
<1>. QED  BY <1>3 DEF part

LEMMA SplitPart ==
    ASSUME NEW x \in Seq(STRING), NEW a \in 1..(Len(x) + 1), NEW c \in 0..Len(x),
           NEW b \in (a - 1)..c
    PROVE  SubSeq(x, a, c) = SubSeq(x, a, b) \o SubSeq(x, b + 1, c)
<1>0. PICK len : len = Len(x) /\ len \in Nat
  BY LenProperties
<1> DEFINE one == SubSeq(x, a, b)
           two == SubSeq(x, b + 1, c)
<1>1. a \in 1..(Len(x) + 1) /\ b \in 0..Len(x) /\ a <= b + 1
  BY <1>0
<1>2. b + 1 \in 1..(Len(x) + 1) /\ c \in 0..Len(x) /\ b + 1 <= c + 1 /\ c - (b + 1) + 1 = c - b
  BY <1>0
<1>3. /\ one \in Seq(STRING) /\ Len(one) = b - a + 1
      /\ \A i \in 1..(b - a + 1) : one[i] = x[a + i - 1]
  BY <1>1, Part
<1>4. /\ two \in Seq(STRING) /\ Len(two) = c - b
      /\ \A i \in 1..(c - b) : two[i] = x[b + 1 + i - 1]
  BY <1>2, Part
<1> HIDE DEF one, two
<1>5. /\ one \o two \in Seq(STRING) /\ Len(one \o two) = (b - a + 1) + (c - b)
      /\ \A i \in 1..(b - a + 1) : (one \o two)[i] = one[i]
      /\ \A i \in 1..(c - b) : (one \o two)[(b - a + 1) + i] = two[i]
  <2>1. PICK n, m : n = b - a + 1 /\ m = c - b
    OBVIOUS
  <2>2. one \in Seq(STRING) /\ Len(one) = n /\ two \in Seq(STRING) /\ Len(two) = m
    BY <1>3, <1>4, <2>1
  <2>3. /\ one \o two \in Seq(STRING) /\ Len(one \o two) = n + m
        /\ \A i \in 1..n : (one \o two)[i] = one[i]
        /\ \A i \in 1..m : (one \o two)[n + i] = two[i]
    BY <2>2, Joined
  <2>. QED  BY <2>1, <2>3
<1>6. ASSUME NEW i \in 1..Len(one \o two) PROVE x[a + i - 1] = (one \o two)[i]
  <2>1. CASE i \in 1..(b - a + 1)
    BY <1>3, <1>5, <2>1
  <2>2. CASE i \notin 1..(b - a + 1)
    <3>1. PICK k \in 1..(c - b) : i = (b - a + 1) + k
      <4>1. i - (b - a + 1) \in 1..(c - b) /\ i = (b - a + 1) + (i - (b - a + 1))
        BY <1>1, <1>5, <2>2
      <4>. QED  BY <4>1
    <3>2. a + i - 1 = b + 1 + k - 1
      BY <1>1, <3>1
    <3>. QED  BY <1>4, <1>5, <3>1, <3>2
  <2>. QED  BY <2>1, <2>2
<1>7. Len(one \o two) = c - a + 1 /\ a <= c + 1
  BY <1>1, <1>2, <1>5
<1>8. SubSeq(x, a, c) = one \o two
  BY <1>1, <1>2, <1>5, <1>6, <1>7, SamePart
<1>. QED  BY <1>8 DEF one, two

-----------------------------------------------------------------------------
(* Where an expression lies.                                               *)
LEMMA ExpressionLies ==
    ASSUME NEW text \in Seq(STRING), NEW position \in 1..(Len(text) + 1),
           NEW s \in Nat, NEW e \in Nat, NextExpression(text, position, s, e)
    PROVE  /\ position <= s /\ s + 2 <= e /\ e + 1 <= Len(text)
           /\ s \in 1..Len(text) /\ e \in 1..Len(text) /\ Len(text) \in Nat
<1>. QED  BY LenProperties DEF NextExpression, FirstPair

(* Without variables a text is rendered as it is.                          *)
LEMMA RendersNothing ==
    ASSUME NEW text \in Seq(STRING)
    PROVE  Render(text, NoVariables) = text
<1>0. PICK len : len = Len(text) /\ len \in Nat
  BY LenProperties
<1>1. PICK f : /\ Render(text, NoVariables) = f[1]
               /\ \A k \in 1..(Len(text) + 1) : f[k] = Turn(text, NoVariables, k, f)
  BY RenderIs DEF Renders
<1> DEFINE S == {k \in 1..(len + 1) : f[k] = SubSeq(text, k, len)}
<1>2. ASSUME NEW k \in 1..(len + 1), \A j \in (k + 1)..(len + 1) : j \in S
      PROVE  k \in S
  <2>0. k \in Nat /\ k \in 1..(Len(text) + 1)
    BY <1>0
  <2>1. CASE Plainly(text, k)
    <3>1. Turn(text, NoVariables, k, f) = SubSeq(text, k, Len(text))
      BY <2>0, <2>1, TurnTakes
    <3>. QED  BY <1>0, <1>1, <3>1
  <2>2. ASSUME NEW s \in Nat, NEW e \in Nat, NextExpression(text, k, s, e)
        PROVE  k \in S
    <3>1. /\ k <= s /\ s + 2 <= e /\ e + 1 <= len
          /\ s \in 1..len /\ e \in 1..len
      BY <1>0, <2>0, <2>2, ExpressionLies
    <3>2. f[k] = Expanded(text, NoVariables, k, s, e, f)
      BY <1>0, <1>1, <2>0, <2>2, TurnExpands
    <3>3. Expression(text, s, e, NoVariables) = SubSeq(text, s, e + 1)
      BY DEF Expression, NoVariables
    <3>4. e + 2 \in (k + 1)..(len + 1)
      BY <1>0, <3>1
    <3>5. f[e + 2] = SubSeq(text, e + 2, len)
      BY <1>2, <3>4
    <3>6. SubSeq(text, k, s - 1) \o SubSeq(text, s, e + 1) = SubSeq(text, k, e + 1)
      <4>1. s - 1 \in (k - 1)..(e + 1) /\ e + 1 \in 0..Len(text) /\ (s - 1) + 1 = s
        BY <1>0, <3>1
      <4>. QED  BY <2>0, <4>1, SplitPart
    <3>7. SubSeq(text, k, e + 1) \o SubSeq(text, e + 2, len) = SubSeq(text, k, len)
      <4>1. e + 1 \in (k - 1)..len /\ len \in 0..Len(text) /\ (e + 1) + 1 = e + 2
        BY <1>0, <3>1
      <4>. QED  BY <2>0, <4>1, SplitPart
    <3>8. f[k] = SubSeq(text, k, len)
      BY <3>2, <3>3, <3>5, <3>6, <3>7 DEF Expanded
    <3>. QED  BY <3>8
  <2>3. \A s \in k..(Len(text) - 1) : \A e \in (s + 2)..(Len(text) - 1) : s \in Nat /\ e \in Nat
    BY <2>0
  <2>4. \/ Plainly(text, k)
        \/ \E s \in k..(Len(text) - 1) : \E e \in (s + 2)..(Len(text) - 1) :
              NextExpression(text, k, s, e)
    BY <2>0, TurnTakes
  <2>. QED  BY <2>1, <2>2, <2>3, <2>4
<1> HIDE DEF S
<1>3. 1 \in S
  <2>1. \A k \in 1..(len + 1) : k \in S
    BY <1>0, <1>2, Descending
  <2>. QED  BY <1>0, <2>1
<1>4. f[1] = SubSeq(text, 1, len)
  BY <1>3 DEF S
<1>5. SubSeq(text, 1, len) = text
  <2>1. 1 \in 1..(Len(text) + 1) /\ len \in 0..Len(text) /\ 1 <= len + 1 /\ Len(text) = len - 1 + 1
    BY <1>0
  <2>2. \A i \in 1..Len(text) : text[1 + i - 1] = text[i]
    BY <1>0
  <2>. QED  BY <2>1, <2>2, SamePart
<1>. QED  BY <1>1, <1>4, <1>5

Texts(variables) == \A name \in DOMAIN variables : variables[name] \in Seq(STRING)

LEMMA ExpressionIsText ==
    ASSUME NEW text \in Seq(STRING), NEW variables, Texts(variables),
           NEW position \in 1..(Len(text) + 1),
           NEW s \in Nat, NEW e \in Nat, NextExpression(text, position, s, e)
    PROVE  Expression(text, s, e, variables) \in Seq(STRING)
<1>1. /\ s + 2 <= e /\ e + 1 <= Len(text)
      /\ s \in 1..Len(text) /\ e \in 1..Len(text) /\ Len(text) \in Nat
  BY ExpressionLies
<1>2. s \in 1..(Len(text) + 1) /\ e + 1 \in 0..Len(text) /\ s <= (e + 1) + 1
  BY <1>1
<1>3. SubSeq(text, s, e + 1) \in Seq(STRING)
  BY <1>2, Part
<1>. QED  BY <1>3 DEF Expression, Texts

(* What is rendered is text, from every place on.                          *)
LEMMA RendersText ==
    ASSUME NEW text \in Seq(STRING), NEW variables, Texts(variables), NEW f, Renders(text, variables, f)
    PROVE  \A k \in 1..(Len(text) + 1) : f[k] \in Seq(STRING)
<1>0. PICK len : len = Len(text) /\ len \in Nat
  BY LenProperties
<1>a. \A k \in 1..(Len(text) + 1) : f[k] = Turn(text, variables, k, f)
  BY DEF Renders
<1> DEFINE S == {k \in 1..(len + 1) : f[k] \in Seq(STRING)}
<1>1. ASSUME NEW k \in 1..(len + 1), \A j \in (k + 1)..(len + 1) : j \in S
      PROVE  k \in S
  <2>0. k \in Nat /\ k \in 1..(Len(text) + 1)
    BY <1>0
  <2>1. CASE Plainly(text, k)
    <3>1. Turn(text, variables, k, f) = SubSeq(text, k, Len(text))
      BY <2>0, <2>1, TurnTakes
    <3>2. SubSeq(text, k, Len(text)) \in Seq(STRING)
      <4>1. Len(text) \in 0..Len(text) /\ k <= Len(text) + 1
        BY <1>0
      <4>. QED  BY <2>0, <4>1, Part
    <3>. QED  BY <1>a, <2>0, <3>1, <3>2
  <2>2. ASSUME NEW s \in Nat, NEW e \in Nat, NextExpression(text, k, s, e)
        PROVE  k \in S
    <3>1. /\ k <= s /\ s + 2 <= e /\ e + 1 <= len
          /\ s \in 1..len /\ e \in 1..len
      BY <1>0, <2>0, <2>2, ExpressionLies
    <3>2. f[k] = Expanded(text, variables, k, s, e, f)
      BY <1>0, <1>a, <2>0, <2>2, TurnExpands
    <3>3. Expression(text, s, e, variables) \in Seq(STRING)
      BY <2>0, <2>2, ExpressionIsText
    <3>4. e + 2 \in (k + 1)..(len + 1)
      BY <1>0, <3>1
    <3>5. f[e + 2] \in Seq(STRING)
      BY <1>1, <3>4
    <3>6. SubSeq(text, k, s - 1) \in Seq(STRING)
      <4>1. s - 1 \in 0..Len(text) /\ k <= (s - 1) + 1
        BY <1>0, <3>1
      <4>. QED  BY <2>0, <4>1, Part
    <3>7. Expanded(text, variables, k, s, e, f) \in Seq(STRING)
      BY <3>3, <3>5, <3>6, ConcatProperties DEF Expanded
    <3>. QED  BY <3>2, <3>7
  <2>3. \A s \in k..(Len(text) - 1) : \A e \in (s + 2)..(Len(text) - 1) : s \in Nat /\ e \in Nat
    BY <2>0
  <2>4. \/ Plainly(text, k)
        \/ \E s \in k..(Len(text) - 1) : \E e \in (s + 2)..(Len(text) - 1) :
              NextExpression(text, k, s, e)
    BY <2>0, TurnTakes
  <2>. QED  BY <2>1, <2>2, <2>3, <2>4
<1> HIDE DEF S
<1>2. \A k \in 1..(len + 1) : k \in S
  BY <1>0, <1>1, Descending
<1>. QED  BY <1>0, <1>2 DEF S

-----------------------------------------------------------------------------
(* Text x ends the text total, from q on.                                  *)
EndsWith(total, q, x) ==
    /\ q \in 1..(Len(total) + 1) /\ Len(x) = Len(total) + 1 - q
    /\ \A i \in 1..Len(x) : total[q + i - 1] = x[i]

LEMMA EndsWithBoth ==
    ASSUME NEW total \in Seq(STRING), NEW q, NEW x \in Seq(STRING), NEW y \in Seq(STRING),
           EndsWith(total, q, x \o y)
    PROVE  /\ q \in 1..(Len(total) + 1) /\ q + Len(x) \in 1..(Len(total) + 1)
           /\ Len(x) \in Nat
           /\ \A i \in 1..Len(x) : total[q + i - 1] = x[i]
           /\ EndsWith(total, q + Len(x), y)
<1>1. PICK n, m, L : n = Len(x) /\ m = Len(y) /\ L = Len(total) /\ L \in Nat
  BY LenProperties
<1>2. /\ Len(x \o y) = n + m /\ n \in Nat /\ m \in Nat
      /\ \A i \in 1..n : (x \o y)[i] = x[i]
      /\ \A i \in 1..m : (x \o y)[n + i] = y[i]
  BY <1>1, Joined
<1>3. /\ q \in 1..(L + 1) /\ n + m = L + 1 - q
      /\ \A i \in 1..(n + m) : total[q + i - 1] = (x \o y)[i]
  BY <1>1, <1>2 DEF EndsWith
<1>4. ASSUME NEW i \in 1..n PROVE total[q + i - 1] = x[i]
  <2>1. i \in 1..(n + m)
    BY <1>2
  <2>. QED  BY <1>2, <1>3, <2>1
<1>5. ASSUME NEW i \in 1..m PROVE total[q + n + i - 1] = y[i]
  <2>1. n + i \in 1..(n + m) /\ q + (n + i) - 1 = q + n + i - 1
    BY <1>2, <1>3
  <2>2. total[q + (n + i) - 1] = (x \o y)[n + i]
    BY <1>3, <2>1
  <2>. QED  BY <1>2, <2>1, <2>2
<1>6. q + n \in 1..(L + 1) /\ m = L + 1 - (q + n)
  BY <1>1, <1>2, <1>3
<1>7. EndsWith(total, q + n, y)
  BY <1>1, <1>5, <1>6 DEF EndsWith
<1>. QED  BY <1>1, <1>2, <1>3, <1>4, <1>6, <1>7

(* Pairs are found again where a text stands in another.                   *)
LEMMA PairMoves ==
    ASSUME NEW text \in Seq(STRING), NEW total \in Seq(STRING), NEW o \in Int,
           NEW c, NEW d, NEW from \in Nat, NEW r \in Nat,
           FirstPair(text, c, d, from, r), r + o + 1 <= Len(total),
           \A i \in from..(r + 1) : total[i + o] = text[i]
    PROVE  FirstPair(total, c, d, from + o, r + o)
<1>0. Len(total) \in Nat /\ Len(text) \in Nat
  BY LenProperties
<1>1. from <= r /\ text[r] = c /\ text[r + 1] = d
  BY DEF FirstPair, PairAt
<1>2. total[r + o] = c /\ total[(r + o) + 1] = d
  <2>1. r \in from..(r + 1) /\ r + 1 \in from..(r + 1) /\ (r + 1) + o = (r + o) + 1
    BY <1>1
  <2>. QED  BY <1>1, <2>1
<1>3. ASSUME NEW i \in (from + o)..((r + o) - 1) PROVE ~PairAt(total, c, d, i)
  <2>1. PICK j : /\ j \in from..(r - 1) /\ j \in from..(r + 1) /\ j + 1 \in from..(r + 1)
                 /\ i = j + o /\ i + 1 = (j + 1) + o
    <3>1. /\ i - o \in from..(r - 1) /\ i - o \in from..(r + 1)
          /\ (i - o) + 1 \in from..(r + 1)
          /\ i = (i - o) + o /\ i + 1 = ((i - o) + 1) + o
      OBVIOUS
    <3>. QED  BY <3>1
  <2>2. total[i] = text[j] /\ total[i + 1] = text[j + 1]
    BY <2>1
  <2>3. ~PairAt(text, c, d, j)
    BY <2>1 DEF FirstPair
  <2>. QED  BY <2>2, <2>3 DEF PairAt
<1>4. r + o \in (from + o)..(Len(total) - 1)
  BY <1>0, <1>1
<1>. QED  BY <1>2, <1>3, <1>4 DEF FirstPair, PairAt

LEMMA NoPairMoves ==
    ASSUME NEW text \in Seq(STRING), NEW total \in Seq(STRING), NEW o \in Int,
           NEW c, NEW d, NEW from \in Nat, NoPair(text, c, d, from),
           Len(total) = Len(text) + o,
           \A i \in from..Len(text) : total[i + o] = text[i]
    PROVE  NoPair(total, c, d, from + o)
<1>0. Len(total) \in Nat /\ Len(text) \in Nat
  BY LenProperties
<1> SUFFICES ASSUME NEW i \in (from + o)..(Len(total) - 1) PROVE ~PairAt(total, c, d, i)
  BY DEF NoPair
<1>1. PICK j : /\ j \in from..(Len(text) - 1) /\ j \in from..Len(text)
               /\ j + 1 \in from..Len(text)
               /\ i = j + o /\ i + 1 = (j + 1) + o
  <2>1. /\ i - o \in from..(Len(text) - 1) /\ i - o \in from..Len(text)
        /\ (i - o) + 1 \in from..Len(text)
        /\ i = (i - o) + o /\ i + 1 = ((i - o) + 1) + o
    BY <1>0
  <2>. QED  BY <2>1
<1>2. total[i] = text[j] /\ total[i + 1] = text[j + 1]
  BY <1>1
<1>3. ~PairAt(text, c, d, j)
  BY <1>1 DEF NoPair
<1>. QED  BY <1>2, <1>3 DEF PairAt

-----------------------------------------------------------------------------
(* A part of a text that stands in another.                                *)
StandsIn(text, a, b, total, c, d) == SubSeq(total, c, d) = SubSeq(text, a, b)

LEMMA MovedPart ==
    ASSUME NEW text \in Seq(STRING), NEW total \in Seq(STRING), NEW o \in Int,
           NEW a \in 1..(Len(text) + 1), NEW b \in 0..Len(text), a <= b + 1,
           NEW c, NEW d, c = a + o, d = b + o, 1 <= c, d <= Len(total),
           \A i \in a..b : total[i + o] = text[i]
    PROVE  StandsIn(text, a, b, total, c, d)
<1>0. Len(total) \in Nat /\ Len(text) \in Nat
  BY LenProperties
<1> DEFINE part == SubSeq(text, a, b)
<1>1. /\ part \in Seq(STRING) /\ Len(part) = b - a + 1
      /\ \A i \in 1..(b - a + 1) : part[i] = text[a + i - 1]
  BY Part
<1> HIDE DEF part
<1>2. c \in 1..(Len(total) + 1) /\ d \in 0..Len(total) /\ c <= d + 1 /\ Len(part) = d - c + 1
  BY <1>0, <1>1
<1>3. ASSUME NEW i \in 1..Len(part) PROVE total[c + i - 1] = part[i]
  <2>1. a + i - 1 \in a..b /\ (a + i - 1) + o = c + i - 1 /\ i \in 1..(b - a + 1)
    <3>1. i \in 1..(b - a + 1)
      BY <1>1
    <3>2. a \in Nat /\ b \in Nat
      BY <1>0
    <3>. QED  BY <3>1, <3>2
  <2>2. total[(a + i - 1) + o] = text[a + i - 1]
    BY <2>1
  <2>. QED  BY <1>1, <2>1, <2>2
<1>4. SubSeq(total, c, d) = part
  BY <1>1, <1>2, <1>3, SamePart
<1>. QED  BY <1>4 DEF part, StandsIn

Regroups(a, b, c, d) == ((a \o b) \o c) \o d = a \o ((b \o c) \o d)

LEMMA FourJoined ==
    ASSUME NEW a \in Seq(STRING), NEW b \in Seq(STRING), NEW c \in Seq(STRING),
           NEW d \in Seq(STRING)
    PROVE  Regroups(a, b, c, d)
<1> DEFINE S == STRING
<1>1. a \in Seq(S) /\ b \in Seq(S) /\ c \in Seq(S) /\ d \in Seq(S)
  OBVIOUS
<1> HIDE DEF S
<1>2. b \o c \in Seq(S)
  BY <1>1, ConcatProperties
<1>3. (a \o b) \o c = a \o (b \o c)
  BY <1>1, ConcatAssociative
<1> DEFINE bc == b \o c
<1>4. bc \in Seq(S)
  BY <1>2
<1> HIDE DEF bc
<1>5. (a \o bc) \o d = a \o (bc \o d)
  BY <1>1, <1>4, ConcatAssociative
<1>. QED  BY <1>3, <1>5 DEF bc, Regroups

(* No expression begins between two places.                                *)
NoneBegins(total, q, r) ==
    \A i \in q..(r - 1) : i < Len(total) => ~PairAt(total, "<", "%", i)

Skips(total, g, q, r) == g[q] = SubSeq(total, q, r - 1) \o g[r]

(* Rendering passes over text in which no expression begins.               *)
LEMMA RenderSkips ==
    ASSUME NEW total \in Seq(STRING), NEW variables, Texts(variables), NEW g,
           Renders(total, variables, g),
           NEW q \in 1..(Len(total) + 1), NEW r \in q..(Len(total) + 1),
           NoneBegins(total, q, r)
    PROVE  Skips(total, g, q, r)
<1>0. PICK L : L = Len(total) /\ L \in Nat
  BY LenProperties
<1>b. \A i \in q..(r - 1) : i < Len(total) => ~PairAt(total, "<", "%", i)
  BY DEF NoneBegins
<1>a. \A k \in 1..(Len(total) + 1) : g[k] = Turn(total, variables, k, g)
  BY DEF Renders
<1>1. q \in Nat /\ r \in Nat /\ r \in 1..(L + 1) /\ q \in 1..(L + 1) /\ q <= r
  BY <1>0
<1>2. ASSUME NEW s, FirstPair(total, "<", "%", r, s)
      PROVE  FirstPair(total, "<", "%", q, s)
  <2>1. s \in r..(L - 1) /\ PairAt(total, "<", "%", s)
        /\ \A i \in r..(s - 1) : ~PairAt(total, "<", "%", i)
    BY <1>0, <1>2 DEF FirstPair
  <2>2. ASSUME NEW i \in q..(s - 1) PROVE ~PairAt(total, "<", "%", i)
    <3>1. i \in Int /\ s \in r..(L - 1) /\ i < L
      BY <1>0, <1>1, <2>1
    <3>2. (i \in q..(r - 1) /\ i < L) \/ i \in r..(s - 1)
      BY <1>0, <1>1, <3>1
    <3>. QED  BY <1>0, <1>b, <2>1, <3>2
  <2>3. s \in q..(L - 1)
    BY <1>1, <2>1
  <2>. QED  BY <1>0, <2>1, <2>2, <2>3 DEF FirstPair
<1>3. ASSUME NoPair(total, "<", "%", r)
      PROVE  NoPair(total, "<", "%", q)
  <2> SUFFICES ASSUME NEW i \in q..(L - 1) PROVE ~PairAt(total, "<", "%", i)
    BY <1>0 DEF NoPair
  <2>1. (i \in q..(r - 1) /\ i < L) \/ i \in r..(L - 1)
    BY <1>0, <1>1
  <2>. QED  BY <1>0, <1>b, <1>3, <2>1 DEF NoPair
<1>4. CASE Plainly(total, r)
  <2>1. Plainly(total, q)
    <3>1. \A s \in r..(Len(total) - 1) : s \in q..(Len(total) - 1)
      BY <1>0, <1>1
    <3>. QED  BY <1>2, <1>3, <1>4, <3>1 DEF Plainly
  <2>2. g[q] = SubSeq(total, q, L)
    BY <1>0, <1>a, <1>1, <2>1, TurnTakes
  <2>3. g[r] = SubSeq(total, r, L)
    BY <1>0, <1>a, <1>1, <1>4, TurnTakes
  <2>4. SubSeq(total, q, L) = SubSeq(total, q, r - 1) \o SubSeq(total, r, L)
    <3>1. L \in 0..Len(total) /\ r - 1 \in (q - 1)..L /\ (r - 1) + 1 = r
      BY <1>0, <1>1
    <3>. QED  BY <3>1, SplitPart
  <2>. QED  BY <2>2, <2>3, <2>4 DEF Skips
<1>5. ASSUME NEW s \in Nat, NEW e \in Nat, NextExpression(total, r, s, e)
      PROVE  g[q] = SubSeq(total, q, r - 1) \o g[r]
  <2>0. r \in 1..(Len(total) + 1)
    BY <1>0, <1>1
  <2>1. NextExpression(total, q, s, e)
    BY <1>2, <1>5 DEF NextExpression
  <2>2. g[q] = Expanded(total, variables, q, s, e, g)
    BY <1>0, <1>a, <1>1, <2>1, TurnExpands
  <2>3. g[r] = Expanded(total, variables, r, s, e, g)
    BY <1>0, <1>a, <1>1, <1>5, TurnExpands
  <2>4. /\ r <= s /\ s + 2 <= e /\ e + 1 <= L
        /\ s \in 1..L /\ e \in 1..L
    BY <1>0, <1>5, <2>0, ExpressionLies
  <2>5. SubSeq(total, q, s - 1) = SubSeq(total, q, r - 1) \o SubSeq(total, r, s - 1)
    <3>1. s - 1 \in 0..Len(total) /\ r - 1 \in (q - 1)..(s - 1) /\ (r - 1) + 1 = r
      BY <1>0, <1>1, <2>4
    <3>. QED  BY <3>1, SplitPart
  <2> DEFINE a == SubSeq(total, q, r - 1)
             b == SubSeq(total, r, s - 1)
             c == Expression(total, s, e, variables)
             d == g[e + 2]
  <2>6. a \in Seq(STRING)
    <3>1. r - 1 \in 0..Len(total) /\ q <= (r - 1) + 1
      BY <1>0, <1>1
    <3>. QED  BY <3>1, Part
  <2>7. b \in Seq(STRING)
    <3>1. s - 1 \in 0..Len(total) /\ r <= (s - 1) + 1
      BY <1>0, <1>1, <2>4
    <3>. QED  BY <2>0, <3>1, Part
  <2>8. c \in Seq(STRING)
    BY <1>5, <2>0, ExpressionIsText
  <2>9. d \in Seq(STRING)
    <3>1. e + 2 \in 1..(Len(total) + 1)
      BY <1>0, <2>4
    <3>. QED  BY <3>1, RendersText
  <2>10. g[q] = ((a \o b) \o c) \o d /\ g[r] = (b \o c) \o d
    BY <2>2, <2>3, <2>5 DEF Expanded
  <2> HIDE DEF a, b, c, d
  <2>11. Regroups(a, b, c, d)
    BY <2>6, <2>7, <2>8, <2>9, FourJoined
  <2>12. ((a \o b) \o c) \o d = a \o ((b \o c) \o d)
    BY <2>11 DEF Regroups
  <2>13. g[q] = a \o g[r]
    BY <2>10, <2>12
  <2>. QED  BY <2>13 DEF a
<1>6. \A s \in r..(Len(total) - 1) : \A e \in (s + 2)..(Len(total) - 1) : s \in Nat /\ e \in Nat
  BY <1>1
<1>7. \/ Plainly(total, r)
      \/ \E s \in r..(Len(total) - 1) : \E e \in (s + 2)..(Len(total) - 1) :
            NextExpression(total, r, s, e)
  BY <1>1, TurnTakes
<1>. QED  BY <1>4, <1>5, <1>6, <1>7 DEF Skips

AsIs(variables) == \A name \in DOMAIN variables : Plain(variables[name])

Both(site, request) ==
    [name \in DOMAIN site \cup DOMAIN request |->
        IF name \in DOMAIN site THEN site[name] ELSE request[name]]

(* The second rendering of what is left of the text, and the one with all  *)
(* variables.                                                              *)
LEMMA TurnsAgree ==
    ASSUME NEW text \in Seq(STRING), NEW site, NEW request, Texts(site), Texts(request), AsIs(site),
           NEW total \in Seq(STRING), NEW f, NEW g, NEW h,
           Renders(text, site, f), Renders(total, request, g), Renders(text, Both(site, request), h),
           NEW p \in 1..(Len(text) + 1), NEW q, EndsWith(total, q, f[p]),
           \A k \in (p + 1)..(Len(text) + 1) :
              \A r : EndsWith(total, r, f[k]) => g[r] = h[k]
    PROVE  g[q] = h[p]
<1>0. PICK n, L : n = Len(text) /\ n \in Nat /\ L = Len(total) /\ L \in Nat
  BY LenProperties
<1>1. PICK o : o = q - p
  OBVIOUS
<1>2. q \in 1..(L + 1) /\ p \in 1..(n + 1) /\ o \in Int /\ q = p + o /\ p \in Nat /\ q \in Nat
  BY <1>0, <1>1 DEF EndsWith
<1>a. /\ f[p] = Turn(text, site, p, f) /\ h[p] = Turn(text, Both(site, request), p, h)
      /\ g[q] = Turn(total, request, q, g)
  BY <1>0, <1>2 DEF Renders
<1>3. CASE Plainly(text, p)
  <2>1. f[p] = SubSeq(text, p, n) /\ h[p] = SubSeq(text, p, n)
    <3>1. Turn(text, site, p, f) = SubSeq(text, p, Len(text))
      BY <1>2, <1>3, TurnTakes
    <3>2. Turn(text, Both(site, request), p, h) = SubSeq(text, p, Len(text))
      BY <1>2, <1>3, TurnTakes
    <3>. QED  BY <1>0, <1>a, <3>1, <3>2
  <2>2. n \in 0..Len(text) /\ p <= n + 1
    BY <1>0, <1>2
  <2>3. /\ f[p] \in Seq(STRING) /\ Len(f[p]) = n - p + 1
        /\ \A i \in 1..(n - p + 1) : f[p][i] = text[p + i - 1]
    BY <2>1, <2>2, Part
  <2>4. n - p + 1 = L + 1 - q /\ \A i \in 1..(n - p + 1) : total[q + i - 1] = f[p][i]
    BY <1>0, <2>3 DEF EndsWith
  <2>5. L = n + o
    BY <1>0, <1>2, <2>4
  <2>6. ASSUME NEW i \in p..n PROVE total[i + o] = text[i]
    <3>1. PICK k \in 1..(n - p + 1) : i = p + k - 1 /\ i + o = q + k - 1
      <4>1. i - p + 1 \in 1..(n - p + 1) /\ i = p + (i - p + 1) - 1
            /\ i + o = q + (i - p + 1) - 1
        BY <1>0, <1>2
      <4>. QED  BY <4>1
    <3>. QED  BY <2>3, <2>4, <3>1
  <2>7. Plainly(total, q)
    <3>1. CASE NoPair(text, "<", "%", p)
      <4>1. NoPair(total, "<", "%", p + o)
        BY <1>0, <1>2, <2>5, <2>6, <3>1, NoPairMoves
      <4>. QED  BY <1>2, <4>1 DEF Plainly
    <3>2. CASE ~NoPair(text, "<", "%", p)
      <4>1. PICK s \in p..(Len(text) - 1) :
               FirstPair(text, "<", "%", p, s) /\ NoPair(text, "%", ">", s + 2)
        BY <1>3, <3>2 DEF Plainly
      <4>2. s \in Nat /\ s + 2 \in Nat /\ s + o + 1 <= L /\ s + o \in q..(L - 1)
        BY <1>0, <1>2, <2>5
      <4>3. \A i \in p..(s + 1) : total[i + o] = text[i]
        BY <1>0, <2>6
      <4>4. FirstPair(total, "<", "%", p + o, s + o)
        BY <1>0, <1>2, <4>1, <4>2, <4>3, PairMoves
      <4>5. \A i \in (s + 2)..Len(text) : total[i + o] = text[i]
        BY <1>0, <1>2, <2>6
      <4>6. NoPair(total, "%", ">", (s + 2) + o)
        <5>1. Len(total) = Len(text) + o
          BY <1>0, <2>5
        <5>2. NoPair(text, "%", ">", s + 2) /\ s + 2 \in Nat /\ o \in Int
          BY <1>2, <4>1, <4>2
        <5>. QED  BY <4>5, <5>1, <5>2, NoPairMoves
      <4>7. (s + 2) + o = (s + o) + 2
        BY <1>2
      <4>. QED  BY <1>0, <1>2, <4>2, <4>4, <4>6, <4>7 DEF Plainly
    <3>. QED  BY <3>1, <3>2
  <2>8. g[q] = SubSeq(total, q, L)
    <3>1. Turn(total, request, q, g) = SubSeq(total, q, Len(total))
      BY <1>2, <2>7, TurnTakes
    <3>. QED  BY <1>0, <1>a, <3>1
  <2>9. SubSeq(total, q, L) = f[p]
    <3>1. q \in 1..(Len(total) + 1) /\ L \in 0..Len(total) /\ q <= L + 1
          /\ Len(f[p]) = L - q + 1
      BY <1>0, <1>2, <2>3, <2>4
    <3>2. \A i \in 1..Len(f[p]) : total[q + i - 1] = f[p][i]
      BY <2>3, <2>4
    <3>. QED  BY <2>3, <3>1, <3>2, SamePart
  <2>. QED  BY <2>1, <2>8, <2>9
<1>4. ASSUME NEW s \in Nat, NEW e \in Nat, NextExpression(text, p, s, e)
      PROVE  g[q] = h[p]
  <2> DEFINE before == SubSeq(text, p, s - 1)
             middle == Expression(text, s, e, site)
             name == Trim(SubSeq(text, s + 2, e - 1))
  <2>1. /\ p <= s /\ s + 2 <= e /\ e + 1 <= n /\ s \in 1..n /\ e \in 1..n
        /\ e + 2 \in (p + 1)..(n + 1)
    BY <1>0, <1>2, <1>4, ExpressionLies
  <2>2. f[p] = (before \o middle) \o f[e + 2]
    <3>1. Turn(text, site, p, f) = Expanded(text, site, p, s, e, f)
      BY <1>2, <1>4, TurnExpands
    <3>. QED  BY <1>a, <3>1 DEF Expanded
  <2>3. h[p] = (before \o Expression(text, s, e, Both(site, request))) \o h[e + 2]
    <3>1. Turn(text, Both(site, request), p, h) = Expanded(text, Both(site, request), p, s, e, h)
      BY <1>2, <1>4, TurnExpands
    <3>. QED  BY <1>a, <3>1 DEF Expanded
  <2>4. /\ before \in Seq(STRING) /\ Len(before) = s - p
        /\ \A i \in 1..(s - p) : before[i] = text[p + i - 1]
    <3>1. s - 1 \in 0..Len(text) /\ p <= (s - 1) + 1 /\ (s - 1) - p + 1 = s - p
      BY <1>0, <1>2, <2>1
    <3>. QED  BY <3>1, Part
  <2>5. middle \in Seq(STRING)
    BY <1>4, ExpressionIsText
  <2>6. f[e + 2] \in Seq(STRING)
    <3>1. e + 2 \in 1..(Len(text) + 1)
      BY <1>0, <1>2, <2>1
    <3>2. \A k \in 1..(Len(text) + 1) : f[k] \in Seq(STRING)
      BY RendersText
    <3>. QED  BY <3>1, <3>2
  <2> HIDE DEF before, middle
  <2>7. before \o middle \in Seq(STRING)
    BY <2>4, <2>5, ConcatProperties
  <2>8. PICK m, r : /\ m = Len(middle) /\ m \in Nat /\ r = q + (s - p) + m
                    /\ Len(before \o middle) = (s - p) + m
                    /\ \A i \in 1..(s - p) : (before \o middle)[i] = before[i]
                    /\ \A i \in 1..m : (before \o middle)[(s - p) + i] = middle[i]
    <3>1. PICK a, m : a = s - p /\ a = Len(before) /\ m = Len(middle)
      BY <2>4
    <3>2. before \in Seq(STRING) /\ middle \in Seq(STRING) /\ Len(before) = a /\ Len(middle) = m
      BY <2>4, <2>5, <3>1
    <3>3. /\ Len(before \o middle) = a + m /\ m \in Nat
          /\ \A i \in 1..a : (before \o middle)[i] = before[i]
          /\ \A i \in 1..m : (before \o middle)[a + i] = middle[i]
      BY <3>2, Joined
    <3>. QED  BY <3>1, <3>3
  <2>9. /\ q + Len(before \o middle) \in 1..(L + 1)
        /\ \A i \in 1..Len(before \o middle) : total[q + i - 1] = (before \o middle)[i]
        /\ EndsWith(total, q + Len(before \o middle), f[e + 2])
    <3> DEFINE x == before \o middle
    <3>1. EndsWith(total, q, x \o f[e + 2]) /\ x \in Seq(STRING)
      BY <2>2, <2>7
    <3> HIDE DEF x
    <3>2. /\ q + Len(x) \in 1..(Len(total) + 1)
          /\ \A i \in 1..Len(x) : total[q + i - 1] = x[i]
          /\ EndsWith(total, q + Len(x), f[e + 2])
      BY <2>6, <3>1, EndsWithBoth
    <3>. QED  BY <1>0, <3>2 DEF x
  <2>10. q + Len(before \o middle) = r /\ r \in 1..(L + 1) /\ q <= r /\ r = s + o + m
    BY <1>2, <2>1, <2>8, <2>9
  <2>11. g[r] = h[e + 2]
    BY <1>0, <2>1, <2>9, <2>10
  <2>12. ASSUME NEW i \in p..(s - 1) PROVE total[i + o] = text[i]
    <3>1. PICK k \in 1..(s - p) : i = p + k - 1 /\ i + o = q + k - 1
      <4>1. i - p + 1 \in 1..(s - p) /\ i = p + (i - p + 1) - 1 /\ i + o = q + (i - p + 1) - 1
        BY <1>2, <2>1
      <4>. QED  BY <4>1
    <3>2. k \in 1..Len(before \o middle)
      BY <1>2, <2>1, <2>8, <3>1
    <3>. QED  BY <2>4, <2>8, <2>9, <3>1, <3>2
  <2>13. ASSUME NEW i \in 1..m PROVE total[(s + o - 1) + i] = middle[i]
    <3>1. (s - p) + i \in 1..Len(before \o middle) /\ q + ((s - p) + i) - 1 = (s + o - 1) + i
      BY <1>2, <2>1, <2>8
    <3>2. total[q + ((s - p) + i) - 1] = (before \o middle)[(s - p) + i]
      BY <2>9, <3>1
    <3>. QED  BY <2>8, <3>1, <3>2
  <2>14. SubSeq(total, q, s + o - 1) = before
    <3>1. /\ q \in 1..(Len(total) + 1) /\ s + o - 1 \in 0..Len(total) /\ q <= (s + o - 1) + 1
          /\ Len(before) = (s + o - 1) - q + 1
      <4>1. Len(before) = s - p
        BY <2>4
      <4>2. m \in Nat /\ r \in 1..(L + 1) /\ r = s + o + m
        BY <2>8, <2>10
      <4>. QED  BY <1>0, <1>2, <2>1, <4>1, <4>2
    <3>2. ASSUME NEW i \in 1..Len(before) PROVE total[q + i - 1] = before[i]
      <4>1. i \in 1..(s - p) /\ i \in 1..Len(before \o middle)
        BY <2>1, <2>4, <2>8
      <4>. QED  BY <2>8, <2>9, <4>1
    <3>. QED  BY <2>4, <3>1, <3>2, SamePart
  <2>15. CASE IsValidVariableName(name) /\ name \in DOMAIN site
    <3>1. middle = site[name] /\ Expression(text, s, e, Both(site, request)) = site[name]
      BY <2>15 DEF middle, Expression, Both
    <3>2. /\ middle # <<>> /\ middle[1] # "%" /\ Last(middle) # "<"
          /\ \A i \in 2..Len(middle) : <<middle[i - 1], middle[i]>> # <<"<", "%">>
      BY <2>15, <3>1 DEF AsIs, Plain
    <3>3. m # 0 /\ Last(middle) = middle[m]
      BY <2>5, <2>8, <3>2, EmptySeq DEF Last
    <3>4. ASSUME NEW i \in q..(r - 1), i < L PROVE ~PairAt(total, "<", "%", i)
      <4>1. CASE i < s + o - 1
        <5>1. PICK j : j \in p..(s - 2) /\ i = j + o /\ i + 1 = (j + 1) + o
                       /\ j \in p..(s - 1) /\ j + 1 \in p..(s - 1)
          <6>1. i - o \in p..(s - 2) /\ i = (i - o) + o /\ i + 1 = ((i - o) + 1) + o
                /\ i - o \in p..(s - 1) /\ (i - o) + 1 \in p..(s - 1)
            BY <1>2, <2>1, <4>1
          <6>. QED  BY <6>1
        <5>2. total[i] = text[j] /\ total[i + 1] = text[j + 1]
          BY <2>12, <5>1
        <5>3. ~PairAt(text, "<", "%", j)
          BY <1>4, <5>1 DEF NextExpression, FirstPair
        <5>. QED  BY <5>2, <5>3 DEF PairAt
      <4>2. CASE i = s + o - 1
        <5>1. total[(s + o - 1) + 1] = middle[1]
          BY <2>8, <2>13, <3>3
        <5>. QED  BY <3>2, <4>2, <5>1 DEF PairAt
      <4>3. CASE s + o - 1 < i
        <5>1. PICK j \in 1..m : i = (s + o - 1) + j
          <6>1. i - (s + o - 1) \in 1..m /\ i = (s + o - 1) + (i - (s + o - 1))
            BY <1>2, <2>8, <2>10, <4>3
          <6>. QED  BY <6>1
        <5>2. total[i] = middle[j]
          BY <2>13, <5>1
        <5>3. CASE j = m
          BY <3>2, <3>3, <5>2, <5>3 DEF PairAt
        <5>4. CASE j # m
          <6>1. j + 1 \in 1..m /\ j + 1 \in 2..Len(middle) /\ (j + 1) - 1 = j
                /\ i + 1 = (s + o - 1) + (j + 1)
            BY <1>2, <2>8, <5>1, <5>4
          <6>2. total[i + 1] = middle[j + 1]
            BY <2>13, <6>1
          <6>3. <<middle[j], middle[j + 1]>> # <<"<", "%">>
            BY <3>2, <6>1
          <6>. QED  BY <5>2, <6>2, <6>3 DEF PairAt
        <5>. QED  BY <5>3, <5>4
      <4>. QED  BY <1>2, <4>1, <4>2, <4>3
    <3>5. g[q] = SubSeq(total, q, r - 1) \o g[r]
      <4>1. q \in 1..(Len(total) + 1) /\ r \in q..(Len(total) + 1)
        BY <1>0, <1>2, <2>10
      <4>2. NoneBegins(total, q, r)
        BY <1>0, <3>4 DEF NoneBegins
      <4>3. Skips(total, g, q, r)
        BY <4>1, <4>2, RenderSkips
      <4>. QED  BY <4>3 DEF Skips
    <3>6. SubSeq(total, q, r - 1) = before \o middle
      <4>1. /\ q \in 1..(Len(total) + 1) /\ r - 1 \in 0..Len(total) /\ q <= (r - 1) + 1
            /\ Len(before \o middle) = (r - 1) - q + 1
        BY <1>0, <1>2, <2>1, <2>8, <2>10
      <4>. QED  BY <2>7, <2>9, <4>1, SamePart
    <3>. QED  BY <2>3, <2>11, <3>1, <3>5, <3>6
  <2>16. CASE ~(IsValidVariableName(name) /\ name \in DOMAIN site)
    <3>1. middle = SubSeq(text, s, e + 1)
      BY <2>16 DEF middle, Expression
    <3>2. m = e + 2 - s /\ \A i \in 1..m : middle[i] = text[s + i - 1]
      <4>1. /\ s \in 1..(Len(text) + 1) /\ e + 1 \in 0..Len(text) /\ s <= (e + 1) + 1
            /\ (e + 1) - s + 1 = e + 2 - s
        BY <1>0, <2>1
      <4>. QED  BY <2>8, <3>1, <4>1, Part
    <3>3. ASSUME NEW i \in p..(e + 1) PROVE total[i + o] = text[i]
      <4>1. CASE i \in p..(s - 1)
        BY <2>12, <4>1
      <4>2. CASE i \in s..(e + 1)
        <5>1. PICK k \in 1..m : i = s + k - 1 /\ i + o = (s + o - 1) + k
          <6>1. i - s + 1 \in 1..m /\ i = s + (i - s + 1) - 1 /\ i + o = (s + o - 1) + (i - s + 1)
            BY <1>2, <2>1, <3>2, <4>2
          <6>. QED  BY <6>1
        <5>. QED  BY <2>13, <3>2, <5>1
      <4>. QED  BY <2>1, <4>1, <4>2
    <3>0. PICK a, b : a = s + o /\ b = e + o
      OBVIOUS
    <3>4. r = b + 2 /\ b + 1 <= L /\ a \in Nat /\ b \in Nat /\ q <= a /\ a + 2 <= b
      <4>1. m = e + 2 - s /\ r = s + o + m /\ r \in 1..(L + 1)
        BY <2>10, <3>2
      <4>. QED  BY <1>0, <1>2, <2>1, <3>0, <4>1
    <3>5. NextExpression(total, q, a, b)
      <4>1. FirstPair(total, "<", "%", p + o, s + o)
        <5>1. s + o + 1 <= Len(total) /\ \A i \in p..(s + 1) : total[i + o] = text[i]
          BY <1>0, <1>2, <2>1, <3>0, <3>3, <3>4
        <5>2. FirstPair(text, "<", "%", p, s)
          BY <1>4 DEF NextExpression
        <5>. QED  BY <1>2, <5>1, <5>2, PairMoves
      <4>2. FirstPair(total, "%", ">", (s + 2) + o, e + o)
        <5>1. e + o + 1 <= Len(total) /\ \A i \in (s + 2)..(e + 1) : total[i + o] = text[i]
          BY <1>0, <1>2, <2>1, <3>0, <3>3, <3>4
        <5>2. FirstPair(text, "%", ">", s + 2, e) /\ s + 2 \in Nat
          BY <1>4 DEF NextExpression
        <5>. QED  BY <1>2, <5>1, <5>2, PairMoves
      <4>3. (s + 2) + o = a + 2
        BY <1>2, <3>0
      <4>. QED  BY <1>2, <3>0, <4>1, <4>2, <4>3 DEF NextExpression
    <3>6. g[q] = (SubSeq(total, q, a - 1) \o Expression(total, a, b, request)) \o g[b + 2]
      <4>1. q \in 1..(Len(total) + 1)
        BY <1>0, <1>2
      <4>2. Turn(total, request, q, g) = Expanded(total, request, q, a, b, g)
        BY <1>2, <3>4, <3>5, TurnExpands
      <4>. QED  BY <1>a, <4>2 DEF Expanded
    <3>7. Expression(total, a, b, request) = Expression(text, s, e, Both(site, request))
      <4>1. SubSeq(total, a + 2, b - 1) = SubSeq(text, s + 2, e - 1)
        <5>1. /\ s + 2 \in 1..(Len(text) + 1) /\ e - 1 \in 0..Len(text) /\ s + 2 <= (e - 1) + 1
              /\ a + 2 = (s + 2) + o /\ b - 1 = (e - 1) + o /\ 1 <= a + 2 /\ b - 1 <= Len(total)
          BY <1>0, <1>2, <2>1, <3>0, <3>4
        <5>2. \A i \in (s + 2)..(e - 1) : total[i + o] = text[i]
          BY <1>2, <2>1, <3>3
        <5>3. StandsIn(text, s + 2, e - 1, total, a + 2, b - 1)
          BY <1>2, <5>1, <5>2, MovedPart
        <5>. QED  BY <5>3 DEF StandsIn
      <4>2. SubSeq(total, a, b + 1) = SubSeq(text, s, e + 1)
        <5>1. /\ s \in 1..(Len(text) + 1) /\ e + 1 \in 0..Len(text) /\ s <= (e + 1) + 1
              /\ a = s + o /\ b + 1 = (e + 1) + o /\ 1 <= a /\ b + 1 <= Len(total)
          BY <1>0, <1>2, <2>1, <3>0, <3>4
        <5>2. \A i \in s..(e + 1) : total[i + o] = text[i]
          BY <1>2, <2>1, <3>3
        <5>3. StandsIn(text, s, e + 1, total, a, b + 1)
          BY <1>2, <5>1, <5>2, MovedPart
        <5>. QED  BY <5>3 DEF StandsIn
      <4>3. Expression(total, a, b, request) = Expression(text, s, e, request)
        BY <4>1, <4>2 DEF Expression
      <4>4. Expression(text, s, e, request) = Expression(text, s, e, Both(site, request))
        BY <2>16 DEF Expression, Both
      <4>. QED  BY <4>3, <4>4
    <3>8. SubSeq(total, q, a - 1) = before
      <4>1. a - 1 = s + o - 1
        BY <1>2, <3>0
      <4>. QED  BY <2>14, <4>1
    <3>. QED  BY <2>3, <2>11, <3>4, <3>6, <3>7, <3>8
  <2>. QED  BY <2>15, <2>16
<1>5. \A s \in p..(Len(text) - 1) : \A e \in (s + 2)..(Len(text) - 1) : s \in Nat /\ e \in Nat
  BY <1>2
<1>6. \/ Plainly(text, p)
      \/ \E s \in p..(Len(text) - 1) : \E e \in (s + 2)..(Len(text) - 1) :
            NextExpression(text, p, s, e)
  BY <1>2, TurnTakes
<1>. QED  BY <1>3, <1>4, <1>5, <1>6

LEMMA RendersOnce ==
    ASSUME NEW text \in Seq(STRING), NEW site, NEW request, Texts(site), Texts(request), AsIs(site)
    PROVE  Render(Render(text, site), request) = Render(text, Both(site, request))
<1> DEFINE total == Render(text, site)
<1>0. PICK n : n = Len(text) /\ n \in Nat
  BY LenProperties
<1>1. PICK f : total = f[1] /\ Renders(text, site, f)
  BY RenderIs
<1>2. 1 \in 1..(n + 1)
  BY <1>0
<1>3. total \in Seq(STRING)
  <2>1. f[1] \in Seq(STRING)
    BY <1>0, <1>1, <1>2, RendersText
  <2>. QED  BY <1>1, <2>1
<1> HIDE DEF total
<1>4. PICK g : Render(total, request) = g[1] /\ Renders(total, request, g)
  BY <1>3, RenderIs
<1>5. PICK h : Render(text, Both(site, request)) = h[1] /\ Renders(text, Both(site, request), h)
  BY RenderIs
<1> DEFINE S == {p \in 1..(n + 1) : \A q : EndsWith(total, q, f[p]) => g[q] = h[p]}
<1>6. ASSUME NEW p \in 1..(n + 1), \A k \in (p + 1)..(n + 1) : k \in S
      PROVE  p \in S
  <2> SUFFICES ASSUME NEW q, EndsWith(total, q, f[p]) PROVE g[q] = h[p]
    OBVIOUS
  <2>1. p \in 1..(Len(text) + 1)
    BY <1>0
  <2>2. \A k \in (p + 1)..(Len(text) + 1) : \A r : EndsWith(total, r, f[k]) => g[r] = h[k]
    BY <1>0, <1>6
  <2>. QED  BY <1>1, <1>3, <1>4, <1>5, <2>1, <2>2, TurnsAgree
<1> HIDE DEF S
<1>7. 1 \in S
  BY <1>0, <1>2, <1>6, Descending
<1>8. EndsWith(total, 1, f[1])
  <2>1. PICK L : L = Len(total) /\ L \in Nat
    BY <1>3, LenProperties
  <2>2. 1 \in 1..(L + 1) /\ L = L + 1 - 1 /\ \A i \in 1..L : 1 + i - 1 = i
    BY <2>1
  <2>. QED  BY <1>1, <2>1, <2>2 DEF EndsWith
<1>9. g[1] = h[1]
  BY <1>7, <1>8 DEF S
<1>. QED  BY <1>4, <1>5, <1>9 DEF total

(* For every file and all values of a request: rendering the site's        *)
(* variables first and the request's then, as process_login_page_get does, *)
(* is one rendering with both, so that no value of a request is taken for  *)
(* markup; and what is no known expression stays as it is in the file.     *)
THEOREM RenderedAtOnce == TemplateInit => TwoRenderingsAreOne
<1> SUFFICES ASSUME TemplateInit PROVE TwoRenderingsAreOne
  OBVIOUS
<1>1. template \in Seq(STRING) /\ Texts(siteVars) /\ Texts(pageVars)
  BY TextsAssumption DEF TemplateInit, Texts
<1>2. AsIs(siteVars)
  BY TemplateAssumption DEF TemplateInit, AsIs
<1>3. login_page = Render(template, Both(siteVars, pageVars))
  BY <1>1, <1>2, RendersOnce DEF login_page
<1>4. Render(template, NoVariables) = template
  BY <1>1, RendersNothing
<1>. QED  BY <1>3, <1>4 DEF TwoRenderingsAreOne, Both

-----------------------------------------------------------------------------
USE PathCharsAssumption, TimesAssumption, PathsAssumption, HashCharsAssumption

(* The last dot of s . t is the one between them, if t has none.           *)
LEMMA LastDotSplits ==
    ASSUME NEW s \in Seq(PathChars), NEW t \in Seq(PathChars \ {Dot})
    PROVE  LET u == s \o <<Dot>> \o t
           IN  /\ LastDot(u) = Len(s) + 1
               /\ Before(u, LastDot(u)) = s
               /\ After(u, LastDot(u)) = t
<1> DEFINE u == s \o <<Dot>> \o t
<1> DEFINE n == Len(s) + 1
<1>0. t \in Seq(PathChars) /\ <<Dot>> \in Seq(PathChars)
  OBVIOUS
<1>1. /\ u \in Seq(PathChars)
      /\ Len(u) = Len(s) + 1 + Len(t)
      /\ \A i \in 1..Len(u) : u[i] = IF i <= Len(s) THEN s[i]
                                     ELSE IF i = n THEN Dot ELSE t[i - n]
  BY <1>0
<1>2. \A i \in 1..Len(t) : t[i] # Dot
  OBVIOUS
<1>3. n \in Dots(u)
  BY <1>1 DEF Dots
<1>4. \A j \in Dots(u) : j <= n
  <2> SUFFICES ASSUME NEW j \in Dots(u), j > n PROVE FALSE
    BY <1>1 DEF Dots
  <2>1. j - n \in 1..Len(t) /\ u[j] = t[j - n] /\ u[j] = Dot
    BY <1>1 DEF Dots
  <2>. QED  BY <1>2, <2>1
<1>5. \A i \in Dots(u) : (\A j \in Dots(u) : j <= i) => i = n
  BY <1>3, <1>4 DEF Dots
<1>6. LastDot(u) = n
  BY <1>3, <1>4, <1>5 DEF LastDot
<1>7. Before(u, n) = s
  <2>1. /\ Before(u, n) \in Seq(PathChars)
        /\ Len(Before(u, n)) = Len(s)
        /\ \A i \in 1..Len(s) : Before(u, n)[i] = s[i]
    BY <1>1 DEF Before
  <2>. QED  BY <2>1
<1>8. After(u, n) = t
  <2>1. /\ After(u, n) \in Seq(PathChars)
        /\ Len(After(u, n)) = Len(t)
        /\ \A i \in 1..Len(t) : After(u, n)[i] = t[i]
    BY <1>1 DEF After
  <2>. QED  BY <1>0, <2>1
<1>. QED  BY <1>6, <1>7, <1>8

LEMMA ReturnToIsPath ==
    ASSUME NEW p \in Seq(PathChars)
    PROVE  ReturnTo(p) \in Seq(PathChars) /\ SendTo(p) \in Seq(PathChars)
BY DEF ReturnTo, SendTo, Home

(* What is made verifiable verifies, and gives back the page in it.        *)
LEMMA RoundTrip ==
    ASSUME NEW p \in Seq(PathChars), NEW time \in Times,
           Hash(Salt(p, time)) \in [1..HashChars -> PathChars \ {Dot}]
    PROVE  LET st == openidconnect_create_verifyable_string(Salt(p, time))
           IN  /\ openidconnect_verify_string(st)
               /\ truncate_at_second_last_dot(st) = SendTo(p)
<1> DEFINE salt == Salt(p, time)
           h == Hash(salt)
           st == openidconnect_create_verifyable_string(salt)
<1>1. SendTo(p) \in Seq(PathChars)
  BY ReturnToIsPath
<1>2. time \in Seq(PathChars \ {Dot}) /\ time \in Seq(PathChars)
  OBVIOUS
<1>3. salt \in Seq(PathChars)
  BY <1>1, <1>2 DEF Salt
<1>4. h \in Seq(PathChars \ {Dot}) /\ Len(h) = HashChars
  OBVIOUS
<1>5. st = salt \o <<Dot>> \o h
  BY DEF openidconnect_create_verifyable_string
<1>6. /\ LastDot(st) = Len(salt) + 1
      /\ Before(st, LastDot(st)) = salt
      /\ After(st, LastDot(st)) = h
  BY <1>3, <1>4, <1>5, LastDotSplits
<1>7. /\ LastDot(salt) = Len(SendTo(p)) + 1
      /\ Before(salt, LastDot(salt)) = SendTo(p)
  BY <1>1, <1>2, LastDotSplits DEF Salt
<1>8. SubSeq(h, 1, HashChars) = h
  BY <1>4
<1>9. openidconnect_verify_string(st)
  <2>1. LastDot(st) # 0
    BY <1>3, <1>6
  <2>. QED  BY <1>4, <1>6, <1>8, <2>1 DEF openidconnect_verify_string
<1>10. truncate_at_second_last_dot(st) = SendTo(p)
  <2>1. LastDot(st) # 0 /\ LastDot(salt) # 0
    BY <1>1, <1>3, <1>6, <1>7
  <2>. QED  BY <1>6, <1>7, <2>1 DEF truncate_at_second_last_dot
<1>. QED  BY <1>9, <1>10

(* While a login is under way, the state argument is one that was made     *)
(* from the page that was asked for.                                       *)
IInv == /\ asked \in Paths
        /\ phase \in {"start", "form", "provider", "landed"}
        /\ phase = "form" => page = ReturnTo(asked)
        /\ phase \in {"provider", "landed"} =>
              \E time \in Times :
                 state = openidconnect_create_verifyable_string(Salt(ReturnTo(asked), time))
        /\ phase = "landed" => landed = SendTo(ReturnTo(asked))

LEMMA IInvStep == IInv /\ [LoginNext]_loginVars => IInv'
<1> SUFFICES ASSUME IInv, [LoginNext]_loginVars PROVE IInv'
  OBVIOUS
<1>1. CASE UNCHANGED loginVars
  BY <1>1 DEF loginVars, IInv
<1>2. CASE process_login_page_get
  BY <1>2 DEF process_login_page_get, IInv
<1>3. CASE process_login_page_post
  BY <1>3 DEF process_login_page_post, IInv
<1>4. CASE process_code_response
  <2>1. PICK time \in Times :
           state = openidconnect_create_verifyable_string(Salt(ReturnTo(asked), time))
    BY <1>4 DEF process_code_response, IInv
  <2>2. ReturnTo(asked) \in Seq(PathChars)
    BY ReturnToIsPath DEF IInv
  <2>3. Hash(Salt(ReturnTo(asked), time)) \in [1..HashChars -> PathChars \ {Dot}]
    BY HashAssumption DEF IInv
  <2>4. /\ openidconnect_verify_string(state)
        /\ truncate_at_second_last_dot(state) = SendTo(ReturnTo(asked))
    BY <2>1, <2>2, <2>3, RoundTrip
  <2>. QED  BY <1>4, <2>1, <2>4 DEF process_code_response, IInv
<1>. QED  BY <1>1, <1>2, <1>3, <1>4 DEF LoginNext

THEOREM IInvHolds == LoginSpec => []IInv
<1>1. LoginInit => IInv
  BY DEF LoginInit, IInv
<1>. QED  BY <1>1, IInvStep, PTL DEF LoginSpec

(* The server never refuses a state argument it made itself.               *)
THEOREM NeverRefused == LoginSpec => []OwnStateVerifies
<1>1. IInv => OwnStateVerifies
  BY DEF IInv, OwnStateVerifies
<1>. QED  BY <1>1, IInvHolds, PTL

(* A login lands on the page it was asked for.                             *)
THEOREM Lands == LoginSpec => []LandsWhereAsked
<1>1. IInv => LandsWhereAsked
  <2> SUFFICES ASSUME IInv, phase = "landed"
               PROVE landed = IF OnThisSite(asked) /\ Len(asked) > 4 THEN asked ELSE Home
    BY DEF LandsWhereAsked
  <2>1. Len(Home) = 1
    BY DEF Home
  <2>2. landed = SendTo(ReturnTo(asked))
    BY DEF IInv
  <2>. QED  BY <2>1, <2>2 DEF SendTo, ReturnTo
<1>. QED  BY <1>1, IInvHolds, PTL

-----------------------------------------------------------------------------
(* A function on 1..(n + 1) whose value at a place follows from the values *)
(* at later places exists.                                                 *)
LooksAhead(n, V, H) ==
    \A k \in 1..(n + 1) : \A f, g \in [1..(n + 1) -> V] :
        (\A j \in (k + 1)..(n + 1) : f[j] = g[j]) => H[k][f] = H[k][g]

Meets(H, f, from, n) == \A k \in from..(n + 1) : f[k] = H[k][f]

LEMMA Recursion ==
    ASSUME NEW n \in Nat, NEW V, V # {},
           NEW H \in [1..(n + 1) -> [[1..(n + 1) -> V] -> V]], LooksAhead(n, V, H)
    PROVE  \E f \in [1..(n + 1) -> V] : Meets(H, f, 1, n)
<1> DEFINE F == [1..(n + 1) -> V]
           S == {d \in Nat : d <= n + 1 => \E f \in F : Meets(H, f, n + 2 - d, n)}
<1>1. 0 \in S
  <2>1. PICK v \in V : TRUE
    OBVIOUS
  <2>2. [k \in 1..(n + 1) |-> v] \in F
    OBVIOUS
  <2>3. (n + 2 - 0)..(n + 1) = {}
    OBVIOUS
  <2>4. \A f \in F : Meets(H, f, n + 2 - 0, n)
    BY <2>3 DEF Meets
  <2>. QED  BY <2>2, <2>4
<1>2. ASSUME NEW d \in Nat, d \in S PROVE d + 1 \in S
  <2> SUFFICES ASSUME d + 1 <= n + 1 PROVE \E f \in F : Meets(H, f, n + 2 - (d + 1), n)
    OBVIOUS
  <2>1. PICK m : m = n + 2 - (d + 1) /\ m + 1 = n + 2 - d /\ m \in 1..(n + 1)
    OBVIOUS
  <2>2. PICK f \in F : Meets(H, f, m + 1, n)
    BY <1>2, <2>1
  <2> DEFINE g == [f EXCEPT ![m] = H[m][f]]
  <2>3. H[m][f] \in V
    BY <2>1
  <2>4. g \in F /\ g[m] = H[m][f] /\ \A j \in 1..(n + 1) : j # m => g[j] = f[j]
    BY <2>1, <2>3
  <2> HIDE DEF g
  <2>5. ASSUME NEW k \in m..(n + 1) PROVE g[k] = H[k][g]
    <3>1. k \in 1..(n + 1) /\ \A j \in (k + 1)..(n + 1) : g[j] = f[j]
      BY <2>1, <2>4
    <3>2. H[k][g] = H[k][f]
      BY <2>4, <3>1 DEF LooksAhead
    <3>3. CASE k = m
      BY <2>4, <3>2, <3>3
    <3>4. CASE k # m
      <4>1. k \in (m + 1)..(n + 1)
        BY <2>1, <3>4
      <4>2. f[k] = H[k][f] /\ g[k] = f[k]
        BY <2>2, <2>4, <3>1, <3>4, <4>1 DEF Meets
      <4>. QED  BY <3>2, <4>2
    <3>. QED  BY <3>3, <3>4
  <2>6. Meets(H, g, m, n)
    BY <2>5 DEF Meets
  <2>. QED  BY <2>1, <2>4, <2>6
<1> HIDE DEF S
<1>3. n + 1 \in S
  BY <1>1, <1>2, SetInduction
<1>4. n + 2 - (n + 1) = 1
  OBVIOUS
<1>. QED  BY <1>3, <1>4 DEF S

States == {"outside", "quoted", "escape"}

(* One turn of qsp_append_to_dynstring.                                    *)
ReadAt(hdr, delim, i, from) == [how \in States |->
    IF i > Len(hdr) THEN [text |-> <<>>, at |-> i]
    ELSE IF hdr[i] = Quote
    THEN from[i + 1][IF how = "quoted" THEN "outside" ELSE "quoted"]
    ELSE IF how = "quoted" /\ hdr[i] = Backslash THEN from[i + 1]["escape"]
    ELSE IF how = "outside" /\ hdr[i] \in delim THEN [text |-> <<>>, at |-> i]
    ELSE Put(hdr[i], from[i + 1][IF how = "escape" THEN "quoted" ELSE how])]

Taken == [text : Seq(STRING), at : Nat]

LEMMA PutTaken ==
    ASSUME NEW c \in STRING, NEW r \in Taken
    PROVE  Put(c, r) \in Taken
<1>1. <<c>> \in Seq(STRING) /\ r.text \in Seq(STRING) /\ r.at \in Nat
  BY DEF Taken
<1>2. <<c>> \o r.text \in Seq(STRING)
  BY <1>1, ConcatProperties
<1>. QED  BY <1>1, <1>2 DEF Put, Taken

LEMMA ReadAtTakes ==
    ASSUME NEW hdr \in Seq(STRING), NEW delim, NEW i \in 1..(Len(hdr) + 1), NEW f,
           i <= Len(hdr) => f[i + 1] \in [States -> Taken]
    PROVE  ReadAt(hdr, delim, i, f) \in [States -> Taken]
<1>0. PICK n : n = Len(hdr) /\ n \in Nat
  BY LenProperties
<1> SUFFICES ASSUME NEW how \in States PROVE ReadAt(hdr, delim, i, f)[how] \in Taken
  BY DEF ReadAt
<1>1. [text |-> <<>>, at |-> i] \in Taken
  BY <1>0 DEF Taken
<1>2. CASE i > n
  BY <1>0, <1>1, <1>2 DEF ReadAt
<1>3. CASE i <= n
  <2>1. hdr[i] \in STRING /\ ~(i > Len(hdr))
    BY <1>0, <1>3, ElementOfSeq
  <2>2. \A s \in States : f[i + 1][s] \in Taken
    BY <1>0, <1>3
  <2>3. \A s \in States : Put(hdr[i], f[i + 1][s]) \in Taken
    BY <2>1, <2>2, PutTaken
  <2>. QED  BY <1>1, <2>1, <2>2, <2>3 DEF ReadAt, States
<1>. QED  BY <1>0, <1>2, <1>3

(* From every place of the header on, f is what is read from there.        *)
Reads(hdr, delim, f) ==
    \A i \in 1..(Len(hdr) + 1) : f[i] = ReadAt(hdr, delim, i, f) /\ f[i] \in [States -> Taken]

LEMMA ReaderIs ==
    ASSUME NEW hdr \in Seq(STRING), NEW delim
    PROVE  \E f : /\ \A start : qsp_append_to_dynstring(hdr, start, delim) = f[start]["outside"]
                  /\ Reads(hdr, delim, f)
<1>0. PICK n : n = Len(hdr) /\ n \in Nat
  BY LenProperties
<1> DEFINE V == [States -> Taken]
           F == [1..(n + 1) -> V]
           H == [i \in 1..(n + 1) |-> [f \in F |-> ReadAt(hdr, delim, i, f)]]
<1>1. ASSUME NEW i \in 1..(n + 1), NEW f \in F PROVE ReadAt(hdr, delim, i, f) \in V
  <2>1. i <= Len(hdr) => f[i + 1] \in V
    BY <1>0
  <2>. QED  BY <1>0, <2>1, ReadAtTakes
<1>2. ASSUME NEW i \in 1..(n + 1), NEW f \in F, NEW g \in F,
             \A j \in (i + 1)..(n + 1) : f[j] = g[j]
      PROVE  ReadAt(hdr, delim, i, f) = ReadAt(hdr, delim, i, g)
  <2>1. i > n \/ f[i + 1] = g[i + 1]
    BY <1>0, <1>2
  <2>. QED  BY <1>0, <2>1 DEF ReadAt
<1>3. \A i \in 1..(n + 1) : \A f \in F : H[i][f] = ReadAt(hdr, delim, i, f)
  OBVIOUS
<1>4. H \in [1..(n + 1) -> [F -> V]]
  BY <1>1
<1>5. LooksAhead(n, V, H)
  <2> SUFFICES ASSUME NEW i \in 1..(n + 1), NEW f \in F, NEW g \in F,
                      \A j \in (i + 1)..(n + 1) : f[j] = g[j]
               PROVE  H[i][f] = H[i][g]
    BY DEF LooksAhead
  <2>1. ReadAt(hdr, delim, i, f) = ReadAt(hdr, delim, i, g)
    BY <1>2
  <2>2. H[i][f] = ReadAt(hdr, delim, i, f) /\ H[i][g] = ReadAt(hdr, delim, i, g)
    BY <1>3
  <2>. QED  BY <2>1, <2>2
<1>6. V # {}
  <2>1. [how \in States |-> [text |-> <<>>, at |-> 0]] \in V
    BY DEF Taken
  <2>. QED  BY <2>1
<1>7. PICK f \in F : Meets(H, f, 1, n)
  <2> HIDE DEF V, H
  <2>. QED  BY <1>0, <1>4, <1>5, <1>6, Recursion
<1>8. f = [i \in 1..(Len(hdr) + 1) |-> ReadAt(hdr, delim, i, f)]
  <2>1. \A i \in 1..(n + 1) : f[i] = ReadAt(hdr, delim, i, f)
    <3> HIDE DEF H, V
    <3>. QED  BY <1>3, <1>7 DEF Meets
  <2>2. f = [i \in 1..(n + 1) |-> f[i]]
    BY <1>7
  <2>. QED  BY <1>0, <2>1, <2>2
<1> DEFINE from == CHOOSE from : from = [i \in 1..(Len(hdr) + 1) |-> ReadAt(hdr, delim, i, from)]
<1>9. from = [i \in 1..(Len(hdr) + 1) |-> ReadAt(hdr, delim, i, from)]
  BY <1>8
<1>10. \A start : qsp_append_to_dynstring(hdr, start, delim) = from[start]["outside"]
  BY DEF qsp_append_to_dynstring, ReadAt, States
<1> HIDE DEF from
<1>11. \A i \in 1..(Len(hdr) + 1) : from[i] = ReadAt(hdr, delim, i, from)
  BY <1>9
<1>12. \A i \in 1..(n + 1) : from[i] \in V
  <2> DEFINE S == {i \in 1..(n + 1) : from[i] \in V}
  <2>1. ASSUME NEW i \in 1..(n + 1), \A j \in (i + 1)..(n + 1) : j \in S PROVE i \in S
    <3>1. i <= Len(hdr) => from[i + 1] \in V
      BY <1>0, <2>1
    <3>2. ReadAt(hdr, delim, i, from) \in V
      BY <1>0, <3>1, ReadAtTakes
    <3>. QED  BY <1>0, <1>11, <3>2
  <2> HIDE DEF S
  <2>2. \A i \in 1..(n + 1) : i \in S
    BY <1>0, <2>1, Descending
  <2>. QED  BY <2>2 DEF S
<1>13. Reads(hdr, delim, from)
  BY <1>0, <1>11, <1>12 DEF Reads
<1>. QED  BY <1>10, <1>13

(* A text before what was read.                                            *)
Prepend(text, rest) == [text |-> text \o rest.text, at |-> rest.at]

LEMMA PutBefore ==
    ASSUME NEW c \in STRING, NEW t \in Seq(STRING), NEW r \in Taken
    PROVE  /\ Put(c, Prepend(t, r)) = Prepend(<<c>> \o t, r)
           /\ <<c>> \o t \in Seq(STRING)
<1> DEFINE S == STRING
<1>1. <<c>> \in Seq(S) /\ t \in Seq(S) /\ r.text \in Seq(S) /\ r = [text |-> r.text, at |-> r.at]
  BY DEF Taken
<1> HIDE DEF S
<1>2. (<<c>> \o t) \o r.text = <<c>> \o (t \o r.text)
  BY <1>1, ConcatAssociative
<1>4. <<c>> \o t \in Seq(S)
  BY <1>1, ConcatProperties
<1>. QED  BY <1>1, <1>2, <1>4 DEF Put, Prepend, S

LEMMA NothingBefore ==
    ASSUME NEW r \in Taken
    PROVE  Prepend(<<>>, r) = r
<1>1. r.text \in Seq(STRING) /\ r = [text |-> r.text, at |-> r.at]
  BY DEF Taken
<1>2. <<>> \o r.text = r.text
  BY <1>1, ConcatEmptySeq
<1>. QED  BY <1>1, <1>2 DEF Prepend

LEMMA OneText ==
    ASSUME NEW S, NEW c \in S
    PROVE  <<c>> \in Seq(S) /\ Len(<<c>>) = 1 /\ <<c>>[1] = c
<1>1. <<c>> \in Seq(S)
  OBVIOUS
<1>2. Len(<<c>>) = 1 /\ <<c>>[1] = c
  OBVIOUS
<1>. QED  BY <1>1, <1>2

(* One character.                                                          *)
LEMMA EndsWithOne ==
    ASSUME NEW hdr \in Seq(STRING), NEW p, NEW c \in STRING, NEW y \in Seq(STRING),
           EndsWith(hdr, p, <<c>> \o y)
    PROVE  /\ p \in 1..Len(hdr) /\ hdr[p] = c
           /\ p + 1 \in 1..(Len(hdr) + 1) /\ EndsWith(hdr, p + 1, y)
<1> DEFINE x == <<c>>
<1>1. x \in Seq(STRING) /\ Len(x) = 1 /\ x[1] = c
  BY OneText
<1>2. EndsWith(hdr, p, x \o y)
  OBVIOUS
<1> HIDE DEF x
<1>3. /\ p \in 1..(Len(hdr) + 1) /\ p + Len(x) \in 1..(Len(hdr) + 1)
      /\ Len(x) \in Nat
      /\ \A i \in 1..Len(x) : hdr[p + i - 1] = x[i]
      /\ EndsWith(hdr, p + Len(x), y)
  <2>1. x \in Seq(STRING)
    BY <1>1
  <2>. QED  BY <1>2, <2>1, EndsWithBoth
<1>4. PICK n : n = Len(hdr) /\ n \in Nat
  BY LenProperties
<1>5. p \in 1..n /\ p + 1 \in 1..(n + 1)
  BY <1>1, <1>3, <1>4
<1>6. hdr[p + 1 - 1] = x[1] /\ p + 1 - 1 = p
  <2>1. 1 \in 1..Len(x)
    BY <1>1
  <2>2. hdr[p + 1 - 1] = x[1]
    BY <1>3, <2>1
  <2>. QED  BY <1>5, <2>2
<1>7. EndsWith(hdr, p + 1, y)
  BY <1>1, <1>3
<1>. QED  BY <1>1, <1>4, <1>5, <1>6, <1>7

LEMMA ReadsPlain ==
    ASSUME NEW hdr \in Seq(STRING), NEW delim, NEW f, Reads(hdr, delim, f),
           NEW p \in 1..Len(hdr), hdr[p] # Quote
    PROVE  /\ hdr[p] \notin delim => f[p]["outside"] = Put(hdr[p], f[p + 1]["outside"])
           /\ hdr[p] # Backslash => f[p]["quoted"] = Put(hdr[p], f[p + 1]["quoted"])
           /\ hdr[p] = Backslash => f[p]["quoted"] = f[p + 1]["escape"]
           /\ f[p]["escape"] = Put(hdr[p], f[p + 1]["quoted"])
<1>1. PICK n : n = Len(hdr) /\ n \in Nat
  BY LenProperties
<1>2. p \in 1..(Len(hdr) + 1) /\ ~(p > Len(hdr))
  BY <1>1
<1>3. f[p] = ReadAt(hdr, delim, p, f)
  BY <1>2 DEF Reads
<1>. QED  BY <1>2, <1>3 DEF ReadAt, States

LEMMA ReadsQuote ==
    ASSUME NEW hdr \in Seq(STRING), NEW delim, NEW f, Reads(hdr, delim, f),
           NEW p \in 1..Len(hdr), hdr[p] = Quote
    PROVE  /\ f[p]["outside"] = f[p + 1]["quoted"]
           /\ f[p]["quoted"] = f[p + 1]["outside"]
           /\ f[p]["escape"] = f[p + 1]["quoted"]
<1>1. PICK n : n = Len(hdr) /\ n \in Nat
  BY LenProperties
<1>2. p \in 1..(Len(hdr) + 1) /\ ~(p > Len(hdr))
  BY <1>1
<1>3. f[p] = ReadAt(hdr, delim, p, f)
  BY <1>2 DEF Reads
<1>. QED  BY <1>2, <1>3 DEF ReadAt, States

LEMMA ReadsEnd ==
    ASSUME NEW hdr \in Seq(STRING), NEW delim, NEW f, Reads(hdr, delim, f),
           NEW p \in 1..(Len(hdr) + 1), p = Len(hdr) + 1 \/ (hdr[p] # Quote /\ hdr[p] \in delim)
    PROVE  f[p]["outside"] = [text |-> <<>>, at |-> p]
<1>1. PICK n : n = Len(hdr) /\ n \in Nat
  BY LenProperties
<1>2. f[p] = ReadAt(hdr, delim, p, f)
  BY DEF Reads
<1>3. CASE p = Len(hdr) + 1
  <2>1. p > Len(hdr)
    BY <1>1, <1>3
  <2>. QED  BY <1>2, <2>1 DEF ReadAt, States
<1>4. CASE p \in 1..Len(hdr) /\ hdr[p] # Quote /\ hdr[p] \in delim
  <2>1. ~(p > Len(hdr))
    BY <1>1, <1>4
  <2>. QED  BY <1>2, <1>4, <2>1 DEF ReadAt, States
<1>. QED  BY <1>1, <1>3, <1>4

(* Read on from p, a text x comes before what is read in how from r on.    *)
Gives(f, p, how, x, r) == f[p][how] = Prepend(x, f[r]["outside"])

Clear(x, delim) == \A i \in 1..Len(x) : x[i] # Quote /\ x[i] \notin delim

(* Characters outside quotes.                                              *)
LEMMA RunOutside ==
    ASSUME NEW hdr \in Seq(STRING), NEW delim, NEW f, Reads(hdr, delim, f),
           NEW x \in Seq(STRING), NEW y \in Seq(STRING), NEW p, EndsWith(hdr, p, x \o y),
           Clear(x, delim)
    PROVE  Gives(f, p, "outside", x, p + Len(x))
<1>0. PICK n, len : n = Len(x) /\ n \in Nat /\ len = Len(hdr) /\ len \in Nat
  BY LenProperties
<1>1. /\ p \in 1..(len + 1) /\ p + n \in 1..(len + 1)
      /\ \A i \in 1..n : hdr[p + i - 1] = x[i]
  <2>1. /\ p \in 1..(Len(hdr) + 1) /\ p + Len(x) \in 1..(Len(hdr) + 1)
        /\ \A i \in 1..Len(x) : hdr[p + i - 1] = x[i]
    BY EndsWithBoth
  <2>. QED  BY <1>0, <2>1
<1> DEFINE S == {k \in 1..(n + 1) :
                    Gives(f, p + k - 1, "outside", SubSeq(x, k, n), p + n)}
<1>2. f[p + n]["outside"] \in Taken
  BY <1>0, <1>1 DEF Reads, States
<1>3. ASSUME NEW k \in 1..(n + 1), \A j \in (k + 1)..(n + 1) : j \in S PROVE k \in S
  <2>1. CASE k = n + 1
    <3>1. SubSeq(x, k, n) = <<>> /\ p + k - 1 = p + n
      BY <1>0, <1>1, <2>1, SubSeqEmpty
    <3>2. Prepend(<<>>, f[p + n]["outside"]) = f[p + n]["outside"]
      <4>. QED  BY <1>2, NothingBefore
    <3>. QED  BY <3>1, <3>2 DEF Gives
  <2>2. CASE k \in 1..n
    <3>1. PICK q : q = p + k - 1 /\ q \in 1..len /\ q + 1 = p + (k + 1) - 1
      BY <1>0, <1>1, <2>2
    <3>2. k + 1 \in S
      BY <1>0, <1>3, <2>2
    <3>3. Gives(f, q + 1, "outside", SubSeq(x, k + 1, n), p + n)
      BY <3>1, <3>2
    <3>4. hdr[q] = x[k] /\ x[k] # Quote /\ x[k] \notin delim /\ x[k] \in STRING
      BY <1>0, <1>1, <2>2, <3>1, ElementOfSeq DEF Clear
    <3>5. f[q]["outside"] = Put(x[k], f[q + 1]["outside"])
      BY <1>0, <3>1, <3>4, ReadsPlain
    <3>6. SubSeq(x, k + 1, n) \in Seq(STRING) /\ SubSeq(x, k, n) = <<x[k]>> \o SubSeq(x, k + 1, n)
      <4>1. k \in 1..(Len(x) + 1) /\ n \in 0..Len(x) /\ k \in (k - 1)..n
        BY <1>0, <2>2
      <4>2. SubSeq(x, k, n) = SubSeq(x, k, k) \o SubSeq(x, k + 1, n)
        BY <4>1, SplitPart
      <4>3. k + 1 \in 1..(Len(x) + 1) /\ n \in 0..Len(x) /\ k + 1 <= n + 1
        BY <1>0, <2>2
      <4>4. SubSeq(x, k + 1, n) \in Seq(STRING)
        BY <4>3, Part
      <4>5. SubSeq(x, k, k) = <<x[k]>>
        <5>1. /\ k \in 1..(Len(x) + 1) /\ k \in 0..Len(x) /\ k <= k + 1
              /\ <<x[k]>> \in Seq(STRING) /\ Len(<<x[k]>>) = k - k + 1
              /\ \A i \in 1..Len(<<x[k]>>) : x[k + i - 1] = <<x[k]>>[i]
          BY <1>0, <2>2, <3>4
        <5>. QED  BY <5>1, SamePart
      <4>. QED  BY <4>2, <4>4, <4>5
    <3>7. Put(x[k], Prepend(SubSeq(x, k + 1, n), f[p + n]["outside"]))
            = Prepend(<<x[k]>> \o SubSeq(x, k + 1, n), f[p + n]["outside"])
      BY <1>2, <3>4, <3>6, PutBefore
    <3>. QED  BY <1>0, <2>2, <3>1, <3>3, <3>5, <3>6, <3>7 DEF Gives
  <2>. QED  BY <1>0, <2>1, <2>2
<1> HIDE DEF S
<1>4. 1 \in S
  <2>1. \A k \in 1..(n + 1) : k \in S
    BY <1>0, <1>3, Descending
  <2>. QED  BY <1>0, <2>1
<1>5. Gives(f, p + 1 - 1, "outside", SubSeq(x, 1, n), p + n) /\ p + 1 - 1 = p
  BY <1>1, <1>4 DEF S
<1>6. SubSeq(x, 1, n) = x
  BY <1>0, SubSeqFull
<1>. QED  BY <1>0, <1>5, <1>6

(* Texts one after the other, from each of them to the last.               *)
ChainOf(n, pieces, f) ==
    f[n + 1] = <<>> /\ \A k \in 1..n : f[k] = pieces[k] \o f[k + 1]

LEMMA ChainIsText ==
    ASSUME NEW n \in Nat, NEW pieces \in [1..n -> Seq(STRING)], NEW f, ChainOf(n, pieces, f)
    PROVE  \A k \in 1..(n + 1) : f[k] \in Seq(STRING)
<1> DEFINE S == {k \in 1..(n + 1) : f[k] \in Seq(STRING)}
<1>1. ASSUME NEW k \in 1..(n + 1), \A j \in (k + 1)..(n + 1) : j \in S PROVE k \in S
  <2>1. CASE k = n + 1
    <3>1. f[k] = <<>>
      BY <2>1 DEF ChainOf
    <3>2. f[k] \in Seq(STRING)
      BY <3>1, EmptySeq
    <3>. QED  BY <3>2
  <2>2. CASE k \in 1..n
    <3>1. k + 1 \in S
      BY <1>1, <2>2
    <3>2. pieces[k] \in Seq(STRING) /\ f[k + 1] \in Seq(STRING) /\ f[k] = pieces[k] \o f[k + 1]
      BY <2>2, <3>1 DEF ChainOf
    <3>3. f[k] \in Seq(STRING)
      BY <3>2, ConcatProperties
    <3>. QED  BY <3>3
  <2>. QED  BY <2>1, <2>2
<1> HIDE DEF S
<1>2. \A k \in 1..(n + 1) : k \in S
  BY <1>1, Descending
<1>. QED  BY <1>2 DEF S

LEMMA ChainExists ==
    ASSUME NEW n \in Nat, NEW pieces \in [1..n -> Seq(STRING)]
    PROVE  \E f : ChainOf(n, pieces, f) /\ f = [k \in 1..(n + 1) |-> f[k]]
<1> DEFINE V == Seq(STRING)
           F == [1..(n + 1) -> V]
           H == [k \in 1..(n + 1) |->
                    [f \in F |-> IF k = n + 1 THEN <<>> ELSE pieces[k] \o f[k + 1]]]
<1>1. \A k \in 1..(n + 1) : \A f \in F :
          H[k][f] = IF k = n + 1 THEN <<>> ELSE pieces[k] \o f[k + 1]
  OBVIOUS
<1>2. H \in [1..(n + 1) -> [F -> V]]
  <2>1. ASSUME NEW k \in 1..(n + 1), NEW f \in F
        PROVE  (IF k = n + 1 THEN <<>> ELSE pieces[k] \o f[k + 1]) \in V
    <3>1. CASE k = n + 1
      BY <3>1
    <3>2. CASE k \in 1..n
      <4>1. pieces[k] \in Seq(STRING) /\ f[k + 1] \in Seq(STRING) /\ k # n + 1
        BY <3>2
      <4>2. pieces[k] \o f[k + 1] \in Seq(STRING)
        BY <4>1, ConcatProperties
      <4>. QED  BY <4>1, <4>2
    <3>. QED  BY <3>1, <3>2
  <2>. QED  BY <2>1
<1>3. LooksAhead(n, V, H)
  <2> SUFFICES ASSUME NEW k \in 1..(n + 1), NEW f \in F, NEW g \in F,
                      \A j \in (k + 1)..(n + 1) : f[j] = g[j]
               PROVE  H[k][f] = H[k][g]
    BY DEF LooksAhead
  <2>1. k = n + 1 \/ f[k + 1] = g[k + 1]
    OBVIOUS
  <2> HIDE DEF H
  <2>. QED  BY <1>1, <2>1
<1>4. <<>> \in V
  OBVIOUS
<1>5. PICK f \in F : Meets(H, f, 1, n)
  <2> HIDE DEF V, H
  <2>. QED  BY <1>2, <1>3, <1>4, Recursion
<1>6. \A k \in 1..(n + 1) : f[k] = IF k = n + 1 THEN <<>> ELSE pieces[k] \o f[k + 1]
  <2> HIDE DEF H
  <2>. QED  BY <1>1, <1>5 DEF Meets
<1>7. ChainOf(n, pieces, f)
  <2>1. n + 1 \in 1..(n + 1) /\ \A k \in 1..n : k \in 1..(n + 1) /\ k # n + 1
    OBVIOUS
  <2>. QED  BY <1>6, <2>1 DEF ChainOf
<1>. QED  BY <1>5, <1>7

ProtectedPieces(value) ==
    [k \in 1..Len(value) |-> IF value[k] \in {Quote, Backslash} THEN <<Backslash, value[k]>>
                                                                ELSE <<value[k]>>]

UnquotedPieces(value) ==
    [k \in 1..Len(value) |-> IF value[k] = Quote THEN <<>> ELSE <<value[k]>>]

LEMMA PiecesAre ==
    ASSUME NEW value \in Seq(STRING)
    PROVE  /\ ProtectedPieces(value) \in [1..Len(value) -> Seq(STRING)]
           /\ UnquotedPieces(value) \in [1..Len(value) -> Seq(STRING)]
<1>1. ASSUME NEW k \in 1..Len(value)
      PROVE  ProtectedPieces(value)[k] \in Seq(STRING) /\ UnquotedPieces(value)[k] \in Seq(STRING)
  <2> DEFINE S == STRING
  <2>1. value[k] \in S
    BY ElementOfSeq
  <2>2. Backslash \in S
    BY MarksAssumption DEF Marks
  <2> HIDE DEF S
  <2>3. <<Backslash, value[k]>> \in Seq(S)
    BY <2>1, <2>2
  <2>4. <<value[k]>> \in Seq(S) /\ <<>> \in Seq(S)
    BY <2>1, OneText, EmptySeq
  <2>5. ProtectedPieces(value)[k] \in Seq(S) /\ UnquotedPieces(value)[k] \in Seq(S)
    BY <2>3, <2>4 DEF ProtectedPieces, UnquotedPieces
  <2>. QED  BY <2>5 DEF S
<1>. QED  BY <1>1 DEF ProtectedPieces, UnquotedPieces

LEMMA ProtectedIs ==
    ASSUME NEW value \in Seq(STRING)
    PROVE  \E f : Protected(value) = f[1] /\ ChainOf(Len(value), ProtectedPieces(value), f)
<1>0. PICK n : n = Len(value) /\ n \in Nat
  BY LenProperties
<1> DEFINE P == ProtectedPieces(value)
<1>1. P \in [1..n -> Seq(STRING)]
  BY <1>0, PiecesAre
<1>2. PICK g : ChainOf(n, P, g) /\ g = [k \in 1..(n + 1) |-> g[k]]
  BY <1>0, <1>1, ChainExists
<1> DEFINE E(i, f) == IF i > Len(value) THEN <<>>
                      ELSE (IF value[i] \in {Quote, Backslash} THEN <<Backslash, value[i]>>
                                                               ELSE <<value[i]>>) \o f[i + 1]
           from == CHOOSE f : f = [i \in 1..(Len(value) + 1) |-> E(i, f)]
<1>3. ASSUME NEW f, ChainOf(n, P, f), NEW i \in 1..(n + 1) PROVE f[i] = E(i, f)
  <2>1. CASE i = n + 1
    <3>1. i > Len(value)
      BY <1>0, <2>1
    <3>. QED  BY <1>3, <2>1, <3>1 DEF ChainOf
  <2>2. CASE i \in 1..n
    <3>1. ~(i > Len(value)) /\ i \in 1..Len(value)
      BY <1>0, <2>2
    <3>. QED  BY <1>3, <2>2, <3>1 DEF ChainOf, ProtectedPieces
  <2>. QED  BY <1>0, <2>1, <2>2
<1>4. g = [i \in 1..(Len(value) + 1) |-> E(i, g)]
  <2>1. \A i \in 1..(n + 1) : g[i] = E(i, g)
    BY <1>2, <1>3
  <2> HIDE DEF E
  <2>. QED  BY <1>0, <1>2, <2>1
<1>5. from = [i \in 1..(Len(value) + 1) |-> E(i, from)]
  <2> HIDE DEF E
  <2>. QED  BY <1>4
<1>6. Protected(value) = from[1]
  BY DEF Protected
<1> HIDE DEF from
<1>7. ChainOf(n, P, from)
  <2>0. \A i \in 1..(n + 1) : from[i] = E(i, from)
    <3> HIDE DEF E
    <3>. QED  BY <1>0, <1>5
  <2>1. from[n + 1] = <<>>
    <3>1. n + 1 > Len(value) /\ n + 1 \in 1..(n + 1)
      BY <1>0
    <3>. QED  BY <2>0, <3>1
  <2>2. ASSUME NEW k \in 1..n PROVE from[k] = P[k] \o from[k + 1]
    <3>1. ~(k > Len(value)) /\ k \in 1..Len(value) /\ k \in 1..(n + 1)
      BY <1>0
    <3>. QED  BY <2>0, <3>1 DEF ProtectedPieces
  <2>. QED  BY <2>1, <2>2 DEF ChainOf
<1>. QED  BY <1>0, <1>6, <1>7

LEMMA UnquotedIs ==
    ASSUME NEW value \in Seq(STRING)
    PROVE  \E f : Unquoted(value) = f[1] /\ ChainOf(Len(value), UnquotedPieces(value), f)
<1>0. PICK n : n = Len(value) /\ n \in Nat
  BY LenProperties
<1> DEFINE P == UnquotedPieces(value)
<1>1. P \in [1..n -> Seq(STRING)]
  BY <1>0, PiecesAre
<1> DEFINE E(i, f) == IF i > Len(value) THEN <<>>
                      ELSE IF value[i] = Quote THEN f[i + 1] ELSE <<value[i]>> \o f[i + 1]
           from == CHOOSE f : f = [i \in 1..(Len(value) + 1) |-> E(i, f)]
<1>2. PICK g : ChainOf(n, P, g) /\ g = [k \in 1..(n + 1) |-> g[k]]
  BY <1>0, <1>1, ChainExists
<1>3. \A i \in 1..(n + 1) : g[i] \in Seq(STRING)
  BY <1>0, <1>1, <1>2, ChainIsText
<1>4. ASSUME NEW i \in 1..(n + 1) PROVE g[i] = E(i, g)
  <2>1. CASE i = n + 1
    <3>1. i > Len(value)
      BY <1>0, <2>1
    <3>. QED  BY <1>2, <2>1, <3>1 DEF ChainOf
  <2>2. CASE i \in 1..n
    <3>1. ~(i > Len(value)) /\ i \in 1..Len(value) /\ i + 1 \in 1..(n + 1)
      BY <1>0, <2>2
    <3>2. <<>> \o g[i + 1] = g[i + 1]
      BY <1>3, <3>1, ConcatEmptySeq
    <3>. QED  BY <1>2, <2>2, <3>1, <3>2 DEF ChainOf, UnquotedPieces
  <2>. QED  BY <1>0, <2>1, <2>2
<1>5. g = [i \in 1..(Len(value) + 1) |-> E(i, g)]
  <2> HIDE DEF E
  <2>. QED  BY <1>0, <1>2, <1>4
<1>6. from = [i \in 1..(Len(value) + 1) |-> E(i, from)]
  <2> HIDE DEF E
  <2>. QED  BY <1>5
<1>7. Unquoted(value) = from[1]
  BY DEF Unquoted
<1> HIDE DEF from
<1>8. \A i \in 1..(n + 1) : from[i] = E(i, from)
  <2> HIDE DEF E
  <2>. QED  BY <1>0, <1>6
<1>9. ASSUME NEW k \in 1..(n + 1) PROVE from[k] = g[k]
  <2> DEFINE S == {i \in 1..(n + 1) : from[i] = g[i]}
  <2>1. ASSUME NEW i \in 1..(n + 1), \A j \in (i + 1)..(n + 1) : j \in S PROVE i \in S
    <3>1. i = n + 1 \/ from[i + 1] = g[i + 1]
      BY <1>0, <2>1
    <3>2. E(i, from) = E(i, g)
      BY <1>0, <3>1
    <3>. QED  BY <1>4, <1>8, <3>2
  <2> HIDE DEF S
  <2>2. \A i \in 1..(n + 1) : i \in S
    BY <1>0, <2>1, Descending
  <2>. QED  BY <2>2 DEF S
<1>10. ChainOf(n, P, from)
  <2>1. n + 1 \in 1..(n + 1) /\ \A k \in 1..n : k \in 1..(n + 1) /\ k + 1 \in 1..(n + 1)
    BY <1>0
  <2>. QED  BY <1>2, <1>9, <2>1 DEF ChainOf
<1>. QED  BY <1>0, <1>7, <1>10

GivesQuoted(f, p, x, r) == f[p]["quoted"] = Prepend(x, f[r]["quoted"])

LEMMA TextsGroup ==
    ASSUME NEW a \in Seq(STRING), NEW b \in Seq(STRING), NEW c \in Seq(STRING)
    PROVE  Groups(a, b, c)
BY Grouping

LEMMA BothText ==
    ASSUME NEW a \in Seq(STRING), NEW b \in Seq(STRING)
    PROVE  a \o b \in Seq(STRING) /\ Len(a \o b) = Len(a) + Len(b)
<1> DEFINE S == STRING
<1>1. a \in Seq(S) /\ b \in Seq(S)
  OBVIOUS
<1> HIDE DEF S
<1>2. a \o b \in Seq(S) /\ Len(a \o b) = Len(a) + Len(b)
  BY <1>1, ConcatProperties
<1>. QED  BY <1>2 DEF S

(* A quoted value: all of it is read but its quotes.                       *)
LEMMA RunQuoted ==
    ASSUME NEW hdr \in Seq(STRING), NEW delim, NEW f, Reads(hdr, delim, f),
           NEW value \in Seq(STRING), NEW rest \in Seq(STRING), NEW p,
           EndsWith(hdr, p, Protected(value) \o rest)
    PROVE  /\ Protected(value) \in Seq(STRING) /\ Unquoted(value) \in Seq(STRING)
           /\ GivesQuoted(f, p, Unquoted(value), p + Len(Protected(value)))
<1>0. PICK n : n = Len(value) /\ n \in Nat
  BY LenProperties
<1>1. PICK g : Protected(value) = g[1] /\ ChainOf(n, ProtectedPieces(value), g)
  BY <1>0, ProtectedIs
<1>2. PICK u : Unquoted(value) = u[1] /\ ChainOf(n, UnquotedPieces(value), u)
  BY <1>0, UnquotedIs
<1>3. \A k \in 1..(n + 1) : g[k] \in Seq(STRING) /\ u[k] \in Seq(STRING)
  <2>1. /\ ProtectedPieces(value) \in [1..n -> Seq(STRING)]
        /\ UnquotedPieces(value) \in [1..n -> Seq(STRING)]
    BY <1>0, PiecesAre
  <2>2. \A k \in 1..(n + 1) : g[k] \in Seq(STRING)
    BY <1>0, <1>1, <2>1, ChainIsText
  <2>3. \A k \in 1..(n + 1) : u[k] \in Seq(STRING)
    BY <1>0, <1>2, <2>1, ChainIsText
  <2>. QED  BY <2>2, <2>3
<1> DEFINE S == {k \in 1..(n + 1) :
                    \A q : EndsWith(hdr, q, g[k] \o rest) => GivesQuoted(f, q, u[k], q + Len(g[k]))}
<1>4. ASSUME NEW k \in 1..(n + 1), \A j \in (k + 1)..(n + 1) : j \in S PROVE k \in S
  <2> SUFFICES ASSUME NEW q, EndsWith(hdr, q, g[k] \o rest)
               PROVE  GivesQuoted(f, q, u[k], q + Len(g[k]))
    OBVIOUS
  <2>0. PICK len : len = Len(hdr) /\ len \in Nat
    BY LenProperties
  <2>1. CASE k = n + 1
    <3>1. g[k] = <<>> /\ u[k] = <<>>
      BY <1>1, <1>2, <2>1 DEF ChainOf
    <3>2. <<>> \o rest = rest /\ Len(<<>>) = 0
      BY ConcatEmptySeq, EmptySeq
    <3>3. q \in 1..(len + 1) /\ q + 0 = q
      BY <2>0, <3>1, <3>2 DEF EndsWith
    <3>4. f[q]["quoted"] \in Taken
      BY <2>0, <3>3 DEF Reads, States
    <3>5. Prepend(<<>>, f[q]["quoted"]) = f[q]["quoted"]
      BY <3>4, NothingBefore
    <3>. QED  BY <3>1, <3>2, <3>3, <3>5 DEF GivesQuoted
  <2>2. CASE k \in 1..n
    <3>1. PICK c : c = value[k] /\ c \in STRING
      BY <1>0, <2>2, ElementOfSeq
    <3>a. k + 1 \in 1..(n + 1) /\ k + 1 \in (k + 1)..(n + 1)
      BY <1>0, <2>2
    <3>b. g[k + 1] \in Seq(STRING) /\ u[k + 1] \in Seq(STRING) /\ k + 1 \in S
      BY <1>3, <1>4, <3>a
    <3>2. PICK h, v : h = g[k + 1] /\ v = u[k + 1] /\ h \in Seq(STRING) /\ v \in Seq(STRING)
      BY <3>b
    <3>3. \A r : EndsWith(hdr, r, h \o rest) => GivesQuoted(f, r, v, r + Len(h))
      BY <3>b, <3>2
    <3>4. PICK y : y = h \o rest /\ y \in Seq(STRING)
      BY <3>2, ConcatProperties
    <3>5. Len(h) \in Nat
      BY <3>2, LenProperties
    <3>6. CASE c \notin {Quote, Backslash}
      <4>1. g[k] = <<c>> \o h /\ u[k] = <<c>> \o v
        BY <1>0, <1>1, <1>2, <2>2, <3>1, <3>2, <3>6 DEF ChainOf, ProtectedPieces, UnquotedPieces
      <4>2. g[k] \o rest = <<c>> \o y /\ Len(g[k]) = 1 + Len(h)
        <5>1. <<c>> \in Seq(STRING) /\ Len(<<c>>) = 1
          BY <3>1, OneText
        <5>2. (<<c>> \o h) \o rest = <<c>> \o (h \o rest) /\ Len(<<c>> \o h) = 1 + Len(h)
          <6>1. Groups(<<c>>, h, rest)
            BY <3>2, <5>1, TextsGroup
          <6>. QED  BY <3>2, <5>1, <6>1, BothText DEF Groups
        <5>. QED  BY <3>4, <4>1, <5>2
      <4>3. EndsWith(hdr, q, <<c>> \o y)
        BY <4>2
      <4>4. /\ q \in 1..Len(hdr) /\ hdr[q] = c
            /\ q + 1 \in 1..(Len(hdr) + 1) /\ EndsWith(hdr, q + 1, y)
        BY <3>1, <3>4, <4>3, EndsWithOne
      <4>5. PICK r : r = q + 1 /\ r \in 1..(len + 1) /\ EndsWith(hdr, r, y) /\ q \in 1..len
        BY <2>0, <4>4
      <4>6. PICK e : e = r + Len(h) /\ e = q + (1 + Len(h))
        BY <3>5, <4>5
      <4>7. f[r]["quoted"] = Prepend(v, f[e]["quoted"])
        BY <3>3, <3>4, <4>5, <4>6 DEF GivesQuoted
      <4>8. f[q]["quoted"] = Put(c, f[r]["quoted"])
        BY <3>6, <4>4, <4>5, ReadsPlain
      <4>9. e \in 1..(len + 1) /\ f[e]["quoted"] \in Taken
        <5>1. r + Len(h) \in 1..(Len(hdr) + 1)
          BY <3>2, <3>4, <4>5, EndsWithBoth
        <5>. QED  BY <2>0, <4>6, <5>1 DEF Reads, States
      <4>10. Put(c, Prepend(v, f[e]["quoted"])) = Prepend(<<c>> \o v, f[e]["quoted"])
        BY <3>1, <3>2, <4>9, PutBefore
      <4>. QED  BY <4>1, <4>2, <4>6, <4>7, <4>8, <4>10 DEF GivesQuoted
    <3>7. CASE c \in {Quote, Backslash}
      <4>0. <<Backslash, c>> = <<Backslash>> \o <<c>> /\ Backslash # Quote
        BY DEF Backslash, Quote
      <4>1. g[k] = <<Backslash, c>> \o h /\ u[k] = (IF c = Quote THEN <<>> ELSE <<c>>) \o v
        BY <1>0, <1>1, <1>2, <2>2, <3>1, <3>2, <3>7 DEF ChainOf, ProtectedPieces, UnquotedPieces
      <4>2. g[k] \o rest = <<Backslash>> \o (<<c>> \o y) /\ Len(g[k]) = 2 + Len(h)
        <5>1. <<Backslash>> \in Seq(STRING) /\ <<c>> \in Seq(STRING)
              /\ Len(<<Backslash>>) = 1 /\ Len(<<c>>) = 1
          BY <3>1, OneText, MarksAssumption DEF Marks
        <5>2. PICK b, w : b = <<Backslash>> /\ w = <<c>> /\ b \in Seq(STRING) /\ w \in Seq(STRING)
          BY <5>1
        <5>3. Regroups(b, w, h, rest) /\ (w \o h) \o rest = w \o (h \o rest)
          <6>1. Regroups(b, w, h, rest)
            BY <3>2, <5>2, FourJoined
          <6>2. (w \o h) \o rest = w \o (h \o rest)
            <7>1. w \in Seq(STRING) /\ h \in Seq(STRING) /\ rest \in Seq(STRING)
              BY <3>2, <5>2
            <7>2. Groups(w, h, rest)
              BY <7>1, TextsGroup
            <7>. QED  BY <7>2 DEF Groups
          <6>. QED  BY <6>1, <6>2
        <5>4. Len(<<Backslash, c>>) = 2 /\ <<Backslash, c>> \in Seq(STRING)
          BY <4>0, <5>1, ConcatProperties
        <5>5. Len(<<Backslash, c>> \o h) = 2 + Len(h)
          BY <3>2, <5>4, BothText
        <5>. QED  BY <3>4, <4>0, <4>1, <5>2, <5>3, <5>5 DEF Regroups
      <4>3. Backslash \in STRING /\ <<c>> \o y \in Seq(STRING)
        <5>1. <<c>> \in Seq(STRING)
          BY <3>1, OneText
        <5>. QED  BY <3>4, <5>1, MarksAssumption, ConcatProperties DEF Marks
      <4>4. /\ q \in 1..Len(hdr) /\ hdr[q] = Backslash
            /\ q + 1 \in 1..(Len(hdr) + 1) /\ EndsWith(hdr, q + 1, <<c>> \o y)
        <5>1. EndsWith(hdr, q, <<Backslash>> \o (<<c>> \o y))
          BY <4>2
        <5>. QED  BY <4>3, <5>1, EndsWithOne
      <4>5. PICK m : m = q + 1 /\ EndsWith(hdr, m, <<c>> \o y)
        BY <4>4
      <4>6. /\ m \in 1..Len(hdr) /\ hdr[m] = c
            /\ m + 1 \in 1..(Len(hdr) + 1) /\ EndsWith(hdr, m + 1, y)
        <5>1. c \in STRING /\ y \in Seq(STRING) /\ EndsWith(hdr, m, <<c>> \o y)
          BY <3>1, <3>4, <4>5
        <5>. QED  BY <5>1, EndsWithOne
      <4>7. PICK r : r = m + 1 /\ r \in 1..(len + 1) /\ EndsWith(hdr, r, y)
        BY <2>0, <4>6
      <4>8. PICK e : e = r + Len(h) /\ e = q + (2 + Len(h))
        BY <2>0, <3>5, <4>4, <4>5, <4>7
      <4>9. f[r]["quoted"] = Prepend(v, f[e]["quoted"])
        BY <3>3, <3>4, <4>7, <4>8 DEF GivesQuoted
      <4>10. f[q]["quoted"] = f[m]["escape"]
        BY <4>0, <4>4, <4>5, ReadsPlain
      <4>11. e \in 1..(len + 1) /\ f[e]["quoted"] \in Taken
        <5>1. r + Len(h) \in 1..(Len(hdr) + 1)
          BY <3>2, <3>4, <4>7, EndsWithBoth
        <5>. QED  BY <2>0, <4>8, <5>1 DEF Reads, States
      <4>12. CASE c = Quote
        <5>1. f[m]["escape"] = f[r]["quoted"]
          BY <4>6, <4>7, <4>12, ReadsQuote
        <5>2. u[k] = v
          BY <3>2, <4>1, <4>12, ConcatEmptySeq
        <5>. QED  BY <4>2, <4>8, <4>9, <4>10, <5>1, <5>2 DEF GivesQuoted
      <4>13. CASE c # Quote
        <5>1. f[m]["escape"] = Put(c, f[r]["quoted"])
          BY <4>6, <4>7, <4>13, ReadsPlain
        <5>2. Put(c, Prepend(v, f[e]["quoted"])) = Prepend(<<c>> \o v, f[e]["quoted"])
          BY <3>1, <3>2, <4>11, PutBefore
        <5>. QED  BY <4>1, <4>2, <4>8, <4>9, <4>10, <4>13, <5>1, <5>2 DEF GivesQuoted
      <4>. QED  BY <4>12, <4>13
    <3>. QED  BY <3>6, <3>7
  <2>. QED  BY <1>0, <2>1, <2>2
<1> HIDE DEF S
<1>5. 1 \in S
  <2>1. \A k \in 1..(n + 1) : k \in S
    BY <1>0, <1>4, Descending
  <2>. QED  BY <1>0, <2>1
<1>. QED  BY <1>0, <1>1, <1>2, <1>3, <1>5 DEF S

(* Read from p up to delim: the text x, and then comes z.                  *)
Said(hdr, p, delim, x, r) == qsp_append_to_dynstring(hdr, p, delim) = [text |-> x, at |-> r]

Says(hdr, p, delim, x, z) == \E r : Said(hdr, p, delim, x, r) /\ EndsWith(hdr, r, z)

(* What follows begins with a delimiter, if anything follows.              *)
Delimited(z, delim) == z = <<>> \/ (Len(z) > 0 /\ z[1] \in delim /\ z[1] # Quote)

LEMMA ReadsDelimiter ==
    ASSUME NEW hdr \in Seq(STRING), NEW delim, NEW f, Reads(hdr, delim, f), NEW p,
           NEW z \in Seq(STRING), EndsWith(hdr, p, z), Delimited(z, delim)
    PROVE  f[p]["outside"] = [text |-> <<>>, at |-> p]
<1>0. PICK len, m : len = Len(hdr) /\ len \in Nat /\ m = Len(z) /\ m \in Nat
  BY LenProperties
<1>1. p \in 1..(len + 1) /\ m = len + 1 - p /\ \A i \in 1..m : hdr[p + i - 1] = z[i]
  BY <1>0 DEF EndsWith
<1>2. CASE z = <<>>
  <2>0. m = 0
    BY <1>0, <1>2
  <2>1. p = len + 1
    BY <1>0, <1>1, <2>0
  <2>. QED  BY <1>0, <1>1, <2>1, ReadsEnd
<1>3. CASE m > 0 /\ z[1] \in delim /\ z[1] # Quote
  <2>1. 1 \in 1..m /\ p + 1 - 1 = p
    BY <1>0, <1>1, <1>3
  <2>2. hdr[p] = z[1]
    BY <1>1, <2>1
  <2>. QED  BY <1>0, <1>1, <1>3, <2>2, ReadsEnd
<1>. QED  BY <1>0, <1>2, <1>3 DEF Delimited

LEMMA PlainRead ==
    ASSUME NEW hdr \in Seq(STRING), NEW delim, NEW x \in Seq(STRING), NEW z \in Seq(STRING),
           NEW p, EndsWith(hdr, p, x \o z), Clear(x, delim), Delimited(z, delim)
    PROVE  Says(hdr, p, delim, x, z)
<1>1. PICK f : /\ \A start : qsp_append_to_dynstring(hdr, start, delim) = f[start]["outside"]
               /\ Reads(hdr, delim, f)
  BY ReaderIs
<1>2. PICK r : r = p + Len(x)
  OBVIOUS
<1>3. Gives(f, p, "outside", x, r)
  BY <1>1, <1>2, RunOutside
<1>4. EndsWith(hdr, r, z)
  BY <1>2, EndsWithBoth
<1>5. f[r]["outside"] = [text |-> <<>>, at |-> r]
  BY <1>1, <1>4, ReadsDelimiter
<1>6. x \o <<>> = x
  BY ConcatEmptySeq
<1>7. Said(hdr, p, delim, x, r)
  BY <1>1, <1>3, <1>5, <1>6 DEF Gives, Prepend, Said
<1>. QED  BY <1>4, <1>7 DEF Says

(* What a browser puts in quotes.                                          *)
InQuotes(value, z) == <<Quote>> \o (Protected(value) \o (<<Quote>> \o z))

LEMMA QuotedRead ==
    ASSUME NEW hdr \in Seq(STRING), NEW delim, NEW value \in Seq(STRING), NEW z \in Seq(STRING),
           NEW p, Protected(value) \in Seq(STRING),
           EndsWith(hdr, p, InQuotes(value, z)), Delimited(z, delim)
    PROVE  Says(hdr, p, delim, Unquoted(value), z)
<1>1. PICK f : /\ \A start : qsp_append_to_dynstring(hdr, start, delim) = f[start]["outside"]
               /\ Reads(hdr, delim, f)
  BY ReaderIs
<1>2. Quote \in STRING
  BY MarksAssumption DEF Marks
<1>3. PICK last : last = <<Quote>> \o z /\ last \in Seq(STRING)
  <2>1. <<Quote>> \in Seq(STRING)
    BY <1>2, OneText
  <2>. QED  BY <2>1, ConcatProperties
<1>4. PICK y : y = Protected(value) \o last /\ y \in Seq(STRING)
  BY <1>3, ConcatProperties
<1>5. EndsWith(hdr, p, <<Quote>> \o y)
  BY <1>3, <1>4 DEF InQuotes
<1>6. p \in 1..Len(hdr) /\ hdr[p] = Quote /\ EndsWith(hdr, p + 1, y)
  BY <1>2, <1>4, <1>5, EndsWithOne
<1>7. PICK b : b = p + 1 /\ EndsWith(hdr, b, Protected(value) \o last)
  BY <1>4, <1>6
<1>8. PICK m : m = b + Len(Protected(value))
  OBVIOUS
<1>9. Unquoted(value) \in Seq(STRING) /\ GivesQuoted(f, b, Unquoted(value), m)
  BY <1>1, <1>3, <1>7, <1>8, RunQuoted
<1>10. EndsWith(hdr, m, last)
  BY <1>3, <1>7, <1>8, EndsWithBoth
<1>11. m \in 1..Len(hdr) /\ hdr[m] = Quote /\ EndsWith(hdr, m + 1, z)
  <2>1. EndsWith(hdr, m, <<Quote>> \o z)
    BY <1>3, <1>10
  <2>. QED  BY <1>2, <2>1, EndsWithOne
<1>12. PICK r : r = m + 1 /\ EndsWith(hdr, r, z)
  BY <1>11
<1>13. f[r]["outside"] = [text |-> <<>>, at |-> r]
  BY <1>1, <1>12, ReadsDelimiter
<1>14. f[p]["outside"] = f[b]["quoted"] /\ f[m]["quoted"] = f[r]["outside"]
  BY <1>1, <1>6, <1>7, <1>11, <1>12, ReadsQuote
<1>15. Unquoted(value) \o <<>> = Unquoted(value)
  BY <1>9, ConcatEmptySeq
<1>16. Said(hdr, p, delim, Unquoted(value), r)
  BY <1>1, <1>9, <1>13, <1>14, <1>15 DEF GivesQuoted, Prepend, Said
<1>. QED  BY <1>12, <1>16 DEF Says

NoMarks(x) == \A i \in 1..Len(x) : x[i] \notin Marks

LEMMA UnquotedSame ==
    ASSUME NEW value \in Seq(STRING), NoMarks(value)
    PROVE  Unquoted(value) = value
<1>0. PICK n : n = Len(value) /\ n \in Nat
  BY LenProperties
<1>1. PICK u : Unquoted(value) = u[1] /\ ChainOf(n, UnquotedPieces(value), u)
  BY <1>0, UnquotedIs
<1> DEFINE S == {k \in 1..(n + 1) : u[k] = SubSeq(value, k, n)}
<1>2. ASSUME NEW k \in 1..(n + 1), \A j \in (k + 1)..(n + 1) : j \in S PROVE k \in S
  <2>1. CASE k = n + 1
    <3>1. u[k] = <<>>
      BY <1>1, <2>1 DEF ChainOf
    <3>2. SubSeq(value, k, n) = <<>>
      BY <1>0, <2>1, SubSeqEmpty
    <3>. QED  BY <3>1, <3>2
  <2>2. CASE k \in 1..n
    <3>1. k + 1 \in S
      BY <1>0, <1>2, <2>2
    <3>2. value[k] # Quote
      BY <1>0, <2>2 DEF NoMarks, Marks
    <3>3. u[k] = <<value[k]>> \o u[k + 1]
      BY <1>0, <1>1, <2>2, <3>2 DEF ChainOf, UnquotedPieces
    <3>4. k \in 1..Len(value) /\ n \in k..Len(value)
      BY <1>0, <2>2
    <3>5. SubSeq(value, k, n) = <<value[k]>> \o SubSeq(value, k + 1, n)
      BY <3>4, SubSeqRecursiveFirst
    <3>. QED  BY <3>1, <3>3, <3>5
  <2>. QED  BY <1>0, <2>1, <2>2
<1> HIDE DEF S
<1>3. 1 \in S
  <2>1. \A k \in 1..(n + 1) : k \in S
    BY <1>0, <1>2, Descending
  <2>. QED  BY <1>0, <2>1
<1>4. SubSeq(value, 1, n) = value
  BY <1>0, SubSeqFull
<1>. QED  BY <1>1, <1>3, <1>4 DEF S

Spread(a, b, c, d, e) == (((a \o b) \o c) \o d) \o e = a \o (b \o (c \o (d \o e)))

LEMMA FiveJoined ==
    ASSUME NEW a \in Seq(STRING), NEW b \in Seq(STRING), NEW c \in Seq(STRING),
           NEW d \in Seq(STRING), NEW e \in Seq(STRING)
    PROVE  Spread(a, b, c, d, e)
<1>1. PICK ab : ab = a \o b /\ ab \in Seq(STRING)
  BY BothText
<1>2. PICK abc : abc = ab \o c /\ abc \in Seq(STRING)
  BY <1>1, BothText
<1>3. PICK de : de = d \o e /\ de \in Seq(STRING)
  BY BothText
<1>4. PICK cde : cde = c \o de /\ cde \in Seq(STRING)
  BY <1>3, BothText
<1>5. Groups(abc, d, e)
  BY <1>2, TextsGroup
<1>6. Groups(ab, c, de)
  BY <1>1, <1>3, TextsGroup
<1>7. Groups(a, b, cde)
  BY <1>4, TextsGroup
<1>. QED  BY <1>1, <1>2, <1>3, <1>4, <1>5, <1>6, <1>7 DEF Spread, Groups

LEMMA OneFirst ==
    ASSUME NEW c \in STRING, NEW w \in Seq(STRING)
    PROVE  <<c>> \o w \in Seq(STRING) /\ Len(<<c>> \o w) > 0 /\ (<<c>> \o w)[1] = c
<1>1. PICK x : x = <<c>> /\ x \in Seq(STRING) /\ Len(x) = 1 /\ x[1] = c
  BY OneText
<1>2. PICK n, m : n = Len(x) /\ n = 1 /\ m = Len(w) /\ m \in Nat
  BY <1>1, LenProperties
<1>3. /\ x \o w \in Seq(STRING) /\ Len(x \o w) = n + m
      /\ \A i \in 1..n : (x \o w)[i] = x[i]
  <2>1. x \in Seq(STRING) /\ Len(x) = n /\ Len(w) = m
    BY <1>1, <1>2
  <2>. QED  BY <2>1, Joined
<1>4. 1 \in 1..n /\ n + m > 0
  BY <1>2
<1>5. (x \o w)[1] = c
  BY <1>1, <1>3, <1>4
<1>. QED  BY <1>1, <1>3, <1>4, <1>5

(* The delimiters after a name and after a value.                          *)
NameEnds == {";", "="}
ValueEnds == {";"}

(* One turn of find_attribute_value reads the attribute that stands there. *)
ValueAt(hdr, r) ==
    IF NextIs(hdr, r, "=") THEN qsp_append_to_dynstring(hdr, r + 1, ValueEnds)
                           ELSE [text |-> <<>>, at |-> r]

ReadsAttribute(hdr, p, a, z) ==
    \E r, e : /\ Said(hdr, p, NameEnds, a.name, r)
              /\ ValueAt(hdr, r) = [text |-> Unquoted(a.value), at |-> e]
              /\ EndsWith(hdr, e, z)

Attributes == [name : Seq(STRING), value : Seq(STRING), quoted : BOOLEAN]

(* Names and values without quotes have no marks.                          *)
Sendable(a) == NoMarks(a.name) /\ (~a.quoted => NoMarks(a.value))

LEMMA NameRead ==
    ASSUME NEW hdr \in Seq(STRING), NEW name \in Seq(STRING), NoMarks(name), NEW p,
           NEW y \in Seq(STRING), EndsWith(hdr, p, name \o y), Delimited(y, NameEnds)
    PROVE  \E r : Said(hdr, p, NameEnds, name, r) /\ EndsWith(hdr, r, y)
<1>1. Clear(name, NameEnds)
  BY DEF NoMarks, Clear, Marks, NameEnds
<1>2. Says(hdr, p, NameEnds, name, y)
  BY <1>1, PlainRead
<1>. QED  BY <1>2 DEF Says

ReadsValue(hdr, r, x, z) ==
    \E e : ValueAt(hdr, r) = [text |-> x, at |-> e] /\ EndsWith(hdr, e, z)

LEMMA PairText ==
    ASSUME NEW S, NEW c \in S, NEW d \in S
    PROVE  <<c, d>> = <<c>> \o <<d>>
<1>1. PICK x, y : x = <<c>> /\ y = <<d>> /\ x \in Seq(S) /\ y \in Seq(S)
                  /\ Len(x) = 1 /\ Len(y) = 1 /\ x[1] = c /\ y[1] = d
  BY OneText
<1>2. x \in Seq(S) /\ y \in Seq(S) /\ Len(x) = 1 /\ Len(y) = 1
  BY <1>1
<1>3. /\ x \o y \in Seq(S) /\ Len(x \o y) = 2
      /\ (x \o y)[1] = c /\ (x \o y)[2] = d
  <2>0. PICK n, m : n = Len(x) /\ m = Len(y)
    OBVIOUS
  <2>1. x \in Seq(S) /\ y \in Seq(S) /\ Len(x) = n /\ Len(y) = m
    BY <1>2, <2>0
  <2>2. /\ x \o y \in Seq(S) /\ Len(x \o y) = n + m
        /\ \A i \in 1..n : (x \o y)[i] = x[i]
        /\ \A i \in 1..m : (x \o y)[n + i] = y[i]
    BY <2>1, Joined
  <2>3. 1 \in 1..n /\ 1 \in 1..m /\ n + m = 2 /\ n + 1 = 2
    BY <1>2, <2>0
  <2>4. (x \o y)[1] = x[1] /\ (x \o y)[n + 1] = y[1]
    BY <2>2, <2>3
  <2>. QED  BY <1>1, <2>2, <2>3, <2>4
<1>4. PICK z : z = <<c, d>> /\ z \in Seq(S) /\ Len(z) = 2 /\ z[1] = c /\ z[2] = d
  <2>1. <<c, d>> \in Seq(S)
    OBVIOUS
  <2>2. Len(<<c, d>>) = 2 /\ <<c, d>>[1] = c /\ <<c, d>>[2] = d
    OBVIOUS
  <2>. QED  BY <2>1, <2>2
<1>5. \A i \in 1..2 : z[i] = (x \o y)[i]
  BY <1>3, <1>4
<1>6. z = x \o y
  BY <1>3, <1>4, <1>5, SeqEqual
<1>. QED  BY <1>1, <1>4, <1>6

LEMMA ValueRead ==
    ASSUME NEW hdr \in Seq(STRING), NEW r, NEW w \in Seq(STRING), NEW x, NEW z,
           EndsWith(hdr, r, <<"=">> \o w),
           \A p : EndsWith(hdr, p, w) => Says(hdr, p, ValueEnds, x, z)
    PROVE  ReadsValue(hdr, r, x, z)
<1>1. "=" \in STRING
  BY MarksAssumption DEF Marks
<1>2. r \in 1..Len(hdr) /\ hdr[r] = "=" /\ EndsWith(hdr, r + 1, w)
  BY <1>1, EndsWithOne
<1>3. NextIs(hdr, r, "=")
  <2>1. PICK n : n = Len(hdr) /\ n \in Nat
    BY LenProperties
  <2>2. r <= Len(hdr)
    BY <1>2, <2>1
  <2>. QED  BY <1>2, <2>2 DEF NextIs
<1>4. PICK p : p = r + 1 /\ EndsWith(hdr, p, w)
  BY <1>2
<1>5. PICK e : Said(hdr, p, ValueEnds, x, e) /\ EndsWith(hdr, e, z)
  BY <1>4 DEF Says
<1>. QED  BY <1>3, <1>4, <1>5 DEF Said, ValueAt, ReadsValue

LEMMA AttributeRead ==
    ASSUME NEW hdr \in Seq(STRING), NEW a \in Attributes, Sendable(a), NEW z \in Seq(STRING),
           Delimited(z, ValueEnds), NEW p, EndsWith(hdr, p, Written(a) \o z)
    PROVE  ReadsAttribute(hdr, p, a, z)
<1>0. /\ a.name \in Seq(STRING) /\ a.value \in Seq(STRING) /\ NoMarks(a.name)
      /\ Quote \in STRING /\ "=" \in STRING /\ Quote # "=" /\ Quote # ";" /\ "=" # ";"
  BY MarksAssumption DEF Attributes, Sendable, Marks, Quote
<1>1. PICK name, value : name = a.name /\ value = a.value
                         /\ name \in Seq(STRING) /\ value \in Seq(STRING) /\ NoMarks(name)
  BY <1>0
<1>2. ASSUME NEW t \in Seq(STRING), Written(a) = name \o t,
             NEW w \in Seq(STRING), t \o z = <<"=">> \o w,
             \A q : EndsWith(hdr, q, w) => Says(hdr, q, ValueEnds, Unquoted(value), z)
      PROVE  ReadsAttribute(hdr, p, a, z)
  <2>1. PICK y : y = <<"=">> \o w /\ y \in Seq(STRING) /\ Len(y) > 0 /\ y[1] = "="
    BY <1>0, OneFirst
  <2>2. EndsWith(hdr, p, name \o y)
    <3>1. Groups(name, t, z)
      BY <1>1, <1>2, TextsGroup
    <3>. QED  BY <1>2, <2>1, <3>1 DEF Groups
  <2>3. Delimited(y, NameEnds)
    BY <1>0, <2>1 DEF Delimited, NameEnds
  <2>4. PICK r : Said(hdr, p, NameEnds, name, r) /\ EndsWith(hdr, r, y)
    BY <1>1, <2>1, <2>2, <2>3, NameRead
  <2>5. EndsWith(hdr, r, <<"=">> \o w)
    BY <2>1, <2>4
  <2>6. ReadsValue(hdr, r, Unquoted(value), z)
    <3>1. /\ EndsWith(hdr, r, <<"=">> \o w) /\ w \in Seq(STRING)
          /\ \A q : EndsWith(hdr, q, w) => Says(hdr, q, ValueEnds, Unquoted(value), z)
      BY <1>2, <2>5
    <3>. QED  BY <3>1, ValueRead
  <2>. QED  BY <1>1, <2>4, <2>6 DEF ReadsAttribute, ReadsValue
<1>3. CASE a.quoted
  <2>1. PICK P, q, eq : P = Protected(value) /\ q = <<Quote>> /\ eq = <<"=">>
                        /\ P \in Seq(STRING) /\ q \in Seq(STRING) /\ eq \in Seq(STRING)
    <3>1. Protected(value) \in Seq(STRING)
      <4>1. PICK g : Protected(value) = g[1] /\ ChainOf(Len(value), ProtectedPieces(value), g)
        BY <1>1, ProtectedIs
      <4>2. Len(value) \in Nat /\ ProtectedPieces(value) \in [1..Len(value) -> Seq(STRING)]
        BY <1>1, PiecesAre, LenProperties
      <4>3. \A k \in 1..(Len(value) + 1) : g[k] \in Seq(STRING)
        BY <4>1, <4>2, ChainIsText
      <4>4. 1 \in 1..(Len(value) + 1)
        <5>1. PICK n : n = Len(value) /\ n \in Nat
          BY <4>2
        <5>. QED  BY <5>1
      <4>. QED  BY <4>1, <4>3, <4>4
    <3>. QED  BY <1>0, <3>1, OneText
  <2>2. PICK t : t = ((eq \o q) \o P) \o q /\ t \in Seq(STRING)
    <3>1. eq \o q \in Seq(STRING)
      BY <2>1, ConcatProperties
    <3>2. (eq \o q) \o P \in Seq(STRING)
      BY <2>1, <3>1, ConcatProperties
    <3>3. ((eq \o q) \o P) \o q \in Seq(STRING)
      BY <2>1, <3>2, ConcatProperties
    <3>. QED  BY <3>3
  <2>3. <<"=", Quote>> = eq \o q
    <3>1. <<"=", Quote>> = <<"=">> \o <<Quote>>
      BY <1>0, PairText
    <3>. QED  BY <2>1, <3>1
  <2>4. Written(a) = name \o t
    BY <1>1, <1>3, <2>1, <2>2, <2>3 DEF Written
  <2>5. PICK w : w = InQuotes(value, z) /\ w \in Seq(STRING)
    <3>1. q \o z \in Seq(STRING)
      BY <2>1, ConcatProperties
    <3>2. P \o (q \o z) \in Seq(STRING)
      BY <2>1, <3>1, ConcatProperties
    <3>3. q \o (P \o (q \o z)) \in Seq(STRING)
      BY <2>1, <3>2, ConcatProperties
    <3>. QED  BY <2>1, <3>3 DEF InQuotes
  <2>6. t \o z = <<"=">> \o w
    <3>1. Spread(eq, q, P, q, z)
      BY <2>1, FiveJoined
    <3>. QED  BY <2>1, <2>2, <2>5, <3>1 DEF Spread, InQuotes
  <2>7. Delimited(z, ValueEnds) /\ Protected(value) \in Seq(STRING)
    BY <2>1
  <2>8. \A m : EndsWith(hdr, m, w) => Says(hdr, m, ValueEnds, Unquoted(value), z)
    BY <1>1, <2>5, <2>7, QuotedRead
  <2>. QED  BY <1>2, <2>2, <2>4, <2>5, <2>6, <2>8
<1>4. CASE ~a.quoted /\ value # <<>>
  <2>1. PICK t : t = <<"=">> \o value /\ t \in Seq(STRING)
    BY <1>0, <1>1, OneFirst
  <2>2. Written(a) = name \o t
    BY <1>1, <1>4, <2>1 DEF Written
  <2>3. PICK w : w = value \o z /\ w \in Seq(STRING)
    BY <1>1, ConcatProperties
  <2>4. t \o z = <<"=">> \o w
    <3>1. PICK eq : eq = <<"=">> /\ eq \in Seq(STRING)
      BY <1>0, OneText
    <3>2. Groups(eq, value, z)
      BY <1>1, <3>1, TextsGroup
    <3>. QED  BY <2>1, <2>3, <3>1, <3>2 DEF Groups
  <2>5. NoMarks(value) /\ Clear(value, ValueEnds)
    BY <1>1, <1>4 DEF Sendable, NoMarks, Clear, Marks, ValueEnds
  <2>6. Unquoted(value) = value
    BY <1>1, <2>5, UnquotedSame
  <2>7. \A m : EndsWith(hdr, m, w) => Says(hdr, m, ValueEnds, Unquoted(value), z)
    BY <1>1, <2>3, <2>5, <2>6, PlainRead
  <2>. QED  BY <1>2, <2>1, <2>2, <2>3, <2>4, <2>7
<1>5. CASE ~a.quoted /\ value = <<>>
  <2>1. Written(a) \o z = name \o z
    <3>1. name \o <<>> = name
      BY <1>1, ConcatEmptySeq
    <3>. QED  BY <1>1, <1>5, <3>1 DEF Written
  <2>2. Delimited(z, NameEnds)
    BY DEF Delimited, NameEnds, ValueEnds
  <2>3. PICK r : Said(hdr, p, NameEnds, name, r) /\ EndsWith(hdr, r, z)
    BY <1>1, <2>1, <2>2, NameRead
  <2>4. ~NextIs(hdr, r, "=")
    <3>0. PICK len, m : len = Len(hdr) /\ len \in Nat /\ m = Len(z) /\ m \in Nat
      BY LenProperties
    <3>1. r \in 1..(len + 1) /\ m = len + 1 - r /\ \A i \in 1..m : hdr[r + i - 1] = z[i]
      BY <2>3, <3>0 DEF EndsWith
    <3>2. CASE m = 0
      <4>1. ~(r <= Len(hdr))
        BY <3>0, <3>1, <3>2
      <4>. QED  BY <4>1 DEF NextIs
    <3>3. CASE m > 0
      <4>0. z # <<>>
        BY <3>0, <3>3
      <4>1. z[1] = ";"
        BY <4>0 DEF Delimited, ValueEnds
      <4>2. 1 \in 1..m /\ r + 1 - 1 = r
        BY <3>0, <3>1, <3>3
      <4>3. hdr[r] = ";"
        BY <3>1, <4>1, <4>2
      <4>. QED  BY <1>0, <4>3 DEF NextIs
    <3>. QED  BY <3>0, <3>2, <3>3
  <2>5. Unquoted(value) = <<>>
    <3>1. NoMarks(value)
      BY <1>1, <1>5 DEF Sendable
    <3>. QED  BY <1>1, <1>5, <3>1, UnquotedSame
  <2>. QED  BY <1>1, <2>3, <2>4, <2>5 DEF ReadsAttribute, ValueAt
<1>. QED  BY <1>1, <1>3, <1>4, <1>5 DEF Attributes

(* Reading goes forward and no further than the end.                       *)
LEMMA ReadsForward ==
    ASSUME NEW hdr \in Seq(STRING), NEW delim, NEW s \in 1..(Len(hdr) + 1)
    PROVE  /\ qsp_append_to_dynstring(hdr, s, delim).text \in Seq(STRING)
           /\ qsp_append_to_dynstring(hdr, s, delim).at \in s..(Len(hdr) + 1)
<1>0. PICK n : n = Len(hdr) /\ n \in Nat
  BY LenProperties
<1>1. PICK f : /\ \A start : qsp_append_to_dynstring(hdr, start, delim) = f[start]["outside"]
               /\ Reads(hdr, delim, f)
  BY ReaderIs
<1> DEFINE S == {i \in 1..(n + 1) : \A how \in States : f[i][how].at \in i..(n + 1)}
<1>2. ASSUME NEW i \in 1..(n + 1), \A j \in (i + 1)..(n + 1) : j \in S PROVE i \in S
  <2> SUFFICES ASSUME NEW how \in States PROVE f[i][how].at \in i..(n + 1)
    OBVIOUS
  <2>1. f[i] = ReadAt(hdr, delim, i, f)
    BY <1>0, <1>1 DEF Reads
  <2>2. CASE i = n + 1
    <3>1. i > Len(hdr)
      BY <1>0, <2>2
    <3>2. f[i][how] = [text |-> <<>>, at |-> i]
      BY <2>1, <3>1 DEF ReadAt
    <3>. QED  BY <1>0, <3>2
  <2>3. CASE i \in 1..n
    <3>1. ~(i > Len(hdr)) /\ i + 1 \in S
      BY <1>0, <1>2, <2>3
    <3>2. \A t \in States : f[i + 1][t].at \in i..(n + 1) /\ Put(hdr[i], f[i + 1][t]).at \in i..(n + 1)
      <4>1. \A t \in States : f[i + 1][t].at \in (i + 1)..(n + 1)
        BY <3>1
      <4>2. \A m \in (i + 1)..(n + 1) : m \in i..(n + 1)
        BY <1>0
      <4>. QED  BY <4>1, <4>2 DEF Put
    <3>3. [text |-> <<>>, at |-> i].at \in i..(n + 1)
      BY <1>0
    <3>. QED  BY <2>1, <3>1, <3>2, <3>3 DEF ReadAt, States
  <2>. QED  BY <1>0, <2>2, <2>3
<1> HIDE DEF S
<1>3. \A i \in 1..(n + 1) : i \in S
  BY <1>0, <1>2, Descending
<1>4. f[s]["outside"].at \in s..(n + 1)
  BY <1>0, <1>3 DEF S, States
<1>5. f[s]["outside"].text \in Seq(STRING)
  BY <1>1 DEF Reads, States, Taken
<1>. QED  BY <1>0, <1>1, <1>4, <1>5

(* White space ends somewhere.                                             *)
Spaced(hdr, i, j) == /\ j \in i..(Len(hdr) + 1) /\ ~NextIs(hdr, j, " ")
                     /\ \A l \in i..(j - 1) : hdr[l] = " "

LEMMA AfterSpaceIs ==
    ASSUME NEW hdr \in Seq(STRING), NEW i \in 1..(Len(hdr) + 1)
    PROVE  Spaced(hdr, i, AfterSpace(hdr, i))
<1>0. PICK n : n = Len(hdr) /\ n \in Nat
  BY LenProperties
<1> DEFINE T == {j \in i..(n + 1) : ~NextIs(hdr, j, " ")}
<1>1. n + 1 \in T
  <2>1. n + 1 \in i..(n + 1) /\ ~(n + 1 <= Len(hdr))
    BY <1>0
  <2>. QED  BY <2>1 DEF NextIs
<1>2. \A j \in T : j \in Nat /\ j \in i..(n + 1)
  <2>1. \A j \in i..(n + 1) : j \in Nat
    BY <1>0
  <2>. QED  BY <2>1
<1>3. PICK j \in T : \A k \in T : j <= k
  <2>1. T \in SUBSET Nat /\ T # {}
    BY <1>1, <1>2
  <2> HIDE DEF T
  <2>. QED  BY <2>1, LeastNatural
<1>b. j \in i..(n + 1)
  OBVIOUS
<1>a. ~NextIs(hdr, j, " ") /\ \A l \in i..(n + 1) : l \notin T => NextIs(hdr, l, " ")
  OBVIOUS
<1> HIDE DEF T
<1>4. ASSUME NEW l \in i..(j - 1) PROVE hdr[l] = " "
  <2>1. l \in i..(n + 1) /\ ~(j <= l)
    BY <1>0, <1>b
  <2>2. l \notin T
    BY <1>3, <2>1
  <2>. QED  BY <1>a, <2>1, <2>2 DEF NextIs
<1>5. Spaced(hdr, i, j)
  BY <1>0, <1>a, <1>b, <1>4 DEF Spaced
<1>. QED  BY <1>5 DEF AfterSpace, Spaced

LEMMA OneEndOfSpace ==
    ASSUME NEW hdr \in Seq(STRING), NEW i \in 1..(Len(hdr) + 1),
           NEW j, Spaced(hdr, i, j), NEW k, Spaced(hdr, i, k)
    PROVE  j = k
<1>0. PICK n : n = Len(hdr) /\ n \in Nat
  BY LenProperties
<1>1. j \in i..(n + 1) /\ k \in i..(n + 1)
  BY <1>0 DEF Spaced
<1>2. CASE j < k
  <2>1. j \in i..(k - 1) /\ j <= n
    BY <1>0, <1>1, <1>2
  <2>. QED  BY <1>0, <2>1 DEF Spaced, NextIs
<1>3. CASE k < j
  <2>1. k \in i..(j - 1) /\ k <= n
    BY <1>0, <1>1, <1>3
  <2>. QED  BY <1>0, <2>1 DEF Spaced, NextIs
<1>. QED  BY <1>0, <1>1, <1>2, <1>3

-----------------------------------------------------------------------------
(* One turn of find_attribute_value.                                       *)
NameAt(hdr, pos) == qsp_append_to_dynstring(hdr, AfterSpace(hdr, pos), NameEnds)

SearchAt(hdr, attrib, pos, from) ==
    LET value == ValueAt(hdr, NameAt(hdr, pos).at)
    IN  IF Matches(NameAt(hdr, pos).text, attrib) THEN {value.text}
        ELSE IF value.at > Len(hdr) THEN {}
        ELSE from[value.at + 1]

Searches(hdr, attrib, f) ==
    \A pos \in 1..(Len(hdr) + 1) : f[pos] = SearchAt(hdr, attrib, pos, f)

LEMMA TurnsForward ==
    ASSUME NEW hdr \in Seq(STRING), NEW pos \in 1..(Len(hdr) + 1)
    PROVE  /\ ValueAt(hdr, NameAt(hdr, pos).at).text \in Seq(STRING)
           /\ ValueAt(hdr, NameAt(hdr, pos).at).at \in pos..(Len(hdr) + 1)
<1>0. PICK n : n = Len(hdr) /\ n \in Nat
  BY LenProperties
<1>1. PICK s : s = AfterSpace(hdr, pos) /\ s \in pos..(n + 1)
  BY <1>0, AfterSpaceIs DEF Spaced
<1>2. PICK r : r = NameAt(hdr, pos).at /\ r \in s..(n + 1)
  <2>1. s \in 1..(Len(hdr) + 1)
    BY <1>0, <1>1
  <2>2. qsp_append_to_dynstring(hdr, s, NameEnds).at \in s..(Len(hdr) + 1)
    BY <2>1, ReadsForward
  <2>. QED  BY <1>0, <1>1, <2>2 DEF NameAt
<1>3. CASE NextIs(hdr, r, "=")
  <2>1. PICK m : m = r + 1 /\ m \in 1..(Len(hdr) + 1)
    BY <1>0, <1>1, <1>2, <1>3 DEF NextIs
  <2>2. /\ qsp_append_to_dynstring(hdr, m, ValueEnds).text \in Seq(STRING)
        /\ qsp_append_to_dynstring(hdr, m, ValueEnds).at \in m..(Len(hdr) + 1)
    BY <2>1, ReadsForward
  <2>3. \A e \in m..(n + 1) : e \in pos..(n + 1)
    BY <1>0, <1>1, <1>2, <2>1
  <2>4. ValueAt(hdr, r) = qsp_append_to_dynstring(hdr, m, ValueEnds)
    BY <1>3, <2>1 DEF ValueAt
  <2>. QED  BY <1>0, <1>2, <2>2, <2>3, <2>4
<1>4. CASE ~NextIs(hdr, r, "=")
  <2>1. ValueAt(hdr, r) = [text |-> <<>>, at |-> r]
    BY <1>4 DEF ValueAt
  <2>2. r \in pos..(n + 1) /\ <<>> \in Seq(STRING)
    BY <1>0, <1>1, <1>2, EmptySeq
  <2>. QED  BY <1>0, <1>2, <2>1, <2>2
<1>. QED  BY <1>3, <1>4

LEMMA SearcherIs ==
    ASSUME NEW hdr \in Seq(STRING), NEW attrib
    PROVE  \E f : find_attribute_value(hdr, attrib) = f[1] /\ Searches(hdr, attrib, f)
<1>0. PICK n : n = Len(hdr) /\ n \in Nat
  BY LenProperties
<1> DEFINE V == SUBSET Seq(STRING)
           F == [1..(n + 1) -> V]
           H == [pos \in 1..(n + 1) |-> [f \in F |-> SearchAt(hdr, attrib, pos, f)]]
<1>1. ASSUME NEW pos \in 1..(n + 1)
      PROVE  /\ ValueAt(hdr, NameAt(hdr, pos).at).text \in Seq(STRING)
             /\ ValueAt(hdr, NameAt(hdr, pos).at).at \in pos..(n + 1)
  BY <1>0, TurnsForward
<1>2. ASSUME NEW pos \in 1..(n + 1), NEW f \in F PROVE SearchAt(hdr, attrib, pos, f) \in V
  <2>1. PICK value : /\ value = ValueAt(hdr, NameAt(hdr, pos).at)
                     /\ value.text \in Seq(STRING) /\ value.at \in pos..(n + 1)
    BY <1>1
  <2>2. {value.text} \in V /\ {} \in V
    BY <2>1
  <2>3. ~(value.at > Len(hdr)) => f[value.at + 1] \in V
    BY <1>0, <2>1
  <2>. QED  BY <2>1, <2>2, <2>3 DEF SearchAt
<1>3. ASSUME NEW pos \in 1..(n + 1), NEW f \in F, NEW g \in F,
             \A j \in (pos + 1)..(n + 1) : f[j] = g[j]
      PROVE  SearchAt(hdr, attrib, pos, f) = SearchAt(hdr, attrib, pos, g)
  <2>1. PICK value : /\ value = ValueAt(hdr, NameAt(hdr, pos).at)
                     /\ value.at \in pos..(n + 1)
    BY <1>1
  <2>2. ~(value.at > Len(hdr)) => f[value.at + 1] = g[value.at + 1]
    BY <1>0, <1>3, <2>1
  <2>. QED  BY <2>1, <2>2 DEF SearchAt
<1>4. \A pos \in 1..(n + 1) : \A f \in F : H[pos][f] = SearchAt(hdr, attrib, pos, f)
  OBVIOUS
<1>5. H \in [1..(n + 1) -> [F -> V]]
  BY <1>2
<1>6. LooksAhead(n, V, H)
  <2> SUFFICES ASSUME NEW pos \in 1..(n + 1), NEW f \in F, NEW g \in F,
                      \A j \in (pos + 1)..(n + 1) : f[j] = g[j]
               PROVE  H[pos][f] = H[pos][g]
    BY DEF LooksAhead
  <2>1. SearchAt(hdr, attrib, pos, f) = SearchAt(hdr, attrib, pos, g)
    BY <1>3
  <2>2. H[pos][f] = SearchAt(hdr, attrib, pos, f) /\ H[pos][g] = SearchAt(hdr, attrib, pos, g)
    BY <1>4
  <2>. QED  BY <2>1, <2>2
<1>7. V # {}
  OBVIOUS
<1>8. PICK f \in F : Meets(H, f, 1, n)
  <2> HIDE DEF V, H
  <2>. QED  BY <1>0, <1>5, <1>6, <1>7, Recursion
<1>9. f = [pos \in 1..(Len(hdr) + 1) |-> SearchAt(hdr, attrib, pos, f)]
  <2>1. \A pos \in 1..(n + 1) : f[pos] = SearchAt(hdr, attrib, pos, f)
    <3> HIDE DEF H, V
    <3>. QED  BY <1>4, <1>8 DEF Meets
  <2>2. f = [pos \in 1..(n + 1) |-> f[pos]]
    BY <1>8
  <2>. QED  BY <1>0, <2>1, <2>2
<1> DEFINE from == CHOOSE from : from = [pos \in 1..(Len(hdr) + 1) |-> SearchAt(hdr, attrib, pos, from)]
<1>10. from = [pos \in 1..(Len(hdr) + 1) |-> SearchAt(hdr, attrib, pos, from)]
  BY <1>9
<1>11. find_attribute_value(hdr, attrib) = from[1]
  BY DEF find_attribute_value, SearchAt, NameAt, ValueAt, NameEnds, ValueEnds
<1> HIDE DEF from
<1>12. Searches(hdr, attrib, from)
  BY <1>10 DEF Searches
<1>. QED  BY <1>11, <1>12

LEMMA ProtectedIsText ==
    ASSUME NEW value \in Seq(STRING)
    PROVE  Protected(value) \in Seq(STRING)
<1>0. PICK n : n = Len(value) /\ n \in Nat
  BY LenProperties
<1>1. PICK g : Protected(value) = g[1] /\ ChainOf(n, ProtectedPieces(value), g)
  BY <1>0, ProtectedIs
<1>2. ProtectedPieces(value) \in [1..n -> Seq(STRING)]
  BY <1>0, PiecesAre
<1>3. \A k \in 1..(n + 1) : g[k] \in Seq(STRING)
  BY <1>0, <1>1, <1>2, ChainIsText
<1>4. 1 \in 1..(n + 1)
  BY <1>0
<1>. QED  BY <1>1, <1>3, <1>4

LEMMA WrittenIsText ==
    ASSUME NEW a \in Attributes
    PROVE  Written(a) \in Seq(STRING)
<1>0. a.name \in Seq(STRING) /\ a.value \in Seq(STRING) /\ Quote \in STRING /\ "=" \in STRING
  BY MarksAssumption DEF Attributes, Marks
<1>1. PICK q, eq, name, value :
          /\ q = <<Quote>> /\ eq = <<"=">> /\ name = a.name /\ value = a.value
          /\ q \in Seq(STRING) /\ eq \in Seq(STRING)
          /\ name \in Seq(STRING) /\ value \in Seq(STRING)
  BY <1>0, OneText
<1>2. PICK P : P = Protected(value) /\ P \in Seq(STRING)
  BY <1>1, ProtectedIsText
<1>3. CASE a.quoted
  <2>1. eq \o q \in Seq(STRING) /\ <<"=", Quote>> = eq \o q
    BY <1>0, <1>1, BothText, PairText
  <2>2. (eq \o q) \o P \in Seq(STRING)
    BY <1>2, <2>1, BothText
  <2>3. ((eq \o q) \o P) \o q \in Seq(STRING)
    BY <1>1, <2>2, BothText
  <2>4. name \o (((eq \o q) \o P) \o q) \in Seq(STRING)
    BY <1>1, <2>3, BothText
  <2>. QED  BY <1>1, <1>2, <1>3, <2>1, <2>4 DEF Written
<1>4. CASE ~a.quoted /\ value = <<>>
  <2>1. name \o <<>> = name
    BY <1>1, ConcatEmptySeq
  <2>. QED  BY <1>1, <1>4, <2>1 DEF Written
<1>5. CASE ~a.quoted /\ value # <<>>
  <2>1. eq \o value \in Seq(STRING)
    BY <1>1, BothText
  <2>2. name \o (eq \o value) \in Seq(STRING)
    BY <1>1, <2>1, BothText
  <2>. QED  BY <1>1, <1>5, <2>2 DEF Written
<1>. QED  BY <1>3, <1>4, <1>5 DEF Attributes

(* From every attribute on, h is the rest of the header.                   *)
Separator == <<";", " ">>

RestAt(list, i, h) ==
    Written(list[i]) \o (IF i = Len(list) THEN <<>> ELSE Separator \o h[i + 1])

HeaderOf(list, h) ==
    \A i \in 1..Len(list) : h[i] = RestAt(list, i, h) /\ h[i] \in Seq(STRING)

LEMMA SeparatorIs == Separator = <<";">> \o <<" ">> /\ Separator \in Seq(STRING)
<1>1. ";" \in STRING /\ " " \in STRING
  BY MarksAssumption DEF Marks
<1>2. <<";", " ">> = <<";">> \o <<" ">>
  BY <1>1, PairText
<1>3. <<";">> \in Seq(STRING) /\ <<" ">> \in Seq(STRING)
  BY <1>1, OneText
<1>4. <<";">> \o <<" ">> \in Seq(STRING)
  BY <1>3, BothText
<1>. QED  BY <1>2, <1>4 DEF Separator

LEMMA RestIsText ==
    ASSUME NEW list \in Seq(Attributes), NEW i \in 1..Len(list), NEW h,
           i = Len(list) \/ h[i + 1] \in Seq(STRING)
    PROVE  RestAt(list, i, h) \in Seq(STRING)
<1>1. Written(list[i]) \in Seq(STRING)
  <2>1. list[i] \in Attributes
    BY ElementOfSeq
  <2>. QED  BY <2>1, WrittenIsText
<1>2. CASE i = Len(list)
  <2>1. Written(list[i]) \o <<>> = Written(list[i])
    BY <1>1, ConcatEmptySeq
  <2>. QED  BY <1>1, <1>2, <2>1 DEF RestAt
<1>3. CASE i # Len(list)
  <2>1. Separator \o h[i + 1] \in Seq(STRING)
    BY <1>3, SeparatorIs, BothText
  <2>2. Written(list[i]) \o (Separator \o h[i + 1]) \in Seq(STRING)
    BY <1>1, <2>1, BothText
  <2>. QED  BY <1>3, <2>2 DEF RestAt
<1>. QED  BY <1>2, <1>3

LEMMA HeaderIs ==
    ASSUME NEW list \in Seq(Attributes), list # <<>>
    PROVE  \E h : Header(list) = h[1] /\ HeaderOf(list, h)
<1>0. PICK n : n + 1 = Len(list) /\ n \in Nat
  <2>1. Len(list) \in Nat
    BY LenProperties
  <2>2. Len(list) # 0
    BY EmptySeq
  <2> DEFINE m == Len(list)
  <2>3. m - 1 \in Nat /\ (m - 1) + 1 = m
    <3>1. m \in Nat /\ m # 0
      BY <2>1, <2>2
    <3> HIDE DEF m
    <3>. QED  BY <3>1
  <2>. QED  BY <2>3
<1>a. DOMAIN list = 1..(n + 1)
  BY <1>0, LenProperties
<1> DEFINE V == Seq(STRING)
           F == [1..(n + 1) -> V]
           H == [i \in 1..(n + 1) |-> [h \in F |-> RestAt(list, i, h)]]
<1>1. ASSUME NEW i \in 1..(n + 1), NEW h, i = n + 1 \/ h[i + 1] \in V PROVE RestAt(list, i, h) \in V
  BY <1>0, <1>1, RestIsText
<1>2. \A i \in 1..(n + 1) : \A h \in F : H[i][h] = RestAt(list, i, h)
  OBVIOUS
<1>3. H \in [1..(n + 1) -> [F -> V]]
  <2>1. ASSUME NEW i \in 1..(n + 1), NEW h \in F PROVE RestAt(list, i, h) \in V
    <3>1. i = n + 1 \/ h[i + 1] \in V
      BY <1>0
    <3>. QED  BY <1>1, <3>1
  <2>. QED  BY <2>1
<1>4. LooksAhead(n, V, H)
  <2> SUFFICES ASSUME NEW i \in 1..(n + 1), NEW f \in F, NEW g \in F,
                      \A j \in (i + 1)..(n + 1) : f[j] = g[j]
               PROVE  H[i][f] = H[i][g]
    BY DEF LooksAhead
  <2>1. i = n + 1 \/ f[i + 1] = g[i + 1]
    BY <1>0
  <2>2. RestAt(list, i, f) = RestAt(list, i, g)
    BY <1>0, <2>1 DEF RestAt
  <2> HIDE DEF H
  <2>. QED  BY <1>2, <2>2
<1>5. V # {}
  BY EmptySeq
<1>6. PICK h \in F : Meets(H, h, 1, n)
  <2> HIDE DEF V, H
  <2>. QED  BY <1>0, <1>3, <1>4, <1>5, Recursion
<1>7. h = [i \in DOMAIN list |-> RestAt(list, i, h)]
  <2>1. \A i \in 1..(n + 1) : h[i] = RestAt(list, i, h)
    <3> HIDE DEF H, V
    <3>. QED  BY <1>2, <1>6 DEF Meets
  <2>2. h = [i \in 1..(n + 1) |-> h[i]]
    BY <1>6
  <2>. QED  BY <1>a, <2>1, <2>2
<1> DEFINE from == CHOOSE from : from = [i \in DOMAIN list |-> RestAt(list, i, from)]
<1>8. from = [i \in DOMAIN list |-> RestAt(list, i, from)]
  BY <1>7
<1>9. Header(list) = from[1]
  BY DEF Header, RestAt, Separator
<1> HIDE DEF from
<1>10. \A i \in 1..(n + 1) : from[i] = RestAt(list, i, from)
  BY <1>a, <1>8
<1> DEFINE S == {i \in 1..(n + 1) : from[i] \in V}
<1>11. ASSUME NEW i \in 1..(n + 1), \A j \in (i + 1)..(n + 1) : j \in S PROVE i \in S
  <2>1. i = n + 1 \/ from[i + 1] \in V
    BY <1>0, <1>11
  <2>2. RestAt(list, i, from) \in V
    BY <1>1, <2>1
  <2>. QED  BY <1>10, <2>2
<1> HIDE DEF S
<1>12. \A i \in 1..(n + 1) : i \in S
  BY <1>0, <1>11, Descending
<1>13. HeaderOf(list, from)
  BY <1>0, <1>10, <1>12 DEF S, HeaderOf
<1>. QED  BY <1>9, <1>13

-----------------------------------------------------------------------------
(* The values of the first attribute that is asked for, from k on.         *)
Named(list, k, j) == j \in k..Len(list) /\ list[j].name = Asked

FirstNamed(list, k) ==
    {Unquoted(list[i].value) :
        i \in {j \in k..Len(list) : /\ Named(list, k, j)
                                    /\ \A l \in k..Len(list) : Named(list, k, l) => j <= l}}

LEMMA NamedHere ==
    ASSUME NEW list \in Seq(Attributes), NEW k \in 1..Len(list), list[k].name = Asked
    PROVE  FirstNamed(list, k) = {Unquoted(list[k].value)}
<1>0. PICK n : n = Len(list) /\ n \in Nat
  BY LenProperties
<1>1. Named(list, k, k) /\ k \in k..Len(list) /\ \A l \in k..Len(list) : k <= l
  BY <1>0 DEF Named
<1>2. \A j \in k..Len(list) : j <= k => j = k
  BY <1>0
<1>. QED  BY <1>1, <1>2 DEF FirstNamed

LEMMA NamedLater ==
    ASSUME NEW list \in Seq(Attributes), NEW k \in 1..Len(list), list[k].name # Asked
    PROVE  /\ k = Len(list) => FirstNamed(list, k) = {}
           /\ k # Len(list) => FirstNamed(list, k) = FirstNamed(list, k + 1)
<1>0. PICK n : n = Len(list) /\ n \in Nat
  BY LenProperties
<1>1. \A j : Named(list, k, j) <=> Named(list, k + 1, j)
  <2>1. \A j : j \in k..n <=> j = k \/ j \in (k + 1)..n
    BY <1>0
  <2>. QED  BY <1>0, <2>1 DEF Named
<1>2. \A j : Named(list, k, j) => j \in k..n /\ j \in (k + 1)..n
  BY <1>0, <1>1 DEF Named
<1>3. CASE k = n
  <2>1. (k + 1)..n = {}
    BY <1>0, <1>3
  <2>2. \A j : ~Named(list, k, j)
    BY <1>2, <2>1
  <2>. QED  BY <1>0, <1>3, <2>2 DEF FirstNamed
<1>4. CASE k # n
  <2> DEFINE A == {j \in k..Len(list) : /\ Named(list, k, j)
                          /\ \A l \in k..Len(list) : Named(list, k, l) => j <= l}
             B == {j \in (k + 1)..Len(list) : /\ Named(list, k + 1, j)
                          /\ \A l \in (k + 1)..Len(list) : Named(list, k + 1, l) => j <= l}
  <2>1. A = B
    BY <1>0, <1>1, <1>2
  <2>2. FirstNamed(list, k) = {Unquoted(list[i].value) : i \in A}
    BY DEF FirstNamed
  <2>3. FirstNamed(list, k + 1) = {Unquoted(list[i].value) : i \in B}
    BY DEF FirstNamed
  <2> HIDE DEF A, B
  <2>. QED  BY <1>0, <1>4, <2>1, <2>2, <2>3
<1>. QED  BY <1>0, <1>3, <1>4

LEMMA FirstThere ==
    ASSUME NEW hdr \in Seq(STRING), NEW p, NEW y \in Seq(STRING), Len(y) > 0, EndsWith(hdr, p, y)
    PROVE  p \in 1..Len(hdr) /\ hdr[p] = y[1]
<1>0. PICK n, m : n = Len(hdr) /\ n \in Nat /\ m = Len(y) /\ m \in Nat /\ m > 0
  BY LenProperties
<1>1. p \in 1..(n + 1) /\ m = n + 1 - p /\ \A i \in 1..m : hdr[p + i - 1] = y[i]
  BY <1>0 DEF EndsWith
<1>2. p + 1 - 1 = p /\ 1 \in 1..m
  BY <1>0, <1>1
<1>. QED  BY <1>0, <1>1, <1>2

(* A turn skips the white space before a name.                             *)
Dark(y) == Len(y) > 0 /\ y[1] # " "

HereOrSpace(hdr, p, y) == EndsWith(hdr, p, y) \/ EndsWith(hdr, p, <<" ">> \o y)

LEMMA SpacedBy ==
    ASSUME NEW hdr, NEW i, NEW j, j \in i..(Len(hdr) + 1), ~NextIs(hdr, j, " "),
           \A l \in i..(j - 1) : hdr[l] = " "
    PROVE  Spaced(hdr, i, j)
BY DEF Spaced

LEMMA PastSpace ==
    ASSUME NEW hdr \in Seq(STRING), NEW p, NEW y \in Seq(STRING), Dark(y),
           HereOrSpace(hdr, p, y)
    PROVE  p \in 1..(Len(hdr) + 1) /\ EndsWith(hdr, AfterSpace(hdr, p), y)
<1>0. PICK n : n = Len(hdr) /\ n \in Nat
  BY LenProperties
<1>a. " " \in STRING
  BY MarksAssumption DEF Marks
<1>1. CASE EndsWith(hdr, p, y)
  <2>1. p \in 1..n /\ ~NextIs(hdr, p, " ")
    BY <1>0, <1>1, FirstThere DEF NextIs, Dark
  <2>a. p \in 1..n
    BY <2>1
  <2>2. p \in p..(n + 1) /\ p \in 1..(n + 1) /\ p..(p - 1) = {}
    BY <1>0, <2>a
  <2>3. Spaced(hdr, p, p)
    BY <1>0, <2>1, <2>2 DEF Spaced
  <2>4. AfterSpace(hdr, p) = p
    BY <1>0, <2>2, <2>3, AfterSpaceIs, OneEndOfSpace
  <2>. QED  BY <1>0, <1>1, <2>2, <2>4
<1>2. CASE EndsWith(hdr, p, <<" ">> \o y)
  <2>1. p \in 1..n /\ hdr[p] = " " /\ EndsWith(hdr, p + 1, y)
    BY <1>0, <1>a, <1>2, EndsWithOne
  <2>2. ~NextIs(hdr, p + 1, " ")
    BY <2>1, FirstThere DEF NextIs, Dark
  <2>a. p \in 1..n
    BY <2>1
  <2>3. PICK j : /\ j = p + 1 /\ j \in p..(n + 1) /\ p \in 1..(n + 1)
                 /\ \A l \in p..(j - 1) : l = p
    BY <1>0, <2>a
  <2>4. j \in p..(Len(hdr) + 1) /\ ~NextIs(hdr, j, " ")
    BY <1>0, <2>2, <2>3
  <2>5. \A l \in p..(j - 1) : hdr[l] = " "
    BY <2>1, <2>3
  <2>6. Spaced(hdr, p, j)
    BY <2>4, <2>5, SpacedBy
  <2>7. AfterSpace(hdr, p) = j
    BY <1>0, <2>3, <2>6, AfterSpaceIs, OneEndOfSpace
  <2>. QED  BY <1>0, <2>1, <2>3, <2>7
<1>. QED  BY <1>1, <1>2 DEF HereOrSpace

(* An attribute with a name does not begin with white space.               *)
Nameful(a) == a.name # <<>>

LEMMA FirstOfBoth ==
    ASSUME NEW x \in Seq(STRING), x # <<>>, NoMarks(x), NEW y \in Seq(STRING)
    PROVE  Len(x \o y) > 0 /\ (x \o y)[1] = x[1] /\ x[1] \notin Marks
<1>0. Len(x) \in Nat /\ Len(x) # 0 /\ Len(y) \in Nat
  <2>1. Len(x) \in Nat /\ Len(y) \in Nat
    BY LenProperties
  <2>2. Len(x) # 0
    BY EmptySeq
  <2>. QED  BY <2>1, <2>2
<1>1. PICK n, m : n = Len(x) /\ n \in Nat /\ n # 0 /\ m = Len(y) /\ m \in Nat
  BY <1>0
<1>2. Len(x \o y) = n + m /\ \A i \in 1..n : (x \o y)[i] = x[i]
  BY <1>1, Joined
<1>3. n + m > 0 /\ 1 \in 1..n
  BY <1>1
<1>. QED  BY <1>1, <1>2, <1>3 DEF NoMarks

LEMMA NameFirst ==
    ASSUME NEW a \in Attributes, Sendable(a), Nameful(a), NEW z \in Seq(STRING)
    PROVE  /\ Written(a) \o z \in Seq(STRING) /\ Len(Written(a) \o z) > 0
           /\ (Written(a) \o z)[1] \notin Marks
<1>0. Written(a) \in Seq(STRING) /\ a.name \in Seq(STRING) /\ Written(a) \o z \in Seq(STRING)
  BY WrittenIsText, BothText DEF Attributes
<1>1. PICK v : v \in Seq(STRING) /\ Written(a) = a.name \o v
  <2>0. Quote \in STRING /\ "=" \in STRING /\ a.value \in Seq(STRING) /\ a.quoted \in BOOLEAN
    BY MarksAssumption DEF Attributes, Marks
  <2>1. <<Quote>> \in Seq(STRING) /\ <<"=">> \in Seq(STRING) /\ <<"=", Quote>> = <<"=">> \o <<Quote>>
    BY <2>0, OneText, PairText
  <2>2. Protected(a.value) \in Seq(STRING)
    BY <2>0, ProtectedIsText
  <2>3. <<"=", Quote>> \in Seq(STRING)
    BY <2>1, BothText
  <2>4. <<"=", Quote>> \o Protected(a.value) \in Seq(STRING)
    BY <2>2, <2>3, BothText
  <2>5. <<"=", Quote>> \o Protected(a.value) \o <<Quote>> \in Seq(STRING)
    BY <2>1, <2>4, BothText
  <2>6. <<"=">> \o a.value \in Seq(STRING)
    BY <2>0, <2>1, BothText
  <2>7. <<>> \in Seq(STRING)
    BY EmptySeq
  <2>8. CASE a.quoted
    BY <2>5, <2>8 DEF Written
  <2>9. CASE ~a.quoted /\ a.value = <<>>
    BY <2>7, <2>9 DEF Written
  <2>10. CASE ~a.quoted /\ a.value # <<>>
    BY <2>6, <2>10 DEF Written
  <2>. QED  BY <2>0, <2>8, <2>9, <2>10
<1>3. Groups(a.name, v, z) /\ v \o z \in Seq(STRING)
  BY <1>0, <1>1, TextsGroup, BothText
<1>4. Written(a) \o z = a.name \o (v \o z)
  BY <1>1, <1>3 DEF Groups
<1>5. /\ Len(a.name \o (v \o z)) > 0
      /\ (a.name \o (v \o z))[1] = a.name[1] /\ a.name[1] \notin Marks
  BY <1>0, <1>3, FirstOfBoth DEF Sendable, Nameful
<1>. QED  BY <1>0, <1>4, <1>5

(* What follows an attribute in a header.                                  *)
Follows(list, k, h) == IF k = Len(list) THEN <<>> ELSE Separator \o h[k + 1]

LEMMA FollowsIs ==
    ASSUME NEW list \in Seq(Attributes), NEW h, HeaderOf(list, h), NEW k \in 1..Len(list)
    PROVE  /\ h[k] = Written(list[k]) \o Follows(list, k, h)
           /\ Follows(list, k, h) \in Seq(STRING) /\ Delimited(Follows(list, k, h), ValueEnds)
           /\ k = Len(list) => Follows(list, k, h) = <<>>
           /\ k # Len(list) => /\ k + 1 \in 1..Len(list) /\ h[k + 1] \in Seq(STRING)
                               /\ Follows(list, k, h) = <<";">> \o (<<" ">> \o h[k + 1])
<1>0. PICK n : n = Len(list) /\ n \in Nat
  BY LenProperties
<1>1. h[k] = Written(list[k]) \o Follows(list, k, h)
  BY DEF HeaderOf, RestAt, Follows
<1>2. CASE k = Len(list)
  <2>1. Follows(list, k, h) = <<>>
    BY <1>2 DEF Follows
  <2>. QED  BY <1>1, <1>2, <2>1, EmptySeq DEF Delimited
<1>3. CASE k # Len(list)
  <2>1. k + 1 \in 1..n
    BY <1>0, <1>3
  <2>2. h[k + 1] \in Seq(STRING)
    BY <1>0, <2>1 DEF HeaderOf
  <2>3. ";" \in STRING /\ " " \in STRING /\ ";" # Quote
    BY MarksAssumption DEF Marks, Quote
  <2>4. <<";">> \in Seq(STRING) /\ <<" ">> \in Seq(STRING)
    BY <2>3, OneText
  <2>5. <<" ">> \o h[k + 1] \in Seq(STRING)
    BY <2>2, <2>4, BothText
  <2>6. Groups(<<";">>, <<" ">>, h[k + 1])
    BY <2>2, <2>4, TextsGroup
  <2>7. Follows(list, k, h) = <<";">> \o (<<" ">> \o h[k + 1])
    BY <1>3, <2>6, SeparatorIs DEF Follows, Groups
  <2>8. /\ Follows(list, k, h) \in Seq(STRING) /\ Len(Follows(list, k, h)) > 0
        /\ Follows(list, k, h)[1] = ";"
    BY <2>3, <2>5, <2>7, OneFirst
  <2>9. Delimited(Follows(list, k, h), ValueEnds)
    BY <2>3, <2>8 DEF Delimited, ValueEnds
  <2>. QED  BY <1>0, <1>1, <1>3, <2>1, <2>2, <2>7, <2>8, <2>9
<1>. QED  BY <1>2, <1>3

-----------------------------------------------------------------------------
(* A turn begins where an attribute stands, or at the space before it.     *)
Stands(hdr, h, k, p) == HereOrSpace(hdr, p, h[k])

LEMMA OneTurn ==
    ASSUME NEW list \in Seq(Attributes), NEW h, HeaderOf(list, h), NEW k \in 1..Len(list),
           Sendable(list[k]), Nameful(list[k]), NEW hdr \in Seq(STRING),
           NEW p, Stands(hdr, h, k, p)
    PROVE  \E r, e : /\ p \in 1..(Len(hdr) + 1)
                     /\ NameAt(hdr, p) = [text |-> list[k].name, at |-> r]
                     /\ ValueAt(hdr, r) = [text |-> Unquoted(list[k].value), at |-> e]
                     /\ EndsWith(hdr, e, Follows(list, k, h))
<1> DEFINE a == list[k]
           z == Follows(list, k, h)
           s == AfterSpace(hdr, p)
<1>1. a \in Attributes
  BY ElementOfSeq
<1>2. h[k] = Written(a) \o z /\ z \in Seq(STRING) /\ Delimited(z, ValueEnds)
  BY FollowsIs
<1>3. h[k] \in Seq(STRING) /\ Len(h[k]) > 0 /\ h[k][1] \notin Marks
  BY <1>1, <1>2, NameFirst
<1>4. Dark(h[k])
  BY <1>3 DEF Marks, Dark
<1>5. p \in 1..(Len(hdr) + 1) /\ EndsWith(hdr, s, h[k])
  BY <1>3, <1>4, PastSpace DEF Stands
<1>6. ReadsAttribute(hdr, s, a, z)
  BY <1>1, <1>2, <1>5, AttributeRead
<1>7. PICK r, e : /\ Said(hdr, s, NameEnds, a.name, r)
                  /\ ValueAt(hdr, r) = [text |-> Unquoted(a.value), at |-> e]
                  /\ EndsWith(hdr, e, z)
  BY <1>6 DEF ReadsAttribute
<1>8. NameAt(hdr, p) = [text |-> a.name, at |-> r]
  BY <1>7 DEF NameAt, Said
<1>. QED  BY <1>5, <1>7, <1>8

(* So the turns find the first attribute that is asked for.                *)
LEMMA TurnsFind ==
    ASSUME NEW list \in Seq(Attributes), NEW h, HeaderOf(list, h),
           \A i \in 1..Len(list) : Sendable(list[i]) /\ Nameful(list[i]),
           \A i \in 1..Len(list) : Matches(list[i].name, Asked) <=> list[i].name = Asked,
           NEW hdr \in Seq(STRING), NEW f, Searches(hdr, Asked, f),
           NEW k \in 1..Len(list), NEW p, Stands(hdr, h, k, p),
           k # Len(list) => \A q : Stands(hdr, h, k + 1, q) => f[q] = FirstNamed(list, k + 1)
    PROVE  f[p] = FirstNamed(list, k)
<1>1. PICK r, e : /\ p \in 1..(Len(hdr) + 1)
                  /\ NameAt(hdr, p) = [text |-> list[k].name, at |-> r]
                  /\ ValueAt(hdr, r) = [text |-> Unquoted(list[k].value), at |-> e]
                  /\ EndsWith(hdr, e, Follows(list, k, h))
  BY OneTurn
<1>2. f[p] = IF Matches(list[k].name, Asked) THEN {Unquoted(list[k].value)}
             ELSE IF e > Len(hdr) THEN {} ELSE f[e + 1]
  <2>1. f[p] = SearchAt(hdr, Asked, p, f)
    BY <1>1 DEF Searches
  <2>2. NameAt(hdr, p).text = list[k].name /\ NameAt(hdr, p).at = r
    BY <1>1
  <2>3. ValueAt(hdr, r).text = Unquoted(list[k].value) /\ ValueAt(hdr, r).at = e
    BY <1>1
  <2>. QED  BY <2>1, <2>2, <2>3 DEF SearchAt
<1>3. CASE list[k].name = Asked
  BY <1>2, <1>3, NamedHere
<1>4. CASE list[k].name # Asked /\ k = Len(list)
  <2>1. Follows(list, k, h) = <<>>
    BY <1>4, FollowsIs
  <2>2. e > Len(hdr)
    <3>0. PICK n : n = Len(hdr) /\ n \in Nat
      BY LenProperties
    <3>1. Len(<<>>) = 0
      BY EmptySeq
    <3>2. e \in 1..(n + 1) /\ 0 = n + 1 - e
      BY <1>1, <2>1, <3>0, <3>1 DEF EndsWith
    <3>. QED  BY <3>0, <3>2
  <2>3. f[p] = {}
    BY <1>2, <1>4, <2>2
  <2>. QED  BY <1>4, <2>3, NamedLater
<1>5. CASE list[k].name # Asked /\ k # Len(list)
  <2>1. /\ h[k + 1] \in Seq(STRING)
        /\ Follows(list, k, h) = <<";">> \o (<<" ">> \o h[k + 1])
    BY <1>5, FollowsIs
  <2>2. ";" \in STRING /\ <<" ">> \o h[k + 1] \in Seq(STRING)
    <3>1. ";" \in STRING /\ " " \in STRING
      BY MarksAssumption DEF Marks
    <3>2. <<" ">> \in Seq(STRING)
      BY <3>1, OneText
    <3>. QED  BY <2>1, <3>1, <3>2, BothText
  <2>3. e \in 1..Len(hdr) /\ EndsWith(hdr, e + 1, <<" ">> \o h[k + 1])
    <3>1. PICK y, c : y = <<" ">> \o h[k + 1] /\ c = ";"
      OBVIOUS
    <3>2. y \in Seq(STRING) /\ c \in STRING
      BY <2>2, <3>1
    <3>3. EndsWith(hdr, e, <<c>> \o y)
      BY <1>1, <2>1, <3>1
    <3>4. e \in 1..Len(hdr) /\ EndsWith(hdr, e + 1, y)
      BY <3>2, <3>3, EndsWithOne
    <3>. QED  BY <3>1, <3>4
  <2>4. ~(e > Len(hdr))
    <3>0. PICK n : n = Len(hdr) /\ n \in Nat
      BY LenProperties
    <3>1. e \in 1..n
      BY <2>3, <3>0
    <3>2. ~(e > n)
      BY <3>0, <3>1
    <3>. QED  BY <3>0, <3>2
  <2>5. f[p] = f[e + 1]
    BY <1>2, <1>5, <2>4
  <2>6. f[e + 1] = FirstNamed(list, k + 1)
    BY <1>5, <2>3 DEF Stands, HereOrSpace
  <2>. QED  BY <1>5, <2>5, <2>6, NamedLater
<1>. QED  BY <1>3, <1>4, <1>5

LEMMA ItselfBegins == ASSUME NEW x \in Seq(STRING) PROVE IsPrefix(x, x)
<1>1. Len(x) <= Len(x)
  BY LenProperties
<1>. QED  BY <1>1 DEF IsPrefix

LEMMA NothingBegins == ASSUME NEW x \in Seq(STRING) PROVE IsPrefix(<<>>, x)
<1>1. Len(<<>>) = 0 /\ 0 <= Len(x)
  BY LenProperties, EmptySeq
<1>2. SubSeq(<<>>, 1, 0) = <<>> /\ SubSeq(x, 1, 0) = <<>>
  BY SubSeqEmpty
<1>. QED  BY <1>1, <1>2 DEF IsPrefix

LEMMA HeaderSearched ==
    ASSUME NEW list \in Seq(Attributes), list # <<>>,
           \A i \in 1..Len(list) : Sendable(list[i]) /\ Nameful(list[i]),
           \A i \in 1..Len(list) : Matches(list[i].name, Asked) <=> list[i].name = Asked
    PROVE  find_attribute_value(Header(list), Asked) = FirstNamed(list, 1)
<1>0. PICK n : n + 1 = Len(list) /\ n \in Nat
  <2>1. PICK m : m = Len(list) /\ m \in Nat /\ m # 0
    <3>1. Len(list) \in Nat
      BY LenProperties
    <3>2. Len(list) # 0
      BY EmptySeq
    <3>. QED  BY <3>1, <3>2
  <2>2. m - 1 \in Nat /\ (m - 1) + 1 = m
    BY <2>1
  <2>. QED  BY <2>1, <2>2
<1>1. PICK h : Header(list) = h[1] /\ HeaderOf(list, h)
  BY HeaderIs
<1>2. PICK hdr : hdr = Header(list) /\ hdr = h[1] /\ hdr \in Seq(STRING)
  <2>1. 1 \in 1..Len(list)
    BY <1>0
  <2>. QED  BY <1>1, <2>1 DEF HeaderOf
<1>3. PICK f : find_attribute_value(hdr, Asked) = f[1] /\ Searches(hdr, Asked, f)
  BY <1>2, SearcherIs
<1> DEFINE S == {k \in 1..(n + 1) : \A p : Stands(hdr, h, k, p) => f[p] = FirstNamed(list, k)}
<1>4. ASSUME NEW k \in 1..(n + 1), \A j \in (k + 1)..(n + 1) : j \in S PROVE k \in S
  <2>1. k # Len(list) => \A q : Stands(hdr, h, k + 1, q) => f[q] = FirstNamed(list, k + 1)
    <3>1. k # n + 1 => k + 1 \in (k + 1)..(n + 1)
      BY <1>0
    <3>2. k # n + 1 => k + 1 \in S
      BY <1>4, <3>1
    <3>. QED  BY <1>0, <3>2
  <2>2. k \in 1..Len(list)
    BY <1>0
  <2>3. ASSUME NEW p, Stands(hdr, h, k, p) PROVE f[p] = FirstNamed(list, k)
    BY <1>1, <1>2, <1>3, <2>1, <2>2, <2>3, TurnsFind
  <2>. QED  BY <2>3
<1> HIDE DEF S
<1>5. \A k \in 1..(n + 1) : k \in S
  BY <1>0, <1>4, Descending
<1>6. 1 \in S
  <2>1. 1 \in 1..(n + 1)
    BY <1>0
  <2>. QED  BY <1>5, <2>1
<1>7. Stands(hdr, h, 1, 1)
  <2>1. PICK m : m = Len(hdr) /\ m \in Nat
    BY <1>2, LenProperties
  <2>2. /\ 1 \in 1..(m + 1) /\ m = m + 1 - 1
        /\ \A i \in 1..m : 1 + i - 1 = i
    BY <2>1
  <2>3. EndsWith(hdr, 1, hdr)
    BY <2>1, <2>2 DEF EndsWith
  <2>. QED  BY <1>2, <2>3 DEF Stands, HereOrSpace
<1>8. f[1] = FirstNamed(list, 1)
  BY <1>6, <1>7 DEF S
<1>. QED  BY <1>2, <1>3, <1>8

(* The value of the first attribute that is asked for is found, whatever   *)
(* stands in the values before it.                                         *)
THEOREM FindsAsked == DispositionInit => AttributeFound
<1> DEFINE named == {i \in DOMAIN attributes : attributes[i].name = Asked}
<1> SUFFICES ASSUME DispositionInit,
                    \A i \in DOMAIN attributes \ named : ~IsPrefix(attributes[i].name, Asked)
             PROVE  find_attribute_value(Header(attributes), Asked)
                       = {Unquoted(attributes[i].value) :
                             i \in {j \in named : \A k \in named : j <= k}}
  BY DEF AttributeFound
<1>1. PICK list : list = attributes /\ list \in Seq(Attributes) /\ list # <<>>
  BY AttributesAssumption DEF DispositionInit, Attributes
<1>2. DOMAIN list = 1..Len(list)
  BY <1>1, LenProperties
<1>3. Asked \in Seq(STRING) /\ Asked # <<>>
  BY AttributesAssumption
<1>4. ASSUME NEW i \in 1..Len(list)
      PROVE  /\ Sendable(list[i]) /\ Nameful(list[i])
             /\ Matches(list[i].name, Asked) <=> list[i].name = Asked
  <2>1. list[i] \in Attributes
    BY <1>1, ElementOfSeq
  <2>2. list[i].name \in Seq(STRING) /\ list[i].value \in Seq(STRING)
    BY <2>1 DEF Attributes
  <2>3. /\ ToSet(list[i].name) \cap Marks = {}
        /\ ~list[i].quoted => ToSet(list[i].value) \cap Marks = {}
    BY <1>1, <1>2, AttributesAssumption DEF DispositionInit
  <2>4. ASSUME NEW x \in Seq(STRING), ToSet(x) \cap Marks = {} PROVE NoMarks(x)
    <3>1. DOMAIN x = 1..Len(x)
      BY LenProperties
    <3>. QED  BY <2>4, <3>1 DEF ToSet, NoMarks
  <2>5. Sendable(list[i])
    BY <2>2, <2>3, <2>4 DEF Sendable
  <2>6. list[i].name # Asked => ~IsPrefix(list[i].name, Asked)
    BY <1>1, <1>2
  <2>7. Nameful(list[i])
    BY <1>3, <2>6, NothingBegins DEF Nameful
  <2>8. Matches(list[i].name, Asked) <=> list[i].name = Asked
    BY <1>3, <2>6, ItselfBegins DEF Matches
  <2>. QED  BY <2>5, <2>7, <2>8
<1>5. find_attribute_value(Header(list), Asked) = FirstNamed(list, 1)
  BY <1>1, <1>4, HeaderSearched
<1>6. FirstNamed(list, 1) = {Unquoted(list[i].value) : i \in {j \in named : \A k \in named : j <= k}}
  <2>1. \A j : Named(list, 1, j) <=> j \in named
    BY <1>1, <1>2 DEF Named
  <2>2. named \subseteq 1..Len(list)
    BY <1>1, <1>2
  <2> HIDE DEF named
  <2>3. {j \in 1..Len(list) : Named(list, 1, j) /\ \A l \in 1..Len(list) : Named(list, 1, l) => j <= l}
           = {j \in named : \A k \in named : j <= k}
    BY <2>1, <2>2
  <2>. QED  BY <2>3 DEF FirstNamed
<1>. QED  BY <1>1, <1>5, <1>6
=============================================================================
