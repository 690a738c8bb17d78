---------------------------- MODULE RdbCodecProofs ----------------------------
(***************************************************************************)
(* What is written into an RDB file is what is read from it: for strings of *)
(* any bytes and any length below 2^32, and every deadline of 64 bits.      *)
(***************************************************************************)
EXTENDS RdbCodec, SequenceTheorems, TLAPS

(* The parts of a concatenation. *)
LEMMA ConcatParts ==
    ASSUME NEW h \in Bytes, NEW t \in Bytes
    PROVE  /\ h \o t \in Bytes
           /\ Len(h \o t) = Len(h) + Len(t)
           /\ \A i \in 1..Len(h) : (h \o t)[i] = h[i]
           /\ From(h \o t, Len(h) + 1) = t
<1>1. h \o t \in Bytes /\ Len(h \o t) = Len(h) + Len(t)
  BY DEF Bytes
<1>2. \A i \in 1..Len(h) : (h \o t)[i] = h[i]
  BY DEF Bytes
<1>3. From(h \o t, Len(h) + 1) = t
  <2>1. CASE t = << >>
    <3>1. From(h \o t, Len(h) + 1) = SubSeq(h \o t, Len(h) + 1, Len(h))
      BY <1>1, <2>1 DEF From
    <3>2. SubSeq(h \o t, Len(h) + 1, Len(h)) = << >>
      BY <1>1, SubSeqEmpty DEF Bytes
    <3> QED BY <2>1, <3>1, <3>2
  <2>2. CASE t # << >>
    <3>1. Len(t) \in Nat /\ Len(t) > 0 /\ Len(h) \in Nat
      BY <2>2 DEF Bytes
    <3>2. SubSeq(h \o t, Len(h) + 1, Len(h) + Len(t)) = SubSeq(t, 1, Len(t))
      BY <3>1, SubSeqOfConcat2 DEF Bytes
    <3>3. SubSeq(t, 1, Len(t)) = t
      BY SubSeqFull DEF Bytes
    <3> QED BY <1>1, <3>2, <3>3 DEF From
  <2> QED BY <2>1, <2>2
<1> QED BY <1>1, <1>2, <1>3

(* A piece of the front of a concatenation is a piece of its first part. *)
LEMMA FrontOfConcat ==
    ASSUME NEW h \in Bytes, NEW t \in Bytes, NEW i \in 1..Len(h), NEW j \in i..Len(h)
    PROVE  SubSeq(h \o t, i, j) = SubSeq(h, i, j)
  BY SubSeqOfConcat1 DEF Bytes

LEMMA Regroup ==
    ASSUME NEW a \in Bytes, NEW b \in Bytes, NEW c \in Bytes
    PROVE  (a \o b) \o c = a \o (b \o c)
  BY ConcatAssociative DEF Bytes

(* The first part, what is behind it, and the byte at the front. *)
LEMMA Joined ==
    ASSUME NEW h \in Bytes, NEW t \in Bytes, Len(h) # 0
    PROVE  /\ h \o t \in Bytes
           /\ Len(h \o t) = Len(h) + Len(t)
           /\ (h \o t)[1] = h[1]
           /\ SubSeq(h \o t, 1, Len(h)) = h
           /\ From(h \o t, Len(h) + 1) = t
<1>1. Len(h) \in Nat
  BY DEF Bytes
<1>2. 1 \in 1..Len(h) /\ Len(h) \in 1..Len(h)
  BY <1>1
<1>3. SubSeq(h \o t, 1, Len(h)) = SubSeq(h, 1, Len(h))
  BY <1>2, FrontOfConcat, Zenon
<1>4. SubSeq(h, 1, Len(h)) = h
  BY SubSeqFull DEF Bytes
<1> QED BY <1>2, <1>3, <1>4, ConcatParts, Zenon

(* One byte in front. *)
LEMMA OneByteBefore ==
    ASSUME NEW f \in Bytes, Len(f) = 1, NEW at \in Bytes
    PROVE  /\ f \o at \in Bytes /\ Len(f \o at) = 1 + Len(at)
           /\ (f \o at)[1] = f[1] /\ From(f \o at, 2) = at
<1>1. Len(f) # 0 /\ 1 + 1 = 2
  OBVIOUS
<1>2. /\ f \o at \in Bytes /\ Len(f \o at) = Len(f) + Len(at)
      /\ (f \o at)[1] = f[1] /\ From(f \o at, Len(f) + 1) = at
  BY <1>1, Joined, Zenon
<1> QED BY <1>1, <1>2, Zenon

(* The end of the first part. *)
LEMMA EndOfFirst ==
    ASSUME NEW h \in Bytes, NEW t \in Bytes, NEW i \in 1..Len(h)
    PROVE  SubSeq(h \o t, i, Len(h)) = From(h, i)
<1>1. Len(h) \in i..Len(h)
  BY DEF Bytes
<1> QED BY <1>1, FrontOfConcat, Zenon DEF From

(* A first byte below 192 starts a length. *)
LEMMA LengthBits ==
    ASSUME NEW first \in 0..128
    PROVE  first \div 64 # 3 /\ first \notin {192, 193, 194}
  OBVIOUS

-----------------------------------------------------------------------------
(* Numbers.                                                                *)

LEMMA Numbers32 ==
    ASSUME NEW n \in Nat, n < Two32
    PROVE  /\ BigEndian4(n) \in Bytes /\ Len(BigEndian4(n)) = 4
           /\ LittleEndian4(n) \in Bytes /\ Len(LittleEndian4(n)) = 4
           /\ FromBigEndian4(BigEndian4(n)) = n
           /\ FromLittleEndian4(LittleEndian4(n)) = n
<1> DEFINE b0 == n % 256
           b1 == (n \div 256) % 256
           b2 == (n \div 65536) % 256
           b3 == n \div 16777216
<1>1. b0 \in Byte /\ b1 \in Byte /\ b2 \in Byte /\ b3 \in Byte
  BY SMT DEF Byte, Two32
<1>2. n = b0 + 256 * b1 + 65536 * b2 + 16777216 * b3
  BY SMT DEF Two32
<1>3. BigEndian4(n) = <<b3, b2, b1, b0>> /\ LittleEndian4(n) = <<b0, b1, b2, b3>>
  BY SMT DEF BigEndian4, LittleEndian4
<1> HIDE DEF b0, b1, b2, b3
<1>4. /\ BigEndian4(n) \in Bytes /\ Len(BigEndian4(n)) = 4
      /\ LittleEndian4(n) \in Bytes /\ Len(LittleEndian4(n)) = 4
  BY <1>1, <1>3 DEF Bytes
<1>5. /\ FromBigEndian4(BigEndian4(n)) = 16777216 * b3 + 65536 * b2 + 256 * b1 + b0
      /\ FromLittleEndian4(LittleEndian4(n)) = b0 + 256 * b1 + 65536 * b2 + 16777216 * b3
  BY <1>3, SMT DEF FromBigEndian4, FromLittleEndian4
<1>6. b0 \in Int /\ b1 \in Int /\ b2 \in Int /\ b3 \in Int
  BY <1>1 DEF Byte
<1> QED BY <1>2, <1>4, <1>5, <1>6, SMT

LEMMA Numbers64 ==
    ASSUME NEW n \in Nat, n \div Two32 < Two32
    PROVE  /\ LittleEndian8(n) \in Bytes /\ Len(LittleEndian8(n)) = 8
           /\ FromLittleEndian8(LittleEndian8(n)) = n
<1> DEFINE low  == n % Two32
           high == n \div Two32
           l == LittleEndian4(low)
           h == LittleEndian4(high)
<1>1. low \in Nat /\ low < Two32 /\ high \in Nat /\ high < Two32 /\ n = low + Two32 * high
  BY SMT DEF Two32
<1> HIDE DEF low, high
<1>2. /\ l \in Bytes /\ Len(l) = 4 /\ FromLittleEndian4(l) = low
      /\ h \in Bytes /\ Len(h) = 4 /\ FromLittleEndian4(h) = high
  BY <1>1, Numbers32
<1>3. LittleEndian8(n) = l \o h
  BY DEF LittleEndian8, low, high
<1> HIDE DEF l, h
<1>4. Len(l) # 0
  BY <1>2
<1>5. /\ l \o h \in Bytes /\ Len(l \o h) = Len(l) + Len(h)
      /\ From(l \o h, Len(l) + 1) = h /\ SubSeq(l \o h, 1, Len(l)) = l
  BY <1>2, <1>4, Joined, Zenon
<1>6. Len(l \o h) = 8 /\ SubSeq(l \o h, 5, 8) = h /\ SubSeq(l \o h, 1, 4) = l
  <2>1. 4 + 1 = 5 /\ 4 + 4 = 8
    OBVIOUS
  <2> QED BY <1>2, <1>5, <2>1, Zenon DEF From
<1>7. FromLittleEndian8(l \o h) = low + Two32 * high
  BY <1>2, <1>6, Zenon DEF FromLittleEndian8
<1> QED BY <1>1, <1>3, <1>5, <1>6, <1>7, Zenon

-----------------------------------------------------------------------------
(* Lengths.                                                                *)

(* The first byte of a length says how long the length is, and the length is
   read back from its bytes, whatever comes behind them.                    *)
LEMMA SizeProperties ==
    ASSUME NEW n \in Nat, n < Two32, NEW t \in Bytes
    PROVE  /\ EncodeSize(n) \in Bytes
           /\ Len(EncodeSize(n)) \in {1, 2, 5}
           /\ EncodeSize(n)[1] \in 0..128
           /\ SizeBytes(EncodeSize(n)[1]) = Len(EncodeSize(n))
           /\ DecodeSize(EncodeSize(n) \o t) = n
<1> DEFINE b == EncodeSize(n)
<1>1. CASE n <= 63
  <2>1. b = <<n>>
    BY <1>1 DEF EncodeSize
  <2>2. n \div 64 = 0 /\ n % 64 = n /\ n \in Byte /\ n \in 0..128
    BY <1>1 DEF Byte
  <2>3. (<<n>> \o t)[1] = n
    BY DEF Bytes
  <2>4. <<n>> \in Bytes /\ Len(<<n>>) = 1 /\ <<n>>[1] = n
    BY <2>2 DEF Bytes
  <2>5. SizeBytes(n) = 1
    BY <2>2 DEF SizeBytes
  <2>6. DecodeSize(<<n>> \o t) = n
    BY <2>2, <2>3 DEF DecodeSize
  <2> QED BY <2>1, <2>2, <2>4, <2>5, <2>6
<1>2. CASE n > 63 /\ n <= 16383
  <2> DEFINE b1 == 64 + n \div 256
             b2 == n % 256
  <2>1. b = <<b1, b2>>
    BY <1>2 DEF EncodeSize
  <2>2. b1 \in 64..127 /\ b2 \in Byte /\ b1 \div 64 = 1 /\ 256 * (b1 % 64) + b2 = n
    BY <1>2 DEF Byte
  <2> HIDE DEF b1, b2
  <2>3. (<<b1, b2>> \o t)[1] = b1 /\ (<<b1, b2>> \o t)[2] = b2
    BY DEF Bytes
  <2>4. <<b1, b2>> \in Bytes /\ Len(<<b1, b2>>) = 2 /\ <<b1, b2>>[1] = b1
    BY <2>2 DEF Bytes, Byte
  <2>5. SizeBytes(b1) = 2
    BY <2>2 DEF SizeBytes
  <2>6. DecodeSize(<<b1, b2>> \o t) = n
    BY <2>2, <2>3 DEF DecodeSize
  <2>7. b1 \in 0..128
    BY <2>2
  <2> QED BY <2>1, <2>4, <2>5, <2>6, <2>7
<1>3. CASE n > 16383
  <2> DEFINE e == BigEndian4(n)
  <2>1. n % Two32 = n
    BY SMT DEF Two32
  <2>2. b = <<128>> \o BigEndian4(n % Two32)
    BY <1>3 DEF EncodeSize
  <2>3. e \in Bytes /\ Len(e) = 4 /\ FromBigEndian4(e) = n
    BY Numbers32
  <2>4. b = <<128>> \o e
    BY <2>1, <2>2, Zenon
  <2> HIDE DEF e
  <2>5. <<128>> \in Bytes /\ Len(<<128>>) = 1 /\ <<128>>[1] = 128
    BY DEF Bytes, Byte
  <2>6. 1 + 1 = 2 /\ 1 + 4 = 5 /\ 1 # 0 /\ 5 # 0 /\ 2 \in 1..5
    OBVIOUS
  <2> HIDE DEF b
  <2>7. b \in Bytes /\ Len(b) = 5 /\ b[1] = 128 /\ From(b, 2) = e
    <3>1. b \in Bytes /\ Len(b) = 1 + Len(e) /\ b[1] = <<128>>[1] /\ From(b, 2) = e
      BY <2>3, <2>4, <2>5, OneByteBefore, ZenonT(60)
    <3>2. Len(b) = 5
      BY <2>3, <3>1
    <3> QED BY <2>5, <3>1, <3>2, Zenon
  <2>8. (b \o t)[1] = 128
    BY <2>6, <2>7, Joined, ZenonT(60)
  <2>9. SubSeq(b \o t, 2, 5) = e
    <3>1. b \in Bytes /\ 2 \in 1..Len(b)
      BY <2>6, <2>7, Zenon
    <3>2. SubSeq(b \o t, 2, Len(b)) = From(b, 2)
      BY <3>1, EndOfFirst, Zenon
    <3> QED BY <2>7, <3>2, Zenon
  <2>10. 128 \div 64 = 2 /\ 128 \in 0..128
    OBVIOUS
  <2>11. SizeBytes(128) = 5
    BY <2>10 DEF SizeBytes
  <2>12. DecodeSize(b \o t) = n
    <3>1. (b \o t)[1] \div 64 = 2
      BY <2>8, <2>10, Zenon
    <3>2. ASSUME NEW x, x \div 64 = 2 PROVE x \div 64 # 0 /\ x \div 64 # 1
      BY <3>2
    <3> QED BY <2>3, <2>9, <3>1, <3>2, Zenon DEF DecodeSize
  <2>13. 5 \in {1, 2, 5}
    OBVIOUS
  <2> QED BY <2>7, <2>10, <2>11, <2>12, <2>13, Zenon DEF b
<1> QED BY <1>1, <1>2, <1>3

(* le_integer reads the length that le_encode_size wrote, for every length
   below 2^32 and at each of the boundaries of its three forms.             *)
THEOREM SizeRoundTrip ==
    ASSUME NEW n \in Nat, n < Two32, NEW t \in Bytes
    PROVE  ParseSize(EncodeSize(n) \o t) = Ok(n, t)
<1> DEFINE b == EncodeSize(n)
           l == Len(b)
           input == b \o t
<1>1. /\ b \in Bytes /\ l \in {1, 2, 5} /\ b[1] \in 0..128
      /\ SizeBytes(b[1]) = l /\ DecodeSize(input) = n
  BY SizeProperties, Zenon
<1> HIDE DEF b, l
<1>2. l \in Nat /\ l # 0
  BY <1>1
<1>3. /\ input \in Bytes /\ Len(input) = l + Len(t) /\ input[1] = b[1]
      /\ From(input, l + 1) = t
  BY <1>1, <1>2, Joined, Zenon DEF l
<1> HIDE DEF input
<1>4. b[1] \div 64 # 3
  BY <1>1, LengthBits, Zenon
<1>5. Len(t) \in Nat
  BY DEF Bytes
<1>6. input # << >> /\ ~(Len(input) < l)
  BY <1>2, <1>3, <1>5 DEF Bytes
<1>7. ParseSize(input) = Ok(n, t)
  BY <1>1, <1>3, <1>4, <1>6, Zenon DEF ParseSize
<1> QED BY <1>7, Zenon DEF input, b

(* le_bytes reads the string that was written behind its length, up to its
   last byte and no further.                                                *)
THEOREM StringRoundTrip ==
    ASSUME NEW s \in Bytes, Len(s) < Two32, NEW t \in Bytes
    PROVE  ParseBytes(EncodeString(s) \o t) = Ok(s, t)
<1> DEFINE b == EncodeSize(Len(s))
           l == Len(b)
           input == b \o (s \o t)
<1>1. Len(s) \in Nat /\ Len(t) \in Nat
  BY DEF Bytes
<1>2. s \o t \in Bytes /\ Len(s \o t) = Len(s) + Len(t)
  BY ConcatParts, Zenon
<1>3. /\ b \in Bytes /\ l \in {1, 2, 5} /\ b[1] \in 0..128
      /\ SizeBytes(b[1]) = l /\ DecodeSize(input) = Len(s)
  BY <1>1, <1>2, SizeProperties, Zenon
<1>4. EncodeString(s) \o t = input
  BY <1>3, ConcatAssociative DEF EncodeString, Bytes
<1> HIDE DEF b, l
<1>5. l \in Nat /\ l # 0
  BY <1>3
<1>6. /\ input \in Bytes /\ Len(input) = l + Len(s \o t) /\ input[1] = b[1]
      /\ From(input, l + 1) = s \o t
  BY <1>2, <1>3, <1>5, Joined, Zenon DEF l
<1>7. SubSeq(input, l + 1, l + Len(s)) = s
  <2>1. CASE s = << >>
    <3>1. SubSeq(input, l + 1, l + 0) = << >>
      BY <1>5, <1>6, SubSeqEmpty DEF Bytes
    <3>2. Len(s) = 0
      BY <2>1
    <3> QED BY <2>1, <3>1, <3>2, Zenon
  <2>2. CASE s # << >>
    <3>1. Len(s) > 0 /\ Len(s) # 0
      BY <1>1, <2>2 DEF Bytes
    <3>2. SubSeq(b \o (s \o t), Len(b) + 1, Len(b) + Len(s)) = SubSeq(s \o t, 1, Len(s))
      BY <1>1, <1>2, <1>3, <3>1, SubSeqOfConcat2 DEF Bytes
    <3>3. SubSeq(s \o t, 1, Len(s)) = s
      BY <3>1, Joined, Zenon
    <3> QED BY <3>2, <3>3, Zenon DEF l
  <2> QED BY <2>1, <2>2, Zenon
<1>8. From(input, l + Len(s) + 1) = t
  <2>1. (b \o s) \o t = input
    BY <1>3, ConcatAssociative DEF Bytes
  <2>2. b \o s \in Bytes /\ Len(b \o s) = l + Len(s)
    BY <1>3, ConcatParts, Zenon DEF l
  <2>3. From((b \o s) \o t, Len(b \o s) + 1) = t
    BY <2>2, ConcatParts, Zenon
  <2> QED BY <2>1, <2>2, <2>3, Zenon
<1> HIDE DEF input
<1>9. b[1] \div 64 # 3 /\ b[1] \notin {192, 193, 194}
  BY <1>3, LengthBits, Zenon
<1>10. input # << >> /\ ~(Len(input) < l) /\ ~(Len(input) < l + Len(s))
  BY <1>1, <1>2, <1>5, <1>6 DEF Bytes
<1>11. ParseBytes(input) = Ok(s, t)
  BY <1>3, <1>6, <1>7, <1>8, <1>9, <1>10, ZenonT(60) DEF ParseBytes
<1> QED BY <1>4, <1>11, Zenon

(* What is written for a string are bytes. *)
LEMMA EncodeStringType ==
    ASSUME NEW s \in Bytes, Len(s) < Two32
    PROVE  EncodeString(s) \in Bytes
<1>1. Len(s) \in Nat
  BY DEF Bytes
<1>2. EncodeSize(Len(s)) \in Bytes
  BY <1>1, SizeProperties, Zenon
<1> QED BY <1>2, ConcatParts, Zenon DEF EncodeString

-----------------------------------------------------------------------------
(* Entries.                                                                *)

(* What an input begins with: a byte, the bytes of a number, the rest. *)
Behind(f, at, rest) ==
    LET input == (f \o at) \o rest
    IN  /\ f \o at \in Bytes
        /\ input[1] = f[1]
        /\ Len(input) >= 1 + Len(at)
        /\ Len(at) # 0 => SubSeq(input, 2, 1 + Len(at)) = at
        /\ From(input, (1 + Len(at)) + 1) = rest

(* A deadline stands before the pair: its first byte, its bytes, the rest. *)
LEMMA BehindDeadline ==
    ASSUME NEW f \in Bytes, Len(f) = 1, NEW at \in Bytes, NEW rest \in Bytes
    PROVE  Behind(f, at, rest)
<1> DEFINE h == f \o at
           input == h \o rest
<1>1. h \in Bytes /\ Len(h) = 1 + Len(at) /\ h[1] = f[1] /\ From(h, 2) = at
  BY OneByteBefore, Zenon
<1> HIDE DEF h
<1>2. Len(at) \in Nat /\ Len(rest) \in Nat
  BY DEF Bytes
<1>3. Len(h) # 0 /\ (Len(at) # 0 => 2 \in 1..Len(h))
  BY <1>1, <1>2
<1>4. /\ input[1] = h[1] /\ Len(input) = Len(h) + Len(rest)
      /\ From(input, Len(h) + 1) = rest
  BY <1>1, <1>3, Joined, Zenon
<1>5. Len(at) # 0 => SubSeq(input, 2, Len(h)) = From(h, 2)
  BY <1>1, <1>3, EndOfFirst, Zenon
<1> HIDE DEF input
<1>6. Len(input) >= Len(h)
  BY <1>1, <1>2, <1>4
<1> QED BY <1>1, <1>4, <1>5, <1>6, Zenon DEF Behind, input, h

(* The deadline is read back, and the rest is left for the pair. *)
LEMMA ParseMilliseconds ==
    ASSUME NEW ms \in Nat, ms \div Two32 < Two32, NEW rest \in Bytes
    PROVE  /\ EncodeExpire(Milliseconds(ms)) \in Bytes
           /\ ParseEntry(EncodeExpire(Milliseconds(ms)) \o rest) = ParsePair(rest, Milliseconds(ms))
<1> DEFINE at == LittleEndian8(ms)
           f == <<252>>
           h == f \o at
           input == h \o rest
<1>1. at \in Bytes
  BY Numbers64, Zenon
<1>2. Len(at) = 8 /\ FromLittleEndian8(at) = ms
  BY Numbers64, Zenon
<1>3. EncodeExpire(Milliseconds(ms)) = h
  BY SMT DEF EncodeExpire, Milliseconds
<1>4. f \in Bytes /\ Len(f) = 1 /\ f[1] = 252
  BY DEF Bytes, Byte
<1>5. 252 # 0 /\ 8 # 0 /\ 1 + 8 = 9 /\ 9 + 1 = 10
  OBVIOUS
<1> HIDE DEF at, f
<1>6. /\ h \in Bytes /\ input[1] = f[1] /\ Len(input) >= 1 + Len(at)
      /\ Len(at) # 0 => SubSeq(input, 2, 1 + Len(at)) = at
      /\ From(input, (1 + Len(at)) + 1) = rest
  <2>1. Behind(f, at, rest)
    BY <1>1, <1>4, BehindDeadline, Zenon
  <2> QED BY <2>1, Zenon DEF Behind
<1> HIDE DEF h, input
<1>7. 1 + Len(at) = 9 /\ (1 + Len(at)) + 1 = 10 /\ Len(at) # 0
  BY <1>2
<1>8. Len(input) >= 9 /\ SubSeq(input, 2, 9) = at /\ From(input, 10) = rest
  BY <1>6, <1>7, Zenon
<1>9. input[1] = 252 /\ input[1] # 0
  BY <1>4, <1>5, <1>6, ZenonT(60)
<1>10. ParseEntry(input) = ParsePair(rest, Milliseconds(FromLittleEndian8(at)))
  BY <1>6, <1>8, <1>9, Zenon DEF ParseEntry
<1> QED BY <1>2, <1>3, <1>6, <1>10, Zenon DEF input

LEMMA ParseSeconds ==
    ASSUME NEW secs \in Nat, secs < Two32, NEW rest \in Bytes
    PROVE  /\ EncodeExpire(Seconds(secs)) \in Bytes
           /\ ParseEntry(EncodeExpire(Seconds(secs)) \o rest) = ParsePair(rest, Seconds(secs))
<1> DEFINE at == LittleEndian4(secs)
           f == <<253>>
           h == f \o at
           input == h \o rest
<1>1. at \in Bytes
  BY Numbers32, Zenon
<1>2. Len(at) = 4 /\ FromLittleEndian4(at) = secs
  BY Numbers32, Zenon
<1>3. EncodeExpire(Seconds(secs)) = h
  BY SMT DEF EncodeExpire, Seconds
<1>4. f \in Bytes /\ Len(f) = 1 /\ f[1] = 253
  BY DEF Bytes, Byte
<1>5. 253 # 0 /\ 253 # 252 /\ 4 # 0 /\ 1 + 4 = 5 /\ 5 + 1 = 6
  OBVIOUS
<1> HIDE DEF at, f
<1>6. /\ h \in Bytes /\ input[1] = f[1] /\ Len(input) >= 1 + Len(at)
      /\ Len(at) # 0 => SubSeq(input, 2, 1 + Len(at)) = at
      /\ From(input, (1 + Len(at)) + 1) = rest
  <2>1. Behind(f, at, rest)
    BY <1>1, <1>4, BehindDeadline, Zenon
  <2> QED BY <2>1, Zenon DEF Behind
<1> HIDE DEF h, input
<1>7. 1 + Len(at) = 5 /\ (1 + Len(at)) + 1 = 6 /\ Len(at) # 0
  BY <1>2
<1>8. Len(input) >= 5 /\ SubSeq(input, 2, 5) = at /\ From(input, 6) = rest
  BY <1>6, <1>7, Zenon
<1>9. input[1] = 253 /\ input[1] # 0 /\ input[1] # 252
  BY <1>4, <1>6
<1>10. ParseEntry(input) = ParsePair(rest, Seconds(FromLittleEndian4(at)))
  BY <1>6, <1>8, <1>9, Zenon DEF ParseEntry
<1> QED BY <1>2, <1>3, <1>6, <1>10, Zenon DEF input

(* An entry without a deadline begins with the encoding byte. *)
LEMMA ParsePlain ==
    ASSUME NEW rest \in Bytes
    PROVE  ParseEntry(<<0>> \o rest) = ParsePair(<<0>> \o rest, NoExpire)
<1> DEFINE input == <<0>> \o rest
<1>1. <<0>> \in Bytes /\ Len(<<0>>) = 1 /\ <<0>>[1] = 0
  BY DEF Bytes, Byte
<1>2. input[1] = 0 /\ Len(input) = 1 + Len(rest)
  BY <1>1, OneByteBefore, ZenonT(60)
<1>3. Len(rest) \in Nat
  BY DEF Bytes
<1> HIDE DEF input
<1>4. input # << >>
  BY <1>2, <1>3
<1>5. ParseEntry(input) = ParsePair(input, NoExpire)
  BY <1>2, <1>4, Zenon DEF ParseEntry
<1> QED BY <1>5, Zenon DEF input

(* The deadlines that have an encoding. *)
Deadlines == {NoExpire}
             \cup {Milliseconds(ms) : ms \in {n \in Nat : n \div Two32 < Two32}}
             \cup {Seconds(secs) : secs \in {n \in Nat : n < Two32}}

(* An entry that was written is read back with its key, its value and its
   deadline, and nothing of what follows it is consumed: what a replica is
   sent and what a start reads is the entry that the master had.             *)
THEOREM EntryRoundTrip ==
    ASSUME NEW key \in Bytes, Len(key) < Two32, NEW value \in Bytes, Len(value) < Two32,
           NEW e \in Deadlines, NEW t \in Bytes
    PROVE  ParseEntry(Serialize(key, value, e) \o t) = Ok(Entry(key, value, e), t)
<1> DEFINE k == EncodeString(key)
           v == EncodeString(value)
           pair == KeyAndValue(key, value)
           rest == k \o (v \o t)
           input == <<0>> \o rest
<1>1. k \in Bytes /\ v \in Bytes
  BY EncodeStringType, Zenon
<1>2. v \o t \in Bytes
  BY <1>1, ConcatParts, Zenon
<1>3. ParseBytes(rest) = Ok(key, v \o t) /\ ParseBytes(v \o t) = Ok(value, t)
  BY <1>2, StringRoundTrip, Zenon
<1> HIDE DEF k, v
<1>4. k \o v \in Bytes /\ rest \in Bytes
  BY <1>1, <1>2, ConcatParts, Zenon
<1>5. (<<0>> \o (k \o v)) \o t = input
  <2>1. (<<0>> \o (k \o v)) \o t = <<0>> \o ((k \o v) \o t)
    <3>1. <<0>> \in Bytes
      BY DEF Bytes, Byte
    <3> QED BY <1>4, <3>1, Regroup, ZenonT(60)
  <2>2. (k \o v) \o t = k \o (v \o t)
    BY <1>1, ConcatAssociative DEF Bytes
  <2> QED BY <2>1, <2>2, Zenon
<1> HIDE DEF rest
<1>6. <<0>> \in Bytes /\ Len(<<0>>) = 1 /\ <<0>>[1] = 0
  BY DEF Bytes, Byte
<1>7. input \in Bytes /\ Len(input) = 1 + Len(rest) /\ input[1] = 0 /\ From(input, 2) = rest
  BY <1>4, <1>6, OneByteBefore, ZenonT(60)
<1>8. input # << >>
  <2>1. Len(rest) \in Nat
    BY <1>4 DEF Bytes
  <2>2. ASSUME NEW n \in Nat PROVE 1 + n # 0
    OBVIOUS
  <2>3. Len(<< >>) = 0
    OBVIOUS
  <2> QED BY <1>7, <2>1, <2>2, <2>3, Zenon
<1> HIDE DEF input
<1>9. ParsePair(input, e) = Ok(Entry(key, value, e), t)
  <2>1. /\ ParseBytes(rest).st = "ok" /\ ParseBytes(rest).rest = v \o t
        /\ ParseBytes(rest).value = key
        /\ ParseBytes(v \o t).st = "ok" /\ ParseBytes(v \o t).rest = t
        /\ ParseBytes(v \o t).value = value
    BY <1>3 DEF Ok
  <2> QED BY <1>7, <1>8, <2>1, Zenon DEF ParsePair
<1>10. pair = <<0>> \o (k \o v) /\ pair \o t = input
  BY <1>5, Zenon DEF KeyAndValue, k, v
<1>11. pair \in Bytes /\ input \in Bytes
  <2>1. <<0>> \o (k \o v) \in Bytes
    BY <1>4, <1>6, ConcatParts, Zenon
  <2> QED BY <1>7, <1>10, <2>1, Zenon
<1>12. Serialize(key, value, e) = EncodeExpire(e) \o pair
  BY Zenon DEF Serialize
<1> HIDE DEF pair
<1>13. ParseEntry(Serialize(key, value, e) \o t) = ParsePair(input, e)
  <2>1. CASE e = NoExpire
    <3>1. EncodeExpire(e) = << >>
      BY <2>1 DEF EncodeExpire, NoExpire
    <3>2. << >> \o pair = pair
      BY <1>11 DEF Bytes
    <3>3. ParseEntry(input) = ParsePair(input, NoExpire)
      BY <1>4, ParsePlain, Zenon DEF input
    <3> QED BY <1>10, <1>12, <2>1, <3>1, <3>2, <3>3, Zenon
  <2>2. CASE e # NoExpire
    <3>1. /\ EncodeExpire(e) \in Bytes
          /\ ParseEntry(EncodeExpire(e) \o input) = ParsePair(input, e)
      <4>1. CASE \E ms \in Nat : ms \div Two32 < Two32 /\ e = Milliseconds(ms)
        BY <1>11, <4>1, ParseMilliseconds, Zenon
      <4>2. CASE \E secs \in Nat : secs < Two32 /\ e = Seconds(secs)
        BY <1>11, <4>2, ParseSeconds, Zenon
      <4> QED BY <2>2, <4>1, <4>2, Zenon DEF Deadlines
    <3>2. (EncodeExpire(e) \o pair) \o t = EncodeExpire(e) \o (pair \o t)
      BY <1>11, <3>1, Regroup, Zenon
    <3> QED BY <1>10, <1>12, <3>1, <3>2, Zenon
  <2> QED BY <2>1, <2>2, Zenon
<1> QED BY <1>9, <1>13, Zenon
=============================================================================
