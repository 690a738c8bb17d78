------------------------------- MODULE RdbCodec -------------------------------
(***************************************************************************)
(* The entries of an RDB file: how a key, its value and its deadline are   *)
(* written (RdbString::serialize) and read back (parse_rdb_entry).         *)
(*                                                                         *)
(* A string is written behind its length, which takes one, two or five      *)
(* bytes; the two high bits of the first say which.  A deadline is written  *)
(* before its entry, in eight bytes for milliseconds or four for seconds,   *)
(* the low byte first.  The reader panics where it indexes past the end.    *)
(***************************************************************************)
EXTENDS Integers, Sequences

Byte  == 0..255
Bytes == Seq(Byte)

Two32 == 4294967296

-----------------------------------------------------------------------------
(* Writing.                                                                *)

\* u32::to_be_bytes and u32::to_le_bytes
BigEndian4(n) ==
    <<n \div 16777216, (n \div 65536) % 256, (n \div 256) % 256, n % 256>>
LittleEndian4(n) ==
    <<n % 256, (n \div 256) % 256, (n \div 65536) % 256, n \div 16777216>>
\* u64::to_le_bytes
LittleEndian8(n) == LittleEndian4(n % Two32) \o LittleEndian4(n \div Two32)

EncodeSize(n) ==
    IF n <= 63 THEN <<n>>
    ELSE IF n <= 16383 THEN <<64 + n \div 256, n % 256>>
    ELSE <<128>> \o BigEndian4(n % Two32)

EncodeString(s) == EncodeSize(Len(s)) \o s

NoExpire         == [unit |-> "none", at |-> 0]
Milliseconds(ms) == [unit |-> "ms", at |-> ms]
Seconds(secs)    == [unit |-> "s", at |-> secs]

EncodeExpire(e) ==
    CASE e.unit = "none" -> << >>
      [] e.unit = "ms"   -> <<252>> \o LittleEndian8(e.at)
      [] OTHER           -> <<253>> \o LittleEndian4(e.at)

\* the encoding byte is 0 in everything that this program writes
KeyAndValue(key, value) == <<0>> \o (EncodeString(key) \o EncodeString(value))

Serialize(key, value, e) == EncodeExpire(e) \o KeyAndValue(key, value)

-----------------------------------------------------------------------------
(* Reading: a value and the rest of the input, an error, or a panic.       *)

Ok(v, rest) == [st |-> "ok", value |-> v, rest |-> rest]
Err         == [st |-> "err"]
Panic       == [st |-> "panic"]

From(input, i) == SubSeq(input, i, Len(input))

FromBigEndian4(b)    == 16777216 * b[1] + 65536 * b[2] + 256 * b[3] + b[4]
FromLittleEndian4(b) == b[1] + 256 * b[2] + 65536 * b[3] + 16777216 * b[4]
FromLittleEndian8(b) ==
    FromLittleEndian4(SubSeq(b, 1, 4)) + Two32 * FromLittleEndian4(SubSeq(b, 5, 8))

(* How many bytes the length takes, by the two high bits of the first. *)
SizeBytes(first) ==
    CASE first \div 64 = 0 -> 1
      [] first \div 64 = 1 -> 2
      [] OTHER             -> 5

DecodeSize(b) ==
    CASE b[1] \div 64 = 0 -> b[1] % 64
      [] b[1] \div 64 = 1 -> 256 * (b[1] % 64) + b[2]
      [] OTHER            -> FromBigEndian4(SubSeq(b, 2, 5))

(* le_integer *)
ParseSize(input) ==
    IF input = << >> THEN Panic
    ELSE IF input[1] \div 64 = 3 THEN Err
    ELSE IF Len(input) < SizeBytes(input[1]) THEN Panic
    ELSE Ok(DecodeSize(input), From(input, SizeBytes(input[1]) + 1))

\* numbers that other writers store as strings: their bytes, from the high one
IntegerBytes(input) ==
    CASE input[1] = 192 -> <<input[2]>>
      [] input[1] = 193 -> <<input[3], input[2]>>
      [] OTHER          -> <<input[5], input[4], input[3], input[2]>>

IntegerEnd(first) == CASE first = 192 -> 2 [] first = 193 -> 3 [] OTHER -> 5

(* le_bytes *)
ParseBytes(input) ==
    IF input = << >> THEN Panic
    ELSE IF input[1] \in {192, 193, 194}
    THEN IF Len(input) < IntegerEnd(input[1]) THEN Panic
         ELSE Ok(IntegerBytes(input), From(input, IntegerEnd(input[1]) + 1))
    ELSE IF input[1] \div 64 = 3 THEN Err
    ELSE IF Len(input) < SizeBytes(input[1]) THEN Panic
    ELSE LET start == SizeBytes(input[1])
             end   == start + DecodeSize(input)
         IN  IF Len(input) < end THEN Panic
             ELSE Ok(SubSeq(input, start + 1, end), From(input, end + 1))

Entry(key, value, e) == [key |-> key, value |-> value, expire |-> e]

(* the encoding byte, the key and the value *)
ParsePair(input, e) ==
    IF input = << >> \/ input[1] # 0 THEN Err
    ELSE LET key == ParseBytes(From(input, 2))
         IN  IF key.st # "ok" THEN key
             ELSE LET value == ParseBytes(key.rest)
                  IN  IF value.st # "ok" THEN value
                      ELSE Ok(Entry(key.value, value.value, e), value.rest)

(* parse_rdb_entry: the first byte tells the three forms of an entry apart. *)
ParseEntry(input) ==
    IF input # << >> /\ input[1] = 0 THEN ParsePair(input, NoExpire)
    ELSE IF Len(input) >= 9 /\ input[1] = 252
    THEN ParsePair(From(input, 10), Milliseconds(FromLittleEndian8(SubSeq(input, 2, 9))))
    ELSE IF Len(input) >= 5 /\ input[1] = 253
    THEN ParsePair(From(input, 6), Seconds(FromLittleEndian4(SubSeq(input, 2, 5))))
    ELSE Err

(* from_rdb: the deadline in milliseconds, and none as -1 *)
ExpireMs(e) ==
    CASE e.unit = "none" -> -1
      [] e.unit = "ms"   -> e.at
      [] OTHER           -> e.at * 1000

(* to_rdb *)
ToExpire(ms) == IF ms = -1 THEN NoExpire ELSE Milliseconds(ms)
=============================================================================
