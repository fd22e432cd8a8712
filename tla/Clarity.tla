------------------------------ MODULE Clarity ------------------------------
(***************************************************************************)
(* The decoder of consensus-serialized Clarity values:                     *)
(* core/src/clarity/decoder.rs, as the pure function of a text that it is. *)
(* A cursor is the number of bytes read.                                   *)
(*                                                                         *)
(* Texts are sequences of byte values.  Of the JSON that comes out, the    *)
(* digits are left out: a buffer shows its bytes and an integer its number.*)
(* All JSON has one shape, so that it can be compared.                     *)
(***************************************************************************)
EXTENDS Integers, Sequences, SequencesExt

CONSTANTS IntWidth,    \* bytes of an int or uint: 16 in the code
          LenWidth,    \* bytes of a length: 4
          HashWidth,   \* bytes of a principal's hash: 20
          Checksum     \* the first bytes of the double SHA-256 of some bytes

ASSUME WidthAssumption ==
    /\ IntWidth \in Nat \ {0}
    /\ LenWidth \in Nat \ {0}
    /\ HashWidth \in Nat

Byte == 0..255

Json(kind, number, text, items, fields) ==
    [kind |-> kind, number |-> number, text |-> text, items |-> items, fields |-> fields]

JsonNull == Json("null", 0, <<>>, <<>>, {})
JsonBool(b) == Json("bool", IF b THEN 1 ELSE 0, <<>>, <<>>, {})
JsonNumber(type, n) == Json(type, n, <<>>, <<>>, {})
JsonText(kind, text) == Json(kind, 0, text, <<>>, {})
JsonWrapped(type, inner) == Json(type, 0, <<>>, <<inner>>, {})
JsonArray(items) == Json("array", 0, <<>>, items, {})
JsonObject(fields) == Json("object", 0, <<>>, <<>>, fields)

(* Result<_, ClarityDecodeError>, with the cursor or the error's offset.   *)
Done(value, cursor) == [ok |-> TRUE, value |-> value, at |-> cursor]

Eof(cursor) == [ok |-> FALSE, error |-> "UnexpectedEof", at |-> cursor]

InvalidUtf8 == [ok |-> FALSE, error |-> "InvalidUtf8", at |-> 0]

InvalidHex == [ok |-> FALSE, error |-> "InvalidHex", at |-> 0]

(* The offset is taken after the tag is read.                              *)
MutantUnknownTag(offset) == [ok |-> FALSE, error |-> "UnknownTypePrefix", at |-> offset + 1]

UnknownTag(offset) == [ok |-> FALSE, error |-> "UnknownTypePrefix", at |-> offset]

(* No result of the code: the recursion always ends before (DecoderEnds).  *)
TooDeep == [ok |-> FALSE, error |-> "TooDeep", at |-> 0]

(* The ? operator: an error ends it, a value goes on.                      *)
Try(result, Then(_, _)) == IF result.ok THEN Then(result.value, result.at) ELSE result

-----------------------------------------------------------------------------
(* Definitions named Mutant... are wrong versions of the one that follows. *)

(* A slice that ends where the data ends, when there is less.              *)
MutantReadBytes(data, cursor, n) ==
    IF cursor >= Len(data) /\ n > 0 THEN Eof(cursor)
    ELSE Done(SubSeq(data, cursor + 1, Min({cursor + n, Len(data)})), cursor + n)

ReadBytes(data, cursor, n) ==
    IF cursor + n > Len(data) THEN Eof(cursor)
    ELSE Done([i \in 1..n |-> data[cursor + i]], cursor + n)

ReadByte(data, cursor) ==
    Try(ReadBytes(data, cursor, 1), LAMBDA bytes, c : Done(bytes[1], c))

(* The number that the bytes spell after the one that is given.           *)
BigEndianAfter(first, bytes) ==
    LET n[i \in 0..Len(bytes)] == IF i = 0 THEN first ELSE 256 * n[i - 1] + bytes[i]
    IN  n[Len(bytes)]

FromBigEndian(bytes) == BigEndianAfter(0, bytes)

(* In front of a set sign bit all bits are set.                            *)
FromTwosComplement(bytes) == BigEndianAfter(IF bytes[1] < 128 THEN 0 ELSE -1, bytes)

(* The length in front, and then as many bytes.                            *)
ReadPrefixed(data, cursor, width) ==
    Try(ReadBytes(data, cursor, width), LAMBDA bytes, c :
        ReadBytes(data, c, FromBigEndian(bytes)))

(* std::str::from_utf8: every byte is part of a character.  Its first byte *)
(* tells how many follow; there are no longer forms than needed and no     *)
(* surrogates.                                                             *)
Following(byte) ==
    CASE byte < 128        -> 0
      [] byte \in 194..223 -> 1
      [] byte \in 224..239 -> 2
      [] byte \in 240..244 -> 3
      [] OTHER             -> -1

ValidUtf8(bytes) ==
    LET character(i, last) ==
            /\ i + Following(bytes[i]) = last
            /\ \A j \in i + 1..last : bytes[j] \in 128..191
            /\ bytes[i] = 224 => bytes[i + 1] >= 160
            /\ bytes[i] = 237 => bytes[i + 1] < 160
            /\ bytes[i] = 240 => bytes[i + 1] >= 144
            /\ bytes[i] = 244 => bytes[i + 1] < 144
    IN  \A k \in DOMAIN bytes :
            \E i \in DOMAIN bytes, last \in DOMAIN bytes :
                i <= k /\ k <= last /\ character(i, last)

Utf8(bytes, cursor) == IF ValidUtf8(bytes) THEN Done(bytes, cursor) ELSE InvalidUtf8

ReadText(data, cursor, width) == Try(ReadPrefixed(data, cursor, width), Utf8)

-----------------------------------------------------------------------------
(* c32check.                                                               *)

(* "0123456789ABCDEFGHJKMNPQRSTVWXYZ"                                      *)
Alphabet ==
    [i \in 1..10 |-> 47 + i] \o
    SelectSeq([i \in 1..26 |-> 64 + i], LAMBDA c : c \notin {73, 76, 79, 85})

LeadingZeros(data) == Min({i \in DOMAIN data : data[i] # 0} \cup {Len(data) + 1}) - 1

IsZero(data) == \A i \in DOMAIN data : data[i] = 0

(* Long division, most significant byte first.                             *)
DivMod32(data) ==
    LET remainder[i \in 0..Len(data)] ==
            IF i = 0 THEN 0 ELSE (256 * remainder[i - 1] + data[i]) % 32
        result == [i \in DOMAIN data |-> (256 * remainder[i - 1] + data[i]) \div 32]
        zeros == LeadingZeros(result)
    IN  [quotient  |-> [i \in 1..Len(data) - zeros |-> result[zeros + i]],
         remainder |-> remainder[Len(data)]]

(* What is left of the number after k divisions: a digit comes of each,    *)
(* the last one first, and two of them are more than a byte.               *)
AfterDivisions(data, k) ==
    LET num[i \in 0..k] == IF i = 0 THEN data ELSE DivMod32(num[i - 1]).quotient
    IN  num[k]

C32Digits(data) ==
    LET size == Min({k \in 0..2 * Len(data) : IsZero(AfterDivisions(data, k))})
    IN  [i \in 1..size |-> Alphabet[DivMod32(AfterDivisions(data, size - i)).remainder + 1]]

(* Zeros in front say nothing about the number.                            *)
MutantC32Encode(data) == C32Digits(data)

C32Encode(data) == [i \in 1..LeadingZeros(data) |-> Alphabet[1]] \o C32Digits(data)

(* "S", the version, and the hash with its checksum.                       *)
EncodeStacksAddress(version, hash) ==
    <<83, Alphabet[(version % 32) + 1]>> \o C32Encode(hash \o Checksum[<<version>> \o hash])

ReadAddress(data, cursor) ==
    Try(ReadByte(data, cursor), LAMBDA version, c1 :
        Try(ReadBytes(data, c1, HashWidth), LAMBDA hash, c2 :
            Done(EncodeStacksAddress(version, hash), c2)))

-----------------------------------------------------------------------------
(* The calls of decode_value.  inner answers the calls that one makes.     *)

(* map.insert: a later value of the same name takes the place.             *)
InsertBefore(name, value, fields) ==
    IF \E f \in fields : f[1] = name THEN fields ELSE fields \cup {<<name, value>>}

ReadItems(data, cursor, n, inner) ==
    IF n = 0 THEN Done(<<>>, cursor)
    ELSE Try(inner.value[cursor], LAMBDA item, c1 :
         Try(inner.items[c1][n - 1], LAMBDA items, c2 : Done(<<item>> \o items, c2)))

ReadFields(data, cursor, n, inner) ==
    IF n = 0 THEN Done({}, cursor)
    ELSE Try(ReadText(data, cursor, 1), LAMBDA name, c1 :
         Try(inner.value[c1], LAMBDA item, c2 :
         Try(inner.fields[c2][n - 1], LAMBDA fields, c3 :
             Done(InsertBefore(name, item, fields), c3))))

(* What follows a tag.                                                     *)
ReadPayload(tag, data, cursor, inner) ==
    CASE tag = 0 -> Try(ReadBytes(data, cursor, IntWidth), LAMBDA bytes, c :
                        Done(JsonNumber("int", FromTwosComplement(bytes)), c))
      [] tag = 1 -> Try(ReadBytes(data, cursor, IntWidth), LAMBDA bytes, c :
                        Done(JsonNumber("uint", FromBigEndian(bytes)), c))
      [] tag = 2 -> Try(ReadPrefixed(data, cursor, LenWidth), LAMBDA bytes, c :
                        Done(JsonText("buff", bytes), c))
      [] tag = 3 -> Done(JsonBool(TRUE), cursor)
      [] tag = 4 -> Done(JsonBool(FALSE), cursor)
      [] tag = 5 -> Try(ReadAddress(data, cursor), LAMBDA address, c :
                        Done(JsonText("string", address), c))
      [] tag = 6 -> Try(ReadAddress(data, cursor), LAMBDA address, c1 :
                    Try(ReadText(data, c1, 1), LAMBDA name, c2 :
                        Done(JsonText("string", address \o <<46>> \o name), c2)))
      [] tag = 7 -> Try(inner.value[cursor], LAMBDA value, c : Done(JsonWrapped("ok", value), c))
      [] tag = 8 -> Try(inner.value[cursor], LAMBDA value, c : Done(JsonWrapped("err", value), c))
      [] tag = 9 -> Done(JsonNull, cursor)
      [] tag = 10 -> inner.value[cursor]
      [] tag = 11 -> Try(ReadBytes(data, cursor, LenWidth), LAMBDA bytes, c1 :
                     Try(inner.items[c1][FromBigEndian(bytes)], LAMBDA items, c2 :
                         Done(JsonArray(items), c2)))
      [] tag = 12 -> Try(ReadBytes(data, cursor, LenWidth), LAMBDA bytes, c1 :
                     Try(inner.fields[c1][FromBigEndian(bytes)], LAMBDA fields, c2 :
                         Done(JsonObject(fields), c2)))
      [] tag \in {13, 14} ->
                     Try(ReadText(data, cursor, LenWidth), LAMBDA text, c :
                         Done(JsonText("string", text), c))
      [] OTHER -> UnknownTag(cursor - 1)

ReadValue(data, cursor, inner) ==
    Try(ReadByte(data, cursor), LAMBDA tag, c : ReadPayload(tag, data, c, inner))

(* The decoder with at most depth calls open, a turn of a loop counting as *)
(* a call.                                                                 *)
Calls(data, depth) ==
    LET call[d \in 0..depth] ==
            IF d = 0
            THEN [value  |-> [c \in Nat |-> TooDeep],
                  items  |-> [c \in Nat |-> [n \in Nat |-> TooDeep]],
                  fields |-> [c \in Nat |-> [n \in Nat |-> TooDeep]]]
            ELSE [value  |-> [c \in Nat |-> ReadValue(data, c, call[d - 1])],
                  items  |-> [c \in Nat |-> [n \in Nat |-> ReadItems(data, c, n, call[d - 1])]],
                  fields |-> [c \in Nat |-> [n \in Nat |-> ReadFields(data, c, n, call[d - 1])]]]
    IN  call[depth]

(* A value and a turn of a loop read a byte each before the next of their  *)
(* kind begins, so that the calls are never more than this.                *)
DecodeValue(data, cursor) == Calls(data, 2 * Len(data) + 1).value[cursor]

(* hex::decode: two digits a byte, in either case.                         *)
HexDigit(c) ==
    CASE c \in 48..57  -> c - 48
      [] c \in 65..70  -> c - 55
      [] c \in 97..102 -> c - 87
      [] OTHER         -> -1

HexDecode(text) ==
    IF Len(text) % 2 = 1 \/ \E i \in DOMAIN text : HexDigit(text[i]) = -1 THEN InvalidHex
    ELSE Done([i \in 1..(Len(text) \div 2) |->
                 16 * HexDigit(text[2 * i - 1]) + HexDigit(text[2 * i])], 0)

(* "0x" may stand in front.  What follows the value is not looked at.      *)
DecodeClarityValue(text) ==
    LET prefixed == Len(text) >= 2 /\ text[1] = 48 /\ text[2] = 120
        hex == IF prefixed THEN [i \in 1..Len(text) - 2 |-> text[i + 2]] ELSE text
    IN  Try(HexDecode(hex), DecodeValue)
=============================================================================
