--------------------------- MODULE ClarityValues ---------------------------
(***************************************************************************)
(* What the decoder reads: values that a contract can emit, built up part  *)
(* by part, each with its serialization and with the JSON that it is to be *)
(* shown as, from the table of clarity/mod.rs that the decoder is to       *)
(* follow.  The properties call the decoder on all bytes of a value, on a  *)
(* part of them and on damaged ones.                                       *)
(***************************************************************************)
EXTENDS Clarity

CONSTANTS Leaves,   \* values without parts: [type, number, text, name]
          Names,    \* names of fields
          Junk,     \* what may follow a value
          Damage,   \* bytes that may come out instead of others
          MaxParts  \* bound: how many values a value is made of

VARIABLES values,  \* the values built so far that are not part of another
          parts    \* how many values they are made of

-----------------------------------------------------------------------------
(* The serialization.                                                      *)

(* A number without its last k digits, rounded down.                       *)
Without(n, k, base) ==
    LET rest[i \in 0..k] == IF i = 0 THEN n ELSE rest[i - 1] \div base
    IN  rest[k]

(* Its last digits; those of a negative number are its two's complement.   *)
Digits(n, width, base) == [i \in 1..width |-> Without(n, width - i, base) % base]

TagOf ==
    [int |-> 0, uint |-> 1, buff |-> 2, true |-> 3, false |-> 4, standard |-> 5,
     contract |-> 6, ok |-> 7, err |-> 8, none |-> 9, some |-> 10, list |-> 11,
     tuple |-> 12, ascii |-> 13, utf8 |-> 14]

(* A principal's number is its version, its text the hash.                 *)
LeafBody(l) ==
    CASE l.type \in {"int", "uint"} -> Digits(l.number, IntWidth, 256)
      [] l.type \in {"buff", "ascii", "utf8"} -> Digits(Len(l.text), LenWidth, 256) \o l.text
      [] l.type \in {"true", "false", "none"} -> <<>>
      [] l.type = "standard" -> <<l.number>> \o l.text
      [] l.type = "contract" -> <<l.number>> \o l.text \o <<Len(l.name)>> \o l.name

(* The size of a list or tuple stands in front of its parts.               *)
Encode(v) ==
    <<TagOf[v.type]>>
    \o (IF v.type \in {"list", "tuple"} THEN Digits(v.size, LenWidth, 256) ELSE <<>>)
    \o v.body

(* c32: the number that the data spells to the base 32, without zeros in   *)
(* front, and a zero for every zero byte in front.                         *)
C32Groups(data) ==
    LET number == FromBigEndian(data)
        size == Min({k \in 0..2 * Len(data) : Without(number, k, 32) = 0})
    IN  [i \in 1..LeadingZeros(data) |-> 0] \o Digits(number, size, 32)

Address(l) ==
    LET digits == C32Groups(l.text \o Checksum[<<l.number>> \o l.text])
    IN  <<83, Alphabet[(l.number % 32) + 1]>> \o [i \in DOMAIN digits |-> Alphabet[digits[i] + 1]]

(* The column "JSON output" of the table.                                  *)
LeafShown(l) ==
    CASE l.type \in {"int", "uint"} -> JsonNumber(l.type, l.number)
      [] l.type = "buff" -> JsonText("buff", l.text)
      [] l.type \in {"ascii", "utf8"} -> JsonText("string", l.text)
      [] l.type \in {"true", "false"} -> JsonBool(l.type = "true")
      [] l.type = "none" -> JsonNull
      [] l.type = "standard" -> JsonText("string", Address(l))
      [] l.type = "contract" -> JsonText("string", Address(l) \o <<46>> \o l.name)

(* What a contract can emit fits its type.                                 *)
Fits(n, width) == n \in Nat /\ Without(n, width, 256) = 0

IsText(text) == text \in Seq(Byte) /\ ValidUtf8(text)

IsLeaf(l) ==
    /\ l.type \in {"int", "uint", "buff", "ascii", "utf8", "true", "false", "none",
                   "standard", "contract"}
    /\ l.type = "int" => l.number \in Int /\ Without(l.number, IntWidth - 1, 256) \in -128..127
    /\ l.type = "uint" => Fits(l.number, IntWidth)
    /\ l.type = "buff" => l.text \in Seq(Byte) /\ Fits(Len(l.text), LenWidth)
    /\ l.type \in {"ascii", "utf8"} => IsText(l.text) /\ Fits(Len(l.text), LenWidth)
    /\ l.type \in {"standard", "contract"} =>
          l.number \in Byte /\ l.text \in Seq(Byte) /\ Len(l.text) = HashWidth
    /\ l.type = "contract" => IsText(l.name) /\ Fits(Len(l.name), 1)

ASSUME ValuesAssumption ==
    /\ \A l \in Leaves : IsLeaf(l)
    /\ \A l \in Leaves : l.type \in {"standard", "contract"} =>
          Checksum[<<l.number>> \o l.text] \in Seq(Byte)
    /\ \A name \in Names : IsText(name) /\ Fits(Len(name), 1)
    /\ Junk \subseteq Seq(Byte)
    /\ Damage \subseteq Byte
    /\ Fits(MaxParts, LenWidth)

-----------------------------------------------------------------------------
(* Values in the making, each one to become a part of the one before it.   *)

Value(type, size, body, shown) ==
    [type |-> type, size |-> size, body |-> body, shown |-> shown]

Init == values = <<>> /\ parts = 0

Top == values[Len(values)]
Below == values[Len(values) - 1]

Push(value) ==
    /\ values' = Append(values, value)
    /\ parts' = parts + 1

PushLeaf(l) == Push(Value(l.type, 0, LeafBody(l), LeafShown(l)))

(* A part more of the value on top.                                        *)
Enclose(value) ==
    /\ values # <<>>
    /\ values' = [values EXCEPT ![Len(values)] = value]
    /\ parts' = parts + 1

(* (ok v), (err v), (some v).                                              *)
Wrap(type) ==
    Enclose(Value(type, 0, Encode(Top),
                  IF type = "some" THEN Top.shown ELSE JsonWrapped(type, Top.shown)))

(* The value on top becomes a part of the one below it.                    *)
Merge(value) ==
    /\ values' = [i \in 1..Len(values) - 1 |-> IF i = Len(values) - 1 THEN value ELSE values[i]]
    /\ UNCHANGED parts

(* (list), and v in front of the items it has.                             *)
PushList == Push(Value("list", 0, <<>>, JsonArray(<<>>)))

AddItem ==
    /\ Len(values) > 1 /\ Below.type = "list"
    /\ Merge(Value("list", Below.size + 1, Encode(Top) \o Below.body,
                   JsonArray(<<Top.shown>> \o Below.shown.items)))

(* {}, and v as a field that it does not have.                             *)
PushTuple == Push(Value("tuple", 0, <<>>, JsonObject({})))

AddField(name) ==
    /\ Len(values) > 1 /\ Below.type = "tuple"
    /\ \A f \in Below.shown.fields : f[1] # name
    /\ Merge(Value("tuple", Below.size + 1,
                   <<Len(name)>> \o name \o Encode(Top) \o Below.body,
                   JsonObject(Below.shown.fields \cup {<<name, Top.shown>>})))

Next ==
    /\ \/ \E l \in Leaves : PushLeaf(l)
       \/ \E type \in {"ok", "err", "some"} : Wrap(type)
       \/ PushList \/ PushTuple
       \/ AddItem
       \/ \E name \in Names : AddField(name)
    /\ parts' <= MaxParts

vars == <<values, parts>>

Spec == Init /\ [][Next]_vars

-----------------------------------------------------------------------------
(* Properties.                                                             *)

(* The value on top when nothing else is in the making.                    *)
Finished == Len(values) = 1

Prefix(data, n) == [i \in 1..n |-> data[i]]

(* As the event payloads carry it (raw_value), and in capitals without 0x. *)
Written(data) ==
    LET digit(d) == IF d < 10 THEN 48 + d ELSE 87 + d
    IN  <<48, 120>> \o [i \in 1..2 * Len(data) |->
            IF i % 2 = 1 THEN digit(data[(i + 1) \div 2] \div 16) ELSE digit(data[i \div 2] % 16)]

Capital(text) ==
    [i \in 1..Len(text) - 2 |->
        IF text[i + 2] \in 97..102 THEN text[i + 2] - 32 ELSE text[i + 2]]

Damaged(data) == {[data EXCEPT ![i] = b] : i \in DOMAIN data, b \in Damage}

(* Every value decodes to the JSON that the table of clarity/mod.rs says,  *)
(* its addresses included, and the decoder stops right behind it, whatever *)
(* follows: the next item of a list is looked for there.                   *)
RoundTrip ==
    Finished => \A junk \in Junk :
        LET text == Written(Encode(Top) \o junk)
            result == Done(Top.shown, Len(Encode(Top)))
        IN  /\ DecodeClarityValue(text) = result
            /\ DecodeClarityValue(Capital(text)) = result

(* A text cut short anywhere, within a length, a name, a hash or between   *)
(* two items, is an error, never a shorter value: UnexpectedEof, unless it *)
(* is cut within a byte.                                                   *)
CutShortIsNoticed == Finished =>
    LET text == Written(Encode(Top))
    IN  \A n \in 0..Len(text) - 1 :
            LET result == DecodeClarityValue(Prefix(text, n))
            IN  /\ ~result.ok
                /\ result.error = IF n % 2 = 1 THEN "InvalidHex" ELSE "UnexpectedEof"
                /\ 2 * result.at <= n

(* With a byte damaged, whatever the decoder then takes for lengths, tags  *)
(* and text: it decides by the bytes up to where it stopped, which tell    *)
(* no other value when they come alone, and its error names a byte that    *)
(* is an unknown tag, or an offset within the data.                        *)
DamageIsContained == Finished =>
    \A data \in Damaged(Encode(Top)) :
        LET result == DecodeValue(data, 0)
        IN  CASE result.ok ->
                    /\ result.at <= Len(data)
                    /\ DecodeValue(Prefix(data, result.at), 0) = result
                    /\ ~DecodeValue(Prefix(data, result.at - 1), 0).ok
              [] ~result.ok /\ result.error = "UnknownTypePrefix" ->
                    result.at < Len(data) /\ data[result.at + 1] \notin 0..14
              [] ~result.ok /\ result.error # "UnknownTypePrefix" ->
                    result.error \in {"UnexpectedEof", "InvalidUtf8"} /\ result.at <= Len(data)
=============================================================================
