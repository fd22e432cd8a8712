----------------------------- MODULE MCClarity -----------------------------
(* Leaves of every type, with the numbers, texts and hashes that make a    *)
(* difference: signs, zero bytes in front of a hash, versions that share a *)
(* letter, characters of two and three bytes, empty texts and names.       *)
EXTENDS ClarityValues

LeafOf(type, number, text, name) ==
    [type |-> type, number |-> number, text |-> text, name |-> name]

Number(type, n) == LeafOf(type, n, <<>>, <<>>)
Text(type, text) == LeafOf(type, 0, text, <<>>)
Principal(version, hash) == LeafOf("standard", version, hash, <<>>)
Contract(version, hash, name) == LeafOf("contract", version, hash, name)

MCLeaves ==
    {Number("int", n) : n \in {-32768, -1, 0, 300}}
    \cup {Number("uint", n) : n \in {0, 65535}}
    \cup {Text("buff", <<>>), Text("buff", <<0, 255>>)}
    \cup {Text(type, <<>>) : type \in {"true", "false", "none"}}
    \cup {Principal(v, h) : v \in {22, 54}, h \in {<<0, 0>>, <<0, 8>>, <<255, 31>>}}
    \cup {Contract(22, <<1, 0>>, <<>>), Contract(26, <<32, 0>>, <<97, 45>>)}
    \cup {Text("ascii", <<>>), Text("ascii", <<3, 12>>)}
    \cup {Text("utf8", <<195, 169>>), Text("utf8", <<226, 130, 172, 97>>)}

MCNames == {<<>>, <<97>>, <<97, 98>>}

MCJunk == {<<>>, <<3>>, <<255, 0>>}

(* One byte, of no algebraic kinship with c32.                             *)
MCChecksum ==
    [data \in Seq(Byte) |-> <<FoldLeft(LAMBDA n, b : (7 * n + b + 3) % 256, 0, data)>>]
=============================================================================
