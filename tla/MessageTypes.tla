----------------------------- MODULE MessageTypes -----------------------------
(***************************************************************************)
(* The types of the fields of Go structs and of protobuf messages, and the *)
(* values of them that the model distinguishes.  A leaf value is a natural *)
(* number; a pointer is <<>> (nil) or <<v>>; a list is a sequence; a       *)
(* struct is a function from field names.                                  *)
(*                                                                         *)
(* Of the strings and the byte slices the code tells apart: 0 is the empty *)
(* one; 1 and 2 are hexadecimal texts (bytes) of the length of a hash or   *)
(* an ID; 3 is hexadecimal of another length, and as a big-endian number   *)
(* it is 1 behind a leading zero byte; 4 is neither hexadecimal nor short  *)
(* enough for a user agent.                                                *)
(***************************************************************************)
EXTENDS Integers, Sequences

MaxUint8 == 255
MaxUint16 == 65535

Leaf(name, values, max) == [kind |-> "leaf", name |-> name, values |-> values, max |-> max]
Uint8 == Leaf("uint8", {0, 1, MaxUint8}, MaxUint8)
Uint16 == Leaf("uint16", {0, 1, MaxUint16}, MaxUint16)
Uint32 == Leaf("uint32", {0, 1, MaxUint8, MaxUint8 + 1, MaxUint16, MaxUint16 + 1}, 2 ^ 30)
VersionUint32 == Leaf("uint32", {0, 1, MaxUint16}, MaxUint16)  \* filled from a uint16
Uint64 == Leaf("uint64", {0, 1, 2}, 2 ^ 30)
Int64 == Leaf("int64", {0, 1, 2}, 2 ^ 30)
Float64 == Leaf("float64", {0, 1, 2}, 2 ^ 30)
Boolean == Leaf("bool", {0, 1}, 1)
String == Leaf("string", {0, 1, 3, 4}, 4)
Bytes == Leaf("bytes", {0, 1, 2, 3}, 4)
UserAgentString == Leaf("userAgent", {0, 1, 4}, 3)
BigInt == Leaf("bigInt", {0, 1, 2}, 2)
DomainHash == Leaf("hash", {1, 2}, 2)

(* A pointer that may be nil, one that is nil only beside an error, a list and a struct. *)
Ptr(t) == [kind |-> "ptr", of |-> t]
Ref(t) == [kind |-> "ref", of |-> t]
List(t) == [kind |-> "list", of |-> t]
Struct(fields) == [kind |-> "struct", fields |-> fields]
Message(command, fields) == [kind |-> "struct", command |-> command, fields |-> fields]
NoFields == <<>>

(* A Go map, as the set of its entries, structs with a key field. *)
MapOf(t, key) == [kind |-> "map", of |-> t, key |-> key]

(* A typical value of a type, and its zero value. *)
RECURSIVE Typical(_)
Typical(t) ==
  CASE t.kind = "leaf" -> 1
    [] t.kind = "struct" -> [f \in DOMAIN t.fields |-> Typical(t.fields[f])]
    [] t.kind = "map" -> {Typical(t.of)}
    [] OTHER -> <<Typical(t.of)>>

RECURSIVE Zero(_)
Zero(t) ==
  CASE t.kind = "leaf" -> 0
    [] t.kind = "struct" -> [f \in DOMAIN t.fields |-> Zero(t.fields[f])]
    [] t.kind = "map" -> {}
    [] OTHER -> <<>>

(* The values that differ from the typical one in at most one leaf or one length. *)
RECURSIVE Variants(_)
Variants(t) ==
  CASE t.kind = "leaf" -> t.values \union {1}
    [] t.kind = "ref" -> {<<v>> : v \in Variants(t.of)}
    [] t.kind = "ptr" -> {<<v>> : v \in Variants(t.of)} \union {<<>>}
    [] t.kind = "list" -> {<<v>> : v \in Variants(t.of)}
                            \union {[i \in 1 .. n |-> Typical(t.of)] : n \in {0, 2, 3}}
    [] t.kind = "map" -> {{v} : v \in Variants(t.of)}
                            \union {{}}
                            \union {{Typical(t.of), [Typical(t.of) EXCEPT ![t.key] = k]} :
                                      k \in Variants(t.of.fields[t.key])}
    [] t.kind = "struct" ->
         {Typical(t)} \union
         UNION {{[Typical(t) EXCEPT ![f] = v] : v \in Variants(t.fields[f])} :
                  f \in DOMAIN t.fields}

(* The values a variable of the type can hold. *)
RECURSIVE Fits(_, _)
Fits(t, v) ==
  CASE t.kind = "leaf" -> v \in 0 .. t.max /\ (t.name = "hash" => v # 0)
    [] t.kind = "struct" -> /\ DOMAIN v = DOMAIN t.fields
                            /\ \A f \in DOMAIN t.fields : Fits(t.fields[f], v[f])
    [] t.kind = "map" -> \A e \in v : Fits(t.of, e) /\ \A d \in v : d[t.key] = e[t.key] => d = e
    [] OTHER -> \A i \in DOMAIN v : Fits(t.of, v[i])
================================================================================
