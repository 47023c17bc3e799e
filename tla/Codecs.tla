-------------------------------- MODULE Codecs --------------------------------
(***************************************************************************)
(* How the two hand-written converters of a message, one in each           *)
(* direction, treat its fields: a codec is a record that says what each of *)
(* the two does with a value.  The inner side is the one nearer to the     *)
(* program (an app message beside its protobuf message, a domain object    *)
(* beside its app message), the outer side the one nearer to the network.  *)
(* Encode goes outwards, Decode inwards; either may refuse a value:        *)
(* "nil" for errorNil, "panic" for a run-time panic, "other" otherwise.    *)
(***************************************************************************)
EXTENDS MessageTypes, SequencesExt

(* Leaves.  Copy: assigned as it is.  Narrow: widened outwards, refused inwards above max.  *)
(* Truncated: cut to max + 1 values inwards.  BigIntBytes: big.Int Bytes and SetBytes.      *)
(* BigIntText: Text(16) and SetString.  Id: a hash or an ID of a fixed length.  Hex: bytes  *)
(* as hexadecimal text.  UserAgent: validated in both directions.                           *)
Copy == [kind |-> "copy"]
Narrow(max) == [kind |-> "narrow", max |-> max]
Truncated(max) == [kind |-> "truncated", max |-> max]
BigIntBytes == [kind |-> "bigIntBytes"]
BigIntText == [kind |-> "bigIntText"]
Id == [kind |-> "id"]
Hex == [kind |-> "hex"]
UserAgent == [kind |-> "userAgent"]

(* Pointers of the outer side.  Req: nil is refused with errorNil.  Deref: nil is read      *)
(* through.  Opt: nil is checked for and kept.  OptNil: errorNil from anywhere below makes  *)
(* it nil.  Filled: nil is sent as an empty message.  NeverSent: never set outwards.        *)
Req(c) == [kind |-> "req", of |-> c]
Deref(c) == [kind |-> "deref", of |-> c]
Opt(c) == [kind |-> "opt", of |-> c]
OptNil(c) == [kind |-> "optNil", of |-> c]
Filled(c, t) == [kind |-> "filled", of |-> c, empty |-> Zero(t)]
NeverSent == [kind |-> "neverSent"]

(* Lists, lists with a maximal length checked in both directions, and a map sent as a list. *)
All(c) == [kind |-> "list", of |-> c]
Limited(c, max, over) == [kind |-> "limited", of |-> c, max |-> max, over |-> over]
MapAsList(c, key) == [kind |-> "mapAsList", of |-> c, key |-> key]

(* A transaction's acceptance data, whose listed UTXO entries are also put into the inputs. *)
EntriesIntoInputs(c) == [kind |-> "entriesIntoInputs", of |-> c]

(* One field of an outer struct stands for the whole inner value, or the other way round. *)
Wrap(t, field, c) == [kind |-> "wrap", type |-> t, field |-> field, of |-> c]
Embed(field, c) == [kind |-> "embed", field |-> field, of |-> c]

(* A struct: inner field |-> the outer field it is written to and the one it is read from.  *)
(* "alone" are the values some inner fields must have beside an error, "need" the pointers  *)
(* decoded only when there is no error and then required, "also" the outer fields written   *)
(* from a path of inner fields and not read back.                                           *)
F(outer, c) == [to |-> outer, from |-> outer, as |-> c]
Same(names) == [f \in names |-> F(f, Copy)]
Codec(t, fields, alone, need, also) ==
  [kind |-> "struct", type |-> t, fields |-> fields, alone |-> alone, need |-> need, also |-> also]
Msg(t, fields) == Codec(t, fields, NoFields, NoFields, NoFields)

IsNil(p) == p = <<>>

(* Of the errors below a message the one it is refused with. *)
Worst(errors) ==
  CASE errors \subseteq {"none"} -> "none"
    [] "panic" \in errors -> "panic"
    [] OTHER -> CHOOSE e \in errors \ {"none"} : TRUE

(* What the inward converter refuses an outer value w with, and what it makes of one it accepts. *)
RECURSIVE DecodeError(_, _), Decoded(_, _)

NeededError(c, f, w, withError) ==
  LET pointer == w[c.fields[f].from]
  IN CASE withError -> IF c.need[f] = "refuse" /\ ~IsNil(pointer) THEN "other" ELSE "none"
       [] IsNil(pointer) -> "nil"
       [] OTHER -> DecodeError(c.fields[f].as.of, pointer[1])

WithError(c, w) == "Error" \in DOMAIN c.fields /\ ~IsNil(w.Error)

StructError(c, w) ==
  LET below == Worst({IF f \in DOMAIN c.need THEN NeededError(c, f, w, WithError(c, w))
                      ELSE DecodeError(c.fields[f].as, w[c.fields[f].from])
                     : f \in DOMAIN c.fields})
      NotAlone(f) == Decoded(c.fields[f].as, w[c.fields[f].from]) # c.alone[f]
  IN IF below = "none" /\ WithError(c, w) /\ \E f \in DOMAIN c.alone : NotAlone(f) THEN "other"
     ELSE below

ListError(c, w) == Worst({DecodeError(c, w[i]) : i \in DOMAIN w})

DecodeError(c, w) ==
  CASE c.kind = "narrow" -> IF w > c.max THEN "other" ELSE "none"
    [] c.kind = "bigIntText" -> IF w \in {0, 4} THEN "other" ELSE "none"
    [] c.kind = "id" -> IF w \in {1, 2} THEN "none" ELSE "other"
    [] c.kind \in {"hex", "userAgent"} -> IF w = 4 THEN "other" ELSE "none"
    [] c.kind = "req" -> IF IsNil(w) THEN "nil" ELSE DecodeError(c.of, w[1])
    [] c.kind = "deref" -> IF IsNil(w) THEN "panic" ELSE DecodeError(c.of, w[1])
    [] c.kind \in {"opt", "filled"} -> IF IsNil(w) THEN "none" ELSE DecodeError(c.of, w[1])
    [] c.kind = "optNil" -> LET e == IF IsNil(w) THEN "nil" ELSE DecodeError(c.of, w[1])
                            IN IF e = "nil" THEN "none" ELSE e
    [] c.kind \in {"list", "mapAsList"} -> ListError(c.of, w)
    [] c.kind = "limited" -> IF Len(w) > c.max THEN "other" ELSE ListError(c.of, w)
    [] c.kind = "wrap" -> DecodeError(c.of, w[c.field])
    [] c.kind = "embed" -> DecodeError(c.of, w)
    [] c.kind = "struct" -> StructError(c, w)
    [] c.kind = "entriesIntoInputs" ->
         LET error == DecodeError(c.of, w)
         IN IF error = "none" /\ Len(w.TransactionInputUtxoEntries) > Len(w.Transaction[1].Inputs)
            THEN "panic" ELSE error
    [] OTHER -> "none"

DecodedMap(c, w) ==
  LET list == [i \in DOMAIN w |-> Decoded(c.of, w[i])]
      IsLast(i) == \A j \in i + 1 .. Len(w) : list[j][c.key] # list[i][c.key]
  IN {list[i] : i \in {i \in DOMAIN w : IsLast(i)}}

WithEntriesInInputs(data) ==
  LET entries == data.TransactionInputUTXOEntries
      EntryOf(k) == IF k \in DOMAIN entries THEN <<entries[k]>> ELSE <<>>
  IN [data EXCEPT !.Transaction.Inputs =
        [k \in DOMAIN @ |-> [UTXOEntry |-> EntryOf(k)] @@ @[k]]]

Decoded(c, w) ==
  CASE c.kind = "truncated" -> w % (c.max + 1)
    [] c.kind = "bigIntBytes" -> IF w = 3 THEN 1 ELSE w
    [] c.kind = "bigIntText" -> w - 1
    [] c.kind \in {"req", "deref"} -> Decoded(c.of, w[1])
    [] c.kind \in {"opt", "filled"} -> IF IsNil(w) THEN <<>> ELSE <<Decoded(c.of, w[1])>>
    [] c.kind = "optNil" -> IF IsNil(w) \/ DecodeError(c.of, w[1]) = "nil" THEN <<>>
                            ELSE <<Decoded(c.of, w[1])>>
    [] c.kind = "neverSent" -> <<>>
    [] c.kind \in {"list", "limited"} -> [i \in DOMAIN w |-> Decoded(c.of, w[i])]
    [] c.kind = "mapAsList" -> DecodedMap(c, w)
    [] c.kind = "wrap" -> Decoded(c.of, w[c.field])
    [] c.kind = "embed" -> [f \in {c.field} |-> Decoded(c.of, w)]
    [] c.kind = "entriesIntoInputs" -> WithEntriesInInputs(Decoded(c.of, w))
    [] c.kind = "struct" -> [f \in DOMAIN c.fields |->
                               IF f \in DOMAIN c.need /\ WithError(c, w) THEN <<>>
                               ELSE Decoded(c.fields[f].as, w[c.fields[f].from])]
    [] OTHER -> w

(* The same for the outward converter. *)
RECURSIVE EncodeError(_, _), Encoded(_, _)

EncodeError(c, a) ==
  CASE c.kind = "userAgent" -> IF a = 4 THEN "other" ELSE "none"
    [] c.kind \in {"req", "deref", "wrap", "entriesIntoInputs"} -> EncodeError(c.of, a)
    [] c.kind \in {"opt", "optNil", "filled", "list"} ->
         Worst({EncodeError(c.of, a[i]) : i \in DOMAIN a})
    [] c.kind = "limited" -> IF Len(a) > c.max THEN c.over
                             ELSE Worst({EncodeError(c.of, a[i]) : i \in DOMAIN a})
    [] c.kind = "embed" -> EncodeError(c.of, a[c.field])
    [] c.kind = "struct" -> Worst({EncodeError(c.fields[f].as, a[f]) : f \in DOMAIN c.fields})
    [] OTHER -> "none"

EncodedField(c, a, w) ==
  LET writers == {f \in DOMAIN c.fields : c.fields[f].to = w}
      writer == CHOOSE f \in writers : TRUE
  IN CASE w \in DOMAIN c.also -> FoldLeft(LAMBDA v, f : v[f], a, c.also[w])
       [] writers = {} -> Zero(c.type.fields[w])
       [] OTHER -> Encoded(c.fields[writer].as, a[writer])

Encoded(c, a) ==
  CASE c.kind = "bigIntText" -> a + 1
    [] c.kind \in {"req", "deref"} -> <<Encoded(c.of, a)>>
    [] c.kind = "filled" -> IF IsNil(a) THEN <<c.empty>> ELSE <<Encoded(c.of, a[1])>>
    [] c.kind = "neverSent" -> <<>>
    [] c.kind \in {"opt", "optNil", "list", "limited"} -> [i \in DOMAIN a |-> Encoded(c.of, a[i])]
    [] c.kind = "mapAsList" -> LET list == SetToSeq(a)
                               IN [i \in DOMAIN list |-> Encoded(c.of, list[i])]
    [] c.kind = "wrap" -> [Zero(c.type) EXCEPT ![c.field] = Encoded(c.of, a)]
    [] c.kind = "embed" -> Encoded(c.of, a[c.field])
    [] c.kind = "entriesIntoInputs" -> Encoded(c.of, a)
    [] c.kind = "struct" -> [w \in DOMAIN c.type.fields |-> EncodedField(c, a, w)]
    [] OTHER -> a
================================================================================
