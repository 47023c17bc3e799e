------------------------------- MODULE Script -------------------------------
(* Scripts as byte strings: parsing them, the numbers in them, building    *)
(* them, recognising the standard ones and counting their signature        *)
(* operations (domain/consensus/utils/txscript).                           *)
(*                                                                         *)
(* A byte string is a sequence of items.  An item is one byte, <<b>>, or   *)
(* a block of bytes that no code looks into: a public key, a signature or  *)
(* a digest, each with the number of bytes it takes.  Every item is a      *)
(* sequence of numbers, so that any two strings can be compared.           *)
EXTENDS Integers, Sequences, FiniteSets, FiniteSetsExt

CONSTANTS MaxPubKeysPerMultiSig, ScriptNumLen

MaxScriptElementSize == 520
MaxScriptSize == 10000
MaxScriptPublicKeyVersion == 0

Byte(b) == <<<<b>>>>
SchnorrKey(k) == <<256, k>>
SchnorrSig(k, msg) == <<257, k>> \o msg
ECDSAKey(k) == <<258, k>>
ECDSASig(k, msg) == <<259, k>> \o msg
Blocks32 == {256, 260}

(* A digest names the function and the whole string hashed: no two strings *)
(* have the same one.                                                      *)
RECURSIVE Flat(_)
Flat(s) == IF s = <<>> THEN <<>> ELSE <<Len(Head(s))>> \o Head(s) \o Flat(Tail(s))
Digest(f, s) == <<<<260, f>> \o Flat(s)>>
Sha256(s) == Digest(1, s)
Blake2b(s) == Digest(2, s)

ItemSize(item) ==
  CASE item[1] \in Blocks32 -> 32 [] item[1] = 258 -> 33 [] item[1] \in {257, 259} -> 64 [] OTHER -> 1

Size(s) == Len(s) + MapThenSumSet(LAMBDA i: ItemSize(s[i]) - 1, {i \in DOMAIN s: s[i][1] > 255})

(* How many items from the i-th on make n bytes; -1 when the string ends,  *)
(* or a block would be cut, before that.                                   *)
ItemsOf(s, i, n) ==
  LET fits == {k \in 0 .. Len(s) - i + 1: k <= n /\ Size(SubSeq(s, i, i + k - 1)) = n}
  IN IF fits = {} THEN -1 ELSE CHOOSE k \in fits: TRUE

(* The opcodes.  Those up to Op16 push data; the others are named here in  *)
(* the order of their values, from OpNop on.                               *)
Op0 == 0
OpPushData1 == 76
OpPushData2 == 77
OpPushData4 == 78
Op1Negate == 79
OpReserved == 80
Op1 == 81
Op16 == 96
OpcodeNames ==
  <<"Nop", "Ver", "If", "NotIf", "VerIf", "VerNotIf", "Else", "EndIf", "Verify", "Return",
    "ToAltStack", "FromAltStack", "2Drop", "2Dup", "3Dup", "2Over", "2Rot", "2Swap", "IfDup",
    "Depth", "Drop", "Dup", "Nip", "Over", "Pick", "Roll", "Rot", "Swap", "Tuck", "Cat", "SubStr",
    "Left", "Right", "Size", "Invert", "And", "Or", "Xor", "Equal", "EqualVerify", "Reserved1",
    "Reserved2", "1Add", "1Sub", "2Mul", "2Div", "Negate", "Abs", "Not", "0NotEqual", "Add", "Sub",
    "Mul", "Div", "Mod", "LShift", "RShift", "BoolAnd", "BoolOr", "NumEqual", "NumEqualVerify",
    "NumNotEqual", "LessThan", "GreaterThan", "LessThanOrEqual", "GreaterThanOrEqual", "Min",
    "Max", "Within", "Unknown166", "Unknown167", "SHA256", "CheckMultiSigECDSA", "Blake2b",
    "CheckSigECDSA", "CheckSig", "CheckSigVerify", "CheckMultiSig", "CheckMultiSigVerify",
    "CheckLockTimeVerify", "CheckSequenceVerify">>
NameOf(value) ==
  IF value \in Op16 + 1 .. Op16 + Len(OpcodeNames) THEN OpcodeNames[value - Op16] ELSE "Unknown"
Opcode(name) == Op16 + (CHOOSE i \in DOMAIN OpcodeNames: OpcodeNames[i] = name)

(* The length column of opcodeArray: 1 for a bare opcode, more for one     *)
(* followed by that many bytes less one, negative for one followed by the  *)
(* length of its data in that many bytes.                                  *)
OpLength(op) ==
  CASE op \in 1..75 -> op + 1
    [] op = OpPushData1 -> -1
    [] op = OpPushData2 -> -2
    [] op = OpPushData4 -> -4
    [] OTHER -> 1

(* A parsed opcode: its value and the data that follows it.                *)
Pop(value, data) == [value |-> value, data |-> data]

(* The little-endian number in the first n items.                          *)
RECURSIVE Little(_, _)
Little(s, n) == IF n = 0 THEN 0 ELSE s[1][1] + 256 * Little(Tail(s), n - 1)

(* The opcodes of a script up to its end or up to its first malformed push *)
(* (a block of bytes where an opcode should be is malformed too: it holds  *)
(* no opcodes).                                                            *)
RECURSIVE parseScript(_)
parseScript(s) ==
  IF s = <<>> THEN [pops |-> <<>>, err |-> FALSE]
  ELSE LET value == s[1][1]
           length == OpLength(value)
           prefix == IF length < 0 THEN -length ELSE 0
           size == IF length < 0 THEN Little(Tail(s), prefix) ELSE length - 1
           items == ItemsOf(s, 2 + prefix, size)
           last == 1 + prefix + items
           rest == parseScript(SubSeq(s, last + 1, Len(s)))
       IN IF \/ value > 255
             \/ Len(s) - 1 < prefix
             \/ \E i \in 2 .. 1 + prefix: s[i][1] > 255
             \/ items = -1
          THEN [pops |-> <<>>, err |-> TRUE]
          ELSE [rest EXCEPT !.pops = <<Pop(value, SubSeq(s, 2 + prefix, last))>> \o @]

isPushOnly(pops) == \A i \in DOMAIN pops: pops[i].value <= Op16

Values(pops) == [i \in DOMAIN pops |-> pops[i].value]
isScriptHash(pops) == Values(pops) = <<Opcode("Blake2b"), 32, Opcode("Equal")>>
isPayToPubkey(pops) == Values(pops) = <<32, Opcode("CheckSig")>>
isPayToPubkeyECDSA(pops) == Values(pops) = <<33, Opcode("CheckSigECDSA")>>

IsPayToScriptHash(script) == LET parsed == parseScript(script) IN ~parsed.err /\ isScriptHash(parsed.pops)

typeOfScript(pops) ==
  CASE isPayToPubkey(pops) -> "PubKeyTy"
    [] isPayToPubkeyECDSA(pops) -> "PubKeyECDSATy"
    [] isScriptHash(pops) -> "ScriptHashTy"
    [] OTHER -> "NonStandardTy"

GetScriptClass(script) ==
  LET parsed == parseScript(script) IN IF parsed.err THEN "NonStandardTy" ELSE typeOfScript(parsed.pops)

(* What the mempool takes for an output nobody can ever spend.             *)
IsUnspendable(script) ==
  LET parsed == parseScript(script)
  IN parsed.err \/ (parsed.pops # <<>> /\ parsed.pops[1].value = Opcode("Return"))

(* The signature operations of a script, counted without running it: the   *)
(* number of keys of a multisig is taken from a small integer right before *)
(* it, and is the largest allowed when there is none.                      *)
asSmallIntLess(value) == IF value = Op0 THEN 0 ELSE value - Op1
asSmallInt(value) == IF value = Op0 THEN 0 ELSE value - (Op1 - 1)

RECURSIVE SigOpsFrom(_, _, _)
SigOpsFrom(pops, precise, i) ==
  IF i > Len(pops) THEN 0
  ELSE SigOpsFrom(pops, precise, i + 1) +
       CASE NameOf(pops[i].value) \in {"CheckSig", "CheckSigVerify", "CheckSigECDSA"} -> 1
         [] NameOf(pops[i].value) \in {"CheckMultiSig", "CheckMultiSigVerify", "CheckMultiSigECDSA"} ->
              IF precise /\ i > 1 /\ pops[i - 1].value \in Op1..Op16
              THEN asSmallInt(pops[i - 1].value) ELSE MaxPubKeysPerMultiSig
         [] OTHER -> 0
getSigOpCount(pops, precise) == SigOpsFrom(pops, precise, 1)

GetPreciseSigOpCount(scriptSig, scriptPubKey, isP2SH) ==
  LET pops == parseScript(scriptPubKey).pops
      sig == parseScript(scriptSig)
      shScript == sig.pops[Len(sig.pops)].data
  IN CASE ~(isP2SH /\ isScriptHash(pops)) -> getSigOpCount(pops, TRUE)
       [] sig.err \/ ~isPushOnly(sig.pops) \/ sig.pops = <<>> -> 0
       [] OTHER -> getSigOpCount(parseScript(shScript).pops, TRUE)

(* Numbers: little endian with a sign bit, minimal, and of at most         *)
(* scriptNumLen bytes when read from the stack.                            *)
RECURSIVE Magnitude(_)
Magnitude(n) == IF n = 0 THEN <<>> ELSE <<<<n % 256>>>> \o Magnitude(n \div 256)

ScriptNumBytes(n) ==
  LET bytes == Magnitude(IF n < 0 THEN -n ELSE n)
      top == bytes[Len(bytes)][1]
  IN CASE n = 0 -> <<>>
       [] n # 0 /\ top >= 128 -> Append(bytes, <<IF n < 0 THEN 128 ELSE 0>>)
       [] OTHER -> IF n < 0 THEN [bytes EXCEPT ![Len(bytes)] = <<top + 128>>] ELSE bytes

isMinimal(s) ==
  s # <<>> /\ s[Len(s)][1] % 128 = 0 => Len(s) > 1 /\ s[Len(s) - 1][1] >= 128

ScriptNumError(s) ==
  CASE Size(s) > ScriptNumLen -> "ErrNumberTooBig"
    [] ~isMinimal(s) -> "ErrMinimalData"
    [] OTHER -> ""

makeScriptNum(s) ==
  IF s = <<>> THEN 0
  ELSE LET top == s[Len(s)][1]
           all == Little(s, Len(s))
           sign == 128 * 256 ^ (Len(s) - 1)
       IN IF top >= 128 THEN -(all - sign) ELSE all

(* The script builder.  A step after an error does nothing.                *)
NewScriptBuilder == [script |-> <<>>, err |-> FALSE]
Extend(b, s) == [b EXCEPT !.script = @ \o s]
Room(b, size) == Size(b.script) + size <= MaxScriptSize

AddOps(b, ops) ==
  IF b.err \/ ~Room(b, Size(ops)) THEN [b EXCEPT !.err = TRUE] ELSE Extend(b, ops)
AddOp(b, value) == AddOps(b, Byte(value))

canonicalDataSize(s) ==
  LET n == Size(s)
  IN CASE n = 0 \/ (n = 1 /\ s[1][1] \in 0..16 \cup {129}) -> 1
       [] n > 1 /\ n < OpPushData1 -> 1 + n
       [] n = 1 -> 2
       [] n \in OpPushData1..255 -> 2 + n
       [] n \in 256..65535 -> 3 + n
       [] OTHER -> 5 + n

(* The push of some data by the smallest opcode for it.                    *)
PushOf(s) ==
  LET n == Size(s)
  IN CASE n = 0 \/ (n = 1 /\ s[1][1] = 0) -> Byte(Op0)
       [] n = 1 /\ s[1][1] \in 1..16 -> Byte(Op1 - 1 + s[1][1])
       [] n = 1 /\ s[1][1] = 129 -> Byte(Op1Negate)
       [] n = 1 /\ s[1][1] \in 17..255 \ {129} -> Byte(1) \o s
       [] n \in 2..75 -> Byte(n) \o s
       [] n \in 76..255 -> Byte(OpPushData1) \o Byte(n) \o s
       [] n \in 256..65535 -> Byte(OpPushData2) \o Byte(n % 256) \o Byte(n \div 256) \o s
       [] OTHER -> Byte(OpPushData4) \o Byte(n % 256) \o Byte((n \div 256) % 256)
                     \o Byte((n \div 65536) % 256) \o Byte(n \div 16777216) \o s

AddData(b, s) ==
  IF b.err \/ ~Room(b, canonicalDataSize(s)) \/ Size(s) > MaxScriptElementSize
  THEN [b EXCEPT !.err = TRUE]
  ELSE Extend(b, PushOf(s))

AddInt64(b, n) ==
  CASE b.err \/ ~Room(b, 1) -> [b EXCEPT !.err = TRUE]
    [] n = 0 -> Extend(b, Byte(Op0))
    [] n = -1 \/ n \in 1..16 -> Extend(b, Byte(Op1 - 1 + n))
    [] OTHER -> AddData(b, ScriptNumBytes(n))

(* The standard scripts, and the address in one.                           *)
payToPubKeyScript(key) == AddOp(AddData(NewScriptBuilder, key), Opcode("CheckSig")).script
payToPubKeyScriptECDSA(key) == AddOp(AddData(NewScriptBuilder, key), Opcode("CheckSigECDSA")).script
payToScriptHashScript(hash) ==
  AddOp(AddData(AddOp(NewScriptBuilder, Opcode("Blake2b")), hash), Opcode("Equal")).script
PayToScriptHashScript(redeem) == payToScriptHashScript(Blake2b(redeem))
PayToScriptHashSignatureScript(redeem, signature) == signature \o AddData(NewScriptBuilder, redeem).script

PayToAddrScript(addr) ==
  CASE addr.type = "PublicKey" -> payToPubKeyScript(addr.payload)
    [] addr.type = "PublicKeyECDSA" -> payToPubKeyScriptECDSA(addr.payload)
    [] addr.type = "ScriptHash" -> payToScriptHashScript(addr.payload)

NoAddress == [type |-> "None", payload |-> <<>>]
ExtractScriptPubKeyAddress(version, script) ==
  LET parsed == parseScript(script)
      class == IF parsed.err THEN "NonStandardTy" ELSE typeOfScript(parsed.pops)
  IN CASE version > MaxScriptPublicKeyVersion \/ class = "NonStandardTy" -> NoAddress
       [] version <= MaxScriptPublicKeyVersion /\ class = "PubKeyTy" ->
            [type |-> "PublicKey", payload |-> parsed.pops[1].data]
       [] version <= MaxScriptPublicKeyVersion /\ class = "PubKeyECDSATy" ->
            [type |-> "PublicKeyECDSA", payload |-> parsed.pops[1].data]
       [] version <= MaxScriptPublicKeyVersion /\ class = "ScriptHashTy" ->
            [type |-> "ScriptHash", payload |-> parsed.pops[2].data]
=============================================================================
