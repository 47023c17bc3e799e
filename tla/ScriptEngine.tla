---------------------------- MODULE ScriptEngine ----------------------------
(* The script engine (txscript/engine.go, stack.go, opcode.go): a          *)
(* signature script, then the script of the output it spends, then for     *)
(* pay-to-script-hash the script that the signature script ended with, run *)
(* one opcode a step on a stack of byte strings; and the signature caches  *)
(* that outlive an engine (sigcache.go, sigcache_ecdsa.go).                *)
(*                                                                         *)
(* The engine is the record vm.  A stack grows to the right.  Two fields   *)
(* are history that the code does not keep: sigChecks counts the           *)
(* signatures verified or looked up in a cache, vouched holds those that   *)
(* were found valid.                                                       *)
EXTENDS Script

CONSTANTS
  Spends,         \* what may be run: records [script, version, sig, msg, lockTime, sequence]
  Reruns,         \* those of them that are run after one another, with the same caches
  MaxRuns,        \* how many at most
  MaxStackSize, MaxOpsPerScript,
  maxEntries      \* of a signature cache

VARIABLES vm, spend, runs
engineVars == <<vm, spend, runs>>

Depth(s) == Len(s)
Drop(s, n) == SubSeq(s, 1, Len(s) - n)
Peek(s, i) == s[Len(s) - i]
fromBool(b) == IF b THEN Byte(1) ELSE <<>>

(* Zero of any length is false, and so is negative zero.                   *)
asBool(s) ==
  \E i \in DOMAIN s: s[i] # <<0>> /\ (i = Len(s) => s[i] # <<128>>)

Fail(v, e) == [v EXCEPT !.err = e]
Push(v, s) == [v EXCEPT !.dstack = Append(@, s)]
Need(v, n, next) == IF Depth(v.dstack) < n THEN Fail(v, "ErrInvalidStackOperation") ELSE next

(* The stack's own operations.  nipN takes the idx-th element from the top *)
(* out of the stack.                                                       *)
nipN(s, idx) == SubSeq(s, 1, Len(s) - idx - 1) \o SubSeq(s, Len(s) - idx + 1, Len(s))
NipN(v, idx) ==
  IF idx \notin 0 .. Depth(v.dstack) - 1 THEN Fail(v, "ErrInvalidStackOperation")
  ELSE [v EXCEPT !.dstack = nipN(@, idx)]
DropN(v, n) == Need(v, n, [v EXCEPT !.dstack = Drop(@, n)])
DupN(v, n) == Need(v, n, [v EXCEPT !.dstack = @ \o SubSeq(@, Len(@) - n + 1, Len(@))])
RotN(v, n) ==
  Need(v, 3 * n, [v EXCEPT !.dstack = Drop(@, 3 * n) \o SubSeq(@, Len(@) - 2 * n + 1, Len(@))
                                        \o SubSeq(@, Len(@) - 3 * n + 1, Len(@) - 2 * n)])
SwapN(v, n) ==
  Need(v, 2 * n, [v EXCEPT !.dstack = Drop(@, 2 * n) \o SubSeq(@, Len(@) - n + 1, Len(@))
                                        \o SubSeq(@, Len(@) - 2 * n + 1, Len(@) - n)])
OverN(v, n) ==
  Need(v, 2 * n, [v EXCEPT !.dstack = @ \o SubSeq(@, Len(@) - 2 * n + 1, Len(@) - n)])
Tuck(v) ==
  Need(v, 2, [v EXCEPT !.dstack = Drop(@, 2) \o <<Peek(@, 0), Peek(@, 1), Peek(@, 0)>>])
PickN(v, n) ==
  IF n \notin 0 .. Depth(v.dstack) - 1 THEN Fail(v, "ErrInvalidStackOperation")
  ELSE Push(v, Peek(v.dstack, n))
RollN(v, n) ==
  IF n \notin 0 .. Depth(v.dstack) - 1 THEN Fail(v, "ErrInvalidStackOperation")
  ELSE [v EXCEPT !.dstack = Append(nipN(@, n), Peek(@, n))]

(* The error that popping n numbers off the stack ends with, if any: that  *)
(* of the topmost that cannot be popped.                                   *)
PopIntError(v, n) ==
  LET error(i) ==
        IF i >= Depth(v.dstack) THEN "ErrInvalidStackOperation" ELSE ScriptNumError(Peek(v.dstack, i))
      bad == {i \in 0 .. n - 1: error(i) # ""}
  IN IF bad = {} THEN "" ELSE error(CHOOSE i \in bad: \A j \in bad: i <= j)
Num(v, i) == makeScriptNum(Peek(v.dstack, i))

(* An opcode that pops n numbers and pushes the number made of them.       *)
PushIntOf(v, n, result) ==
  IF PopIntError(v, n) # "" THEN Fail(v, PopIntError(v, n))
  ELSE [v EXCEPT !.dstack = Append(Drop(@, n), ScriptNumBytes(result))]
Truth(b) == IF b THEN 1 ELSE 0

opcodeDisabled(v) == Fail(v, "ErrDisabledOpcode")
opcodeReserved(v) == Fail(v, "ErrReservedOpcode")
opcodeInvalid(v) == Fail(v, "ErrReservedOpcode")
opcodeFalse(v) == Push(v, <<>>)
opcodePushData(pop, v) == Push(v, pop.data)
opcode1Negate(v) == Push(v, ScriptNumBytes(-1))
opcodeN(pop, v) == Push(v, ScriptNumBytes(pop.value - (Op1 - 1)))
opcodeNop(v) == v

(* Conditionals.  An If inside a branch that is not executed is skipped    *)
(* with everything up to its EndIf, its Else included.                     *)
isBranchExecuting(v) == v.condStack = <<>> \/ v.condStack[Len(v.condStack)] = "True"
PushCond(v, cond) == [v EXCEPT !.condStack = Append(@, cond)]

popIfBool(v, ifTrue, ifFalse) ==
  Need(v, 1,
    LET top == Peek(v.dstack, 0)
        rest == [v EXCEPT !.dstack = Drop(@, 1)]
    IN CASE top = Byte(1) -> PushCond(rest, ifTrue)
         [] top = <<>> -> PushCond(rest, ifFalse)
         [] OTHER -> Fail(v, "ErrMinimalIf"))
opcodeIf(v) == IF isBranchExecuting(v) THEN popIfBool(v, "True", "False") ELSE PushCond(v, "Skip")
opcodeNotIf(v) == IF isBranchExecuting(v) THEN popIfBool(v, "False", "True") ELSE PushCond(v, "Skip")

opcodeElse(v) ==
  LET n == Len(v.condStack)
      other == [True |-> "False", False |-> "True", Skip |-> "Skip"]
  IN IF n = 0 THEN Fail(v, "ErrUnbalancedConditional")
     ELSE [v EXCEPT !.condStack[n] = other[@]]
opcodeEndif(v) ==
  IF v.condStack = <<>> THEN Fail(v, "ErrUnbalancedConditional")
  ELSE [v EXCEPT !.condStack = Drop(@, 1)]

(* Pops the top of the stack and fails unless it is true; a failure before *)
(* stays the one that it was.                                              *)
abstractVerify(v, e) ==
  IF v.err # "" THEN v
  ELSE Need(v, 1, IF asBool(Peek(v.dstack, 0)) THEN [v EXCEPT !.dstack = Drop(@, 1)] ELSE Fail(v, e))
opcodeVerify(v) == abstractVerify(v, "ErrVerify")
opcodeReturn(v) == Fail(v, "ErrEarlyReturn")

(* Lock times and sequences: eight bytes, little endian.                   *)
Pad8(s) == [i \in 1..8 |-> IF i <= Len(s) THEN s[i][1] ELSE 0]
Before(a, b) == \E i \in 1..8: a[i] < b[i] /\ \A j \in i + 1 .. 8: a[j] = b[j]
LockTimeThreshold == <<0, 136, 82, 106, 116, 0, 0, 0>>
MaxTxInSequenceNum == [i \in 1..8 |-> 255]
SequenceLockTimeDisabled(n) == n[8] >= 128
SequenceLockTimeMask(n) == [i \in 1..8 |-> IF i <= 4 THEN n[i] ELSE 0]

verifyLockTime(v, txLockTime, lockTime) ==
  IF Before(txLockTime, lockTime) THEN Fail(v, "ErrUnsatisfiedLockTime")
  ELSE [v EXCEPT !.dstack = Drop(@, 1)]

opcodeCheckLockTimeVerify(v) ==
  Need(v, 1,
    LET top == Peek(v.dstack, 0)
        lockTime == Pad8(top)
    IN CASE Size(top) > 8 -> Fail(v, "ErrNumberTooBig")
         [] Size(top) <= 8 /\ Before(v.tx.lockTime, LockTimeThreshold) # Before(lockTime, LockTimeThreshold) ->
              Fail(v, "ErrUnsatisfiedLockTime")
         [] OTHER ->
              IF v.tx.sequence = MaxTxInSequenceNum THEN Fail(v, "ErrUnsatisfiedLockTime")
              ELSE verifyLockTime(v, v.tx.lockTime, lockTime))

opcodeCheckSequenceVerify(v) ==
  Need(v, 1,
    LET top == Peek(v.dstack, 0)
        sequence == Pad8(top)
    IN CASE Size(top) > 8 -> Fail(v, "ErrNumberTooBig")
         [] Size(top) <= 8 /\ SequenceLockTimeDisabled(sequence) -> [v EXCEPT !.dstack = Drop(@, 1)]
         [] OTHER ->
              IF SequenceLockTimeDisabled(v.tx.sequence) THEN Fail(v, "ErrUnsatisfiedLockTime")
              ELSE verifyLockTime(v, SequenceLockTimeMask(v.tx.sequence), SequenceLockTimeMask(sequence)))

opcodeToAltStack(v) ==
  Need(v, 1, [v EXCEPT !.dstack = Drop(@, 1), !.astack = Append(@, Peek(v.dstack, 0))])
opcodeFromAltStack(v) ==
  IF v.astack = <<>> THEN Fail(v, "ErrInvalidStackOperation")
  ELSE Push([v EXCEPT !.astack = Drop(@, 1)], Peek(v.astack, 0))
opcode2Drop(v) == DropN(v, 2)
opcode2Dup(v) == DupN(v, 2)
opcode3Dup(v) == DupN(v, 3)
opcode2Over(v) == OverN(v, 2)
opcode2Rot(v) == RotN(v, 2)
opcode2Swap(v) == SwapN(v, 2)
opcodeIfDup(v) == Need(v, 1, IF asBool(Peek(v.dstack, 0)) THEN DupN(v, 1) ELSE v)
opcodeDepth(v) == Push(v, ScriptNumBytes(Depth(v.dstack)))
opcodeDrop(v) == DropN(v, 1)
opcodeDup(v) == DupN(v, 1)
opcodeNip(v) == NipN(v, 1)
opcodeOver(v) == OverN(v, 1)
opcodePick(v) ==
  IF PopIntError(v, 1) # "" THEN Fail(v, PopIntError(v, 1))
  ELSE PickN([v EXCEPT !.dstack = Drop(@, 1)], Num(v, 0))
opcodeRoll(v) ==
  IF PopIntError(v, 1) # "" THEN Fail(v, PopIntError(v, 1))
  ELSE RollN([v EXCEPT !.dstack = Drop(@, 1)], Num(v, 0))
opcodeRot(v) == RotN(v, 1)
opcodeSwap(v) == SwapN(v, 1)
opcodeTuck(v) == Tuck(v)
opcodeSize(v) == Need(v, 1, Push(v, ScriptNumBytes(Size(Peek(v.dstack, 0)))))

opcodeEqual(v) ==
  Need(v, 2, [v EXCEPT !.dstack = Append(Drop(@, 2), fromBool(Peek(@, 0) = Peek(@, 1)))])
opcodeEqualVerify(v) == abstractVerify(opcodeEqual(v), "ErrEqualVerify")

opcode1Add(v) == PushIntOf(v, 1, Num(v, 0) + 1)
opcode1Sub(v) == PushIntOf(v, 1, Num(v, 0) - 1)
opcodeNegate(v) == PushIntOf(v, 1, -Num(v, 0))
opcodeAbs(v) == PushIntOf(v, 1, IF Num(v, 0) < 0 THEN -Num(v, 0) ELSE Num(v, 0))
opcodeNot(v) == PushIntOf(v, 1, Truth(Num(v, 0) = 0))
opcode0NotEqual(v) == PushIntOf(v, 1, Truth(Num(v, 0) # 0))
opcodeAdd(v) == PushIntOf(v, 2, Num(v, 0) + Num(v, 1))
opcodeSub(v) == PushIntOf(v, 2, Num(v, 1) - Num(v, 0))
opcodeBoolAnd(v) == PushIntOf(v, 2, Truth(Num(v, 0) # 0 /\ Num(v, 1) # 0))
opcodeBoolOr(v) == PushIntOf(v, 2, Truth(Num(v, 0) # 0 \/ Num(v, 1) # 0))
opcodeNumEqual(v) == PushIntOf(v, 2, Truth(Num(v, 0) = Num(v, 1)))
opcodeNumEqualVerify(v) == abstractVerify(opcodeNumEqual(v), "ErrNumEqualVerify")
opcodeNumNotEqual(v) == PushIntOf(v, 2, Truth(Num(v, 0) # Num(v, 1)))
opcodeLessThan(v) == PushIntOf(v, 2, Truth(Num(v, 1) < Num(v, 0)))
opcodeGreaterThan(v) == PushIntOf(v, 2, Truth(Num(v, 1) > Num(v, 0)))
opcodeLessThanOrEqual(v) == PushIntOf(v, 2, Truth(Num(v, 1) <= Num(v, 0)))
opcodeGreaterThanOrEqual(v) == PushIntOf(v, 2, Truth(Num(v, 1) >= Num(v, 0)))
opcodeMin(v) == PushIntOf(v, 2, IF Num(v, 1) < Num(v, 0) THEN Num(v, 1) ELSE Num(v, 0))
opcodeMax(v) == PushIntOf(v, 2, IF Num(v, 1) > Num(v, 0) THEN Num(v, 1) ELSE Num(v, 0))
opcodeWithin(v) == PushIntOf(v, 3, Truth(Num(v, 2) >= Num(v, 1) /\ Num(v, 2) < Num(v, 0)))

opcodeSha256(v) == Need(v, 1, [v EXCEPT !.dstack = Append(Drop(@, 1), Sha256(Peek(@, 0)))])
opcodeBlake2b(v) == Need(v, 1, [v EXCEPT !.dstack = Append(Drop(@, 1), Blake2b(Peek(@, 0)))])

(* Signatures.  A scheme has the sizes the code checks, and the library    *)
(* behind it: which strings parse as a key or a signature, and which       *)
(* signature verifies.  Any 64 bytes parse as a Schnorr signature; key and *)
(* signer 0 stand for the strings that do not parse.                       *)
Schnorr == [name |-> "schnorr", key |-> 256, sig |-> 257, keySize |-> 32]
ECDSA == [name |-> "ecdsa", key |-> 258, sig |-> 259, keySize |-> 33]
ParsesKey(scheme, s) == Len(s) = 1 /\ s[1][1] = scheme.key /\ s[1][2] > 0
ParsesSig(scheme, s) ==
  Len(s) = 1 /\ s[1][1] = scheme.sig /\ (scheme.name = "ecdsa" => s[1][2] > 0)
Verifies(scheme, msg, sig, key) ==
  ParsesKey(scheme, key) /\ sig = <<<<scheme.sig, key[1][2]>> \o msg>>

(* The caches: for a signature hash the last signature and key that were   *)
(* found valid for it.  An addition to a full one first evicts any entry.  *)
SigCacheExistsAnySig(cache, msg, sig, key) == msg \in DOMAIN cache /\ cache[msg].key = key
SigCacheExists(cache, msg, sig, key) ==
  msg \in DOMAIN cache /\ cache[msg].key = key /\ cache[msg].sig = sig

SigCacheAdd(cache, msg, sig, key) ==
  LET kept == IF Cardinality(DOMAIN cache) + 1 > maxEntries
              THEN {DOMAIN cache \ {m}: m \in DOMAIN cache} ELSE {DOMAIN cache}
  IN IF maxEntries = 0 THEN {cache}
     ELSE {[m \in d \cup {msg} |-> IF m = msg THEN [sig |-> sig, key |-> key] ELSE cache[m]]: d \in kept}

(* One signature against one key: the engines that this may leave, each    *)
(* with the answer.                                                        *)
VerifyCached(v, scheme, msg, sig, key) ==
  LET w == [v EXCEPT !.sigChecks = @ + 1]
      found == [w EXCEPT !.vouched = @ \cup {<<scheme.name, msg, sig, key>>}]
  IN CASE SigCacheExists(v.caches[scheme.name], msg, sig, key) -> {<<found, TRUE>>}
       [] ~SigCacheExists(v.caches[scheme.name], msg, sig, key) /\ Verifies(scheme, msg, sig, key) ->
            {<<[found EXCEPT !.caches[scheme.name] = c], TRUE>>:
               c \in SigCacheAdd(v.caches[scheme.name], msg, sig, key)}
       [] OTHER -> {<<w, FALSE>>}

StandardSigHashTypes == {1, 2, 4, 129, 130, 132}
HashTypeOf(raw) == raw[Len(raw)][1]
SigError(raw) ==
  CASE HashTypeOf(raw) \notin StandardSigHashTypes -> "ErrInvalidSigHashType"
    [] HashTypeOf(raw) \in StandardSigHashTypes /\ Size(Drop(raw, 1)) # 64 -> "ErrSigLength"
    [] OTHER -> ""
Message(v, raw) == <<v.tx.msg, HashTypeOf(raw)>>

CheckSig(v, scheme) ==
  LET key == Peek(v.dstack, 0)
      raw == Peek(v.dstack, 1)
      sig == Drop(raw, 1)
      rest == [v EXCEPT !.dstack = Drop(@, 2)]
      error == IF SigError(raw) # "" THEN SigError(raw)
               ELSE IF Size(key) # scheme.keySize THEN "ErrPubKeyFormat" ELSE ""
  IN CASE Depth(v.dstack) < 2 -> {Fail(v, "ErrInvalidStackOperation")}
       [] Depth(v.dstack) >= 2 /\ raw = <<>> -> {Push(rest, fromBool(FALSE))}
       [] OTHER ->
            IF error # "" THEN {Fail(v, error)}
            ELSE IF ~ParsesKey(scheme, key) \/ ~ParsesSig(scheme, sig) THEN {Push(rest, fromBool(FALSE))}
            ELSE {IF r[2] THEN Push(r[1], fromBool(TRUE)) ELSE Fail(r[1], "ErrNullFail"):
                    r \in VerifyCached(rest, scheme, Message(v, raw), sig, key)}
opcodeCheckSig(v) == CheckSig(v, Schnorr)
opcodeCheckSigECDSA(v) == CheckSig(v, ECDSA)
opcodeCheckSigVerify(v) == {abstractVerify(w, "ErrCheckSigVerify"): w \in opcodeCheckSig(v)}

(* The loop of a multisig: the signatures in their order, each tried with  *)
(* the keys left until one fits.                                           *)
RECURSIVE MatchSigs(_, _, _, _)
MatchSigs(v, scheme, sigs, keys) ==
  IF sigs = <<>> THEN {<<v, TRUE>>}
  ELSE IF Len(sigs) > Len(keys) THEN {<<v, FALSE>>}
  ELSE LET raw == Head(sigs)
           sig == Drop(raw, 1)
       IN CASE raw = <<>> -> MatchSigs(v, scheme, sigs, Tail(keys))
            [] raw # <<>> /\ SigError(raw) # "" -> {<<Fail(v, SigError(raw)), FALSE>>}
            [] OTHER ->
                 IF ~ParsesSig(scheme, sig) THEN MatchSigs(v, scheme, sigs, Tail(keys))
                 ELSE IF Size(Head(keys)) # scheme.keySize THEN {<<Fail(v, "ErrPubKeyFormat"), FALSE>>}
                 ELSE IF ~ParsesKey(scheme, Head(keys)) THEN MatchSigs(v, scheme, sigs, Tail(keys))
                 ELSE UNION {MatchSigs(r[1], scheme, IF r[2] THEN Tail(sigs) ELSE sigs, Tail(keys)):
                               r \in VerifyCached(v, scheme, Message(v, raw), sig, Head(keys))}

(* The n elements of the stack from the i-th from the top on, downwards.   *)
Downwards(s, i, n) == [j \in 1..n |-> Peek(s, i + j - 1)]

CheckMultiSig(v, scheme) ==
  LET numKeys == Num(v, 0)
      counted == [v EXCEPT !.numOps = @ + numKeys]
      below == [counted EXCEPT !.dstack = Drop(@, numKeys + 1)]
      numSigs == Num(below, 0)
      keys == Downwards(v.dstack, 1, numKeys)
      sigs == Downwards(below.dstack, 1, numSigs)
      rest == [below EXCEPT !.dstack = Drop(@, numSigs + 1)]
  IN IF PopIntError(v, 1) # "" THEN {Fail(v, PopIntError(v, 1))}
     ELSE IF numKeys \notin 0..MaxPubKeysPerMultiSig THEN {Fail(v, "ErrInvalidPubKeyCount")}
     ELSE IF counted.numOps > MaxOpsPerScript THEN {Fail(v, "ErrTooManyOperations")}
     ELSE IF Depth(v.dstack) < 1 + numKeys THEN {Fail(v, "ErrInvalidStackOperation")}
     ELSE IF PopIntError(below, 1) # "" THEN {Fail(v, PopIntError(below, 1))}
     ELSE IF numSigs \notin 0..numKeys THEN {Fail(v, "ErrInvalidSignatureCount")}
     ELSE IF Depth(below.dstack) < 1 + numSigs THEN {Fail(v, "ErrInvalidStackOperation")}
     ELSE {CASE r[1].err # "" -> r[1]
             [] r[1].err = "" /\ ~r[2] /\ (\E i \in DOMAIN sigs: sigs[i] # <<>>) -> Fail(r[1], "ErrNullFail")
             [] OTHER -> Push(r[1], fromBool(r[2])):
             r \in MatchSigs(rest, scheme, sigs, keys)}
opcodeCheckMultiSig(v) == CheckMultiSig(v, Schnorr)
opcodeCheckMultiSigECDSA(v) == CheckMultiSig(v, ECDSA)
opcodeCheckMultiSigVerify(v) == {abstractVerify(w, "ErrCheckMultiSigVerify"): w \in opcodeCheckMultiSig(v)}

(* The function column of opcodeArray.                                     *)
DisabledOpcodes ==
  {"Cat", "SubStr", "Left", "Right", "Invert", "And", "Or", "Xor", "2Mul", "2Div", "Mul", "Div",
   "Mod", "LShift", "RShift"}
StackOpcode(name, v) ==
  CASE name = "Nop" -> opcodeNop(v)
    [] name = "If" -> opcodeIf(v)
    [] name = "NotIf" -> opcodeNotIf(v)
    [] name = "Else" -> opcodeElse(v)
    [] name = "EndIf" -> opcodeEndif(v)
    [] name = "Verify" -> opcodeVerify(v)
    [] name = "Return" -> opcodeReturn(v)
    [] name = "CheckLockTimeVerify" -> opcodeCheckLockTimeVerify(v)
    [] name = "CheckSequenceVerify" -> opcodeCheckSequenceVerify(v)
    [] name = "ToAltStack" -> opcodeToAltStack(v)
    [] name = "FromAltStack" -> opcodeFromAltStack(v)
    [] name = "2Drop" -> opcode2Drop(v)
    [] name = "2Dup" -> opcode2Dup(v)
    [] name = "3Dup" -> opcode3Dup(v)
    [] name = "2Over" -> opcode2Over(v)
    [] name = "2Rot" -> opcode2Rot(v)
    [] name = "2Swap" -> opcode2Swap(v)
    [] name = "IfDup" -> opcodeIfDup(v)
    [] name = "Depth" -> opcodeDepth(v)
    [] name = "Drop" -> opcodeDrop(v)
    [] name = "Dup" -> opcodeDup(v)
    [] name = "Nip" -> opcodeNip(v)
    [] name = "Over" -> opcodeOver(v)
    [] name = "Pick" -> opcodePick(v)
    [] name = "Roll" -> opcodeRoll(v)
    [] name = "Rot" -> opcodeRot(v)
    [] name = "Swap" -> opcodeSwap(v)
    [] name = "Tuck" -> opcodeTuck(v)
    [] name = "Size" -> opcodeSize(v)
    [] name = "Equal" -> opcodeEqual(v)
    [] name = "EqualVerify" -> opcodeEqualVerify(v)
    [] name \in DisabledOpcodes -> opcodeDisabled(v)
    [] name \in {"Ver", "VerIf", "VerNotIf", "Reserved1", "Reserved2"} -> opcodeReserved(v)
    [] OTHER -> opcodeInvalid(v)

NumericOpcodes ==
  {"1Add", "1Sub", "Negate", "Abs", "Not", "0NotEqual", "Add", "Sub", "BoolAnd", "BoolOr", "NumEqual",
   "NumEqualVerify", "NumNotEqual", "LessThan", "GreaterThan", "LessThanOrEqual", "GreaterThanOrEqual",
   "Min", "Max", "Within", "SHA256", "Blake2b"}
NumericOpcode(name, v) ==
  CASE name = "1Add" -> opcode1Add(v)
    [] name = "1Sub" -> opcode1Sub(v)
    [] name = "Negate" -> opcodeNegate(v)
    [] name = "Abs" -> opcodeAbs(v)
    [] name = "Not" -> opcodeNot(v)
    [] name = "0NotEqual" -> opcode0NotEqual(v)
    [] name = "Add" -> opcodeAdd(v)
    [] name = "Sub" -> opcodeSub(v)
    [] name = "BoolAnd" -> opcodeBoolAnd(v)
    [] name = "BoolOr" -> opcodeBoolOr(v)
    [] name = "NumEqual" -> opcodeNumEqual(v)
    [] name = "NumEqualVerify" -> opcodeNumEqualVerify(v)
    [] name = "NumNotEqual" -> opcodeNumNotEqual(v)
    [] name = "LessThan" -> opcodeLessThan(v)
    [] name = "GreaterThan" -> opcodeGreaterThan(v)
    [] name = "LessThanOrEqual" -> opcodeLessThanOrEqual(v)
    [] name = "GreaterThanOrEqual" -> opcodeGreaterThanOrEqual(v)
    [] name = "Min" -> opcodeMin(v)
    [] name = "Max" -> opcodeMax(v)
    [] name = "Within" -> opcodeWithin(v)
    [] name = "SHA256" -> opcodeSha256(v)
    [] name = "Blake2b" -> opcodeBlake2b(v)

opfunc(pop, v) ==
  LET name == NameOf(pop.value)
  IN CASE pop.value = Op0 -> {opcodeFalse(v)}
       [] pop.value \in 1..OpPushData4 -> {opcodePushData(pop, v)}
       [] pop.value = Op1Negate -> {opcode1Negate(v)}
       [] pop.value = OpReserved -> {opcodeReserved(v)}
       [] pop.value \in Op1..Op16 -> {opcodeN(pop, v)}
       [] name = "CheckSig" -> opcodeCheckSig(v)
       [] name = "CheckSigVerify" -> opcodeCheckSigVerify(v)
       [] name = "CheckSigECDSA" -> opcodeCheckSigECDSA(v)
       [] name = "CheckMultiSig" -> opcodeCheckMultiSig(v)
       [] name = "CheckMultiSigVerify" -> opcodeCheckMultiSigVerify(v)
       [] name = "CheckMultiSigECDSA" -> opcodeCheckMultiSigECDSA(v)
       [] name \in NumericOpcodes -> {NumericOpcode(name, v)}
       [] OTHER -> {StackOpcode(name, v)}

(* Whether a push uses the smallest opcode for its data.                   *)
checkMinimalDataPush(pop) ==
  LET n == Size(pop.data)
  IN CASE n = 0 -> pop.value = Op0
       [] n = 1 /\ pop.data[1][1] \in 1..16 -> pop.value = Op1 + pop.data[1][1] - 1
       [] n = 1 /\ pop.data[1][1] = 129 -> pop.value = Op1Negate
       [] n = 1 /\ pop.data[1][1] \in {0} \cup (17..255 \ {129}) -> pop.value = 1
       [] n \in 2..75 -> pop.value = n
       [] n \in 76..255 -> pop.value = OpPushData1
       [] n \in 256..65535 -> pop.value = OpPushData2
       [] OTHER -> TRUE

(* The engines that one opcode may leave.  Disabled opcodes fail even in a *)
(* branch that is not executed, and count against nothing else there.      *)
isConditional(name) == name \in {"If", "NotIf", "Else", "EndIf"}
executeOpcode(pop, v) ==
  LET name == NameOf(pop.value)
      counted == IF pop.value > Op16 THEN [v EXCEPT !.numOps = @ + 1] ELSE v
  IN CASE name \in DisabledOpcodes -> {Fail(v, "ErrDisabledOpcode")}
       [] name \in {"VerIf", "VerNotIf"} -> {Fail(v, "ErrReservedOpcode")}
       [] pop.value > Op16 /\ name \notin DisabledOpcodes \cup {"VerIf", "VerNotIf"}
            /\ counted.numOps > MaxOpsPerScript -> {Fail(v, "ErrTooManyOperations")}
       [] pop.value <= Op16 /\ Size(pop.data) > MaxScriptElementSize -> {Fail(v, "ErrElementTooBig")}
       [] OTHER ->
            IF ~isBranchExecuting(v) /\ ~isConditional(name) THEN {counted}
            ELSE IF isBranchExecuting(v) /\ pop.value \in 1..OpPushData4 /\ ~checkMinimalDataPush(pop)
                 THEN {Fail(v, "ErrMinimalData")}
            ELSE opfunc(pop, counted)

(* What must hold once the last script has run: a true element on top of   *)
(* the stack, and in the end nothing else.                                 *)
CheckErrorCondition(v, finalScript) ==
  CASE finalScript /\ Depth(v.dstack) > 1 -> "ErrCleanStack"
    [] finalScript /\ Depth(v.dstack) < 1 -> "ErrEmptyStack"
    [] ~finalScript /\ Depth(v.dstack) < 1 -> "ErrInvalidStackOperation"
    [] OTHER -> IF asBool(Peek(v.dstack, 0)) THEN "" ELSE "ErrEvalFalse"

Script(v, i) == v.scripts[i + 1]
NumScripts(v) == Len(v.scripts)

(* After the signature script of a pay-to-script-hash spend its stack is   *)
(* kept; after the output's script, which must have succeeded, the script  *)
(* on top of the kept stack is run on the rest of it.                      *)
NextScript(v) ==
  LET next == [v EXCEPT !.astack = <<>>, !.numOps = 0, !.scriptOff = 0, !.scriptIdx = @ + 1]
      redeem == parseScript(Peek(v.saved, 0))
  IN CASE v.isP2SH /\ v.scriptIdx = 0 -> [next EXCEPT !.saved = v.dstack]
       [] v.isP2SH /\ v.scriptIdx = 1 ->
            IF CheckErrorCondition(v, FALSE) # "" THEN Fail(next, CheckErrorCondition(v, FALSE))
            ELSE IF redeem.err THEN Fail(next, "ErrMalformedPush")
            ELSE [next EXCEPT !.scripts = Append(@, redeem.pops), !.dstack = Drop(v.saved, 1)]
       [] OTHER -> next

(* A script without opcodes is passed over; past the last script the spend *)
(* is decided.                                                             *)
PassEmpty(v) ==
  LET w == IF v.err = "" /\ v.scriptIdx < NumScripts(v) /\ Script(v, v.scriptIdx) = <<>>
           THEN [v EXCEPT !.scriptIdx = @ + 1] ELSE v
  IN IF w.err # "" \/ w.scriptIdx < NumScripts(w) THEN w
     ELSE [w EXCEPT !.phase = "done", !.err = CheckErrorCondition(w, TRUE)]

AfterOpcode(v) ==
  CASE v.err # "" -> v
    [] v.err = "" /\ Depth(v.dstack) + Depth(v.astack) > MaxStackSize -> Fail(v, "ErrStackOverflow")
    [] OTHER ->
         IF v.scriptOff < Len(Script(v, v.scriptIdx)) THEN v
         ELSE IF v.condStack # <<>> THEN Fail(v, "ErrUnbalancedConditional")
         ELSE PassEmpty(NextScript(v))

Ended(v) == IF v.err # "" THEN [v EXCEPT !.phase = "done"] ELSE v

(* A new engine for an input: refused when both scripts are empty, when    *)
(* one does not parse, or when the signature script does more than push.   *)
(* The output of an unknown version is anybody's.                          *)
EngineOf(sp, cs) ==
  LET sig == parseScript(sp.sig)
      pk == parseScript(sp.script)
      fresh == [scripts |-> <<>>, scriptIdx |-> 0, scriptOff |-> 0, dstack |-> <<>>, astack |-> <<>>,
                condStack |-> <<>>, numOps |-> 0, isP2SH |-> FALSE, saved |-> <<>>, caches |-> cs,
                tx |-> [msg |-> sp.msg, lockTime |-> sp.lockTime, sequence |-> sp.sequence],
                phase |-> "running", err |-> "", sigChecks |-> 0, vouched |-> {}]
  IN CASE sp.sig = <<>> /\ sp.script = <<>> -> Fail(fresh, "ErrEvalFalse")
       [] ~(sp.sig = <<>> /\ sp.script = <<>>) /\ sp.version > MaxScriptPublicKeyVersion ->
            [fresh EXCEPT !.phase = "done"]
       [] OTHER ->
            IF Size(sp.sig) > MaxScriptSize THEN Fail(fresh, "ErrScriptTooBig")
            ELSE IF sig.err THEN Fail(fresh, "ErrMalformedPush")
            ELSE IF ~isPushOnly(sig.pops) THEN Fail(fresh, "ErrNotPushOnly")
            ELSE IF Size(sp.script) > MaxScriptSize THEN Fail(fresh, "ErrScriptTooBig")
            ELSE IF pk.err THEN Fail(fresh, "ErrMalformedPush")
            ELSE [fresh EXCEPT !.scripts = <<sig.pops, pk.pops>>, !.isP2SH = isScriptHash(pk.pops),
                               !.scriptIdx = IF sp.sig = <<>> THEN 1 ELSE 0]

NoCaches == [schnorr |-> <<>>, ecdsa |-> <<>>]
InitEngineWith(S) ==
  /\ spend \in S
  /\ vm = Ended(EngineOf(spend, NoCaches))
  /\ runs = 1

InitEngine == InitEngineWith(Spends)

(* The next input, with the caches as the last one left them.              *)
NewEngine ==
  /\ vm.phase = "done" /\ runs < MaxRuns
  /\ spend \in Reruns /\ spend' \in Reruns
  /\ vm' = Ended(EngineOf(spend', vm.caches))
  /\ runs' = runs + 1

Step ==
  /\ vm.phase = "running"
  /\ LET pop == Script(vm, vm.scriptIdx)[vm.scriptOff + 1]
     IN \E v \in executeOpcode(pop, [vm EXCEPT !.scriptOff = @ + 1]): vm' = Ended(AfterOpcode(v))
  /\ UNCHANGED <<spend, runs>>

NextEngine == NewEngine \/ Step
SpecEngine == InitEngine /\ [][NextEngine]_engineVars

Succeeded == vm.phase = "done" /\ vm.err = "" /\ spend.version <= MaxScriptPublicKeyVersion

EngineTypeOK ==
  /\ vm.phase \in {"running", "done"}
  /\ vm.phase = "running" => vm.scriptIdx < NumScripts(vm) /\ vm.scriptOff < Len(Script(vm, vm.scriptIdx))
  /\ Depth(vm.dstack) + Depth(vm.astack) <= MaxStackSize \/ vm.err = "ErrStackOverflow"
  /\ vm.numOps <= MaxOpsPerScript + 1

(* The signatures that a spend really checks are never more than the count *)
(* taken without running it, for which the input's transaction pays mass   *)
(* (transactionvalidator compares the same count with the one that the     *)
(* input declares).                                                        *)
SigOpsCounted ==
  vm.sigChecks <= GetPreciseSigOpCount(spend.sig, spend.script, IsPayToScriptHash(spend.script))

(* Every If has its EndIf in the same script, and every Else stands        *)
(* between the two.                                                        *)
Opens(pops, i) == Cardinality({j \in 1..i: NameOf(pops[j].value) \in {"If", "NotIf"}})
Closes(pops, i) == Cardinality({j \in 1..i: NameOf(pops[j].value) = "EndIf"})
Balanced(pops) ==
  /\ Opens(pops, Len(pops)) = Closes(pops, Len(pops))
  /\ \A i \in DOMAIN pops:
       /\ Opens(pops, i) >= Closes(pops, i)
       /\ NameOf(pops[i].value) = "Else" => Opens(pops, i) > Closes(pops, i)

(* What the signature script of a pay-to-pubkey spend must be.             *)
SignedBy(sp, scheme, key) ==
  \E t \in StandardSigHashTypes:
    sp.sig = PushOf(<<<<scheme.sig, key[1][2]>> \o <<sp.msg, t>>>> \o Byte(t))

(* A spend that succeeds has earned it, whatever its scripts, its order of *)
(* runs and its caches: its conditionals are balanced, its output is not   *)
(* one the mempool takes for unspendable, every signature it was given     *)
(* credit for verifies, and an output in a standard form was spent with    *)
(* the one signature of its key or with the script of its hash.            *)
SuccessEarned ==
  Succeeded =>
    LET pk == parseScript(spend.script).pops
        class == GetScriptClass(spend.script)
    IN /\ \A i \in DOMAIN vm.scripts: Balanced(vm.scripts[i])
       /\ ~IsUnspendable(spend.script)
       /\ \A c \in vm.vouched: Verifies(IF c[1] = "schnorr" THEN Schnorr ELSE ECDSA, c[2], c[3], c[4])
       /\ class = "PubKeyTy" => SignedBy(spend, Schnorr, pk[1].data)
       /\ class = "PubKeyECDSATy" => SignedBy(spend, ECDSA, pk[1].data)
       /\ class = "ScriptHashTy" => NumScripts(vm) = 3 /\ Blake2b(Peek(vm.saved, 0)) = pk[2].data

(* The m-of-n multisig script as the wallet makes it, spent with m pushes. *)
IsMultiSig(pops) ==
  /\ Len(pops) >= 4 /\ NameOf(pops[Len(pops)].value) \in {"CheckMultiSig", "CheckMultiSigECDSA"}
  /\ pops[1].value \in Op1..Op16 /\ pops[Len(pops) - 1].value = Op1 - 1 + (Len(pops) - 3)
  /\ \A i \in 2 .. Len(pops) - 2: pops[i].value \in {32, 33}

Ordered(scheme, sigs, keys, msg) ==
  \E f \in [DOMAIN sigs -> DOMAIN keys]:
    /\ \A i, j \in DOMAIN sigs: i < j => f[i] < f[j]
    /\ \A i \in DOMAIN sigs:
         sigs[i] # <<>> /\ Verifies(scheme, <<msg, HashTypeOf(sigs[i])>>, Drop(sigs[i], 1), keys[f[i]])

(* A multisig output is spent exactly when its m signatures verify under   *)
(* m of its keys in the order of the keys: taking the first key that fits  *)
(* loses nothing.                                                          *)
MultiSigExact ==
  vm.phase = "done" /\ vm.isP2SH /\ NumScripts(vm) = 3 /\ IsMultiSig(vm.scripts[3]) =>
    LET pops == vm.scripts[3]
        n == Len(pops) - 3
        scheme == IF NameOf(pops[Len(pops)].value) = "CheckMultiSig" THEN Schnorr ELSE ECDSA
        sigs == Drop(vm.saved, 1)
        keys == [i \in 1..n |-> pops[i + 1].data]
    IN Succeeded <=> /\ Len(sigs) = asSmallInt(pops[1].value) /\ Len(sigs) <= n
                     /\ Ordered(scheme, sigs, keys, spend.msg)

(* The address shown for an output is the one that a payment to it pays.   *)
AddressPaysBack ==
  vm.phase = "done" =>
    LET addr == ExtractScriptPubKeyAddress(spend.version, spend.script)
    IN addr # NoAddress => PayToAddrScript(addr) = spend.script

(* What the script builder builds the engine runs as it was meant: the     *)
(* data and the numbers added come out on the stack (a single zero byte as *)
(* the empty string, which the builder writes for it), by pushes that pass *)
(* for minimal.                                                            *)
BuiltScriptsRun ==
  spend.pushed # <<>> =>
    /\ vm.phase = "done" => vm.err = ""
    /\ vm.scriptIdx = 1 /\ vm.scriptOff = 0 => vm.dstack = spend.pushed

(* The engine neither unlocks too much nor, for multisig, too little, and  *)
(* outputs in a standard form go to the address they are shown with; what   *)
(* the node's own builder writes runs as it was meant.                     *)
ScriptsSound == SuccessEarned /\ MultiSigExact /\ AddressPaysBack /\ BuiltScriptsRun
=============================================================================
