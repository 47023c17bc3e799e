------------------------------ MODULE MCScript ------------------------------
EXTENDS ScriptEngine

Zero8 == [i \in 1..8 |-> 0]
SpendOf(sig, script) ==
  [sig |-> sig, script |-> script, version |-> 0, msg |-> 1, lockTime |-> Zero8, sequence |-> Zero8,
   pushed |-> <<>>]

RECURSIVE Join(_)
Join(ss) == IF ss = <<>> THEN <<>> ELSE Head(ss) \o Join(Tail(ss))
Words(set, n) == UNION {[1..m -> set]: m \in 0..n}
Ops(names) == Join([i \in DOMAIN names |-> Byte(Opcode(names[i]))])
P(n) == AddInt64(NewScriptBuilder, n).script
PData(s) == AddData(NewScriptBuilder, s).script

Key(k) == <<SchnorrKey(k)>>
KeyE(k) == <<ECDSAKey(k)>>
Sig(k, m, t) == <<SchnorrSig(k, <<m, t>>)>> \o Byte(t)
SigE(k, m, t) == <<ECDSASig(k, <<m, t>>)>> \o Byte(t)

(* Every opcode by itself, on every stack of up to three of these, with a  *)
(* push of negative zero, one that is not minimal and one of two bytes.    *)
Atoms == {P(0), P(1), P(2), P(-1), P(300), Byte(1) \o Byte(128), Byte(1) \o Byte(5)}
AllOpcodes == {Byte(v): v \in 79..178}
OpcodeSpends ==
  {SpendOf(Join(w), op): w \in Words(Atoms, 2) \cup [1..3 -> {P(0), P(1), P(2)}], op \in AllOpcodes}

(* Runs of opcodes up to the limits of the engine and past them.           *)
LongSpends ==
  {SpendOf(P(1) \o P(2) \o P(3), Ops(w)):
     w \in [1..2 -> {"3Dup", "ToAltStack", "2Drop"}] \cup {[i \in 1..7 |-> "Nop"], <<"3Dup", "2Rot", "2Over", "2Swap">>,
            <<"ToAltStack", "ToAltStack", "FromAltStack", "Add", "Verify">>}}
    \cup {SpendOf(P(32767), Ops(w)): w \in {<<"1Add">>, <<"1Add", "1Sub">>, <<"Negate", "1Sub", "Abs">>}}
    \cup {[SpendOf(sig, script) EXCEPT !.version = 1]: sig \in {<<>>, P(0)}, script \in {<<>>, P(0)}}

(* Lock times and sequences around the threshold, the mask and the flag.   *)
Num8(low, fifth, high) == [i \in 1..8 |-> IF i = 1 THEN low ELSE IF i = 5 THEN fifth ELSE IF i = 8 THEN high ELSE 0]
AsString(n) == [i \in 1..8 |-> <<n[i]>>]
Times == {Num8(3, 0, 0), Num8(4, 0, 0), Num8(3, 117, 0), Num8(4, 117, 128), [i \in 1..8 |-> 255]}
LockSpends ==
  {[SpendOf(PData(AsString(n)), Byte(Opcode(op)) \o P(1)) EXCEPT !.lockTime = l, !.sequence = q]:
     n \in Times, l \in Times, q \in Times, op \in {"CheckLockTimeVerify", "CheckSequenceVerify"}}

(* What the builder builds, around the sizes where the opcode changes.     *)
Samples ==
  {<<>>} \cup {Byte(b): b \in {0, 1, 16, 17, 128, 129, 255}}
    \cup {[i \in 1..n |-> <<7>>]: n \in {2, 75, 76, 255, 256, 520}} \cup {Key(1), KeyE(1), Sig(1, 1, 1)}
BuiltSpends ==
  {[SpendOf(PData(s), PData(s) \o Byte(Opcode("Equal"))) EXCEPT !.pushed = <<IF s = Byte(0) THEN <<>> ELSE s>>]:
     s \in Samples}
    \cup {[SpendOf(P(n), P(n) \o Byte(Opcode("NumEqual"))) EXCEPT !.pushed = <<ScriptNumBytes(n)>>]:
            n \in {-32767, -256, -255, -129, -128, -127, -17, -16, -1, 0, 1, 15, 16, 17, 127, 128, 255, 256, 32767}}

(* Conditionals and their neighbours in every order.                       *)
CondSpends ==
  {SpendOf(sig, Ops(w) \o tail): sig \in {P(2), P(0) \o P(1), P(1) \o P(0)},
     w \in Words({"If", "NotIf", "Else", "EndIf", "Return"}, 4), tail \in {<<>>, P(1)}}

Sigs == {<<>>, Sig(1, 1, 1), Sig(2, 1, 1), Sig(1, 2, 1), Sig(2, 1, 2), Byte(7)}
P2SH(sigs, redeem) == SpendOf(PayToScriptHashSignatureScript(redeem, sigs), PayToScriptHashScript(redeem))

(* Multisig scripts of up to three keys, with every order of signatures.   *)
MultiSig(m, keys) ==
  P(m) \o Join([i \in DOMAIN keys |-> PData(Key(keys[i]))]) \o P(Len(keys)) \o Byte(Opcode("CheckMultiSig"))
MultiSpends ==
  {P2SH(Join([i \in DOMAIN sigs |-> PData(sigs[i])]), MultiSig(m, keys)):
     m \in 1..2, keys \in [1..2 -> {0, 1, 2}] \cup {<<1, 2, 1>>, <<2, 1, 2>>}, sigs \in Words(Sigs, 2)}

(* Signature checks under conditionals, in an output's script and in the   *)
(* script of a hash.                                                       *)
Pieces == {Byte(Opcode("CheckMultiSig")), Byte(Opcode("CheckSig")), Byte(Opcode("CheckSigVerify")),
           Byte(Opcode("If")), Byte(Opcode("EndIf")), P(1), P(2), PData(Key(1))}
SigOpSpends ==
  {SpendOf(sig, Join(w)): w \in Words(Pieces, 3),
     sig \in {PData(Sig(1, 1, 1)), PData(Sig(1, 1, 1)) \o P(1) \o PData(Key(1)),
              PData(Sig(1, 1, 1)) \o P(1) \o PData(Key(2)) \o PData(Key(1)) \o P(2)}}
    \cup {P2SH(sig, Join(w)): w \in Words(Pieces, 2),
            sig \in {<<>>, PData(Sig(1, 1, 1)) \o P(1) \o PData(Key(2)) \o PData(Key(1))}}

(* Two inputs of two transactions, their signatures good, of another       *)
(* transaction, of another key or of a hash type nobody uses, one after    *)
(* the other.                                                              *)
MCReruns ==
  {[SpendOf(PData(sig), payToPubKeyScript(Key(1))) EXCEPT !.msg = m]:
     m \in 1..2, sig \in {Sig(1, 1, 1), Sig(1, 2, 1), Sig(2, 1, 1), Sig(1, 1, 7), <<>>}}
    \cup {[SpendOf(PData(sig), payToPubKeyScriptECDSA(KeyE(1))) EXCEPT !.msg = m]:
            m \in 1..2, sig \in {SigE(0, 1, 1), SigE(1, 1, 1), SigE(2, 1, 1)}}
    \cup {[P2SH(PData(Sig(1, 1, 1)) \o PData(sig), MultiSig(2, <<1, 2>>)) EXCEPT !.msg = m]:
            m \in 1..2, sig \in {Sig(2, 1, 1), Sig(2, 1, 2), Sig(1, 1, 1)}}

MCSpends ==
  MCReruns \cup LongSpends \cup LockSpends \cup BuiltSpends \cup OpcodeSpends \cup CondSpends \cup MultiSpends \cup SigOpSpends
=============================================================================
