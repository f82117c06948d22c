------------------------------- MODULE Scripts -------------------------------
(***************************************************************************)
(* Scripts (script.cpp): the interpreter EvalScript and VerifyScript; the  *)
(* recognition of standard scripts, signing with a key store and combining *)
(* signatures made by several of them, as signrawtransaction does.         *)
(*                                                                         *)
(* A value on the stack is a number, a public key, a hash, a signature or  *)
(* a serialized script, tagged by its kind.  A signature is made by a key  *)
(* for a script; the transaction and the input it signs are fixed.         *)
(***************************************************************************)
EXTENDS Integers, FiniteSets, Sequences, SequencesExt

CONSTANTS MAX_OPS,      \* opcodes a script may have (201)
          MAX_STACK,    \* values on the two stacks (1000)
          MAX_NUM,      \* the largest number arithmetic takes (four bytes)
          SizeOf(_)     \* the bytes of a value

ASSUME ScriptsAssumption == {MAX_OPS, MAX_STACK, MAX_NUM} \subseteq Nat

Num(n) == <<"num", n>>
Pub(k) == <<"pub", k>>
Hash(v) == <<"hash", v>>
Code(script) == <<"code", script>>
Is(v, kind) == v[1] = kind

Op(name) == <<name>>
Push(v) == <<"PUSH", v>>
IsPush(op) == Len(op) = 2
IsPushOnly(script) == \A i \in DOMAIN script : IsPush(script[i])
PushAll(values) == [i \in DOMAIN values |-> Push(values[i])]

\* CastToBool, CastToBigNum (it throws on more than four bytes) and a Boolean's value.
CastToBool(v) == ~ Is(v, "num") \/ v[2] # 0
IsNumber(v) == Is(v, "num") /\ v[2] \in -MAX_NUM .. MAX_NUM
Bool(b) == Num(IF b THEN 1 ELSE 0)

Top(s, n) == s[Len(s) + 1 - n]
Drop(s, n) == SubSeq(s, 1, Len(s) - n)

(***************************************************************************)
(* Signatures.                                                             *)
(***************************************************************************)
\* SignatureHash leaves the code separators out of the script it covers.
SignatureHash(script) == SelectSeq(script, LAMBDA op : op # Op("CODESEPARATOR"))
Sign(k, script) == <<"sig", k, SignatureHash(script)>>

\* A signature cannot sign itself: FindAndDelete drops it from the script.
CheckSig(sig, pub, script) ==
  /\ Is(sig, "sig") /\ Is(pub, "pub")
  /\ sig[2] = pub[2]
  /\ sig[3] = SignatureHash(script)
FindAndDelete(script, sig) == SelectSeq(script, LAMBDA op : op # Push(sig))

(***************************************************************************)
(* The interpreter.  A machine holds the two stacks, vfExec, where the     *)
(* last code separator was, and the opcodes counted.                       *)
(***************************************************************************)
\* The opcodes that move values: how many they take, and what they leave, by its
\* place from the top.
Moves == [DROP   |-> [takes |-> 1, leaves |-> <<>>],
          DUP    |-> [takes |-> 1, leaves |-> <<1, 1>>],
          NIP    |-> [takes |-> 2, leaves |-> <<1>>],
          OVER   |-> [takes |-> 2, leaves |-> <<2, 1, 2>>],
          SWAP   |-> [takes |-> 2, leaves |-> <<1, 2>>],
          TUCK   |-> [takes |-> 2, leaves |-> <<1, 2, 1>>],
          ROT    |-> [takes |-> 3, leaves |-> <<2, 1, 3>>],
          DROP2  |-> [takes |-> 2, leaves |-> <<>>],
          DUP2   |-> [takes |-> 2, leaves |-> <<2, 1, 2, 1>>],
          DUP3   |-> [takes |-> 3, leaves |-> <<3, 2, 1, 3, 2, 1>>],
          OVER2  |-> [takes |-> 4, leaves |-> <<4, 3, 2, 1, 4, 3>>],
          SWAP2  |-> [takes |-> 4, leaves |-> <<2, 1, 4, 3>>],
          ROT2   |-> [takes |-> 6, leaves |-> <<4, 3, 2, 1, 6, 5>>]]

\* A machine that has failed stays as it is.
Fail(m) == [m EXCEPT !.ok = FALSE]
Has(m, n) == Len(m.stack) >= n
Replace(m, n, values) == [m EXCEPT !.stack = Drop(@, n) \o values]
NumbersOnTop(m, n) == Has(m, n) /\ \A i \in 1 .. n : IsNumber(Top(m.stack, i))

\* Fault: it looks for as many values as it leaves.
MoveForLeaves(m, move) ==
  IF Has(m, Len(move.leaves))
    THEN Replace(m, move.takes, [i \in DOMAIN move.leaves |-> Top(m.stack, move.leaves[i])])
    ELSE Fail(m)

Move(m, move) ==
  IF Has(m, move.takes)
    THEN Replace(m, move.takes, [i \in DOMAIN move.leaves |-> Top(m.stack, move.leaves[i])])
    ELSE Fail(m)

\* IFDUP, DEPTH, PICK and ROLL look at a value or at the stack first.
Look(m, name) ==
  CASE name = "DEPTH" -> Replace(m, 0, <<Num(Len(m.stack))>>)
    [] name = "IFDUP" /\ Has(m, 1) ->
         Replace(m, 0, IF CastToBool(Top(m.stack, 1)) THEN <<Top(m.stack, 1)>> ELSE <<>>)
    [] name \in {"PICK", "ROLL"} /\ Has(m, 2) /\ NumbersOnTop(m, 1) ->
         LET n == Top(m.stack, 1)[2]
             rest == Drop(m.stack, 1)
         IN  IF n \notin 0 .. Len(rest) - 1 THEN Fail(m)
             ELSE [m EXCEPT !.stack =
                     (IF name = "ROLL" THEN RemoveAt(rest, Len(rest) - n) ELSE rest)
                        \o <<Top(rest, n + 1)>>]
    [] OTHER -> Fail(m)

\* SIZE looks at a value's bytes.
Size(m) == IF Has(m, 1) THEN Replace(m, 0, <<Num(SizeOf(Top(m.stack, 1)))>>) ELSE Fail(m)

AltStack(m, name) ==
  CASE name = "TOALTSTACK" /\ Has(m, 1) ->
         [Replace(m, 1, <<>>) EXCEPT !.alt = Append(@, Top(m.stack, 1))]
    [] name = "FROMALTSTACK" /\ m.alt # <<>> ->
         [Replace(m, 0, <<Top(m.alt, 1)>>) EXCEPT !.alt = Drop(@, 1)]
    [] OTHER -> Fail(m)

\* Arithmetic on one, two and three numbers.
Arity == [ADD1 |-> 1, SUB1 |-> 1, NEGATE |-> 1, ABS |-> 1, NOT |-> 1, NOTEQUAL0 |-> 1,
          ADD |-> 2, SUB |-> 2, BOOLAND |-> 2, BOOLOR |-> 2, NUMEQUAL |-> 2,
          NUMNOTEQUAL |-> 2, LESSTHAN |-> 2, GREATERTHAN |-> 2, LESSTHANOREQUAL |-> 2,
          GREATERTHANOREQUAL |-> 2, MIN |-> 2, MAX |-> 2, WITHIN |-> 3]

Result(name, a, b, c) ==
  CASE name = "ADD1" -> Num(a + 1)            [] name = "SUB1" -> Num(a - 1)
    [] name = "NEGATE" -> Num(-a)             [] name = "ABS" -> Num(IF a < 0 THEN -a ELSE a)
    [] name = "NOT" -> Bool(a = 0)            [] name = "NOTEQUAL0" -> Bool(a # 0)
    [] name = "ADD" -> Num(a + b)             [] name = "SUB" -> Num(a - b)
    [] name = "BOOLAND" -> Bool(a # 0 /\ b # 0)
    [] name = "BOOLOR" -> Bool(a # 0 \/ b # 0)
    [] name = "NUMEQUAL" -> Bool(a = b)       [] name = "NUMNOTEQUAL" -> Bool(a # b)
    [] name = "LESSTHAN" -> Bool(a < b)       [] name = "GREATERTHAN" -> Bool(a > b)
    [] name = "LESSTHANOREQUAL" -> Bool(a <= b)
    [] name = "GREATERTHANOREQUAL" -> Bool(a >= b)
    [] name = "MIN" -> Num(IF a < b THEN a ELSE b)
    [] name = "MAX" -> Num(IF a > b THEN a ELSE b)
    [] name = "WITHIN" -> Bool(b <= a /\ a < c)

Calculate(m, name) ==
  LET n == Arity[name]
      Operand(i) == IF i <= n THEN Top(m.stack, n + 1 - i)[2] ELSE 0
  IN  IF NumbersOnTop(m, n)
        THEN Replace(m, n, <<Result(name, Operand(1), Operand(2), Operand(3))>>)
        ELSE Fail(m)

\* The script a signature covers starts after the last code separator.
Covered(m, script) == SubSeq(script, m.from, Len(script))

CheckSigOp(m, script) ==
  IF ~ Has(m, 2) THEN Fail(m)
  ELSE LET sig == Top(m.stack, 2)
           code == FindAndDelete(Covered(m, script), sig)
       IN  Replace(m, 2, <<Bool(CheckSig(sig, Top(m.stack, 1), code))>>)

\* Fault: a signature that does not fit is passed over with its key.
RECURSIVE MatchedInStep(_, _, _)
MatchedInStep(sigs, keys, code) ==
  sigs = <<>> \/ ( /\ CheckSig(Last(sigs), Last(keys), code)
                   /\ MatchedInStep(Front(sigs), Front(keys), code) )

\* The last signature is tried with the last key, and so on down; a key that does not fit
\* is passed over for good, and more signatures than keys left is a failure.
RECURSIVE Matched(_, _, _)
Matched(sigs, keys, code) ==
  \/ sigs = <<>>
  \/ /\ Len(sigs) <= Len(keys)
     /\ Matched(IF CheckSig(Last(sigs), Last(keys), code) THEN Front(sigs) ELSE sigs,
                Front(keys), code)

\* ([sig ...] num_of_signatures [pubkey ...] num_of_pubkeys -- bool): it pops one value
\* more than it was given; each key counts as an opcode.
CheckMultiSig(m, script) ==
  LET nKeys == Top(m.stack, 1)[2]
      below == Drop(m.stack, 1 + nKeys)
      keys == SubSeq(m.stack, Len(below) + 1, Len(m.stack) - 1)
      nSigs == Top(below, 1)[2]
      rest == Drop(below, 1 + nSigs)
      sigs == SubSeq(below, Len(rest) + 1, Len(below) - 1)
      code == FoldLeft(FindAndDelete, Covered(m, script), sigs)
  IN  IF \/ ~ NumbersOnTop(m, 1)
         \/ nKeys \notin 0 .. 20 \/ m.ops + nKeys > MAX_OPS \/ ~ Has(m, 2 + nKeys)
         \/ ~ IsNumber(Top(below, 1))
         \/ nSigs \notin 0 .. nKeys \/ Len(below) < 2 + nSigs
        THEN Fail(m)
        ELSE [m EXCEPT !.stack = Drop(rest, 1) \o <<Bool(Matched(sigs, keys, code))>>,
                       !.ops = @ + nKeys]

Verify(m) == IF Has(m, 1) /\ CastToBool(Top(m.stack, 1)) THEN Replace(m, 1, <<>>) ELSE Fail(m)

\* Fault: ELSE turns the enclosing branches too.
OtherwiseAll(m) == [m EXCEPT !.vfExec = [i \in DOMAIN @ |-> ~ @[i]]]
Otherwise(m) == [m EXCEPT !.vfExec[Len(m.vfExec)] = ~ @]

\* The opcodes from IF to ENDIF run in a branch that is not taken too; VERIF and VERNOTIF,
\* which are two of them, fail there.
Conditional(m, name, fExec) ==
  CASE name \in {"IF", "NOTIF"} ->
         IF ~ fExec THEN [m EXCEPT !.vfExec = Append(@, FALSE)]
         ELSE IF ~ Has(m, 1) THEN Fail(m)
         ELSE [Replace(m, 1, <<>>) EXCEPT
                 !.vfExec = Append(@, CastToBool(Top(m.stack, 1)) = (name = "IF"))]
    [] name = "ELSE" /\ m.vfExec # <<>> -> Otherwise(m)
    [] name = "ENDIF" /\ m.vfExec # <<>> -> [m EXCEPT !.vfExec = Drop(@, 1)]
    [] OTHER -> Fail(m)

Conditionals == {"IF", "NOTIF", "VERIF", "VERNOTIF", "ELSE", "ENDIF"}
Disabled == {"CAT", "SUBSTR", "LEFT", "RIGHT", "INVERT", "AND", "OR", "XOR", "2MUL", "2DIV",
             "MUL", "DIV", "MOD", "LSHIFT", "RSHIFT"}
Hashes == {"RIPEMD160", "SHA1", "SHA256", "HASH160", "HASH256"}
Verifying == [EQUALVERIFY |-> "EQUAL", NUMEQUALVERIFY |-> "NUMEQUAL",
              CHECKSIGVERIFY |-> "CHECKSIG", CHECKMULTISIGVERIFY |-> "CHECKMULTISIG"]

RECURSIVE Execute(_, _, _, _)
Execute(m, name, script, i) ==
  CASE name \in DOMAIN Moves -> Move(m, Moves[name])
    [] name \in {"DEPTH", "IFDUP", "PICK", "ROLL"} -> Look(m, name)
    [] name = "SIZE" -> Size(m)
    [] name \in {"TOALTSTACK", "FROMALTSTACK"} -> AltStack(m, name)
    [] name \in DOMAIN Arity -> Calculate(m, name)
    [] name = "EQUAL" /\ Has(m, 2) ->
         Replace(m, 2, <<Bool(Top(m.stack, 1) = Top(m.stack, 2))>>)
    [] name \in Hashes /\ Has(m, 1) -> Replace(m, 1, <<Hash(<<name, Top(m.stack, 1)>>)>>)
    [] name = "CHECKSIG" -> CheckSigOp(m, script)
    [] name = "CHECKMULTISIG" -> CheckMultiSig(m, script)
    [] name = "CODESEPARATOR" -> [m EXCEPT !.from = i + 1]
    [] name = "VERIFY" -> Verify(m)
    [] name = "NOP" -> m
    [] name \in DOMAIN Verifying ->
         LET done == Execute(m, Verifying[name], script, i) IN
           IF done.ok THEN Verify(done) ELSE done
    [] OTHER -> Fail(m)

\* One opcode: what is read counts (RESERVED, which is below OP_16, does not) and may be
\* disabled, in whatever branch.
Step(m, script, i) ==
  LET op == script[i]
      fExec == \A j \in DOMAIN m.vfExec : m.vfExec[j]
      counted == IF IsPush(op) \/ op = Op("RESERVED") THEN m ELSE [m EXCEPT !.ops = @ + 1]
      done == IF IsPush(op) THEN (IF fExec THEN Replace(m, 0, <<op[2]>>) ELSE m)
              ELSE IF op[1] \in Conditionals THEN Conditional(counted, op[1], fExec)
              ELSE IF fExec THEN Execute(counted, op[1], script, i)
              ELSE counted
  IN  IF ~ m.ok THEN m
      ELSE IF counted.ops > MAX_OPS \/ op[1] \in Disabled THEN Fail(m)
      ELSE [done EXCEPT !.ok = @ /\ Len(done.stack) + Len(done.alt) <= MAX_STACK]

EvalScript(stack, script) ==
  LET start == [stack |-> stack, alt |-> <<>>, vfExec |-> <<>>, from |-> 1, ops |-> 0, ok |-> TRUE]
      Run(m, i) == Step(m, script, i)
      end == FoldLeft(Run, start, [i \in DOMAIN script |-> i])
  IN  [stack |-> end.stack, ok |-> end.ok /\ end.vfExec = <<>>]

IsPayToScriptHash(script) ==
  /\ Len(script) = 3 /\ script[1] = Op("HASH160") /\ script[3] = Op("EQUAL")
  /\ IsPush(script[2]) /\ Is(script[2][2], "hash")

\* The redeem script that a serialized value holds; any other value is not one this
\* model's scripts can be read from.
Deserialize(v) == IF Is(v, "code") THEN v[2] ELSE <<Op("RETURN")>>

Accepts(result) == result.ok /\ result.stack # <<>> /\ CastToBool(Last(result.stack))

VerifyScript(scriptSig, scriptPubKey) ==
  LET pushed == EvalScript(<<>>, scriptSig) IN
  /\ pushed.ok
  /\ Accepts(EvalScript(pushed.stack, scriptPubKey))
  /\ IsPayToScriptHash(scriptPubKey) =>
       /\ IsPushOnly(scriptSig)
       /\ Accepts(EvalScript(Front(pushed.stack), Deserialize(Last(pushed.stack))))

(***************************************************************************)
(* Standard scripts.                                                       *)
(***************************************************************************)
PayToPubKey(k) == <<Push(Pub(k)), Op("CHECKSIG")>>
KeyHash(k) == Hash(<<"HASH160", Pub(k)>>)
SetDestination(k) == <<Op("DUP"), Op("HASH160"), Push(KeyHash(k)), Op("EQUALVERIFY"), Op("CHECKSIG")>>
PayToScript(script) == <<Op("HASH160"), Push(Hash(<<"HASH160", Code(script)>>)), Op("EQUAL")>>
SetMultisig(m, keys) ==
  <<Push(Num(m))>> \o [i \in DOMAIN keys |-> Push(Pub(keys[i]))]
                   \o <<Push(Num(Len(keys))), Op("CHECKMULTISIG")>>

PushesA(kind, op) == IsPush(op) /\ Is(op[2], kind)

\* Solver: the type of a script and what it holds, and whether it is one to solve.  A script
\* of the form of a multisig keeps its type and numbers when they make no sense.
Solver(script) ==
  LET n == Len(script)
      Number(i) == script[i][2][2]
  IN
  CASE IsPayToScriptHash(script) -> [type |-> "scripthash", solved |-> TRUE, hash |-> script[2][2]]
    [] n = 2 /\ PushesA("pub", script[1]) /\ script[2] = Op("CHECKSIG") ->
         [type |-> "pubkey", solved |-> TRUE, key |-> script[1][2][2]]
    [] /\ n = 5 /\ script[1] = Op("DUP") /\ script[2] = Op("HASH160") /\ PushesA("hash", script[3])
       /\ script[4] = Op("EQUALVERIFY") /\ script[5] = Op("CHECKSIG") ->
         [type |-> "pubkeyhash", solved |-> TRUE, hash |-> script[3][2]]
    [] /\ n >= 3 /\ script[n] = Op("CHECKMULTISIG")
       /\ \A i \in {1, n - 1} : PushesA("num", script[i]) /\ Number(i) \in 0 .. 16
       /\ \A i \in 2 .. n - 2 : PushesA("pub", script[i]) ->
         [type |-> "multisig", solved |-> Number(1) \in 1 .. n - 3 /\ Number(n - 1) = n - 3,
          required |-> Number(1), keys |-> [i \in 1 .. n - 3 |-> Number(i + 1)]]
    [] OTHER -> [type |-> "nonstandard", solved |-> FALSE]

(***************************************************************************)
(* Signing.  A key store has keys and redeem scripts.                      *)
(***************************************************************************)
KeyOf(hash) == hash[2][2][2]

\* SignN signs with the keys it has, in the script's order, until there are enough.
SignN(s, store, script) ==
  LET signers == SelectSeq(s.keys, LAMBDA k : k \in store.keys) IN
  [i \in 1 .. Min({s.required, Len(signers)}) |-> Push(Sign(signers[i], script))]

\* Solver for a key store: the signatures, and whether they are all that is needed.  It
\* leaves what it could make: all a multisig script's signatures it has, or nothing.
Solve(store, script) ==
  LET s == Solver(script)
      Signed(k, more) == IF k \in store.keys THEN [sigs |-> <<Push(Sign(k, script))>> \o more, ok |-> TRUE]
                                             ELSE [sigs |-> <<>>, ok |-> FALSE]
  IN CASE ~ s.solved -> [sigs |-> <<>>, ok |-> FALSE]
       [] s.type = "pubkey" -> Signed(s.key, <<>>)
       [] s.type = "pubkeyhash" -> Signed(KeyOf(s.hash), <<Push(Pub(KeyOf(s.hash)))>>)
       [] s.type = "multisig" -> LET sigs == SignN(s, store, script) IN
                                   [sigs |-> <<Push(Num(0))>> \o sigs, ok |-> Len(sigs) = s.required]
       [] s.type = "scripthash" /\ s.hash[2][2][2] \in store.scripts ->
            [sigs |-> s.hash[2][2][2], ok |-> FALSE]
       [] OTHER -> [sigs |-> <<>>, ok |-> FALSE]

\* SignSignature: what is left in scriptSig, and whether it succeeds.  A script hash's
\* redeem script is appended, signed completely or not, and tried at the end.
SignSignature(store, script) ==
  LET s == Solver(script)
      redeem == s.hash[2][2][2]
      solved == IF s.type # "scripthash" THEN Solve(store, script)
                ELSE IF redeem \notin store.scripts THEN [sigs |-> <<>>, ok |-> FALSE]
                ELSE LET sub == Solve(store, redeem) IN
                       [sub EXCEPT !.sigs = @ \o <<Push(Code(redeem))>>]
  IN  [scriptSig |-> solved.sigs, ok |-> solved.ok /\ VerifyScript(solved.sigs, script)]

RECURSIVE IsMine(_, _)
IsMine(store, script) ==
  LET s == Solver(script) IN
  CASE ~ s.solved -> FALSE
    [] s.type = "pubkey" -> s.key \in store.keys
    [] s.type = "pubkeyhash" -> KeyOf(s.hash) \in store.keys
    [] s.type = "scripthash" -> LET redeem == s.hash[2][2][2] IN
                                  redeem \in store.scripts /\ IsMine(store, redeem)
    [] s.type = "multisig" -> ToSet(s.keys) \subseteq store.keys

(***************************************************************************)
(* Combining the signatures of two copies of an input.                     *)
(***************************************************************************)
\* Fault: the first copy's signatures, filled up with the second's.
CombineInOrder(script, s, sigs1, sigs2) ==
  LET all == SelectSeq(sigs1 \o sigs2, LAMBDA v : v # Num(0)) IN
  <<Push(Num(0))>> \o PushAll(SubSeq(all, 1, Min({s.required, Len(all)})))

\* CombineMultisig: of all signatures those that fit a key, in the keys' order, as many as
\* are needed; 0 stands for those that are missing.
CombineMultisig(script, s, sigs1, sigs2) ==
  LET all == {v \in ToSet(sigs1) \union ToSet(sigs2) : v # Num(0)}
      have == SelectSeq(s.keys, LAMBDA k : \E v \in all : CheckSig(v, Pub(k), script))
      n == Min({s.required, Len(have)})
  IN  <<Push(Num(0))>> \o [i \in 1 .. n |-> Push(CHOOSE v \in all : CheckSig(v, Pub(have[i]), script))]
                       \o [i \in 1 .. s.required - n |-> Push(Num(0))]

\* It goes by the type alone: a multisig that Solver refuses is combined like any other.
RECURSIVE Combine(_, _, _)
Combine(script, sigs1, sigs2) ==
  LET s == Solver(script) IN
  CASE s.type = "nonstandard" -> PushAll(IF Len(sigs1) >= Len(sigs2) THEN sigs1 ELSE sigs2)
    [] s.type \in {"pubkey", "pubkeyhash"} ->
         PushAll(IF sigs1 = <<>> \/ sigs1[1] = Num(0) THEN sigs2 ELSE sigs1)
    [] s.type = "scripthash" ->
         IF sigs1 = <<>> \/ Last(sigs1) = Num(0) THEN PushAll(sigs2)
         ELSE IF sigs2 = <<>> \/ Last(sigs2) = Num(0) THEN PushAll(sigs1)
         ELSE Combine(Deserialize(Last(sigs1)), Front(sigs1), Front(sigs2))
                \o <<Push(Last(sigs1))>>
    [] s.type = "multisig" -> CombineMultisig(script, s, sigs1, sigs2)

CombineSignatures(script, scriptSig1, scriptSig2) ==
  Combine(script, EvalScript(<<>>, scriptSig1).stack, EvalScript(<<>>, scriptSig2).stack)
==============================================================================
