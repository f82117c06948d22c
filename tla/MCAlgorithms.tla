---------------------------- MODULE MCAlgorithms ----------------------------
(* Bounded inputs for the algorithms. *)
EXTENDS Algorithms

CONSTANTS Keys, ScriptLength, Parties, CoinCount, TrunkLength

MCConditions ==
  LET alphabet == {Push(Num(0)), Push(Num(1)), Op("IF"), Op("NOTIF"), Op("ELSE"), Op("ENDIF")}
      \* disabled, refused wherever it stands, refused where it is run
      others == {Op("CAT"), Op("VERIF"), Op("VER")}
      few == {Push(Num(1)), Op("IF"), Op("ELSE"), Op("ENDIF")}
  IN
  [kind : {"conditions"},
   script : BoundedSeq(alphabet, ScriptLength) \union BoundedSeq(few \union others, ScriptLength - 1),
   stack : {<<Num(0), Num(1)>>, [i \in 1 .. 4 |-> Num(i % 2)]}]

\* An opcode and its spelling with others; digits are pushes.
Spellings ==
  { << <<"TUCK">>, <<"SWAP", "OVER">> >>,      << <<"NIP">>, <<"SWAP", "DROP">> >>,
    << <<"SWAP">>, <<"1", "ROLL">> >>,         << <<"ROT">>, <<"2", "ROLL">> >>,
    << <<"DUP">>, <<"0", "PICK">> >>,          << <<"OVER">>, <<"1", "PICK">> >>,
    << <<"DROP2">>, <<"DROP", "DROP">> >>,     << <<"DUP2">>, <<"OVER", "OVER">> >>,
    << <<"DUP3">>, <<"2", "PICK", "2", "PICK", "2", "PICK">> >>,
    << <<"OVER2">>, <<"3", "PICK", "3", "PICK">> >>,
    << <<"SWAP2">>, <<"3", "ROLL", "3", "ROLL">> >>,
    << <<"ROT2">>, <<"5", "ROLL", "5", "ROLL">> >>,
    << <<"IFDUP">>, <<"DUP", "IF", "DUP", "ENDIF">> >>,
    << <<"DUP">>, <<"DUP", "TOALTSTACK", "FROMALTSTACK">> >>,
    << <<"SIZE">>, <<"DUP", "NOTEQUAL0">> >>,
    << <<"ADD1">>, <<"1", "ADD">> >>,          << <<"SUB1">>, <<"1", "SUB">> >>,
    << <<"SUB">>, <<"NEGATE", "ADD">> >>,      << <<"NEGATE">>, <<"0", "SWAP", "SUB">> >>,
    << <<"ABS">>, <<"DUP", "NEGATE", "MAX">> >>,
    << <<"NOT">>, <<"NOTEQUAL0", "0", "NUMEQUAL">> >>,
    << <<"BOOLAND">>, <<"NOT", "SWAP", "NOT", "BOOLOR", "NOT">> >>,
    << <<"NUMNOTEQUAL">>, <<"SUB", "NOTEQUAL0">> >>,
    << <<"GREATERTHAN">>, <<"SWAP", "LESSTHAN">> >>,
    << <<"LESSTHANOREQUAL">>, <<"GREATERTHAN", "NOT">> >>,
    << <<"GREATERTHANOREQUAL">>, <<"SWAP", "LESSTHANOREQUAL">> >>,
    << <<"MIN">>, <<"NEGATE", "SWAP", "NEGATE", "MAX", "NEGATE">> >>,
    << <<"NUMEQUALVERIFY">>, <<"NUMEQUAL", "VERIFY">> >>,
    << <<"EQUALVERIFY">>, <<"EQUAL", "NOT", "NOT", "VERIFY">> >> }
Digits == [d \in {"0", "1", "2", "3", "5"} |->
             CASE d = "0" -> 0 [] d = "1" -> 1 [] d = "2" -> 2 [] d = "3" -> 3 [] d = "5" -> 5]
Spelled(words) ==
  [i \in DOMAIN words |-> IF words[i] \in DOMAIN Digits THEN Push(Num(Digits[words[i]])) ELSE Op(words[i])]

MCEquivalents ==
  UNION {[kind : {"equivalents"}, script : {Spelled(pair[1])}, same : {Spelled(pair[2])},
          stack : BoundedSeq({Num(-1), Num(0), Num(2)}, 6)] : pair \in Spellings}

\* Zero is empty, the other numbers here are a byte, anything else is a key's size.
MCSizeOf(v) == IF ~ Is(v, "num") THEN 33 ELSE IF v = Num(0) THEN 0 ELSE 1

\* Signatures by the keys, one by a stranger, and keys that may come twice.
MCSignatures ==
  UNION {LET script == SetMultisig(m, keys) IN
         [kind : {"signatures"}, required : {m}, keys : {keys},
          sigs : BoundedSeq({Sign(k, script) : k \in Keys} \union {Sign("stranger", script)}, m + 1)] :
         <<m, keys>> \in {p \in (1 .. 2) \X BoundedSeq(Keys, 3) : Len(p[2]) >= p[1]}}

Plain(keys) ==
  {PayToPubKey(keys[1]), SetDestination(keys[1])} \union
  {SetMultisig(m, SubSeq(keys, 1, n)) : <<m, n>> \in {p \in (1 .. 3) \X (1 .. Len(keys)) : p[1] <= p[2]}}

\* Multisigs that ask for no signature, or for more than they have keys.
Malformed(keys) == {SetMultisig(0, keys), SetMultisig(Len(keys) + 1, keys)}

MCSignings ==
  UNION {LET stores == {[keys |-> have, scripts |-> known] :
                          have \in SUBSET Keys, known \in {{}, {redeem}}}
         IN  [kind : {"signings"}, script : {redeem, PayToScript(redeem)},
              parties : UNION {[1 .. n -> stores] : n \in 1 .. Parties}] :
         redeem \in LET keys == SetToSeq(Keys) IN Plain(keys) \union Malformed(keys)}

\* Coins that are deep or new, early or late, the wallet's own or not.
CoinKinds ==
  [value : {1, 2, 5, 8}, depth : {6}, mine : {TRUE}, time : {0}] \union
  {[value |-> 3, depth |-> 1, mine |-> FALSE, time |-> 0],
   [value |-> 7, depth |-> 0, mine |-> TRUE, time |-> 0],
   [value |-> 4, depth |-> 0, mine |-> FALSE, time |-> 0],
   [value |-> 6, depth |-> 6, mine |-> FALSE, time |-> 1]}

MCSpendings ==
  [kind : {"spendings"}, coins : UNION {[1 .. n -> CoinKinds] : n \in 0 .. CoinCount},
   nValue : {1, 4, 6}, nSpendTime : {0}, nTransactionFee : {0, 1, 3}]

\* Trunks and two branches on each, the stake at the end of the second; the branches parted
\* no longer ago than the age of a stake leaves room for.
MCSections == <<1, 1>>
Gap == 2
Margin == nStakeMinAge - SelectionInterval - nModifierInterval - 2 * Gap
Steps(n) == [1 .. n -> 1 .. Gap]
MCStakes ==
  [kind : {"stakes"}, trunk : {<<0, 1, 1, 1>> \o steps : steps \in Steps(TrunkLength)},
   left : UNION {Steps(n) : n \in 0 .. 2}, right : {<<>>, <<1>>, <<2>>},
   from : 1 .. TrunkLength, after : 1 .. Margin]
=============================================================================
