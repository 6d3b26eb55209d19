------------------------------- MODULE Script -------------------------------
(***************************************************************************)
(* Classifying an output script and finding its addresses                  *)
(* (src/src/parser/script.rs), for every output of the formats             *)
(* FullBlock, CompactBlock and their transactions.                         *)
(*                                                                         *)
(* A script is the sequence of its instructions: opcodes, OP_N opcodes     *)
(* with their number, and pushes with the length of their data.  `direct`  *)
(* says that the opcode of a push is its length.  OP_0 is a push of no     *)
(* data.  A push that runs past the end, Bad, ends a script.  The tests    *)
(* is_p2pk ... is_op_return, Address and PublicKey are the library's       *)
(* (external).                                                             *)
(***************************************************************************)
EXTENDS Integers, Sequences, SequencesExt

CONSTANTS
  Scripts,     \* the scripts to evaluate
  Keys         \* the data that are public keys

VARIABLES script, pc, info

script_vars == <<script, pc, info>>

Op(name) == [op |-> name]
Num(k) == [op |-> "PUSHNUM", num |-> k]
Push(len, direct, data) == [op |-> "PUSH", len |-> len, direct |-> direct, data |-> data]
Bad == [op |-> "BAD"]

IsPush(t) == t.op = "PUSH"

\* A sequence of instructions: OP_N runs from -1 to 16, and only the last
\* instruction can be one that cannot be read.
IsScript(s) ==
  /\ s \in Seq(ToSet(s))
  /\ \A i \in DOMAIN s : s[i].op = "PUSHNUM" => s[i].num \in -1 .. 16
  /\ \A i \in DOMAIN s : s[i] = Bad => i = Len(s)

AllScripts == \A s \in Scripts : IsScript(s)

ASSUME ScriptAssumption == AllScripts

Direct(t, lengths) == IsPush(t) /\ t.direct /\ t.len \in lengths

-----------------------------------------------------------------------------
(* The library.                                                            *)

is_p2pk(s) == Len(s) = 2 /\ Direct(s[1], {33, 65}) /\ s[2] = Op("CHECKSIG")

is_p2pkh(s) ==
  /\ Len(s) = 5
  /\ s[1] = Op("DUP") /\ s[2] = Op("HASH160") /\ Direct(s[3], {20})
  /\ s[4] = Op("EQUALVERIFY") /\ s[5] = Op("CHECKSIG")

is_p2sh(s) ==
  Len(s) = 3 /\ s[1] = Op("HASH160") /\ Direct(s[2], {20}) /\ s[3] = Op("EQUAL")

IsVersion0(t) == Direct(t, {0})
IsVersion(t) == IsVersion0(t) \/ (t.op = "PUSHNUM" /\ t.num \in 1 .. 16)

is_witness_program(s) == Len(s) = 2 /\ IsVersion(s[1]) /\ Direct(s[2], 2 .. 40)
is_p2wpkh(s) == Len(s) = 2 /\ IsVersion0(s[1]) /\ Direct(s[2], {20})
is_p2wsh(s) == Len(s) = 2 /\ IsVersion0(s[1]) /\ Direct(s[2], {32})
is_op_return(s) == Len(s) > 0 /\ s[1] = Op("RETURN")

\* The instructions before one that cannot be read.
instructions(s) == IF Bad \in ToSet(s) THEN SubSeq(s, 1, Len(s) - 1) ELSE s

Address(kind, payload) == [kind |-> kind, payload |-> payload]
Hash160(data) == <<"hash160", data>>

\* Address::from_script(script, net).ok(), as no address or one.
from_script(s) ==
  CASE is_p2pkh(s) -> <<Address("p2pkh", s[3].data)>>
    [] is_p2sh(s) -> <<Address("p2sh", s[2].data)>>
    [] is_p2wpkh(s) \/ is_p2wsh(s) \/ (is_witness_program(s) /\ ~IsVersion0(s[1])) ->
         <<Address("witness", s[2].data)>>
    [] OTHER -> <<>>

-----------------------------------------------------------------------------
(* script.rs                                                               *)

\* The number of an OP_N; OP_PUSHBYTES_0 cannot be met, it is a push.
decode_from_op_n(t) == t.num

NoNumber == -2
get_num_keys(t) == IF t.op = "PUSHNUM" THEN decode_from_op_n(t) ELSE NoNumber

\* Mutant: what stands between the first and the last two is not looked at.
is_multisig_any_rest(s) ==
  LET n == Len(s)
  IN  /\ Bad \notin ToSet(s)
      /\ n >= 4
      /\ s[n] \in {Op("CHECKMULTISIG"), Op("CHECKMULTISIGVERIFY")}
      /\ get_num_keys(s[n - 1]) >= 1 /\ get_num_keys(s[n - 1]) + 3 = n
      /\ get_num_keys(s[1]) >= 1

is_multisig(s) ==
  LET n == Len(s)
  IN  /\ Bad \notin ToSet(s)
      /\ n >= 4
      /\ s[n] \in {Op("CHECKMULTISIG"), Op("CHECKMULTISIGVERIFY")}
      /\ get_num_keys(s[n - 1]) >= 1 /\ get_num_keys(s[n - 1]) + 3 = n
      /\ \A i \in 2 .. n - 2 : IsPush(s[i])
      /\ get_num_keys(s[1]) >= 1

\* The chunks that are read as public keys: num_keys of them from the second.
KeyChunks(s) == SubSeq(s, 2, 1 + decode_from_op_n(s[Len(s) - 1]))

\* Mutant: a chunk that is no key is left out, and the others count.
multisig_addresses_some(s) ==
  LET keys == SelectSeq(KeyChunks(s), LAMBDA t : t.data \in Keys)
  IN  [i \in DOMAIN keys |-> Address("p2pkh", Hash160(keys[i].data))]

\* One address per key, or none when one of them cannot be decoded.
multisig_addresses(s) ==
  LET keys == KeyChunks(s)
  IN  IF \A i \in DOMAIN keys : keys[i].data \in Keys
      THEN [i \in DOMAIN keys |-> Address("p2pkh", Hash160(keys[i].data))]
      ELSE <<>>

\* Where multisig_addresses asserts, subtracts from a length that is too
\* small, asks for a negative capacity or is "unreachable".
multisig_panics(s) ==
  LET ops == instructions(s)
  IN  \/ ~is_multisig(s)
      \/ Len(ops) < 2
      \/ ops[Len(ops) - 1].op # "PUSHNUM"
      \/ decode_from_op_n(ops[Len(ops) - 1]) < 0
      \/ \E t \in ToSet(KeyChunks(ops)) : ~IsPush(t)

\* The key is hashed as it is, and need not be one.
p2pk_to_address(s) == <<Address("p2pkh", Hash160(s[1].data))>>

\* Where p2pk_to_address asserts, or meets no push as its first instruction.
p2pk_panics(s) ==
  LET ops == instructions(s)
  IN  ~is_p2pk(s) \/ ops = <<>> \/ ~IsPush(ops[1])

\* Mutant: witness programs are looked for before two kinds of them.
pattern_witness_first(s) ==
  CASE is_p2pk(s) -> "Pay2PublicKey"
    [] is_p2pkh(s) -> "Pay2PublicKeyHash"
    [] is_p2sh(s) -> "Pay2ScriptHash"
    [] is_witness_program(s) -> "WitnessProgram"
    [] is_op_return(s) -> "OpReturn"
    [] is_multisig(s) -> "Pay2MultiSig"
    [] OTHER -> "NotRecognised"

\* The first test that holds.
pattern(s) ==
  IF is_p2pk(s) THEN "Pay2PublicKey"
  ELSE IF is_p2pkh(s) THEN "Pay2PublicKeyHash"
  ELSE IF is_p2sh(s) THEN "Pay2ScriptHash"
  ELSE IF is_p2wpkh(s) THEN "Pay2WitnessPublicKeyHash"
  ELSE IF is_p2wsh(s) THEN "Pay2WitnessScriptHash"
  ELSE IF is_witness_program(s) THEN "WitnessProgram"
  ELSE IF is_op_return(s) THEN "OpReturn"
  ELSE IF is_multisig(s) THEN "Pay2MultiSig"
  ELSE "NotRecognised"

ScriptInfo(addresses, type) == [addresses |-> addresses, pattern |-> type]

ScriptInit ==
  /\ script \in Scripts
  /\ pc = "start"
  /\ info = ScriptInfo(<<>>, "NotRecognised")

addresses ==
  CASE pattern(script) = "Pay2PublicKey" -> p2pk_to_address(script)
    [] pattern(script) = "Pay2MultiSig" -> multisig_addresses(script)
    [] OTHER -> from_script(script)

\* The two branches of evaluate_script that can panic.
panics(s) ==
  \/ pattern(s) = "Pay2PublicKey" /\ p2pk_panics(s)
  \/ pattern(s) = "Pay2MultiSig" /\ multisig_panics(s)

evaluate_script ==
  /\ pc = "start"
  /\ IF panics(script)
     THEN pc' = "panicked" /\ UNCHANGED info
     ELSE pc' = "done" /\ info' = ScriptInfo(addresses, pattern(script))
  /\ UNCHANGED script

stay_evaluated == pc \in {"done", "panicked"} /\ UNCHANGED script_vars

ScriptNext == evaluate_script \/ stay_evaluated

ScriptSpec == ScriptInit /\ [][ScriptNext]_script_vars

-----------------------------------------------------------------------------
\* The pattern p is one that the script can be taken for.
Holds(p, s) ==
  \/ p = "Pay2PublicKey" /\ is_p2pk(s)
  \/ p = "Pay2PublicKeyHash" /\ is_p2pkh(s)
  \/ p = "Pay2ScriptHash" /\ is_p2sh(s)
  \/ p = "Pay2WitnessPublicKeyHash" /\ is_p2wpkh(s)
  \/ p = "Pay2WitnessScriptHash" /\ is_p2wsh(s)
  \/ p = "WitnessProgram" /\ is_witness_program(s)
  \/ p = "OpReturn" /\ is_op_return(s)
  \/ p = "Pay2MultiSig" /\ is_multisig(s)

Patterns ==
  {"Pay2PublicKey", "Pay2PublicKeyHash", "Pay2ScriptHash", "Pay2WitnessPublicKeyHash",
   "Pay2WitnessScriptHash", "WitnessProgram", "OpReturn", "Pay2MultiSig"}

(***************************************************************************)
(* A panic here would end the iteration over every block that holds such   *)
(* an output.  Whatever evaluate_script takes a script for, the helper     *)
(* it calls finds the same: no script reaches an assertion                 *)
(* (src/src/parser/script.rs:150, 216) or an "unreachable" branch          *)
(* (script.rs:158, 170, 225).                                              *)
(***************************************************************************)
NoPanic == pc # "panicked"

(***************************************************************************)
(* The order of the tests in evaluate_script (script.rs:67) only decides   *)
(* between a witness program and its two special kinds: any other script   *)
(* is exactly one thing, and one that is something is recognised.          *)
(***************************************************************************)
MostSpecific ==
  pc = "done" =>
    LET names == {p \in Patterns : Holds(p, script)}
    IN  /\ info.pattern = "NotRecognised" <=> names = {}
        /\ names # {} => info.pattern \in names
        /\ \A p \in names \ {info.pattern} :
             /\ p = "WitnessProgram"
             /\ info.pattern \in {"Pay2WitnessPublicKeyHash", "Pay2WitnessScriptHash"}

(***************************************************************************)
(* The addresses are those that can spend the output, in the order of the  *)
(* script: those of all the data that a multisig script pushes or, when    *)
(* one of them is no key, none; one for every pattern that pays to one, a  *)
(* witness program of version 0 having none of an unknown length; and none *)
(* for a pattern that pays to nobody (script.rs:149).                      *)
(***************************************************************************)
AddressesOfPattern ==
  pc = "done" =>
    LET a == info.addresses
        keys == 2 .. Len(script) - 2
    IN  CASE info.pattern = "Pay2MultiSig" ->
               /\ \A i \in DOMAIN script : IsPush(script[i]) <=> i \in keys
               /\ Len(a) = (IF \E i \in keys : script[i].data \notin Keys
                            THEN 0 ELSE Len(script) - 3)
               /\ \A i \in DOMAIN a : a[i] = Address("p2pkh", Hash160(script[i + 1].data))
          [] info.pattern \in {"OpReturn", "NotRecognised"} -> a = <<>>
          [] info.pattern = "WitnessProgram" -> Len(a) = 0 <=> IsVersion0(script[1])
          [] OTHER -> Len(a) = 1
=============================================================================
