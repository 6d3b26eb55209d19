------------------------------ MODULE MCScript ------------------------------
(***************************************************************************)
(* Scripts for TLC: every sequence of up to three instructions, those of   *)
(* four with one of the endings that matter, and longer ones in the shape  *)
(* of a multisig script or of a payment to a key hash.                     *)
(***************************************************************************)
EXTENDS Script

CONSTANTS k1, k2, nokey, hash

MCKeys == {k1, k2}

Nums == {Num(-1), Num(1), Num(2), Num(3), Num(16)}
KeyPushes == {Push(33, TRUE, k1), Push(65, TRUE, k2), Push(33, FALSE, k2),
              Push(33, TRUE, nokey), Push(0, TRUE, nokey)}
HashPushes == {Push(20, TRUE, hash), Push(20, FALSE, hash), Push(32, TRUE, hash),
               Push(40, TRUE, hash), Push(41, TRUE, hash)}
Ends == {Op("CHECKSIG"), Op("CHECKMULTISIG"), Op("CHECKMULTISIGVERIFY"), Op("EQUAL")}
Others == {Op("DUP"), Op("HASH160"), Op("EQUALVERIFY"), Op("RETURN")}

Instructions == Nums \cup KeyPushes \cup HashPushes \cup Ends \cup Others

Short == UNION {[1 .. k -> Instructions] : k \in 0 .. 2}

\* Short scripts, some of them cut off within a push.
Ended == {Append(s, t) : s \in Short, t \in Ends \cup {Bad}}

Four ==
  {<<a, b, c, t>> : a \in Nums \cup {Op("DUP"), Push(0, TRUE, nokey)},
                    b \in KeyPushes \cup Nums, c \in Nums \cup KeyPushes,
                    t \in Ends \cup {Bad}}

Five ==
  {<<a, b, c, d, t>> : a \in {Num(1), Num(-1)}, b \in KeyPushes,
                       c \in KeyPushes \cup Others, d \in Nums,
                       t \in {Op("CHECKMULTISIG"), Op("CHECKMULTISIGVERIFY"), Bad}}

PubkeyHash ==
  {<<Op("DUP"), Op("HASH160"), h, Op("EQUALVERIFY"), t>> : h \in HashPushes, t \in Ends}

MCScripts == Short \cup Ended \cup Four \cup Five \cup PubkeyHash
=============================================================================
