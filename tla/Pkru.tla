-------------------------------- MODULE Pkru --------------------------------
(***************************************************************************)
(* The PKRU register as the 32-bit word that pkey_get and pkey_set work on *)
(* (Runtime/provsan_utils.cpp): two bits for each of 16 protection keys,   *)
(* the lower one to disable access and the upper one to disable writes.    *)
(*                                                                         *)
(* Where the word lies in the saved context (pkru_ptr) is not modelled: a  *)
(* thread's saved word is a value here.                                    *)
(***************************************************************************)
EXTENDS Integers

\* 1 << (2 * key) for the keys 0 to 15.
Weights == <<1, 4, 16, 64, 256, 1024, 4096, 16384, 65536, 262144, 1048576, 4194304,
             16777216, 67108864, 268435456, 1073741824>>
Shifted(key) == Weights[key + 1]

AllKeys == 0 .. 15
Rights == 0 .. 3
PKEY_ENABLE_ACCESS == 0
PKEY_DISABLE_ACCESS == 1
AccessDisabled(r) == r % 2 = 1
WriteDisabled(r) == r >= 2

\* A natural number below 1 << 32.
IsWord(w) == w \in Nat /\ w \div Shifted(15) \in Rights

\* pkey_get without the mask: the bits of the keys above come along.
pkey_get_unmasked(pkru, key) == IF key \notin AllKeys THEN -1 ELSE pkru \div Shifted(key)

\* (*pkru >> (2 * key)) & 3
pkey_get(pkru, key) == IF key \notin AllKeys THEN -1 ELSE (pkru \div Shifted(key)) % 4

\* (*pkru & ~mask) | (rights << (2 * key)), with mask = 3 << (2 * key).  A key or
\* rights out of range leave the register alone; as rights is unsigned, that
\* includes the -1 that pkey_get returns for a bad key.
pkey_set(pkru, key, rights) ==
  IF key \notin AllKeys \/ rights \notin Rights THEN pkru
  ELSE pkru - pkey_get(pkru, key) * Shifted(key) + rights * Shifted(key)
=============================================================================
