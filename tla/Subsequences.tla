----------------------------- MODULE Subsequences ---------------------------
(***************************************************************************)
(* The elements of a sequence that lie in a set, in their order.           *)
(***************************************************************************)
EXTENDS Integers, Sequences, SequencesExt

\* SelectSeq, with a set in place of the test.
Keep(s, S) == FlattenSeq([j \in DOMAIN s |-> IF s[j] \in S THEN <<s[j]>> ELSE <<>>])
=============================================================================
