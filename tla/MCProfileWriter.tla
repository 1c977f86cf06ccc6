--------------------------- MODULE MCProfileWriter --------------------------
(***************************************************************************)
(* Instances of ProfileWriter for TLC.                                     *)
(***************************************************************************)
EXTENDS ProfileWriter, TLC

Symmetry == Permutations(Runs) \cup Permutations(Pids) \cup Permutations(Randoms)

\* The process ids are interchangeable: the first run may as well have the first one.
MCInit == Init /\ pid[CHOOSE p \in Runs : TRUE] = CHOOSE d \in Pids : TRUE
MCFairSpec == MCInit /\ [][Next]_vars /\ \A p \in Runs : WF_vars(Flush(p))

\* A complete element next to one without its id and one without its names.
MCStrays ==
  {{[site |-> s, lacks |-> l] : l \in {{}, {"id"}, {"bbName", "funcName"}}} : s \in Sites \ Unescaped}
=============================================================================
