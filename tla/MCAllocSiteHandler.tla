------------------------- MODULE MCAllocSiteHandler -------------------------
(***************************************************************************)
(* Instances of AllocSiteHandler for TLC.  The .cfg files give the         *)
(* constants, which makes every variable range over a finite set.         *)
(***************************************************************************)
EXTENDS AllocSiteHandlerRefinement, TLC

ThreadSymmetry == Permutations(Threads)

\* Stops at the first realloc site that is fed from two provenances: flows only
\* grows, and OriginsMarked and BlameSound claim nothing about such a site.
Unmixed == \A id \in ReallocIds : Cardinality(flows[id]) <= 1

\* Goes on past that point with one object at a time, until a second realloc site
\* is fed from two.
FewMixed ==
  \/ Unmixed
  \/ /\ Cardinality(DOMAIN heap) <= 1
     /\ \A id, x \in ReallocIds : id # x => Cardinality(flows[id]) + Cardinality(flows[x]) <= 3
=============================================================================
