----------------------------- MODULE MCFaultPath ----------------------------
(***************************************************************************)
(* Instances of FaultPath for TLC.  Pages 1, 2 and 3 carry keys 1, 2 and 2 *)
(* and hold four objects, each from a site of its own: two on page 1, one  *)
(* across pages 2 and 3, and one on page 3.                                *)
(***************************************************************************)
EXTENDS FaultPath

MCPages == 1 .. 3
MCKeyOf == [g \in MCPages |-> IF g = 1 THEN 1 ELSE 2]
MCInstrs == [pages : SUBSET MCPages, write : BOOLEAN]

MCObjects == 1 .. 4
MCPagesOf == <<{1}, {1}, {2, 3}, {3}>>
MCSiteOf == <<"s1", "s2", "s3", "s4">>

\* A read on one key, and a write that touches objects of both keys.
MixedAccesses == {[objs |-> {2}, write |-> FALSE], [objs |-> {1, 3}, write |-> TRUE]}

\* One read for each key.
FewAccesses == {[objs |-> {x}, write |-> FALSE] : x \in {1, 3}}

\* Reads of one page, and a write that touches pages of both keys: faults in a row.
CrossingAccesses ==
  {[objs |-> {2}, write |-> FALSE], [objs |-> {4}, write |-> FALSE], [objs |-> {1, 3}, write |-> TRUE]}
=============================================================================
