--------------------- MODULE AllocSiteHandlerRefinement ---------------------
(***************************************************************************)
(* AllocSiteHandler implements FaultProfile: for the program, the tracker, *)
(* its locks and its chains behave as if every fault marked the site of    *)
(* the object that was touched in one step.                                *)
(***************************************************************************)
EXTENDS AllocSiteHandler

HeldObjects ==
  [p \in {x \in DOMAIN heap : Settled(x)} |-> [site |-> heap[p].id, through |-> heap[p].prov]]

\* A fault on memory that is in nobody's hands, or that an outstanding erase may
\* disturb, carries no object.
NoFault == -1
TouchedBy(t) == IF pc[t] \in SegvPcs THEN arg[t].obj ELSE NoFault

OriginsOf(id) == IF id \in ReallocIds THEN UNION flows[id] ELSE {}

Profile == INSTANCE FaultProfile WITH
  Places  <- Addrs,
  Sites   <- Ids,
  Nothing <- NoFault,
  Unsure  <- Null,
  held    <- HeldObjects,
  touched <- [t \in Threads |-> TouchedBy(t)],
  origins <- [id \in Ids |-> OriginsOf(id)],
  marked  <- IdsOf(fault_set),
  blurred <- overtaken

\* Under every interleaving of hooks and handlers, a thread that faulted on an
\* object resumes only when the site of that object is in fault_set, and what
\* addFaultAlloc adds for it are sites the object's realloc chain leads back to,
\* also when a realloc site is fed from several origins.
ImplementsProfile == Profile!Spec
=============================================================================
