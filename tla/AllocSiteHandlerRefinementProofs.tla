------------------ MODULE AllocSiteHandlerRefinementProofs ------------------
(***************************************************************************)
(* AllocSiteHandler implements FaultProfile, for every set of threads,     *)
(* addresses, sizes, sites and protection keys.  A call that takes an      *)
(* object away is a Drop or a Move, the insertion that ends a hook is a    *)
(* Hold, the two halves of addFaultAlloc are a Mark each; the other steps  *)
(* of the hooks, the lookups among them, are stuttering steps.             *)
(***************************************************************************)
EXTENDS AllocSiteHandlerRefinement, AllocSiteHandlerChainProofs

-----------------------------------------------------------------------------
(* What the chains lead back to.                                           *)

\* S contains the origins of its sites.
ClosedSet(S) == \A x \in S : OriginsOf(x) \subseteq S

\* The chain of a site stays within the sites that reallocation leads back to.
ChainsSound ==
  \A id \in DOMAIN FM, S \in SUBSET Ids : id \in S /\ ClosedSet(S) => FM[id] \subseteq S

LineageInv == overtaken \/ ChainsSound

\* Every step keeps the chains within the lineage of their sites.
LEMMA LineageStep ==
  TypeInv /\ MapInv /\ ChainInv /\ LineageInv /\ [Next]_vars => LineageInv'
<1> SUFFICES ASSUME TypeInv, MapInv, ChainInv, LineageInv, [Next]_vars, ~overtaken' PROVE ChainsSound'
  BY DEF LineageInv
<1>1. CASE UNCHANGED vars \/ Terminated
  BY <1>1 DEF Terminated, vars, tracker, history, LineageInv, ChainsSound, ClosedSet, OriginsOf
<1>2. ASSUME NEW t \in Threads, Program(t) \/ Runtime(t) PROVE ChainsSound'
  <2>1. TypeInv' /\ FlowsType' /\ Grown
    BY <1>2, TypeStep, GrowStep DEF ChainInv
  <2>2. InOrder /\ ChainsSound
    BY <2>1 DEF Grown, ChainInv, LineageInv
  <2> SUFFICES ASSUME NEW id \in DOMAIN FM', NEW S \in SUBSET Ids, id \in S, ClosedSet(S)' PROVE FM'[id] \subseteq S
    BY DEF ChainsSound
  <2>3. ClosedSet(S)
    BY <2>1 DEF ClosedSet, OriginsOf, Grown
  <2>4. CASE id \in DOMAIN FM
    BY <2>1, <2>2, <2>3, <2>4 DEF ChainsSound, Grown
  <2>5. CASE id \notin DOMAIN FM
    <3>1. updateReallocChain(t)
      <4>1. FM' # FM
        BY <2>5
      <4>2. ~Program(t)
        BY <4>1 DEF Program, CallAlloc, CallFree, CallRealloc, CallReallocNull, Access, tracker
      <4> QED
        BY <4>1, <4>2, <1>2 DEF Runtime, allocHook, deallocHook, reallocGet, reallocFresh, reallocLock,
                          reallocRemove, reallocInsert, faultLookup, faultInsert, faultLock, faultChain, faultReturn, Abort, tracker
    <3>2. FM' = emplace(FM, arg[t].id, chainThrough(arg[t].as)) /\ pc[t] = "re_extend"
      BY <3>1 DEF updateReallocChain
    <3>3. id = arg[t].id /\ FM'[id] = chainThrough(arg[t].as)
      BY <2>5, <3>2 DEF emplace
    <3>4. MadeFrom(t, arg[t].as.id)
      BY <2>2, <3>2 DEF InOrder, HookKnows
    <3>5. arg[t].as.id \in heap[arg[t].ptr].prov
      BY <3>4 DEF MadeFrom
    <3>6. id \in ReallocIds /\ heap[arg[t].ptr].prov \ {id} \in flows[id]
      BY <3>2, <3>3 DEF ChainInv, OnRecord, ReallocPcs, TypeInv, ArgsFit, CreatingPcs, Constructible
    <3>7. arg[t].as.id \in S
      BY <3>5, <3>6, <2>3 DEF ClosedSet, OriginsOf
    <3>8. arg[t].as.id \in DOMAIN FM => FM[arg[t].as.id] \subseteq S
      BY <2>2, <2>3, <3>7 DEF ChainsSound
    <3> QED
      BY <3>3, <3>7, <3>8 DEF chainThrough
  <2> QED
    BY <2>4, <2>5
<1> QED
  BY <1>1, <1>2 DEF Next

\* Until a hook is overtaken, FM blames no site that the realloc chains do not lead back to.
LEMMA LineageInvariant == Spec => []LineageInv
<1>1. Init => LineageInv
  BY DEF Init, LineageInv, ChainsSound, EmptyMap
<1>2. TypeInv /\ MapInv /\ ChainInv /\ LineageInv /\ [Next]_vars => LineageInv'
  BY LineageStep
<1> QED
  BY <1>1, <1>2, MapInvariant, ChainInvCorrect, PTL DEF Spec

-----------------------------------------------------------------------------
(* The objects the program holds.                                          *)

HeldSame == HeldObjects' = HeldObjects

HeldMore(p) ==
  /\ p \notin DOMAIN HeldObjects
  /\ HeldObjects' = [x \in DOMAIN HeldObjects \cup {p} |->
                       IF x = p THEN [site |-> heap[p].id, through |-> heap[p].prov] ELSE HeldObjects[x]]

HeldLess(o) ==
  /\ o \in DOMAIN HeldObjects
  /\ HeldObjects' = [x \in DOMAIN HeldObjects \ {o} |-> HeldObjects[x]]

\* What a step does to them follows from its effect.
HeldEffect(t) ==
  \/ /\ HeldSame
     /\ \A k \in Addrs : Creating(t, k) => Creating(t, k)'
     /\ \A k \in Addrs : PendingErase(t, k)' => PendingErase(t, k)
  \/ \E p \in Addrs : HeldMore(p) /\ p \in DOMAIN heap /\ Creating(t, p) /\ \A k \in Addrs : ~PendingErase(t, k)'
  \/ \E o \in Addrs : HeldLess(o) /\ ~InUse(o) /\ \A k \in Addrs : PendingErase(t, k)' <=> k = o

\* What a step does to the objects the program holds.
LEMMA HeldStep ==
  ASSUME TypeInv, TypeInv', MapInv, NEW t \in Threads, Others(t), Effect(t)
  PROVE  HeldEffect(t)
<1>0. DOMAIN heap \subseteq Addrs /\ DOMAIN heap' \subseteq Addrs /\ Null \notin Addrs
  BY AddrsAssumption DEF TypeInv, TypeOK
<1>1. ASSUME \A k \in Addrs : Settled(k)' <=> Settled(k), \A k \in Addrs : Settled(k) => heap'[k] = heap[k]
      PROVE  HeldSame
  <2>1. {x \in DOMAIN heap' : Settled(x)'} = {x \in DOMAIN heap : Settled(x)}
    BY <1>0, <1>1 DEF Settled
  <2>2. \A k \in {x \in DOMAIN heap : Settled(x)} : heap'[k] = heap[k]
    BY <1>0, <1>1
  <2>3. HeldObjects' = [p \in {x \in DOMAIN heap' : Settled(x)'} |-> [site |-> heap'[p].id, through |-> heap'[p].prov]]
    BY DEF HeldObjects
  <2> QED
    BY <2>1, <2>2, <2>3 DEF HeldSame, HeldObjects
<1>2. CASE QuietEffect
  <2>1. \A k \in Addrs : Settled(k)' <=> Settled(k)
    BY <1>2 DEF QuietEffect, CreatorsKept, Settled
  <2>2. HeldSame
    BY <1>1, <1>2, <2>1 DEF QuietEffect
  <2> QED
    BY <1>2, <2>2 DEF QuietEffect, CreatorsKept, HeldEffect
<1>3. ASSUME NEW x \in Addrs \cup {Null}, EraseEffect(t, x) PROVE HeldEffect(t)
  <2>1. \A k \in Addrs : Settled(k)' <=> Settled(k)
    BY <1>3 DEF EraseEffect, CreatorsKept, Settled
  <2>2. HeldSame
    BY <1>1, <1>3, <2>1 DEF EraseEffect
  <2> QED
    BY <1>3, <2>2 DEF EraseEffect, CreatorsKept, HeldEffect
<1>4. ASSUME NEW p \in Addrs, InsertEffect(t, p) PROVE HeldEffect(t)
  <2>1. p \in DOMAIN heap /\ ~Settled(p) /\ UNCHANGED heap
    BY <1>4 DEF MapInv, CreatorsOwn, InsertEffect, Settled
  <2>2. \A u \in Threads : ~Creating(u, p)'
    BY <1>4 DEF MapInv, CreatorsOwn, InsertEffect, Others
  <2>3. \A k \in Addrs \ {p} : Settled(k)' <=> Settled(k)
    <3>1. \A k \in Addrs \ {p} : ~Creating(t, k) /\ ~Creating(t, k)'
      BY <1>4 DEF InsertEffect, Creating
    <3> QED
      BY <2>1, <3>1 DEF Settled, Others
  <2>4. {x \in DOMAIN heap' : Settled(x)'} = {x \in DOMAIN heap : Settled(x)} \cup {p}
    BY <2>1, <2>2, <2>3, <1>0 DEF Settled
  <2>5. HeldObjects' = [x \in {y \in DOMAIN heap' : Settled(y)'} |-> [site |-> heap'[x].id, through |-> heap'[x].prov]]
    BY DEF HeldObjects
  <2>6. /\ DOMAIN HeldObjects = {x \in DOMAIN heap : Settled(x)}
        /\ \A x \in DOMAIN HeldObjects : HeldObjects[x] = [site |-> heap[x].id, through |-> heap[x].prov]
    BY DEF HeldObjects
  <2>7. HeldMore(p)
    BY <2>1, <2>4, <2>5, <2>6 DEF HeldMore
  <2> QED
    BY <1>4, <2>1, <2>7 DEF HeldEffect, InsertEffect
<1>5. ASSUME NEW o \in Addrs \cup {Null}, NEW p \in Addrs \cup {Null}, HeapEffect(t, o, p) PROVE HeldEffect(t)
  <2>1. p \notin DOMAIN heap \ {o}
    <3>1. \A n, m : p \in Footprint(p, n) \cap Footprint(p, m)
      BY DEF Footprint
    <3> QED
      BY <1>5, <3>1, <1>0 DEF HeapEffect
  <2>2. ~Settled(p)' /\ (o # p => ~Settled(o)')
    BY <1>0, <1>5 DEF Settled, HeapEffect
  <2>3. \A k \in Addrs \ {o, p} : (Settled(k)' <=> Settled(k)) /\ (Settled(k) => heap'[k] = heap[k])
    BY <1>0, <1>5 DEF Settled, HeapEffect, Others
  <2>4. p # o => ~Settled(p)
    BY <2>1 DEF Settled
  <2>5. CASE o = Null
    <3>1. HeldSame
      <4>1. ~Settled(Null) /\ ~Settled(Null)'
        BY <1>0 DEF Settled
      <4> QED
        BY <1>1, <2>2, <2>3, <2>4, <2>5, <4>1
    <3>2. \A k \in Addrs : ~PendingErase(t, k)' /\ ~Creating(t, k)
      BY <1>5, <2>5, <1>0 DEF HeapEffect
    <3> QED
      BY <3>1, <3>2 DEF HeldEffect
  <2>6. CASE o # Null
    <3>1. o \in Addrs /\ Settled(o) /\ ~InUse(o) /\ ~Settled(o)'
      BY <1>5, <2>2, <2>6 DEF HeapEffect
    <3>2. {x \in DOMAIN heap' : Settled(x)'} = {x \in DOMAIN heap : Settled(x)} \ {o}
      BY <2>2, <2>3, <2>4, <3>1, <1>0 DEF Settled
    <3>3. \A x \in {y \in DOMAIN heap : Settled(y)} \ {o} : heap'[x] = heap[x]
      BY <2>2, <2>3, <2>4, <3>1, <1>0
    <3>4. HeldObjects' = [x \in {y \in DOMAIN heap' : Settled(y)'} |-> [site |-> heap'[x].id, through |-> heap'[x].prov]]
      BY DEF HeldObjects
    <3>5. /\ DOMAIN HeldObjects = {x \in DOMAIN heap : Settled(x)}
          /\ \A x \in DOMAIN HeldObjects : HeldObjects[x] = [site |-> heap[x].id, through |-> heap[x].prov]
      BY DEF HeldObjects
    <3>6. HeldLess(o)
      BY <3>1, <3>2, <3>3, <3>4, <3>5 DEF HeldLess, Settled
    <3> QED
      BY <1>5, <3>1, <3>6 DEF HeldEffect, HeapEffect
  <2> QED
    BY <2>5, <2>6
<1> QED
  BY <1>2, <1>3, <1>4, <1>5 DEF Effect

-----------------------------------------------------------------------------
(* Every step is a step of FaultProfile or leaves its variables alone.     *)

Touched == [t \in Threads |-> TouchedBy(t)]
Origins == [id \in Ids |-> OriginsOf(id)]

\* What the abstract variables of the other threads show does not change.
LEMMA TouchedStep ==
  ASSUME NEW t \in Threads, Others(t)
  PROVE  Touched' = [Touched EXCEPT ![t] = TouchedBy(t)']
BY DEF Touched, TouchedBy, Others

\* No thread is stopped on an object that may be given away.
LEMMA NotTouched ==
  ASSUME TypeInv, FaultsInFlight, NEW o \in Addrs, ~InUse(o)
  PROVE  \A u \in Threads : Touched[u] # o
<1> SUFFICES ASSUME NEW u \in Threads, Touched[u] = o PROVE FALSE
  OBVIOUS
<1>1. o \in Nat /\ Touched[u] = TouchedBy(u)
  BY AddrsAssumption DEF Touched
<1>2. pc[u] \in SegvPcs /\ arg[u].obj = o
  BY <1>1 DEF TouchedBy, NoFault
<1>3. arg[u].addr \in Footprint(o, heap[o].size)
  BY <1>2 DEF FaultsInFlight
<1> QED
  BY <1>2, <1>3 DEF InUse

\* Steps of the hooks, and calls that add no flow: stuttering, Hold or Drop.
LEMMA HookRefines ==
  ASSUME TypeInv, TypeInv', FaultsInFlight, NEW t \in Threads, Others(t), HeldEffect(t),
         UNCHANGED fault_set, Origins' = Origins, overtaken' \in {overtaken, TRUE},
         pc[t] \notin SegvPcs, pc'[t] \notin SegvPcs,
         overtaken' = overtaken \/ \E p \in Addrs : Creating(t, p) /\ ~Creating(t, p)',
         overtaken' = overtaken \/ \A k \in Addrs : ~PendingErase(t, k)'
  PROVE  [Profile!Next]_(Profile!vars)
<1>1. Touched' = Touched
  BY DEF Touched, TouchedBy, Others
<1>2. IdsOf(fault_set') = IdsOf(fault_set)
  OBVIOUS
<1>3. CASE HeldSame /\ \A k \in Addrs : Creating(t, k) => Creating(t, k)'
  <2>1. overtaken' = overtaken
    BY <1>3
  <2> QED
    BY <1>1, <1>2, <1>3, <2>1 DEF Profile!vars, HeldSame, Touched, Origins
<1>4. ASSUME NEW p \in Addrs, HeldMore(p), p \in DOMAIN heap PROVE Profile!Next
  <2>1. heap[p].id \in Ids /\ heap[p].prov \in SUBSET Ids
    BY <1>4 DEF TypeInv, TypeOK, Objects
  <2>2. Profile!Hold(p, heap[p].id, heap[p].prov)
    BY <1>1, <1>2, <1>4 DEF Profile!Hold, HeldMore, Touched, Origins
  <2> QED
    BY <2>1, <2>2 DEF Profile!Next
<1>5. ASSUME NEW o \in Addrs, HeldLess(o), ~InUse(o), \A k \in Addrs : PendingErase(t, k)' <=> k = o
      PROVE  Profile!Next
  <2>1. overtaken' = overtaken
    BY <1>5
  <2>2. \A u \in Threads : Touched[u] # o
    BY <1>5, NotTouched
  <2>3. Profile!Drop(o)
    BY <1>1, <1>2, <1>5, <2>1, <2>2 DEF Profile!Drop, Profile!Untouched, HeldLess, Touched, Origins
  <2> QED
    BY <2>3 DEF Profile!Next
<1> QED
  BY <1>3, <1>4, <1>5 DEF HeldEffect

\* A call to realloc hands the old object, if any, to the realloc site.
LEMMA ReallocRefines ==
  ASSUME TypeInv, TypeInv', MapInv, FlowsType, FaultsInFlight, NEW t \in Threads, Others(t), HeldEffect(t),
         NEW o \in DOMAIN heap \cup {Null}, NEW p \in Addrs, NEW n \in Sizes \ {0}, NEW id \in ReallocIds,
         CallRealloc(t, o, p, n, id)
  PROVE  [Profile!Next]_(Profile!vars)
<1> DEFINE prov == IF o = Null THEN {} ELSE heap[o].prov \cup {heap[o].id}
<1>0. /\ pc \in [Threads -> {"idle"} \cup HookPcs \cup SegvPcs] /\ arg \in [Threads -> Args]
      /\ Null \notin Addrs /\ DOMAIN heap \subseteq Addrs /\ id \in Ids
  BY AddrsAssumption, SiteAssumption DEF TypeInv, TypeOK
<1>1. /\ pc[t] = "idle" /\ pc'[t] = "re_get" /\ arg'[t].ptr = p /\ arg'[t].old = o
      /\ flows' = [flows EXCEPT ![id] = @ \cup {prov \ {id}}]
      /\ UNCHANGED <<fault_set, overtaken>>
      /\ o # Null => Settled(o)
  BY <1>0 DEF CallRealloc, Goto, HookArg, tracker
<1>2. Touched' = Touched
  BY <1>1 DEF Touched, TouchedBy, Others, SegvPcs
<1>3. /\ OriginsOf(id)' = OriginsOf(id) \cup (prov \ {id})
      /\ \A x \in Ids \ {id} : OriginsOf(x)' = OriginsOf(x)
  <2>1. /\ flows'[id] = flows[id] \cup {prov \ {id}}
        /\ \A x \in ReallocIds \ {id} : flows'[x] = flows[x]
    BY <1>1 DEF FlowsType
  <2> HIDE DEF prov
  <2>2. (UNION (flows[id] \cup {prov \ {id}})) = (UNION flows[id]) \cup (prov \ {id})
    OBVIOUS
  <2> QED
    BY <2>1, <2>2 DEF OriginsOf
<1>4. \A k \in Addrs : ~Creating(t, k) /\ ~PendingErase(t, k)
  BY <1>1 DEF Creating, PendingErase, CreatingPcs, ReallocPcs
<1>5. \A k \in Addrs : PendingErase(t, k)' <=> k = o
  BY <1>0, <1>1 DEF PendingErase
<1>6. CASE o = Null
  <2>1. HeldSame
    BY <1>0, <1>4, <1>5, <1>6 DEF HeldEffect
  <2>2. Origins' = Origins
    BY <1>3, <1>6 DEF Origins
  <2> QED
    BY <1>1, <1>2, <2>1, <2>2 DEF Profile!vars, HeldSame, Touched, Origins
<1>7. CASE o # Null
  <2>1. o \in Addrs /\ HeldLess(o) /\ ~InUse(o)
    BY <1>0, <1>4, <1>5, <1>7 DEF HeldEffect
  <2>2. \A u \in Threads : Touched[u] # o
    BY <2>1, NotTouched
  <2>3. HeldObjects[o].site = heap[o].id /\ HeldObjects[o].through = heap[o].prov
    BY <1>0, <1>1, <1>7 DEF HeldObjects
  <2>4. Origins' = [Origins EXCEPT ![id] = @ \cup ((HeldObjects[o].through \cup {HeldObjects[o].site}) \ {id})]
    BY <1>0, <1>3, <1>7, <2>3 DEF Origins
  <2>5. Profile!Move(o, id)
    BY <1>1, <1>2, <2>1, <2>2, <2>4 DEF Profile!Move, Profile!Untouched, HeldLess, Touched, Origins
  <2> QED
    BY <1>0, <2>1, <2>5 DEF Profile!Next
<1> QED
  BY <1>6, <1>7

\* Sites that may be marked: for an object in sight, those its realloc chain leads back to.
LEMMA MayMark ==
  ASSUME TypeInv, FaultsInFlight, LineageInv, NEW t \in Threads, pc[t] \in {"segv_insert", "segv_chain", "segv_walk"},
         NEW i \in Ids, i = arg[t].as.id \/ (arg[t].as.id \in DOMAIN FM /\ i \in FM[arg[t].as.id])
  PROVE  i \in Profile!Blamable(t)
<1>1. Touched[t] = arg[t].obj /\ arg[t].obj \in Addrs \cup {Null}
  BY DEF Touched, TouchedBy, SegvPcs, TypeInv, TypeOK, Args
<1>2. CASE overtaken \/ arg[t].obj = Null
  BY <1>1, <1>2 DEF Profile!Blamable, Touched
<1>3. CASE ~overtaken /\ arg[t].obj # Null
  <2> DEFINE p == arg[t].obj
  <2>1. p \in Addrs /\ Settled(p) /\ arg[t].as = Entry(p)
    BY <1>1, <1>3 DEF FaultsInFlight, SegvPcs
  <2>2. arg[t].as.id = heap[p].id /\ HeldObjects[p].site = heap[p].id
    BY <2>1 DEF Entry, AllocSite, HeldObjects, Settled
  <2>3. ASSUME NEW S \in SUBSET Ids, heap[p].id \in S, \A x \in S : Origins[x] \subseteq S PROVE i \in S
    <3>1. ClosedSet(S)
      BY <2>3 DEF ClosedSet, Origins
    <3> QED
      BY <3>1, <2>2, <2>3, <1>3 DEF LineageInv, ChainsSound
  <2>4. i \in Profile!Lineage(heap[p].id)
    BY <2>3 DEF Profile!Lineage, Profile!Closed, Origins
  <2> QED
    BY <1>1, <1>3, <2>2, <2>4 DEF Profile!Blamable, Touched
<1> QED
  BY <1>2, <1>3
\* Records for the sites T, and the sites in fault_set after they were added.
Records(T, k) == {[id |-> i, pkey |-> k] : i \in T}

\* Adding records adds their sites.
LEMMA IdsAdded ==
  ASSUME NEW S, NEW T, NEW k
  PROVE  IdsOf(S \cup Records(T, k)) = IdsOf(S) \cup T
<1> DEFINE rec(i) == [id |-> i, pkey |-> k]
           new == {rec(i) : i \in T}
<1>1. \A i : rec(i).id = i
  OBVIOUS
<1> HIDE DEF rec
<1>2. IdsOf(new) \subseteq T
  BY <1>1 DEF IdsOf
<1>3. T \subseteq IdsOf(new)
  <2> SUFFICES ASSUME NEW i \in T PROVE i \in IdsOf(new)
    OBVIOUS
  <2>1. rec(i) \in new
    OBVIOUS
  <2> QED
    BY <2>1, <1>1 DEF IdsOf
<1> HIDE DEF new
<1>4. IdsOf(S \cup new) = IdsOf(S) \cup IdsOf(new)
  BY DEF IdsOf
<1>5. IdsOf(S \cup new) = IdsOf(S) \cup T
  BY <1>2, <1>3, <1>4
<1> QED
  BY <1>5 DEF new, rec, Records

\* Steps of the fault handler, and the access that starts it.
LEMMA HandlerRefines ==
  ASSUME TypeInv, TypeInv', MapInv, FaultsInFlight, FaultsInFlight', LineageInv,
         NEW t \in Threads, Others(t), HeldEffect(t),
         \/ \E q \in Memory, k \in Pkeys : Access(t, q, k)
         \/ faultLookup(t) \/ faultInsert(t) \/ faultLock(t) \/ faultChain(t) \/ faultReturn(t)
  PROVE  [Profile!Next]_(Profile!vars)
<1>0. /\ pc \in [Threads -> {"idle"} \cup HookPcs \cup SegvPcs] /\ arg \in [Threads -> Args]
      /\ Null \notin Addrs /\ DOMAIN heap \subseteq Addrs
      /\ \A x \in Addrs \cup {Null} : x # NoFault
  <2>1. \A x \in Addrs \cup {Null} : x \in Nat
    BY AddrsAssumption DEF Null
  <2>2. \A x \in Addrs \cup {Null} : x # NoFault
    BY <2>1 DEF NoFault
  <2> QED
    BY <2>2, AddrsAssumption DEF TypeInv, TypeOK
<1>1. /\ pc[t] \in {"idle"} \cup SegvPcs /\ pc'[t] \in {"idle"} \cup SegvPcs
      /\ UNCHANGED <<flows, overtaken>>
  <2>1. ASSUME NEW q, NEW k, Access(t, q, k)
        PROVE  /\ pc[t] \in {"idle"} \cup SegvPcs /\ pc'[t] \in {"idle"} \cup SegvPcs
               /\ UNCHANGED <<flows, overtaken>>
    BY <2>1, <1>0 DEF Access, Goto, SegvPcs, history
  <2>2. ASSUME faultLookup(t) \/ faultInsert(t) \/ faultLock(t) \/ faultChain(t) \/ faultReturn(t)
        PROVE  /\ pc[t] \in {"idle"} \cup SegvPcs /\ pc'[t] \in {"idle"} \cup SegvPcs
               /\ UNCHANGED <<flows, overtaken>>
    BY <2>2, <1>0 DEF faultLookup, faultInsert, faultLock, faultChain, faultReturn, Return, Goto, SegvPcs, history
  <2> QED
    BY <2>1, <2>2
<1>2. HeldSame
  <2>1. \A k \in Addrs : ~Creating(t, k) /\ ~PendingErase(t, k)'
    BY <1>1 DEF Creating, PendingErase, CreatingPcs, ReallocPcs, SegvPcs
  <2> QED
    BY <2>1 DEF HeldEffect
<1>3. Origins' = Origins /\ Touched' = [Touched EXCEPT ![t] = TouchedBy(t)']
  BY <1>1, TouchedStep DEF Origins, OriginsOf
<1>4. pc[t] \in SegvPcs => Touched[t] = arg[t].obj /\ arg[t].obj \in Addrs \cup {Null}
  BY <1>0 DEF Touched, TouchedBy, Args
<1>5. ASSUME NEW q \in Memory, NEW k \in Pkeys, Access(t, q, k) PROVE Profile!Next
  <2>1. pc[t] = "idle" /\ pc'[t] = "segv_lookup" /\ UNCHANGED <<heap, fault_set>>
    BY <1>5, <1>0 DEF Access, Goto, tracker
  <2>2. arg'[t].obj \in Addrs \cup {Null}
    BY DEF TypeInv, TypeOK, Args
  <2>3. arg'[t].obj \in Addrs => arg'[t].obj \in DOMAIN HeldObjects
    <3>1. arg'[t].obj \in Addrs => Settled(arg[t].obj)'
      BY <2>1 DEF FaultsInFlight, SegvPcs
    <3>2. DOMAIN (HeldObjects') = {x \in DOMAIN heap' : Settled(x)'}
      BY DEF HeldObjects
    <3> QED
      BY <3>1, <3>2, <1>2 DEF HeldSame, Settled
  <2>4. Touched[t] = NoFault /\ TouchedBy(t)' = arg'[t].obj
    BY <2>1 DEF Touched, TouchedBy, SegvPcs
  <2>5. Profile!Touch(t, arg'[t].obj)
    BY <1>1, <1>2, <1>3, <2>1, <2>2, <2>3, <2>4 DEF Profile!Touch, HeldSame, Touched, Origins
  <2> QED
    BY <2>2, <2>5 DEF Profile!Next
<1>6. CASE faultLookup(t)
  <2> DEFINE alloc == lookup(allocation_map, arg[t].addr)
  <2>1. /\ pc[t] = "segv_lookup" /\ UNCHANGED fault_set
        /\ arg' = [arg EXCEPT ![t] = [arg[t] EXCEPT !.as = alloc]]
        /\ pc' = [pc EXCEPT ![t] = IF isValid(alloc) THEN "segv_insert" ELSE "segv_return"]
    BY <1>6, <1>0 DEF faultLookup, Goto, Args, tracker
  <2> HIDE DEF alloc
  <2>2. pc'[t] \in SegvPcs /\ arg'[t].obj = arg[t].obj
    BY <2>1, <1>0 DEF Args, SegvPcs
  <2>3. Touched' = Touched
    <3>1. TouchedBy(t)' = Touched[t]
      BY <1>4, <2>1, <2>2 DEF TouchedBy, SegvPcs
    <3> QED
      BY <3>1, <1>3 DEF Touched
  <2> QED
    BY <1>1, <1>2, <1>3, <2>1, <2>3 DEF Profile!vars, HeldSame, Touched, Origins
<1>7. ASSUME pc[t] \in {"segv_insert", "segv_chain", "segv_walk"}, pc'[t] \in SegvPcs, UNCHANGED arg,
             NEW S \in SUBSET Profile!Blamable(t), IdsOf(fault_set') = IdsOf(fault_set) \cup S
      PROVE  Profile!Next
  <2>1. Touched' = Touched
    <3>1. TouchedBy(t)' = Touched[t]
      BY <1>4, <1>7 DEF TouchedBy, SegvPcs
    <3> QED
      BY <3>1, <1>3 DEF Touched
  <2>2. Touched[t] # NoFault
    BY <1>0, <1>4, <1>7 DEF SegvPcs
  <2>3. Profile!Mark(t)
    BY <1>1, <1>2, <1>3, <1>7, <2>1, <2>2 DEF Profile!Mark, HeldSame, Touched, Origins
  <2> QED
    BY <2>3 DEF Profile!Next
<1>8. CASE faultInsert(t)
  <2>1. /\ pc[t] = "segv_insert" /\ pc'[t] \in SegvPcs /\ UNCHANGED arg
        /\ fault_set' = insertFault(fault_set, arg[t].as.id, arg[t].pkey)
    BY <1>8, <1>0 DEF faultInsert, Goto, SegvPcs
  <2>2. arg[t].as.id \in Ids
    BY <2>1 DEF TypeInv, ArgsFit, Tracked
  <2>3. IdsOf(fault_set') = IdsOf(fault_set) \cup {arg[t].as.id}
    <3>1. CASE \E f \in fault_set : f.id = arg[t].as.id
      BY <2>1, <3>1 DEF insertFault, IdsOf
    <3>2. CASE ~\E f \in fault_set : f.id = arg[t].as.id
      <4>1. fault_set' = fault_set \cup Records({arg[t].as.id}, arg[t].pkey)
        BY <2>1, <3>2 DEF insertFault, Records
      <4> QED
        BY <4>1, IdsAdded
    <3> QED
      BY <3>1, <3>2
  <2>4. {arg[t].as.id} \in SUBSET Profile!Blamable(t)
    BY <2>1, <2>2, MayMark
  <2> QED
    BY <1>7, <2>1, <2>3, <2>4
<1>11. CASE faultLock(t)
  <2>1. pc[t] = "segv_chain" /\ pc'[t] \in SegvPcs /\ UNCHANGED <<arg, fault_set>>
    BY <1>11, <1>0 DEF faultLock, Goto, SegvPcs
  <2>2. IdsOf(fault_set') = IdsOf(fault_set) \cup {}
    BY <2>1
  <2>3. {} \in SUBSET Profile!Blamable(t)
    OBVIOUS
  <2> QED
    BY <1>7, <2>1, <2>2, <2>3
<1>9. CASE faultChain(t)
  <2> DEFINE chain == IF arg[t].as.id \in DOMAIN FM THEN FM[arg[t].as.id] ELSE {}
  <2>1. /\ pc[t] = "segv_walk" /\ pc'[t] \in SegvPcs /\ UNCHANGED arg
        /\ fault_set' = fault_set \cup {[id |-> i, pkey |-> arg[t].pkey] : i \in chain \ IdsOf(fault_set)}
    BY <1>9, <1>0 DEF faultChain, Goto, SegvPcs
  <2>2. chain \subseteq Ids
    BY DEF TypeInv, TypeOK
  <2>3. chain \ IdsOf(fault_set) \in SUBSET Profile!Blamable(t)
    <3> SUFFICES ASSUME NEW i \in chain PROVE i \in Profile!Blamable(t)
      OBVIOUS
    <3>1. i \in Ids /\ arg[t].as.id \in DOMAIN FM /\ i \in FM[arg[t].as.id]
      BY <2>2
    <3> QED
      BY <2>1, <3>1, MayMark
  <2> HIDE DEF chain
  <2>4. IdsOf(fault_set') = IdsOf(fault_set) \cup (chain \ IdsOf(fault_set))
    <3>1. fault_set' = fault_set \cup Records(chain \ IdsOf(fault_set), arg[t].pkey)
      BY <2>1 DEF Records
    <3> QED
      BY <3>1, IdsAdded
  <2> QED
    BY <1>7, <2>1, <2>3, <2>4
<1>10. CASE faultReturn(t)
  <2>1. pc[t] = "segv_return" /\ pc'[t] = "idle" /\ UNCHANGED fault_set
    BY <1>10, <1>0 DEF faultReturn, Return, Goto, tracker
  <2>2. Touched[t] # NoFault /\ TouchedBy(t)' = NoFault
    BY <2>1, <1>0, <1>4 DEF TouchedBy, SegvPcs
  <2>3. Touched[t] # Null => HeldObjects[Touched[t]].site \in IdsOf(fault_set)
    <3> SUFFICES ASSUME arg[t].obj \in Addrs PROVE HeldObjects[arg[t].obj].site \in IdsOf(fault_set)
      BY <1>4, <2>1 DEF SegvPcs
    <3>1. Settled(arg[t].obj) /\ heap[arg[t].obj].id \in IdsOf(fault_set)
      BY <2>1 DEF FaultsInFlight, SegvPcs
    <3> QED
      BY <3>1 DEF HeldObjects, Settled
  <2>4. Profile!Resume(t)
    BY <1>1, <1>2, <1>3, <2>1, <2>2, <2>3 DEF Profile!Resume, HeldSame, Touched, Origins
  <2> QED
    BY <2>4 DEF Profile!Next
<1> QED
  BY <1>5, <1>6, <1>8, <1>9, <1>10, <1>11

\* Every step of the tracker is a step of the abstract program or leaves it alone.
LEMMA StepRefines ==
  TypeInv /\ MapInv /\ FaultsInFlight /\ ChainInv /\ LineageInv /\ [Next]_vars => [Profile!Next]_(Profile!vars)
<1> SUFFICES ASSUME TypeInv, MapInv, FaultsInFlight, ChainInv, LineageInv, [Next]_vars
             PROVE  [Profile!Next]_(Profile!vars)
  OBVIOUS
<1>0. TypeInv' /\ FaultsInFlight' /\ FlowsType
  BY TypeStep, FaultStep DEF ChainInv
<1>1. CASE UNCHANGED vars \/ Terminated
  <2>1. UNCHANGED <<heap, fault_set, pc, arg, overtaken, flows>>
    BY <1>1 DEF Terminated, vars, tracker, history
  <2>2. HeldObjects' = HeldObjects
    BY <2>1 DEF HeldObjects, Settled, Creating
  <2>3. Touched' = Touched /\ Origins' = Origins
    BY <2>1 DEF Touched, TouchedBy, Origins, OriginsOf
  <2> QED
    BY <2>1, <2>2, <2>3 DEF Profile!vars, Touched, Origins
<1>2. ASSUME NEW t \in Threads, Program(t) \/ Runtime(t) PROVE [Profile!Next]_(Profile!vars)
  <2>0. /\ pc \in [Threads -> {"idle"} \cup HookPcs \cup SegvPcs] /\ arg \in [Threads -> Args]
    BY DEF TypeInv, TypeOK
  <2>1. Others(t) /\ Effect(t)
    BY <1>2, StepEffect
  <2>2. HeldEffect(t)
    BY <1>0, <2>1, HeldStep
  <2>3. ASSUME UNCHANGED <<fault_set, flows, overtaken>>, pc[t] \notin SegvPcs, pc'[t] \notin SegvPcs
        PROVE  [Profile!Next]_(Profile!vars)
    <3>1. Origins' = Origins
      BY <2>3 DEF Origins, OriginsOf
    <3> QED
      BY <3>1, <2>1, <2>2, <2>3, <1>0, HookRefines
  <2>4. ASSUME NEW p, NEW n, NEW id, CallAlloc(t, p, n, id) PROVE [Profile!Next]_(Profile!vars)
    BY <2>0, <2>3, <2>4 DEF CallAlloc, Goto, tracker, history, SegvPcs
  <2>5. ASSUME NEW p, CallFree(t, p) PROVE [Profile!Next]_(Profile!vars)
    BY <2>0, <2>3, <2>5 DEF CallFree, Goto, tracker, history, SegvPcs
  <2>6. ASSUME NEW o \in DOMAIN heap \cup {Null}, NEW p \in Addrs, NEW n \in Sizes \ {0}, NEW id \in ReallocIds,
               CallRealloc(t, o, p, n, id)
        PROVE  [Profile!Next]_(Profile!vars)
    BY <2>1, <2>2, <2>6, <1>0, ReallocRefines
  <2>7. ASSUME NEW o, NEW n, NEW id, CallReallocNull(t, o, n, id) PROVE [Profile!Next]_(Profile!vars)
    BY <2>0, <2>3, <2>7 DEF CallReallocNull, Goto, tracker, history, SegvPcs
  <2>8. CASE Abort /\ pc[t] \notin SegvPcs
    BY <2>3, <2>8 DEF Abort, tracker, history
  <2>9. ASSUME pc[t] \in CreatingPcs, arg[t].ptr \in Addrs, insertAllocSite(t, arg[t].ptr, NewSite(t)), Return(t),
               UNCHANGED <<fault_set, flows>>
        PROVE  [Profile!Next]_(Profile!vars)
    <3>1. pc'[t] = "idle" /\ pc[t] \notin SegvPcs
      BY <2>0, <2>9 DEF Return, Goto, SegvPcs, CreatingPcs, ReallocPcs
    <3>2. Creating(t, arg[t].ptr) /\ \A k \in Addrs : ~Creating(t, k)' /\ ~PendingErase(t, k)'
      BY <3>1, <2>9 DEF Creating, PendingErase, CreatingPcs, ReallocPcs
    <3>3. overtaken' \in {overtaken, TRUE}
      BY <2>9 DEF insertAllocSite, TypeInv, TypeOK
    <3>4. Origins' = Origins
      BY <2>9 DEF Origins, OriginsOf
    <3> QED
      BY <3>1, <3>2, <3>3, <3>4, <2>1, <2>2, <2>9, <1>0, HookRefines DEF SegvPcs
  <2>10. CASE allocHook(t) \/ reallocFresh(t) \/ reallocInsert(t)
    <3>1. pc[t] \in CreatingPcs /\ pc[t] \notin SegvPcs /\ arg[t].ptr \in Addrs \cup {Null}
      BY <2>0, <2>10 DEF allocHook, reallocFresh, reallocInsert, CreatingPcs, ReallocPcs, SegvPcs, Args
    <3>2. CASE Abort
      BY <2>8, <3>1, <3>2
    <3>3. CASE ~Abort
      <4>1. Constructible(arg[t].ptr, arg[t].size)
        BY <2>10, <3>3 DEF allocHook, reallocFresh, reallocInsert, TypeInv, ArgsFit, CreatingPcs, ReallocPcs
      <4> QED
        BY <2>9, <2>10, <3>1, <3>3, <4>1 DEF allocHook, reallocFresh, reallocInsert, Constructible
    <3> QED
      BY <3>2, <3>3
  <2>11. CASE deallocHook(t) \/ reallocLock(t) \/ updateReallocChain(t) \/ reallocRemove(t)
    BY <2>0, <2>3, <2>11 DEF deallocHook, reallocLock, updateReallocChain, reallocRemove, Return, Goto, history, SegvPcs
  <2>12. CASE reallocGet(t)
    <3>1. CASE Abort
      BY <2>8, <2>12, <3>1 DEF reallocGet, SegvPcs
    <3>2. CASE ~Abort
      BY <2>0, <2>3, <2>12, <3>2 DEF reallocGet, Goto, tracker, history, SegvPcs
    <3> QED
      BY <3>1, <3>2
  <2>13. CASE \/ \E q \in Memory, k \in Pkeys : Access(t, q, k)
              \/ faultLookup(t) \/ faultInsert(t) \/ faultLock(t) \/ faultChain(t) \/ faultReturn(t)
    BY <2>1, <2>2, <2>13, <1>0, HandlerRefines
  <2> QED
    BY <1>2, <2>4, <2>5, <2>6, <2>7, <2>10, <2>11, <2>12, <2>13 DEF Program, Runtime
<1> QED
  BY <1>1, <1>2 DEF Next

\* For the program, the tracker with its map, locks and chains behaves as if every fault
\* marked the touched object's site, and at most the sites reallocation leads back to, in
\* one step: no thread that faulted on an object resumes before that, and no other site is
\* marked for it, for any number of threads and any nesting of reallocations.
THEOREM Refinement == Spec => ImplementsProfile
<1>1. Init => Profile!Init
  <2> SUFFICES ASSUME Init PROVE Profile!Init
    OBVIOUS
  <2>1. HeldObjects = [p \in {} |-> [site |-> NoFault, through |-> {}]]
    BY DEF Init, EmptyMap, HeldObjects
  <2>2. Touched = [t \in Threads |-> NoFault]
    BY DEF Init, Touched, TouchedBy, SegvPcs
  <2>3. Origins = [id \in Ids |-> {}]
    BY DEF Init, Origins, OriginsOf
  <2> QED
    BY <2>1, <2>2, <2>3 DEF Init, Profile!Init, Touched, Origins, IdsOf
<1>2. TypeInv /\ MapInv /\ FaultsInFlight /\ ChainInv /\ LineageInv /\ [Next]_vars => [Profile!Next]_(Profile!vars)
  BY StepRefines
<1>3. IndInv => FaultsInFlight
  BY DEF IndInv
<1> QED
  BY <1>1, <1>2, <1>3, MapInvariant, IndInvCorrect, ChainInvCorrect, LineageInvariant, PTL
  DEF Spec, ImplementsProfile, Profile!Spec
=============================================================================
