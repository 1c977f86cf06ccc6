-------------------- MODULE AllocSiteHandlerChainProofs ---------------------
(***************************************************************************)
(* Theorems about the realloc chains of AllocSiteHandler (FM and what      *)
(* addFaultAlloc makes of it), and about runs in which no hook is          *)
(* overtaken.  They rest on the invariant of AllocSiteHandlerProofs.       *)
(***************************************************************************)
EXTENDS AllocSiteHandlerProofs, FiniteSetTheorems

-----------------------------------------------------------------------------
(* The invariant.                                                          *)

FlowsType ==
  /\ flows \in [ReallocIds -> SUBSET SUBSET Ids]
  /\ \A id \in ReallocIds : IsFiniteSet(flows[id])

\* An object that site id returned came through the sites P, and this is on record
\* if id is a realloc site; if there are other sites in P then id has a chain.
Flowed(id, P) ==
  P \ {id} # {} \/ id \in ReallocIds \ AllocIds => id \in ReallocIds /\ P \ {id} \in flows[id]
Chained(id, P) == P \ {id} # {} => id \in DOMAIN FM

\* The object thread t has reallocated was returned by site o before.
MadeFrom(t, o) ==
  \E P \in SUBSET Ids : heap[arg[t].ptr].prov = P \cup {o} /\ Flowed(o, P) /\ Chained(o, P)

\* What every step of reallocHook finds.
OnRecord ==
  /\ DOMAIN FM \subseteq ReallocIds
  /\ \A id \in DOMAIN FM : flows[id] # {}
  /\ \A p \in DOMAIN heap : Flowed(heap[p].id, heap[p].prov)
  /\ \A t \in Threads : pc[t] \in ReallocPcs =>
       /\ arg[t].id \in ReallocIds
       /\ arg[t].ptr # Null => heap[arg[t].ptr].prov \ {arg[t].id} \in flows[arg[t].id]

\* While no hook has been overtaken: the entry that reallocHook is going to look up is
\* there and is the old object's, and the steps after that have its site at hand.
HookKnows(t) ==
  /\ pc[t] = "alloc" /\ arg[t].ptr # Null => heap[arg[t].ptr].prov = {}
  /\ pc[t] = "re_get" /\ arg[t].ptr # Null =>
       IF arg[t].old = Null THEN heap[arg[t].ptr].prov = {}
       ELSE arg[t].old \in DOMAIN allocation_map /\ MadeFrom(t, allocation_map[arg[t].old].id)
  /\ pc[t] = "re_fresh" => heap[arg[t].ptr].prov = {}
  /\ pc[t] \in {"re_chain", "re_extend"} => MadeFrom(t, arg[t].as.id)
  /\ pc[t] \in {"re_remove", "re_insert"} => Chained(arg[t].id, heap[arg[t].ptr].prov)

\* Each key has one thread at most that is going to erase it.
OneEraser == \A t, u \in Threads, k \in Addrs : PendingErase(t, k) /\ PendingErase(u, k) => t = u

SettledChained == \A p \in DOMAIN heap : Settled(p) => Chained(heap[p].id, heap[p].prov)

\* Site id, and every site its objects came through, is fed from one provenance.
Single(id) == id \in ReallocIds => \A F, G \in flows[id] : F = G
Plain(id) == Single(id) /\ \A F \in flows[id] : \A x \in F : Single(x)

\* The chain of such a site leaves out nothing.
ChainsComplete == \A id \in DOMAIN FM : Plain(id) => \A F \in flows[id] : F \subseteq FM[id]

InOrder ==
  /\ raced = {} /\ OneEraser /\ SettledChained /\ ChainsComplete
  /\ \A t \in Threads : HookKnows(t)

ChainInv == FlowsType /\ OnRecord /\ (overtaken \/ InOrder)

-----------------------------------------------------------------------------
(* What steps keep.                                                        *)

\* Neither a recorded flow, nor a chain, nor the verdict "overtaken" is taken back.
Grown ==
  /\ \A id \in ReallocIds : flows[id] \subseteq flows'[id]
  /\ DOMAIN FM \subseteq DOMAIN FM' /\ \A id \in DOMAIN FM : FM'[id] = FM[id]
  /\ overtaken => overtaken'

\* Only a call to realloc adds a flow, and it adds one.
LEMMA FlowsStep ==
  ASSUME TypeInv, FlowsType, NEW t \in Threads, Program(t) \/ Runtime(t)
  PROVE  UNCHANGED flows \/ \E id \in ReallocIds, F \in SUBSET Ids : flows' = [flows EXCEPT ![id] = @ \cup {F}]
<1>1. ASSUME NEW o \in DOMAIN heap \cup {Null}, NEW p, NEW n, NEW id \in ReallocIds, CallRealloc(t, o, p, n, id)
      PROVE  \E F \in SUBSET Ids : flows' = [flows EXCEPT ![id] = @ \cup {F}]
  <2> DEFINE prov == IF o = Null THEN {} ELSE heap[o].prov \cup {heap[o].id}
  <2>1. prov \subseteq Ids
    BY DEF TypeInv, TypeOK, Objects
  <2>2. flows' = [flows EXCEPT ![id] = @ \cup {prov \ {id}}]
    BY <1>1 DEF CallRealloc
  <2> HIDE DEF prov
  <2> QED
    BY <2>1, <2>2
<1>2. ASSUME NEW p, NEW n, NEW id, CallAlloc(t, p, n, id) PROVE UNCHANGED flows
  BY <1>2 DEF CallAlloc, history
<1>3. ASSUME NEW p, CallFree(t, p) PROVE UNCHANGED flows
  BY <1>3 DEF CallFree, history
<1>4. ASSUME NEW o, NEW n, NEW id, CallReallocNull(t, o, n, id) PROVE UNCHANGED flows
  BY <1>4 DEF CallReallocNull, history
<1>5. ASSUME NEW q, NEW k, Access(t, q, k) PROVE UNCHANGED flows
  BY <1>5 DEF Access, history
<1>6. ASSUME Runtime(t) PROVE UNCHANGED flows
  BY <1>6 DEF Runtime, allocHook, deallocHook, reallocGet, reallocFresh, reallocLock, updateReallocChain, reallocRemove,
              reallocInsert, faultLookup, faultInsert, faultLock, faultChain, faultReturn, Abort, history
<1> QED
  BY <1>1, <1>2, <1>3, <1>4, <1>5, <1>6 DEF Program

\* A hook that was overtaken stays on record.
LEMMA OvertakenStep ==
  ASSUME NEW t \in Threads, Program(t) \/ Runtime(t)
  PROVE  overtaken => overtaken'
<1>1. ASSUME Program(t) PROVE UNCHANGED overtaken
  BY <1>1 DEF Program, CallAlloc, CallFree, CallRealloc, CallReallocNull, Access, history
<1>2. ASSUME allocHook(t) \/ reallocFresh(t) \/ reallocInsert(t) PROVE overtaken => overtaken'
  BY <1>2 DEF allocHook, reallocFresh, reallocInsert, Abort, history, insertAllocSite
<1>3. ASSUME deallocHook(t) \/ reallocGet(t) \/ reallocLock(t) \/ updateReallocChain(t) \/ reallocRemove(t) \/ faultLookup(t)
             \/ faultInsert(t) \/ faultLock(t) \/ faultChain(t) \/ faultReturn(t)
      PROVE  UNCHANGED overtaken
  BY <1>3 DEF deallocHook, reallocGet, reallocLock, updateReallocChain, reallocRemove, faultLookup, faultInsert,
              faultLock, faultChain, faultReturn, Abort, history
<1> QED
  BY <1>1, <1>2, <1>3 DEF Runtime

\* The history of each site only grows.
LEMMA GrowStep ==
  ASSUME TypeInv, TypeInv', FlowsType, NEW t \in Threads, Program(t) \/ Runtime(t), [Next]_vars
  PROVE  FlowsType' /\ Grown
<1>1. /\ \A id \in ReallocIds : flows[id] \subseteq flows'[id] /\ IsFiniteSet(flows'[id])
      /\ flows' \in [ReallocIds -> SUBSET SUBSET Ids]
  <2>1. CASE UNCHANGED flows
    BY <2>1 DEF FlowsType
  <2>2. ASSUME NEW id \in ReallocIds, NEW F \in SUBSET Ids, flows' = [flows EXCEPT ![id] = @ \cup {F}]
        PROVE  /\ \A x \in ReallocIds : flows[x] \subseteq flows'[x] /\ IsFiniteSet(flows'[x])
               /\ flows' \in [ReallocIds -> SUBSET SUBSET Ids]
    <3>1. IsFiniteSet(flows[id] \cup {F})
      BY FS_AddElement DEF FlowsType
    <3>2. flows'[id] = flows[id] \cup {F} /\ \A x \in ReallocIds \ {id} : flows'[x] = flows[x]
      BY <2>2 DEF FlowsType
    <3>3. flows' \in [ReallocIds -> SUBSET SUBSET Ids]
      BY <2>2 DEF FlowsType
    <3> QED
      BY <3>1, <3>2, <3>3 DEF FlowsType
  <2> QED
    BY <2>1, <2>2, FlowsStep
<1>2. overtaken => overtaken'
  BY OvertakenStep
<1>3. DOMAIN FM \subseteq DOMAIN FM' /\ \A id \in DOMAIN FM : FM'[id] = FM[id]
  BY RecordsStep
<1> QED
  BY <1>1, <1>2, <1>3 DEF FlowsType, Grown

\* An object in another thread's hook stays as it is.
LEMMA HeapKept ==
  ASSUME TypeInv, MapInv, NEW t \in Threads, Others(t), Effect(t),
         NEW u \in Threads \ {t}, NEW p \in Addrs, Creating(u, p)
  PROVE  p \in DOMAIN heap /\ p \in DOMAIN heap' /\ heap'[p] = heap[p]
<1>1. p \in DOMAIN heap /\ Null \notin Addrs /\ DOMAIN heap \subseteq Addrs /\ ~Settled(p)
  BY AddrsAssumption DEF MapInv, CreatorsOwn, TypeInv, TypeOK, Settled
<1>2. CASE QuietEffect
  BY <1>1, <1>2 DEF QuietEffect
<1>3. ASSUME NEW x \in Addrs, InsertEffect(t, x) PROVE UNCHANGED heap
  BY <1>3 DEF InsertEffect
<1>4. ASSUME NEW x \in Addrs \cup {Null}, EraseEffect(t, x) PROVE UNCHANGED heap
  BY <1>4 DEF EraseEffect
<1>5. ASSUME NEW o \in Addrs \cup {Null}, NEW x \in Addrs \cup {Null}, HeapEffect(t, o, x)
      PROVE  p \in DOMAIN heap' /\ heap'[p] = heap[p]
  <2>1. o # p
    BY <1>1, <1>5 DEF HeapEffect
  <2>2. x # p
    <3>1. \A n : p \in Footprint(p, n)
      BY DEF Footprint
    <3> QED
      BY <1>1, <1>5, <2>1, <3>1 DEF HeapEffect
  <2> QED
    BY <1>1, <1>5, <2>1, <2>2 DEF HeapEffect
<1> QED
  BY <1>1, <1>2, <1>3, <1>4, <1>5 DEF Effect

\* An object is settled only by the hook of the thread that created it.
LEMMA SettledFrom ==
  ASSUME TypeInv, MapInv, NEW t \in Threads, Others(t), Effect(t), NEW p \in Addrs, Settled(p)'
  PROVE  /\ p \in DOMAIN heap /\ heap'[p] = heap[p]
         /\ Settled(p) \/ (Creating(t, p) /\ ~Creating(t, p)')
<1>0. DOMAIN heap \subseteq Addrs /\ Null \notin Addrs
  BY AddrsAssumption DEF TypeInv, TypeOK
<1>1. \A u \in Threads \ {t} : ~Creating(u, p)
  BY DEF Settled, Others
<1>2. p \in DOMAIN heap' /\ ~Creating(t, p)'
  BY DEF Settled
<1>3. p \in DOMAIN heap /\ heap'[p] = heap[p]
  <2>1. CASE QuietEffect
    BY <1>2, <2>1 DEF QuietEffect
  <2>2. ASSUME NEW x \in Addrs, InsertEffect(t, x) PROVE UNCHANGED heap
    BY <2>2 DEF InsertEffect
  <2>3. ASSUME NEW x \in Addrs \cup {Null}, EraseEffect(t, x) PROVE UNCHANGED heap
    BY <2>3 DEF EraseEffect
  <2>4. ASSUME NEW o \in Addrs \cup {Null}, NEW x \in Addrs \cup {Null}, HeapEffect(t, o, x)
        PROVE  p \in DOMAIN heap /\ heap'[p] = heap[p]
    <3>1. p # x
      BY <1>2, <2>4 DEF HeapEffect
    <3> QED
      BY <1>2, <2>4, <3>1 DEF HeapEffect
  <2> QED
    BY <1>2, <2>1, <2>2, <2>3, <2>4 DEF Effect
<1> QED
  BY <1>1, <1>2, <1>3 DEF Settled

\* The hook that settles an object has come to its end.
LEMMA Landing ==
  ASSUME TypeInv, NEW t \in Threads, Program(t) \/ Runtime(t), NEW p \in Addrs, Creating(t, p), ~Creating(t, p)'
  PROVE  pc[t] \in {"alloc", "re_fresh", "re_insert"}
<1>0. pc[t] \in CreatingPcs /\ arg[t].ptr = p /\ pc \in [Threads -> {"idle"} \cup HookPcs \cup SegvPcs]
      /\ arg \in [Threads -> Args]
  BY DEF Creating, TypeInv, TypeOK
<1>1. ~Program(t)
  <2>1. pc[t] # "idle"
    BY <1>0 DEF CreatingPcs, ReallocPcs
  <2> QED
    BY <2>1 DEF Program, CallAlloc, CallFree, CallRealloc, CallReallocNull, Access
<1>2. CASE reallocLock(t) \/ updateReallocChain(t) \/ reallocRemove(t)
  BY <1>0, <1>2 DEF reallocLock, updateReallocChain, reallocRemove, Goto, Creating, CreatingPcs, ReallocPcs
<1>3. CASE reallocGet(t)
  <2>1. CASE Abort
    BY <2>1, <1>0 DEF Abort, Creating
  <2>2. CASE ~Abort
    <3> DEFINE oldAS == lookup(allocation_map, arg[t].old)
    <3>1. /\ arg' = [arg EXCEPT ![t] = [arg[t] EXCEPT !.as = oldAS]]
          /\ Goto(t, IF isValid(oldAS) THEN "re_chain" ELSE "re_fresh")
      BY <2>2, <1>3, <1>0 DEF reallocGet, Args
    <3> HIDE DEF oldAS
    <3>2. arg'[t].ptr = arg[t].ptr /\ pc'[t] \in {"re_chain", "re_fresh"}
      BY <3>1, <1>0 DEF Goto, Args
    <3> QED
      BY <3>2, <1>0 DEF Creating, CreatingPcs, ReallocPcs
  <2> QED
    BY <2>1, <2>2
<1>4. CASE deallocHook(t) \/ faultLookup(t) \/ faultInsert(t) \/ faultLock(t) \/ faultChain(t) \/ faultReturn(t)
  BY <1>0, <1>4 DEF deallocHook, faultLookup, faultInsert, faultLock, faultChain, faultReturn, CreatingPcs, ReallocPcs
<1>5. CASE allocHook(t) \/ reallocFresh(t) \/ reallocInsert(t)
  BY <1>5 DEF allocHook, reallocFresh, reallocInsert
<1> QED
  BY <1>1, <1>2, <1>3, <1>4, <1>5 DEF Runtime

-----------------------------------------------------------------------------
(* OnRecord.                                                               *)

\* The thread that steps: an object it places, and the hook it is in, are on record.
LEMMA OwnRecord ==
  ASSUME TypeInv, MapInv, FlowsType, FlowsType', OnRecord, Grown,
         NEW t \in Threads, Program(t) \/ Runtime(t), Others(t)
  PROVE  /\ \A p \in DOMAIN heap' : (p \in DOMAIN heap /\ heap'[p] = heap[p]) \/ Flowed(heap[p].id, heap[p].prov)'
         /\ pc'[t] \in ReallocPcs =>
              /\ arg'[t].id \in ReallocIds
              /\ arg'[t].ptr # Null => heap'[arg'[t].ptr].prov \ {arg'[t].id} \in flows'[arg'[t].id]
<1> DEFINE Goal ==
      /\ \A p \in DOMAIN heap' : (p \in DOMAIN heap /\ heap'[p] = heap[p]) \/ Flowed(heap[p].id, heap[p].prov)'
      /\ pc'[t] \in ReallocPcs =>
           /\ arg'[t].id \in ReallocIds
           /\ arg'[t].ptr # Null => heap'[arg'[t].ptr].prov \ {arg'[t].id} \in flows'[arg'[t].id]
<1>0. pc \in [Threads -> {"idle"} \cup HookPcs \cup SegvPcs] /\ arg \in [Threads -> Args] /\ Null \notin DOMAIN heap
  BY AddrsAssumption DEF TypeInv, TypeOK
<1>1. ASSUME NEW p, NEW n, NEW id \in AllocIds, CallAlloc(t, p, n, id) PROVE Goal
  <2>1. pc'[t] \notin ReallocPcs
    BY <1>1, <1>0 DEF CallAlloc, Goto, ReallocPcs
  <2>2. heap' = heap \/ heap' = put(heap, p, Object(n, id, {}))
    BY <1>1 DEF CallAlloc
  <2>3. \A x \in DOMAIN heap' : (x \in DOMAIN heap /\ heap'[x] = heap[x]) \/ (heap'[x].prov = {} /\ heap'[x].id = id)
    BY <2>2 DEF put, Object
  <2> QED
    BY <2>1, <2>3 DEF Flowed
<1>2. ASSUME NEW p, CallFree(t, p) PROVE Goal
  <2>1. pc'[t] \notin ReallocPcs
    BY <1>2, <1>0 DEF CallFree, Goto, ReallocPcs
  <2>2. heap' = heap \/ heap' = erase(heap, p)
    BY <1>2 DEF CallFree
  <2>3. \A x \in DOMAIN erase(heap, p) : x \in DOMAIN heap /\ erase(heap, p)[x] = heap[x]
    BY EraseFacts
  <2> QED
    BY <2>1, <2>2, <2>3
<1>3. ASSUME NEW o \in DOMAIN heap \cup {Null}, NEW p \in Addrs, NEW n, NEW id \in ReallocIds, CallRealloc(t, o, p, n, id)
      PROVE  Goal
  <2> DEFINE rest == IF o = Null THEN heap ELSE erase(heap, o)
             prov == IF o = Null THEN {} ELSE heap[o].prov \cup {heap[o].id}
  <2>1. /\ heap' = put(rest, p, Object(n, id, prov)) /\ arg' = [arg EXCEPT ![t] = HookArg(p, n, o, id)]
        /\ flows' = [flows EXCEPT ![id] = @ \cup {prov \ {id}}]
    BY <1>3 DEF CallRealloc
  <2>2. DOMAIN rest \subseteq DOMAIN heap /\ \A x \in DOMAIN rest : rest[x] = heap[x]
    BY EraseFacts
  <2> HIDE DEF rest, prov
  <2>3. prov \ {id} \in flows'[id]
    BY <2>1 DEF FlowsType
  <2>4. arg'[t].id = id /\ arg'[t].ptr = p
    BY <2>1, <1>0 DEF HookArg
  <2>5. heap'[p].prov = prov /\ heap'[p].id = id /\ \A x \in DOMAIN heap' \ {p} : x \in DOMAIN heap /\ heap'[x] = heap[x]
    BY <2>1, <2>2 DEF put, Object
  <2> QED
    BY <2>3, <2>4, <2>5 DEF Flowed
<1>4. ASSUME NEW o \in DOMAIN heap, NEW n, NEW id \in ReallocIds, CallReallocNull(t, o, n, id) PROVE Goal
  <2>1. arg'[t].id = id /\ arg'[t].ptr = Null
    BY <1>4, <1>0 DEF CallReallocNull, HookArg
  <2>2. heap' = heap \/ heap' = erase(heap, o)
    BY <1>4 DEF CallReallocNull
  <2>3. \A x \in DOMAIN erase(heap, o) : x \in DOMAIN heap /\ erase(heap, o)[x] = heap[x]
    BY EraseFacts
  <2> QED
    BY <2>1, <2>2, <2>3
<1>5. ASSUME UNCHANGED heap, pc'[t] \notin ReallocPcs PROVE Goal
  BY <1>5
<1>6. ASSUME NEW q, NEW k, Access(t, q, k) PROVE Goal
  BY <1>5, <1>6, <1>0 DEF Access, Goto, ReallocPcs
<1>7. ASSUME UNCHANGED <<heap, flows>>, pc[t] \in ReallocPcs, arg'[t].ptr = arg[t].ptr, arg'[t].id = arg[t].id
      PROVE  Goal
  BY <1>7 DEF OnRecord
<1>8. ASSUME UNCHANGED <<heap, flows, arg, pc>> PROVE Goal
  BY <1>5, <1>7, <1>8
<1>9. ASSUME allocHook(t) \/ reallocFresh(t) \/ reallocInsert(t) \/ deallocHook(t) PROVE Goal
  BY <1>5, <1>8, <1>9, <1>0 DEF allocHook, reallocFresh, reallocInsert, deallocHook, Abort, history, Return, Goto, ReallocPcs
<1>10. ASSUME reallocGet(t) PROVE Goal
  <2>1. CASE Abort
    BY <2>1, <1>8 DEF Abort, history
  <2>2. CASE ~Abort
    <3> DEFINE oldAS == lookup(allocation_map, arg[t].old)
    <3>1. /\ arg' = [arg EXCEPT ![t] = [arg[t] EXCEPT !.as = oldAS]]
          /\ UNCHANGED <<heap, flows>> /\ pc[t] = "re_get"
      BY <2>2, <1>10, <1>0 DEF reallocGet, Args, history
    <3> HIDE DEF oldAS
    <3>2. arg'[t].ptr = arg[t].ptr /\ arg'[t].id = arg[t].id
      BY <3>1, <1>0 DEF Args
    <3> QED
      BY <3>1, <3>2, <1>7 DEF ReallocPcs
  <2> QED
    BY <2>1, <2>2
<1>11. ASSUME reallocLock(t) \/ updateReallocChain(t) \/ reallocRemove(t) PROVE Goal
  BY <1>7, <1>11 DEF reallocLock, updateReallocChain, reallocRemove, history, ReallocPcs
<1>12. ASSUME faultLookup(t) \/ faultInsert(t) \/ faultLock(t) \/ faultChain(t) \/ faultReturn(t) PROVE Goal
  BY <1>5, <1>12, <1>0 DEF faultLookup, faultInsert, faultLock, faultChain, faultReturn, Return, Goto, ReallocPcs
<1>13. Goal
  <2> HIDE DEF Goal
  <2> QED
    BY <1>1, <1>2, <1>3, <1>4, <1>6, <1>9, <1>10, <1>11, <1>12 DEF Program, Runtime
<1> QED
  BY <1>13

\* Every step keeps the provenance of each object on record.
LEMMA OnRecordStep ==
  ASSUME TypeInv, TypeInv', MapInv, FlowsType, FlowsType', OnRecord, Grown,
         NEW t \in Threads, Program(t) \/ Runtime(t), Others(t), Effect(t)
  PROVE  OnRecord'
<1>1. DOMAIN FM' \subseteq ReallocIds /\ \A id \in DOMAIN FM' : flows'[id] # {}
  <2>1. CASE UNCHANGED FM
    BY <2>1 DEF OnRecord, Grown
  <2>2. CASE updateReallocChain(t)
    <3>1. arg[t].id \in ReallocIds /\ flows[arg[t].id] # {}
      BY <2>2 DEF updateReallocChain, OnRecord, ReallocPcs, TypeInv, ArgsFit, Constructible, CreatingPcs
    <3>2. DOMAIN FM' = DOMAIN FM \cup {arg[t].id}
      <4>1. FM' = emplace(FM, arg[t].id, chainThrough(arg[t].as))
        BY <2>2 DEF updateReallocChain
      <4> QED
        BY <4>1 DEF emplace
    <3> QED
      BY <3>1, <3>2 DEF OnRecord, Grown
  <2>3. CASE Program(t)
    BY <2>1, <2>3 DEF Program, CallAlloc, CallFree, CallRealloc, CallReallocNull, Access, tracker
  <2>4. CASE Runtime(t) /\ ~updateReallocChain(t)
    BY <2>1, <2>4 DEF Runtime, allocHook, deallocHook, reallocGet, reallocFresh, reallocLock, reallocRemove,
                      reallocInsert, faultLookup, faultInsert, faultLock, faultChain, faultReturn, Abort, tracker
  <2> QED
    BY <2>2, <2>3, <2>4
<1>2. \A p \in DOMAIN heap' : Flowed(heap[p].id, heap[p].prov)'
  <2> SUFFICES ASSUME NEW p \in DOMAIN heap' PROVE Flowed(heap[p].id, heap[p].prov)'
    OBVIOUS
  <2>1. (p \in DOMAIN heap /\ heap'[p] = heap[p]) \/ Flowed(heap[p].id, heap[p].prov)'
    BY OwnRecord
  <2>2. CASE p \in DOMAIN heap /\ heap'[p] = heap[p]
    BY <2>2 DEF OnRecord, Flowed, Grown
  <2> QED
    BY <2>1, <2>2
<1>3. ASSUME NEW u \in Threads, pc'[u] \in ReallocPcs
      PROVE  /\ arg'[u].id \in ReallocIds
             /\ arg'[u].ptr # Null => heap'[arg'[u].ptr].prov \ {arg'[u].id} \in flows'[arg'[u].id]
  <2>1. CASE u = t
    BY <1>3, <2>1, OwnRecord
  <2>2. CASE u # t
    <3>1. pc'[u] = pc[u] /\ arg'[u] = arg[u]
      BY <2>2 DEF Others
    <3>2. arg[u].ptr \in Addrs \cup {Null}
      BY DEF TypeInv, TypeOK, Args
    <3>3. arg[u].ptr # Null => heap'[arg[u].ptr] = heap[arg[u].ptr]
      BY <1>3, <2>2, <3>1, <3>2, HeapKept DEF Creating, CreatingPcs
    <3> QED
      BY <1>3, <3>1, <3>3 DEF OnRecord, Grown
  <2> QED
    BY <2>1, <2>2
<1> QED
  BY <1>1, <1>2, <1>3 DEF OnRecord

-----------------------------------------------------------------------------
(* InOrder.                                                                *)

\* Every key keeps one eraser at most while no entry is raced for.
LEMMA OneEraserStep ==
  ASSUME TypeInv, MapInv, raced = {}, OneEraser, NEW t \in Threads, Others(t), Effect(t)
  PROVE  OneEraser'
<1>1. CASE QuietEffect
  BY <1>1 DEF QuietEffect, OneEraser
<1>2. ASSUME \A k \in Addrs : ~PendingErase(t, k)' PROVE OneEraser'
  BY <1>2 DEF OneEraser, Others
<1>3. ASSUME NEW o \in Addrs \cup {Null}, NEW p \in Addrs \cup {Null}, HeapEffect(t, o, p) PROVE OneEraser'
  <2>1. \A k \in Addrs : PendingErase(t, k)' <=> k = o
    BY <1>3 DEF HeapEffect
  <2>2. o \in Addrs => \A u \in Threads : ~PendingErase(u, o)
    <3>1. o \in Addrs => Settled(o)
      BY <1>3, AddrsAssumption DEF HeapEffect
    <3> QED
      BY <3>1 DEF Settled, MapInv, CleanTracked
  <2> QED
    BY <2>1, <2>2 DEF OneEraser, Others
<1> QED
  BY <1>1, <1>2, <1>3 DEF Effect, InsertEffect, EraseEffect

\* An insertion that leaves raced non-empty is one that overtook an erase.
LEMMA RacedStep ==
  ASSUME raced = {}, NEW t \in Threads, Effect(t), ~overtaken'
  PROVE  raced' = {}
BY DEF Effect, QuietEffect, InsertEffect, EraseEffect, HeapEffect, insertAllocSite

\* Every settled object that came through other sites keeps a chain.
LEMMA SettledChainedStep ==
  ASSUME TypeInv, TypeInv', MapInv, SettledChained, Grown, NEW t \in Threads, HookKnows(t),
         Program(t) \/ Runtime(t), Others(t), Effect(t)
  PROVE  SettledChained'
<1> SUFFICES ASSUME NEW p \in DOMAIN heap', Settled(p)'
             PROVE  Chained(heap[p].id, heap[p].prov)'
  BY DEF SettledChained
<1>0. p \in Addrs
  BY DEF TypeInv, TypeOK
<1>1. /\ p \in DOMAIN heap /\ heap'[p] = heap[p]
      /\ Settled(p) \/ (Creating(t, p) /\ ~Creating(t, p)')
  BY <1>0, SettledFrom
<1>2. Chained(heap[p].id, heap[p].prov)
  <2>1. CASE Settled(p)
    BY <1>1, <2>1 DEF SettledChained
  <2>2. CASE Creating(t, p) /\ ~Creating(t, p)'
    <3>1. pc[t] \in {"alloc", "re_fresh", "re_insert"}
      BY <1>0, <2>2, Landing
    <3>2. arg[t].ptr = p /\ heap[p].id = arg[t].id /\ p # Null
      BY <1>0, <2>2, AddrsAssumption DEF MapInv, CreatorsOwn, Creating
    <3> QED
      BY <3>1, <3>2 DEF HookKnows, Chained
  <2> QED
    BY <1>1, <2>1, <2>2
<1> QED
  BY <1>1, <1>2 DEF Chained, Grown

\* The other threads' hooks find what they were going to find.
LEMMA OtherKnows ==
  ASSUME TypeInv, MapInv, OneEraser, OnRecord, Grown, NEW t \in Threads, Others(t), Effect(t),
         NEW u \in Threads \ {t}, HookKnows(u)
  PROVE  HookKnows(u)'
<1>0. pc'[u] = pc[u] /\ arg'[u] = arg[u] /\ arg[u].ptr \in Addrs \cup {Null} /\ arg[u].old \in Addrs \cup {Null}
  BY DEF Others, TypeInv, TypeOK, Args
<1>1. pc[u] \in CreatingPcs /\ arg[u].ptr # Null => heap'[arg[u].ptr] = heap[arg[u].ptr]
  BY <1>0, HeapKept DEF Creating
<1>2. pc[u] \in {"re_fresh", "re_chain", "re_extend", "re_remove", "re_insert"} => arg[u].ptr # Null
  BY DEF TypeInv, ArgsFit, CreatingPcs, ReallocPcs, Constructible
<1>3. ASSUME pc[u] = "re_get", arg[u].ptr # Null, arg[u].old # Null, arg[u].old \in DOMAIN allocation_map
      PROVE  arg[u].old \in DOMAIN allocation_map' /\ allocation_map'[arg[u].old] = allocation_map[arg[u].old]
  <2>1. PendingErase(u, arg[u].old) /\ arg[u].old \in Addrs
    BY <1>3, <1>0 DEF PendingErase
  <2>2. CASE QuietEffect
    BY <2>2, <1>3 DEF QuietEffect
  <2>3. ASSUME NEW x \in Addrs, InsertEffect(t, x)
        PROVE  arg[u].old \in DOMAIN allocation_map' /\ allocation_map'[arg[u].old] = allocation_map[arg[u].old]
    BY <2>3, <1>3 DEF InsertEffect, insertAllocSite, emplace
  <2>4. ASSUME NEW x \in Addrs \cup {Null}, EraseEffect(t, x)
        PROVE  arg[u].old \in DOMAIN allocation_map' /\ allocation_map'[arg[u].old] = allocation_map[arg[u].old]
    <3>1. x # arg[u].old
      BY <2>1, <2>4 DEF EraseEffect, OneEraser
    <3>2. allocation_map' = erase(allocation_map, x)
      BY <2>4 DEF EraseEffect, removeAllocSite
    <3> QED
      BY <3>1, <3>2, <1>3 DEF erase, Restrict
  <2>5. ASSUME NEW o \in Addrs \cup {Null}, NEW x \in Addrs \cup {Null}, HeapEffect(t, o, x)
        PROVE  UNCHANGED allocation_map
    BY <2>5 DEF HeapEffect
  <2> QED
    BY <1>3, <2>2, <2>3, <2>4, <2>5 DEF Effect
<1>4. (pc[u] = "alloc" /\ arg[u].ptr # Null => heap[arg[u].ptr].prov = {})'
  BY <1>0, <1>1 DEF HookKnows, CreatingPcs
<1>5. (pc[u] = "re_get" /\ arg[u].ptr # Null =>
         IF arg[u].old = Null THEN heap[arg[u].ptr].prov = {}
         ELSE arg[u].old \in DOMAIN allocation_map /\ MadeFrom(u, allocation_map[arg[u].old].id))'
  <2> SUFFICES ASSUME pc[u] = "re_get", arg[u].ptr # Null
               PROVE  IF arg[u].old = Null THEN heap'[arg[u].ptr].prov = {}
                      ELSE arg[u].old \in DOMAIN allocation_map' /\ MadeFrom(u, allocation_map[arg[u].old].id)'
    BY <1>0
  <2>1. CASE arg[u].old = Null
    BY <2>1, <1>1 DEF HookKnows, CreatingPcs, ReallocPcs
  <2>2. CASE arg[u].old # Null
    <3>1. arg[u].old \in DOMAIN allocation_map /\ MadeFrom(u, allocation_map[arg[u].old].id)
      BY <2>2 DEF HookKnows
    <3>2. arg[u].old \in DOMAIN allocation_map' /\ allocation_map'[arg[u].old] = allocation_map[arg[u].old]
      BY <3>1, <2>2, <1>3
    <3>3. \E P \in SUBSET Ids : heap'[arg'[u].ptr].prov = P \cup {allocation_map[arg[u].old].id}
                                /\ Flowed(allocation_map[arg[u].old].id, P)' /\ Chained(allocation_map[arg[u].old].id, P)'
      BY <3>1, <3>2, <1>0, <1>1 DEF MadeFrom, Flowed, Chained, Grown, CreatingPcs, ReallocPcs
    <3>4. MadeFrom(u, allocation_map[arg[u].old].id)'
      BY <3>2, <3>3, <1>0 DEF MadeFrom
    <3> QED
      BY <2>2, <3>2, <3>4
  <2> QED
    BY <2>1, <2>2
<1>6. (pc[u] = "re_fresh" => heap[arg[u].ptr].prov = {})'
  BY <1>0, <1>1, <1>2 DEF HookKnows, CreatingPcs, ReallocPcs
<1>7. (pc[u] \in {"re_chain", "re_extend"} => MadeFrom(u, arg[u].as.id))'
  <2> SUFFICES ASSUME pc[u] \in {"re_chain", "re_extend"} PROVE MadeFrom(u, arg[u].as.id)'
    BY <1>0
  <2>1. MadeFrom(u, arg[u].as.id)
    BY DEF HookKnows
  <2>2. PICK P \in SUBSET Ids : heap[arg[u].ptr].prov = P \cup {arg[u].as.id}
                                /\ Flowed(arg[u].as.id, P) /\ Chained(arg[u].as.id, P)
    BY <2>1 DEF MadeFrom
  <2>3. heap'[arg[u].ptr].prov = P \cup {arg[u].as.id}
    BY <2>2, <1>1, <1>2 DEF CreatingPcs, ReallocPcs
  <2>4. Flowed(arg[u].as.id, P)' /\ Chained(arg[u].as.id, P)'
    BY <2>2, <1>0 DEF Flowed, Chained, Grown
  <2> QED
    BY <2>3, <2>4, <1>0 DEF MadeFrom
<1>8. (pc[u] \in {"re_remove", "re_insert"} => Chained(arg[u].id, heap[arg[u].ptr].prov))'
  BY <1>0, <1>1, <1>2 DEF HookKnows, Chained, Grown, CreatingPcs, ReallocPcs
<1> QED
  BY <1>4, <1>5, <1>6, <1>7, <1>8 DEF HookKnows

\* The thread that steps knows what its next step needs.  A realloc of an object finds
\* the object's own entry, because no erase of it is pending and none was overtaken.
LEMMA OwnKnows ==
  ASSUME TypeInv, TypeInv', MapInv, FlowsType, OnRecord, InOrder, Grown,
         NEW t \in Threads, Program(t) \/ Runtime(t), Others(t)
  PROVE  HookKnows(t)'
<1>0. /\ pc \in [Threads -> {"idle"} \cup HookPcs \cup SegvPcs] /\ arg \in [Threads -> Args]
      /\ Null \notin Addrs /\ Addrs \subseteq Nat /\ Null = 0
      /\ DOMAIN heap \subseteq Addrs /\ DOMAIN allocation_map \subseteq Addrs
  BY AddrsAssumption DEF TypeInv, TypeOK, Null
<1>a. HookKnows(t) /\ arg[t].ptr \in Addrs \cup {Null} /\ arg[t].old \in Addrs \cup {Null}
  BY <1>0 DEF InOrder, Args
<1>b. DOMAIN allocation_map \subseteq Nat /\ \A k \in DOMAIN allocation_map : ~(k <= 0)
  <2>1. \A k \in DOMAIN allocation_map : k \in Nat /\ k # 0
    BY AddrsAssumption DEF TypeInv, TypeOK, Null
  <2> QED
    BY <2>1
<1>1. ASSUME NEW p, NEW n, NEW id, CallAlloc(t, p, n, id) PROVE HookKnows(t)'
  <2>1. pc'[t] = "alloc" /\ arg'[t].ptr = p
    BY <1>1, <1>0 DEF CallAlloc, Goto, HookArg
  <2>2. p # Null => heap'[p].prov = {}
    BY <1>1 DEF CallAlloc, put, Object
  <2> QED
    BY <2>1, <2>2 DEF HookKnows
<1>2. ASSUME pc'[t] \notin CreatingPcs PROVE HookKnows(t)'
  BY <1>2 DEF HookKnows, CreatingPcs, ReallocPcs
<1>3. ASSUME NEW p, CallFree(t, p) PROVE HookKnows(t)'
  BY <1>2, <1>3, <1>0 DEF CallFree, Goto, CreatingPcs, ReallocPcs
<1>4. ASSUME NEW o \in DOMAIN heap \cup {Null}, NEW p \in Addrs, NEW n, NEW id \in ReallocIds, CallRealloc(t, o, p, n, id)
      PROVE  HookKnows(t)'
  <2> DEFINE rest == IF o = Null THEN heap ELSE erase(heap, o)
             prov == IF o = Null THEN {} ELSE heap[o].prov \cup {heap[o].id}
  <2>1. /\ heap' = put(rest, p, Object(n, id, prov)) /\ arg' = [arg EXCEPT ![t] = HookArg(p, n, o, id)]
        /\ pc' = [pc EXCEPT ![t] = "re_get"] /\ UNCHANGED allocation_map
        /\ o # Null => Settled(o)
    BY <1>4 DEF CallRealloc, tracker, Goto
  <2>2. heap'[p].prov = prov
    BY <2>1 DEF put, Object
  <2>3. pc'[t] = "re_get" /\ arg'[t].ptr = p /\ arg'[t].old = o
    BY <2>1, <1>0 DEF HookArg
  <2>4. CASE o = Null
    BY <2>2, <2>3, <2>4 DEF HookKnows
  <2>5. CASE o # Null
    <3>1. o \in DOMAIN allocation_map /\ allocation_map[o] = Entry(o)
      BY <2>1, <2>5 DEF MapInv, CleanTracked, KeysAccounted, InOrder, Settled
    <3>2. allocation_map'[o].id = heap[o].id
      BY <2>1, <3>1 DEF Entry, AllocSite
    <3>3. Flowed(heap[o].id, heap[o].prov) /\ Chained(heap[o].id, heap[o].prov)
      BY <2>1, <2>5 DEF OnRecord, InOrder, SettledChained, Settled
    <3> DEFINE P == heap[o].prov
               i == heap[o].id
    <3>4. P \in SUBSET Ids
      BY <2>1, <2>5 DEF TypeInv, TypeOK, Objects, Settled
    <3>5. heap'[arg'[t].ptr].prov = P \cup {i}
      BY <2>2, <2>3, <2>5
    <3>6. /\ P \ {i} # {} \/ i \in ReallocIds \ AllocIds => i \in ReallocIds /\ P \ {i} \in flows'[i]
          /\ P \ {i} # {} => i \in DOMAIN FM'
      BY <3>3 DEF Flowed, Chained, Grown
    <3> HIDE DEF P, i
    <3>7. MadeFrom(t, allocation_map[arg[t].old].id)'
      <4>1. allocation_map'[arg'[t].old].id = i
        BY <2>3, <3>2 DEF i
      <4> QED
        BY <3>4, <3>5, <3>6, <4>1 DEF MadeFrom, Flowed, Chained
    <3> QED
      BY <2>1, <2>3, <2>5, <3>1, <3>7, <1>0 DEF HookKnows
  <2> QED
    BY <2>4, <2>5
<1>5. ASSUME NEW o, NEW n, NEW id, CallReallocNull(t, o, n, id) PROVE HookKnows(t)'
  <2>1. pc'[t] = "re_get" /\ arg'[t].ptr = Null
    BY <1>5, <1>0 DEF CallReallocNull, Goto, HookArg
  <2> QED
    BY <2>1 DEF HookKnows
<1>6. ASSUME NEW q, NEW k, Access(t, q, k) PROVE HookKnows(t)'
  BY <1>2, <1>6, <1>0 DEF Access, Goto, CreatingPcs, ReallocPcs
<1>7. ASSUME Abort PROVE HookKnows(t)'
  BY <1>7, <1>a DEF Abort, HookKnows, MadeFrom, Flowed, Chained, tracker, history
<1>8. ASSUME allocHook(t) \/ reallocFresh(t) \/ reallocInsert(t) \/ deallocHook(t) PROVE HookKnows(t)'
  BY <1>2, <1>7, <1>8, <1>0 DEF allocHook, reallocFresh, reallocInsert, deallocHook, Return, Goto, CreatingPcs, ReallocPcs
<1>9. ASSUME reallocGet(t), ~Abort PROVE HookKnows(t)'
  <2> DEFINE oldAS == lookup(allocation_map, arg[t].old)
  <2>1. /\ arg' = [arg EXCEPT ![t] = [arg[t] EXCEPT !.as = oldAS]] /\ pc[t] = "re_get"
        /\ pc' = [pc EXCEPT ![t] = IF isValid(oldAS) THEN "re_chain" ELSE "re_fresh"]
        /\ UNCHANGED <<heap, allocation_map, flows, FM>> /\ arg[t].ptr # Null
    BY <1>9, <1>0 DEF reallocGet, Args, Goto, tracker, history, Constructible
  <2>2. CASE arg[t].old = Null
    <3>1. ~isValid(oldAS)
      <4>1. oldAS = error
        <5>1. oldAS = lookup(allocation_map, 0)
          BY <2>2, <1>0
        <5>2. lookup(allocation_map, 0) = error \/ \E k \in DOMAIN allocation_map : k <= 0
          BY <1>b, LookupRange
        <5> QED
          BY <5>1, <5>2, <1>b
      <4> QED
        BY <4>1 DEF isValid, error, AllocSite
    <3>2. heap[arg[t].ptr].prov = {}
      BY <2>1, <2>2, <1>a DEF HookKnows
    <3> HIDE DEF oldAS
    <3>3. pc'[t] = "re_fresh" /\ arg'[t].ptr = arg[t].ptr
      BY <2>1, <3>1, <1>0 DEF Args
    <3> QED
      BY <2>1, <3>2, <3>3 DEF HookKnows
  <2>3. CASE arg[t].old # Null
    <3>1. arg[t].old \in DOMAIN allocation_map /\ MadeFrom(t, allocation_map[arg[t].old].id)
      BY <2>1, <2>3, <1>a DEF HookKnows
    <3>2. arg[t].old \in Nat /\ DOMAIN allocation_map \subseteq Nat
      BY <3>1, <1>b
    <3>3. oldAS = allocation_map[arg[t].old]
      BY <3>1, <3>2, LookupRange
    <3>4. isValid(oldAS)
      <4>1. allocation_map[arg[t].old] \in Tracked
        BY <3>1 DEF TypeInv, TypeOK
      <4>2. TypeOK
        BY DEF TypeInv
      <4> QED
        BY <4>1, <4>2, <3>2, <3>3, LookupType
    <3> HIDE DEF oldAS
    <3>5. pc'[t] = "re_chain" /\ arg'[t].ptr = arg[t].ptr /\ arg'[t].as = oldAS
      BY <2>1, <3>4, <1>0 DEF Args
    <3>6. MadeFrom(t, arg[t].as.id)'
      BY <2>1, <3>1, <3>3, <3>5 DEF MadeFrom, Flowed, Chained
    <3> QED
      BY <3>5, <3>6 DEF HookKnows
  <2> QED
    BY <2>2, <2>3
<1>13. ASSUME reallocLock(t) PROVE HookKnows(t)'
  <2>1. pc[t] = "re_chain" /\ pc'[t] = "re_extend" /\ UNCHANGED <<arg, heap, FM, flows>>
    BY <1>13, <1>0 DEF reallocLock, Goto, history
  <2> QED
    BY <2>1, <1>a DEF HookKnows, MadeFrom, Flowed, Chained
<1>10. ASSUME updateReallocChain(t) PROVE HookKnows(t)'
  <2>1. FM' = emplace(FM, arg[t].id, chainThrough(arg[t].as)) /\ pc'[t] = "re_remove" /\ arg' = arg
    BY <1>10, <1>0 DEF updateReallocChain, Goto
  <2>2. arg[t].id \in DOMAIN FM'
    BY <2>1 DEF emplace
  <2> QED
    BY <2>1, <2>2 DEF HookKnows, Chained
<1>11. ASSUME reallocRemove(t) PROVE HookKnows(t)'
  <2>1. pc[t] = "re_remove" /\ pc'[t] = "re_insert" /\ UNCHANGED <<arg, heap, FM>>
    BY <1>11, <1>0 DEF reallocRemove, Goto
  <2> QED
    BY <2>1, <1>a DEF HookKnows, Chained
<1>12. ASSUME faultLookup(t) \/ faultInsert(t) \/ faultLock(t) \/ faultChain(t) \/ faultReturn(t) PROVE HookKnows(t)'
  BY <1>2, <1>12, <1>0 DEF faultLookup, faultInsert, faultLock, faultChain, faultReturn, Return, Goto, CreatingPcs, ReallocPcs
<1> QED
  BY <1>1, <1>3, <1>4, <1>5, <1>6, <1>7, <1>8, <1>9, <1>10, <1>11, <1>12, <1>13 DEF Program, Runtime

\* What flows later cannot make a site plain again.
LEMMA PlainEarlier ==
  ASSUME Grown, DOMAIN flows = ReallocIds, NEW id \in ReallocIds, Plain(id)'
  PROVE  Plain(id) /\ \A F \in flows[id], G \in flows'[id] : F = G
<1>1. \A x : Single(x)' => Single(x)
  BY DEF Single, Grown
<1> QED
  BY <1>1 DEF Plain, Grown, Single

\* The chain updateReallocChain builds from the old site's chain is as complete as that one.
LEMMA NewChain ==
  ASSUME TypeInv, FlowsType, OnRecord, ChainsComplete, NEW t \in Threads, pc[t] = "re_extend",
         MadeFrom(t, arg[t].as.id), arg[t].id \notin DOMAIN FM, Plain(arg[t].id), NEW F \in flows[arg[t].id]
  PROVE  F \subseteq chainThrough(arg[t].as)
<1> DEFINE r == arg[t].id
           o == arg[t].as.id
<1>1. PICK P \in SUBSET Ids : heap[arg[t].ptr].prov = P \cup {o} /\ Flowed(o, P) /\ Chained(o, P)
  BY DEF MadeFrom
<1>2. r \in ReallocIds /\ (P \cup {o}) \ {r} \in flows[r]
  BY <1>1 DEF OnRecord, ReallocPcs, TypeInv, ArgsFit, CreatingPcs, Constructible
<1>3. F = (P \cup {o}) \ {r}
  BY <1>2 DEF Plain, Single
<1>4. o \in chainThrough(arg[t].as) /\ (o \in DOMAIN FM => FM[o] \subseteq chainThrough(arg[t].as))
  BY DEF chainThrough
<1>5. \A x \in F : Single(x)
  BY DEF Plain
<1>6. Single(r) /\ r \notin DOMAIN FM
  BY DEF Plain
<1> HIDE DEF r, o
<1>7. CASE P \ {o} = {}
  BY <1>3, <1>4, <1>7
<1>8. CASE P \ {o} # {}
  <2>1. o \in ReallocIds /\ P \ {o} \in flows[o] /\ o \in DOMAIN FM
    BY <1>1, <1>8 DEF Flowed, Chained
  <2>2. o # r
    BY <2>1, <1>6
  <2>3. \A x \in P \cup {o} : Single(x)
    BY <1>3, <1>5, <1>6
  <2>4. \A G \in flows[o] : G = P \ {o}
    BY <2>1, <2>3 DEF Single
  <2>5. Plain(o)
    BY <2>3, <2>4 DEF Plain
  <2>6. P \ {o} \subseteq FM[o]
    BY <2>1, <2>5 DEF ChainsComplete
  <2> QED
    BY <2>1, <2>6, <1>3, <1>4
<1> QED
  BY <1>7, <1>8

\* A chain that is complete stays so, and a new one is.
LEMMA ChainsCompleteStep ==
  ASSUME TypeInv, FlowsType, OnRecord, ChainsComplete, Grown, NEW t \in Threads, HookKnows(t),
         Program(t) \/ Runtime(t)
  PROVE  ChainsComplete'
<1> SUFFICES ASSUME NEW id \in DOMAIN FM', Plain(id)', NEW F \in flows'[id]
             PROVE  F \subseteq FM'[id]
  BY DEF ChainsComplete
<1>1. CASE id \in DOMAIN FM
  <2>1. id \in ReallocIds /\ DOMAIN flows = ReallocIds
    BY <1>1 DEF OnRecord, FlowsType
  <2>2. Plain(id) /\ \A G \in flows[id], H \in flows'[id] : G = H
    BY <2>1, PlainEarlier
  <2>3. PICK G : G \in flows[id]
    BY <1>1 DEF OnRecord
  <2>4. F = G /\ G \subseteq FM[id] /\ FM'[id] = FM[id]
    BY <1>1, <2>2, <2>3 DEF ChainsComplete, Grown
  <2> QED
    BY <2>4
<1>2. CASE id \notin DOMAIN FM
  <2>1. updateReallocChain(t)
    <3>1. FM' # FM
      BY <1>2
    <3>2. ~Program(t)
      BY <3>1 DEF Program, CallAlloc, CallFree, CallRealloc, CallReallocNull, Access, tracker
    <3> QED
      BY <3>1, <3>2 DEF Runtime, allocHook, deallocHook, reallocGet, reallocFresh, reallocLock, reallocRemove,
                        reallocInsert, faultLookup, faultInsert, faultLock, faultChain, faultReturn, Abort, tracker
  <2>2. FM' = emplace(FM, arg[t].id, chainThrough(arg[t].as)) /\ UNCHANGED flows /\ pc[t] = "re_extend"
    BY <2>1 DEF updateReallocChain, history
  <2>3. id = arg[t].id /\ FM'[id] = chainThrough(arg[t].as)
    BY <1>2, <2>2 DEF emplace
  <2>4. Plain(id) /\ F \in flows[id]
    BY <2>2 DEF Plain, Single
  <2>5. MadeFrom(t, arg[t].as.id)
    BY <2>2 DEF HookKnows
  <2> QED
    BY <1>2, <2>2, <2>3, <2>4, <2>5, NewChain
<1> QED
  BY <1>1, <1>2

-----------------------------------------------------------------------------
(* The invariant holds.                                                    *)

\* The invariant of the chains holds at first,
LEMMA ChainInit == Init => ChainInv
<1> SUFFICES ASSUME Init PROVE ChainInv
  OBVIOUS
<1>1. FlowsType
  BY FS_EmptySet DEF Init, FlowsType
<1>2. DOMAIN FM = {} /\ DOMAIN heap = {} /\ \A t \in Threads : pc[t] = "idle"
  BY DEF Init, EmptyMap
<1>3. OnRecord
  BY <1>2 DEF OnRecord, ReallocPcs
<1>4. raced = {} /\ OneEraser /\ SettledChained /\ ChainsComplete
  BY <1>2 DEF Init, OneEraser, PendingErase, SettledChained, ChainsComplete
<1>5. \A t \in Threads : HookKnows(t)
  BY <1>2 DEF HookKnows
<1> QED
  BY <1>1, <1>3, <1>4, <1>5 DEF ChainInv, InOrder

\* and every step keeps it.
LEMMA ChainStep == TypeInv /\ MapInv /\ ChainInv /\ [Next]_vars => ChainInv'
<1> SUFFICES ASSUME TypeInv, MapInv, ChainInv, [Next]_vars PROVE ChainInv'
  OBVIOUS
<1>0. TypeInv'
  BY TypeStep
<1>1. CASE UNCHANGED vars \/ Terminated
  <2>0. UNCHANGED <<heap, allocation_map, FM, pc, arg, raced, overtaken, flows>>
    BY <1>1 DEF Terminated, vars, tracker, history
  <2>1. FlowsType' /\ OnRecord'
    BY <2>0 DEF ChainInv, FlowsType, OnRecord, Flowed
  <2>2. InOrder => InOrder'
    <3> SUFFICES ASSUME InOrder PROVE InOrder'
      OBVIOUS
    <3>1. (raced = {} /\ OneEraser /\ SettledChained)'
      BY <2>0 DEF InOrder, OneEraser, PendingErase, SettledChained, Settled, Creating, Chained
    <3>2. ChainsComplete'
      BY <2>0 DEF InOrder, ChainsComplete, Plain, Single
    <3>3. (\A t \in Threads : HookKnows(t))'
      BY <2>0, ZenonT(60) DEF InOrder, HookKnows, MadeFrom, Flowed, Chained
    <3> QED
      BY <3>1, <3>2, <3>3 DEF InOrder
  <2> QED
    BY <2>0, <2>1, <2>2 DEF ChainInv
<1>2. ASSUME NEW t \in Threads, Program(t) \/ Runtime(t) PROVE ChainInv'
  <2>1. Others(t) /\ Effect(t)
    BY <1>2, StepEffect
  <2>2. FlowsType' /\ Grown
    BY <1>0, <1>2, GrowStep DEF ChainInv
  <2>3. OnRecord'
    BY <1>0, <1>2, <2>1, <2>2, OnRecordStep DEF ChainInv
  <2>4. ASSUME ~overtaken' PROVE InOrder'
    <3>1. InOrder
      BY <2>2, <2>4 DEF ChainInv, Grown
    <3>2. raced' = {} /\ OneEraser'
      BY <3>1, <2>1, <2>4, RacedStep, OneEraserStep DEF InOrder
    <3>3. SettledChained'
      BY <3>1, <1>0, <1>2, <2>1, <2>2, SettledChainedStep DEF InOrder
    <3>4. ChainsComplete'
      BY <3>1, <1>2, <2>2, ChainsCompleteStep DEF InOrder, ChainInv
    <3>5. ASSUME NEW u \in Threads PROVE HookKnows(u)'
      <4>1. CASE u = t
        BY <3>1, <4>1, <1>0, <1>2, <2>1, <2>2, OwnKnows DEF ChainInv
      <4>2. CASE u # t
        BY <3>1, <4>2, <2>1, <2>2, OtherKnows DEF ChainInv, InOrder
      <4> QED
        BY <4>1, <4>2
    <3> QED
      BY <3>2, <3>3, <3>4, <3>5 DEF InOrder
  <2> QED
    BY <2>2, <2>3, <2>4 DEF ChainInv
<1> QED
  BY <1>1, <1>2 DEF Next

\* Until a hook is overtaken, reallocHook always finds the site the old object came from,
\* and FM leaves out no origin of a site that is fed from one provenance.
THEOREM ChainInvCorrect == Spec => []ChainInv
<1>1. Init => ChainInv
  BY ChainInit
<1>2. TypeInv /\ MapInv /\ ChainInv /\ [Next]_vars => ChainInv'
  BY ChainStep
<1> QED
  BY <1>1, <1>2, MapInvariant, PTL DEF Spec

-----------------------------------------------------------------------------
(* The comment in addFaultAlloc.                                           *)

\* A finite set with no more than one element.
LEMMA AtMostOne ==
  ASSUME NEW S, IsFiniteSet(S), Cardinality(S) <= 1, NEW x \in S, NEW y \in S
  PROVE  x = y
<1>1. SUFFICES ASSUME x # y PROVE FALSE
  OBVIOUS
<1>2. IsFiniteSet({}) /\ Cardinality({}) = 0
  BY FS_EmptySet
<1>3. IsFiniteSet({x}) /\ Cardinality({x}) = 1
  <2>1. IsFiniteSet({} \cup {x}) /\ Cardinality({} \cup {x}) = Cardinality({}) + 1
    BY <1>2, FS_AddElement
  <2> QED
    BY <2>1, <1>2
<1>4. IsFiniteSet({x, y}) /\ Cardinality({x, y}) = 2
  <2>1. Cardinality({x} \cup {y}) = Cardinality({x}) + 1 /\ IsFiniteSet({x} \cup {y})
    BY <1>1, <1>3, FS_AddElement
  <2>2. {x} \cup {y} = {x, y}
    OBVIOUS
  <2> QED
    BY <2>1, <2>2, <1>3
<1>5. Cardinality({x, y}) <= Cardinality(S) /\ Cardinality(S) \in Nat
  <2>1. {x, y} \in SUBSET S
    OBVIOUS
  <2> QED
    BY <2>1, FS_Subset, FS_CardinalityType
<1> QED
  BY <1>4, <1>5

\* An object of one provenance comes from a plain site, which has its whole provenance
\* in its chain if it has any.
LEMMA WholeChain ==
  ASSUME TypeInv, FlowsType, OnRecord, InOrder, NEW p \in DOMAIN heap, Settled(p), OneProvenance(p)
  PROVE  heap[p].prov \subseteq {heap[p].id} \cup (IF heap[p].id \in DOMAIN FM THEN FM[heap[p].id] ELSE {})
<1> DEFINE i == heap[p].id
           P == heap[p].prov
<1>1. \A x \in P \cup {i} : Single(x)
  <2> SUFFICES ASSUME NEW x \in P \cup {i}, x \in ReallocIds, NEW F \in flows[x], NEW G \in flows[x] PROVE F = G
    BY DEF Single
  <2>1. Cardinality(flows[x]) <= 1 /\ IsFiniteSet(flows[x])
    BY DEF OneProvenance, FlowsType
  <2> QED
    BY <2>1, AtMostOne
<1>2. Flowed(i, P) /\ Chained(i, P)
  BY DEF OnRecord, InOrder, SettledChained
<1> HIDE DEF i, P
<1>3. CASE P \ {i} = {}
  BY <1>3 DEF i, P
<1>4. CASE P \ {i} # {}
  <2>1. i \in ReallocIds /\ P \ {i} \in flows[i] /\ i \in DOMAIN FM
    BY <1>2, <1>4 DEF Flowed, Chained
  <2>2. \A F \in flows[i] : F = P \ {i}
    BY <2>1, <1>1 DEF Single
  <2>3. Plain(i)
    BY <2>2, <1>1 DEF Plain
  <2>4. P \ {i} \subseteq FM[i]
    BY <2>1, <2>3 DEF InOrder, ChainsComplete
  <2> QED
    BY <2>1, <2>4 DEF i, P
<1> QED
  BY <1>3, <1>4

\* getAllocSite finds a valid site for a fault on an undisturbed object.
LEMMA FoundSite ==
  ASSUME TypeInv, MapInv, FaultsInFlight, NEW t \in Threads, pc[t] = "segv_lookup", arg[t].obj \in Addrs
  PROVE  isValid(lookup(allocation_map, arg[t].addr))
<1> DEFINE p == arg[t].obj
<1>1. Settled(p) /\ Undisturbed(p) /\ arg[t].addr \in Footprint(p, heap[p].size)
  BY DEF FaultsInFlight, SegvPcs
<1>2. lookup(allocation_map, arg[t].addr) = Entry(p)
  BY <1>1, AttributionFromInv DEF AttributionExact, Settled
<1>3. p \in DOMAIN heap /\ heap[p].size > 0 /\ heap[p].id \in Ids /\ p # Null
  BY <1>1, AddrsAssumption DEF MapInv, CreatorsOwn, Settled, TypeInv, TypeOK, Objects
<1> HIDE DEF p
<1>4. isValid(Entry(p))
  BY <1>3, IdsAssumption DEF isValid, Entry, AllocSite
<1> QED
  BY <1>2, <1>4

\* The origins of what is recorded are recorded with it.
LEMMA OriginsStep ==
  TypeInv /\ MapInv /\ FaultsInFlight /\ ChainInv /\ OriginsMarked /\ [Next]_vars => OriginsMarked'
<1> SUFFICES ASSUME TypeInv, MapInv, FaultsInFlight, ChainInv, OriginsMarked, [Next]_vars PROVE OriginsMarked'
  OBVIOUS
<1>0. /\ TypeInv' /\ FaultsInFlight' /\ ChainInv'
      /\ IdsOf(fault_set) \subseteq IdsOf(fault_set')
  BY TypeStep, FaultStep, ChainStep, RecordsStep DEF IdsOf
<1>1. CASE UNCHANGED vars \/ Terminated
  BY <1>1 DEF Terminated, vars, tracker, history, OriginsMarked, OneProvenance
<1>2. ASSUME NEW t \in Threads, Program(t) \/ Runtime(t) PROVE OriginsMarked'
  <2>1. Others(t) /\ Effect(t)
    BY <1>2, StepEffect
  <2>2. FlowsType' /\ Grown
    BY <1>0, <1>2, GrowStep DEF ChainInv
  <2> SUFFICES ASSUME NEW u \in Threads, pc'[u] = "segv_return", arg'[u].obj # Null, ~overtaken',
                      OneProvenance(arg[u].obj)'
               PROVE  heap'[arg'[u].obj].prov \subseteq IdsOf(fault_set')
    BY DEF OriginsMarked
  <2>3. ASSUME pc[u] \in SegvPcs, arg'[u].obj = arg[u].obj
        PROVE  LET p == arg[u].obj IN
               /\ p \in Addrs /\ p \in DOMAIN heap /\ heap'[p] = heap[p] /\ Settled(p) /\ OneProvenance(p)
    <3> DEFINE p == arg[u].obj
    <3>1. p \in Addrs
      BY <2>3 DEF TypeInv, TypeOK, Args
    <3>2. Settled(p) /\ Undisturbed(p) /\ InUse(p)
      BY <2>3, <3>1 DEF FaultsInFlight, InUse
    <3>3. heap'[p] = heap[p] /\ p \in DOMAIN heap
      BY <3>1, <3>2, <2>1, <1>0, Protected DEF Settled
    <3>4. OneProvenance(p)
      <4>1. \A id \in (heap[p].prov \cup {heap[p].id}) \cap ReallocIds : Cardinality(flows'[id]) <= 1
        BY <2>3, <3>3 DEF OneProvenance
      <4> SUFFICES ASSUME NEW id \in (heap[p].prov \cup {heap[p].id}) \cap ReallocIds
                   PROVE  Cardinality(flows[id]) <= 1
        BY DEF OneProvenance
      <4>2. IsFiniteSet(flows'[id]) /\ flows[id] \in SUBSET flows'[id]
        BY <2>2 DEF FlowsType, Grown
      <4>3. /\ Cardinality(flows[id]) <= Cardinality(flows'[id])
            /\ Cardinality(flows[id]) \in Nat /\ Cardinality(flows'[id]) \in Nat
        BY <4>2, FS_Subset, FS_CardinalityType
      <4> QED
        BY <4>1, <4>3
    <3> QED
      BY <3>1, <3>2, <3>3, <3>4
  <2>4. CASE pc[u] = "segv_return" /\ arg'[u] = arg[u]
    <3>1. heap'[arg[u].obj] = heap[arg[u].obj] /\ OneProvenance(arg[u].obj)
      BY <2>3, <2>4 DEF SegvPcs
    <3>2. ~overtaken
      BY <2>2 DEF Grown
    <3> QED
      BY <2>4, <3>1, <3>2, <1>0 DEF OriginsMarked
  <2>5. CASE u # t
    BY <2>1, <2>4, <2>5 DEF Others
  <2>6. CASE u = t
    <3>a. pc \in [Threads -> {"idle"} \cup HookPcs \cup SegvPcs] /\ arg \in [Threads -> Args]
      BY DEF TypeInv, TypeOK
    <3>1. faultLookup(t) \/ faultChain(t) \/ Abort
      <4>1. ~Program(t)
        <5>1. ASSUME NEW p, NEW n, NEW id, CallAlloc(t, p, n, id) PROVE FALSE
          BY <5>1, <3>a, <2>6 DEF CallAlloc, Goto
        <5>2. ASSUME NEW p, CallFree(t, p) PROVE FALSE
          BY <5>2, <3>a, <2>6 DEF CallFree, Goto
        <5>3. ASSUME NEW o, NEW p, NEW n, NEW id, CallRealloc(t, o, p, n, id) PROVE FALSE
          BY <5>3, <3>a, <2>6 DEF CallRealloc, Goto
        <5>4. ASSUME NEW o, NEW n, NEW id, CallReallocNull(t, o, n, id) PROVE FALSE
          BY <5>4, <3>a, <2>6 DEF CallReallocNull, Goto
        <5>5. ASSUME NEW q, NEW k, Access(t, q, k) PROVE FALSE
          BY <5>5, <3>a, <2>6 DEF Access, Goto
        <5> QED
          BY <5>1, <5>2, <5>3, <5>4, <5>5 DEF Program
      <4> QED
        BY <4>1, <1>2, <3>a, <2>6 DEF Runtime, allocHook, deallocHook, reallocGet, reallocFresh, reallocLock, updateReallocChain,
           reallocRemove, reallocInsert, faultInsert, faultLock, faultReturn, Return, Goto
    <3>2. CASE Abort
      BY <3>2, <2>4 DEF Abort
    <3>3. CASE faultLookup(t)
      <4> DEFINE alloc == lookup(allocation_map, arg[t].addr)
      <4>1. /\ pc[t] = "segv_lookup"
            /\ arg' = [arg EXCEPT ![t] = [arg[t] EXCEPT !.as = alloc]]
            /\ pc' = [pc EXCEPT ![t] = IF isValid(alloc) THEN "segv_insert" ELSE "segv_return"]
        BY <3>3, <3>a DEF faultLookup, Goto, Args
      <4>2. arg[t].obj \in Addrs => isValid(alloc)
        BY <4>1, FoundSite
      <4> HIDE DEF alloc
      <4>3. arg'[t].obj = arg[t].obj /\ arg[t].obj \in Addrs \cup {Null}
        BY <4>1, <3>a DEF Args
      <4> QED
        BY <4>1, <4>2, <4>3, <3>a, <2>6
    <3>4. CASE faultChain(t)
      <4> DEFINE p == arg[t].obj
                 chain == IF heap[p].id \in DOMAIN FM THEN FM[heap[p].id] ELSE {}
      <4>1. /\ pc[t] = "segv_walk" /\ UNCHANGED <<heap, FM, arg>>
            /\ fault_set' = fault_set \cup {[id |-> i, pkey |-> arg[t].pkey] :
                 i \in (IF arg[t].as.id \in DOMAIN FM THEN FM[arg[t].as.id] ELSE {}) \ IdsOf(fault_set)}
        BY <3>4 DEF faultChain
      <4>2. p \in Addrs /\ p \in DOMAIN heap /\ Settled(p) /\ OneProvenance(p)
        BY <4>1, <2>3, <2>6 DEF SegvPcs
      <4>3. arg[t].as.id = heap[p].id /\ heap[p].id \in IdsOf(fault_set)
        <5>1. arg[t].as = Entry(p) /\ heap[p].id \in IdsOf(fault_set)
          BY <4>1, <4>2 DEF FaultsInFlight, SegvPcs
        <5>2. Entry(p).id = heap[p].id
          BY DEF Entry, AllocSite
        <5> QED
          BY <5>1, <5>2
      <4>4. heap[p].prov \subseteq {heap[p].id} \cup chain
        <5>1. InOrder
          BY <2>2 DEF ChainInv, Grown
        <5> QED
          BY <4>2, <5>1, WholeChain DEF ChainInv
      <4>5. fault_set' = fault_set \cup {[id |-> i, pkey |-> arg[t].pkey] : i \in chain \ IdsOf(fault_set)}
        BY <4>1, <4>3
      <4> HIDE DEF chain
      <4>6. chain \subseteq IdsOf(fault_set')
        <5> SUFFICES ASSUME NEW i \in chain, i \notin IdsOf(fault_set) PROVE i \in IdsOf(fault_set')
          BY <1>0
        <5>1. [id |-> i, pkey |-> arg[t].pkey] \in fault_set' /\ [id |-> i, pkey |-> arg[t].pkey].id = i
          BY <4>5
        <5> QED
          BY <5>1 DEF IdsOf
      <4> QED
        BY <4>1, <4>3, <4>4, <4>6, <1>0, <2>6
    <3> QED
      BY <3>1, <3>2, <3>3, <3>4
  <2> QED
    BY <2>5, <2>6
<1> QED
  BY <1>1, <1>2 DEF Next

\* A fault on a reallocated object marks every site the object came through, as the comment
\* in addFaultAlloc says, provided no realloc site involved mixes provenances and no hook
\* has been overtaken; for any number of threads, objects and links of the chain.
THEOREM OriginsMarkedCorrect == Spec => []OriginsMarked
<1>1. Init => OriginsMarked
  BY DEF Init, OriginsMarked
<1>2. TypeInv /\ MapInv /\ FaultsInFlight /\ ChainInv /\ OriginsMarked /\ [Next]_vars => OriginsMarked'
  BY OriginsStep
<1>3. IndInv => FaultsInFlight
  BY DEF IndInv
<1> QED
  BY <1>1, <1>2, <1>3, MapInvariant, IndInvCorrect, ChainInvCorrect, PTL DEF Spec

-----------------------------------------------------------------------------
(* Runs in which no hook is overtaken.                                     *)

\* Until a hook is overtaken, getAllocSite finds every object the program holds by its
\* pointer, as the comment on AllocSiteHandler says.
THEOREM AttributionUnlessOvertaken == Spec => [](overtaken \/ AttributionAlways)
<1>1. TypeInv /\ MapInv /\ ChainInv => overtaken \/ AttributionAlways
  <2> SUFFICES ASSUME TypeInv, MapInv, InOrder, NEW p \in DOMAIN heap, Settled(p)
               PROVE  lookup(allocation_map, p) = Entry(p)
    BY DEF ChainInv, AttributionAlways
  <2>1. p \in DOMAIN allocation_map /\ allocation_map[p] = Entry(p)
    BY DEF MapInv, CleanTracked, KeysAccounted, InOrder
  <2>2. p \in Nat /\ DOMAIN allocation_map \subseteq Nat
    BY AddrsAssumption DEF TypeInv, TypeOK
  <2> QED
    BY <2>1, <2>2, LookupRange
<1> QED
  BY <1>1, MapInvariant, ChainInvCorrect, PTL

\* With a single thread no hook is ever overtaken.
LEMMA NeverOvertaken ==
  ASSUME \A t, u \in Threads : t = u
  PROVE  Spec => []~overtaken
<1>1. Init => ~overtaken
  BY DEF Init
<1>2. ~overtaken /\ [Next]_vars => ~overtaken'
  <2> SUFFICES ASSUME ~overtaken, [Next]_vars PROVE ~overtaken'
    OBVIOUS
  <2>1. CASE UNCHANGED vars \/ Terminated
    BY <2>1 DEF Terminated, vars, history
  <2>2. ASSUME NEW t \in Threads, Program(t) PROVE UNCHANGED overtaken
    BY <2>2 DEF Program, CallAlloc, CallFree, CallRealloc, CallReallocNull, Access, history
  <2>3. ASSUME NEW t \in Threads, allocHook(t) \/ reallocFresh(t) \/ reallocInsert(t) PROVE ~overtaken'
    BY <2>3 DEF allocHook, reallocFresh, reallocInsert, Abort, history, insertAllocSite
  <2>4. ASSUME NEW t \in Threads, deallocHook(t) \/ reallocGet(t) \/ reallocLock(t) \/ updateReallocChain(t) \/ reallocRemove(t)
               \/ faultLookup(t) \/ faultInsert(t) \/ faultLock(t) \/ faultChain(t) \/ faultReturn(t)
        PROVE  UNCHANGED overtaken
    BY <2>4 DEF deallocHook, reallocGet, reallocLock, updateReallocChain, reallocRemove, faultLookup, faultInsert,
                faultLock, faultChain, faultReturn, Abort, history
  <2> QED
    BY <2>1, <2>2, <2>3, <2>4 DEF Next, Runtime
<1> QED
  BY <1>1, <1>2, PTL DEF Spec

\* In a single-threaded program getAllocSite finds every object the program holds, always.
THEOREM AttributionAlwaysCorrect ==
  ASSUME \A t, u \in Threads : t = u
  PROVE  Spec => []AttributionAlways
<1>1. Spec => []~overtaken
  BY NeverOvertaken
<1> QED
  BY <1>1, AttributionUnlessOvertaken, PTL

-----------------------------------------------------------------------------
(* Nobody is blamed without cause: one thread, and a hook is either an     *)
(* allocHook or a reallocHook.                                             *)

AllSingle == \A id \in ReallocIds : Single(id)

\* Where no site mixes provenances, a chain names only sites its objects came through.
ChainsExact == AllSingle => \A id \in DOMAIN FM : \A F \in flows[id] : FM[id] \subseteq F \cup {id}

ExactInv == overtaken \/ ChainsExact

\* Every step keeps the chains exact until a hook is overtaken.
LEMMA ExactStep ==
  ASSUME AllocIds \cap ReallocIds = {}
  PROVE  TypeInv /\ MapInv /\ ChainInv /\ ExactInv /\ [Next]_vars => ExactInv'
<1> SUFFICES ASSUME TypeInv, MapInv, ChainInv, ExactInv, [Next]_vars, ~overtaken' PROVE ChainsExact'
  BY DEF ExactInv
<1>1. CASE UNCHANGED vars \/ Terminated
  BY <1>1 DEF Terminated, vars, tracker, history, ExactInv, ChainsExact, AllSingle, Single
<1>2. ASSUME NEW t \in Threads, Program(t) \/ Runtime(t) PROVE ChainsExact'
  <2>1. TypeInv' /\ FlowsType' /\ Grown /\ OnRecord
    BY <1>2, TypeStep, GrowStep DEF ChainInv
  <2>2. InOrder /\ ChainsExact
    BY <2>1 DEF Grown, ChainInv, ExactInv
  <2> SUFFICES ASSUME AllSingle', NEW id \in DOMAIN FM', NEW F \in flows'[id] PROVE FM'[id] \subseteq F \cup {id}
    BY DEF ChainsExact
  <2>3. AllSingle
    BY <2>1 DEF AllSingle, Single, Grown
  <2>4. CASE id \in DOMAIN FM
    <3>1. id \in ReallocIds
      BY <2>1, <2>4 DEF OnRecord
    <3>2. PICK G : G \in flows[id]
      BY <2>1, <2>4 DEF OnRecord
    <3>3. G \in flows'[id]
      BY <2>1, <3>1, <3>2 DEF Grown
    <3>4. F = G
      BY <3>1, <3>3 DEF AllSingle, Single
    <3> QED
      BY <2>1, <2>2, <2>3, <2>4, <3>2, <3>4 DEF ChainsExact, Grown
  <2>5. CASE id \notin DOMAIN FM
    <3>1. updateReallocChain(t)
      <4>1. FM' # FM
        BY <2>5
      <4>2. ~Program(t)
        BY <4>1 DEF Program, CallAlloc, CallFree, CallRealloc, CallReallocNull, Access, tracker
      <4> QED
        BY <4>1, <4>2, <1>2 DEF Runtime, allocHook, deallocHook, reallocGet, reallocFresh, reallocLock,
                          reallocRemove, reallocInsert, faultLookup, faultInsert, faultLock, faultChain, faultReturn, Abort, tracker
    <3>2. FM' = emplace(FM, arg[t].id, chainThrough(arg[t].as)) /\ pc[t] = "re_extend" /\ UNCHANGED flows
      BY <3>1 DEF updateReallocChain, history
    <3>3. id = arg[t].id /\ FM'[id] = chainThrough(arg[t].as)
      BY <2>5, <3>2 DEF emplace
    <3> DEFINE o == arg[t].as.id
    <3>4. PICK P \in SUBSET Ids : heap[arg[t].ptr].prov = P \cup {o} /\ Flowed(o, P)
      BY <2>2, <3>2 DEF InOrder, HookKnows, MadeFrom
    <3>5. id \in ReallocIds /\ (P \cup {o}) \ {id} \in flows[id]
      BY <2>1, <3>2, <3>3, <3>4 DEF OnRecord, ReallocPcs, TypeInv, ArgsFit, CreatingPcs, Constructible
    <3>6. F = (P \cup {o}) \ {id}
      BY <2>3, <3>2, <3>5 DEF AllSingle, Single
    <3>7. chainThrough(arg[t].as) = IF o \in DOMAIN FM THEN FM[o] \cup {o} ELSE {o}
      BY DEF chainThrough
    <3> HIDE DEF o
    <3>8. o \in DOMAIN FM => FM[o] \subseteq P \cup {o}
      <4> SUFFICES ASSUME o \in DOMAIN FM PROVE FM[o] \subseteq P \cup {o}
        OBVIOUS
      <4>1. o \in ReallocIds \ AllocIds
        BY <2>1 DEF OnRecord
      <4>2. P \ {o} \in flows[o]
        BY <3>4, <4>1 DEF Flowed
      <4> QED
        BY <2>2, <2>3, <4>2 DEF ChainsExact
    <3> QED
      BY <3>3, <3>6, <3>7, <3>8
  <2> QED
    BY <2>4, <2>5
<1> QED
  BY <1>1, <1>2 DEF Next

\* The site in the handler's hands is that of an object around the address that faulted.
Hit(t) == \E p \in DOMAIN heap : arg[t].as.id = heap[p].id /\ arg[t].addr \in Footprint(p, heap[p].size)
HandsOn == \A t \in Threads : pc[t] \in {"segv_insert", "segv_chain", "segv_walk"} => Hit(t)

\* Where no erase is pending, an entry that covers an address is that of an object there.
LEMMA LookupHits ==
  ASSUME TypeInv, MapInv, NEW q \in Nat, \A t \in Threads, k \in Addrs : ~PendingErase(t, k),
         isValid(lookup(allocation_map, q))
  PROVE  \E p \in DOMAIN heap : lookup(allocation_map, q).id = heap[p].id /\ q \in Footprint(p, heap[p].size)
<1>1. DOMAIN allocation_map \subseteq Addrs /\ DOMAIN allocation_map \subseteq Nat
  BY AddrsAssumption DEF TypeInv, TypeOK
<1>2. lookup(allocation_map, q) # error
  BY DEF isValid, error, AllocSite
<1>3. PICK k \in DOMAIN allocation_map : /\ lookup(allocation_map, q) = allocation_map[k] /\ k <= q
                                         /\ k = q \/ containsPtr(allocation_map[k], q)
  BY <1>1, <1>2, LookupRange
<1>4. Settled(k) /\ allocation_map[k] = Entry(k)
  BY <1>1 DEF MapInv, KeysAccounted
<1>5. k \in DOMAIN heap /\ k \in Addrs /\ heap[k].size \in Sizes
  BY <1>1, <1>4 DEF Settled, TypeInv, TypeOK, Objects
<1>6. /\ k \in Nat /\ heap[k].size \in Nat /\ k + heap[k].size < AddrSpace /\ AddrSpace \in Nat \ {0}
  BY <1>5, AddrsAssumption, AddrSpaceAssumption
<1>7. Entry(k).ptr = k /\ Entry(k).size = heap[k].size /\ Entry(k).id = heap[k].id
  BY DEF Entry, AllocSite
<1>8. q \in Footprint(k, heap[k].size)
  <2>1. CASE k = q
    BY <2>1 DEF Footprint
  <2>2. CASE containsPtr(allocation_map[k], q)
    <3>1. q < (k + heap[k].size) % AddrSpace
      BY <2>2, <1>4, <1>7 DEF containsPtr
    <3>2. (k + heap[k].size) % AddrSpace = k + heap[k].size
      BY <1>6
    <3>3. q < k + heap[k].size
      BY <3>1, <3>2
    <3>4. q \in k .. (k + heap[k].size - 1)
      BY <3>3, <1>3, <1>6
    <3> QED
      BY <3>4 DEF Footprint
  <2> QED
    BY <1>3, <2>1, <2>2
<1> QED
  BY <1>3, <1>4, <1>5, <1>7, <1>8

\* Every step keeps the site in the handler's hands that of an object around the address.
LEMMA HandsOnStep ==
  ASSUME \A t, u \in Threads : t = u
  PROVE  TypeInv /\ MapInv /\ HandsOn /\ [Next]_vars => HandsOn'
<1> SUFFICES ASSUME TypeInv, MapInv, HandsOn, [Next]_vars PROVE HandsOn'
  OBVIOUS
<1>1. CASE UNCHANGED vars \/ Terminated
  BY <1>1 DEF Terminated, vars, tracker, history, HandsOn, Hit
<1>2. ASSUME NEW t \in Threads, Program(t) \/ Runtime(t) PROVE HandsOn'
  <2>0. pc \in [Threads -> {"idle"} \cup HookPcs \cup SegvPcs] /\ arg \in [Threads -> Args]
    BY DEF TypeInv, TypeOK
  <2> SUFFICES ASSUME pc'[t] \in {"segv_insert", "segv_chain", "segv_walk"} PROVE Hit(t)'
    BY DEF HandsOn
  <2>1. CASE UNCHANGED <<heap, arg>> /\ pc[t] \in {"segv_insert", "segv_chain", "segv_walk"}
    BY <2>1 DEF HandsOn, Hit
  <2>2. ~Program(t)
    <3>1. ASSUME NEW p, NEW n, NEW id, CallAlloc(t, p, n, id) PROVE FALSE
      BY <3>1, <2>0 DEF CallAlloc, Goto
    <3>2. ASSUME NEW p, CallFree(t, p) PROVE FALSE
      BY <3>2, <2>0 DEF CallFree, Goto
    <3>3. ASSUME NEW o, NEW p, NEW n, NEW id, CallRealloc(t, o, p, n, id) PROVE FALSE
      BY <3>3, <2>0 DEF CallRealloc, Goto
    <3>4. ASSUME NEW o, NEW n, NEW id, CallReallocNull(t, o, n, id) PROVE FALSE
      BY <3>4, <2>0 DEF CallReallocNull, Goto
    <3>5. ASSUME NEW q, NEW k, Access(t, q, k) PROVE FALSE
      BY <3>5, <2>0 DEF Access, Goto
    <3> QED
      BY <3>1, <3>2, <3>3, <3>4, <3>5 DEF Program
  <2>3. CASE Abort
    BY <2>1, <2>3 DEF Abort
  <2>4. CASE faultInsert(t) \/ faultLock(t)
    BY <2>1, <2>4 DEF faultInsert, faultLock
  <2>5. CASE faultLookup(t)
    <3> DEFINE alloc == lookup(allocation_map, arg[t].addr)
    <3>1. /\ pc[t] = "segv_lookup" /\ UNCHANGED heap
          /\ arg' = [arg EXCEPT ![t] = [arg[t] EXCEPT !.as = alloc]]
          /\ pc' = [pc EXCEPT ![t] = IF isValid(alloc) THEN "segv_insert" ELSE "segv_return"]
      BY <2>5, <2>0 DEF faultLookup, Goto, Args
    <3>2. arg[t].addr \in Nat
      <4>1. arg[t].addr \in Memory \cup {Null}
        BY <2>0 DEF Args
      <4>2. Memory \subseteq Nat /\ Null \in Nat
        BY MemoryInNat DEF Null
      <4> QED
        BY <4>1, <4>2
    <3>3. \A u \in Threads, k \in Addrs : ~PendingErase(u, k)
      BY <3>1 DEF PendingErase
    <3> HIDE DEF alloc
    <3>4. isValid(alloc)
      BY <3>1, <2>0
    <3>5. \E p \in DOMAIN heap : alloc.id = heap[p].id /\ arg[t].addr \in Footprint(p, heap[p].size)
      BY <3>2, <3>3, <3>4, LookupHits DEF alloc
    <3>6. arg'[t].as = alloc /\ arg'[t].addr = arg[t].addr
      BY <3>1, <2>0 DEF Args
    <3> QED
      BY <3>1, <3>5, <3>6 DEF Hit
  <2>6. ~deallocHook(t) /\ ~reallocFresh(t) /\ ~reallocLock(t) /\ ~updateReallocChain(t) /\ ~reallocRemove(t) /\ ~reallocInsert(t)
        /\ ~faultChain(t) /\ ~faultReturn(t) /\ (allocHook(t) \/ reallocGet(t) => Abort)
    BY <2>0 DEF deallocHook, reallocFresh, reallocLock, updateReallocChain, reallocRemove, reallocInsert, faultChain, faultReturn,
                allocHook, reallocGet, Return, Goto
  <2> QED
    BY <1>2, <2>2, <2>3, <2>4, <2>5, <2>6 DEF Runtime
<1> QED
  BY <1>1, <1>2 DEF Next

\* What a step may add to the profile.
Blamed ==
  UNION {{heap[p].id} \cup heap[p].prov : p \in {x \in DOMAIN heap : InUse(x)}}

\* A step records only sites that an object in the program's hands came through.
LEMMA BlameStep ==
  ASSUME AllocIds \cap ReallocIds = {}, TypeInv, ChainInv, ChainsExact, HandsOn, [Next]_vars,
         \A id \in ReallocIds : Cardinality(flows[id]) <= 1
  PROVE  IdsOf(fault_set') \subseteq IdsOf(fault_set) \cup Blamed
<1>1. AllSingle
  <2> SUFFICES ASSUME NEW id \in ReallocIds, NEW F \in flows[id], NEW G \in flows[id] PROVE F = G
    BY DEF AllSingle, Single
  <2>1. IsFiniteSet(flows[id]) /\ Cardinality(flows[id]) <= 1
    BY DEF ChainInv, FlowsType
  <2> QED
    BY <2>1, AtMostOne
<1>2. ASSUME NEW t \in Threads, pc[t] \in {"segv_insert", "segv_chain", "segv_walk"}
      PROVE  /\ arg[t].as.id \in Blamed
             /\ arg[t].as.id \in DOMAIN FM => FM[arg[t].as.id] \subseteq Blamed
  <2>1. PICK p \in DOMAIN heap : arg[t].as.id = heap[p].id /\ arg[t].addr \in Footprint(p, heap[p].size)
    BY <1>2 DEF HandsOn, Hit
  <2>2. InUse(p)
    BY <1>2, <2>1 DEF InUse, SegvPcs
  <2>3. {heap[p].id} \cup heap[p].prov \subseteq Blamed
    BY <2>2 DEF Blamed
  <2>4. heap[p].id \in DOMAIN FM => FM[heap[p].id] \subseteq heap[p].prov \cup {heap[p].id}
    <3> SUFFICES ASSUME heap[p].id \in DOMAIN FM PROVE FM[heap[p].id] \subseteq heap[p].prov \cup {heap[p].id}
      OBVIOUS
    <3>1. heap[p].id \in ReallocIds \ AllocIds
      BY DEF ChainInv, OnRecord
    <3>2. heap[p].prov \ {heap[p].id} \in flows[heap[p].id]
      BY <3>1 DEF ChainInv, OnRecord, Flowed
    <3> QED
      BY <1>1, <3>2 DEF ChainsExact
  <2> QED
    BY <2>1, <2>3, <2>4
<1>3. CASE UNCHANGED fault_set
  BY <1>3 DEF IdsOf
<1>4. ASSUME NEW t \in Threads, faultInsert(t) PROVE IdsOf(fault_set') \subseteq IdsOf(fault_set) \cup Blamed
  <2>1. arg[t].as.id \in Blamed
    BY <1>2, <1>4 DEF faultInsert
  <2>2. \A f \in fault_set' : f \in fault_set \/ f.id = arg[t].as.id
    BY <1>4 DEF faultInsert, insertFault
  <2> QED
    BY <2>1, <2>2 DEF IdsOf
<1>5. ASSUME NEW t \in Threads, faultChain(t) PROVE IdsOf(fault_set') \subseteq IdsOf(fault_set) \cup Blamed
  <2> DEFINE chain == IF arg[t].as.id \in DOMAIN FM THEN FM[arg[t].as.id] ELSE {}
  <2>1. chain \subseteq Blamed
    BY <1>2, <1>5 DEF faultChain
  <2>2. fault_set' = fault_set \cup {[id |-> i, pkey |-> arg[t].pkey] : i \in chain \ IdsOf(fault_set)}
    BY <1>5 DEF faultChain
  <2> HIDE DEF chain
  <2>3. \A f \in fault_set' : f \in fault_set \/ f.id \in chain
    BY <2>2
  <2> QED
    BY <2>1, <2>3 DEF IdsOf
<1>6. CASE UNCHANGED vars \/ Terminated
  BY <1>3, <1>6 DEF vars, tracker, Terminated
<1>7. ASSUME NEW t \in Threads, Program(t) PROVE UNCHANGED fault_set
  BY <1>7 DEF Program, CallAlloc, CallFree, CallRealloc, CallReallocNull, Access, tracker
<1>8. ASSUME NEW t \in Threads, Runtime(t), ~faultInsert(t), ~faultChain(t) PROVE UNCHANGED fault_set
  BY <1>8 DEF Runtime, allocHook, deallocHook, reallocGet, reallocFresh, reallocLock, updateReallocChain, reallocRemove,
              reallocInsert, faultLookup, faultLock, faultReturn, Abort, tracker
<1> QED
  BY <1>3, <1>4, <1>5, <1>6, <1>7, <1>8 DEF Next

\* In a single-threaded program the profile never gains a site unless the program is being
\* stopped on an object that came through it, as long as no realloc site mixes provenances.
THEOREM BlameSoundCorrect ==
  ASSUME \A t, u \in Threads : t = u, AllocIds \cap ReallocIds = {}
  PROVE  Spec => BlameSound
<1>1. Init => ExactInv /\ HandsOn
  BY DEF Init, ExactInv, ChainsExact, EmptyMap, HandsOn
<1>2. TypeInv /\ MapInv /\ ChainInv /\ ExactInv /\ [Next]_vars => ExactInv'
  BY ExactStep
<1>3. TypeInv /\ MapInv /\ HandsOn /\ [Next]_vars => HandsOn'
  BY HandsOnStep
<1>4. TypeInv /\ ChainInv /\ ExactInv /\ ~overtaken /\ HandsOn /\ [Next]_vars =>
        [(\A id \in ReallocIds : Cardinality(flows[id]) <= 1) =>
           IdsOf(fault_set') \subseteq IdsOf(fault_set) \cup
             UNION {{heap[p].id} \cup heap[p].prov : p \in {x \in DOMAIN heap : InUse(x)}}]_vars
  BY BlameStep DEF ExactInv, Blamed
<1>5. Spec => []~overtaken
  BY NeverOvertaken
<1> QED
  BY <1>1, <1>2, <1>3, <1>4, <1>5, MapInvariant, ChainInvCorrect, PTL DEF Spec, BlameSound
=============================================================================
