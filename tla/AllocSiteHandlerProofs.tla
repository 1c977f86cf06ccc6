----------------------- MODULE AllocSiteHandlerProofs -----------------------
(***************************************************************************)
(* Theorems about AllocSiteHandler, for every set of threads, addresses,   *)
(* sizes, sites and protection keys.                                       *)
(***************************************************************************)
EXTENDS AllocSiteHandler, TLAPS

-----------------------------------------------------------------------------
(* Operators of AllocSites.                                                *)

\* emplace keeps every entry a map has, and adds the new one only if it is free.
LEMMA EmplaceFacts ==
  ASSUME NEW m, NEW k, NEW v
  PROVE  /\ DOMAIN emplace(m, k, v) = DOMAIN m \cup {k}
         /\ \A x \in DOMAIN m : emplace(m, k, v)[x] = m[x]
         /\ k \notin DOMAIN m => emplace(m, k, v)[k] = v
BY DEF emplace

\* erase removes one key and nothing else.
LEMMA EraseFacts ==
  ASSUME NEW m, NEW k
  PROVE  /\ DOMAIN erase(m, k) = DOMAIN m \ {k}
         /\ \A x \in DOMAIN m \ {k} : erase(m, k)[x] = m[x]
BY DEF erase, Restrict

\* put replaces or adds one object.
LEMMA PutFacts ==
  ASSUME NEW h, NEW p, NEW obj
  PROVE  /\ DOMAIN put(h, p, obj) = DOMAIN h \cup {p}
         /\ put(h, p, obj)[p] = obj
         /\ \A x \in DOMAIN h \ {p} : put(h, p, obj)[x] = h[x]
BY DEF put

\* After fault_set.insert the site is in the set, whether or not it was before.
LEMMA InsertFaultHolds ==
  ASSUME NEW S, NEW id, NEW pkey
  PROVE  id \in IdsOf(insertFault(S, id, pkey))
<1>1. CASE \E f \in S : f.id = id
  BY <1>1 DEF insertFault, IdsOf
<1>2. CASE ~\E f \in S : f.id = id
  <2>1. [id |-> id, pkey |-> pkey] \in insertFault(S, id, pkey) /\ [id |-> id, pkey |-> pkey].id = id
    BY <1>2 DEF insertFault
  <2> QED
    BY <2>1 DEF IdsOf
<1> QED
  BY <1>1, <1>2

\* getAllocSite returns an entry of the map or error(), and an entry whose key is
\* the very address asked for is always found.
LEMMA LookupRange ==
  ASSUME NEW m, NEW q, DOMAIN m \subseteq Nat, q \in Nat
  PROVE  /\ lookup(m, q) = error \/ \E k \in DOMAIN m : lookup(m, q) = m[k] /\ k <= q
                                                       /\ (k = q \/ containsPtr(m[k], q))
         /\ q \in DOMAIN m => lookup(m, q) = m[q]
<1> DEFINE found == {k \in nearest(m, q) : k = q \/ containsPtr(m[k], q)}
<1>1. lookup(m, q) = IF found = {} THEN error ELSE m[CHOOSE k \in found : TRUE]
  BY DEF lookup
<1>2. \A k \in nearest(m, q) : k \in DOMAIN m /\ k <= q
  BY DEF nearest
<1>3. q \in DOMAIN m => found = {q}
  <2>1. q \in DOMAIN m => nearest(m, q) = {q}
    BY DEF nearest
  <2> QED
    BY <2>1
<1>4. found # {} => (CHOOSE k \in found : TRUE) \in found
  OBVIOUS
<1> QED
  BY <1>1, <1>2, <1>3, <1>4

\* getAllocSite(q) is the entry at p when that entry covers q and no key lies
\* between the two.
LEMMA LookupExact ==
  ASSUME NEW m, NEW p \in Nat, NEW q \in Nat, DOMAIN m \subseteq Nat,
         p \in DOMAIN m, p <= q, \A k \in DOMAIN m : ~(p < k /\ k <= q),
         p = q \/ containsPtr(m[p], q)
  PROVE  lookup(m, q) = m[p]
<1> DEFINE found == {k \in nearest(m, q) : k = q \/ containsPtr(m[k], q)}
<1>1. nearest(m, q) = {p}
  BY DEF nearest
<1>2. found = {p}
  BY <1>1
<1> QED
  BY <1>2 DEF lookup

-----------------------------------------------------------------------------
(* Types.                                                                  *)

TypeInv == TypeOK /\ ArgsFit

\* The record a thread holds when a call sets its arguments has the right type.
LEMMA NoArgType == NoArg \in Args /\ error \notin Tracked /\ NoId \notin Ids
BY IdsAssumption, AddrsAssumption DEF NoArg, HookArg, Args, error, AllocSite, Null, Tracked

\* What getAllocSite returns is a tracked site exactly when it is valid.
LEMMA LookupType ==
  ASSUME TypeOK, NEW q \in Nat
  PROVE  /\ lookup(allocation_map, q) \in Tracked \cup {error}
         /\ isValid(lookup(allocation_map, q)) <=> lookup(allocation_map, q) \in Tracked
<1>1. DOMAIN allocation_map \subseteq Nat
  BY AddrsAssumption DEF TypeOK
<1>2. \A k \in DOMAIN allocation_map : allocation_map[k] \in Tracked
  BY DEF TypeOK
<1>3. lookup(allocation_map, q) \in Tracked \cup {error}
  BY <1>1, <1>2, LookupRange
<1>4. ASSUME NEW s \in Tracked PROVE isValid(s)
  <2>1. s.ptr \in Addrs /\ s.size \in Sizes \ {0} /\ s.id \in Ids
    BY <1>4 DEF Tracked
  <2>2. s.ptr # Null
    BY <2>1, AddrsAssumption
  <2>3. s.size \in Nat /\ s.size # 0
    BY <2>1, AddrsAssumption
  <2>4. s.size > 0
    BY <2>3
  <2>5. s.id # NoId
    BY <2>1, IdsAssumption
  <2> QED
    BY <2>2, <2>4, <2>5 DEF isValid
<1>5. ~isValid(error)
  BY DEF isValid, error, AllocSite
<1> QED
  BY <1>3, <1>4, <1>5, NoArgType

\* The types are right at first.
LEMMA TypeInit == Init => TypeInv
BY NoArgType, ZenonT(60) DEF Init, TypeInv, TypeOK, ArgsFit, EmptyMap, CreatingPcs, SegvPcs, ReallocPcs, HookPcs

\* An insertion puts a tracked site at one of the allocator's addresses.
LEMMA InsertType ==
  ASSUME TypeInv, NEW t \in Threads, pc[t] \in CreatingPcs,
         Constructible(arg[t].ptr, arg[t].size), insertAllocSite(t, arg[t].ptr, NewSite(t))
  PROVE  /\ DOMAIN allocation_map' \subseteq Addrs
         /\ allocation_map' \in [DOMAIN allocation_map' -> Tracked]
         /\ raced' \subseteq Addrs /\ overtaken' \in BOOLEAN
<1>1. arg[t].ptr \in Addrs /\ NewSite(t) \in Tracked
  BY AddrsAssumption DEF TypeInv, TypeOK, ArgsFit, Args, Constructible, NewSite, AllocSite, Tracked
<1>2. /\ DOMAIN allocation_map' \subseteq Addrs
      /\ allocation_map' \in [DOMAIN allocation_map' -> Tracked]
  BY <1>1 DEF TypeInv, TypeOK, insertAllocSite, emplace
<1>3. raced' \subseteq Addrs
  BY <1>1 DEF TypeInv, TypeOK, insertAllocSite
<1>4. overtaken' \in BOOLEAN
  BY DEF TypeInv, TypeOK, insertAllocSite
<1> QED
  BY <1>2, <1>3, <1>4

\* Addresses are numbers.
LEMMA MemoryInNat == Memory \subseteq Nat
<1>1. \A a \in Addrs, n \in Sizes : Footprint(a, n) \subseteq Nat
  BY AddrsAssumption DEF Footprint
<1> QED
  BY <1>1 DEF Memory

\* Every step of every thread keeps the types.
LEMMA TypeStep == TypeInv /\ [Next]_vars => TypeInv'
<1> SUFFICES ASSUME TypeInv, [Next]_vars PROVE TypeInv'
  OBVIOUS
<1> USE DEF TypeInv, mutexes
<1>0. CASE UNCHANGED vars
  BY <1>0 DEF vars, tracker, history, TypeOK, ArgsFit
<1>a. CASE Terminated
  BY <1>a, <1>0 DEF Terminated
<1>b. ASSUME NEW t \in Threads, Program(t) \/ Runtime(t) PROVE TypeInv'
  <2>a. Null \in Nat /\ Addrs \subseteq Nat /\ Null \notin Addrs
    BY AddrsAssumption DEF Null
  <2>1. ASSUME NEW p \in Addrs \cup {Null}, NEW n \in Sizes, NEW id \in AllocIds, CallAlloc(t, p, n, id)
        PROVE TypeInv'
    <3>1. heap' = heap \/ (p \in Addrs /\ heap' = put(heap, p, Object(n, id, {})))
      BY <2>1 DEF CallAlloc
    <3>2. Object(n, id, {}) \in Objects
      BY SiteAssumption DEF Object, Objects
    <3>3. DOMAIN heap' \subseteq Addrs /\ heap' \in [DOMAIN heap' -> Objects]
      BY <3>1, <3>2 DEF TypeOK, put
    <3>4. TypeOK'
      BY <2>1, <3>3, NoArgType, SiteAssumption
      DEF CallAlloc, TypeOK, tracker, history, Goto, HookPcs, Args, HookArg
    <3>5. ArgsFit'
      BY <2>1, SiteAssumption DEF CallAlloc, TypeOK, ArgsFit, Goto, CreatingPcs, ReallocPcs, SegvPcs, HookArg
    <3> QED
      BY <3>4, <3>5
  <2>2. ASSUME NEW p \in DOMAIN heap \cup {Null}, CallFree(t, p) PROVE TypeInv'
    <3>1. heap' = heap \/ heap' = erase(heap, p)
      BY <2>2 DEF CallFree
    <3>2. DOMAIN heap' \subseteq Addrs /\ heap' \in [DOMAIN heap' -> Objects]
      BY <3>1 DEF TypeOK, erase, Restrict
    <3>3. p \in Addrs \cup {Null}
      BY DEF TypeOK
    <3>4. TypeOK'
      BY <2>2, <3>2, <3>3, NoArgType
      DEF CallFree, TypeOK, tracker, history, Goto, HookPcs, Args, HookArg, NoArg
    <3>5. ArgsFit'
      BY <2>2 DEF CallFree, TypeOK, ArgsFit, Goto, CreatingPcs, ReallocPcs, SegvPcs, HookArg
    <3> QED
      BY <3>4, <3>5
  <2>3. ASSUME NEW o \in DOMAIN heap \cup {Null}, NEW p \in Addrs, NEW n \in Sizes \ {0},
               NEW id \in ReallocIds, CallRealloc(t, o, p, n, id)
        PROVE TypeInv'
    <3> DEFINE rest == IF o = Null THEN heap ELSE erase(heap, o)
               prov == IF o = Null THEN {} ELSE heap[o].prov \cup {heap[o].id}
    <3>1. heap' = put(rest, p, Object(n, id, prov))
      BY <2>3 DEF CallRealloc
    <3>2. prov \subseteq Ids
      BY DEF TypeOK, Objects
    <3>3. Object(n, id, prov) \in Objects
      BY <3>2, SiteAssumption DEF Object, Objects
    <3>4. DOMAIN rest \subseteq Addrs /\ rest \in [DOMAIN rest -> Objects]
      BY DEF TypeOK, erase, Restrict
    <3> HIDE DEF rest, prov
    <3>5. DOMAIN heap' \subseteq Addrs /\ heap' \in [DOMAIN heap' -> Objects]
      BY <3>1, <3>3, <3>4 DEF put
    <3>6. o \in Addrs \cup {Null}
      BY DEF TypeOK
    <3>7. TypeOK'
      BY <2>3, <3>5, <3>6, NoArgType, SiteAssumption
      DEF CallRealloc, TypeOK, tracker, Goto, HookPcs, ReallocPcs, Args, HookArg, NoArg
    <3>8. ArgsFit'
      BY <2>3, SiteAssumption
      DEF CallRealloc, TypeOK, ArgsFit, Goto, CreatingPcs, ReallocPcs, SegvPcs, HookArg
    <3> QED
      BY <3>7, <3>8
  <2>4. ASSUME NEW o \in DOMAIN heap, NEW n \in Sizes, NEW id \in ReallocIds,
               CallReallocNull(t, o, n, id)
        PROVE TypeInv'
    <3>1. heap' = heap \/ heap' = erase(heap, o)
      BY <2>4 DEF CallReallocNull
    <3>2. DOMAIN heap' \subseteq Addrs /\ heap' \in [DOMAIN heap' -> Objects]
      BY <3>1 DEF TypeOK, erase, Restrict
    <3>3. o \in Addrs
      BY DEF TypeOK
    <3>4. TypeOK'
      BY <2>4, <3>2, <3>3, NoArgType, SiteAssumption
      DEF CallReallocNull, TypeOK, tracker, history, Goto, HookPcs, ReallocPcs, Args, HookArg, NoArg
    <3>5. ArgsFit'
      BY <2>4, SiteAssumption
      DEF CallReallocNull, TypeOK, ArgsFit, Goto, CreatingPcs, ReallocPcs, SegvPcs, HookArg
    <3> QED
      BY <3>4, <3>5
  <2>5. ASSUME NEW q \in Memory, NEW k \in Pkeys, Access(t, q, k) PROVE TypeInv'
    <3>1. PICK x \in Addrs \cup {Null} : arg' = [arg EXCEPT ![t] = FaultArg(q, k, x)]
      BY <2>5 DEF Access, history, TypeOK
    <3>2. FaultArg(q, k, x) \in Args
      BY NoArgType DEF Args, FaultArg, NoArg, HookArg
    <3>3. TypeOK'
      BY <2>5, <3>1, <3>2 DEF Access, history, TypeOK, tracker, Goto, SegvPcs
    <3>4. ArgsFit'
      BY <2>5, <3>1 DEF Access, history, TypeOK, ArgsFit, Goto, CreatingPcs, ReallocPcs, SegvPcs, FaultArg
    <3> QED
      BY <3>3, <3>4
  <2>6. ASSUME Abort PROVE TypeInv'
    BY <2>6 DEF Abort, TypeOK, ArgsFit, tracker, history
  <2>7. ASSUME pc[t] \in CreatingPcs, Constructible(arg[t].ptr, arg[t].size),
               insertAllocSite(t, arg[t].ptr, NewSite(t)), Return(t),
               UNCHANGED <<heap, FM, fault_set, mutexes, aborted, flows>>
        PROVE TypeInv'
    <3>1. TypeOK'
      BY <2>7, InsertType, NoArgType DEF TypeOK, Return, Goto
    <3>2. ArgsFit'
      BY <2>7 DEF TypeOK, ArgsFit, Return, Goto, CreatingPcs, ReallocPcs, SegvPcs
    <3> QED
      BY <3>1, <3>2
  <2>8. ASSUME allocHook(t) PROVE TypeInv'
    BY <2>6, <2>7, <2>8 DEF allocHook, CreatingPcs
  <2>9. ASSUME reallocFresh(t) \/ reallocInsert(t) PROVE TypeInv'
    BY <2>7, <2>9 DEF reallocFresh, reallocInsert, CreatingPcs, ReallocPcs, ArgsFit
  <2>10. ASSUME NEW x \in Addrs \cup {Null}, removeAllocSite(x)
         PROVE  /\ DOMAIN allocation_map' \subseteq Addrs
                /\ allocation_map' \in [DOMAIN allocation_map' -> Tracked]
    BY <2>10 DEF removeAllocSite, TypeOK, erase, Restrict
  <2>11. arg[t] \in Args
    BY DEF TypeOK
  <2>12. arg[t].ptr \in Addrs \cup {Null} /\ arg[t].old \in Addrs \cup {Null} /\ arg[t].addr \in Memory \cup {Null}
    BY <2>11 DEF Args
  <2>13. ASSUME deallocHook(t) PROVE TypeInv'
    <3>1. TypeOK'
      BY <2>13, <2>10, <2>12, NoArgType DEF deallocHook, TypeOK, history, Return, Goto
    <3>2. ArgsFit'
      BY <2>13 DEF deallocHook, TypeOK, ArgsFit, Return, Goto, CreatingPcs, ReallocPcs, SegvPcs
    <3> QED
      BY <3>1, <3>2
  <2>14. ASSUME reallocRemove(t) PROVE TypeInv'
    <3>1. TypeOK'
      BY <2>14, <2>10, <2>12 DEF reallocRemove, TypeOK, history, Goto, HookPcs, ReallocPcs
    <3>2. ArgsFit'
      BY <2>14 DEF reallocRemove, TypeOK, ArgsFit, Goto, CreatingPcs, ReallocPcs, SegvPcs
    <3> QED
      BY <3>1, <3>2
  <2>15. \A s \in Tracked \cup {error} : [arg[t] EXCEPT !.as = s] \in Args
    BY <2>11 DEF Args
  <2>16. ASSUME reallocGet(t) PROVE TypeInv'
    <3> DEFINE oldAS == lookup(allocation_map, arg[t].old)
    <3>1. /\ oldAS \in Tracked \cup {error}
          /\ isValid(oldAS) <=> oldAS \in Tracked
      BY <2>12, <2>a, LookupType
    <3> HIDE DEF oldAS
    <3>2. CASE ~Constructible(arg[t].ptr, arg[t].size)
      BY <2>6, <2>16, <3>2 DEF reallocGet
    <3>3. CASE Constructible(arg[t].ptr, arg[t].size)
      <4>1. /\ pc[t] = "re_get"
            /\ arg' = [arg EXCEPT ![t] = [arg[t] EXCEPT !.as = oldAS]]
            /\ Goto(t, IF isValid(oldAS) THEN "re_chain" ELSE "re_fresh")
            /\ UNCHANGED <<heap, tracker, aborted, history>>
        BY <2>16, <3>3, <2>11 DEF reallocGet, oldAS, TypeOK, Args
      <4>2. TypeOK'
        BY <4>1, <3>1, <2>15 DEF TypeOK, tracker, history, Goto, HookPcs, ReallocPcs
      <4>3. ArgsFit'
        BY <4>1, <3>1, <3>3, <2>11 DEF TypeOK, ArgsFit, Args, Goto, CreatingPcs, ReallocPcs, SegvPcs
      <4> QED
        BY <4>2, <4>3
    <3> QED
      BY <3>2, <3>3
  <2>17. ASSUME updateReallocChain(t) PROVE TypeInv'
    <3>1. arg[t].id \in Ids /\ arg[t].as \in Tracked
      BY <2>17 DEF updateReallocChain, ArgsFit, CreatingPcs, ReallocPcs
    <3>2. chainThrough(arg[t].as) \subseteq Ids
      BY <3>1 DEF chainThrough, TypeOK, Tracked
    <3>3. DOMAIN FM' \subseteq Ids /\ FM' \in [DOMAIN FM' -> SUBSET Ids]
      BY <2>17, <3>1, <3>2 DEF updateReallocChain, emplace, TypeOK
    <3>4. TypeOK'
      BY <2>17, <3>3 DEF updateReallocChain, TypeOK, history, Goto, HookPcs, ReallocPcs
    <3>5. ArgsFit'
      BY <2>17 DEF updateReallocChain, TypeOK, ArgsFit, Goto, CreatingPcs, ReallocPcs, SegvPcs
    <3> QED
      BY <3>4, <3>5
  <2>22. ASSUME reallocLock(t) PROVE TypeInv'
    <3>1. TypeOK'
      BY <2>22 DEF reallocLock, TypeOK, history, Goto, HookPcs, ReallocPcs
    <3>2. ArgsFit'
      BY <2>22 DEF reallocLock, TypeOK, ArgsFit, Goto, CreatingPcs, ReallocPcs, SegvPcs
    <3> QED
      BY <3>1, <3>2
  <2>18. ASSUME faultLookup(t) PROVE TypeInv'
    <3> DEFINE alloc == lookup(allocation_map, arg[t].addr)
    <3>0. arg[t].addr \in Nat
      BY <2>12, <2>a, MemoryInNat
    <3>1. /\ alloc \in Tracked \cup {error}
          /\ isValid(alloc) <=> alloc \in Tracked
      BY <3>0, LookupType
    <3> HIDE DEF alloc
    <3>2. /\ pc[t] = "segv_lookup"
          /\ arg' = [arg EXCEPT ![t] = [arg[t] EXCEPT !.as = alloc]]
          /\ Goto(t, IF isValid(alloc) THEN "segv_insert" ELSE "segv_return")
          /\ UNCHANGED <<heap, tracker, aborted, history>>
      BY <2>18, <2>11 DEF faultLookup, alloc, TypeOK, Args
    <3>3. TypeOK'
      BY <3>1, <3>2, <2>15 DEF TypeOK, tracker, history, Goto, SegvPcs
    <3>4. ArgsFit'
      BY <3>1, <3>2, <2>11 DEF TypeOK, ArgsFit, Args, Goto, CreatingPcs, ReallocPcs, SegvPcs
    <3> QED
      BY <3>3, <3>4
  <2>19. ASSUME faultInsert(t) PROVE TypeInv'
    <3>1. arg[t].as.id \in Ids /\ arg[t].pkey \in Pkeys
      BY <2>19 DEF faultInsert, ArgsFit, SegvPcs, Tracked
    <3>2. fault_set' \subseteq [id : Ids, pkey : Pkeys]
      BY <2>19, <3>1 DEF faultInsert, insertFault, TypeOK
    <3>3. TypeOK'
      BY <2>19, <3>2 DEF faultInsert, TypeOK, history, Goto, SegvPcs
    <3>4. ArgsFit'
      BY <2>19 DEF faultInsert, TypeOK, ArgsFit, Goto, CreatingPcs, ReallocPcs, SegvPcs
    <3> QED
      BY <3>3, <3>4
  <2>23. ASSUME faultLock(t) PROVE TypeInv'
    <3>1. TypeOK'
      BY <2>23 DEF faultLock, TypeOK, history, Goto, SegvPcs
    <3>2. ArgsFit'
      BY <2>23 DEF faultLock, TypeOK, ArgsFit, Goto, CreatingPcs, ReallocPcs, SegvPcs
    <3> QED
      BY <3>1, <3>2
  <2>20. ASSUME faultChain(t) PROVE TypeInv'
    <3> DEFINE chain == IF arg[t].as.id \in DOMAIN FM THEN FM[arg[t].as.id] ELSE {}
    <3>1. arg[t].pkey \in Pkeys /\ chain \subseteq Ids
      BY <2>20 DEF faultChain, ArgsFit, SegvPcs, TypeOK
    <3>2. fault_set' = fault_set \cup {[id |-> i, pkey |-> arg[t].pkey] : i \in chain \ IdsOf(fault_set)}
      BY <2>20 DEF faultChain
    <3> HIDE DEF chain
    <3>3. fault_set' \subseteq [id : Ids, pkey : Pkeys]
      BY <3>1, <3>2 DEF TypeOK
    <3>4. TypeOK'
      BY <2>20, <3>3 DEF faultChain, TypeOK, history, Goto, SegvPcs
    <3>5. ArgsFit'
      BY <2>20 DEF faultChain, TypeOK, ArgsFit, Goto, CreatingPcs, ReallocPcs, SegvPcs
    <3> QED
      BY <3>4, <3>5
  <2>21. ASSUME faultReturn(t) PROVE TypeInv'
    <3>1. TypeOK'
      BY <2>21, NoArgType DEF faultReturn, TypeOK, tracker, history, Return, Goto
    <3>2. ArgsFit'
      BY <2>21 DEF faultReturn, TypeOK, ArgsFit, Return, Goto, CreatingPcs, ReallocPcs, SegvPcs
    <3> QED
      BY <3>1, <3>2
  <2> QED
    BY <1>b, <2>1, <2>2, <2>3, <2>4, <2>5, <2>8, <2>9, <2>13, <2>14, <2>16, <2>17, <2>18,
       <2>19, <2>20, <2>21, <2>22, <2>23 DEF Program, Runtime
<1> QED
  BY <1>0, <1>a, <1>b DEF Next

\* Spec keeps the types: in particular, no hook can store an entry under an
\* address the allocator did not return, or a site the passes did not number.
THEOREM TypeCorrect == Spec => []TypeOK
<1>1. Init => TypeInv
  BY TypeInit
<1>2. TypeInv /\ [Next]_vars => TypeInv'
  BY TypeStep
<1>3. TypeInv => TypeOK
  BY DEF TypeInv
<1> QED
  BY <1>1, <1>2, <1>3, PTL DEF Spec

-----------------------------------------------------------------------------
(* Attribution.                                                            *)

MapInv == HeapDisjoint /\ CreatorsOwn /\ KeysAccounted /\ CleanTracked

(* What a step does to the map, the allocator and the claims of the        *)
(* threads on addresses is one of four things.                             *)

Others(t) ==
  /\ \A u \in Threads \ {t} : pc'[u] = pc[u] /\ arg'[u] = arg[u]
  /\ \A u \in Threads \ {t}, k \in Addrs : PendingErase(u, k)' <=> PendingErase(u, k)
  /\ \A u \in Threads \ {t}, k \in Addrs : Creating(u, k)' <=> Creating(u, k)

CreatorsKept ==
  /\ \A u \in Threads, k \in Addrs : Creating(u, k)' <=> Creating(u, k)
  /\ \A u \in Threads, k \in Addrs : Creating(u, k) => arg'[u].size = arg[u].size /\ arg'[u].id = arg[u].id

\* Nothing.
QuietEffect ==
  /\ UNCHANGED <<heap, allocation_map, raced>>
  /\ \A u \in Threads, k \in Addrs : PendingErase(u, k)' <=> PendingErase(u, k)
  /\ CreatorsKept

\* The hook of thread t inserts the entry of the object it has been holding.
InsertEffect(t, p) ==
  /\ Creating(t, p)
  /\ \A k \in Addrs : ~PendingErase(t, k)
  /\ arg[t].size > 0
  /\ insertAllocSite(t, p, AllocSite(p, arg[t].size, arg[t].id))
  /\ UNCHANGED heap
  /\ \A k \in Addrs : ~PendingErase(t, k)' /\ ~Creating(t, k)'

\* The hook of thread t carries out its pending erase of key x.
EraseEffect(t, x) ==
  /\ \A k \in Addrs : PendingErase(t, k) <=> k = x
  /\ removeAllocSite(x)
  /\ UNCHANGED <<heap, raced>>
  /\ CreatorsKept
  /\ \A k \in Addrs : ~PendingErase(t, k)'

\* A call of thread t into the allocator takes the object at o away (Null: none)
\* and places one at p (Null: none); the hook is still to come.
HeapEffect(t, o, p) ==
  /\ \A k \in Addrs : ~PendingErase(t, k) /\ ~Creating(t, k)
  /\ UNCHANGED <<allocation_map, raced>>
  /\ o # Null => Settled(o) /\ ~InUse(o)
  /\ DOMAIN heap' = (DOMAIN heap \ {o}) \cup ({p} \ {Null})
  /\ \A x \in DOMAIN heap' \ {p} : heap'[x] = heap[x]
  /\ p # Null => /\ heap'[p].size = arg'[t].size /\ heap'[p].id = arg'[t].id
                 /\ \A x \in DOMAIN heap \ {o} :
                      Footprint(p, heap'[p].size) \cap Footprint(x, heap[x].size) = {}
  /\ \A k \in Addrs : PendingErase(t, k)' <=> k = o
  /\ \A k \in Addrs : Creating(t, k)' <=> k = p

Effect(t) ==
  \/ QuietEffect
  \/ \E p \in Addrs : InsertEffect(t, p)
  \/ \E x \in Addrs \cup {Null} : EraseEffect(t, x)
  \/ \E o, p \in Addrs \cup {Null} : HeapEffect(t, o, p)

-----------------------------------------------------------------------------
(* Each of the four keeps MapInv.                                          *)

\* A quiet step leaves the map and the objects as they are.
LEMMA QuietStep == ASSUME TypeInv, MapInv, QuietEffect PROVE MapInv'
<1> USE DEF QuietEffect, CreatorsKept
<1>0. DOMAIN heap \subseteq Addrs /\ DOMAIN allocation_map \subseteq Addrs
  BY DEF TypeInv, TypeOK
<1>1. \A k \in Addrs : Settled(k)' <=> Settled(k)
  BY <1>0 DEF Settled
<1>2. HeapDisjoint'
  BY DEF MapInv, HeapDisjoint
<1>3. CreatorsOwn'
  BY <1>0, <1>1 DEF MapInv, CreatorsOwn
<1>4. KeysAccounted'
  BY <1>0, <1>1 DEF MapInv, KeysAccounted, Entry
<1>5. CleanTracked'
  BY <1>0, <1>1 DEF MapInv, CleanTracked
<1> QED
  BY <1>2, <1>3, <1>4, <1>5 DEF MapInv

\* An insertion tracks the object that its thread is creating.
LEMMA InsertStep ==
  ASSUME TypeInv, MapInv, NEW t \in Threads, NEW p \in Addrs, Others(t), InsertEffect(t, p)
  PROVE  MapInv'
<1> USE DEF Others, InsertEffect
<1> DEFINE site == AllocSite(p, arg[t].size, arg[t].id)
           race == \E u \in Threads \ {t} : PendingErase(u, p)
<1>0. DOMAIN heap \subseteq Addrs /\ DOMAIN allocation_map \subseteq Addrs
  BY DEF TypeInv, TypeOK
<1>1. p \in DOMAIN heap /\ site = Entry(p) /\ heap[p].size > 0
  BY DEF MapInv, CreatorsOwn, Entry
<1>2. \A u \in Threads \ {t} : ~Creating(u, p)
  BY DEF MapInv, CreatorsOwn
<1>3. Settled(p)' /\ ~Settled(p)
  BY <1>1, <1>2 DEF Settled
<1>4. \A k \in Addrs \ {p} : Settled(k)' <=> Settled(k)
  <2>1. \A k \in Addrs \ {p} : ~Creating(t, k)
    BY DEF Creating
  <2> QED
    BY <2>1 DEF Settled
<1>5. /\ allocation_map' = emplace(allocation_map, p, site)
      /\ raced' = IF race THEN raced \cup {p} ELSE raced \ {p}
  BY DEF insertAllocSite
<1>6. p \in DOMAIN allocation_map => race
  BY <1>3 DEF MapInv, KeysAccounted
<1>7. HeapDisjoint'
  BY DEF MapInv, HeapDisjoint
<1>8. CreatorsOwn'
  BY <1>0, <1>1, <1>4 DEF MapInv, CreatorsOwn
<1> HIDE DEF site, race
<1>9. KeysAccounted'
  <2> SUFFICES ASSUME NEW k \in DOMAIN allocation_map'
               PROVE  (\E u \in Threads : PendingErase(u, k)') \/ (Settled(k)' /\ allocation_map'[k] = Entry(k)')
    BY DEF KeysAccounted
  <2>1. Entry(k)' = Entry(k)
    BY DEF Entry
  <2>2. CASE k = p /\ p \notin DOMAIN allocation_map
    BY <2>1, <2>2, <1>1, <1>3, <1>5, EmplaceFacts
  <2>3. CASE k = p /\ p \in DOMAIN allocation_map
    BY <2>3, <1>6 DEF race
  <2>4. CASE k # p
    <3>1. k \in DOMAIN allocation_map /\ allocation_map'[k] = allocation_map[k] /\ k \in Addrs
      <4>1. /\ DOMAIN emplace(allocation_map, p, site) = DOMAIN allocation_map \cup {p}
            /\ \A x \in DOMAIN allocation_map : emplace(allocation_map, p, site)[x] = allocation_map[x]
        BY DEF emplace
      <4> QED
        BY <4>1, <2>4, <1>0, <1>5
    <3>2. (\E u \in Threads \ {t} : PendingErase(u, k)) \/ (Settled(k) /\ allocation_map[k] = Entry(k))
      BY <3>1 DEF MapInv, KeysAccounted
    <3> QED
      BY <3>1, <3>2, <2>1, <2>4, <1>4
  <2> QED
    BY <2>2, <2>3, <2>4
<1>10. CleanTracked'
  <2> SUFFICES ASSUME NEW k \in DOMAIN heap, Settled(k)', k \notin raced'
               PROVE  k \in DOMAIN allocation_map' /\ \A u \in Threads : ~PendingErase(u, k)'
    BY DEF CleanTracked
  <2>1. DOMAIN allocation_map' = DOMAIN allocation_map \cup {p}
    BY <1>5, EmplaceFacts
  <2>2. CASE k = p
    BY <2>1, <2>2, <1>5 DEF race
  <2>3. CASE k # p
    <3>1. Settled(k) /\ k \notin raced
      BY <2>3, <1>0, <1>4, <1>5
    <3> QED
      BY <3>1, <2>1, <1>0 DEF MapInv, CleanTracked
  <2> QED
    BY <2>2, <2>3
<1> QED
  BY <1>7, <1>8, <1>9, <1>10 DEF MapInv

\* An erase takes the entry of an object that is gone, or of one it overtook.
LEMMA EraseStep ==
  ASSUME TypeInv, MapInv, NEW t \in Threads, NEW x \in Addrs \cup {Null}, Others(t), EraseEffect(t, x)
  PROVE  MapInv'
<1> USE DEF Others, EraseEffect, CreatorsKept
<1>0. DOMAIN heap \subseteq Addrs /\ DOMAIN allocation_map \subseteq Addrs
  BY DEF TypeInv, TypeOK
<1>1. \A k \in Addrs : Settled(k)' <=> Settled(k)
  BY <1>0 DEF Settled
<1>2. /\ DOMAIN allocation_map' = DOMAIN allocation_map \ {x}
      /\ \A k \in DOMAIN allocation_map' : allocation_map'[k] = allocation_map[k]
  <2>1. /\ DOMAIN erase(allocation_map, x) = DOMAIN allocation_map \ {x}
        /\ \A k \in DOMAIN allocation_map \ {x} : erase(allocation_map, x)[k] = allocation_map[k]
    BY EraseFacts
  <2> QED
    BY <2>1 DEF removeAllocSite
<1>3. HeapDisjoint'
  BY DEF MapInv, HeapDisjoint
<1>4. CreatorsOwn'
  BY <1>0, <1>1 DEF MapInv, CreatorsOwn
<1>5. KeysAccounted'
  BY <1>0, <1>1, <1>2 DEF MapInv, KeysAccounted, Entry
<1>6. CleanTracked'
  BY <1>0, <1>1, <1>2 DEF MapInv, CleanTracked
<1> QED
  BY <1>3, <1>4, <1>5, <1>6 DEF MapInv

\* A change of the heap comes with the erase of what is gone.
LEMMA HeapStep ==
  ASSUME TypeInv, MapInv, NEW t \in Threads, NEW o \in Addrs \cup {Null}, NEW p \in Addrs \cup {Null},
         Others(t), HeapEffect(t, o, p)
  PROVE  MapInv'
<1> USE DEF Others, HeapEffect
<1>0. DOMAIN heap \subseteq Addrs /\ DOMAIN allocation_map \subseteq Addrs /\ Null \notin Addrs
  BY AddrsAssumption DEF TypeInv, TypeOK
<1>1. p \notin DOMAIN heap \ {o}
  <2>1. \A n, m : p \in Footprint(p, n) \cap Footprint(p, m)
    BY DEF Footprint
  <2> QED
    BY <2>1, <1>0
<1>2. \A k \in DOMAIN heap \ {o} : k # p /\ k \in DOMAIN heap' /\ heap'[k] = heap[k]
  BY <1>1
<1>3. ~Settled(p)' /\ (o # p => ~Settled(o)')
  BY <1>0 DEF Settled
<1>4. \A k \in Addrs \ {o, p} : Settled(k)' <=> Settled(k)
  BY <1>0 DEF Settled
<1>5. \A u \in Threads \ {t}, k \in Addrs : Creating(u, k) => k \in DOMAIN heap \ {o}
  <2>1. \A u \in Threads \ {t}, k \in Addrs : Creating(u, k) => k \in DOMAIN heap
    BY DEF MapInv, CreatorsOwn
  <2>2. \A u \in Threads \ {t} : o \in Addrs => ~Creating(u, o)
    BY <1>0 DEF Settled
  <2> QED
    BY <2>1, <2>2
<1>6. HeapDisjoint'
  <2> SUFFICES ASSUME NEW x \in DOMAIN heap', NEW y \in DOMAIN heap', x # y
               PROVE  Footprint(x, heap'[x].size) \cap Footprint(y, heap'[y].size) = {}
    BY DEF HeapDisjoint, Footprint
  <2>1. CASE x = p
    BY <2>1, <1>0, <1>2
  <2>2. CASE y = p
    BY <2>2, <1>0, <1>2
  <2>3. CASE x # p /\ y # p
    BY <2>3, <1>2 DEF MapInv, HeapDisjoint
  <2> QED
    BY <2>1, <2>2, <2>3
<1>7. CreatorsOwn'
  <2>1. ASSUME NEW u \in Threads, NEW k \in Addrs, Creating(u, k)'
        PROVE  k \in DOMAIN heap' /\ heap'[k].size = arg'[u].size /\ heap'[k].id = arg'[u].id
    <3>1. CASE u = t
      BY <2>1, <3>1, <1>0
    <3>2. CASE u # t
      BY <2>1, <3>2, <1>2, <1>5 DEF MapInv, CreatorsOwn
    <3> QED
      BY <3>1, <3>2
  <2>2. ASSUME NEW u \in Threads, NEW v \in Threads, NEW k \in Addrs, Creating(u, k)', Creating(v, k)'
        PROVE  u = v
    BY <2>2, <1>2, <1>5 DEF MapInv, CreatorsOwn
  <2>3. ASSUME NEW k \in DOMAIN heap', Settled(k)' PROVE heap'[k].size > 0
    BY <2>3, <1>0, <1>2, <1>3, <1>4 DEF MapInv, CreatorsOwn
  <2> QED
    BY <2>1, <2>2, <2>3 DEF CreatorsOwn
<1>8. KeysAccounted'
  <2> SUFFICES ASSUME NEW k \in DOMAIN allocation_map
               PROVE  (\E u \in Threads : PendingErase(u, k)') \/ (Settled(k)' /\ allocation_map[k] = Entry(k)')
    BY DEF KeysAccounted
  <2>1. (\E u \in Threads \ {t} : PendingErase(u, k)) \/ (Settled(k) /\ allocation_map[k] = Entry(k))
    BY <1>0 DEF MapInv, KeysAccounted
  <2>2. CASE k = o
    BY <2>2, <1>0
  <2>3. CASE k # o /\ Settled(k) /\ allocation_map[k] = Entry(k)
    BY <2>3, <1>0, <1>2, <1>4 DEF Settled, Entry
  <2>4. CASE \E u \in Threads \ {t} : PendingErase(u, k)
    BY <2>4, <1>0
  <2> QED
    BY <2>1, <2>2, <2>3, <2>4
<1>9. CleanTracked'
  <2> SUFFICES ASSUME NEW k \in DOMAIN heap', Settled(k)', k \notin raced
               PROVE  k \in DOMAIN allocation_map /\ \A u \in Threads : ~PendingErase(u, k)'
    BY DEF CleanTracked
  <2>1. k \in Addrs \ {o, p} /\ Settled(k)
    BY <1>0, <1>3, <1>4
  <2> QED
    BY <2>1, <1>0 DEF MapInv, CleanTracked, Settled
<1> QED
  BY <1>6, <1>7, <1>8, <1>9 DEF MapInv

-----------------------------------------------------------------------------
(* Every step has one of the four effects.                                 *)

\* A step of t changes nothing about the other threads.
LEMMA Frame ==
  ASSUME TypeInv, NEW t \in Threads, NEW x, NEW y,
         pc' = [pc EXCEPT ![t] = x], arg' = [arg EXCEPT ![t] = y]
  PROVE  pc'[t] = x /\ arg'[t] = y /\ Others(t)
<1>1. /\ pc'[t] = x /\ arg'[t] = y
      /\ \A u \in Threads \ {t} : pc'[u] = pc[u] /\ arg'[u] = arg[u]
  BY DEF TypeInv, TypeOK
<1>2. \A u \in Threads \ {t}, k \in Addrs : PendingErase(u, k)' <=> PendingErase(u, k)
  BY <1>1 DEF PendingErase
<1>3. \A u \in Threads \ {t}, k \in Addrs : Creating(u, k)' <=> Creating(u, k)
  BY <1>1 DEF Creating
<1> QED
  BY <1>1, <1>2, <1>3 DEF Others

\* A step after which t claims what it claimed before is quiet.
LEMMA QuietFrame ==
  ASSUME NEW t \in Threads, Others(t), UNCHANGED <<heap, allocation_map, raced>>,
         \A k \in Addrs : (PendingErase(t, k)' <=> PendingErase(t, k)) /\ (Creating(t, k)' <=> Creating(t, k)),
         \A k \in Addrs : Creating(t, k) => arg'[t].size = arg[t].size /\ arg'[t].id = arg[t].id
  PROVE  QuietEffect
BY DEF Others, QuietEffect, CreatorsKept

\* What the steps of thread t do.
LEMMA StepEffect ==
  ASSUME TypeInv, NEW t \in Threads, Program(t) \/ Runtime(t)
  PROVE  Others(t) /\ Effect(t)
<1>a. Null \notin Addrs /\ DOMAIN heap \subseteq Addrs /\ arg[t] \in Args
  BY AddrsAssumption DEF TypeInv, TypeOK
<1>b. pc[t] = "idle" => \A k \in Addrs : ~PendingErase(t, k) /\ ~Creating(t, k)
  BY DEF PendingErase, Creating, CreatingPcs, ReallocPcs
<1>c. arg = [arg EXCEPT ![t] = arg[t]] /\ pc = [pc EXCEPT ![t] = pc[t]]
  BY DEF TypeInv, TypeOK
<1>d. arg[t].ptr \in Addrs \cup {Null} /\ arg[t].old \in Addrs \cup {Null}
  BY <1>a DEF Args
<1>1. ASSUME NEW p \in Addrs \cup {Null}, NEW n \in Sizes, NEW id \in AllocIds, CallAlloc(t, p, n, id)
      PROVE  Others(t) /\ Effect(t)
  <2>1. /\ pc[t] = "idle" /\ UNCHANGED <<allocation_map, raced>>
        /\ pc' = [pc EXCEPT ![t] = "alloc"] /\ arg' = [arg EXCEPT ![t] = HookArg(p, n, Null, id)]
    BY <1>1 DEF CallAlloc, Goto, tracker, history
  <2>2. pc'[t] = "alloc" /\ arg'[t] = HookArg(p, n, Null, id) /\ Others(t)
    BY <2>1, Frame
  <2>3. \A k \in Addrs : (PendingErase(t, k)' <=> k = Null) /\ (Creating(t, k)' <=> k = p)
    BY <2>2, <1>a DEF PendingErase, Creating, CreatingPcs, HookArg
  <2>4. /\ DOMAIN heap' = (DOMAIN heap \ {Null}) \cup ({p} \ {Null})
        /\ \A x \in DOMAIN heap' \ {p} : heap'[x] = heap[x]
    BY <1>1, <1>a DEF CallAlloc, put
  <2>5. p # Null => /\ heap'[p].size = arg'[t].size /\ heap'[p].id = arg'[t].id
                    /\ \A x \in DOMAIN heap \ {Null} :
                         Footprint(p, heap'[p].size) \cap Footprint(x, heap[x].size) = {}
    BY <1>1, <2>2 DEF CallAlloc, put, Object, HookArg, Fits
  <2>6. HeapEffect(t, Null, p)
    BY <2>1, <2>3, <2>4, <2>5, <1>b DEF HeapEffect
  <2> QED
    BY <2>2, <2>6 DEF Effect
<1>2. ASSUME NEW o \in DOMAIN heap \cup {Null}, CallFree(t, o)
      PROVE  Others(t) /\ Effect(t)
  <2>1. /\ pc[t] = "idle" /\ UNCHANGED <<allocation_map, raced>>
        /\ pc' = [pc EXCEPT ![t] = "dealloc"] /\ arg' = [arg EXCEPT ![t] = HookArg(o, 0, Null, NoId)]
        /\ o # Null => Settled(o) /\ ~InUse(o)
        /\ o \in Addrs \cup {Null}
    BY <1>2, <1>a DEF CallFree, Goto, tracker, history
  <2>2. pc'[t] = "dealloc" /\ arg'[t] = HookArg(o, 0, Null, NoId) /\ Others(t)
    BY <2>1, Frame
  <2>3. \A k \in Addrs : (PendingErase(t, k)' <=> k = o) /\ (Creating(t, k)' <=> k = Null)
    BY <2>2, <1>a DEF PendingErase, Creating, CreatingPcs, ReallocPcs, HookArg
  <2>4. /\ DOMAIN heap' = (DOMAIN heap \ {o}) \cup ({Null} \ {Null})
        /\ \A x \in DOMAIN heap' \ {Null} : heap'[x] = heap[x]
    BY <1>2, <1>a DEF CallFree, erase, Restrict, Settled
  <2>5. HeapEffect(t, o, Null)
    BY <2>1, <2>3, <2>4, <1>b DEF HeapEffect
  <2> QED
    BY <2>1, <2>2, <2>5 DEF Effect
<1>3. ASSUME NEW o \in DOMAIN heap \cup {Null}, NEW p \in Addrs, NEW n \in Sizes \ {0},
             NEW id \in ReallocIds, CallRealloc(t, o, p, n, id)
      PROVE  Others(t) /\ Effect(t)
  <2> DEFINE rest == IF o = Null THEN heap ELSE erase(heap, o)
             prov == IF o = Null THEN {} ELSE heap[o].prov \cup {heap[o].id}
  <2>1. /\ pc[t] = "idle" /\ UNCHANGED <<allocation_map, raced>>
        /\ pc' = [pc EXCEPT ![t] = "re_get"] /\ arg' = [arg EXCEPT ![t] = HookArg(p, n, o, id)]
        /\ o # Null => Settled(o) /\ ~InUse(o)
        /\ o \in Addrs \cup {Null}
    BY <1>3, <1>a DEF CallRealloc, Goto, tracker
  <2>2. pc'[t] = "re_get" /\ arg'[t] = HookArg(p, n, o, id) /\ Others(t)
    BY <2>1, Frame
  <2>3. \A k \in Addrs : (PendingErase(t, k)' <=> k = o) /\ (Creating(t, k)' <=> k = p)
    BY <2>2, <1>a DEF PendingErase, Creating, CreatingPcs, ReallocPcs, HookArg
  <2>4. heap' = put(rest, p, Object(n, id, prov)) /\ Fits(IF p = o THEN rest ELSE heap, p, n)
    BY <1>3 DEF CallRealloc
  <2>5. /\ DOMAIN rest = DOMAIN heap \ {o}
        /\ \A x \in DOMAIN rest : rest[x] = heap[x]
    BY <1>a DEF erase, Restrict
  <2> HIDE DEF rest, prov
  <2>6. /\ DOMAIN heap' = (DOMAIN heap \ {o}) \cup ({p} \ {Null})
        /\ \A x \in DOMAIN heap' \ {p} : heap'[x] = heap[x]
        /\ heap'[p] = Object(n, id, prov)
    BY <2>4, <2>5, <1>a DEF put
  <2>7. /\ heap'[p].size = arg'[t].size /\ heap'[p].id = arg'[t].id
        /\ \A x \in DOMAIN heap \ {o} :
             Footprint(p, heap'[p].size) \cap Footprint(x, heap[x].size) = {}
    BY <2>2, <2>4, <2>5, <2>6 DEF Object, HookArg, Fits
  <2>8. HeapEffect(t, o, p)
    BY <2>1, <2>3, <2>6, <2>7, <1>b DEF HeapEffect
  <2> QED
    BY <2>1, <2>2, <2>8 DEF Effect
<1>4. ASSUME NEW o \in DOMAIN heap, NEW n \in Sizes, NEW id \in ReallocIds,
             CallReallocNull(t, o, n, id)
      PROVE  Others(t) /\ Effect(t)
  <2> DEFINE gone == IF n = 0 THEN o ELSE Null
  <2>1. /\ pc[t] = "idle" /\ UNCHANGED <<allocation_map, raced>>
        /\ pc' = [pc EXCEPT ![t] = "re_get"] /\ arg' = [arg EXCEPT ![t] = HookArg(Null, n, o, id)]
        /\ gone # Null => Settled(gone) /\ ~InUse(gone)
        /\ gone \in Addrs \cup {Null}
    BY <1>4, <1>a DEF CallReallocNull, Goto, tracker, history
  <2>2. pc'[t] = "re_get" /\ arg'[t] = HookArg(Null, n, o, id) /\ Others(t)
    BY <2>1, Frame
  <2>3. \A k \in Addrs : (PendingErase(t, k)' <=> k = gone) /\ (Creating(t, k)' <=> k = Null)
    BY <2>2, <1>a DEF PendingErase, Creating, CreatingPcs, ReallocPcs, HookArg
  <2>4. /\ DOMAIN heap' = (DOMAIN heap \ {gone}) \cup ({Null} \ {Null})
        /\ \A x \in DOMAIN heap' \ {Null} : heap'[x] = heap[x]
    BY <1>4, <1>a DEF CallReallocNull, erase, Restrict
  <2> HIDE DEF gone
  <2>5. HeapEffect(t, gone, Null)
    BY <2>1, <2>3, <2>4, <1>b DEF HeapEffect
  <2> QED
    BY <2>1, <2>2, <2>5 DEF Effect
<1>5. ASSUME pc[t] \notin CreatingPcs \cup {"dealloc"}, UNCHANGED <<heap, allocation_map, raced>>,
             NEW x \in {"idle"} \cup SegvPcs, NEW y,
             pc' = [pc EXCEPT ![t] = x], arg' = [arg EXCEPT ![t] = y]
      PROVE  Others(t) /\ Effect(t)
  <2>1. \A k \in Addrs : ~PendingErase(t, k) /\ ~Creating(t, k)
    BY <1>5 DEF PendingErase, Creating, CreatingPcs, ReallocPcs
  <2>2. pc'[t] = x /\ Others(t)
    BY <1>5, Frame
  <2>3. \A k \in Addrs : ~PendingErase(t, k)' /\ ~Creating(t, k)'
    BY <2>2 DEF PendingErase, Creating, CreatingPcs, ReallocPcs, SegvPcs
  <2>4. QuietEffect
    BY <1>5, <2>1, <2>2, <2>3, QuietFrame
  <2> QED
    BY <2>2, <2>4 DEF Effect
<1>6. ASSUME NEW q \in Memory, NEW k \in Pkeys, Access(t, q, k)
      PROVE  Others(t) /\ Effect(t)
  <2>1. PICK y : arg' = [arg EXCEPT ![t] = y]
    BY <1>6 DEF Access
  <2>2. /\ pc[t] = "idle" /\ pc' = [pc EXCEPT ![t] = "segv_lookup"]
        /\ UNCHANGED <<heap, allocation_map, raced>>
    BY <1>6 DEF Access, history, Goto, tracker
  <2> QED
    BY <2>1, <2>2, <1>5 DEF SegvPcs, CreatingPcs, ReallocPcs
<1>7. ASSUME faultLookup(t) PROVE Others(t) /\ Effect(t)
  <2>1. PICK x \in SegvPcs : pc' = [pc EXCEPT ![t] = x]
    BY <1>7 DEF faultLookup, Goto, SegvPcs
  <2>2. PICK y : arg' = [arg EXCEPT ![t] = y]
    BY <1>7 DEF faultLookup
  <2>3. pc[t] = "segv_lookup" /\ UNCHANGED <<heap, allocation_map, raced>>
    BY <1>7 DEF faultLookup, tracker, history
  <2> QED
    BY <2>1, <2>2, <2>3, <1>5 DEF CreatingPcs, ReallocPcs
<1>8. ASSUME faultInsert(t) PROVE Others(t) /\ Effect(t)
  BY <1>8, <1>5, <1>c DEF faultInsert, Goto, history, SegvPcs, CreatingPcs, ReallocPcs
<1>19. ASSUME faultLock(t) PROVE Others(t) /\ Effect(t)
  BY <1>19, <1>5, <1>c DEF faultLock, Goto, history, SegvPcs, CreatingPcs, ReallocPcs
<1>9. ASSUME faultChain(t) PROVE Others(t) /\ Effect(t)
  BY <1>9, <1>5, <1>c DEF faultChain, Goto, history, SegvPcs, CreatingPcs, ReallocPcs
<1>10. ASSUME faultReturn(t) PROVE Others(t) /\ Effect(t)
  BY <1>10, <1>5 DEF faultReturn, Return, Goto, tracker, history, CreatingPcs, ReallocPcs
<1>11. ASSUME Abort PROVE Others(t) /\ Effect(t)
  <2>1. UNCHANGED <<heap, allocation_map, raced, pc, arg>>
    BY <1>11 DEF Abort, tracker, history
  <2>2. /\ \A u \in Threads, k \in Addrs : PendingErase(u, k)' <=> PendingErase(u, k)
        /\ \A u \in Threads, k \in Addrs : Creating(u, k)' <=> Creating(u, k)
    BY <2>1 DEF PendingErase, Creating
  <2> QED
    BY <2>1, <2>2 DEF Effect, QuietEffect, CreatorsKept, Others
<1>12. ASSUME pc[t] \in {"alloc", "re_fresh", "re_insert"}, Constructible(arg[t].ptr, arg[t].size),
              insertAllocSite(t, arg[t].ptr, NewSite(t)), Return(t), UNCHANGED heap
       PROVE  Others(t) /\ Effect(t)
  <2> DEFINE p == arg[t].ptr
  <2>1. p \in Addrs /\ arg[t].size > 0
    BY <1>12, <1>d DEF Constructible
  <2>2. Creating(t, p) /\ \A k \in Addrs : ~PendingErase(t, k)
    BY <1>12 DEF Creating, PendingErase, CreatingPcs, ReallocPcs
  <2>3. pc' = [pc EXCEPT ![t] = "idle"] /\ arg' = [arg EXCEPT ![t] = NoArg]
    BY <1>12 DEF Return, Goto
  <2>4. pc'[t] = "idle" /\ Others(t)
    BY <2>3, Frame
  <2>5. \A k \in Addrs : ~PendingErase(t, k)' /\ ~Creating(t, k)'
    BY <2>4 DEF PendingErase, Creating, CreatingPcs, ReallocPcs
  <2>6. insertAllocSite(t, p, AllocSite(p, arg[t].size, arg[t].id))
    BY <1>12 DEF NewSite
  <2> HIDE DEF p
  <2>7. InsertEffect(t, p)
    BY <1>12, <2>1, <2>2, <2>5, <2>6 DEF InsertEffect
  <2> QED
    BY <2>1, <2>4, <2>7 DEF Effect
<1>13. ASSUME allocHook(t) PROVE Others(t) /\ Effect(t)
  BY <1>11, <1>12, <1>13 DEF allocHook
<1>14. ASSUME reallocFresh(t) \/ reallocInsert(t) PROVE Others(t) /\ Effect(t)
  <2>1. pc[t] \in {"re_fresh", "re_insert"}
    BY <1>14 DEF reallocFresh, reallocInsert
  <2>2. Constructible(arg[t].ptr, arg[t].size)
    BY <2>1 DEF TypeInv, ArgsFit, CreatingPcs, ReallocPcs
  <2> QED
    BY <1>12, <1>14, <2>1, <2>2 DEF reallocFresh, reallocInsert
<1>15. ASSUME deallocHook(t) PROVE Others(t) /\ Effect(t)
  <2> DEFINE x == arg[t].ptr
  <2>1. /\ pc[t] = "dealloc" /\ removeAllocSite(x) /\ UNCHANGED <<heap, raced>>
        /\ pc' = [pc EXCEPT ![t] = "idle"] /\ arg' = [arg EXCEPT ![t] = NoArg]
    BY <1>15 DEF deallocHook, Return, Goto, history
  <2>2. \A k \in Addrs : (PendingErase(t, k) <=> k = x) /\ ~Creating(t, k)
    BY <2>1 DEF PendingErase, Creating, CreatingPcs, ReallocPcs
  <2>3. pc'[t] = "idle" /\ Others(t)
    BY <2>1, Frame
  <2>4. \A k \in Addrs : ~PendingErase(t, k)' /\ ~Creating(t, k)'
    BY <2>3 DEF PendingErase, Creating, CreatingPcs, ReallocPcs
  <2>5. CreatorsKept
    BY <2>2, <2>3, <2>4 DEF CreatorsKept, Others
  <2>6. x \in Addrs \cup {Null}
    BY <1>d
  <2> HIDE DEF x
  <2>7. EraseEffect(t, x)
    BY <2>1, <2>2, <2>4, <2>5 DEF EraseEffect
  <2> QED
    BY <2>3, <2>6, <2>7 DEF Effect
<1>16. ASSUME reallocRemove(t) PROVE Others(t) /\ Effect(t)
  <2> DEFINE x == arg[t].old
  <2>1. /\ pc[t] = "re_remove" /\ removeAllocSite(x) /\ UNCHANGED <<heap, raced>>
        /\ pc' = [pc EXCEPT ![t] = "re_insert"] /\ arg' = [arg EXCEPT ![t] = arg[t]]
    BY <1>16, <1>c DEF reallocRemove, Goto, history
  <2>2. \A k \in Addrs : PendingErase(t, k) <=> k = x
    BY <2>1 DEF PendingErase
  <2>3. pc'[t] = "re_insert" /\ arg'[t] = arg[t] /\ Others(t)
    BY <2>1, Frame
  <2>4. \A k \in Addrs : ~PendingErase(t, k)' /\ (Creating(t, k)' <=> Creating(t, k))
    BY <2>1, <2>3 DEF PendingErase, Creating, CreatingPcs, ReallocPcs
  <2>5. CreatorsKept
    BY <2>3, <2>4 DEF CreatorsKept, Others
  <2>6. x \in Addrs \cup {Null}
    BY <1>d
  <2> HIDE DEF x
  <2>7. EraseEffect(t, x)
    BY <2>1, <2>2, <2>4, <2>5 DEF EraseEffect
  <2> QED
    BY <2>3, <2>6, <2>7 DEF Effect
<1>17. ASSUME reallocLock(t) \/ updateReallocChain(t) PROVE Others(t) /\ Effect(t)
  <2>1. PICK x \in {"re_extend", "re_remove"} :
          /\ pc[t] \in {"re_chain", "re_extend"} /\ UNCHANGED <<heap, allocation_map, raced>>
          /\ pc' = [pc EXCEPT ![t] = x] /\ arg' = [arg EXCEPT ![t] = arg[t]]
    BY <1>17, <1>c DEF reallocLock, updateReallocChain, Goto, history
  <2>2. pc'[t] = x /\ arg'[t] = arg[t] /\ Others(t)
    BY <2>1, Frame
  <2>3. \A k \in Addrs : (PendingErase(t, k)' <=> PendingErase(t, k)) /\ (Creating(t, k)' <=> Creating(t, k))
    BY <2>1, <2>2 DEF PendingErase, Creating, CreatingPcs, ReallocPcs
  <2>4. QuietEffect
    BY <2>1, <2>2, <2>3, QuietFrame
  <2> QED
    BY <2>2, <2>4 DEF Effect
<1>18. ASSUME reallocGet(t) PROVE Others(t) /\ Effect(t)
  <2> DEFINE oldAS == lookup(allocation_map, arg[t].old)
             x == arg[t].old
  <2>1. CASE ~Constructible(arg[t].ptr, arg[t].size)
    BY <1>11, <1>18, <2>1 DEF reallocGet
  <2>2. CASE Constructible(arg[t].ptr, arg[t].size)
    <3>1. /\ pc[t] = "re_get" /\ UNCHANGED <<heap, allocation_map, raced>>
          /\ pc' = [pc EXCEPT ![t] = IF isValid(oldAS) THEN "re_chain" ELSE "re_fresh"]
          /\ arg' = [arg EXCEPT ![t] = [arg[t] EXCEPT !.as = oldAS]]
      BY <1>18, <2>2, <1>a DEF reallocGet, Goto, tracker, history, TypeInv, TypeOK, Args
    <3>2. /\ pc'[t] = (IF isValid(oldAS) THEN "re_chain" ELSE "re_fresh")
          /\ arg'[t] = [arg[t] EXCEPT !.as = oldAS]
          /\ Others(t)
      BY <3>1, Frame
    <3>3. /\ arg'[t].ptr = arg[t].ptr /\ arg'[t].size = arg[t].size
          /\ arg'[t].old = arg[t].old /\ arg'[t].id = arg[t].id
      BY <3>2, <1>a DEF Args
    <3>4. \A k \in Addrs : Creating(t, k)' <=> Creating(t, k)
      BY <3>1, <3>2, <3>3 DEF Creating, CreatingPcs, ReallocPcs
    <3>5. arg[t].ptr # Null
      BY <2>2 DEF Constructible
    <3>6. x \in Addrs \cup {Null} /\ x \in Nat
      <4>1. Addrs \cup {Null} \subseteq Nat
        BY AddrsAssumption DEF Null
      <4> QED
        BY <4>1, <1>d
    <3> HIDE DEF oldAS
    <3>7. CASE isValid(oldAS)
      <4>1. \A k \in Addrs : PendingErase(t, k)' <=> PendingErase(t, k)
        BY <3>1, <3>2, <3>3, <3>5, <3>7 DEF PendingErase
      <4>2. QuietEffect
        BY <3>1, <3>2, <3>3, <3>4, <4>1, QuietFrame
      <4> QED
        BY <3>2, <4>2 DEF Effect
    \* An unknown old pointer has no entry, so nothing is left to erase.
    <3>8. CASE ~isValid(oldAS)
      <4>1. \A k \in Addrs : (PendingErase(t, k) <=> k = x) /\ ~PendingErase(t, k)'
        BY <3>1, <3>2, <3>5, <3>8 DEF PendingErase
      <4>2. x \notin DOMAIN allocation_map
        <5>1. DOMAIN allocation_map \subseteq Nat
          BY AddrsAssumption DEF TypeInv, TypeOK
        <5>2. x \in DOMAIN allocation_map => oldAS = allocation_map[x]
          BY <5>1, <3>6, LookupRange DEF oldAS
        <5>3. x \in DOMAIN allocation_map => oldAS \in Tracked
          BY <5>2 DEF TypeInv, TypeOK
        <5>4. isValid(oldAS) <=> oldAS \in Tracked
          BY <3>6, LookupType DEF oldAS, TypeInv
        <5> QED
          BY <5>3, <5>4, <3>8
      <4>3. removeAllocSite(x)
        <5>1. DOMAIN allocation_map \ {x} = DOMAIN allocation_map
          BY <4>2
        <5>2. allocation_map = [k \in DOMAIN allocation_map |-> allocation_map[k]]
          BY DEF TypeInv, TypeOK
        <5> QED
          BY <5>1, <5>2, <3>1 DEF removeAllocSite, erase, Restrict
      <4>4. CreatorsKept
        BY <3>2, <3>3, <3>4 DEF CreatorsKept, Others
      <4> HIDE DEF x
      <4>5. EraseEffect(t, x)
        BY <3>1, <4>1, <4>3, <4>4 DEF EraseEffect
      <4> QED
        BY <3>2, <3>6, <4>5 DEF Effect
    <3> QED
      BY <3>7, <3>8
  <2> QED
    BY <2>1, <2>2
<1> QED
  BY <1>1, <1>2, <1>3, <1>4, <1>6, <1>7, <1>8, <1>9, <1>10, <1>13, <1>14, <1>15,
     <1>16, <1>17, <1>18, <1>19 DEF Program, Runtime

\* Every step of every thread keeps the map in line with the allocator.
LEMMA MapStep == TypeInv /\ MapInv /\ [Next]_vars => MapInv'
<1> SUFFICES ASSUME TypeInv, MapInv, [Next]_vars PROVE MapInv'
  OBVIOUS
<1>1. CASE UNCHANGED vars \/ Terminated
  <2>1. UNCHANGED <<heap, allocation_map, raced, pc, arg>>
    BY <1>1 DEF Terminated, vars, tracker, history
  <2>2. QuietEffect
    BY <2>1 DEF QuietEffect, CreatorsKept, PendingErase, Creating
  <2> QED
    BY <2>2, QuietStep
<1>2. ASSUME NEW t \in Threads, Program(t) \/ Runtime(t) PROVE MapInv'
  BY <1>2, StepEffect, QuietStep, InsertStep, EraseStep, HeapStep DEF Effect
<1> QED
  BY <1>1, <1>2 DEF Next

\* The invariant of the map holds at first.
LEMMA MapInit == Init => MapInv
BY DEF Init, MapInv, HeapDisjoint, CreatorsOwn, KeysAccounted, CleanTracked, EmptyMap,
       Creating, CreatingPcs, ReallocPcs

-----------------------------------------------------------------------------
(* What the invariant says about getAllocSite.                             *)

\* The bytes of an object lie between its address and its end, and the end does
\* not wrap.
LEMMA Extent ==
  ASSUME NEW p \in Addrs, NEW n \in Sizes
  PROVE  /\ p \in Nat /\ n \in Nat /\ (p + n) % AddrSpace = p + n
         /\ \A q : q \in Footprint(p, n) <=> q = p \/ (q \in Nat /\ p <= q /\ q < p + n)
<1>1. p \in Nat /\ n \in Nat /\ p + n < AddrSpace /\ AddrSpace \in Nat /\ AddrSpace > 0
  BY AddrsAssumption, AddrSpaceAssumption
<1>2. (p + n) % AddrSpace = p + n
  BY <1>1
<1>3. \A q : q \in Footprint(p, n) <=> q = p \/ (q \in Nat /\ p <= q /\ q < p + n)
  BY <1>1 DEF Footprint
<1> QED
  BY <1>1, <1>2, <1>3

\* The nearest entry below an address in a settled object is the object's own.
LEMMA AttributionFromInv == TypeInv /\ MapInv => AttributionExact
<1> SUFFICES ASSUME TypeInv, MapInv, NEW p \in DOMAIN heap, Settled(p), Undisturbed(p),
                    NEW q \in Footprint(p, heap[p].size)
             PROVE  lookup(allocation_map, q) = Entry(p)
  BY DEF AttributionExact
<1>1. /\ p \in Addrs /\ heap[p].size \in Sizes
      /\ DOMAIN heap \subseteq Addrs /\ \A x \in DOMAIN heap : heap[x].size \in Sizes
      /\ DOMAIN allocation_map \subseteq Addrs /\ Addrs \subseteq Nat
  BY AddrsAssumption DEF TypeInv, TypeOK, Objects
<1>2. heap[p].size > 0
  BY DEF MapInv, CreatorsOwn
<1>3. p \in Nat /\ q \in Nat /\ p <= q /\ q < p + heap[p].size /\ (p + heap[p].size) % AddrSpace = p + heap[p].size
  BY <1>1, <1>2, Extent
<1>4. p \in DOMAIN allocation_map /\ \A t \in Threads : ~PendingErase(t, p)
  BY DEF MapInv, CleanTracked, Undisturbed
<1>5. allocation_map[p] = Entry(p)
  BY <1>4 DEF MapInv, KeysAccounted
<1>6. containsPtr(allocation_map[p], q)
  BY <1>3, <1>5 DEF containsPtr, Entry, AllocSite
\* No other key lies inside the object.
<1>7. ASSUME NEW k \in DOMAIN allocation_map, p < k, k <= q PROVE FALSE
  <2>1. k \in Nat /\ k \in Footprint(p, heap[p].size)
    BY <1>1, <1>3, <1>7, Extent
  <2>2. \A t \in Threads : ~PendingErase(t, k)
    BY <2>1 DEF Undisturbed
  <2>3. k \in DOMAIN heap
    BY <2>2 DEF MapInv, KeysAccounted, Settled
  <2>4. k \in Footprint(k, heap[k].size)
    BY DEF Footprint
  <2>5. k # p
    BY <1>7, <1>3, <2>1
  <2> QED
    BY <2>1, <2>3, <2>4, <2>5 DEF MapInv, HeapDisjoint
<1> QED
  <2>1. DOMAIN allocation_map \subseteq Nat
    BY <1>1
  <2>2. lookup(allocation_map, q) = allocation_map[p]
    BY <1>3, <1>4, <1>6, <1>7, <2>1, LookupExact
  <2> QED
    BY <2>2, <1>5

\* Without an erase outstanding an entry covers its object and nothing else.
LEMMA NoFalseBlameFromInv == TypeInv /\ MapInv => NoFalseBlame
<1> SUFFICES ASSUME TypeInv, MapInv,
                    \A t \in Threads, k \in Addrs : ~PendingErase(t, k),
                    NEW q \in Memory, \A p \in DOMAIN heap : q \notin Footprint(p, heap[p].size)
             PROVE  lookup(allocation_map, q) = error
  BY DEF NoFalseBlame
<1>1. /\ DOMAIN allocation_map \subseteq Addrs /\ Addrs \subseteq Nat /\ q \in Nat
      /\ \A x \in DOMAIN heap : heap[x].size \in Sizes
  BY AddrsAssumption, MemoryInNat DEF TypeInv, TypeOK, Objects
<1>2. ASSUME NEW k \in DOMAIN allocation_map, k <= q, k = q \/ containsPtr(allocation_map[k], q)
      PROVE  FALSE
  <2>1. k \in DOMAIN heap /\ allocation_map[k] = Entry(k) /\ k \in Addrs
    BY <1>1 DEF MapInv, KeysAccounted, Settled
  <2>2. k = q \/ (k <= q /\ q < k + heap[k].size)
    <3>1. (k + heap[k].size) % AddrSpace = k + heap[k].size
      BY <2>1, <1>1, Extent
    <3> QED
      BY <3>1, <2>1, <1>2 DEF containsPtr, Entry, AllocSite
  <2>3. q \in Footprint(k, heap[k].size)
    BY <2>1, <2>2, <1>1, Extent
  <2> QED
    BY <2>1, <2>3
<1>3. DOMAIN allocation_map \subseteq Nat
  BY <1>1
<1> QED
  BY <1>1, <1>2, <1>3, LookupRange

-----------------------------------------------------------------------------
(* Theorems on attribution.                                                *)

\* The invariant that ties allocation_map to the allocator holds throughout.
LEMMA MapInvariant == Spec => [](TypeInv /\ MapInv)
<1>1. Init => TypeInv /\ MapInv
  BY TypeInit, MapInit
<1>2. TypeInv /\ MapInv /\ [Next]_vars => (TypeInv /\ MapInv)'
  BY TypeStep, MapStep
<1> QED
  BY <1>1, <1>2, PTL DEF Spec

\* getAllocSite attributes every byte of every undisturbed object to the site
\* that allocated it, for any number of threads, addresses and sizes.
THEOREM AttributionCorrect == Spec => []AttributionExact
BY MapInvariant, AttributionFromInv, PTL

\* With no erase outstanding, getAllocSite knows nothing but live objects.
THEOREM NoFalseBlameCorrect == Spec => []NoFalseBlame
BY MapInvariant, NoFalseBlameFromInv, PTL

\* The hooks leak no entry: whatever is in allocation_map is a live object's
\* entry or has its erase still to come.
THEOREM KeysAccountedCorrect == Spec => []KeysAccounted
<1>1. MapInv => KeysAccounted
  BY DEF MapInv
<1> QED
  BY <1>1, MapInvariant, PTL

-----------------------------------------------------------------------------
(* Faults.                                                                 *)

\* fault_set and FM only grow.
LEMMA RecordsStep ==
  [Next]_vars => fault_set \subseteq fault_set' /\ \A id \in DOMAIN FM : id \in DOMAIN FM' /\ FM'[id] = FM[id]
<1> DEFINE Kept == fault_set \subseteq fault_set' /\ \A id \in DOMAIN FM : id \in DOMAIN FM' /\ FM'[id] = FM[id]
<1> SUFFICES ASSUME [Next]_vars PROVE Kept
  OBVIOUS
<1>1. CASE UNCHANGED <<fault_set, FM>>
  BY <1>1
<1>2. CASE UNCHANGED vars \/ Terminated
  BY <1>1, <1>2 DEF vars, tracker, Terminated
<1>3. ASSUME NEW t \in Threads, Program(t) PROVE UNCHANGED <<fault_set, FM>>
  BY <1>3 DEF Program, CallAlloc, CallFree, CallRealloc, CallReallocNull, Access, tracker
<1>4. ASSUME NEW t \in Threads, updateReallocChain(t) PROVE Kept
  BY <1>4 DEF updateReallocChain, emplace
<1>5. ASSUME NEW t \in Threads, faultInsert(t) \/ faultChain(t) PROVE Kept
  BY <1>5 DEF faultInsert, faultChain, insertFault
<1>6. ASSUME NEW t \in Threads, Runtime(t), ~updateReallocChain(t), ~faultInsert(t), ~faultChain(t)
      PROVE  UNCHANGED <<fault_set, FM>>
  BY <1>6 DEF Runtime, allocHook, deallocHook, reallocGet, reallocFresh, reallocLock, reallocRemove,
              reallocInsert, faultLookup, faultLock, faultReturn, Abort, tracker
<1> HIDE DEF Kept
<1>7. Kept
  BY <1>2, <1>3, <1>4, <1>5, <1>6, <1>1 DEF Next, Kept
<1> QED
  BY <1>7 DEF Kept

\* An object that a fault handler is working for survives the step of any thread.
LEMMA Protected ==
  ASSUME TypeInv, TypeInv', MapInv, NEW t \in Threads, Others(t), Effect(t),
         NEW p \in Addrs, Settled(p), Undisturbed(p), InUse(p)
  PROVE  p \in DOMAIN heap' /\ heap'[p] = heap[p] /\ Settled(p)' /\ Undisturbed(p)'
<1> DEFINE F == Footprint(p, heap[p].size)
<1>0. /\ p \in DOMAIN heap /\ Null \notin Addrs /\ DOMAIN heap \subseteq Addrs
      /\ \A x \in DOMAIN heap : heap[x].size \in Sizes
      /\ p \in F
  BY AddrsAssumption DEF Settled, TypeInv, TypeOK, Objects, Footprint
<1>1. Null \notin F
  <2>1. p \in Nat /\ p # Null /\ Null = 0
    BY AddrsAssumption DEF Null
  <2> QED
    BY <1>0, <2>1, Extent
<1>2. \A u \in Threads, k \in F : PendingErase(u, k)' => k \in Addrs
  <2>1. \A u \in Threads : arg'[u].ptr \in Addrs \cup {Null} /\ arg'[u].old \in Addrs \cup {Null}
    BY DEF TypeInv, TypeOK, Args
  <2> QED
    BY <2>1, <1>1 DEF PendingErase
<1>3. p \notin raced /\ \A u \in Threads, k \in F : ~PendingErase(u, k)
  BY DEF Undisturbed
<1>4. \A u \in Threads : ~Creating(u, p)
  BY DEF Settled
<1> HIDE DEF F
<1>5. SUFFICES /\ p \in DOMAIN heap' /\ heap'[p] = heap[p] /\ p \notin raced'
               /\ \A u \in Threads : ~Creating(u, p)'
               /\ \A u \in Threads, k \in F : k \in Addrs => ~PendingErase(u, k)'
  BY <1>5, <1>2 DEF Settled, Undisturbed, F
<1>6. CASE QuietEffect
  BY <1>6, <1>0, <1>3, <1>4 DEF QuietEffect, CreatorsKept
<1>7. ASSUME NEW x \in Addrs, InsertEffect(t, x)
      PROVE  /\ p \in DOMAIN heap' /\ heap'[p] = heap[p] /\ p \notin raced'
             /\ \A u \in Threads : ~Creating(u, p)'
             /\ \A u \in Threads, k \in F : k \in Addrs => ~PendingErase(u, k)'
  <2>1. x # p
    BY <1>7, <1>4 DEF InsertEffect
  <2>2. p \notin raced'
    BY <1>7, <2>1, <1>3 DEF InsertEffect, insertAllocSite
  <2> QED
    BY <1>7, <2>2, <1>0, <1>3, <1>4 DEF InsertEffect, Others
<1>8. ASSUME NEW x \in Addrs \cup {Null}, EraseEffect(t, x)
      PROVE  /\ p \in DOMAIN heap' /\ heap'[p] = heap[p] /\ p \notin raced'
             /\ \A u \in Threads : ~Creating(u, p)'
             /\ \A u \in Threads, k \in F : k \in Addrs => ~PendingErase(u, k)'
  BY <1>8, <1>0, <1>3, <1>4 DEF EraseEffect, Others, CreatorsKept
<1>9. ASSUME NEW o \in Addrs \cup {Null}, NEW x \in Addrs \cup {Null}, HeapEffect(t, o, x)
      PROVE  /\ p \in DOMAIN heap' /\ heap'[p] = heap[p] /\ p \notin raced'
             /\ \A u \in Threads : ~Creating(u, p)'
             /\ \A u \in Threads, k \in F : k \in Addrs => ~PendingErase(u, k)'
  <2>1. o # p
    BY <1>9, <1>0 DEF HeapEffect
  <2>2. x # p
    <3>1. \A n : p \in Footprint(p, n)
      BY DEF Footprint
    <3> QED
      BY <1>9, <2>1, <3>1, <1>0 DEF HeapEffect
  <2>3. o \notin F
    <3>1. CASE o = Null
      BY <3>1, <1>1
    <3>2. CASE o # Null
      <4>1. o \in DOMAIN heap /\ o \in Footprint(o, heap[o].size)
        BY <1>9, <3>2 DEF HeapEffect, Settled, Footprint
      <4> QED
        BY <4>1, <2>1, <1>0 DEF MapInv, HeapDisjoint, F
    <3> QED
      BY <3>1, <3>2
  <2>4. p \in DOMAIN heap' /\ heap'[p] = heap[p] /\ p \notin raced'
    BY <1>9, <2>1, <2>2, <1>0, <1>3 DEF HeapEffect
  <2>5. \A u \in Threads : ~Creating(u, p)'
    BY <1>9, <2>2, <1>4 DEF HeapEffect, Others
  <2>6. \A u \in Threads, k \in F : k \in Addrs => ~PendingErase(u, k)'
    BY <1>9, <2>3, <1>3 DEF HeapEffect, Others
  <2> QED
    BY <2>4, <2>5, <2>6
<1> QED
  BY <1>6, <1>7, <1>8, <1>9 DEF Effect

\* The handlers of all threads keep hold of the right objects and sites.
LEMMA FaultStep == TypeInv /\ MapInv /\ FaultsInFlight /\ [Next]_vars => FaultsInFlight'
<1> SUFFICES ASSUME TypeInv, MapInv, FaultsInFlight, [Next]_vars PROVE FaultsInFlight'
  OBVIOUS
<1>0. TypeInv' /\ fault_set \subseteq fault_set'
  BY TypeStep, RecordsStep
<1>1. CASE UNCHANGED vars \/ Terminated
  BY <1>1 DEF Terminated, vars, tracker, history, FaultsInFlight, Settled, Creating, Undisturbed,
              PendingErase, Entry
<1>2. ASSUME NEW t \in Threads, Program(t) \/ Runtime(t) PROVE FaultsInFlight'
  <2>0. Others(t) /\ Effect(t)
    BY <1>2, StepEffect
  <2> SUFFICES ASSUME NEW u \in Threads, NEW p \in Addrs, pc'[u] \in SegvPcs, arg'[u].obj = p
               PROVE  /\ Settled(p)' /\ Undisturbed(p)'
                      /\ arg'[u].addr \in Footprint(p, heap'[p].size)
                      /\ pc'[u] \in {"segv_insert", "segv_chain", "segv_walk"} => arg'[u].as = Entry(p)'
                      /\ pc'[u] \in {"segv_chain", "segv_walk", "segv_return"} => heap'[p].id \in IdsOf(fault_set')
    BY DEF FaultsInFlight, Footprint, IdsOf
  <2>1. ASSUME pc[u] \in SegvPcs, arg[u].obj = p
        PROVE  /\ p \in DOMAIN heap' /\ heap'[p] = heap[p] /\ Settled(p)' /\ Undisturbed(p)'
               /\ Entry(p)' = Entry(p)
               /\ Settled(p) /\ Undisturbed(p) /\ arg[u].addr \in Footprint(p, heap[p].size)
               /\ pc[u] \in {"segv_insert", "segv_chain", "segv_walk"} => arg[u].as = Entry(p)
               /\ pc[u] \in {"segv_chain", "segv_walk", "segv_return"} => heap'[p].id \in IdsOf(fault_set')
    <3>1. /\ Settled(p) /\ Undisturbed(p) /\ arg[u].addr \in Footprint(p, heap[p].size)
          /\ pc[u] \in {"segv_insert", "segv_chain", "segv_walk"} => arg[u].as = Entry(p)
          /\ pc[u] \in {"segv_chain", "segv_walk", "segv_return"} => heap[p].id \in IdsOf(fault_set)
      BY <2>1 DEF FaultsInFlight
    <3>2. InUse(p)
      BY <2>1, <3>1 DEF InUse
    <3>3. p \in DOMAIN heap' /\ heap'[p] = heap[p] /\ Settled(p)' /\ Undisturbed(p)'
      BY <3>1, <3>2, <2>0, <1>0, Protected
    <3>4. IdsOf(fault_set) \subseteq IdsOf(fault_set')
      BY <1>0 DEF IdsOf
    <3>5. Entry(p)' = Entry(p)
      BY <3>3 DEF Entry
    <3> QED
      BY <3>1, <3>3, <3>4, <3>5
  <2>2. CASE u # t
    <3>1. pc'[u] = pc[u] /\ arg'[u] = arg[u]
      BY <2>0, <2>2 DEF Others
    <3> QED
      BY <3>1, <2>1
  <2>3. CASE u = t
    <3>a. pc' \in [Threads -> {"idle"} \cup HookPcs \cup SegvPcs] /\ pc \in [Threads -> {"idle"} \cup HookPcs \cup SegvPcs]
          /\ arg \in [Threads -> Args]
      BY <1>0 DEF TypeInv, TypeOK
    <3>1. ASSUME NEW q \in Memory, NEW k \in Pkeys, Access(t, q, k)
          PROVE  /\ Settled(p)' /\ Undisturbed(p)'
                 /\ arg'[t].addr \in Footprint(p, heap'[p].size)
                 /\ pc'[t] = "segv_lookup"
      <4> DEFINE owner == {x \in DOMAIN heap : q \in Footprint(x, heap[x].size)}
                 sure  == {x \in owner : Undisturbed(x)}
                 obj   == IF sure = {} THEN Null ELSE CHOOSE x \in sure : TRUE
      <4>1. /\ \A x \in owner : Settled(x)
            /\ pc' = [pc EXCEPT ![t] = "segv_lookup"] /\ arg' = [arg EXCEPT ![t] = FaultArg(q, k, obj)]
            /\ UNCHANGED <<heap, raced>>
        BY <3>1 DEF Access, history, Goto
      <4>2. obj = p /\ arg'[t].addr = q /\ pc'[t] = "segv_lookup"
        BY <4>1, <3>a, <2>3 DEF FaultArg
      <4>3. p \in sure
        BY <4>2, AddrsAssumption
      <4>4. Settled(p) /\ Undisturbed(p) /\ q \in Footprint(p, heap[p].size)
        BY <4>1, <4>3
      <4>5. Settled(p)'
        BY <4>1, <4>2, <4>4, <2>0 DEF Settled, Others, Creating, CreatingPcs, ReallocPcs
      <4>6. \A v \in Threads, x \in Footprint(p, heap[p].size) : ~PendingErase(v, x)'
        <5>1. \A v \in Threads, x \in Footprint(p, heap[p].size) : ~PendingErase(v, x)
          BY <4>4 DEF Undisturbed
        <5>2. \A v \in Threads \ {t} : pc'[v] = pc[v] /\ arg'[v] = arg[v]
          BY <2>0 DEF Others
        <5> QED
          BY <5>1, <5>2, <4>2 DEF PendingErase
      <4>7. Undisturbed(p)'
        BY <4>1, <4>4, <4>6 DEF Undisturbed
      <4> QED
        BY <4>1, <4>2, <4>4, <4>5, <4>7
    <3>2. ASSUME faultLookup(t)
          PROVE  /\ Settled(p)' /\ Undisturbed(p)'
                 /\ arg'[t].addr \in Footprint(p, heap'[p].size)
                 /\ pc'[t] = "segv_insert" /\ arg'[t].as = Entry(p)'
      <4> DEFINE alloc == lookup(allocation_map, arg[t].addr)
      <4>1. /\ pc[t] = "segv_lookup"
            /\ arg' = [arg EXCEPT ![t] = [arg[t] EXCEPT !.as = alloc]]
            /\ pc' = [pc EXCEPT ![t] = IF isValid(alloc) THEN "segv_insert" ELSE "segv_return"]
        BY <3>2, <3>a DEF faultLookup, Goto, Args
      <4> HIDE DEF alloc
      <4>2. arg'[t].as = alloc /\ arg'[t].addr = arg[t].addr /\ arg'[t].obj = arg[t].obj
        BY <4>1, <3>a DEF Args
      <4>3. pc[u] \in SegvPcs /\ arg[u].obj = p
        BY <4>1, <4>2, <2>3 DEF SegvPcs
      <4>4. alloc = Entry(p)
        BY <4>3, <2>1, <2>3, AttributionFromInv DEF AttributionExact, alloc, Settled
      <4>5. isValid(Entry(p))
        <5>1. p \in DOMAIN heap /\ heap[p].size > 0
          BY <4>3, <2>1 DEF MapInv, CreatorsOwn, Settled
        <5>2. heap[p].id \in Ids /\ p # Null
          BY <5>1, AddrsAssumption DEF TypeInv, TypeOK, Objects
        <5> QED
          BY <5>1, <5>2, IdsAssumption DEF isValid, Entry, AllocSite
      <4>6. pc'[t] = "segv_insert"
        BY <4>1, <4>4, <4>5, <3>a
      <4> QED
        BY <4>2, <4>3, <4>4, <4>6, <2>1, <2>3
    <3>3. ASSUME faultInsert(t)
          PROVE  pc[t] \in SegvPcs /\ arg'[t] = arg[t] /\ pc[t] = "segv_insert" /\ pc'[t] = "segv_chain"
                 /\ arg[t].as.id \in IdsOf(fault_set')
      <4>1. /\ pc[t] = "segv_insert" /\ pc' = [pc EXCEPT ![t] = "segv_chain"] /\ arg' = arg
            /\ fault_set' = insertFault(fault_set, arg[t].as.id, arg[t].pkey)
        BY <3>3 DEF faultInsert, Goto
      <4>2. arg[t].as.id \in IdsOf(insertFault(fault_set, arg[t].as.id, arg[t].pkey))
        BY InsertFaultHolds
      <4> QED
        BY <4>1, <4>2, <3>a DEF SegvPcs
    <3>4. ASSUME faultLock(t) \/ faultChain(t)
          PROVE  /\ pc[t] \in SegvPcs /\ arg'[t] = arg[t] /\ pc[t] \in {"segv_chain", "segv_walk"}
                 /\ pc'[t] \in {"segv_walk", "segv_return"}
      BY <3>4, <3>a DEF faultLock, faultChain, Goto, SegvPcs
    <3>5. ASSUME ~faultLookup(t), ~faultInsert(t), ~faultLock(t), ~faultChain(t),
                 \A q \in Memory, k \in Pkeys : ~Access(t, q, k)
          PROVE  FALSE
      <4>1. pc'[t] \notin SegvPcs
        <5>1. CASE Program(t)
          <6>1. ASSUME NEW a \in Addrs \cup {Null}, NEW n \in Sizes, NEW id \in AllocIds, CallAlloc(t, a, n, id)
                PROVE  pc'[t] \notin SegvPcs
            BY <6>1, <3>a DEF CallAlloc, Goto, SegvPcs
          <6>2. ASSUME NEW a \in DOMAIN heap \cup {Null}, CallFree(t, a)
                PROVE  pc'[t] \notin SegvPcs
            BY <6>2, <3>a DEF CallFree, Goto, SegvPcs
          <6>3. ASSUME NEW o \in DOMAIN heap \cup {Null}, NEW a \in Addrs, NEW n \in Sizes \ {0},
                       NEW id \in ReallocIds, CallRealloc(t, o, a, n, id)
                PROVE  pc'[t] \notin SegvPcs
            BY <6>3, <3>a DEF CallRealloc, Goto, SegvPcs
          <6>4. ASSUME NEW o \in DOMAIN heap, NEW n \in Sizes, NEW id \in ReallocIds, CallReallocNull(t, o, n, id)
                PROVE  pc'[t] \notin SegvPcs
            BY <6>4, <3>a DEF CallReallocNull, Goto, SegvPcs
          <6> QED
            BY <5>1, <3>5, <6>1, <6>2, <6>3, <6>4 DEF Program
        <5>2. CASE Runtime(t)
          BY <5>2, <3>5, <3>a DEF Runtime, allocHook, deallocHook, reallocGet, reallocFresh,
             reallocLock, updateReallocChain, reallocRemove, reallocInsert, faultReturn, Abort, Return, Goto, SegvPcs
        <5> QED
          BY <5>1, <5>2, <1>2
      <4> QED
        BY <4>1, <2>3
    <3>6. CASE \E q \in Memory, k \in Pkeys : Access(t, q, k)
      BY <3>1, <3>6, <2>3
    <3>7. CASE faultLookup(t)
      BY <3>2, <3>7, <2>3
    <3>8. CASE faultInsert(t)
      <4>1. pc[u] \in SegvPcs /\ arg[u].obj = p /\ arg[u].as = Entry(p)
        BY <3>3, <3>8, <2>1, <2>3
      <4>2. Entry(p).id = heap[p].id
        BY DEF Entry, AllocSite
      <4> QED
        BY <3>3, <3>8, <4>1, <4>2, <2>1, <2>3
    <3>9. CASE faultLock(t) \/ faultChain(t)
      BY <3>4, <3>9, <2>1, <2>3
    <3> QED
      BY <3>5, <3>6, <3>7, <3>8, <3>9
  <2> QED
    BY <2>2, <2>3
<1> QED
  BY <1>1, <1>2 DEF Next

-----------------------------------------------------------------------------
(* The mutexes.                                                            *)

\* Whoever takes a mutex finds it free, and drops it where it leaves its section.
LEMMA LocksStep == TypeInv /\ LocksOwned /\ [Next]_vars => LocksOwned'
<1> SUFFICES ASSUME TypeInv, LocksOwned, [Next]_vars PROVE LocksOwned'
  OBVIOUS
<1> USE DEF LocksOwned
<1>0. pc \in [Threads -> {"idle"} \cup HookPcs \cup SegvPcs] /\ NoThread \notin Threads
  BY ThreadsAssumption DEF TypeInv, TypeOK
<1>1. CASE UNCHANGED <<mutexes, pc>>
  BY <1>1 DEF mutexes
<1>2. CASE UNCHANGED vars \/ Terminated
  BY <1>1, <1>2 DEF vars, tracker, Terminated
<1>3. ASSUME NEW t \in Threads, NEW x, pc' = [pc EXCEPT ![t] = x], UNCHANGED mutexes,
             pc[t] \notin {"segv_chain", "segv_walk", "re_extend"},
             x \notin {"segv_chain", "segv_walk", "re_extend"}
      PROVE  LocksOwned'
  BY <1>0, <1>3 DEF mutexes
<1>4. ASSUME NEW t \in Threads, Program(t) PROVE LocksOwned'
  <2>1. PICK x \in {"alloc", "dealloc", "re_get", "segv_lookup"} :
          pc[t] = "idle" /\ pc' = [pc EXCEPT ![t] = x] /\ UNCHANGED mutexes
    BY <1>4 DEF Program, CallAlloc, CallFree, CallRealloc, CallReallocNull, Access, tracker, Goto
  <2> QED
    BY <1>3, <2>1
<1>5. CASE Abort
  BY <1>1, <1>5 DEF Abort, tracker
<1>6. ASSUME NEW t \in Threads, allocHook(t) \/ deallocHook(t) \/ reallocGet(t) \/ reallocFresh(t)
                                \/ reallocRemove(t) \/ reallocInsert(t), ~Abort
      PROVE  LocksOwned'
  <2>1. /\ pc[t] \in {"alloc", "dealloc", "re_get", "re_fresh", "re_remove", "re_insert"}
        /\ UNCHANGED mutexes
        /\ \E x \in {"idle", "re_chain", "re_fresh", "re_insert"} : pc' = [pc EXCEPT ![t] = x]
    BY <1>6 DEF allocHook, deallocHook, reallocGet, reallocFresh, reallocRemove, reallocInsert,
                tracker, mutexes, Return, Goto
  <2> QED
    BY <1>3, <2>1
<1>7. ASSUME NEW t \in Threads, faultLookup(t) \/ faultReturn(t) PROVE LocksOwned'
  <2>1. /\ pc[t] \in {"segv_lookup", "segv_return"} /\ UNCHANGED mutexes
        /\ \E x \in {"idle", "segv_insert", "segv_return"} : pc' = [pc EXCEPT ![t] = x]
    BY <1>7 DEF faultLookup, faultReturn, tracker, mutexes, Return, Goto
  <2> QED
    BY <1>3, <2>1
<1>8. ASSUME NEW t \in Threads, reallocLock(t) PROVE LocksOwned'
  BY <1>0, <1>8 DEF reallocLock, Goto
<1>9. ASSUME NEW t \in Threads, updateReallocChain(t) PROVE LocksOwned'
  BY <1>0, <1>9 DEF updateReallocChain, Goto
<1>10. ASSUME NEW t \in Threads, faultInsert(t) PROVE LocksOwned'
  BY <1>0, <1>10 DEF faultInsert, Goto
<1>11. ASSUME NEW t \in Threads, faultLock(t) PROVE LocksOwned'
  BY <1>0, <1>11 DEF faultLock, Goto
<1>12. ASSUME NEW t \in Threads, faultChain(t) PROVE LocksOwned'
  BY <1>0, <1>12 DEF faultChain, Goto
<1> QED
  BY <1>2, <1>4, <1>5, <1>6, <1>7, <1>8, <1>9, <1>10, <1>11, <1>12 DEF Next, Runtime

\* The whole invariant of the tracker holds under every interleaving of hooks and
\* handlers: allocation_map, the calls in progress, the faults being handled and
\* the mutexes agree with the heap and the threads, for any number of threads.
THEOREM IndInvCorrect == Spec => []IndInv
<1>1. Init => FaultsInFlight /\ LocksOwned
  BY ThreadsAssumption DEF Init, FaultsInFlight, LocksOwned, SegvPcs
<1>2. TypeInv /\ MapInv /\ FaultsInFlight /\ LocksOwned => IndInv
  BY DEF TypeInv, MapInv, IndInv
<1>3. TypeInv /\ MapInv /\ FaultsInFlight /\ [Next]_vars => FaultsInFlight'
  BY FaultStep
<1>4. TypeInv /\ LocksOwned /\ [Next]_vars => LocksOwned'
  BY LocksStep
<1> QED
  BY <1>1, <1>2, <1>3, <1>4, MapInvariant, PTL DEF Spec

\* No thread waits for a mutex in vain: its owner is inside a hook or the handler,
\* and waits for nobody, or for one that waits for nobody; so the nesting of the
\* two locks in addFaultAlloc cannot deadlock with updateReallocChain, for any
\* number of threads.
THEOREM WaitsEndCorrect == Spec => []WaitsEnd
<1>1. IndInv => WaitsEnd
  <2> SUFFICES ASSUME IndInv, NEW t \in Threads, NEW u \in WaitsFor(t)
               PROVE  pc[u] # "idle" /\ \A v \in WaitsFor(u) : pc[v] # "idle" /\ WaitsFor(v) = {}
    BY DEF WaitsEnd
  <2>1. LocksOwned /\ NoThread \notin Threads
    BY ThreadsAssumption DEF IndInv
  <2>2. \A x, y \in Threads : x \in WaitsFor(y) => pc[x] \in {"segv_chain", "segv_walk", "re_extend"}
    BY <2>1 DEF LocksOwned, WaitsFor
  <2>3. u \in Threads /\ \A v \in WaitsFor(u) : v \in Threads
    BY DEF WaitsFor
  <2>4. \A v \in WaitsFor(u) : pc[v] \in {"segv_walk", "re_extend"}
    BY <2>1, <2>2, <2>3 DEF LocksOwned, WaitsFor
  <2>5. \A v \in WaitsFor(u) : WaitsFor(v) = {}
    BY <2>4 DEF WaitsFor
  <2> QED
    BY <2>2, <2>3, <2>4, <2>5
<1> QED
  BY <1>1, IndInvCorrect, PTL

\* When the handler is done with a fault on an undisturbed object, the object's
\* site is in fault_set, for any number of threads faulting, allocating and freeing.
THEOREM FaultRecordedCorrect == Spec => []FaultRecorded
<1>1. IndInv => FaultRecorded
  <2> SUFFICES ASSUME IndInv, NEW t \in Threads, pc[t] = "segv_return", arg[t].obj # Null
               PROVE  heap[arg[t].obj].id \in IdsOf(fault_set)
    BY DEF FaultRecorded
  <2>1. arg[t].obj \in Addrs
    BY DEF IndInv, TypeOK, Args
  <2> QED
    BY <2>1 DEF IndInv, FaultsInFlight, SegvPcs
<1> QED
  BY <1>1, IndInvCorrect, PTL
=============================================================================
