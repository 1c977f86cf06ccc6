-------------------------- MODULE AllocSiteHandler --------------------------
(***************************************************************************)
(* The allocation tracker of the runtime: allocHook, reallocHook,          *)
(* deallocHook (Runtime/alloc_site_handler.cpp), the AllocSiteHandler      *)
(* methods they call, and the attribution half of pku_segv_handler         *)
(* (Runtime/provsan_fault_handler.cpp).                                    *)
(*                                                                         *)
(* The Pre pass places every hook AFTER the call it instruments.  The      *)
(* allocator therefore changes first (variable heap, external) and the     *)
(* tracker follows in later steps, between which other threads may         *)
(* allocate, free, or fault.  A method that only holds alloc_map_mx, and   *)
(* never waits under it, is one step.  fault_set_mx and realloc_map_mx     *)
(* are locks with owners: addFaultAlloc takes the second while it holds    *)
(* the first, and updateReallocChain takes the second.                     *)
(***************************************************************************)
EXTENDS AllocSites

CONSTANTS
  Threads,     \* threads of the instrumented program
  NoThread,    \* "nobody": an unlocked mutex
  Addrs,       \* addresses at which the allocator may place an object
  Sizes,       \* sizes the program may request; 0 is a legal request
  AllocIds,    \* identities of the allocHook sites
  ReallocIds,  \* identities of the reallocHook sites
  Pkeys        \* protection keys that may be reported with a fault

ASSUME ThreadsAssumption == NoThread \notin Threads
ASSUME AddrsAssumption ==
  /\ Addrs \subseteq Nat \ {Null}
  /\ Sizes \subseteq Nat
  /\ \A a \in Addrs, n \in Sizes : a + n < AddrSpace
ASSUME SiteAssumption == AllocIds \cup ReallocIds \subseteq Ids

VARIABLES
  heap,            \* external: address -> object, what the allocator really holds
  allocation_map,  \* address -> AllocSite
  FM,              \* site identity -> identities it was reallocated from
  fault_set,       \* set of [id, pkey]
  fault_set_mx,    \* owner of the mutex
  realloc_map_mx,  \* owner of the mutex that guards FM
  pc, arg,         \* where each thread is, and the arguments and locals it holds
  aborted,         \* an assert of the AllocSite constructor failed
  raced,           \* history: objects inserted while an erase of their key was pending
  overtaken,       \* history: raced has been non-empty
  flows            \* history: realloc site -> provenances of the objects it returned

mutexes == <<fault_set_mx, realloc_map_mx>>
tracker == <<allocation_map, FM, fault_set, mutexes>>
history == <<raced, overtaken, flows>>
vars == <<heap, tracker, pc, arg, aborted, history>>

-----------------------------------------------------------------------------
\* Bytes an object occupies; an object of size 0 still has an address.
Footprint(p, n) == {p} \cup p .. (p + n - 1)

\* Every address the allocator can hand out a byte of.
Memory == UNION {Footprint(a, n) : a \in Addrs, n \in Sizes}

Object(n, id, prov) == [size |-> n, id |-> id, prov |-> prov]

put(h, p, obj) == [x \in DOMAIN h \cup {p} |-> IF x = p THEN obj ELSE h[x]]

\* malloc never returns memory that overlaps a live object.
Fits(h, p, n) == \A x \in DOMAIN h : Footprint(p, n) \cap Footprint(x, h[x].size) = {}

\* What a thread holds on entry to a hook, and on entry to the fault handler.
HookArg(ptr, size, old, id) ==
  [ptr |-> ptr, size |-> size, old |-> old, id |-> id, as |-> error,
   addr |-> Null, pkey |-> 0, obj |-> Null]
FaultArg(addr, pkey, obj) ==
  [ptr |-> Null, size |-> 0, old |-> Null, id |-> NoId, as |-> error,
   addr |-> addr, pkey |-> pkey, obj |-> obj]
NoArg == HookArg(Null, 0, Null, NoId)

ReallocPcs  == {"re_get", "re_fresh", "re_chain", "re_extend", "re_remove", "re_insert"}
HookPcs     == {"alloc", "dealloc"} \cup ReallocPcs
CreatingPcs == {"alloc"} \cup ReallocPcs
SegvPcs     == {"segv_lookup", "segv_insert", "segv_chain", "segv_walk", "segv_return"}

Creating(t, p) == pc[t] \in CreatingPcs /\ arg[t].ptr = p

\* The memory of key k is gone but its entry is not: t will still erase it, or is
\* about to look it up.  A realloc that fails for lack of memory keeps the old
\* object, and its hook stops at the assert.
PendingErase(t, k) ==
  \/ pc[t] = "dealloc" /\ arg[t].ptr = k
  \/ pc[t] = "re_get" /\ arg[t].old = k /\ (arg[t].ptr # Null \/ arg[t].size = 0)
  \/ pc[t] \in {"re_chain", "re_extend", "re_remove"} /\ arg[t].old = k

\* An object whose allocation call, hook included, has returned to the program.
Settled(p) == p \in DOMAIN heap /\ \A t \in Threads : ~Creating(t, p)

InUse(p) == \E t \in Threads : pc[t] \in SegvPcs /\ arg[t].addr \in Footprint(p, heap[p].size)

\* No erase is due that can hit the entry of p or a stale entry inside p.
Undisturbed(p) ==
  /\ p \notin raced
  /\ \A t \in Threads, k \in Footprint(p, heap[p].size) : ~PendingErase(t, k)

-----------------------------------------------------------------------------
Init ==
  /\ heap = EmptyMap
  /\ allocation_map = EmptyMap
  /\ FM = EmptyMap
  /\ fault_set = {}
  /\ fault_set_mx = NoThread
  /\ realloc_map_mx = NoThread
  /\ pc = [t \in Threads |-> "idle"]
  /\ arg = [t \in Threads |-> NoArg]
  /\ aborted = FALSE
  /\ raced = {}
  /\ overtaken = FALSE
  /\ flows = [id \in ReallocIds |-> {}]

Goto(t, label) == pc' = [pc EXCEPT ![t] = label]
Return(t) == Goto(t, "idle") /\ arg' = [arg EXCEPT ![t] = NoArg]

\* assert() failed: SIGABRT ends every thread.
Abort == aborted' = TRUE /\ UNCHANGED <<heap, tracker, pc, arg, history>>

-----------------------------------------------------------------------------
(* The program and its allocator (external): the instrumented call itself, *)
(* up to the hook that follows it.                                         *)

CallAlloc(t, p, n, id) ==
  /\ pc[t] = "idle"
  /\ \/ p = Null /\ UNCHANGED heap             \* out of memory
     \/ p # Null /\ Fits(heap, p, n) /\ heap' = put(heap, p, Object(n, id, {}))
  /\ Goto(t, "alloc")
  /\ arg' = [arg EXCEPT ![t] = HookArg(p, n, Null, id)]
  /\ UNCHANGED <<tracker, aborted, history>>

\* free(NULL) is legal, and is followed by the hook too.
CallFree(t, p) ==
  /\ pc[t] = "idle"
  /\ \/ p = Null /\ UNCHANGED heap
     \/ Settled(p) /\ ~InUse(p) /\ heap' = erase(heap, p)
  /\ Goto(t, "dealloc")
  /\ arg' = [arg EXCEPT ![t] = HookArg(p, 0, Null, NoId)]
  /\ UNCHANGED <<tracker, aborted, history>>

\* realloc(o, n) returning p; p = o when the object is resized in place.
CallRealloc(t, o, p, n, id) ==
  LET rest == IF o = Null THEN heap ELSE erase(heap, o)
      prov == IF o = Null THEN {} ELSE heap[o].prov \cup {heap[o].id}
  IN  /\ pc[t] = "idle"
      /\ o = Null \/ (Settled(o) /\ ~InUse(o))
      /\ Fits(IF p = o THEN rest ELSE heap, p, n)
      /\ heap' = put(rest, p, Object(n, id, prov))
      /\ flows' = [flows EXCEPT ![id] = @ \cup {prov \ {id}}]
      /\ Goto(t, "re_get")
      /\ arg' = [arg EXCEPT ![t] = HookArg(p, n, o, id)]
      /\ UNCHANGED <<tracker, aborted, raced, overtaken>>

\* realloc returning NULL: out of memory, or realloc(o, 0), which frees o.
CallReallocNull(t, o, n, id) ==
  /\ pc[t] = "idle"
  /\ Settled(o) /\ ~InUse(o)
  /\ heap' = IF n = 0 THEN erase(heap, o) ELSE heap
  /\ Goto(t, "re_get")
  /\ arg' = [arg EXCEPT ![t] = HookArg(Null, n, o, id)]
  /\ UNCHANGED <<tracker, aborted, history>>

\* Compartmentalised code touches address q and the CPU raises SEGV_PKUERR.
\* q is in an object the program holds, or in memory no hook reported.
Access(t, q, k) ==
  LET owner == {p \in DOMAIN heap : q \in Footprint(p, heap[p].size)}
      sure  == {p \in owner : Undisturbed(p)}
  IN  /\ pc[t] = "idle"
      /\ \A p \in owner : Settled(p)
      /\ Goto(t, "segv_lookup")
      /\ arg' = [arg EXCEPT ![t] = FaultArg(q, k, IF sure = {} THEN Null ELSE CHOOSE p \in sure : TRUE)]
      /\ UNCHANGED <<heap, tracker, aborted, history>>

-----------------------------------------------------------------------------
(* The hooks.                                                              *)

\* insertAllocSite.  Recorded beside it: whether another thread has yet to
\* erase this very key, on behalf of the object that was there before.
insertAllocSite(t, ptr, site) ==
  /\ allocation_map' = emplace(allocation_map, ptr, site)
  /\ LET race == \E u \in Threads \ {t} : PendingErase(u, ptr)
     IN  /\ raced' = IF race THEN raced \cup {ptr} ELSE raced \ {ptr}
         /\ overtaken' = (overtaken \/ race)

removeAllocSite(ptr) == allocation_map' = erase(allocation_map, ptr)

NewSite(t) == AllocSite(arg[t].ptr, arg[t].size, arg[t].id)

allocHook(t) ==
  /\ pc[t] = "alloc"
  /\ IF Constructible(arg[t].ptr, arg[t].size)
       THEN /\ insertAllocSite(t, arg[t].ptr, NewSite(t))
            /\ Return(t)
            /\ UNCHANGED <<heap, FM, fault_set, mutexes, aborted, flows>>
       ELSE Abort

\* deallocHook without removeAllocSite.
deallocHook_leak(t) ==
  /\ pc[t] = "dealloc"
  /\ Return(t)
  /\ UNCHANGED <<heap, tracker, aborted, history>>

deallocHook(t) ==
  /\ pc[t] = "dealloc"
  /\ removeAllocSite(arg[t].ptr)
  /\ Return(t)
  /\ UNCHANGED <<heap, FM, fault_set, mutexes, aborted, history>>

\* getAllocSite(oldPtr), then the constructor of the new site on either branch.
reallocGet(t) ==
  LET oldAS == lookup(allocation_map, arg[t].old)
  IN  /\ pc[t] = "re_get"
      /\ IF Constructible(arg[t].ptr, arg[t].size)
           THEN /\ arg' = [arg EXCEPT ![t].as = oldAS]
                /\ Goto(t, IF isValid(oldAS) THEN "re_chain" ELSE "re_fresh")
                /\ UNCHANGED <<heap, tracker, aborted, history>>
           ELSE Abort

\* The old pointer is unknown: the new one is tracked without a chain.
reallocFresh(t) ==
  /\ pc[t] = "re_fresh"
  /\ insertAllocSite(t, arg[t].ptr, NewSite(t))
  /\ Return(t)
  /\ UNCHANGED <<heap, FM, fault_set, mutexes, aborted, flows>>

\* A chain of one: the sites the old one was reallocated from are forgotten.
chainThrough_last(oldAS) == {oldAS.id}

\* The chain FM records for a site reallocated from oldAS.
chainThrough(oldAS) ==
  IF oldAS.id \in DOMAIN FM THEN FM[oldAS.id] \cup {oldAS.id} ELSE {oldAS.id}

\* updateReallocChain: the guard on realloc_map_mx, then the chain under it.
reallocLock(t) ==
  /\ pc[t] = "re_chain"
  /\ realloc_map_mx = NoThread
  /\ realloc_map_mx' = t
  /\ Goto(t, "re_extend")
  /\ UNCHANGED <<heap, allocation_map, FM, fault_set, fault_set_mx, arg, aborted, history>>

\* FM[newAS] = {oldAS} instead of emplace.
updateReallocChain_assign(t) ==
  /\ pc[t] = "re_extend"
  /\ FM' = put(FM, arg[t].id, {arg[t].as.id})
  /\ realloc_map_mx' = NoThread
  /\ Goto(t, "re_remove")
  /\ UNCHANGED <<heap, allocation_map, fault_set, fault_set_mx, arg, aborted, history>>

\* The two sites are swapped: a chain from the old one to the new one.
updateReallocChain_swapped(t) ==
  /\ pc[t] = "re_extend"
  /\ FM' = emplace(FM, arg[t].as.id, {arg[t].id})
  /\ realloc_map_mx' = NoThread
  /\ Goto(t, "re_remove")
  /\ UNCHANGED <<heap, allocation_map, fault_set, fault_set_mx, arg, aborted, history>>

\* Looks at fault_set too, under its mutex: the nesting of addFaultAlloc reversed.
updateReallocChain_nested(t) ==
  /\ pc[t] = "re_extend"
  /\ fault_set_mx = NoThread
  /\ FM' = emplace(FM, arg[t].id, chainThrough(arg[t].as))
  /\ realloc_map_mx' = NoThread
  /\ Goto(t, "re_remove")
  /\ UNCHANGED <<heap, allocation_map, fault_set, fault_set_mx, arg, aborted, history>>

updateReallocChain(t) ==
  /\ pc[t] = "re_extend"
  /\ FM' = emplace(FM, arg[t].id, chainThrough(arg[t].as))
  /\ realloc_map_mx' = NoThread
  /\ Goto(t, "re_remove")
  /\ UNCHANGED <<heap, allocation_map, fault_set, fault_set_mx, arg, aborted, history>>

\* reallocHook without removeAllocSite.
reallocRemove_skip(t) ==
  /\ pc[t] = "re_remove"
  /\ Goto(t, "re_insert")
  /\ UNCHANGED <<heap, tracker, arg, aborted, history>>

reallocRemove(t) ==
  /\ pc[t] = "re_remove"
  /\ removeAllocSite(arg[t].old)
  /\ Goto(t, "re_insert")
  /\ UNCHANGED <<heap, FM, fault_set, mutexes, arg, aborted, history>>

reallocInsert(t) ==
  /\ pc[t] = "re_insert"
  /\ insertAllocSite(t, arg[t].ptr, NewSite(t))
  /\ Return(t)
  /\ UNCHANGED <<heap, FM, fault_set, mutexes, aborted, flows>>

-----------------------------------------------------------------------------
(* pku_segv_handler for SEGV_PKUERR, up to disable_mpk.                    *)

\* addFaultAlloc without the isValid test.
faultLookup_unchecked(t) ==
  /\ pc[t] = "segv_lookup"
  /\ arg' = [arg EXCEPT ![t].as = lookup(allocation_map, arg[t].addr)]
  /\ Goto(t, "segv_insert")
  /\ UNCHANGED <<heap, tracker, aborted, history>>

faultLookup(t) ==
  LET alloc == lookup(allocation_map, arg[t].addr)
  IN  /\ pc[t] = "segv_lookup"
      /\ arg' = [arg EXCEPT ![t].as = alloc]
      /\ Goto(t, IF isValid(alloc) THEN "segv_insert" ELSE "segv_return")
      /\ UNCHANGED <<heap, tracker, aborted, history>>

\* try_lock: a handler that finds fault_set_mx taken gives up.
faultInsert_try(t) ==
  /\ pc[t] = "segv_insert"
  /\ IF fault_set_mx = NoThread
       THEN /\ fault_set_mx' = t
            /\ fault_set' = insertFault(fault_set, arg[t].as.id, arg[t].pkey)
            /\ Goto(t, "segv_chain")
       ELSE Goto(t, "segv_return") /\ UNCHANGED <<fault_set, fault_set_mx>>
  /\ UNCHANGED <<heap, allocation_map, FM, realloc_map_mx, arg, aborted, history>>

faultInsert(t) ==
  /\ pc[t] = "segv_insert"
  /\ fault_set_mx = NoThread
  /\ fault_set_mx' = t
  /\ fault_set' = insertFault(fault_set, arg[t].as.id, arg[t].pkey)
  /\ Goto(t, "segv_chain")
  /\ UNCHANGED <<heap, allocation_map, FM, realloc_map_mx, arg, aborted, history>>

\* The second guard of addFaultAlloc, taken while it holds the first.
faultLock(t) ==
  /\ pc[t] = "segv_chain"
  /\ realloc_map_mx = NoThread
  /\ realloc_map_mx' = t
  /\ Goto(t, "segv_walk")
  /\ UNCHANGED <<heap, allocation_map, FM, fault_set, fault_set_mx, arg, aborted, history>>

\* Marks the sites a realloc chain leads back to, then drops both guards.
faultChain(t) ==
  LET chain == IF arg[t].as.id \in DOMAIN FM THEN FM[arg[t].as.id] ELSE {}
  IN  /\ pc[t] = "segv_walk"
      /\ fault_set' = fault_set \cup {[id |-> i, pkey |-> arg[t].pkey] :
                                        i \in chain \ IdsOf(fault_set)}
      /\ fault_set_mx' = NoThread
      /\ realloc_map_mx' = NoThread
      /\ Goto(t, "segv_return")
      /\ UNCHANGED <<heap, allocation_map, FM, arg, aborted, history>>

\* The later lookups of pku_segv_handler only feed its log messages.
faultReturn(t) ==
  /\ pc[t] = "segv_return"
  /\ Return(t)
  /\ UNCHANGED <<heap, tracker, aborted, history>>

-----------------------------------------------------------------------------
Program(t) ==
  \/ \E p \in Addrs \cup {Null}, n \in Sizes, id \in AllocIds : CallAlloc(t, p, n, id)
  \/ \E p \in DOMAIN heap \cup {Null} : CallFree(t, p)
  \/ \E o \in DOMAIN heap \cup {Null}, p \in Addrs, n \in Sizes \ {0}, id \in ReallocIds :
       CallRealloc(t, o, p, n, id)
  \/ \E o \in DOMAIN heap, n \in Sizes, id \in ReallocIds : CallReallocNull(t, o, n, id)
  \/ \E q \in Memory, k \in Pkeys : Access(t, q, k)

Runtime(t) ==
  \/ allocHook(t) \/ deallocHook(t)
  \/ reallocGet(t) \/ reallocFresh(t)
  \/ reallocLock(t) \/ updateReallocChain(t) \/ reallocRemove(t) \/ reallocInsert(t)
  \/ faultLookup(t) \/ faultInsert(t) \/ faultLock(t) \/ faultChain(t) \/ faultReturn(t)

Terminated == aborted /\ UNCHANGED vars

Next ==
  \/ ~aborted /\ \E t \in Threads : Program(t) \/ Runtime(t)
  \/ Terminated

Spec == Init /\ [][Next]_vars

-----------------------------------------------------------------------------
(* Types.                                                                  *)

Objects == [size : Sizes, id : Ids, prov : SUBSET Ids]
Tracked == [ptr : Addrs, size : Sizes \ {0}, id : Ids]
Args == [ptr : Addrs \cup {Null}, size : Sizes \cup {0}, old : Addrs \cup {Null},
         id : Ids \cup {NoId}, as : Tracked \cup {error},
         addr : Memory \cup {Null}, pkey : Pkeys \cup {0}, obj : Addrs \cup {Null}]

\* Every variable of the tracker, the allocator and the threads has its type; in
\* particular getAllocSite returns a tracked site or AllocSite::error().
TypeOK ==
  /\ DOMAIN heap \subseteq Addrs /\ heap \in [DOMAIN heap -> Objects]
  /\ DOMAIN allocation_map \subseteq Addrs
  /\ allocation_map \in [DOMAIN allocation_map -> Tracked]
  /\ DOMAIN FM \subseteq Ids /\ FM \in [DOMAIN FM -> SUBSET Ids]
  /\ fault_set \subseteq [id : Ids, pkey : Pkeys]
  /\ fault_set_mx \in Threads \cup {NoThread}
  /\ realloc_map_mx \in Threads \cup {NoThread}
  /\ pc \in [Threads -> {"idle"} \cup HookPcs \cup SegvPcs]
  /\ arg \in [Threads -> Args]
  /\ aborted \in BOOLEAN
  /\ raced \subseteq Addrs /\ overtaken \in BOOLEAN

-----------------------------------------------------------------------------
(* Safety.                                                                 *)

Entry(p) == AllocSite(p, heap[p].size, heap[p].id)

\* Whatever the other threads are in the middle of, getAllocSite maps every byte
\* of an object the program holds to the site that allocated it, unless an erase
\* by the hook of an earlier free or realloc was overtaken by this allocation.
AttributionExact ==
  \A p \in DOMAIN heap : Settled(p) /\ Undisturbed(p) =>
    \A q \in Footprint(p, heap[p].size) : lookup(allocation_map, q) = Entry(p)

\* While no hook has an erase outstanding, getAllocSite answers error() for every
\* address outside the live objects: no freed or moved object leaves an entry
\* behind that a fault on other memory could be blamed on.
NoFalseBlame ==
  (\A t \in Threads, k \in Addrs : ~PendingErase(t, k)) =>
    \A q \in Memory : (\A p \in DOMAIN heap : q \notin Footprint(p, heap[p].size)) =>
      lookup(allocation_map, q) = error

\* When pku_segv_handler is done with a fault on an undisturbed object, the site
\* that allocated the object is in fault_set, however the handlers of several
\* threads interleave with each other and with the hooks.
FaultRecorded ==
  \A t \in Threads : pc[t] = "segv_return" /\ arg[t].obj # Null =>
    heap[arg[t].obj].id \in IdsOf(fault_set)

\* All objects a realloc site returned, and those they were made from, came
\* there through the same sites.
OneProvenance(p) ==
  \A id \in (heap[p].prov \cup {heap[p].id}) \cap ReallocIds : Cardinality(flows[id]) <= 1

\* A fault on an object that was reallocated marks every site the object came
\* through (the comment in addFaultAlloc), as long as each realloc site involved
\* has only ever been fed from one provenance and no hook has been overtaken.
OriginsMarked ==
  \A t \in Threads :
    pc[t] = "segv_return" /\ arg[t].obj # Null /\ ~overtaken /\ OneProvenance(arg[t].obj) =>
      heap[arg[t].obj].prov \subseteq IdsOf(fault_set)

\* "if a reallocated pointer faults, all associated allocation sites are also
\* marked as being unsafe" (addFaultAlloc), for every object.
FaultMarksChain ==
  \A t \in Threads : pc[t] = "segv_return" /\ arg[t].obj # Null =>
    heap[arg[t].obj].prov \subseteq IdsOf(fault_set)

\* "Maps the pointer result from an alloc or realloc call to its Allocation Site
\* metadata" (AllocSiteHandler): for every object the program holds.
AttributionAlways ==
  \A p \in DOMAIN heap : Settled(p) => lookup(allocation_map, p) = Entry(p)

-----------------------------------------------------------------------------
(* What makes TypeOK inductive, and then AttributionExact, NoFalseBlame    *)
(* and FaultRecorded.                                                      *)

\* Past the assertions and the validity tests, a thread holds what they let through.
ArgsFit ==
  \A t \in Threads :
    /\ pc[t] \in CreatingPcs => arg[t].id \in Ids
    /\ pc[t] \in CreatingPcs \ {"alloc", "re_get"} => Constructible(arg[t].ptr, arg[t].size)
    /\ pc[t] \in {"re_chain", "re_extend", "segv_insert", "segv_chain", "segv_walk"} => arg[t].as \in Tracked
    /\ pc[t] \in SegvPcs => arg[t].pkey \in Pkeys

\* The allocator never hands out a byte twice.
HeapDisjoint ==
  \A p, x \in DOMAIN heap : p # x => Footprint(p, heap[p].size) \cap Footprint(x, heap[x].size) = {}

\* Each object whose hook has not returned is held by the one thread that runs
\* the hook, with the size and site the hook will record.
CreatorsOwn ==
  /\ \A t \in Threads, p \in Addrs : Creating(t, p) =>
       p \in DOMAIN heap /\ heap[p].size = arg[t].size /\ heap[p].id = arg[t].id
  /\ \A t, u \in Threads, p \in Addrs : Creating(t, p) /\ Creating(u, p) => t = u
  /\ \A p \in DOMAIN heap : Settled(p) => heap[p].size > 0

\* Every entry of allocation_map is either the exact entry of an object the
\* program holds, or stale with some thread's erase of its key still to come:
\* the hooks leak no entry, whatever their order.
KeysAccounted ==
  \A k \in DOMAIN allocation_map :
    \/ \E t \in Threads : PendingErase(t, k)
    \/ Settled(k) /\ allocation_map[k] = Entry(k)

\* An object whose allocation overtook no erase of its key has an entry, which
\* no thread is going to erase.
CleanTracked ==
  \A p \in DOMAIN heap : Settled(p) /\ p \notin raced =>
    /\ p \in DOMAIN allocation_map
    /\ \A t \in Threads : ~PendingErase(t, p)

\* The object a fault handler works for stays where it is and stays undisturbed;
\* once looked up it is the site in the handler's hands, and once inserted it
\* is in fault_set.
FaultsInFlight ==
  \A t \in Threads, p \in Addrs : pc[t] \in SegvPcs /\ arg[t].obj = p =>
    /\ Settled(p) /\ Undisturbed(p)
    /\ arg[t].addr \in Footprint(p, heap[p].size)
    /\ pc[t] \in {"segv_insert", "segv_chain", "segv_walk"} => arg[t].as = Entry(p)
    /\ pc[t] \in {"segv_chain", "segv_walk", "segv_return"} => heap[p].id \in IdsOf(fault_set)

\* A mutex is held by exactly the thread that is between taking and dropping it;
\* no hook and no handler returns with one.
LocksOwned ==
  /\ \A t \in Threads : fault_set_mx = t <=> pc[t] \in {"segv_chain", "segv_walk"}
  /\ \A t \in Threads : realloc_map_mx = t <=> pc[t] \in {"re_extend", "segv_walk"}

\* All of it together: inductive, and enough for the safety properties about
\* allocation_map and fault_set above.
IndInv ==
  /\ TypeOK /\ ArgsFit /\ HeapDisjoint /\ CreatorsOwn /\ KeysAccounted /\ CleanTracked
  /\ FaultsInFlight /\ LocksOwned

\* While any thread is inside a hook or the fault handler, one of them can go on:
\* addFaultAlloc nests realloc_map_mx in fault_set_mx, updateReallocChain takes
\* realloc_map_mx alone, and no path returns with a mutex, so no set of threads
\* ends up waiting for each other or for one that has left.
NobodyStuck ==
  ~aborted /\ (\E t \in Threads : pc[t] # "idle") =>
    \E t \in Threads : pc[t] # "idle" /\ ENABLED Runtime(t)

\* The threads t waits for: whoever holds the mutex it wants next.
WaitsFor(t) ==
  {u \in Threads : \/ pc[t] = "segv_insert" /\ fault_set_mx = u
                   \/ pc[t] \in {"re_chain", "segv_chain"} /\ realloc_map_mx = u}

\* Every wait ends: whoever is waited for is still inside a hook or the handler,
\* and what it may wait for in turn waits for nobody.
WaitsEnd ==
  \A t \in Threads : \A u \in WaitsFor(t) :
    pc[u] # "idle" /\ \A v \in WaitsFor(u) : pc[v] # "idle" /\ WaitsFor(v) = {}

-----------------------------------------------------------------------------
(* What a step never does.                                                 *)

\* The profile never gains a site unless a thread is being stopped on an object
\* that came through it, as long as no realloc site mixes provenances.  This is
\* about one thread at a time: a stale entry can mislead the handler of another.
BlameSound ==
  [][(\A id \in ReallocIds : Cardinality(flows[id]) <= 1) =>
       IdsOf(fault_set') \subseteq IdsOf(fault_set) \cup
         UNION {{heap[p].id} \cup heap[p].prov : p \in {x \in DOMAIN heap : InUse(x)}}]_vars
=============================================================================
