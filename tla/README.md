# Provsan: a TLA+ model and its proofs

Provsan finds out which heap objects cross a protection-key (Intel MPK)
compartment boundary. Two LLVM passes put a hook after each call of an allocation
function. A runtime library keeps the allocation site of every live object, serves
the protection-key faults, blames each one on a site, lets the access through, and
writes the blamed sites to a profile. A second compilation reads the profiles and
reports (or redirects) those sites.

This directory holds a model of that cycle. TLC checks it on small instances.
TLAPS proves the central properties for every instance. `PROJECT.json` lists the
components, the runs, the source lines behind each definition, and the hazards.
Paths below are relative to the repository root.

## 1. Inventory

| Component | State | Operations | Talks to |
|---|---|---|---|
| `AllocSite` and lookup (`Runtime/alloc_site_handler.h`) | site record; ordered map address -> site | constructor with its asserts, `containsPtr`, `getAllocSite`, equality and hash | everything below |
| Allocation tracker (`alloc_site_handler.{h,cpp}`) | `allocation_map`, the realloc chains `FM`, `fault_set`, one mutex each | `allocHook`, `reallocHook`, `deallocHook`, `updateReallocChain`, `addFaultAlloc` | called by the instrumented program and the fault handler |
| Fault handler (`provsan_fault_handler.cpp`) | saved PKRU, trap flag, `pkey_by_tid_map` | `pku_segv_handler`, `disable_mpk`, `pku_trap_handler` | kernel, CPU, tracker |
| PKRU access (`provsan_utils.{h,cpp}`) | the 32-bit register word | `pkey_get`, `pkey_set`, `pkru_ptr`, `pkru_xstate_offset` | fault handler |
| Initialisation (`provsan_init.cpp`, `getOrInit`) | `AllocHandlerInitFlag`, `prevAction`, `sa_old`, the kernel's SIGSEGV and SIGTRAP actions | `provsan_untrusted_constructor`, `provsan_SEGV_fault_handler`, forwarding of foreign faults | program, kernel |
| Profile writer (`provsan_formatter.cpp`) | copy of `fault_set`, the `TestResults` directory | `flush_allocs` at exit | other runs (same directory), Post pass |
| Pre pass (`Passes/DynUntrustedAllocPre`) | the module, the target lists, `hook_count` and its kin | `populateFromEnv`, `hookFunctions` | clang |
| Post pass (`Passes/DynUntrustedAllocPost`) | options, local IDs, `fault_map`, `hookList`, `patchList`, counters | `assignLocalIDs`, `getFaultingAllocMap`, `patchInstruction`, `removeHooks` | Pre pass, profiles, runtime |
| Statistics (`MPK_STATS`, `AllocSiteTotal`) | counters | counting, a statistics file | runtime, Post pass |

What is hard here:

* **The hooks follow the calls.** When `deallocHook` runs, the address may already
  belong to an object of another thread, with its own hook. `reallocHook` takes its
  locks one after the other, five steps in all.
* **Addresses at the edge.** A fault at the last byte of an object, the first byte
  after it, or between two objects decides who is blamed.
* **Signals.** The SIGSEGV handler runs in any thread from the `sigaction` call on,
  before the constructor has finished. The program has a SIGSEGV handler of its own.
* **Single stepping.** One instruction may fault more than once before it retires
  once, and several threads step at the same time through one shared map.
* **Nested locks.** `addFaultAlloc` takes `realloc_map_mx` while it holds
  `fault_set_mx`, with an early return, and hooks of other threads take the former.
* **Exit.** `flush_allocs` runs while other threads still fault, and while other
  processes write to the same directory or are killed there.
* **Opened rights.** To let one access through, the handler opens a whole key or a
  whole page. What stays open hides the next violation.
* **Builds must agree.** Every build numbers the sites again and has to arrive at the
  IDs the earlier ones used, with hooks removed and calls redirected in between, and
  profiles of all of them in one directory.

What makes each part correct: every byte of a live object is attributed to its
site and nothing else is; a fault is recorded and so are the sites the object was
reallocated from; rights come back after the step and the instruction completes;
a fault that is not the runtime's goes where the program wanted it; a profile is
complete and survives; the report names exactly what faulted. Section 5 lists the
properties that say so.

## 2. Modules

| Module | Models |
|---|---|
| `AllocSites` | `AllocSite`, `containsPtr`, `getAllocSite`, map `emplace`/`erase`, `fault_set` insertion, as operators |
| `AllocSiteHandler` | the tracker, the allocator around it, and the attribution half of `pku_segv_handler` |
| `AllocSiteHandlerProofs` | its theorems about attribution and recording |
| `AllocSiteHandlerChainProofs` | its theorems about the realloc chains, and about runs in which no hook is overtaken |
| `FaultProfile` | abstract: what the runtime promises about a profile, without maps, locks and chains |
| `AllocSiteHandlerRefinement` | the refinement mapping from `AllocSiteHandler` to `FaultProfile` |
| `AllocSiteHandlerRefinementProofs` | the proof that it is one |
| `Pkru` | `pkey_get` and `pkey_set` on the register word |
| `SingleStep` | `disable_mpk`, `pku_trap_handler`, `pkey_by_tid_map`, both builds (`PAGE_MPK` or not), on `Pkru` words |
| `FaultPath` | all of `pku_segv_handler` for a protection-key fault: attribution (as `FaultProfile` promises it) composed with `SingleStep` |
| `FaultPathProofs` | its theorems, and those of `Pkru` and `SingleStep` |
| `SignalInit` | `getOrInit`, the constructor, `provsan_SEGV_fault_handler`, forwarding |
| `SignalInitProofs` | its theorems |
| `ProfileWriter` | `flush_allocs` of several runs, and the reading of profiles by the Post pass |
| `ProfileWriterProofs` | its theorems |
| `Subsequences` | filtering a sequence, the list operator of `Instrumentation` |
| `Instrumentation` | both passes over the units of a program, through several builds and runs |
| `SequenceFacts` | laws of flattening, filtering and mapping sequences |
| `InstrumentationProofs` | the theorems of `Instrumentation` |
| `MC...` | instances, symmetry sets and sample inputs for TLC |

Operators whose names carry a suffix (`containsPtr_long`, `deallocHook_leak`, ...)
are slips one could make in the code. No specification uses them. `PROJECT.json`
pairs each with the property that exposes it.

### AllocSiteHandler

`heap` is what the allocator really holds. It is external, it is the yardstick, and
the tracker never reads it. The other variables carry the source's names. A thread
is `idle` in the program or at a label inside a hook or the handler, and `arg`
holds its arguments and locals.

* `CallAlloc`, `CallFree`, `CallRealloc`, `CallReallocNull`: the instrumented call.
  It may fail, return a block of size 0, resize in place, or move. The thread is at
  its hook afterwards.
* `allocHook`, `deallocHook`: one step each, one lock each.
* `reallocGet`, `reallocFresh` or `updateReallocChain`, `reallocRemove`,
  `reallocInsert`: the steps of `reallocHook`, which locks four times. `reallocLock`
  takes `realloc_map_mx`, `updateReallocChain` extends the chain and drops it.
* `Access`, then `faultLookup`, `faultInsert`, `faultLock`, `faultChain`, `faultReturn`:
  a fault and `addFaultAlloc`. `fault_set_mx` is held from `faultInsert` on, and
  `realloc_map_mx` from `faultLock` on, both to the end of `faultChain`. The other
  mutexes are held within one step only.
* `Abort`: an assert of the `AllocSite` constructor fails (a NULL result, a size of
  0). The build with assertions is modelled: no CMake file
  defines `NDEBUG` or a build type.

A freed object is not in use by a handler: a program that frees memory another
thread is faulting on has a use after free of its own.

History variables. `raced` holds the objects inserted while another thread had yet
to erase the same key. `overtaken` says whether that ever happened. `flows` records,
for each realloc site, the true provenances of the objects it returned.

The triple `<localID, bbName, funcName>` is one identity, since the code compares
the three together only. Pointer arithmetic wraps at `AddrSpace`; the assumption
`a + n < AddrSpace` says that no object reaches the end of the address space.

### FaultProfile and the refinement

The abstract program holds objects, each with the site that returned it and the sites
it came through. A thread that touches one is stopped. Any steps may mark sites out of
the lineage of that object; the thread resumes only when the object's own site is
marked. The mapping takes `held` from the objects that are in the program's hands,
`touched` from the threads in the handler, `origins` from `flows`, `marked` from
`fault_set`, and `blurred` from `overtaken`. So `ImplementsProfile` says that the
lookup, the two mutexes and the per-site chains of `addFaultAlloc` behave like one
atomic attribution. The promise is weaker than `OriginsMarked` in what must be marked
and wider in scope: it also holds where a realloc site mixes provenances.

### Pkru and SingleStep

A thread's PKRU is a 32-bit word, and `pkey_get` and `pkey_set` shift and mask it (with
`\div`, `%` and the weights of the sixteen fields, which both TLC and the provers
compute). The word starts as Linux sets it. A thread is in `run`, has an
instruction in flight (`instr`), or is in one of the handlers. `RaiseSegv` may
report any page that is denied, and `Retire` needs none denied. `disable_mpk` stores
under `gettid()`; `pku_trap_handler` looks under `getpid()`, which is the tid of
`Main`. `app` records the word as the program itself set it, and `lost` the keys of a
thread whose old rights no handler will bring back. The code loses them in two ways. A
thread that faults on a second key before it has trapped keeps the entry of the first
(`storePendingPKeyInfo`). A worker's trap asks for the entry of the main thread: the
worker's own is never used, and the main thread's, if there is one, is gone and goes to
the wrong thread (`LostAtTrap`). The program makes good what was lost when it sets the
key again. `lost` is a history: no guard reads it.

### FaultPath

Objects lie on pages and come from sites. `IssueAccess` is an instruction that touches
objects, `RaiseSegvOn` the fault with its one `si_addr`, and `pku_segv_handler` marks
the site of that object and goes on to `disable_mpk`. That is one step here: the first
half only reads the address and writes `fault_set`, the second does neither. `Forbidden` is what
the program's own rights do not allow, whatever the handler has opened. `blind` records
which keys were lost when the instruction in flight was issued.

### SignalInit

`action` is the kernel's SIGSEGV action. The constructor is three steps because a
fault of another thread can fall between them. `Forward` is where a foreign fault
goes. `bad` tells a fault that recurs when the handler just returns from a signal
that was sent. Handlers of the program are called and return; that is all the code
asks of them. `*oldact` belongs to the caller and is not modelled.

### ProfileWriter

Each element of `Runs` is a process that faults, exits, flushes and ends, or is
killed at any moment. Every run shares `dir` and `files`. Process ids differ among
live processes and may be reused by later ones.

`faultingAllocs` releases its lock before the set is copied. If a thread inserts
during the copy it is a data race. The copy walks the node list of an
`unordered_set` that the insertion may be relinking (an insertion that rehashes
moves every node), so any subset may come out. The model takes any subset exactly
when an insertion is in progress at the copy. Insertions after the copy are never
looked at and left out.

A file is an array of elements or `Garbled`: it does not parse. A file is garbled
between opening and flushing, for good if the process is killed there, and for good if
one of the sites in it is in `Unescaped`, because `writeJSON` writes names as they are.
Nobody looks at the state of the stream, and `writeUniqueFile` reports success in any
case. So with `DiskFails` a file may break off: it stays garbled, and the run is `done`
like any other.
`owed` is what the file of a run has to hold: what was recorded when `exit` was called,
unless the copy raced with an insertion or holds an unescaped name, or the disk did not
take the file.

`Strays` are files of other origin in the directory, with elements that lack
properties. `fromJSON` then tests variables that nobody has set; the model gives them
any sign. `getFaultPaths` takes a directory or a single file, which need not exist.

### Instrumentation

A program is a sequence of units. Each unit is compiled in a process of its own, first
by Pre, then by Post, with fresh globals (`Fresh`). A function is its reachable blocks
in reverse post-order, and a block its calls, invokes and hooks. A hook of an invoke
goes to the head of the normal destination when that has one predecessor, else to a
block on the split edge. Names are sequences of characters, because the target lists
are: `str_to_vec` and `populateFromEnv` parse them.

`Execute(F, o)` is a run of the linked program in which the allocations `F` fault, after
which the program is built again with options `o`: `PROVSAN_PATH` and `PROVSAN_HOOK`, or
the flags for testing. The profile names function, local ID and block, as
`AllocSiteHandler` and `ProfileWriter` pass them on, and grows from run to run. Of two
records with the same function and ID either may be the one `getFaultingAllocMap` keeps,
since the directory is read in no particular order.

## 3. Runs

Passing runs.

| Run | Instance | Shows |
|---|---|---|
| `handler_layout` | 1 thread, addresses 1 and 3, sizes 0 to 2, 2 realloc sites | objects that touch, leave gaps and move over each other's former places: attribution is exact, gaps are nobody's; a fault marks all origins of the object and no other site; `FaultProfile` is implemented, mixed provenances included |
| `handler_reuse` | 2 threads, addresses 1 and 3, sizes 1 to 3 | every interleaving of call, hook and handler: attribution, no leaked entry |
| `handler_realloc` | 2 threads, 2 addresses, realloc | the same with the steps of `reallocHook`; every fault recorded, with its origins; the nested mutexes leave nobody stuck; the inductive invariant of the proofs; `FaultProfile` is implemented |
| `step_main` | main thread and a worker, 2 keys besides key 0, 3 pages, a read on one key and a write on two objects of both keys | both threads step at the same time, and instructions fault twice: rights come back but for what the handlers lose, nothing is left over, instructions complete; no violation is hidden by a right the handlers could have taken back, and no allowed access faults |
| `step_page` | `PAGE_MPK`, 2 threads, instructions across keys | instructions complete, every violated page has an object in the profile |
| `signal_threads` | 2 threads, 2 handlers | SIGTRAP is ready when needed, foreign faults reach the program's handler, faults are served and end |
| `profile_cycle` | 2 runs, 2 pids, 2 random numbers, a plain and an unescaped site, a stray file, `mkdir`, `open` and writing that fail, Post pass reading meanwhile | profiles are whole or do not parse, and are never overwritten; the pass finds what ended runs recorded, and nothing that nobody recorded; the flush ends |
| `pass_cycle` | 84 programs of two units, 3 environments, 4 option sets, 3 builds, 2 faults in a run | the report is exact but for namesakes, and so is the block warning; hooks come and go cleanly; the counters of the passes agree |

The bounds. Two threads suffice for the tracker, because each disagreement is
between one thread in a hook or a handler and one that overtakes it; the theorems
cover any number. An object at address 1 leaves a gap before address 3 with size 1,
touches it with size 2, and covers what was there before with size 3; size 0 is in
`handler_layout`. Two keys and three pages give an instruction that crosses a page
within a key, one that crosses keys, and one that faults up to three times before it
retires; with two threads the trap of one comes between any two faults of the other.
`step_main` gives rights one value besides open, write-disabled, with access disabled at
the start; the theorems have all four. In
`SignalInit` one thread initialises while the other faults or calls `sigaction`.
Two runs may have the same pid, one after the other, or different ones at once, and
the name the second one tries may then be taken. `ATTEMPTS` (128 in the source) is 1 or
2; only whether it is reached matters. The programs put each kind of callee at each
kind of place: before an invoke, in it, in its continuation, in two invokes with one
continuation, in a second function, in a second unit whose function has the same name
or another. Three builds allow a report after a run of a patched or a reporting build.
The four objects of `MCFaultPath` share a page, share a key, and cross pages.

`handler_layout` has a constraint, `FewMixed`: once a realloc site is fed from a second
provenance, exploration goes on with one object at a time until a second realloc site is.
`IndInv` implies `AttributionExact`, `NoFalseBlame` and `KeysAccounted`, so
`handler_realloc` does not list those again. `MCFairSpec` gives the first run the first
process id, as ids are interchangeable.
Deadlock checking is off for `ProfileWriter` and `Instrumentation`, whose processes end.

## 4. Fairness

* `AllocSiteHandler`: none. A `std::mutex` is not fair, so a thread may wait for ever
  while others take it again and again. What the code does guarantee about its
  locks is stated as safety: `NobodyStuck` and `WaitsEnd`.
* `SignalInit`: weak fairness for a thread that is inside the runtime. The scheduler
  runs it. The program need not call anything.
* `SignalInit` also: an instruction that is executed again after a foreign fault
  faults again.
* `FaultPath`: the CPU executes an issued instruction and a handler runs to its end.
* `ProfileWriter`: a process that called `exit()` goes on. `FlushEnds` has the
  premise that other threads stop inserting, since `faultingAllocs` waits for the mutex.
* `OtherFaultEnds` has the premise that the program stops calling
  `provsan_SEGV_fault_handler`: each call puts `pku_segv_handler` back in front of
  the fault of another thread.

## 5. Properties

| Property | Says | Checked | Proved |
|---|---|---|---|
| `AttributionExact` | `getAllocSite` maps every byte of an undisturbed object to its site | yes | yes |
| `NoFalseBlame` | with no erase outstanding, memory outside the objects is attributed to nobody | yes | yes |
| `KeysAccounted` | each entry is exact, or some thread is about to erase it | yes | yes |
| `FaultRecorded` | a served fault on an undisturbed object is in `fault_set` | yes | yes |
| `AttributionAlways` | `getAllocSite` finds every object the program holds | yes, one thread; violated in `handler_overtaken` | one thread; any threads until a hook is overtaken |
| `OriginsMarked` | a served fault also marks the sites the object was reallocated from, under the premises of the property | yes | yes |
| `BlameSound` | no site enters the profile unless a thread is stopped on an object that came through it | yes, one thread | one thread |
| `ImplementsProfile` | the tracker implements `FaultProfile` | yes | yes |
| `IndInv` | the conjunction behind the proofs | yes | yes |
| `NobodyStuck` | while threads are inside the tracker, one of them can go on: no deadlock of the nested mutexes | yes | in the form `WaitsEnd`: whoever is waited for is inside, and waits for nobody or for one that waits for nobody |
| `RightsRestored`, `NothingLeft`, `StepInv` | rights differ only on the keys of the instruction in flight and on lost ones; no flag stays, nor an entry of the main thread; flag, entry and key agree | yes | yes, any threads and instructions |
| `AllRightsRestored` | the same with nothing lost | violated in `step_worker` | the main thread, under `OneKey` and `WorkersKeepOff` (`MainLosesNothing`) |
| `NoMissedViolation` | for each key of a page an instruction may not touch, an object on it is in the profile when the instruction completes, but for keys lost before | yes | yes, any threads and accesses; with no exception for the main thread under `OneKey` and `WorkersKeepOff` (`MainMissesNothing`) |
| `FaultsJustified` | an access the program's rights allow does not fault, but for a worker on a lost key | yes | yes, any threads and accesses, both builds |
| `NoMissedPage` | what is left of `NoMissedViolation` in a `PAGE_MPK` build: every page touched without permission has an object in the profile | yes | any threads and accesses |
| `InstrCompletes` | a faulting instruction completes | yes | |
| `TrapReady` | `pku_trap_handler` is installed when the trap flag is set | yes | yes |
| `ForwardsToOwner` | foreign faults go to the action the program installed last | yes | yes |
| `FaultServed`, `OtherFaultEnds` | no thread stays in a handler or in `getOrInit` | yes | |
| `NeverOverwritten`, `FlushComplete` | a written profile stays, and holds all faults before exit that the run owes; a file that parses is never a part only | yes | yes |
| `ReportSound`, `ReportComplete` | what the Post pass reads was recorded, or stands complete in a file of other origin; all that ended runs owe reaches it | yes | yes |
| `FlushEnds` | the flush ends | yes | |
| `ReportExact` | a build with profiles reports all that ever faulted, and beyond that only namesakes | yes | yes |
| `MismatchExplained` | the block warning is raised for namesakes only | yes | yes |
| `HookedOnce`, `SourceRestored`, `CountsAgree` | one hook for each call; removal gives the source back; the passes count alike | yes | yes |

## 6. Where the code departs from its comments

Four runs end in a counterexample; `PROJECT.json` quotes the comments.

* `handler_overtaken`: thread 1 frees an address; thread 2 is given it and runs
  `allocHook` (`emplace` finds the stale key); thread 1's `deallocHook` then erases the
  only entry. `AttributionExact` is the part that does hold.
* `handler_mixed_chain`: `FM.emplace` keeps the chain of the first object only, so a
  realloc site fed from two origins forgets the second one.
* `step_worker`: rights are stored under `gettid()` and fetched under `getpid()`; a
  worker thread never gets its rights back.
* `profile_mkdir`: two runs that exit together; the slower `mkdir` fails and its
  profile is dropped.

Other limits show in the premises of properties, mostly as history variables:

* An instruction that faults on two keys leaves the second key open, because
  `storePendingPKeyInfo` does not replace the entry of the first. A worker's trap leaves
  its own key open, and takes the main thread's entry if there is one. Both end up in
  `lost`, which `RightsRestored`, `NoMissedViolation` (as `blind`) and, for a worker,
  `FaultsJustified` except. `OneKey` and `WorkersKeepOff` rule both out.
* An instruction that touches two objects of one key reports one address, and the other
  access runs under the right opened for the first. So `NoMissedViolation` asks for one
  object of each key. In a `PAGE_MPK` build the same goes for all objects of a page, for
  good.
* A profile that the disk does not take is lost silently: `writeJSON` and
  `writeUniqueFile` never look at the state of the stream, and the file that is left does
  not parse (`owed` in `writeJSON`).
* Static functions of one name in two units share their identities: a fault in one is
  reported in both (`Namesakes`).
* One name with a quote in it makes the whole profile of a run unreadable (`Unescaped`).
* `provsan_SEGV_fault_handler` before the first hook, or twice, makes the handler its
  own predecessor (`outside`). A handler in flight may put the previous action back
  over one that was just installed (`crossed`). Until the constructor has assigned
  `prevAction`, a foreign fault takes the default action (`once = "done"`).
* `flush_allocs` copies the set outside the lock, so a fault that is being
  recorded at that moment can cost earlier ones (`owed` in `copyFaults`).
* `AllocSiteTotal` is always 0, because nothing advances `IDG`.

## 7. Proofs

`AllocSiteHandlerProofs`, for every set of threads, addresses, sizes, sites and keys.
The assumptions are those of the modules: `NoThread` and `NoId` are fresh, addresses
are non-null, sites are identities, objects end below `AddrSpace`.

1. `TypeCorrect`. `TypeInv == TypeOK /\ ArgsFit` is inductive. `ArgsFit` is needed because
   the insertion steps store what an assert or `isValid` let through some steps earlier.
2. `MapInvariant`. `MapInv == HeapDisjoint /\ CreatorsOwn /\ KeysAccounted /\
   CleanTracked` is inductive with `TypeInv`. An entry of the map is exact or has an
   erase coming (`KeysAccounted`); an object that overtook no erase has an entry that
   nobody will erase (`CleanTracked`); one thread at most is creating an object
   (`CreatorsOwn`), which is why its `emplace` finds no entry but a stale one. Every
   action has one of four effects on this state: quiet, an insertion, an erase, or a
   change of the heap (`QuietStep`, `InsertStep`, `EraseStep`, `HeapStep`).
   `StepEffect` shows which action has which.
3. `AttributionCorrect`, `NoFalseBlameCorrect`, `KeysAccountedCorrect` follow from the invariant.
   The nearest key at or below an address inside an object is the object's own
   entry: another key in between would be exact, hence overlap the object, or
   stale, hence disturb it.
4. `IndInvCorrect`, `FaultRecordedCorrect`: `FaultsInFlight` is inductive on top, and so is
   `LocksOwned`. The object a handler works for stays undisturbed, as the program does not
   free it; the site found stays in the handler's hands, and the insertion waits for the
   mutex. That recorded faults and chains never change is the lemma `RecordsStep`.
5. `WaitsEndCorrect`: by `LocksOwned`, who holds `realloc_map_mx` is past its last lock, and
   who holds `fault_set_mx` can only wait for that. `NobodyStuck` says the same with
   `ENABLED`, which these provers do not handle, and is checked by TLC.

`AllocSiteHandlerChainProofs`, on top of `IndInv`. The invariant is `ChainInv == FlowsType
/\ OnRecord /\ (overtaken \/ InOrder)`.

* `OnRecord` ties the history `flows` to the heap and to the threads inside `reallocHook`:
  what an object came through is on record under the site that returned it. It holds
  whatever the threads do.
* `InOrder` is what holds until a hook is overtaken. Each key has one eraser at most, so
  the entry that `reallocGet` will look up is still there and is the old object's
  (`HookKnows`). A settled object that came through other sites has a chain
  (`SettledChained`). The chain of a site fed from one provenance leaves out nothing
  (`ChainsComplete`): `updateReallocChain` builds it from the old site's chain, which
  must be complete already, and `FM.emplace` keeps the first one, which is the only one.
* `OriginsMarkedCorrect` follows with `FaultsInFlight`: the site that the handler found is
  the object's own, and its chain is the object's whole provenance.
* `AttributionUnlessOvertaken` says, for any number of threads, that the race of
  `handler_overtaken` is the only way to lose an object. With one thread it cannot happen
  (`AttributionAlwaysCorrect`).
* `BlameSoundCorrect` is the converse for one thread: `ExactInv` says that a chain names
  nothing but sites its objects came through, `HandsOn` that the site in the handler's hands
  is that of an object around the address. It assumes that no identity is both of an
  `allocHook` and of a `reallocHook`; Post gives each hook of a function its own local ID.

`AllocSiteHandlerRefinementProofs`: `Refinement == Spec => ImplementsProfile`. A call that
takes an object away is a `Drop` or a `Move` of `FaultProfile`, the insertion that ends a hook
a `Hold`, each half of `addFaultAlloc` a `Mark`; everything else stutters. `HeldStep` derives
from the four effects of `AllocSiteHandlerProofs` what a step does to the objects the program
holds. `Mark` needs `LineageInv`: unless a hook was overtaken, a chain stays within every
set of sites that contains its own site and is closed under origins. That is a statement
about the transitive closure without an induction over it. Nothing is assumed of the constants
beyond the modules' own assumptions.

`FaultPathProofs` has three sections.

* The PKRU word. `KeysIsolated`: `pkey_set` changes the field of its key and no other.
  `SetBack`: opening a key and writing the old rights back gives the old word, bit for bit.
  The weights form a chain, each four times the one before, which is all the argument needs:
  a field above or below the changed one is a quotient the change does not reach.
* Single stepping, in the single-step build, for any threads, keys, pages and instructions.
  `TypeCorrect` holds for both builds; that PKRU stays a 32-bit word is part of it.
  `StepInv` has a part for each thread and one for the main thread. `ThreadInv`: outside of
  `lost`, a key differs from what the program set only if it is the open key of the thread's
  entry, belongs to the instruction, and the trap flag is set. `MainInv`: the main thread's
  entry is there only with the trap flag, holds the rights to go back to, and what is
  pending or lost is open. `StepInvCorrect` has one lemma for each kind of step (`SetRightsStep`,
  `CpuStep`, `SegvStep`, `TrapStep`); a step of one thread disturbs another only if it is a
  worker's trap, which takes the main thread's entry and puts its key into `lost`.
  `RightsCorrect` and `NothingLeftCorrect` follow. `MainLosesNothing` is what remains
  without an exception: under `OneKey` (no instruction touches two keys) and the premise
  `[][WorkersKeepOff]_vars` (a worker traps only while the main thread has no entry),
  `lost[Main]` stays empty and the main thread's rights are its own between instructions.
  `step_worker` and section 6 show why both are needed.
* Attribution. `PathImplementsSteps`: the composed handler implements `SingleStep` (the
  mapping is the identity), so `StepInv` holds for it. `PathInv` adds that the access in
  flight fits the instruction, that a fault being handled was reported on its object, and
  that a key which differs now, and was not lost when the instruction was issued, was opened
  for a fault of this instruction whose object is marked. `NoMissedViolationCorrect` and
  `FaultsJustifiedCorrect` assume `~PAGE_MPK` only. `MainMissesNothing` removes the exception for
  the main thread: with `OneKey` and `WorkersKeepOff`, an instruction that touches forbidden
  objects completes only with one of them in the profile.

For `PAGE_MPK` builds `PageFaultsJustified` and `NoMissedPageCorrect` hold for any threads and
accesses. `PagePathInv`: the rights in force are the program's own, key 0 is open in them, and
a page has the key the program gave it or has key 0 and an object in the profile. So a page
that is not denied although the program closed it was opened by the handler, which marked an
object on it. `NotAllowed` is asked page by page: an object may lie on pages of two keys, and
nothing is claimed of its pages that the program left open.

`SignalInitProofs`, for any threads and handlers. `OnceInv`: one thread at most is in the
constructor, and nobody gets past `getOrInit` before it is done. `CtorInv`: what it has
set by then. `TrapReadyCorrect` needs these two. `ForwardsToOwnerCorrect` also needs
`OwnerKept`, that the program's action is in force or put aside, and `NotOwnPredecessor`, that
the constructor never puts `pku_segv_handler` itself aside; both under the property's own
premises (`outside`, `crossed`).

`ProfileWriterProofs`, for any number of runs, process ids, random numbers and attempts.
`FileInv`: live processes have different process ids, hence different names; between `stat`
and `open` nobody takes a name, and a file that is open stays garbled until its writer
flushes it. `NeverOverwrittenCorrect` follows. `OwedInv` follows what was recorded at `exit()`
from `fault_set` to the copy and the file (`FlushCompleteCorrect`), where a failed write leaves
the run owing nothing and the file garbled for good; `SoundInv` and `DueInv` say the
same of the reading pass, from both sides (`ReportSoundCorrect`, `ReportCompleteCorrect`). `TakenComplete`
shows that an uninitialized `temp_id` or `temp_pkey` never gets into the fault map,
whatever value it has.

`SequenceFacts` carries what the next module needs of sequences: `UpTo` and `SeqInduction`
are induction over numbers and over sequences, stated about a set instead of an operator,
which the provers can instantiate. From them it shows that `FlattenSeq` is what its
recursive definition says (such a function exists and is unique), and that flattening,
filtering (`Keep`) and mapping commute, keep types and elements, and make no two elements
clash that did not before.

`InstrumentationProofs`, for any programs, environments, options and numbers of builds and
faults. The assumptions are those of `Instrumentation`: programs are well formed (calls have
tags of their own, and no hooks yet), lists of names are sequences of characters, which
include the comma.

* The cycle. `CycleInvariant == Spec => []ReportInv`. `Shape` says what the unit is in the
  phase it is in: the source, hooked, patched and stripped as far as the passes have come.
  `Compiled` says the same of the finished units, `ProfileOfFaults` that every record of the
  profile names a site that faulted in a unit built from this source, and each fault has its
  record, and `FaultMap` that the map which Post built is a choice from the profile. Local
  IDs agree between builds because they count the hooks of the source's calls in the order
  of the flattened blocks, and the hooks of a unit are the same list in each build, whatever
  was patched. Then `ReportSound`, `MismatchSound` and `ReportComplete` are inductive, and
  `ReportIsExact` and `MismatchIsExplained` follow. `CycleIsExact` is what they come to in a
  program whose units share no function name: the report is precisely what faulted.
* The hooks. `HooksDiffer`: `hookFunction` gives no call two hooks, though an invoke's hook
  lands in another block, before that block's own hooks or in a block of its own.
  `EachHookedOnce` also needs that the lists are read rightly: `str_to_vec` is a recursive
  function, shown to exist and to be unique, and `VecReads` says that it returns exactly the
  names between the commas; `WantedRead` adds the defaults of `populateFromEnv`.
* The source. `PatchList` says that `patchList` holds what was reported of the unit, and
  that everything else that was reported lies in units before it; `SourceIsRestored` follows
  with `Shape`.
* The statistics. `CountInv`: the counters of each pass are the numbers of different tags of
  the hooks in the functions it has been through, and `hookList` holds all the hooks it has
  seen. Tags differ, so numbers of tags add up over functions and kinds
  (`StatisticsAreRight`).

Only model-checked: liveness, that is `InstrCompletes`, `FaultServed`, `OtherFaultEnds` and
`FlushEnds`, which rest on fairness, and `NobodyStuck`, for its `ENABLED`. These provers handle
neither.

## 8. Not modelled

* `pkru_ptr` and `pkru_xstate_offset`: where the word lies in the saved context is up to
  CPUID and the kernel's layout, and they change nothing.
* `MPK_STATS` counters of the runtime: they run only when `AllocSiteCount` is not 0, and
  it always is 0 (section 6). The statistics files of the passes only print the counters,
  which are modelled.
* `AllocSiteTotal` is a strong external definition in every unit that Post compiles with
  `MPK_STATS`, so two such units do not link. The model's programs link.
* `PROVSAN_HOOK` that is empty or not a number: `std::stoi` throws, and the build ends.
* The `cl::list` flags of Pre that name target functions; the environment variables do the
  same and are modelled.
* `fromJSON` on an element of a profile that is no object.
* The argument lists of the hooked functions (`getHookInst` takes the operands of Rust's
  allocation functions by position).
* JSON syntax, logging, debug locations and the wording of diagnostics.
* The `isRealloc` flag: it is written to the profile and read by nothing.
* The lookups in `pku_segv_handler` after `addFaultAlloc`, which feed log messages.
* Hooks in blocks that become unreachable between the passes: no pass runs in between.
* Tests, and CMake files.

## 9. Plan

Every safety property that a passing run checks is proved, `NobodyStuck` in another form,
under the assumptions section 7 names. Nothing of the plan is left; the findings of section
6 would be the next thing to act on, in the code: once they are repaired, `lost`, `blind`
and `overtaken` can go, and the properties with them become unconditional.
