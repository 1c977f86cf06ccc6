--------------------------- MODULE Instrumentation --------------------------
(***************************************************************************)
(* The two compiler passes through whole cycles: the translation units of  *)
(* a program are built one by one, each in a process of its own, the       *)
(* program runs and its hooks record the sites of faulting allocations,    *)
(* and it is built again with the profiles written so far                  *)
(* (Passes/DynUntrustedAllocPre/DynUntrustedAllocPre.cpp and               *)
(* Passes/DynUntrustedAllocPost/DynUntrustedAllocPost.cpp).                *)
(*                                                                         *)
(* A unit is a sequence of functions, a function its reachable blocks in   *)
(* reverse post-order, which both passes follow.  A block holds calls, and *)
(* hooks after Pre has run; any other instruction is left out.  tag tells  *)
(* the calls of the source apart, so that a report can be compared with    *)
(* what faulted.                                                           *)
(***************************************************************************)
EXTENDS Subsequences, FiniteSets

CONSTANTS
  Chars,         \* the characters of names and of lists of names
  Sources,       \* programs: sequences of units
  Environments,  \* [PROVSAN_ALLOC, PROVSAN_REALLOC, PROVSAN_FREE], each a string
  Options,       \* what a build may be started with
  Replaceable,   \* the units declare untrusted_malloc
  MaxBuilds,     \* bound: builds of the program
  MaxFaults      \* bound: sites one run records

ASSUME CharsAssumption == {"a", "d", "f", "h", "m", "r", "u", ","} \subseteq Chars
ASSUME ReplaceableAssumption == Replaceable \in BOOLEAN
ASSUME BoundsAssumption == {MaxBuilds, MaxFaults} \subseteq Nat \ {0}

VARIABLES
  source, env,  \* the program as written, and the target functions
  opt, builds,  \* options of the current build, and how many there were
  objects,      \* the units that are compiled
  M,            \* the unit being compiled
  phase, todo,  \* phase of its compilation, and the functions left to visit in it
  profile,      \* the TestResults directory: set of [func, id, bb]
  fault_map,    \* the part of it that getFaultingAllocMap returned
  hookList, patchList,   \* tags of the hooks to remove, and of the calls to patch
  reported, mismatched,  \* tags of the calls reported, and of block mismatches
  PreStats, PostStats,   \* the counters of the two passes
  AllocSiteTotal,        \* the global that Post defines
  faulted       \* history: tags of the allocations that were recorded as faulting

program == <<source, env>>
run == <<profile, faulted, builds>>
output == <<reported, mismatched>>
vars == <<program, opt, run, objects, M, phase, todo, fault_map, hookList, patchList, output,
          PreStats, PostStats, AllocSiteTotal>>

-----------------------------------------------------------------------------
(* The intermediate representation.                                        *)

\* Names that lists of functions are made of are sequences of characters.
Instrs ==
  [op : {"call", "invoke", "hook"}, fn : Seq(Chars), tag : Nat, dest : Nat, single : BOOLEAN, id : Int]
Blocks == [name : Nat, body : Seq(Instrs)]
Funcs == [name : Nat, blocks : Seq(Blocks)]

\* A call of fn; an invoke names the block it continues in, and whether that
\* block has no other predecessor.
Call(fn, tag) == [op |-> "call", fn |-> fn, tag |-> tag, dest |-> 0, single |-> TRUE, id |-> -1]
Invoke(fn, tag, dest, single) ==
  [op |-> "invoke", fn |-> fn, tag |-> tag, dest |-> dest, single |-> single, id |-> -1]
Hook(fn, tag) == [op |-> "hook", fn |-> fn, tag |-> tag, dest |-> 0, single |-> TRUE, id |-> -1]

Block(name, body) == [name |-> name, body |-> body]
Func(name, blocks) == [name |-> name, blocks |-> blocks]

Hooks == {i \in Instrs : i.op = "hook"}
Calls == {i \in Instrs : i.op # "hook"}

InstrsOf(f) == FlattenSeq([k \in DOMAIN f.blocks |-> f.blocks[k].body])
HooksOf(f) == Keep(InstrsOf(f), Hooks)
InstrsIn(unit) == UNION {ToSet(InstrsOf(unit[n])) : n \in DOMAIN unit}
HooksIn(unit) == InstrsIn(unit) \cap Hooks

\* Every instruction of f replaced by its value under F.
MapInstrs(f, F) ==
  Func(f.name, [k \in DOMAIN f.blocks |->
                  Block(f.blocks[k].name, [j \in DOMAIN f.blocks[k].body |-> F[f.blocks[k].body[j]]])])

\* The hooks and calls of A alone.
KeepInstrs(f, A) ==
  Func(f.name, [k \in DOMAIN f.blocks |-> Block(f.blocks[k].name, Keep(f.blocks[k].body, A))])

\* No tag is used twice.
TagsDiffer(prog) ==
  \A u, v \in DOMAIN prog : \A n \in DOMAIN prog[u], m \in DOMAIN prog[v] :
    \A k \in DOMAIN prog[u][n].blocks, l \in DOMAIN prog[v][m].blocks :
      \A i \in DOMAIN prog[u][n].blocks[k].body, j \in DOMAIN prog[v][m].blocks[l].body :
        prog[u][n].blocks[k].body[i].tag = prog[v][m].blocks[l].body[j].tag =>
          u = v /\ n = m /\ k = l /\ i = j

\* What the compiler gives the passes: no hooks yet; callees have names that a list
\* of names can hold; blocks have different names, and an invoke continues in one
\* of them; and so have the functions of a unit.
WellFormed(prog) ==
  /\ prog \in Seq(Seq(Funcs)) /\ prog # <<>> /\ TagsDiffer(prog)
  /\ \A u \in DOMAIN prog : \A n \in DOMAIN prog[u] :
       LET blocks == prog[u][n].blocks
       IN  /\ \A k \in DOMAIN blocks : \A i \in ToSet(blocks[k].body) :
                /\ i.op # "hook" /\ i.fn # <<>> /\ "," \notin ToSet(i.fn)
                /\ i.op = "invoke" => \E l \in DOMAIN blocks : blocks[l].name = i.dest
           /\ \A k, l \in DOMAIN blocks : blocks[k].name = blocks[l].name => k = l
           /\ \A m \in DOMAIN prog[u] : prog[u][m].name = prog[u][n].name => m = n

ASSUME SourcesAssumption == \A prog \in Sources : WellFormed(prog)
ASSUME EnvironmentsAssumption ==
  Environments \subseteq [PROVSAN_ALLOC : Seq(Chars), PROVSAN_REALLOC : Seq(Chars), PROVSAN_FREE : Seq(Chars)]

-----------------------------------------------------------------------------
(* The target functions, which are read from strings.                      *)

allocHook == <<"h", "a">>
reallocHook == <<"h", "r">>
deallocHook == <<"h", "d">>
HookNames == {allocHook, reallocHook, deallocHook}

trusted_malloc == <<"m">>
trusted_realloc == <<"r">>
trusted_free == <<"f">>
untrusted_malloc == <<"u">>

Least(S) == CHOOSE n \in S : \A k \in S : n <= k

\* Where a name may start, from position end on: find_first_not_of; and the commas
\* behind it: find.
starts(str, end) == {n \in end .. Len(str) : str[n] # ","}
ends(str, start) == {n \in start .. Len(str) : str[n] = ","}

\* The last name is lost unless a comma follows it.
names_comma(str, end, rest) ==
  LET start == Least(starts(str, end))
  IN  IF starts(str, end) = {} \/ ends(str, start) = {} THEN <<>>
      ELSE <<SubSeq(str, start, Least(ends(str, start)) - 1)>> \o rest[Least(ends(str, start))]

\* The names from position end on, when those from later positions are in rest.
names(str, end, rest) ==
  LET start == Least(starts(str, end))
  IN  IF starts(str, end) = {} THEN <<>>
      ELSE IF ends(str, start) = {} THEN <<SubSeq(str, start, Len(str))>>
      ELSE <<SubSeq(str, start, Least(ends(str, start)) - 1)>> \o rest[Least(ends(str, start))]

\* The loop of str_to_vec.
str_to_vec(str) ==
  LET vec[end \in 1 .. Len(str) + 1] == names(str, end, vec)
  IN  vec[1]

\* A variable that is not set reads as the empty string.
populateFromEnv(var, fallback) == IF var = <<>> THEN <<fallback>> ELSE str_to_vec(var)

AllocFunctions == ToSet(populateFromEnv(env.PROVSAN_ALLOC, trusted_malloc))
ReallocFunctions == ToSet(populateFromEnv(env.PROVSAN_REALLOC, trusted_realloc))
DeallocFunctions == ToSet(populateFromEnv(env.PROVSAN_FREE, trusted_free))

-----------------------------------------------------------------------------
(* Pre: a hook with a dummy ID right after each call of a target function. *)

Targets == {i \in Calls : i.fn \in AllocFunctions \cup ReallocFunctions \cup DeallocFunctions}

\* A function that is in two lists gets the hook of the first.
getHookInst(i) ==
  Hook(IF i.fn \in AllocFunctions THEN allocHook
       ELSE IF i.fn \in ReallocFunctions THEN reallocHook ELSE deallocHook, i.tag)

\* A call is followed by its hook.
hookCalls(body) ==
  FlattenSeq([j \in DOMAIN body |->
                IF body[j] \in Targets /\ body[j].op = "call"
                  THEN <<body[j], getHookInst(body[j])>> ELSE <<body[j]>>])

\* The hooks of the invokes that continue in block b of f.
invokeHooks(f, b, single) ==
  LET invokes == Keep(InstrsOf(f), {i \in Targets : i.op = "invoke" /\ i.dest = b.name /\ i.single = single})
  IN  [j \in DOMAIN invokes |-> getHookInst(invokes[j])]

\* The hook of an invoke comes first in the block it continues in when that has
\* no other predecessor, else in a block of its own on the split edge, which is
\* before the other in reverse post-order.
hooked(f, b) == Block(b.name, invokeHooks(f, b, TRUE) \o hookCalls(b.body))
edges(f, b) ==
  [j \in DOMAIN invokeHooks(f, b, FALSE) |-> Block(10 * b.name + j, <<invokeHooks(f, b, FALSE)[j]>>)]
hookFunction(f) ==
  Func(f.name, FlattenSeq([k \in DOMAIN f.blocks |-> edges(f, f.blocks[k]) \o <<hooked(f, f.blocks[k])>>]))

\* hookFunctions: the functions in module order.  The counter of each kind moves in
\* getHookInst, hook_count where the hook is inserted.
hookFunctions ==
  /\ phase = "pre" /\ todo # <<>>
  /\ LET f == M[Head(todo)]
     IN  /\ M' = [M EXCEPT ![Head(todo)] = hookFunction(f)]
         /\ PreStats' = [hook_count |-> PreStats.hook_count + Len(HooksOf(hookFunction(f))),
                         kinds |-> [h \in HookNames |-> PreStats.kinds[h] +
                                      Len(Keep(InstrsOf(f), {i \in Targets : getHookInst(i).fn = h}))]]
  /\ todo' = Tail(todo)
  /\ UNCHANGED <<program, opt, run, objects, phase, fault_map, hookList, patchList, output,
                 PostStats, AllocSiteTotal>>

-----------------------------------------------------------------------------
(* Post: its options, the profiles, local IDs, the report, the patches, and *)
(* the removal of the hooks.                                               *)

\* The constructor and the first lines of run: the environment, then the flags
\* for testing.
MPKProfilePath == IF opt.PROVSAN_PATH # "" THEN opt.PROVSAN_PATH ELSE opt.mpk_test_profile_path
RemoveHooks == opt.PROVSAN_HOOK \notin {"", "0"} \/ opt.mpk_test_remove_hooks

\* What getFaultingAllocMap may return: of the records with the same function and
\* local ID, the one that is read first.
getFaultingAllocMap ==
  IF MPKProfilePath # "TestResults" THEN {{}}
  ELSE {S \in SUBSET profile :
          \A s \in profile : Cardinality({x \in S : x.func = s.func /\ x.id = s.id}) = 1}

\* funcSort: by name, descending.
IsWorkList(w) ==
  /\ ToSet(w) = DOMAIN M
  /\ \A i, j \in DOMAIN w : i < j => M[w[i]].name > M[w[j]].name

StartPost ==
  /\ phase = "pre" /\ todo = <<>>
  /\ phase' = "post" /\ \E w \in [DOMAIN M -> DOMAIN M] : IsWorkList(w) /\ todo' = w
  /\ fault_map' \in getFaultingAllocMap
  /\ UNCHANGED <<program, opt, run, objects, M, hookList, patchList, output,
                 PreStats, PostStats, AllocSiteTotal>>

\* Builds that remove the hooks number a deallocHook too.
Numbered_removed(h) == h.fn # deallocHook \/ RemoveHooks

\* A deallocHook gets no ID: LocalIDG does not advance.
Numbered(h) == h.fn # deallocHook

\* LocalIDG of one function, in the order its hooks are met.
LocalID(f, tag) ==
  LET hooks == Keep(HooksOf(f), {h \in Hooks : Numbered(h)})
  IN  Least({n \in DOMAIN hooks : hooks[n].tag = tag}) - 1

setLocalIDs(f) ==
  MapInstrs(f, [i \in Instrs |->
                  IF i \in Hooks /\ Numbered(i) THEN [i EXCEPT !.id = LocalID(f, i.tag)] ELSE i])

\* The function name is not compared.
FaultOf_anywhere(f, h) == {s \in fault_map : s.id = h.id}

\* The record of hook h of f in the fault map, if there is one.
FaultOf(f, h) == {s \in fault_map : s.func = f.name /\ s.id = h.id}

Faulting(f) == Keep(HooksOf(f), {h \in Hooks : Numbered(h) /\ FaultOf(f, h) # {}})

bbName(f, h) == f.blocks[Least({k \in DOMAIN f.blocks : h \in ToSet(f.blocks[k].body)})].name

\* "ERROR : Faulting allocation site found in non-matching BasicBlock".
Mismatched(f) ==
  {h \in ToSet(Faulting(f)) : \E s \in FaultOf(f, h) : s.bb # bbName(f, h)}

\* hookList without the hooks that get no ID.
ToRemove_numbered(f) == {h.tag : h \in {i \in ToSet(HooksOf(f)) : Numbered(i)}}

ToRemove(f) == {h.tag : h \in ToSet(HooksOf(f))}

\* The loop of assignLocalIDs over one function.
assignLocalIDs ==
  /\ phase = "post" /\ todo # <<>>
  /\ LET f == setLocalIDs(M[Head(todo)])
         hits == [j \in DOMAIN Faulting(f) |-> Faulting(f)[j].tag]
     IN  /\ M' = [M EXCEPT ![Head(todo)] = f]
         /\ PostStats' =
              [total_hooks |-> PostStats.total_hooks + Len(HooksOf(f)),
               kinds |-> [h \in HookNames |-> PostStats.kinds[h] +
                            Len(Keep(HooksOf(f), {i \in Hooks : i.fn = h}))],
               modified_inst_count |-> PostStats.modified_inst_count]
         /\ hookList' = IF RemoveHooks THEN hookList \cup ToRemove(f) ELSE hookList
         /\ patchList' = patchList \o hits
         /\ reported' = reported \cup ToSet(hits)
         /\ mismatched' = mismatched \cup {h.tag : h \in Mismatched(f)}
  /\ todo' = Tail(todo)
  /\ UNCHANGED <<program, opt, run, objects, phase, fault_map, PreStats, AllocSiteTotal>>

\* Any call whose site faulted is redirected.
Patchable_any(i) == i.op # "hook" /\ i.tag \in ToSet(patchList) /\ Replaceable

\* patchInstruction: of the callees of AllocReplacementMap, one is modelled.
Patchable(i) == i.op # "hook" /\ i.tag \in ToSet(patchList) /\ i.fn = trusted_malloc /\ Replaceable

patched(f) ==
  MapInstrs(f, [i \in Instrs |-> IF Patchable(i) THEN [i EXCEPT !.fn = untrusted_malloc] ELSE i])

patchInstructions ==
  /\ phase = "post" /\ todo = <<>>
  /\ M' = [n \in DOMAIN M |-> patched(M[n])]
  /\ PostStats' = [PostStats EXCEPT !.modified_inst_count =
                     @ + Cardinality({i \in InstrsIn(M) : Patchable(i)})]
  /\ phase' = "remove"
  /\ UNCHANGED <<program, opt, run, objects, todo, fault_map, hookList, patchList, output,
                 PreStats, AllocSiteTotal>>

\* The counter behind AllocSiteTotal: nothing calls IDG.getConstID.
IDG == 0

\* The hooks of the unit that are not in hookList, which removeFunctionUsers finds,
\* removes and counts: then the unit is without any hook.
removeFunctionUsers(unit) == {h \in HooksIn(unit) : h.tag \notin hookList}
withoutHooks(unit) == [n \in DOMAIN unit |-> KeepInstrs(unit[n], Calls)]

\* The end of run.
removeHooks ==
  /\ phase = "remove"
  /\ IF RemoveHooks
       THEN /\ M' = withoutHooks(M)
            /\ LET left == removeFunctionUsers(M)
               IN  PostStats' =
                     [total_hooks |-> PostStats.total_hooks + Cardinality(left),
                      kinds |-> [h \in HookNames |-> PostStats.kinds[h] +
                                   Cardinality({i \in left : i.fn = h})],
                      modified_inst_count |-> PostStats.modified_inst_count]
       ELSE UNCHANGED <<M, PostStats>>
  /\ AllocSiteTotal' = IDG
  /\ phase' = "compiled"
  /\ UNCHANGED <<program, opt, run, objects, todo, fault_map, hookList, patchList, output, PreStats>>

-----------------------------------------------------------------------------
(* The cycle (external): a process for each unit, and runs of the program. *)

\* What a process starts with.
Fresh(unit) ==
  /\ M' = unit /\ phase' = "pre" /\ todo' = [n \in DOMAIN unit |-> n]
  /\ fault_map' = {} /\ hookList' = {} /\ patchList' = <<>>
  /\ PreStats' = [hook_count |-> 0, kinds |-> [h \in HookNames |-> 0]]
  /\ PostStats' = [total_hooks |-> 0, kinds |-> [h \in HookNames |-> 0], modified_inst_count |-> 0]
  /\ AllocSiteTotal' = 0

Init ==
  /\ source \in Sources /\ env \in Environments /\ opt \in Options
  /\ builds = 1 /\ objects = <<>> /\ profile = {} /\ faulted = {}
  /\ M = source[1] /\ phase = "pre" /\ todo = [n \in DOMAIN M |-> n]
  /\ fault_map = {} /\ hookList = {} /\ patchList = <<>>
  /\ reported = {} /\ mismatched = {}
  /\ PreStats = [hook_count |-> 0, kinds |-> [h \in HookNames |-> 0]]
  /\ PostStats = [total_hooks |-> 0, kinds |-> [h \in HookNames |-> 0], modified_inst_count |-> 0]
  /\ AllocSiteTotal = 0

NextUnit ==
  /\ phase = "compiled" /\ Len(objects) + 1 < Len(source)
  /\ objects' = Append(objects, M)
  /\ Fresh(source[Len(objects) + 2])
  /\ UNCHANGED <<program, opt, run, output>>

Link ==
  /\ phase = "compiled" /\ Len(objects) + 1 = Len(source)
  /\ objects' = Append(objects, M)
  /\ phase' = "linked"
  /\ UNCHANGED <<program, opt, run, M, todo, fault_map, hookList, patchList, output,
                 PreStats, PostStats, AllocSiteTotal>>

\* The allocations that can be found to fault: they are hooked, and not made in
\* untrusted memory.
Detectable ==
  LET all == UNION {InstrsIn(objects[u]) : u \in DOMAIN objects}
  IN  {i.tag : i \in {j \in all : j \in Hooks /\ Numbered(j)}}
        \ {i.tag : i \in {j \in all : j.fn = untrusted_malloc}}

\* What the hook h of f passes to the runtime.
Identity(f, h) == [func |-> f.name, id |-> h.id, bb |-> bbName(f, h)]

\* What the hooks of the allocations in F pass.
Recorded(F) ==
  UNION {UNION {{Identity(f, h) : h \in {i \in ToSet(HooksOf(f)) : Numbered(i) /\ i.tag \in F}} :
                f \in ToSet(objects[u])} : u \in DOMAIN objects}

\* The program runs, writes one more profile, and is built again.
Execute(F, o) ==
  /\ phase = "linked" /\ builds < MaxBuilds
  /\ faulted' = faulted \cup F
  /\ profile' = profile \cup Recorded(F)
  /\ builds' = builds + 1 /\ opt' = o
  /\ objects' = <<>> /\ reported' = {} /\ mismatched' = {}
  /\ Fresh(source[1])
  /\ UNCHANGED program

Next ==
  \/ hookFunctions \/ StartPost \/ assignLocalIDs \/ patchInstructions \/ removeHooks
  \/ NextUnit \/ Link
  \/ \E F \in SUBSET Detectable, o \in Options : Cardinality(F) <= MaxFaults /\ Execute(F, o)

Spec == Init /\ [][Next]_vars

-----------------------------------------------------------------------------
\* The function at place n of unit u holds a call with this tag.
Holds(u, n, tag) == \E i \in ToSet(InstrsOf(source[u][n])) : i.tag = tag

\* Calls in functions of the same name, in two units: static functions.
Namesakes(x, y) ==
  \E u, v \in DOMAIN source : \E n \in DOMAIN source[u], m \in DOMAIN source[v] :
    u # v /\ Holds(u, n, x) /\ Holds(v, m, y) /\ source[u][n].name = source[v][m].name

\* "the collected profiles are fed back into the compiler, and all the access
\* violations in the profiles are reported" (README): a build with PROVSAN_PATH
\* reports every allocation that faulted in any earlier run, although the sites
\* are numbered anew in each build and hooks and patches come and go in between.
\* What else it reports lies in a function that has a namesake in another unit.
ReportExact ==
  phase = "linked" /\ opt.PROVSAN_PATH = "TestResults" =>
    /\ faulted \subseteq reported
    /\ \A x \in reported \ faulted : \E y \in faulted : Namesakes(x, y)

\* The complaint about a non-matching basic block is never raised about a build of
\* the same source, unless two static functions share a name.
MismatchExplained ==
  \A x \in mismatched : \E y \in faulted : Namesakes(x, y)

\* A name is listed when it is the text between two commas or the ends.
Listed(name, str) ==
  \E i, j \in 1 .. Len(str) :
    /\ SubSeq(str, i, j) = name
    /\ i = 1 \/ str[i - 1] = ","
    /\ j = Len(str) \/ str[j + 1] = ","
Wanted(i, var, fallback) == Listed(i.fn, var) \/ (var = <<>> /\ i.fn = fallback)

\* After hookFunctions every call of a listed function, and no other, has one hook,
\* whether it is a call or an invoke, wherever the invoke goes on and however the
\* lists are written: the hook for allocations, or else for reallocations, or else
\* for frees.
HookedOnce ==
  phase = "post" => \A n \in DOMAIN M :
    LET calls   == ToSet(InstrsOf(source[Len(objects) + 1][n]))
        alloc   == {i \in calls : Wanted(i, env.PROVSAN_ALLOC, trusted_malloc)}
        realloc == {i \in calls : Wanted(i, env.PROVSAN_REALLOC, trusted_realloc)} \ alloc
        free    == {i \in calls : Wanted(i, env.PROVSAN_FREE, trusted_free)} \ (alloc \cup realloc)
    IN  /\ Len(HooksOf(M[n])) = Cardinality({h.tag : h \in ToSet(HooksOf(M[n]))})
        /\ {<<h.fn, h.tag>> : h \in ToSet(HooksOf(M[n]))} =
             {<<allocHook, i.tag>> : i \in alloc} \cup {<<reallocHook, i.tag>> : i \in realloc}
               \cup {<<deallocHook, i.tag>> : i \in free}

\* What a build leaves of the source: all its calls in their order, those of
\* trusted_malloc that are reported redirected to untrusted memory, and with
\* PROVSAN_HOOK nothing else.
SourceRestored ==
  phase = "compiled" => \A n \in DOMAIN M :
    LET before == InstrsOf(source[Len(objects) + 1][n])
    IN  /\ Keep(InstrsOf(M[n]), Calls) =
             [j \in DOMAIN before |->
                IF before[j].fn = trusted_malloc /\ before[j].tag \in reported /\ Replaceable
                  THEN [before[j] EXCEPT !.fn = untrusted_malloc] ELSE before[j]]
        /\ RemoveHooks => HooksOf(M[n]) = <<>>

\* "Ensure we assign a local ID to the same number of hooks as we made in the Pre
\* pass" (total_hooks): the statistics of the two passes agree, in all and for
\* each kind of hook, and modified_inst_count is the number of calls that are not as
\* in the source.
CountsAgree ==
  phase = "compiled" =>
    /\ PostStats.total_hooks = PreStats.hook_count
    /\ PostStats.kinds = PreStats.kinds
    /\ PreStats.hook_count =
         PreStats.kinds[allocHook] + PreStats.kinds[reallocHook] + PreStats.kinds[deallocHook]
    /\ PostStats.modified_inst_count =
         Cardinality((InstrsIn(M) \cap Calls) \ InstrsIn(source[Len(objects) + 1]))
=============================================================================
