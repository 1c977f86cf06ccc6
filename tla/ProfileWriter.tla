---------------------------- MODULE ProfileWriter ---------------------------
(***************************************************************************)
(* How the faults of a run reach the profile directory: flush_allocs and   *)
(* what it calls (Runtime/provsan_formatter.cpp), for several runs of the  *)
(* instrumented program that share one working directory, and the reading  *)
(* of that directory by the Post pass (getFaultPaths, parseJSONArrayFile   *)
(* and getFaultingAllocMap in DynUntrustedAllocPost.cpp).                  *)
(*                                                                         *)
(* exit() runs flush_allocs while the other threads of the run go on       *)
(* faulting.  The lock taken by faultingAllocs is released before its      *)
(* result, a reference, is copied: a copy taken while a thread inserts is  *)
(* a data race and can yield any part of the set.                          *)
(*                                                                         *)
(* A file is a JSON array of elements, or Garbled: it does not parse.  That *)
(* is so between the opening of the stream and its flush, and for good when *)
(* a name in it has a character that JSON wants escaped, and when the disk  *)
(* took the array only in part, or not at all, which nobody looks at.       *)
(***************************************************************************)
EXTENDS Integers, FiniteSets, Functions

CONSTANTS
  Runs,      \* runs of the instrumented program
  Sites,     \* allocation sites that may fault
  Unescaped, \* those whose block or function name has a quote or the like in it
  Strays,    \* what a .json file of other origin in the directory may hold
  Bogus,     \* a site that no element names: what stray memory makes of one
  Pids,      \* process ids; live processes differ, later ones may reuse one
  Randoms,   \* what mt_rand may return
  ATTEMPTS,  \* names tried before giving up (128 in the source)
  DiskFails  \* mkdir, open and the writing may fail for reasons of their own

ASSUME AttemptsAssumption == ATTEMPTS \in Nat \ {0}
ASSUME DiskAssumption == DiskFails \in BOOLEAN
ASSUME SitesAssumption ==
  /\ Unescaped \subseteq Sites /\ Bogus \notin Sites
  /\ Strays \subseteq SUBSET [site : Sites, lacks : SUBSET {"id", "pkey", "bbName", "funcName"}]

VARIABLES
  fault_set,  \* per run: sites recorded by its fault handlers
  inserting,  \* per run: sites a thread is inserting, holding fault_set_mx (0 or 1)
  pc, pid,    \* per run: phase of the process, and its process id
  copy,       \* per run: the local fault_set of flush_allocs
  attempt,    \* per run: attempts of makeUniqueFilename
  name,       \* per run: file name
  dir,        \* TestResults exists and is a directory
  files,      \* name -> contents
  owed,       \* history, per run: what its file has to hold, if the disk takes it
  unread,     \* the Post pass: file names it has yet to read
  fault_map,  \* the Post pass: sites it has read
  due         \* history: sites it has to find

run == <<fault_set, inserting, pid, owed>>
report == <<unread, fault_map, due>>
vars == <<run, pc, copy, attempt, name, dir, files, report>>

\* An element of the array, with the properties it lacks.
Element(s) == [site |-> s, lacks |-> {}]
Array(S) == [parses |-> TRUE, elements |-> S]
Garbled == [parses |-> FALSE, elements |-> {}]
SitesIn(file) == {e.site : e \in {x \in file.elements : x.lacks = {}}}

NoName == <<>>
StrayName == <<"stray">>
NotReading == {NoName}

Names == Pids \X Randoms

\* What a reader may expect of a run: nothing before it has ended.
Delivered(p) == IF pc[p] = "done" THEN owed[p] ELSE {}

Live == {p \in Runs : pc[p] \notin {"new", "done", "lost", "killed"}}
FlushPcs == {"faultingAllocs", "copy", "directory", "mkdir", "name", "open", "write"}

Init ==
  /\ fault_set = [p \in Runs |-> {}]
  /\ inserting = [p \in Runs |-> {}]
  /\ pc = [p \in Runs |-> "new"]
  /\ pid \in [Runs -> Pids]
  /\ copy = [p \in Runs |-> {}]
  /\ attempt = [p \in Runs |-> 0]
  /\ name = [p \in Runs |-> NoName]
  /\ dir \in BOOLEAN
  /\ \/ files = [n \in {} |-> Garbled]
     \/ dir /\ \E S \in Strays : files = [n \in {StrayName} |-> Array(S)]
  /\ owed = [p \in Runs |-> {}]
  /\ unread = NotReading
  /\ fault_map = {} /\ due = {}

Goto(p, label) == pc' = [pc EXCEPT ![p] = label]

-----------------------------------------------------------------------------
(* The processes (external).                                               *)

Start(p) ==
  /\ pc[p] = "new"
  /\ \A q \in Live : pid[q] # pid[p]
  /\ Goto(p, "run")
  /\ UNCHANGED <<run, copy, attempt, name, dir, files, report>>

\* Killed, or aborted by an assert: no exit handler runs, what was in memory is gone,
\* and what is on disk stays as it is.
Kill(p) ==
  /\ p \in Live
  /\ Goto(p, "killed")
  /\ fault_set' = [fault_set EXCEPT ![p] = {}]
  /\ inserting' = [inserting EXCEPT ![p] = {}]
  /\ copy' = [copy EXCEPT ![p] = {}]
  /\ owed' = [owed EXCEPT ![p] = {}]
  /\ attempt' = [attempt EXCEPT ![p] = 0]
  /\ name' = [name EXCEPT ![p] = NoName]
  /\ UNCHANGED <<pid, dir, files, report>>

\* The faults that the handlers have recorded by now have to reach the file.
Exit(p) ==
  /\ pc[p] = "run"
  /\ Goto(p, "faultingAllocs")
  /\ owed' = [owed EXCEPT ![p] = fault_set[p]]
  /\ UNCHANGED <<fault_set, inserting, pid, copy, attempt, name, dir, files, report>>

\* addFaultAlloc in some thread of the run: insertion under fault_set_mx.  Inserting
\* a site that is there already changes nothing, and what is inserted once the set
\* has been copied is never looked at: both are left out.
beginInsert(p, s) ==
  /\ pc[p] \in {"run", "faultingAllocs", "copy"} /\ inserting[p] = {}
  /\ s \notin fault_set[p]
  /\ inserting' = [inserting EXCEPT ![p] = {s}]
  /\ UNCHANGED <<fault_set, pc, pid, owed, copy, attempt, name, dir, files, report>>

endInsert(p) ==
  /\ p \in Live /\ inserting[p] # {}
  /\ fault_set' = [fault_set EXCEPT ![p] = @ \cup inserting[p]]
  /\ inserting' = [inserting EXCEPT ![p] = {}]
  /\ UNCHANGED <<pc, pid, owed, copy, attempt, name, dir, files, report>>

-----------------------------------------------------------------------------
(* flush_allocs.                                                           *)

faultingAllocs(p) ==
  /\ pc[p] = "faultingAllocs"
  /\ inserting[p] = {}
  /\ Goto(p, "copy")
  /\ UNCHANGED <<run, copy, attempt, name, dir, files, report>>

\* auto fault_set = handler->faultingAllocs(), after the guard is gone; an empty
\* set is not written.  Nothing is owed by a run whose copy raced with an insertion
\* or holds a name that JSON wants escaped.  Nobody sees such an insertion end.
copyFaults(p) ==
  /\ pc[p] = "copy"
  /\ \E c \in SUBSET (fault_set[p] \cup inserting[p]) :
       /\ inserting[p] = {} => c = fault_set[p]
       /\ copy' = [copy EXCEPT ![p] = c]
       /\ Goto(p, IF c = {} THEN "done" ELSE "directory")
       /\ owed' = [owed EXCEPT ![p] = IF inserting[p] # {} \/ c \cap Unescaped # {} THEN {} ELSE @]
  /\ fault_set' = [fault_set EXCEPT ![p] = @ \cup inserting[p]]
  /\ inserting' = [inserting EXCEPT ![p] = {}]
  /\ UNCHANGED <<pid, attempt, name, dir, files, report>>

is_directory(p) ==
  /\ pc[p] = "directory"
  /\ Goto(p, IF dir THEN "name" ELSE "mkdir")
  /\ UNCHANGED <<run, copy, attempt, name, dir, files, report>>

\* mkdir() fails with EEXIST when another process was faster.
makeDirectory(p) ==
  /\ pc[p] = "mkdir"
  /\ \/ ~dir /\ dir' = TRUE /\ Goto(p, "name")
     \/ (dir \/ DiskFails) /\ Goto(p, "lost") /\ UNCHANGED dir
  /\ UNCHANGED <<run, copy, attempt, name, files, report>>

\* No stat.
makeUniqueFilename_nostat(p, r) ==
  /\ pc[p] = "name"
  /\ name' = [name EXCEPT ![p] = <<pid[p], r>>]
  /\ Goto(p, "open")
  /\ UNCHANGED <<run, copy, attempt, dir, files, report>>

\* One attempt too many.
makeUniqueFilename_more(p, r) ==
  LET unique == <<pid[p], r>>
  IN  /\ pc[p] = "name"
      /\ IF unique \in DOMAIN files
           THEN /\ attempt' = [attempt EXCEPT ![p] = @ + 1]
                /\ Goto(p, IF attempt[p] = ATTEMPTS THEN "lost" ELSE "name")
                /\ UNCHANGED name
           ELSE /\ name' = [name EXCEPT ![p] = unique]
                /\ Goto(p, "open")
                /\ UNCHANGED attempt
      /\ UNCHANGED <<run, copy, dir, files, report>>

\* One turn of the loop: a name made of the pid and a random number, and a stat.
makeUniqueFilename(p, r) ==
  LET unique == <<pid[p], r>>
  IN  /\ pc[p] = "name"
      /\ \/ /\ unique \notin DOMAIN files
            /\ name' = [name EXCEPT ![p] = unique]
            /\ Goto(p, "open")
            /\ UNCHANGED attempt
         \/ /\ unique \in DOMAIN files
            /\ attempt' = [attempt EXCEPT ![p] = @ + 1]
            /\ Goto(p, IF attempt[p] + 1 = ATTEMPTS THEN "lost" ELSE "name")
            /\ UNCHANGED name
      /\ UNCHANGED <<run, copy, dir, files, report>>

\* When the file cannot be opened, another name is tried.
makeUniqueStream_retry(p) ==
  /\ pc[p] = "open"
  /\ \/ /\ files' = [n \in DOMAIN files \cup {name[p]} |-> IF n = name[p] THEN Garbled ELSE files[n]]
        /\ Goto(p, "write")
     \/ DiskFails /\ Goto(p, "name") /\ UNCHANGED files
  /\ UNCHANGED <<run, copy, attempt, name, dir, report>>

\* std::ofstream::open truncates a file of that name.
makeUniqueStream(p) ==
  /\ pc[p] = "open"
  /\ \/ /\ files' = [n \in DOMAIN files \cup {name[p]} |-> IF n = name[p] THEN Garbled ELSE files[n]]
        /\ Goto(p, "write")
     \/ DiskFails /\ Goto(p, "lost") /\ UNCHANGED files
  /\ UNCHANGED <<run, copy, attempt, name, dir, report>>

\* The last element is left out.
writeJSON_short(p) ==
  /\ pc[p] = "write"
  /\ \/ /\ files' = [files EXCEPT ![name[p]] =
            IF copy[p] \cap Unescaped # {} THEN Garbled
            ELSE Array({Element(s) : s \in copy[p] \ {CHOOSE s \in copy[p] : TRUE}})]
        /\ UNCHANGED owed
     \/ DiskFails /\ owed' = [owed EXCEPT ![p] = {}] /\ UNCHANGED files
  /\ Goto(p, "done")
  /\ UNCHANGED <<fault_set, inserting, pid, copy, attempt, name, dir, report>>

\* writeJSON and OS.flush(): one object for each element of the copy, with the
\* names as they are.  The state of the stream is never looked at: when the disk
\* does not take all of it, what stays is the beginning of an array, which does not
\* parse, and writeUniqueFile reports success all the same.  Such a run owes nothing.
writeJSON(p) ==
  /\ pc[p] = "write"
  /\ \/ /\ files' = [files EXCEPT ![name[p]] =
            IF copy[p] \cap Unescaped # {} THEN Garbled ELSE Array({Element(s) : s \in copy[p]})]
        /\ UNCHANGED owed
     \/ DiskFails /\ owed' = [owed EXCEPT ![p] = {}] /\ UNCHANGED files
  /\ Goto(p, "done")
  /\ UNCHANGED <<fault_set, inserting, pid, copy, attempt, name, dir, report>>

-----------------------------------------------------------------------------
(* The Post pass.                                                          *)

\* getFaultPaths: the .json files of the directory, or the one file PROVSAN_PATH
\* names, which need not exist.
getFaultPaths(path) ==
  /\ unread = NotReading
  /\ \/ /\ path = NoName /\ dir
        /\ unread' = DOMAIN files
        /\ due' = (UNION {Delivered(p) : p \in Runs})
                    \cup (UNION {SitesIn(files[n]) : n \in {StrayName} \cap DOMAIN files})
     \/ /\ path # NoName \/ ~dir
        /\ unread' = {path} \ {NoName}
        /\ due' = UNION {Delivered(p) : p \in {q \in Runs : name[q] = path /\ path # NoName}}
  /\ UNCHANGED <<run, pc, copy, attempt, name, dir, files, fault_map>>

\* fromJSON without the results of O.map: it relies on the values it finds.
fromJSON_values(e, temp_id, temp_pkey) ==
  temp_id >= 0 /\ temp_pkey >= 0 /\ {"bbName", "funcName"} \cap e.lacks = {}

\* temp_id and temp_pkey are not initialized and O.map leaves them alone when the
\* property is missing, so they are whatever was in memory: such an element is
\* rejected by one of the early returns or by the last one.
fromJSON(e, temp_id, temp_pkey) ==
  /\ temp_id >= 0 /\ temp_pkey >= 0
  /\ {"bbName", "funcName"} \cap e.lacks = {}
  /\ {"id", "pkey"} \cap e.lacks = {}

\* What the pass may take from element e.
Taken(e) ==
  {IF e.lacks = {} THEN e.site ELSE Bogus :
     v \in {w \in [id : IF "id" \in e.lacks THEN {-1, 7} ELSE {0},
                   pkey : IF "pkey" \in e.lacks THEN {-1, 7} ELSE {0}] : fromJSON(e, w.id, w.pkey)}}

\* A file that does not parse ends the loop.
readFaults_break(n) ==
  /\ unread # NotReading /\ n \in unread
  /\ fault_map' = IF n \in DOMAIN files THEN fault_map \cup UNION {Taken(e) : e \in files[n].elements} ELSE fault_map
  /\ unread' = IF n \in DOMAIN files /\ ~files[n].parses THEN {} ELSE unread \ {n}
  /\ UNCHANGED <<run, pc, copy, attempt, name, dir, files, due>>

\* One turn of the loop in getFaultingAllocMap; a file that cannot be read or does
\* not parse is skipped, and so is an element that fromJSON rejects.
readFaults(n) ==
  /\ unread # NotReading /\ n \in unread
  /\ fault_map' = IF n \in DOMAIN files THEN fault_map \cup UNION {Taken(e) : e \in files[n].elements} ELSE fault_map
  /\ unread' = unread \ {n}
  /\ UNCHANGED <<run, pc, copy, attempt, name, dir, files, due>>

-----------------------------------------------------------------------------
Process(p) ==
  \/ Start(p) \/ Kill(p) \/ Exit(p)
  \/ (\E s \in Sites : beginInsert(p, s)) \/ endInsert(p)

Flush(p) ==
  \/ faultingAllocs(p) \/ copyFaults(p)
  \/ is_directory(p) \/ makeDirectory(p)
  \/ \E r \in Randoms : makeUniqueFilename(p, r)
  \/ makeUniqueStream(p) \/ writeJSON(p)

Pass ==
  \/ \E path \in Names \cup {NoName} : getFaultPaths(path)
  \/ \E n \in unread : readFaults(n)

Next == Pass \/ \E p \in Runs : Process(p) \/ Flush(p)

Spec == Init /\ [][Next]_vars

\* A process that called exit() goes on until it ends or is killed.
FairSpec == Spec /\ \A p \in Runs : WF_vars(Flush(p))

-----------------------------------------------------------------------------
\* Every variable has its type.
TypeOK ==
  /\ fault_set \in [Runs -> SUBSET Sites] /\ inserting \in [Runs -> SUBSET Sites]
  /\ pc \in [Runs -> {"new", "run", "done", "lost", "killed"} \cup FlushPcs]
  /\ pid \in [Runs -> Pids]
  /\ copy \in [Runs -> SUBSET Sites] /\ owed \in [Runs -> SUBSET Sites]
  /\ attempt \in [Runs -> 0 .. ATTEMPTS]
  /\ name \in [Runs -> Names \cup {NoName}]
  /\ dir \in BOOLEAN
  /\ DOMAIN files \subseteq Names \cup {StrayName}
  /\ files \in [DOMAIN files ->
       [parses : BOOLEAN, elements : SUBSET [site : Sites, lacks : SUBSET {"id", "pkey", "bbName", "funcName"}]]]
  /\ unread \subseteq Names \cup {NoName, StrayName}
  /\ fault_map \subseteq Sites \cup {Bogus} /\ due \subseteq Sites

\* "Writes output of the faultSet to a uniquely generated output file to ensure
\* we do not overwrite previously discovered faulting values": a file that has
\* been written never changes, though pids are reused and the existence test and
\* the truncating open of different runs interleave.
NeverOverwritten ==
  [][\A n \in DOMAIN files : files[n].parses => n \in DOMAIN files' /\ files'[n] = files[n]]_vars

\* When flush_allocs has ended without giving up, every fault recorded before
\* exit() can be read from its file, unless a thread was inserting while the set
\* was copied, a name was not written as JSON wants it, or the disk did not take
\* the file: it then holds all or nothing, never a part that passes for a profile.
FlushComplete ==
  \A p \in Runs : pc[p] = "done" =>
    /\ owed[p] # {} => name[p] \in DOMAIN files /\ files[name[p]].parses
    /\ name[p] \in DOMAIN files /\ files[name[p]].parses =>
         SitesIn(files[name[p]]) = copy[p] /\ owed[p] \subseteq copy[p]

\* What the Post pass has read was recorded as a fault by one of the runs or stands
\* complete in the file of other origin: nothing comes from a file that is still
\* being written, or from the stray memory that fromJSON looks at when an element
\* lacks a property.
ReportSound ==
  fault_map \subseteq (UNION {fault_set[p] \cup inserting[p] : p \in Runs})
                        \cup (UNION {SitesIn(files[n]) : n \in {StrayName} \cap DOMAIN files})

\* From the fault handlers to the pass: every fault that a run recorded before it
\* called exit is in the fault map of a pass that started after the run had ended,
\* whatever half-written or unreadable files of other runs lie beside its own.  Of a
\* run whose copy raced, whose names do not parse or whose file the disk did not take
\* (writeJSON tells nobody) the pass may find nothing.
ReportComplete == unread = {} => due \subseteq fault_map

\* "flush all faulting allocations to disk/file" (flush_allocs): a run whose disk
\* works and whose file name is free does not lose its profile.
ProfileKept == \A p \in Runs : pc[p] = "lost" => attempt[p] = ATTEMPTS

\* Once the other threads of a run leave fault_set_mx alone, its flush_allocs
\* ends: it does not try names for ever.
FlushEnds ==
  \A p \in Runs : <>[](inserting[p] = {}) =>
    (pc[p] \in FlushPcs ~> pc[p] \in {"done", "lost", "killed"})
=============================================================================
