-------------------------- MODULE ProfileWriterProofs -----------------------
(***************************************************************************)
(* TLAPS proofs about ProfileWriter, for any number of runs, process ids,  *)
(* random numbers and attempts.                                            *)
(***************************************************************************)
EXTENDS ProfileWriter, TLAPS

Lacking == SUBSET {"id", "pkey", "bbName", "funcName"}
Contents == [parses : BOOLEAN, elements : SUBSET [site : Sites, lacks : Lacking]]
Pcs == {"new", "run", "done", "lost", "killed"} \cup FlushPcs

\* makeUniqueFilename counts an attempt only when another one is left.
AttemptsLeft == \A p \in Runs : pc[p] # "lost" => attempt[p] < ATTEMPTS

\* A name that is chosen is made of the process id, and nobody has one before.
NameOwn ==
  \A p \in Runs :
    /\ pc[p] \in {"open", "write"} => name[p] \in Names /\ name[p][1] = pid[p]
    /\ pc[p] \notin {"open", "write", "done", "lost"} => name[p] = NoName

TypeInv == TypeOK /\ AttemptsLeft /\ NameOwn

-----------------------------------------------------------------------------
(* The values files, elements and names take.                              *)

\* An array of elements is a file; so is one that does not parse.
LEMMA FileTypes ==
  /\ Garbled \in Contents /\ ~Garbled.parses /\ SitesIn(Garbled) = {}
  /\ \A S \in SUBSET [site : Sites, lacks : Lacking] : Array(S) \in Contents /\ Array(S).parses
  /\ \A S \in SUBSET Sites : {Element(s) : s \in S} \in SUBSET [site : Sites, lacks : Lacking]
<1>1. Garbled \in Contents /\ ~Garbled.parses /\ SitesIn(Garbled) = {}
  BY DEF Garbled, Contents, SitesIn
<1>2. \A S \in SUBSET [site : Sites, lacks : Lacking] : Array(S) \in Contents /\ Array(S).parses
  BY DEF Array, Contents
<1>3. \A S \in SUBSET Sites : {Element(s) : s \in S} \in SUBSET [site : Sites, lacks : Lacking]
  BY DEF Element, Lacking
<1> QED
  BY <1>1, <1>2, <1>3

\* The file of a run names the sites of its copy.
LEMMA WrittenSites == \A S : SitesIn(Array({Element(s) : s \in S})) = S
<1> SUFFICES ASSUME NEW S PROVE SitesIn(Array({Element(s) : s \in S})) = S
  OBVIOUS
<1>1. \A s \in S : Element(s).site = s /\ Element(s).lacks = {}
  BY DEF Element
<1>2. Array({Element(s) : s \in S}).elements = {Element(s) : s \in S}
  BY DEF Array
<1> DEFINE file == Array({Element(s) : s \in S})
<1>3. \A x : x \in SitesIn(file) <=> \E e \in file.elements : e.lacks = {} /\ x = e.site
  BY DEF SitesIn
<1>4. \A x \in S : Element(x) \in file.elements
  BY <1>2
<1>5. \A e \in file.elements : \E x \in S : e = Element(x)
  BY <1>2
<1> HIDE DEF file
<1>6. \A x : x \in SitesIn(file) <=> x \in S
  BY <1>1, <1>3, <1>4, <1>5
<1> QED
  BY <1>6 DEF file

\* The name of a run's file is not that of the file of other origin, nor none.
LEMMA NamesDiffer == NoName \notin Names /\ StrayName \notin Names /\ NoName # StrayName
BY DEF NoName, StrayName, Names

\* Only complete elements get into the fault map: what fromJSON makes of an
\* uninitialized temp_id or temp_pkey is rejected.
LEMMA TakenComplete ==
  \A e \in [site : Sites, lacks : Lacking] : Taken(e) = IF e.lacks = {} THEN {e.site} ELSE {}
<1> SUFFICES ASSUME NEW e \in [site : Sites, lacks : Lacking]
             PROVE  Taken(e) = IF e.lacks = {} THEN {e.site} ELSE {}
  OBVIOUS
<1>1. CASE e.lacks = {}
  <2>1. \A w \in [id : {0}, pkey : {0}] : fromJSON(e, w.id, w.pkey)
    BY <1>1 DEF fromJSON
  <2>2. [id |-> 0, pkey |-> 0] \in [id : {0}, pkey : {0}]
    OBVIOUS
  <2> QED
    BY <1>1, <2>1, <2>2 DEF Taken
<1>2. CASE e.lacks # {}
  <2>1. \A i, k : ~fromJSON(e, i, k)
    BY <1>2 DEF fromJSON, Lacking
  <2> QED
    BY <1>2, <2>1 DEF Taken
<1> QED
  BY <1>1, <1>2

\* A file names sites of the program.
LEMMA SitesInType == \A c \in Contents : SitesIn(c) \subseteq Sites
BY DEF SitesIn, Contents

\* What getFaultPaths is to find: what ended runs owe, all of them or the one whose
\* file is named, and the file of other origin.
LEMMA DueSources ==
  ASSUME NEW path, getFaultPaths(path)
  PROVE  \A x \in due' :
           \/ \E q \in Runs : x \in Delivered(q) /\ ((path = NoName /\ dir) \/ (path # NoName /\ name[q] = path))
           \/ path = NoName /\ dir /\ StrayName \in DOMAIN files /\ x \in SitesIn(files[StrayName])
<1>1. CASE path = NoName /\ dir
  <2> SUFFICES ASSUME NEW x \in due'
               PROVE  \/ \E q \in Runs : x \in Delivered(q)
                      \/ StrayName \in DOMAIN files /\ x \in SitesIn(files[StrayName])
    BY <1>1
  <2>1. \/ x \in UNION {Delivered(q) : q \in Runs}
        \/ x \in UNION {SitesIn(files[n]) : n \in {StrayName} \cap DOMAIN files}
    BY <1>1 DEF getFaultPaths
  <2>2. CASE x \in UNION {Delivered(q) : q \in Runs}
    BY <2>2
  <2>3. CASE x \in UNION {SitesIn(files[n]) : n \in {StrayName} \cap DOMAIN files}
    BY <2>3
  <2> QED
    BY <2>1, <2>2, <2>3
<1>2. CASE path # NoName \/ ~dir
  <2>1. due' = UNION {Delivered(q) : q \in {x \in Runs : name[x] = path /\ path # NoName}}
    BY <1>2 DEF getFaultPaths
  <2> QED
    BY <2>1
<1> QED
  BY <1>1, <1>2

-----------------------------------------------------------------------------
(* Types.                                                                  *)

\* The directory may hold a file of other origin, and nothing else.
LEMMA InitType == Init => TypeInv
<1> SUFFICES ASSUME Init PROVE TypeInv
  OBVIOUS
<1>1. AttemptsLeft /\ NameOwn
  BY AttemptsAssumption DEF Init, AttemptsLeft, NameOwn
<1>2. /\ DOMAIN files \subseteq Names \cup {StrayName}
      /\ files \in [DOMAIN files -> Contents]
  BY SitesAssumption, FileTypes DEF Init, Lacking
<1>3. TypeOK
  BY <1>2, AttemptsAssumption DEF Init, TypeOK, NotReading, Contents, Lacking
<1> QED
  BY <1>1, <1>3 DEF TypeInv

\* Each step of a run and of the Post pass keeps the types.
LEMMA TypeStep == TypeInv /\ [Next]_vars => TypeInv'
<1> SUFFICES ASSUME TypeInv, [Next]_vars PROVE TypeInv'
  OBVIOUS
<1> USE AttemptsAssumption DEF TypeInv, TypeOK, AttemptsLeft, NameOwn, Goto, FlushPcs
<1>1. CASE UNCHANGED vars
  BY <1>1 DEF vars, run, report
<1>2. ASSUME NEW path \in Names \cup {NoName}, getFaultPaths(path) PROVE TypeInv'
  <2>1. \A n \in DOMAIN files : SitesIn(files[n]) \subseteq Sites
    BY SitesInType DEF Contents, Lacking
  <2>2. \A q \in Runs : Delivered(q) \subseteq Sites
    BY DEF Delivered
  <2>3. due' \subseteq Sites
    BY <1>2, <2>1, <2>2, DueSources
  <2>4. unread' \subseteq Names \cup {NoName, StrayName}
    BY <1>2 DEF getFaultPaths
  <2> QED
    BY <1>2, <2>3, <2>4 DEF getFaultPaths, run
<1>3. ASSUME NEW n \in unread, readFaults(n) PROVE TypeInv'
  <2>1. n \in DOMAIN files => \A e \in files[n].elements : Taken(e) \subseteq Sites
    BY TakenComplete DEF Lacking
  <2>2. fault_map' \subseteq Sites \cup {Bogus} /\ unread' \subseteq Names \cup {NoName, StrayName}
    BY <1>3, <2>1 DEF readFaults
  <2> QED
    BY <1>3, <2>2 DEF readFaults, run
<1>4. ASSUME NEW p \in Runs, Start(p) PROVE TypeInv'
  BY <1>4 DEF Start, run, report
<1>5. ASSUME NEW p \in Runs, Kill(p) PROVE TypeInv'
  BY <1>5 DEF Kill, report
<1>6. ASSUME NEW p \in Runs, Exit(p) PROVE TypeInv'
  BY <1>6 DEF Exit, report
<1>7. ASSUME NEW p \in Runs, NEW s \in Sites, beginInsert(p, s) PROVE TypeInv'
  BY <1>7 DEF beginInsert, report
<1>8. ASSUME NEW p \in Runs, endInsert(p) PROVE TypeInv'
  BY <1>8 DEF endInsert, report
<1>9. ASSUME NEW p \in Runs, faultingAllocs(p) PROVE TypeInv'
  BY <1>9 DEF faultingAllocs, run, report
<1>10. ASSUME NEW p \in Runs, copyFaults(p) PROVE TypeInv'
  BY <1>10 DEF copyFaults, report
<1>11. ASSUME NEW p \in Runs, is_directory(p) PROVE TypeInv'
  BY <1>11 DEF is_directory, run, report
<1>12. ASSUME NEW p \in Runs, makeDirectory(p) PROVE TypeInv'
  BY <1>12 DEF makeDirectory, run, report
<1>13. ASSUME NEW p \in Runs, NEW r \in Randoms, makeUniqueFilename(p, r) PROVE TypeInv'
  <2>1. <<pid[p], r>> \in Names /\ <<pid[p], r>>[1] = pid[p]
    BY DEF Names
  <2>2. CASE <<pid[p], r>> \notin DOMAIN files
    <3>1. /\ name' = [name EXCEPT ![p] = <<pid[p], r>>] /\ pc' = [pc EXCEPT ![p] = "open"]
          /\ pc[p] = "name" /\ UNCHANGED <<attempt, pid>>
      BY <1>13, <2>2 DEF makeUniqueFilename, run
    <3>2. name' \in [Runs -> Names \cup {NoName}] /\ AttemptsLeft' /\ NameOwn'
      BY <2>1, <3>1
    <3> QED
      BY <1>13, <3>1, <3>2 DEF makeUniqueFilename, run, report
  <2>3. CASE <<pid[p], r>> \in DOMAIN files
    <3>1. /\ attempt' = [attempt EXCEPT ![p] = attempt[p] + 1]
          /\ pc' = [pc EXCEPT ![p] = IF attempt[p] + 1 = ATTEMPTS THEN "lost" ELSE "name"]
          /\ pc[p] = "name" /\ UNCHANGED <<name, pid>>
      BY <1>13, <2>3 DEF makeUniqueFilename, run
    <3>2. attempt' \in [Runs -> 0 .. ATTEMPTS] /\ AttemptsLeft' /\ NameOwn'
      BY <3>1
    <3> QED
      BY <1>13, <3>1, <3>2 DEF makeUniqueFilename, run, report
  <2> QED
    BY <2>2, <2>3
<1>14. ASSUME NEW p \in Runs, makeUniqueStream(p) PROVE TypeInv'
  <2>1. name[p] \in Names
    BY <1>14 DEF NameOwn, makeUniqueStream
  <2>2. DOMAIN files' \subseteq Names \cup {StrayName} /\ files' \in [DOMAIN files' -> Contents]
    BY <1>14, <2>1, FileTypes DEF makeUniqueStream, Contents, Lacking
  <2> QED
    BY <1>14, <2>2 DEF makeUniqueStream, run, report, Contents, Lacking
<1>15. ASSUME NEW p \in Runs, writeJSON(p) PROVE TypeInv'
  <2> DEFINE new == IF copy[p] \cap Unescaped # {} THEN Garbled ELSE Array({Element(s) : s \in copy[p]})
  <2>1. new \in Contents
    BY FileTypes
  <2>2. files' = [files EXCEPT ![name[p]] = new] \/ files' = files
    BY <1>15 DEF writeJSON
  <2> HIDE DEF new
  <2>3. DOMAIN files' = DOMAIN files /\ files' \in [DOMAIN files' -> Contents]
    BY <2>1, <2>2 DEF Contents, Lacking
  <2>4. owed' \in [Runs -> SUBSET Sites]
    BY <1>15 DEF writeJSON
  <2> QED
    BY <1>15, <2>3, <2>4 DEF writeJSON, report, Contents, Lacking
<1> QED
  BY <1>1, <1>2, <1>3, <1>4, <1>5, <1>6, <1>7, <1>8, <1>9, <1>10, <1>11, <1>12, <1>13, <1>14, <1>15
     DEF Next, Pass, Process, Flush

-----------------------------------------------------------------------------
(* Files.                                                                  *)

\* Live processes differ in their process id.
LivePids == \A p, q \in Live : pid[p] = pid[q] => p = q

\* A file parses, or is Garbled.
FilesFit == \A n \in DOMAIN files : files[n] = Garbled \/ files[n].parses

\* Between the stat of makeUniqueFilename and the open nobody takes the name,
\* between the open and the flush nobody else writes to the file, and after that
\* nobody does.
FileOwn ==
  \A p \in Runs :
    /\ pc[p] = "open" => name[p] \notin DOMAIN files
    /\ pc[p] = "write" => name[p] \in DOMAIN files /\ files[name[p]] = Garbled
    /\ pc[p] = "done" => name[p] = NoName \/ name[p] \in DOMAIN files
    /\ pc[p] = "done" => \A q \in Runs : pc[q] = "write" => name[q] # name[p]

FileInv == LivePids /\ FilesFit /\ FileOwn

\* What a step of run p leaves alone in the others.
Others(p) ==
  \A q \in Runs \ {p} :
    /\ pc'[q] = pc[q] /\ pid'[q] = pid[q] /\ name'[q] = name[q] /\ copy'[q] = copy[q]
    /\ owed'[q] = owed[q] /\ fault_set'[q] = fault_set[q] /\ inserting'[q] = inserting[q]

\* Two runs that write have different names: names hold the process id.
LEMMA WritersDiffer ==
  ASSUME TypeInv, LivePids, NEW p \in Runs, NEW q \in Runs, p # q,
         pc[p] \in {"open", "write"}, pc[q] \in {"open", "write"}
  PROVE  name[p] # name[q]
BY DEF TypeInv, NameOwn, LivePids, Live

\* Files change in two ways: a new one is opened, or the garbled one that a run has
\* opened is flushed.  When the disk does not take it, it stays garbled.
FilesChange(p) ==
  \/ /\ pc[p] = "open" /\ pc'[p] = "write" /\ name[p] \in Names
     /\ files' = [n \in DOMAIN files \cup {name[p]} |-> IF n = name[p] THEN Garbled ELSE files[n]]
     /\ UNCHANGED <<run, copy, name, report>>
  \/ /\ pc[p] = "write" /\ pc'[p] = "done" /\ name[p] \in Names
     /\ files' = [files EXCEPT ![name[p]] =
          IF copy[p] \cap Unescaped # {} THEN Garbled ELSE Array({Element(s) : s \in copy[p]})]
     /\ UNCHANGED <<run, copy, name, report>>
  \/ /\ pc[p] = "write" /\ pc'[p] = "done" /\ owed'[p] = {}
     /\ UNCHANGED <<fault_set, copy, name, files, report>>
  \/ /\ files' = files
     /\ pc'[p] = "done" => copy'[p] = {} /\ name'[p] = NoName
     /\ pc'[p] = "open" => name'[p] \notin DOMAIN files \/ (pc[p] = "open" /\ name'[p] = name[p])
     /\ pc'[p] = "write" => pc[p] = "write" /\ name'[p] = name[p]

\* Every step is one of the Post pass, which changes only what it has read, or one of
\* a run, which changes nothing that belongs to another.
LEMMA StepOf ==
  ASSUME TypeInv, [Next]_vars
  PROVE  \/ UNCHANGED <<run, pc, copy, attempt, name, dir, files>>
         \/ \E p \in Runs : pc[p] # "done" /\ Others(p) /\ FilesChange(p) /\ UNCHANGED report
<1> DEFINE Goal == \/ UNCHANGED <<run, pc, copy, attempt, name, dir, files>>
                   \/ \E p \in Runs : pc[p] # "done" /\ Others(p) /\ FilesChange(p) /\ UNCHANGED report
<1> USE DEF TypeInv, TypeOK, Others, FilesChange, Goto, Live
<1>1. CASE UNCHANGED vars
  BY <1>1 DEF vars, run, report
<1>2. ASSUME NEW path \in Names \cup {NoName}, getFaultPaths(path) PROVE Goal
  BY <1>2 DEF getFaultPaths, run
<1>3. ASSUME NEW n \in unread, readFaults(n) PROVE Goal
  BY <1>3 DEF readFaults, run
<1>4. ASSUME NEW p \in Runs, Start(p) PROVE Goal
  BY <1>4 DEF Start, run, report
<1>5. ASSUME NEW p \in Runs, Kill(p) PROVE Goal
  BY <1>5 DEF Kill, report
<1>6. ASSUME NEW p \in Runs, Exit(p) PROVE Goal
  BY <1>6 DEF Exit, report
<1>7. ASSUME NEW p \in Runs, NEW s \in Sites, beginInsert(p, s) PROVE Goal
  BY <1>7 DEF beginInsert, report
<1>8. ASSUME NEW p \in Runs, endInsert(p) PROVE Goal
  BY <1>8 DEF endInsert, report
<1>9. ASSUME NEW p \in Runs, faultingAllocs(p) PROVE Goal
  BY <1>9 DEF faultingAllocs, run, report
<1>10. ASSUME NEW p \in Runs, copyFaults(p) PROVE Goal
  BY <1>10 DEF copyFaults, report, NameOwn
<1>11. ASSUME NEW p \in Runs, is_directory(p) PROVE Goal
  BY <1>11 DEF is_directory, run, report
<1>12. ASSUME NEW p \in Runs, makeDirectory(p) PROVE Goal
  BY <1>12 DEF makeDirectory, run, report
<1>13. ASSUME NEW p \in Runs, NEW r \in Randoms, makeUniqueFilename(p, r) PROVE Goal
  BY <1>13 DEF makeUniqueFilename, run, report
<1>14. ASSUME NEW p \in Runs, makeUniqueStream(p) PROVE Goal
  BY <1>14 DEF makeUniqueStream, run, report, NameOwn
<1>15. ASSUME NEW p \in Runs, writeJSON(p) PROVE Goal
  BY <1>15 DEF writeJSON, run, report, NameOwn
<1> QED
  BY <1>1, <1>2, <1>3, <1>4, <1>5, <1>6, <1>7, <1>8, <1>9, <1>10, <1>11, <1>12, <1>13, <1>14, <1>15
     DEF Next, Pass, Process, Flush

\* At first nobody writes, and a file of other origin parses.
LEMMA InitFile == Init => FileInv
BY FileTypes, SitesAssumption DEF Init, FileInv, LivePids, Live, FilesFit, FileOwn, Lacking

\* Only Start makes a process live, and only when no live one has its process id.
LEMMA PidStep == TypeInv /\ LivePids /\ [Next]_vars => LivePids'
<1> SUFFICES ASSUME TypeInv, LivePids, [Next]_vars PROVE LivePids'
  OBVIOUS
<1> USE DEF TypeInv, TypeOK, LivePids, Live, Goto
<1>1. CASE UNCHANGED vars
  BY <1>1 DEF vars, run, report
<1>2. ASSUME NEW path \in Names \cup {NoName}, getFaultPaths(path) PROVE LivePids'
  BY <1>2 DEF getFaultPaths, run
<1>3. ASSUME NEW n \in unread, readFaults(n) PROVE LivePids'
  BY <1>3 DEF readFaults, run
<1>4. ASSUME NEW p \in Runs, Start(p) PROVE LivePids'
  BY <1>4 DEF Start, run, report
<1>5. ASSUME NEW p \in Runs, Kill(p) PROVE LivePids'
  BY <1>5 DEF Kill, report
<1>6. ASSUME NEW p \in Runs, Exit(p) PROVE LivePids'
  BY <1>6 DEF Exit, report
<1>7. ASSUME NEW p \in Runs, NEW s \in Sites, beginInsert(p, s) PROVE LivePids'
  BY <1>7 DEF beginInsert, report
<1>8. ASSUME NEW p \in Runs, endInsert(p) PROVE LivePids'
  BY <1>8 DEF endInsert, report
<1>9. ASSUME NEW p \in Runs, faultingAllocs(p) PROVE LivePids'
  BY <1>9 DEF faultingAllocs, run, report
<1>10. ASSUME NEW p \in Runs, copyFaults(p) PROVE LivePids'
  BY <1>10 DEF copyFaults, report
<1>11. ASSUME NEW p \in Runs, is_directory(p) PROVE LivePids'
  BY <1>11 DEF is_directory, run, report
<1>12. ASSUME NEW p \in Runs, makeDirectory(p) PROVE LivePids'
  BY <1>12 DEF makeDirectory, run, report
<1>13. ASSUME NEW p \in Runs, NEW r \in Randoms, makeUniqueFilename(p, r) PROVE LivePids'
  BY <1>13 DEF makeUniqueFilename, run, report
<1>14. ASSUME NEW p \in Runs, makeUniqueStream(p) PROVE LivePids'
  BY <1>14 DEF makeUniqueStream, run, report
<1>15. ASSUME NEW p \in Runs, writeJSON(p) PROVE LivePids'
  BY <1>15 DEF writeJSON, run, report
<1> QED
  BY <1>1, <1>2, <1>3, <1>4, <1>5, <1>6, <1>7, <1>8, <1>9, <1>10, <1>11, <1>12, <1>13, <1>14, <1>15
     DEF Next, Pass, Process, Flush

\* A file that parses is not touched: the one that is opened is new, and the one that
\* is flushed was garbled.
LEMMA FilesKept ==
  ASSUME TypeInv, FileInv, [Next]_vars
  PROVE  \A n \in DOMAIN files : files[n].parses => n \in DOMAIN files' /\ files'[n] = files[n]
<1>1. CASE files' = files
  BY <1>1
<1>2. ASSUME NEW p \in Runs, FilesChange(p), files' # files
      PROVE  \A n \in DOMAIN files : files[n].parses => n \in DOMAIN files' /\ files'[n] = files[n]
  BY <1>2, FileTypes DEF FilesChange, FileInv, FileOwn
<1> QED
  BY <1>1, <1>2, StepOf

\* A step of run p keeps what FileOwn says of p and of every other run.
LEMMA FileStep == TypeInv /\ FileInv /\ [Next]_vars => FileInv'
<1> SUFFICES ASSUME TypeInv, FileInv, [Next]_vars PROVE FileInv'
  OBVIOUS
<1>1. LivePids'
  BY PidStep DEF FileInv
<1>2. CASE UNCHANGED <<run, pc, copy, attempt, name, dir, files>>
  BY <1>1, <1>2 DEF FileInv, FilesFit, FileOwn
<1>3. ASSUME NEW p \in Runs, Others(p), FilesChange(p) PROVE FileInv'
  <2>1. CASE /\ pc[p] = "open" /\ pc'[p] = "write"
             /\ files' = [n \in DOMAIN files \cup {name[p]} |-> IF n = name[p] THEN Garbled ELSE files[n]]
             /\ name' = name
    <3>1. FilesFit'
      BY <2>1 DEF FileInv, FilesFit
    <3>2. \A q \in Runs \ {p} : pc[q] \in {"open", "write"} => name[q] # name[p]
      BY <2>1, WritersDiffer DEF FileInv
    <3>3. name[p] \in Names /\ name[p] \notin DOMAIN files
      BY <2>1 DEF FileInv, FileOwn, TypeInv, NameOwn
    <3>4. \A q \in Runs \ {p} : pc[q] = "done" => name[q] # name[p]
      BY <3>3, NamesDiffer DEF FileInv, FileOwn
    <3>5. DOMAIN files' = DOMAIN files \cup {name[p]} /\ files'[name[p]] = Garbled
      BY <2>1
    <3>6. \A n \in DOMAIN files : files'[n] = files[n]
      BY <2>1, <3>3
    <3>7. FileOwn'
      BY <2>1, <3>2, <3>4, <3>5, <3>6, <1>3 DEF FileInv, FileOwn, Others
    <3> QED
      BY <1>1, <3>1, <3>7 DEF FileInv
  <2>2. ASSUME NEW c, c = Garbled \/ c.parses, pc[p] = "write", pc'[p] = "done",
               files' = [files EXCEPT ![name[p]] = c], name' = name
        PROVE  FileInv'
    <3>1. FilesFit'
      BY <2>2 DEF FileInv, FilesFit
    <3>2. \A q \in Runs \ {p} : pc[q] \in {"open", "write"} => name[q] # name[p]
      BY <2>2, WritersDiffer DEF FileInv
    <3>3. FileOwn'
      BY <2>2, <3>2, <1>3 DEF FileInv, FileOwn, Others
    <3> QED
      BY <1>1, <3>1, <3>3 DEF FileInv
  <2>3. CASE /\ files' = files
             /\ pc'[p] = "done" => name'[p] = NoName
             /\ pc'[p] = "open" => name'[p] \notin DOMAIN files \/ (pc[p] = "open" /\ name'[p] = name[p])
             /\ pc'[p] = "write" => pc[p] = "write" /\ name'[p] = name[p]
    <3>1. \A q \in Runs : pc'[q] = "write" => pc[q] = "write" /\ name'[q] = name[q] /\ name[q] \in Names
      BY <1>3, <2>3 DEF Others, TypeInv, NameOwn
    <3>2. \A q \in Runs : pc'[q] = "done" => name'[q] = NoName \/ (pc[q] = "done" /\ name'[q] = name[q])
      BY <1>3, <2>3 DEF Others
    <3>3. FileOwn'
      BY <1>3, <2>3, <3>1, <3>2, NamesDiffer DEF FileInv, FileOwn, Others
    <3> QED
      BY <1>1, <2>3, <3>3 DEF FileInv, FilesFit
  <2>4. Array({Element(s) : s \in copy[p]}).parses
    BY FileTypes DEF TypeInv, TypeOK
  <2>5. CASE pc[p] = "write" /\ pc'[p] = "done" /\ UNCHANGED <<name, files>>
    <3>1. \A q \in Runs \ {p} : pc[q] \in {"open", "write"} => name[q] # name[p]
      BY <2>5, WritersDiffer DEF FileInv
    <3> QED
      BY <1>1, <1>3, <2>5, <3>1 DEF FileInv, FilesFit, FileOwn, Others
  <2> QED
    BY <1>3, <2>1, <2>2, <2>3, <2>4, <2>5 DEF FilesChange
<1> QED
  BY <1>2, <1>3, StepOf

-----------------------------------------------------------------------------
(* What a run owes, and where it is.                                       *)

\* What was recorded when exit() was called is in fault_set, then in the copy, then
\* in the file; the copy holds nothing that is not in fault_set.
OwedInv ==
  \A p \in Runs :
    /\ pc[p] \in {"new", "run"} => owed[p] = {}
    /\ pc[p] \in {"faultingAllocs", "copy"} => owed[p] \subseteq fault_set[p]
    /\ pc[p] \in {"directory", "mkdir", "name", "open", "write"} =>
         /\ copy[p] \subseteq fault_set[p]
         /\ owed[p] # {} => owed[p] \subseteq copy[p] /\ copy[p] \cap Unescaped = {}
    /\ pc[p] = "done" => owed[p] \subseteq copy[p]

\* Each step of a run hands on what is owed.
LEMMA OwedStep == TypeInv /\ OwedInv /\ [Next]_vars => OwedInv'
<1> SUFFICES ASSUME TypeInv, OwedInv, [Next]_vars PROVE OwedInv'
  OBVIOUS
<1> USE DEF TypeInv, TypeOK, OwedInv, Live, Goto
<1>1. CASE UNCHANGED vars
  BY <1>1 DEF vars, run, report
<1>2. ASSUME NEW path \in Names \cup {NoName}, getFaultPaths(path) PROVE OwedInv'
  BY <1>2 DEF getFaultPaths, run
<1>3. ASSUME NEW n \in unread, readFaults(n) PROVE OwedInv'
  BY <1>3 DEF readFaults, run
<1>4. ASSUME NEW p \in Runs, Start(p) PROVE OwedInv'
  BY <1>4 DEF Start, run, report
<1>5. ASSUME NEW p \in Runs, Kill(p) PROVE OwedInv'
  BY <1>5 DEF Kill, report
<1>6. ASSUME NEW p \in Runs, Exit(p) PROVE OwedInv'
  BY <1>6 DEF Exit, report
<1>7. ASSUME NEW p \in Runs, NEW s \in Sites, beginInsert(p, s) PROVE OwedInv'
  BY <1>7 DEF beginInsert, report
<1>8. ASSUME NEW p \in Runs, endInsert(p) PROVE OwedInv'
  BY <1>8 DEF endInsert, report
<1>9. ASSUME NEW p \in Runs, faultingAllocs(p) PROVE OwedInv'
  BY <1>9 DEF faultingAllocs, run, report
<1>10. ASSUME NEW p \in Runs, copyFaults(p) PROVE OwedInv'
  BY <1>10 DEF copyFaults, report
<1>11. ASSUME NEW p \in Runs, is_directory(p) PROVE OwedInv'
  BY <1>11 DEF is_directory, run, report
<1>12. ASSUME NEW p \in Runs, makeDirectory(p) PROVE OwedInv'
  BY <1>12 DEF makeDirectory, run, report
<1>13. ASSUME NEW p \in Runs, NEW r \in Randoms, makeUniqueFilename(p, r) PROVE OwedInv'
  BY <1>13 DEF makeUniqueFilename, run, report
<1>14. ASSUME NEW p \in Runs, makeUniqueStream(p) PROVE OwedInv'
  BY <1>14 DEF makeUniqueStream, run, report
<1>15. ASSUME NEW p \in Runs, writeJSON(p) PROVE OwedInv'
  BY <1>15 DEF writeJSON, run, report
<1> QED
  BY <1>1, <1>2, <1>3, <1>4, <1>5, <1>6, <1>7, <1>8, <1>9, <1>10, <1>11, <1>12, <1>13, <1>14, <1>15
     DEF Next, Pass, Process, Flush

\* The file of a run that has ended stays as it is: all of the copy or nothing.
LEMMA EndedFile ==
  ASSUME TypeInv, FileInv, [Next]_vars, NEW p \in Runs, pc[p] = "done",
         name'[p] = name[p], name[p] \in DOMAIN files'
  PROVE  name[p] \in DOMAIN files /\ files'[name[p]] = files[name[p]]
<1>1. CASE files' = files
  BY <1>1
<1>2. ASSUME NEW q \in Runs, FilesChange(q), files' # files
      PROVE  name[p] \in DOMAIN files /\ files'[name[p]] = files[name[p]]
  <2>1. name[q] \in Names
    BY <1>2 DEF FilesChange
  <2>2. CASE pc[q] = "open"
    <3>1. name[q] \notin DOMAIN files /\ name[p] # name[q]
      BY <2>1, <2>2, NamesDiffer DEF FileInv, FileOwn
    <3> QED
      BY <1>2, <2>2, <3>1 DEF FilesChange
  <2>3. CASE pc[q] = "write"
    BY <1>2, <2>3 DEF FilesChange, FileInv, FileOwn
  <2> QED
    BY <1>2, <2>2, <2>3 DEF FilesChange
<1> QED
  BY <1>1, <1>2, StepOf

\* What a run has delivered stays in its file, and a run that ends has written all of
\* its copy or nothing.
LEMMA DeliveredStep ==
  TypeInv /\ FileInv /\ OwedInv /\ FlushComplete /\ [Next]_vars => FlushComplete'
<1> DEFINE Complete(p) ==
      /\ owed[p] # {} => name[p] \in DOMAIN files /\ files[name[p]].parses
      /\ name[p] \in DOMAIN files /\ files[name[p]].parses =>
           SitesIn(files[name[p]]) = copy[p] /\ owed[p] \subseteq copy[p]
<1> SUFFICES ASSUME TypeInv, FileInv, OwedInv, FlushComplete, [Next]_vars,
                    NEW p \in Runs, pc'[p] = "done"
             PROVE  Complete(p)'
  BY DEF FlushComplete
<1>1. owed'[p] \subseteq copy'[p]
  BY OwedStep DEF OwedInv
<1>2. CASE pc[p] = "done" /\ owed'[p] = owed[p] /\ name'[p] = name[p] /\ copy'[p] = copy[p]
  <2>1. Complete(p)
    BY <1>2 DEF FlushComplete
  <2>2. name[p] \in DOMAIN files' => name[p] \in DOMAIN files /\ files'[name[p]] = files[name[p]]
    BY <1>2, EndedFile
  <2>3. name[p] \in DOMAIN files /\ files[name[p]].parses => name[p] \in DOMAIN files'
    BY FilesKept
  <2> QED
    BY <1>2, <2>1, <2>2, <2>3
<1>3. ASSUME FilesChange(p), pc[p] # "done" PROVE Complete(p)'
  <2>1. CASE /\ pc[p] = "write" /\ UNCHANGED <<name, copy, owed>>
             /\ files' = [files EXCEPT ![name[p]] =
                  IF copy[p] \cap Unescaped # {} THEN Garbled ELSE Array({Element(s) : s \in copy[p]})]
    <3>1. name[p] \in DOMAIN files
      BY <2>1 DEF FileInv, FileOwn
    <3>2. /\ ~Garbled.parses /\ Array({Element(s) : s \in copy[p]}).parses
          /\ SitesIn(Array({Element(s) : s \in copy[p]})) = copy[p]
      BY FileTypes, WrittenSites DEF TypeInv, TypeOK
    <3>3. owed[p] # {} => copy[p] \cap Unescaped = {}
      BY <2>1 DEF OwedInv
    <3> QED
      BY <1>1, <2>1, <3>1, <3>2, <3>3
  <2>2. CASE pc[p] = "write" /\ owed'[p] = {} /\ UNCHANGED <<copy, name, files>>
    BY <2>2, FileTypes DEF FileInv, FileOwn
  <2>3. CASE files' = files /\ copy'[p] = {} /\ name'[p] = NoName
    BY <1>1, <2>3, NamesDiffer DEF TypeInv, TypeOK
  <2> QED
    BY <1>3, <2>1, <2>2, <2>3 DEF FilesChange, run
<1> QED
  BY <1>2, <1>3, StepOf DEF run, Others

-----------------------------------------------------------------------------
(* What the Post pass reads.                                               *)

\* Site s was recorded by a run that has ended, or stands in the file of other origin.
Known(s) ==
  \/ \E p \in Runs : pc[p] = "done" /\ s \in fault_set[p]
  \/ StrayName \in DOMAIN files /\ s \in SitesIn(files[StrayName])

\* Files and fault map hold known sites.
SoundInv ==
  /\ \A n \in DOMAIN files : \A s \in SitesIn(files[n]) : Known(s)
  /\ \A s \in fault_map : Known(s)

\* The pass has yet to read what it has yet to find.
DueInv ==
  unread # NotReading =>
    /\ NoName \notin unread
    /\ \A s \in due : s \in fault_map \/ \E n \in unread \cap DOMAIN files : s \in SitesIn(files[n])

\* What is known stays known: a run that has ended has no faults any more, and no run
\* writes to the file of other origin.
LEMMA KnownKept ==
  ASSUME TypeInv, [Next]_vars, NEW s, Known(s)
  PROVE  Known(s)'
<1>1. CASE UNCHANGED <<run, pc, copy, attempt, name, dir, files>>
  BY <1>1 DEF Known, run
<1>2. ASSUME NEW p \in Runs, pc[p] # "done", Others(p), FilesChange(p) PROVE Known(s)'
  <2>1. StrayName \in DOMAIN files => StrayName \in DOMAIN files' /\ files'[StrayName] = files[StrayName]
    BY <1>2, NamesDiffer DEF FilesChange
  <2> QED
    BY <1>2, <2>1 DEF Known, Others
<1> QED
  BY <1>1, <1>2, StepOf

\* What a pass takes from a file are sites that the file names.
LEMMA ReadSites ==
  ASSUME TypeInv, NEW n \in unread, readFaults(n)
  PROVE  /\ fault_map \subseteq fault_map'
         /\ n \in DOMAIN files => fault_map' = fault_map \cup SitesIn(files[n])
         /\ n \notin DOMAIN files => fault_map' = fault_map
<1>1. CASE n \notin DOMAIN files
  BY <1>1 DEF readFaults
<1>2. CASE n \in DOMAIN files
  <2>1. fault_map' = fault_map \cup UNION {Taken(e) : e \in files[n].elements}
    BY <1>2 DEF readFaults
  <2>2. \A e \in files[n].elements : Taken(e) = IF e.lacks = {} THEN {e.site} ELSE {}
    BY <1>2, TakenComplete DEF TypeInv, TypeOK, Lacking
  <2>3. \A x : x \in UNION {Taken(e) : e \in files[n].elements} <=> x \in SitesIn(files[n])
    BY <2>2 DEF SitesIn
  <2> QED
    BY <1>2, <2>1, <2>3
<1> QED
  BY <1>1, <1>2

\* A run writes what it has recorded, and the pass reads what is written.
LEMMA SoundStep == TypeInv /\ FileInv /\ OwedInv /\ SoundInv /\ [Next]_vars => SoundInv'
<1> SUFFICES ASSUME TypeInv, FileInv, OwedInv, SoundInv, [Next]_vars PROVE SoundInv'
  OBVIOUS
<1>1. \A s : Known(s) => Known(s)'
  BY KnownKept
<1>2. ASSUME NEW p \in Runs, FilesChange(p), NEW n \in DOMAIN files', NEW s \in SitesIn(files'[n])
      PROVE  Known(s)'
  <2>1. CASE n \in DOMAIN files /\ files'[n] = files[n]
    BY <1>1, <1>2, <2>1 DEF SoundInv
  <2>2. CASE files'[n] = Garbled
    BY <1>2, <2>2, FileTypes
  <2>3. CASE /\ pc[p] = "write" /\ pc'[p] = "done" /\ fault_set' = fault_set
             /\ files'[n] = Array({Element(x) : x \in copy[p]})
    BY <1>2, <2>3, WrittenSites DEF OwedInv, Known
  <2> QED
    BY <1>2, <2>1, <2>2, <2>3 DEF FilesChange, run
<1>3. ASSUME NEW n \in unread, readFaults(n) PROVE \A s \in fault_map' : Known(s)
  BY <1>3, ReadSites DEF SoundInv
<1>4. ASSUME NEW path, getFaultPaths(path) PROVE UNCHANGED fault_map
  BY <1>4 DEF getFaultPaths
<1>5. \A s \in fault_map' : Known(s)
  <2>1. CASE UNCHANGED fault_map
    BY <2>1 DEF SoundInv
  <2>2. CASE ~UNCHANGED fault_map
    <3>1. Pass
      BY <2>2, StepOf DEF Next, vars, report, Process, Flush, Start, Kill, Exit, beginInsert, endInsert,
         faultingAllocs, copyFaults, is_directory, makeDirectory, makeUniqueFilename, makeUniqueStream, writeJSON
    <3> QED
      BY <3>1, <2>2, <1>3, <1>4 DEF Pass
  <2> QED
    BY <2>1, <2>2
<1>6. \A n \in DOMAIN files' : \A s \in SitesIn(files'[n]) : Known(s)'
  <2>1. CASE UNCHANGED files
    BY <1>1, <2>1 DEF SoundInv
  <2> QED
    BY <1>2, <2>1, StepOf
<1> QED
  BY <1>1, <1>5, <1>6 DEF SoundInv

\* A file that is due stays as it is until it is read.
LEMMA DueStep == TypeInv /\ FileInv /\ FlushComplete /\ DueInv /\ [Next]_vars => DueInv'
<1> SUFFICES ASSUME TypeInv, FileInv, FlushComplete, DueInv, [Next]_vars PROVE DueInv'
  OBVIOUS
<1>1. ASSUME UNCHANGED report PROVE DueInv'
  <2>1. \A n \in DOMAIN files : \A s \in SitesIn(files[n]) : n \in DOMAIN files' /\ s \in SitesIn(files'[n])
    BY FilesKept, FileTypes DEF FileInv, FilesFit
  <2> QED
    BY <1>1, <2>1 DEF DueInv, report
<1>2. ASSUME NEW path \in Names \cup {NoName}, getFaultPaths(path) PROVE DueInv'
  <2>1. files' = files
    BY <1>2 DEF getFaultPaths
  <2>2. NoName \notin unread'
    BY <1>2, NamesDiffer DEF getFaultPaths, TypeInv, TypeOK
  <2>3. \A q \in Runs : \A s \in Delivered(q) : name[q] \in DOMAIN files /\ s \in SitesIn(files[name[q]])
    BY DEF FlushComplete, Delivered
  <2>4. /\ path = NoName /\ dir => unread' = DOMAIN files
        /\ path # NoName => path \in unread'
    BY <1>2 DEF getFaultPaths
  <2>5. \A s \in due' : \E n \in unread' \cap DOMAIN files : s \in SitesIn(files[n])
    BY <1>2, <2>3, <2>4, DueSources
  <2> QED
    BY <2>1, <2>2, <2>5 DEF DueInv
<1>3. ASSUME NEW n \in unread, readFaults(n) PROVE DueInv'
  <2>1. files' = files /\ due' = due /\ unread # NotReading /\ unread' = unread \ {n}
    BY <1>3 DEF readFaults
  <2> QED
    BY <1>3, <2>1, ReadSites DEF DueInv
<1>4. CASE UNCHANGED vars
  BY <1>1, <1>4 DEF vars
<1>5. ASSUME NEW p \in Runs, Process(p) \/ Flush(p) PROVE UNCHANGED report
  BY <1>5 DEF Process, Flush, Start, Kill, Exit, beginInsert, endInsert,
     faultingAllocs, copyFaults, is_directory, makeDirectory, makeUniqueFilename, makeUniqueStream, writeJSON
<1> QED
  BY <1>1, <1>2, <1>3, <1>4, <1>5 DEF Next, Pass

-----------------------------------------------------------------------------
(* The theorems.                                                           *)

Inv == TypeInv /\ FileInv /\ OwedInv /\ FlushComplete /\ SoundInv /\ DueInv

\* The conjunction is inductive.
LEMMA Invariant == Spec => []Inv
<1>1. Init => Inv
  <2> SUFFICES ASSUME Init PROVE Inv
    OBVIOUS
  <2>1. TypeInv /\ FileInv
    BY InitType, InitFile
  <2>2. OwedInv /\ FlushComplete
    BY DEF Init, OwedInv, FlushComplete, Delivered
  <2>3. SoundInv
    BY DEF Init, SoundInv, Known
  <2>4. DueInv
    BY DEF Init, DueInv
  <2> QED
    BY <2>1, <2>2, <2>3, <2>4 DEF Inv
<1>2. Inv /\ [Next]_vars => Inv'
  BY TypeStep, FileStep, OwedStep, DeliveredStep, SoundStep, DueStep DEF Inv
<1> QED
  BY <1>1, <1>2, PTL DEF Spec

\* Every variable of the runs, the directory and the pass has its type.
THEOREM TypeCorrect == Spec => []TypeOK
<1>1. Inv => TypeOK
  BY DEF Inv, TypeInv
<1> QED
  BY Invariant, <1>1, PTL

\* However many runs share the directory, and though process ids are reused, no run
\* opens or writes a file that holds a profile already.
THEOREM NeverOverwrittenCorrect == Spec => NeverOverwritten
<1>1. Inv /\ [Next]_vars =>
        [\A n \in DOMAIN files : files[n].parses => n \in DOMAIN files' /\ files'[n] = files[n]]_vars
  BY FilesKept DEF Inv
<1> QED
  BY Invariant, <1>1, PTL DEF Spec, NeverOverwritten

\* A run that has ended without giving up has left all its copy in its file or a file
\* that does not parse, and all it owes in the former, whatever the other runs do at
\* the same time or later.  It owes nothing when the disk did not take the file, when
\* the copy raced with an insertion or when a name in it wanted escaping.
THEOREM FlushCompleteCorrect == Spec => []FlushComplete
<1>1. Inv => FlushComplete
  BY DEF Inv
<1> QED
  BY Invariant, <1>1, PTL

\* The Post pass takes up only what a run recorded or a complete element of a file of
\* other origin names.
THEOREM ReportSoundCorrect == Spec => []ReportSound
<1>1. Inv => ReportSound
  <2> SUFFICES ASSUME Inv, NEW s \in fault_map
               PROVE  \/ s \in UNION {fault_set[p] \cup inserting[p] : p \in Runs}
                      \/ s \in UNION {SitesIn(files[n]) : n \in {StrayName} \cap DOMAIN files}
    BY DEF ReportSound
  <2>1. Known(s)
    BY DEF Inv, SoundInv
  <2> QED
    BY <2>1 DEF Known
<1> QED
  BY Invariant, <1>1, PTL

\* A pass that has read all its files has found all that the runs which had ended
\* before it started owe: what they recorded before exit(), but for a run whose copy
\* raced, whose names do not parse or whose file the disk did not take.
THEOREM ReportCompleteCorrect == Spec => []ReportComplete
<1>1. Inv => ReportComplete
  BY DEF Inv, DueInv, ReportComplete, NotReading
<1> QED
  BY Invariant, <1>1, PTL
=============================================================================
