----------------------------- MODULE FaultProfile ---------------------------
(***************************************************************************)
(* What the runtime promises about a profile, without saying how: no       *)
(* address map, no locks, no chains.                                       *)
(*                                                                         *)
(* The program holds objects, each returned by a site and having come      *)
(* through others if it was reallocated.  A thread that touches one it may *)
(* not touch is stopped.  Before it goes on, the site of that object is    *)
(* marked, and with it at most the sites that reallocation leads back to.  *)
(* Nothing is promised of memory the program is taking or giving back at   *)
(* that moment, nor of origins once a hook has been overtaken (blurred).   *)
(*                                                                         *)
(* AllocSiteHandler implements it: see AllocSiteHandlerRefinement.         *)
(***************************************************************************)

CONSTANTS
  Threads,  \* threads of the program
  Places,   \* what identifies an object while it is held
  Sites,    \* allocation and reallocation sites
  Nothing,  \* no place: the thread is not stopped
  Unsure    \* no place either: it is stopped on memory about which nothing is promised

VARIABLES
  held,     \* place -> [site, through]: the objects the program holds
  touched,  \* per thread: what it was stopped on
  origins,  \* per site: the sites that objects it returned had come through
  marked,   \* the sites in the profile
  blurred   \* the origins can no longer be told

vars == <<held, touched, origins, marked, blurred>>

Init ==
  /\ held = [p \in {} |-> [site |-> Nothing, through |-> {}]]
  /\ touched = [t \in Threads |-> Nothing]
  /\ origins = [s \in Sites |-> {}]
  /\ marked = {}
  /\ blurred = FALSE

\* The sites that reallocation leads back to from s, and s itself: the least set
\* with s in it that is closed under origins.
Closed(S) == \A x \in S : origins[x] \subseteq S
Lineage(s) == {x \in Sites : \A S \in SUBSET Sites : s \in S /\ Closed(S) => x \in S}

Untouched(p) == \A t \in Threads : touched[t] # p

-----------------------------------------------------------------------------
\* The program gets an object.
Hold(p, s, through) ==
  /\ p \notin DOMAIN held
  /\ held' = [x \in DOMAIN held \cup {p} |->
                IF x = p THEN [site |-> s, through |-> through] ELSE held[x]]
  /\ blurred' \in {blurred, TRUE}
  /\ UNCHANGED <<touched, origins, marked>>

\* The program frees an object that no thread is stopped on.
Drop(p) ==
  /\ p \in DOMAIN held /\ Untouched(p)
  /\ held' = [x \in DOMAIN held \ {p} |-> held[x]]
  /\ UNCHANGED <<touched, origins, marked, blurred>>

\* The program hands an object to realloc site s, to hold what s returns later.
Move(p, s) ==
  /\ p \in DOMAIN held /\ Untouched(p)
  /\ held' = [x \in DOMAIN held \ {p} |-> held[x]]
  /\ origins' = [origins EXCEPT ![s] = @ \cup ((held[p].through \cup {held[p].site}) \ {s})]
  /\ UNCHANGED <<touched, marked, blurred>>

Touch(t, p) ==
  /\ touched[t] = Nothing
  /\ p \in DOMAIN held \cup {Unsure}
  /\ touched' = [touched EXCEPT ![t] = p]
  /\ UNCHANGED <<held, origins, marked, blurred>>

\* Sites that may be marked for what t was stopped on.
Blamable(t) ==
  IF blurred \/ touched[t] = Unsure THEN Sites ELSE Lineage(held[touched[t]].site)

Mark(t) ==
  /\ touched[t] # Nothing
  /\ \E S \in SUBSET Blamable(t) : marked' = marked \cup S
  /\ UNCHANGED <<held, touched, origins, blurred>>

\* The access goes through only once its object's site is in the profile.
Resume(t) ==
  /\ touched[t] # Nothing
  /\ touched[t] # Unsure => held[touched[t]].site \in marked
  /\ touched' = [touched EXCEPT ![t] = Nothing]
  /\ UNCHANGED <<held, origins, marked, blurred>>

Next ==
  \/ \E t \in Threads : Mark(t) \/ Resume(t) \/ \E p \in Places \cup {Unsure} : Touch(t, p)
  \/ \E p \in Places : Drop(p) \/ \E s \in Sites : Move(p, s)
  \/ \E p \in Places, s \in Sites, through \in SUBSET Sites : Hold(p, s, through)

Spec == Init /\ [][Next]_vars
=============================================================================
