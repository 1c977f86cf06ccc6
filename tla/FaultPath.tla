------------------------------ MODULE FaultPath -----------------------------
(***************************************************************************)
(* The whole of pku_segv_handler for a protection-key fault: the object at *)
(* the faulting address is attributed and recorded (addFaultAlloc), then   *)
(* the access is let through (disable_mpk, SingleStep).  The two halves    *)
(* meet in one question: does every access that the program's own rights   *)
(* forbid end up in the profile, although the handler opens keys and       *)
(* pages while it works?                                                   *)
(*                                                                         *)
(* Attribution is taken at its word here, as FaultProfile states it: the   *)
(* site of the object is marked before the thread goes on.                 *)
(***************************************************************************)
EXTENDS SingleStep

CONSTANTS
  Objects,   \* tracked objects of the program
  PagesOf,   \* Objects -> the pages each lies on
  SiteOf,    \* Objects -> allocation sites
  Accesses   \* what an instruction may touch: [objs, write]

ASSUME ObjectsAssumption == PagesOf \in [Objects -> SUBSET Pages]
ASSUME AccessesAssumption ==
  \A a \in Accesses :
    a.objs \subseteq Objects /\ [pages |-> UNION {PagesOf[x] : x \in a.objs}, write |-> a.write] \in Instrs

VARIABLES
  access,   \* per thread: the objects the instruction in flight touches
  hit,      \* per thread: the object the fault being handled was reported on
  blind,    \* history, per thread: keys whose rights were lost when it was issued
  marked    \* the sites in fault_set

pathVars == <<vars, access, hit, blind, marked>>

Sites == {SiteOf[x] : x \in Objects}

\* The rights the program gave itself, and the key it gave the page, do not let
\* the instruction in flight touch page g.
NotAllowed(t, g) ==
  LET r == pkey_get(app[t], KeyOf[g])
  IN  AccessDisabled(r) \/ (instr[t].write /\ WriteDisabled(r))

\* The objects it touches on such pages.
Forbidden(t) == {x \in access[t] : \E g \in PagesOf[x] : NotAllowed(t, g)}

PathInit ==
  /\ Init
  /\ access = [t \in Tids |-> {}]
  /\ hit = [t \in Tids |-> {}]
  /\ blind = [t \in Tids |-> {}]
  /\ marked = {}

-----------------------------------------------------------------------------
IssueAccess(t, a) ==
  /\ Issue(t, [pages |-> UNION {PagesOf[x] : x \in a.objs}, write |-> a.write])
  /\ access' = [access EXCEPT ![t] = a.objs]
  /\ blind' = [blind EXCEPT ![t] = lost[t]]
  /\ UNCHANGED <<hit, marked>>

\* The CPU reports one address, si_addr.
RaiseSegvOn(t, x, g) ==
  /\ x \in access[t] /\ g \in PagesOf[x]
  /\ RaiseSegv(t, g)
  /\ hit' = [hit EXCEPT ![t] = {x}]
  /\ UNCHANGED <<access, blind, marked>>

\* The access is let through but only the first fault of a site's page is recorded.
pku_segv_handler_once(t) ==
  /\ disable_mpk(t)
  /\ marked' = IF marked = {} THEN {SiteOf[x] : x \in hit[t]} ELSE marked
  /\ hit' = [hit EXCEPT ![t] = {}]
  /\ UNCHANGED <<access, blind>>

pku_segv_handler(t) ==
  /\ disable_mpk(t)
  /\ marked' = marked \cup {SiteOf[x] : x \in hit[t]}
  /\ hit' = [hit EXCEPT ![t] = {}]
  /\ UNCHANGED <<access, blind>>

PathNext ==
  \E t \in Tids :
    \/ \E a \in Accesses : IssueAccess(t, a)
    \/ \E x \in Objects, g \in Pages : RaiseSegvOn(t, x, g)
    \/ pku_segv_handler(t)
    \/ /\ (\E k \in Keys \ {0}, r \in AppRights : SetRights(t, k, r)) \/ Retire(t) \/ pku_trap_handler(t)
       /\ UNCHANGED <<access, hit, blind, marked>>

PathSpec == PathInit /\ [][PathNext]_pathVars

\* As in SingleStep: instructions execute and handlers run to their end.
PathFairSpec ==
  /\ PathSpec
  /\ \A t \in Tids :
       /\ WF_pathVars(\/ Retire(t) /\ UNCHANGED <<access, hit, blind, marked>>
                      \/ \E x \in Objects, g \in Pages : RaiseSegvOn(t, x, g))
       /\ WF_pathVars(pku_segv_handler(t) \/ (pku_trap_handler(t) /\ UNCHANGED <<access, hit, blind, marked>>))

-----------------------------------------------------------------------------
Completes(t) == pc[t] = "instr" /\ pc'[t] \in {"run", "trap"}

\* Thread t touches a page of key k that it was not allowed to, and the object it
\* touched there is in the profile.
ReportedOn(t, k) ==
  \E x \in access[t] : SiteOf[x] \in marked /\ \E g \in PagesOf[x] : KeyOf[g] = k /\ NotAllowed(t, g)

\* "all the access violations in the profiles are reported" (README) begins here: an
\* instruction that was not allowed to touch some page completes only when an object
\* it touched without permission, on a page of the same key, is in fault_set.  It is
\* one for each key: the fault opens the key for all that the instruction touches.
\* What the handlers opened for earlier instructions of the thread hides nothing, but
\* for the keys whose rights were lost when the instruction was issued.
NoMissedViolation ==
  [][\A t \in Tids : Completes(t) =>
       \A x \in Forbidden(t) : \A g \in PagesOf[x] :
         NotAllowed(t, g) => KeyOf[g] \in blind[t] \/ ReportedOn(t, KeyOf[g])]_pathVars

\* What is left of it in a PAGE_MPK build, where a page stays open once it has
\* faulted: some object of every page that was touched without permission is in
\* the profile.
NoMissedPage ==
  [][\A t \in Tids : Completes(t) =>
       \A x \in access[t] : \A g \in PagesOf[x] : NotAllowed(t, g) =>
         \E y \in Objects : g \in PagesOf[y] /\ SiteOf[y] \in marked]_pathVars

\* No fault is blamed on an access that the program's own rights allow: handling
\* earlier faults takes no right away that the program had given itself, and from the
\* main thread not even where its old rights were lost.  (A worker may get rights of
\* the main thread in place of its own.)
FaultsJustified ==
  \A t \in Tids :
    pc[t] = "segv" /\ (t = Main \/ fault[t].key \notin lost[t]) => hit[t] \subseteq Forbidden(t)
=============================================================================
