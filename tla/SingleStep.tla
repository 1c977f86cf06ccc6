----------------------------- MODULE SingleStep -----------------------------
(***************************************************************************)
(* How a faulting instruction is let through: disable_mpk and what it      *)
(* calls, pku_trap_handler (Runtime/provsan_fault_handler.cpp), the map    *)
(* pkey_by_tid_map of AllocSiteHandler, and the kernel and CPU behaviour   *)
(* they rely on (external).                                                *)
(*                                                                         *)
(* In the default build the handler opens the faulting key in the saved    *)
(* PKRU of the thread, remembers its old rights under gettid(), and sets   *)
(* the trap flag; after one instruction SIGTRAP asks for them back, under  *)
(* getpid().  With PAGE_MPK it retags the faulting page with key 0.        *)
(*                                                                         *)
(* PKRU is the register word itself: see Pkru.                             *)
(***************************************************************************)
EXTENDS Pkru, FiniteSets, Functions

CONSTANTS
  Tids,       \* kernel thread ids
  Main,       \* the thread whose tid is the process id
  Keys,       \* protection keys, 0 among them
  Pages,      \* pages of the program
  KeyOf,      \* Pages -> Keys: how the program tagged its pages
  Instrs,     \* instructions the program may execute: [pages, write]
  AppRights,  \* rights the program may give to a key
  PAGE_MPK    \* the build option

ASSUME MainAssumption == Main \in Tids
ASSUME KeysAssumption == 0 \in Keys /\ Keys \subseteq AllKeys /\ KeyOf \in [Pages -> Keys]
ASSUME InstrsAssumption == Instrs \subseteq [pages : SUBSET Pages, write : BOOLEAN]
ASSUME RightsAssumption == AppRights \subseteq Rights
ASSUME BuildAssumption == PAGE_MPK \in BOOLEAN

VARIABLES
  pkru,             \* per thread: the register (saved in the context while in a handler)
  app,              \* history, per thread: the register as the program set it
  pkey_by_tid_map,  \* tid -> PendingPKeyInfo
  TF,               \* per thread: trap flag
  lost,             \* history, per thread: keys whose old rights no handler will bring back
  pageKey,          \* key each page is tagged with
  pc, instr,        \* per thread: phase, and the instruction in flight
  fault             \* per thread: page and key of the fault being handled

vars == <<pkru, app, pkey_by_tid_map, lost, TF, pageKey, pc, instr, fault>>

PendingPKeyInfo(pkey, access_rights) == [pkey |-> pkey, access_rights |-> access_rights]
NoInstr == [pages |-> {}, write |-> FALSE]

\* The key whose old rights wait under tid.
Pending(tid) == IF tid \in DOMAIN pkey_by_tid_map THEN {pkey_by_tid_map[tid].pkey} ELSE {}

\* Keys an instruction touches.
KeysOf(i) == {pageKey[g] : g \in i.pages}

Denied(t) ==
  {g \in instr[t].pages :
     \/ AccessDisabled(pkey_get(pkru[t], pageKey[g]))
     \/ instr[t].write /\ WriteDisabled(pkey_get(pkru[t], pageKey[g]))}

\* 0x55555554, what Linux starts a process with: access to key 0 only.
InitPkru == 1431655764

Init ==
  /\ pkru = [t \in Tids |-> InitPkru]
  /\ app = pkru
  /\ pkey_by_tid_map = [t \in {} |-> PendingPKeyInfo(0, 0)]
  /\ lost = [t \in Tids |-> {}]
  /\ TF = [t \in Tids |-> FALSE]
  /\ pageKey = KeyOf
  /\ pc = [t \in Tids |-> "run"]
  /\ instr = [t \in Tids |-> NoInstr]
  /\ fault = [t \in Tids |-> [page |-> {}, key |-> 0]]

-----------------------------------------------------------------------------
(* The program and the CPU (external).                                     *)

\* The program writes PKRU, as at a compartment switch, and what was lost is made good.
SetRights(t, k, r) ==
  /\ pc[t] = "run"
  /\ app' = [app EXCEPT ![t] = pkey_set(@, k, r)]
  /\ pkru' = [pkru EXCEPT ![t] = pkey_set(@, k, r)]
  /\ lost' = [lost EXCEPT ![t] = @ \ {k}]
  /\ UNCHANGED <<pkey_by_tid_map, TF, pageKey, pc, instr, fault>>

Issue(t, i) ==
  /\ pc[t] = "run"
  /\ pc' = [pc EXCEPT ![t] = "instr"]
  /\ instr' = [instr EXCEPT ![t] = i]
  /\ UNCHANGED <<pkru, app, pkey_by_tid_map, lost, TF, pageKey, fault>>

\* SEGV_PKUERR, reporting one of the pages that may not be accessed.
RaiseSegv(t, g) ==
  /\ pc[t] = "instr"
  /\ g \in Denied(t)
  /\ pc' = [pc EXCEPT ![t] = "segv"]
  /\ fault' = [fault EXCEPT ![t] = [page |-> {g}, key |-> pageKey[g]]]
  /\ UNCHANGED <<pkru, app, pkey_by_tid_map, lost, TF, pageKey, instr>>

\* The instruction completes; with the trap flag set, SIGTRAP follows.
Retire(t) ==
  /\ pc[t] = "instr"
  /\ Denied(t) = {}
  /\ pc' = [pc EXCEPT ![t] = IF TF[t] THEN "trap" ELSE "run"]
  /\ instr' = [instr EXCEPT ![t] = IF TF[t] THEN @ ELSE NoInstr]
  /\ UNCHANGED <<pkru, app, pkey_by_tid_map, lost, TF, pageKey, fault>>

-----------------------------------------------------------------------------
(* The handlers.                                                           *)

\* emplace: an entry the tid already has stays, and the new one is lost.
storePendingPKeyInfo(tid, info) ==
  IF tid \in DOMAIN pkey_by_tid_map
    THEN /\ lost' = [lost EXCEPT ![tid] = @ \cup {info.pkey}]
         /\ UNCHANGED pkey_by_tid_map
    ELSE /\ pkey_by_tid_map' =
              [x \in DOMAIN pkey_by_tid_map \cup {tid} |-> IF x = tid THEN info ELSE pkey_by_tid_map[x]]
         /\ UNCHANGED lost

\* The old rights are read after the key was opened; nothing is done when there is an
\* entry already.
disableThreadMPK_late(t, pkey) ==
  /\ storePendingPKeyInfo(t, PendingPKeyInfo(pkey, PKEY_ENABLE_ACCESS))
  /\ pkru' = [pkru EXCEPT ![t] = pkey_set(@, pkey, PKEY_ENABLE_ACCESS)]
disableThreadMPK_first(t, pkey) ==
  /\ storePendingPKeyInfo(t, PendingPKeyInfo(pkey, pkey_get(pkru[t], pkey)))
  /\ pkru' = IF t \in DOMAIN pkey_by_tid_map THEN pkru
             ELSE [pkru EXCEPT ![t] = pkey_set(@, pkey, PKEY_ENABLE_ACCESS)]

disableThreadMPK(t, pkey) ==
  /\ storePendingPKeyInfo(t, PendingPKeyInfo(pkey, pkey_get(pkru[t], pkey)))
  /\ pkru' = [pkru EXCEPT ![t] = pkey_set(@, pkey, PKEY_ENABLE_ACCESS)]

\* pkey_mprotect on no page.
disablePageMPK_none(t) == UNCHANGED pageKey

\* Every page with the key is opened.
disablePageMPK_all(t) ==
  pageKey' = [g \in Pages |-> IF pageKey[g] = fault[t].key THEN 0 ELSE pageKey[g]]

disablePageMPK(t) ==
  pageKey' = [g \in Pages |-> IF g \in fault[t].page THEN 0 ELSE pageKey[g]]

\* The end of pku_segv_handler; the instruction is executed again on return.
disable_mpk(t) ==
  /\ pc[t] = "segv"
  /\ \/ /\ ~PAGE_MPK
        /\ disableThreadMPK(t, fault[t].key)
        /\ TF' = [TF EXCEPT ![t] = TRUE]
        /\ UNCHANGED pageKey
     \/ /\ PAGE_MPK
        /\ disablePageMPK(t)
        /\ UNCHANGED <<pkru, pkey_by_tid_map, lost, TF>>
  /\ pc' = [pc EXCEPT ![t] = "instr"]
  /\ fault' = [fault EXCEPT ![t] = [page |-> {}, key |-> 0]]
  /\ UNCHANGED <<app, instr>>

\* The entry is taken but its rights are not written back.
enableThreadMPK_none(t, info) == UNCHANGED pkru

\* All access is disabled, whatever the rights were.
enableThreadMPK_deny(t, info) ==
  pkru' = [pkru EXCEPT ![t] = pkey_set(@, info.pkey, PKEY_DISABLE_ACCESS)]

enableThreadMPK(t, info) ==
  pkru' = [pkru EXCEPT ![t] = pkey_set(@, info.pkey, info.access_rights)]

\* A worker that traps takes the main thread's entry, if there is one, for itself, and
\* its own stays where nobody looks.
LostAtTrap(t) ==
  IF t = Main THEN lost
  ELSE [lost EXCEPT ![t] = @ \cup Pending(t) \cup Pending(Main), ![Main] = @ \cup Pending(Main)]

\* The entry is used but not removed.
pku_trap_handler_keep(t) ==
  /\ pc[t] = "trap"
  /\ lost' = LostAtTrap(t)
  /\ IF Main \in DOMAIN pkey_by_tid_map
       THEN enableThreadMPK(t, pkey_by_tid_map[Main]) ELSE UNCHANGED pkru
  /\ TF' = [TF EXCEPT ![t] = FALSE]
  /\ pc' = [pc EXCEPT ![t] = "run"]
  /\ instr' = [instr EXCEPT ![t] = NoInstr]
  /\ UNCHANGED <<app, pageKey, fault, pkey_by_tid_map>>

\* getAndRemove(getpid()): the entry looked for is the one of the main thread,
\* whichever thread trapped.
pku_trap_handler(t) ==
  /\ pc[t] = "trap"
  /\ lost' = LostAtTrap(t)
  /\ IF Main \in DOMAIN pkey_by_tid_map
       THEN /\ enableThreadMPK(t, pkey_by_tid_map[Main])
            /\ pkey_by_tid_map' = Restrict(pkey_by_tid_map, DOMAIN pkey_by_tid_map \ {Main})
       ELSE UNCHANGED <<pkru, pkey_by_tid_map>>
  /\ TF' = [TF EXCEPT ![t] = FALSE]
  /\ pc' = [pc EXCEPT ![t] = "run"]
  /\ instr' = [instr EXCEPT ![t] = NoInstr]
  /\ UNCHANGED <<app, pageKey, fault>>

-----------------------------------------------------------------------------
Handle(t) == disable_mpk(t) \/ pku_trap_handler(t)
Cpu(t) == Retire(t) \/ \E g \in Pages : RaiseSegv(t, g)

Next ==
  \E t \in Tids :
    \/ \E k \in Keys \ {0}, r \in AppRights : SetRights(t, k, r)
    \/ \E i \in Instrs : Issue(t, i)
    \/ Cpu(t)
    \/ Handle(t)

Spec == Init /\ [][Next]_vars

\* The CPU executes what was issued, and a signal handler runs to its end.
FairSpec == Spec /\ \A t \in Tids : WF_vars(Cpu(t)) /\ WF_vars(Handle(t))

-----------------------------------------------------------------------------
\* Every variable has its type: the register stays a 32-bit word, and a fault
\* reports a key of the program.
TypeOK ==
  /\ {pkru, app} \subseteq [Tids -> Nat]
  /\ \A t \in Tids : IsWord(pkru[t]) /\ IsWord(app[t])
  /\ DOMAIN pkey_by_tid_map \subseteq Tids
  /\ pkey_by_tid_map \in [DOMAIN pkey_by_tid_map -> [pkey : Keys, access_rights : Rights]]
  /\ lost \in [Tids -> SUBSET Keys]
  /\ TF \in [Tids -> BOOLEAN]
  /\ pageKey \in [Pages -> Keys]
  /\ pc \in [Tids -> {"run", "instr", "segv", "trap"}]
  /\ instr \in [Tids -> [pages : SUBSET Pages, write : BOOLEAN]]
  /\ fault \in [Tids -> [page : SUBSET Pages, key : Keys]]

\* The rights in force on key k are not the ones the program set.
Differs(t, k) == pkey_get(pkru[t], k) # pkey_get(app[t], k)

\* disable_mpk and pku_trap_handler: the rights in force differ from those the program
\* set at most on the keys of the instruction being stepped over, and once it has
\* completed only where the handlers themselves lost the old rights.  They lose them in
\* two ways: a thread faults on a second key before it has trapped (the entry of the
\* first one stays, storePendingPKeyInfo), and a worker traps (it asks for the entry
\* of the main thread).
RightsRestored ==
  \A t \in Tids, k \in Keys :
    Differs(t, k) => k \in lost[t] \/ (pc[t] # "run" /\ k \in KeysOf(instr[t]))

\* "Temporarily disables the given pkey for the current thread": the same without an
\* excuse.
AllRightsRestored ==
  \A t \in Tids, k \in Keys : Differs(t, k) => pc[t] # "run" /\ k \in KeysOf(instr[t])

\* A thread between instructions does not trap, and the main thread has no entry left
\* in pkey_by_tid_map, where it would keep the next fault from storing its own or go to
\* a worker.  (The entry of a worker is never removed.)
NothingLeft == \A t \in Tids : pc[t] = "run" => ~TF[t] /\ (t = Main => Main \notin DOMAIN pkey_by_tid_map)

\* What the handlers of the single-step build keep true of thread t: outside of what
\* is lost, the one key that differs is the open key of the entry, and the trap is
\* still to come;
ThreadInv(t) ==
  /\ pc[t] = "trap" => TF[t]
  /\ pc[t] = "run" => ~TF[t]
  /\ pc[t] = "segv" => fault[t].key \in KeysOf(instr[t]) /\ pkey_get(pkru[t], fault[t].key) # 0
  /\ \A k \in Keys : Differs(t, k) =>
       \/ k \in lost[t]
       \/ TF[t] /\ k \in Pending(t) /\ k \in KeysOf(instr[t]) /\ pkey_get(pkru[t], k) = 0

\* and of the main thread, the only one whose entry is ever used: the entry holds the
\* rights to go back to and its key is open, and so is what it has lost: no right of
\* the main thread is ever taken away.
MainInv ==
  /\ ~TF[Main] => Main \notin DOMAIN pkey_by_tid_map
  /\ \A k \in lost[Main] \cup Pending(Main) : pkey_get(pkru[Main], k) = 0
  /\ \A k \in Pending(Main) :
       k \notin lost[Main] /\ pkey_by_tid_map[Main].access_rights = pkey_get(app[Main], k)

\* Together they make the two properties above inductive, with any number of threads
\* and instructions that touch any number of keys.
StepInv == pageKey = KeyOf /\ (\A t \in Tids : ThreadInv(t)) /\ MainInv

\* Every instruction completes: a fault cannot recur for ever, also when the
\* instruction faults once for each of several keys or pages and the traps of another
\* thread come in between.
InstrCompletes == \A t \in Tids : pc[t] = "instr" ~> pc[t] = "run"
=============================================================================
