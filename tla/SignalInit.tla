----------------------------- MODULE SignalInit -----------------------------
(***************************************************************************)
(* Who owns SIGSEGV: the once-only initialisation of the runtime           *)
(* (AllocSiteHandler::getOrInit and init in Runtime/alloc_site_handler.cpp,*)
(* provsan_untrusted_constructor in Runtime/provsan_init.cpp), the         *)
(* exported provsan_SEGV_fault_handler, and the branch of pku_segv_handler *)
(* for faults that are not the runtime's own.                              *)
(*                                                                         *)
(* prevAction points to the static sa_old of the constructor or is null,   *)
(* so the pointer is a flag here and sa_old the value behind it.           *)
(***************************************************************************)
EXTENDS Naturals, FiniteSets

CONSTANTS
  Threads,   \* threads of the program
  Handlers   \* SIGSEGV handlers of the program, SA_SIGINFO or plain: both are called

\* pku_segv_handler as a signal action.
Pku == "pku_segv_handler"
Dispositions == {"SIG_DFL", "SIG_IGN", Pku} \cup Handlers

ASSUME HandlersAssumption == Handlers \cap {"SIG_DFL", "SIG_IGN", Pku} = {}

VARIABLES
  action,      \* external: what the kernel does on SIGSEGV
  trap,        \* external: SIGTRAP goes to pku_trap_handler
  prevAction,  \* the pointer is not null
  sa_old,      \* what it points to
  once,        \* AllocHandlerInitFlag: "new", "running" or "done"
  pc, resume,  \* per thread: phase, and where getOrInit returns to
  bad,         \* per thread: the fault recurs when the handler just returns
  dead,        \* the default action ended the process
  owner,       \* history: the action the program itself installed last
  outside,     \* history: provsan_SEGV_fault_handler was called when the runtime
               \* was not initialised, or when it held SIGSEGV already
  crossed      \* history: a handler in flight put the previous action back over
               \* one that the program had installed meanwhile

vars == <<action, trap, prevAction, sa_old, once, pc, resume, bad, dead, owner, outside, crossed>>

\* Where a fault goes that is not a protection-key fault.
Forward == IF prevAction THEN sa_old ELSE "SIG_DFL"

Init ==
  /\ action = "SIG_DFL" /\ owner = "SIG_DFL"
  /\ trap = FALSE
  /\ prevAction = FALSE /\ sa_old = "SIG_DFL"
  /\ once = "new"
  /\ pc = [t \in Threads |-> "idle"]
  /\ resume = [t \in Threads |-> "idle"]
  /\ bad = [t \in Threads |-> FALSE]
  /\ dead = FALSE
  /\ outside = FALSE /\ crossed = FALSE

Goto(t, label) == pc' = [pc EXCEPT ![t] = label]

-----------------------------------------------------------------------------
(* The program (external).                                                 *)

\* sigaction(SIGSEGV, ...) by the program, such as Rust's own fault handler.
AppSigaction(t, a) ==
  /\ pc[t] = "idle"
  /\ action' = a /\ owner' = a
  /\ UNCHANGED <<trap, prevAction, sa_old, once, pc, resume, bad, dead, outside, crossed>>

\* The first hook, or any later one, calls getOrInit, and so does flush_allocs.
CallHook(t) ==
  /\ pc[t] = "idle"
  /\ Goto(t, "getOrInit")
  /\ resume' = [resume EXCEPT ![t] = "idle"]
  /\ UNCHANGED <<action, trap, prevAction, sa_old, once, bad, dead, owner, outside, crossed>>

CallSEGVHandler(t) ==
  /\ pc[t] = "idle"
  /\ Goto(t, "replace")
  /\ UNCHANGED <<action, trap, prevAction, sa_old, once, resume, bad, dead, owner, outside, crossed>>

\* A SIGSEGV: "pku" for SEGV_PKUERR, "bad" for any other bad access, "sent" for
\* a signal sent with kill().  Without a handler it ends the process, except
\* that a sent one may be ignored; a handler of the program deals with it.
Raise(t, kind) ==
  /\ pc[t] \in {"idle", "retry"}
  /\ pc[t] = "retry" => kind = "bad"
  /\ bad' = [bad EXCEPT ![t] = kind = "bad"]
  /\ CASE action = Pku -> Goto(t, IF kind = "pku" THEN "segv_pku" ELSE "segv_other") /\ UNCHANGED dead
       [] action \in Handlers \/ (action = "SIG_IGN" /\ kind = "sent") -> Goto(t, "idle") /\ UNCHANGED dead
       [] OTHER -> dead' = TRUE /\ UNCHANGED pc
  /\ UNCHANGED <<action, trap, prevAction, sa_old, once, resume, owner, outside, crossed>>

-----------------------------------------------------------------------------
(* Initialisation.                                                         *)

\* A plain flag instead of call_once: nobody waits.
getOrInit_flag(t) ==
  /\ pc[t] = "getOrInit"
  /\ \/ once = "new" /\ once' = "running" /\ Goto(t, "ctor_segv")
     \/ once # "new" /\ Goto(t, resume[t]) /\ UNCHANGED once
  /\ UNCHANGED <<action, trap, prevAction, sa_old, resume, bad, dead, owner, outside, crossed>>

\* std::call_once: one caller runs init, the others wait until it is done.
getOrInit(t) ==
  /\ pc[t] = "getOrInit"
  /\ \/ once = "new" /\ once' = "running" /\ Goto(t, "ctor_segv")
     \/ once = "done" /\ Goto(t, resume[t]) /\ UNCHANGED once
  /\ UNCHANGED <<action, trap, prevAction, sa_old, resume, bad, dead, owner, outside, crossed>>

\* provsan_untrusted_constructor: the handler is in force from here on ...
constructorSegv(t) ==
  /\ pc[t] = "ctor_segv"
  /\ sa_old' = action
  /\ action' = Pku
  /\ Goto(t, "ctor_prev")
  /\ UNCHANGED <<trap, prevAction, once, resume, bad, dead, owner, outside, crossed>>

\* ... and knows where to forward to from here on.
constructorPrev(t) ==
  /\ pc[t] = "ctor_prev"
  /\ prevAction' = TRUE
  /\ Goto(t, "ctor_trap")
  /\ UNCHANGED <<action, trap, sa_old, once, resume, bad, dead, owner, outside, crossed>>

\* The flag stays at "running".
constructorTrap_open(t) ==
  /\ pc[t] = "ctor_trap"
  /\ trap' = TRUE
  /\ Goto(t, resume[t])
  /\ UNCHANGED <<action, prevAction, sa_old, once, resume, bad, dead, owner, outside, crossed>>

constructorTrap(t) ==
  /\ pc[t] = "ctor_trap"
  /\ trap' = TRUE
  /\ once' = "done"
  /\ Goto(t, resume[t])
  /\ UNCHANGED <<action, prevAction, sa_old, resume, bad, dead, owner, outside, crossed>>

\* sigaction(SIGSEGV, SEGVAction, nullptr).
provsan_SEGV_fault_handler_drop(t) ==
  /\ pc[t] = "replace"
  /\ action' = Pku
  /\ outside' = (outside \/ once # "done" \/ action = Pku)
  /\ Goto(t, "idle")
  /\ UNCHANGED <<trap, prevAction, sa_old, once, resume, bad, dead, owner, crossed>>

\* SEGVAction is pku_segv_handler whoever sets it, and *oldact is the caller's.
\* The old action is kept only when there is a place to keep it.
provsan_SEGV_fault_handler(t) ==
  /\ pc[t] = "replace"
  /\ sa_old' = IF prevAction THEN action ELSE sa_old
  /\ action' = Pku
  /\ outside' = (outside \/ once # "done" \/ action = Pku)
  /\ Goto(t, "idle")
  /\ UNCHANGED <<trap, prevAction, once, resume, bad, dead, owner, crossed>>

-----------------------------------------------------------------------------
(* pku_segv_handler.                                                       *)

\* The handler starts over once the runtime is initialised.
handlePku_again(t) ==
  /\ pc[t] = "segv_pku"
  /\ Goto(t, "getOrInit")
  /\ resume' = [resume EXCEPT ![t] = "segv_pku"]
  /\ UNCHANGED <<action, trap, prevAction, sa_old, once, bad, dead, owner, outside, crossed>>

\* SEGV_PKUERR: getOrInit comes before anything else.
handlePku(t) ==
  /\ pc[t] = "segv_pku"
  /\ Goto(t, "getOrInit")
  /\ resume' = [resume EXCEPT ![t] = "disable_mpk"]
  /\ UNCHANGED <<action, trap, prevAction, sa_old, once, bad, dead, owner, outside, crossed>>

\* The key is opened and the trap flag set; SIGTRAP is next.
disable_mpk(t) ==
  /\ pc[t] = "disable_mpk"
  /\ Goto(t, "idle")
  /\ UNCHANGED <<action, trap, prevAction, sa_old, once, resume, bad, dead, owner, outside, crossed>>

\* The handler returns without putting the previous action back.
handleOther_return(t) ==
  /\ pc[t] = "segv_other"
  /\ IF prevAction THEN UNCHANGED dead ELSE dead' = TRUE
  /\ Goto(t, IF bad[t] THEN "retry" ELSE "idle")
  /\ UNCHANGED <<action, trap, prevAction, sa_old, once, resume, bad, owner, outside, crossed>>

\* Not ours: default action, reinstall the previous one, or call it.  When the
\* previous action is pku_segv_handler it calls itself: the thread stays here
\* until another thread changes sa_old or the stack is used up.
handleOther(t) ==
  /\ pc[t] = "segv_other"
  /\ CASE ~prevAction -> action' = "SIG_DFL" /\ dead' = TRUE /\ UNCHANGED <<pc, crossed>>
       [] prevAction /\ sa_old \in {"SIG_DFL", "SIG_IGN"} ->
            /\ action' = sa_old /\ crossed' = (crossed \/ action # Pku)
            /\ Goto(t, IF bad[t] THEN "retry" ELSE "idle") /\ UNCHANGED dead
       [] prevAction /\ sa_old \in Handlers -> Goto(t, "idle") /\ UNCHANGED <<action, dead, crossed>>
       [] prevAction /\ sa_old = Pku ->
            dead' \in BOOLEAN /\ UNCHANGED <<action, pc, crossed>>
  /\ UNCHANGED <<trap, prevAction, sa_old, once, resume, bad, owner, outside>>

-----------------------------------------------------------------------------
Program(t) ==
  \/ \E a \in Handlers \cup {"SIG_DFL", "SIG_IGN"} : AppSigaction(t, a)
  \/ CallHook(t) \/ CallSEGVHandler(t)
  \/ \E kind \in {"pku", "bad", "sent"} : Raise(t, kind)

Runtime(t) ==
  \/ getOrInit(t) \/ constructorSegv(t) \/ constructorPrev(t) \/ constructorTrap(t)
  \/ provsan_SEGV_fault_handler(t)
  \/ handlePku(t) \/ disable_mpk(t) \/ handleOther(t)

Terminated == dead /\ UNCHANGED vars

Next ==
  \/ ~dead /\ \E t \in Threads : Program(t) \/ Runtime(t)
  \/ Terminated

Spec == Init /\ [][Next]_vars

\* A thread inside the runtime keeps running, and a faulting instruction that is
\* executed again faults again.
FairSpec ==
  Spec /\ \A t \in Threads : WF_vars(~dead /\ (Runtime(t) \/ (pc[t] = "retry" /\ Raise(t, "bad"))))

-----------------------------------------------------------------------------
CtorPcs == {"ctor_segv", "ctor_prev", "ctor_trap"}

\* Every variable has its type.
TypeOK ==
  /\ {action, sa_old} \subseteq Dispositions
  /\ owner \in Dispositions \ {Pku}
  /\ {trap, prevAction, dead, outside, crossed} \subseteq BOOLEAN
  /\ once \in {"new", "running", "done"}
  /\ pc \in [Threads -> {"idle", "retry", "getOrInit", "replace", "segv_pku", "segv_other", "disable_mpk"} \cup CtorPcs]
  /\ resume \in [Threads -> {"idle", "disable_mpk"}]
  /\ bad \in [Threads -> BOOLEAN]

\* A thread that sets its trap flag finds pku_trap_handler installed, also when
\* it faults while another thread is between the two sigaction calls of the
\* constructor: it waits in getOrInit.
TrapReady == \A t \in Threads : pc[t] = "disable_mpk" => trap

\* While pku_segv_handler holds SIGSEGV in an initialised runtime, any other
\* fault goes to the action the program installed last, whatever the order of
\* sigaction calls, hooks and faults of all threads, as long as
\* provsan_SEGV_fault_handler was only used to take SIGSEGV back and no handler
\* in flight overwrote what the program installed.
ForwardsToOwner == once = "done" /\ action = Pku /\ ~outside /\ ~crossed => Forward = owner

\* A protection-key fault is always served: no thread waits in getOrInit for ever,
\* and none is left in the handler, unless the process ends.
FaultServed == \A t \in Threads : pc[t] = "segv_pku" ~> (pc[t] = "idle" \/ dead)

\* Once the program stops asking for SIGSEGV back (which can restart the fault of
\* another thread each time), a fault that is not a protection-key fault leaves
\* the handler for good: a handler of the program has dealt with it, or the
\* process has ended.
OtherFaultEnds ==
  <>[](\A u \in Threads : pc[u] # "replace") =>
    \A t \in Threads : pc[t] = "segv_other" ~> (pc[t] = "idle" \/ dead \/ outside)
=============================================================================
