-------------------------- MODULE SignalInitProofs --------------------------
(***************************************************************************)
(* TLAPS proofs about SignalInit, for every set of threads and of handlers *)
(* of the program.                                                         *)
(***************************************************************************)
EXTENDS SignalInit, TLAPS

Pcs == {"idle", "retry", "getOrInit", "replace", "segv_pku", "segv_other", "disable_mpk"} \cup CtorPcs

\* std::call_once: one thread at a time is in the constructor, while the flag says
\* so, and a thread gets past getOrInit only when the constructor is done.
OnceInv ==
  /\ \A t \in Threads : pc[t] \in CtorPcs => once = "running"
  /\ \A t, u \in Threads : pc[t] \in CtorPcs /\ pc[u] \in CtorPcs => t = u
  /\ \A t \in Threads : pc[t] = "disable_mpk" => once = "done"

\* What the constructor has set, and what it has not, at each of its steps.
CtorInv ==
  /\ once = "done" => trap /\ prevAction
  /\ \A t \in Threads : pc[t] = "ctor_trap" => prevAction

\* While provsan_SEGV_fault_handler is used as meant, pku_segv_handler does not hold
\* SIGSEGV before the constructor puts it there: it never becomes its own predecessor.
NotOwnPredecessor ==
  ~outside /\ action = Pku => once # "new" /\ \A t \in Threads : pc[t] # "ctor_segv"

\* The program's own action is in force, or it is the one that is put aside.
OwnerKept ==
  ~outside /\ ~crossed => IF action = Pku THEN sa_old = owner ELSE dead \/ action = owner

Inv == TypeOK /\ OnceInv /\ CtorInv /\ NotOwnPredecessor /\ OwnerKept

-----------------------------------------------------------------------------
\* The program starts without a handler, in no part of the runtime.
LEMMA InitInv == Init => Inv
<1> SUFFICES ASSUME Init PROVE Inv
  OBVIOUS
<1>1. TypeOK
  BY HandlersAssumption DEF Init, TypeOK, Dispositions, Pku
<1>2. OnceInv /\ CtorInv
  BY DEF Init, OnceInv, CtorInv, CtorPcs
<1>3. NotOwnPredecessor /\ OwnerKept
  BY DEF Init, NotOwnPredecessor, OwnerKept, Pku
<1> QED
  BY <1>1, <1>2, <1>3 DEF Inv

\* Each step of the program and of the runtime keeps the types.
LEMMA TypeStep == TypeOK /\ [Next]_vars => TypeOK'
<1> SUFFICES ASSUME TypeOK, [Next]_vars PROVE TypeOK'
  OBVIOUS
<1> USE DEF TypeOK, Goto, CtorPcs
<1>1. CASE UNCHANGED vars \/ Terminated
  BY <1>1 DEF vars, Terminated
<1>2. ASSUME NEW t \in Threads, NEW a \in Handlers \cup {"SIG_DFL", "SIG_IGN"}, AppSigaction(t, a) PROVE TypeOK'
  BY <1>2, HandlersAssumption DEF AppSigaction, Dispositions, Pku
<1>3. ASSUME NEW t \in Threads, CallHook(t) PROVE TypeOK'
  BY <1>3 DEF CallHook
<1>4. ASSUME NEW t \in Threads, CallSEGVHandler(t) PROVE TypeOK'
  BY <1>4 DEF CallSEGVHandler
<1>5. ASSUME NEW t \in Threads, NEW kind \in {"pku", "bad", "sent"}, Raise(t, kind) PROVE TypeOK'
  BY <1>5 DEF Raise
<1>6. ASSUME NEW t \in Threads, getOrInit(t) PROVE TypeOK'
  BY <1>6 DEF getOrInit
<1>7. ASSUME NEW t \in Threads, constructorSegv(t) PROVE TypeOK'
  BY <1>7 DEF constructorSegv, Dispositions
<1>8. ASSUME NEW t \in Threads, constructorPrev(t) PROVE TypeOK'
  BY <1>8 DEF constructorPrev
<1>9. ASSUME NEW t \in Threads, constructorTrap(t) PROVE TypeOK'
  BY <1>9 DEF constructorTrap
<1>10. ASSUME NEW t \in Threads, provsan_SEGV_fault_handler(t) PROVE TypeOK'
  BY <1>10 DEF provsan_SEGV_fault_handler, Dispositions
<1>11. ASSUME NEW t \in Threads, handlePku(t) PROVE TypeOK'
  BY <1>11 DEF handlePku
<1>12. ASSUME NEW t \in Threads, disable_mpk(t) PROVE TypeOK'
  BY <1>12 DEF disable_mpk
<1>13. ASSUME NEW t \in Threads, handleOther(t) PROVE TypeOK'
  BY <1>13 DEF handleOther, Dispositions
<1> QED
  BY <1>1, <1>2, <1>3, <1>4, <1>5, <1>6, <1>7, <1>8, <1>9, <1>10, <1>11, <1>12, <1>13
     DEF Next, Program, Runtime

\* What handleOther does to the signal action and to the thread, case by case.
LEMMA HandleOtherCases ==
  ASSUME TypeOK, NEW t \in Threads, ~dead, handleOther(t)
  PROVE  /\ UNCHANGED <<trap, prevAction, sa_old, once, resume, bad, owner, outside>>
         /\ pc' = pc \/ pc' = [pc EXCEPT ![t] = "retry"] \/ pc' = [pc EXCEPT ![t] = "idle"]
         /\ \/ dead'
            \/ action' = sa_old /\ action' # Pku /\ crossed' = (crossed \/ action # Pku)
            \/ UNCHANGED <<action, crossed, dead>>
         /\ action' = Pku => action = Pku
         /\ crossed => crossed'
<1>1. sa_old \in {"SIG_DFL", "SIG_IGN"} \/ sa_old \in Handlers \/ sa_old = Pku
  BY DEF TypeOK, Dispositions
<1>2. pc \in [Threads -> Pcs] /\ bad \in [Threads -> BOOLEAN] /\ dead \in BOOLEAN /\ prevAction \in BOOLEAN
  BY DEF TypeOK, Pcs
<1>3. CASE ~prevAction
  BY <1>3, <1>2 DEF handleOther, Goto, Pku
<1>4. CASE prevAction /\ sa_old \in {"SIG_DFL", "SIG_IGN"}
  BY <1>4, <1>2 DEF handleOther, Goto, Pku
<1>5. CASE prevAction /\ sa_old \in Handlers
  BY <1>5, <1>2, HandlersAssumption DEF handleOther, Goto, Pku
<1>6. CASE prevAction /\ sa_old = Pku
  BY <1>6, <1>2, HandlersAssumption DEF handleOther, Goto, Pku
<1> QED
  BY <1>1, <1>2, <1>3, <1>4, <1>5, <1>6

\* getOrInit lets one caller into the constructor, and the others past it once it is
\* done; nothing else lets a thread in.
LEMMA OnceStep == TypeOK /\ OnceInv /\ [Next]_vars => OnceInv'
<1> SUFFICES ASSUME TypeOK, OnceInv, [Next]_vars PROVE OnceInv'
  OBVIOUS
<1> USE DEF TypeOK, OnceInv, Goto, CtorPcs
<1>1. CASE UNCHANGED vars \/ Terminated
  BY <1>1 DEF vars, Terminated
<1>2. ASSUME NEW t \in Threads, NEW a \in Handlers \cup {"SIG_DFL", "SIG_IGN"}, AppSigaction(t, a) PROVE OnceInv'
  BY <1>2 DEF AppSigaction
<1>3. ASSUME NEW t \in Threads, CallHook(t) PROVE OnceInv'
  BY <1>3 DEF CallHook
<1>4. ASSUME NEW t \in Threads, CallSEGVHandler(t) PROVE OnceInv'
  BY <1>4 DEF CallSEGVHandler
<1>5. ASSUME NEW t \in Threads, NEW kind \in {"pku", "bad", "sent"}, Raise(t, kind) PROVE OnceInv'
  BY <1>5 DEF Raise
<1>6. ASSUME NEW t \in Threads, getOrInit(t) PROVE OnceInv'
  BY <1>6 DEF getOrInit
<1>7. ASSUME NEW t \in Threads, constructorSegv(t) PROVE OnceInv'
  BY <1>7 DEF constructorSegv
<1>8. ASSUME NEW t \in Threads, constructorPrev(t) PROVE OnceInv'
  BY <1>8 DEF constructorPrev
<1>9. ASSUME NEW t \in Threads, constructorTrap(t) PROVE OnceInv'
  BY <1>9 DEF constructorTrap
<1>10. ASSUME NEW t \in Threads, provsan_SEGV_fault_handler(t) PROVE OnceInv'
  BY <1>10 DEF provsan_SEGV_fault_handler
<1>11. ASSUME NEW t \in Threads, handlePku(t) PROVE OnceInv'
  BY <1>11 DEF handlePku
<1>12. ASSUME NEW t \in Threads, disable_mpk(t) PROVE OnceInv'
  BY <1>12 DEF disable_mpk
<1>13. ASSUME NEW t \in Threads, ~dead, handleOther(t) PROVE OnceInv'
  BY <1>13, HandleOtherCases
<1> QED
  BY <1>1, <1>2, <1>3, <1>4, <1>5, <1>6, <1>7, <1>8, <1>9, <1>10, <1>11, <1>12, <1>13
     DEF Next, Program, Runtime

\* Nothing takes back what the constructor has set, and it ends after its last step.
LEMMA CtorStep == TypeOK /\ OnceInv /\ CtorInv /\ [Next]_vars => CtorInv'
<1> SUFFICES ASSUME TypeOK, OnceInv, CtorInv, [Next]_vars PROVE CtorInv'
  OBVIOUS
<1> USE DEF TypeOK, OnceInv, CtorInv, Goto, CtorPcs
<1>1. CASE UNCHANGED vars \/ Terminated
  BY <1>1 DEF vars, Terminated
<1>2. ASSUME NEW t \in Threads, NEW a \in Handlers \cup {"SIG_DFL", "SIG_IGN"}, AppSigaction(t, a) PROVE CtorInv'
  BY <1>2 DEF AppSigaction
<1>3. ASSUME NEW t \in Threads, CallHook(t) PROVE CtorInv'
  BY <1>3 DEF CallHook
<1>4. ASSUME NEW t \in Threads, CallSEGVHandler(t) PROVE CtorInv'
  BY <1>4 DEF CallSEGVHandler
<1>5. ASSUME NEW t \in Threads, NEW kind \in {"pku", "bad", "sent"}, Raise(t, kind) PROVE CtorInv'
  BY <1>5 DEF Raise
<1>6. ASSUME NEW t \in Threads, getOrInit(t) PROVE CtorInv'
  BY <1>6 DEF getOrInit
<1>7. ASSUME NEW t \in Threads, constructorSegv(t) PROVE CtorInv'
  BY <1>7 DEF constructorSegv
<1>8. ASSUME NEW t \in Threads, constructorPrev(t) PROVE CtorInv'
  BY <1>8 DEF constructorPrev
<1>9. ASSUME NEW t \in Threads, constructorTrap(t) PROVE CtorInv'
  BY <1>9 DEF constructorTrap
<1>10. ASSUME NEW t \in Threads, provsan_SEGV_fault_handler(t) PROVE CtorInv'
  BY <1>10 DEF provsan_SEGV_fault_handler
<1>11. ASSUME NEW t \in Threads, handlePku(t) PROVE CtorInv'
  BY <1>11 DEF handlePku
<1>12. ASSUME NEW t \in Threads, disable_mpk(t) PROVE CtorInv'
  BY <1>12 DEF disable_mpk
<1>13. ASSUME NEW t \in Threads, ~dead, handleOther(t) PROVE CtorInv'
  BY <1>13, HandleOtherCases
<1> QED
  BY <1>1, <1>2, <1>3, <1>4, <1>5, <1>6, <1>7, <1>8, <1>9, <1>10, <1>11, <1>12, <1>13
     DEF Next, Program, Runtime

\* Only the constructor and provsan_SEGV_fault_handler install pku_segv_handler.
LEMMA PredecessorStep == TypeOK /\ OnceInv /\ NotOwnPredecessor /\ [Next]_vars => NotOwnPredecessor'
<1> SUFFICES ASSUME TypeOK, OnceInv, NotOwnPredecessor, [Next]_vars PROVE NotOwnPredecessor'
  OBVIOUS
<1> USE DEF TypeOK, OnceInv, NotOwnPredecessor, Goto, CtorPcs, Pku
<1>1. CASE UNCHANGED vars \/ Terminated
  BY <1>1 DEF vars, Terminated
<1>2. ASSUME NEW t \in Threads, NEW a \in Handlers \cup {"SIG_DFL", "SIG_IGN"}, AppSigaction(t, a) PROVE NotOwnPredecessor'
  BY <1>2, HandlersAssumption DEF AppSigaction
<1>3. ASSUME NEW t \in Threads, CallHook(t) PROVE NotOwnPredecessor'
  BY <1>3 DEF CallHook
<1>4. ASSUME NEW t \in Threads, CallSEGVHandler(t) PROVE NotOwnPredecessor'
  BY <1>4 DEF CallSEGVHandler
<1>5. ASSUME NEW t \in Threads, NEW kind \in {"pku", "bad", "sent"}, Raise(t, kind) PROVE NotOwnPredecessor'
  BY <1>5 DEF Raise
<1>6. ASSUME NEW t \in Threads, getOrInit(t) PROVE NotOwnPredecessor'
  BY <1>6 DEF getOrInit
<1>7. ASSUME NEW t \in Threads, constructorSegv(t) PROVE NotOwnPredecessor'
  BY <1>7 DEF constructorSegv
<1>8. ASSUME NEW t \in Threads, constructorPrev(t) PROVE NotOwnPredecessor'
  BY <1>8 DEF constructorPrev
<1>9. ASSUME NEW t \in Threads, constructorTrap(t) PROVE NotOwnPredecessor'
  BY <1>9 DEF constructorTrap
<1>10. ASSUME NEW t \in Threads, provsan_SEGV_fault_handler(t) PROVE NotOwnPredecessor'
  BY <1>10 DEF provsan_SEGV_fault_handler
<1>11. ASSUME NEW t \in Threads, handlePku(t) PROVE NotOwnPredecessor'
  BY <1>11 DEF handlePku
<1>12. ASSUME NEW t \in Threads, disable_mpk(t) PROVE NotOwnPredecessor'
  BY <1>12 DEF disable_mpk
<1>13. ASSUME NEW t \in Threads, ~dead, handleOther(t) PROVE NotOwnPredecessor'
  BY <1>13, HandleOtherCases
<1> QED
  BY <1>1, <1>2, <1>3, <1>4, <1>5, <1>6, <1>7, <1>8, <1>9, <1>10, <1>11, <1>12, <1>13
     DEF Next, Program, Runtime

\* Whoever installs pku_segv_handler puts aside what was in force, and whoever gives
\* SIGSEGV back gives what was put aside.
LEMMA OwnerStep == TypeOK /\ OnceInv /\ CtorInv /\ NotOwnPredecessor /\ OwnerKept /\ [Next]_vars => OwnerKept'
<1> SUFFICES ASSUME TypeOK, OnceInv, CtorInv, NotOwnPredecessor, OwnerKept, [Next]_vars PROVE OwnerKept'
  OBVIOUS
<1> USE DEF TypeOK, OnceInv, CtorInv, NotOwnPredecessor, OwnerKept, Goto, CtorPcs, Pku
<1>1. CASE UNCHANGED vars \/ Terminated
  BY <1>1 DEF vars, Terminated
<1>2. ASSUME NEW t \in Threads, NEW a \in Handlers \cup {"SIG_DFL", "SIG_IGN"}, AppSigaction(t, a) PROVE OwnerKept'
  BY <1>2, HandlersAssumption DEF AppSigaction
<1>3. ASSUME NEW t \in Threads, CallHook(t) PROVE OwnerKept'
  BY <1>3 DEF CallHook
<1>4. ASSUME NEW t \in Threads, CallSEGVHandler(t) PROVE OwnerKept'
  BY <1>4 DEF CallSEGVHandler
<1>5. ASSUME NEW t \in Threads, NEW kind \in {"pku", "bad", "sent"}, Raise(t, kind) PROVE OwnerKept'
  BY <1>5 DEF Raise
<1>6. ASSUME NEW t \in Threads, getOrInit(t) PROVE OwnerKept'
  BY <1>6 DEF getOrInit
<1>7. ASSUME NEW t \in Threads, ~dead, constructorSegv(t) PROVE OwnerKept'
  BY <1>7 DEF constructorSegv
<1>8. ASSUME NEW t \in Threads, constructorPrev(t) PROVE OwnerKept'
  BY <1>8 DEF constructorPrev
<1>9. ASSUME NEW t \in Threads, constructorTrap(t) PROVE OwnerKept'
  BY <1>9 DEF constructorTrap
<1>10. ASSUME NEW t \in Threads, ~dead, provsan_SEGV_fault_handler(t) PROVE OwnerKept'
  BY <1>10 DEF provsan_SEGV_fault_handler
<1>11. ASSUME NEW t \in Threads, handlePku(t) PROVE OwnerKept'
  BY <1>11 DEF handlePku
<1>12. ASSUME NEW t \in Threads, disable_mpk(t) PROVE OwnerKept'
  BY <1>12 DEF disable_mpk
<1>13. ASSUME NEW t \in Threads, ~dead, handleOther(t) PROVE OwnerKept'
  BY <1>13, HandleOtherCases
<1> QED
  BY <1>1, <1>2, <1>3, <1>4, <1>5, <1>6, <1>7, <1>8, <1>9, <1>10, <1>11, <1>12, <1>13
     DEF Next, Program, Runtime

-----------------------------------------------------------------------------
\* The conjunction is inductive.
LEMMA Invariant == Spec => []Inv
<1>1. Inv /\ [Next]_vars => Inv'
  BY TypeStep, OnceStep, CtorStep, PredecessorStep, OwnerStep DEF Inv
<1> QED
  BY InitInv, <1>1, PTL DEF Spec

\* Every variable of the initialisation and of the signal actions has its type.
THEOREM TypeCorrect == Spec => []TypeOK
<1>1. Inv => TypeOK
  BY DEF Inv
<1> QED
  BY Invariant, <1>1, PTL

\* For any number of threads: one that is about to set its trap flag in disable_mpk
\* has been through getOrInit, which returns only when sigaction(SIGTRAP) is done.
THEOREM TrapReadyCorrect == Spec => []TrapReady
<1>1. Inv => TrapReady
  BY DEF Inv, OnceInv, CtorInv, TrapReady
<1> QED
  BY Invariant, <1>1, PTL

\* For any number of threads and handlers: a fault that is not the runtime's goes to
\* the action the program installed last, under the premises of ForwardsToOwner.
THEOREM ForwardsToOwnerCorrect == Spec => []ForwardsToOwner
<1>1. Inv => ForwardsToOwner
  BY DEF Inv, CtorInv, OwnerKept, ForwardsToOwner, Forward
<1> QED
  BY Invariant, <1>1, PTL
=============================================================================
