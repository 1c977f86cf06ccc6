--------------------------- MODULE FaultPathProofs --------------------------
(***************************************************************************)
(* The path of a fault, from the bits of PKRU up.                          *)
(*                                                                         *)
(* First, what pkey_get and pkey_set do to the bits of the PKRU word, for  *)
(* every 32-bit word, key and right: a key reads back what was written to  *)
(* it, no other key moves, and writing the old right back restores the     *)
(* word.                                                                   *)
(*                                                                         *)
(* Second, the single-step build, for every set of threads, keys, pages    *)
(* and instructions: which rights come back, and which are lost because    *)
(* the handlers have no entry for them; and what makes sure that the main  *)
(* thread loses none.                                                      *)
(*                                                                         *)
(* Third, attribution in the single-step build, in the same generality: no *)
(* violation on a key that was not lost goes unreported, and no access     *)
(* that was allowed is blamed.  The PAGE_MPK build: it misses no page and  *)
(* blames no access that was allowed.                                      *)
(***************************************************************************)
EXTENDS FaultPath, TLAPS

-----------------------------------------------------------------------------
(* The PKRU word.                                                          *)

\* The sixteen keys, one by one.
LEMMA KeyCases ==
  ASSUME NEW k \in AllKeys
  PROVE  \/ k = 0 \/ k = 1 \/ k = 2 \/ k = 3 \/ k = 4 \/ k = 5 \/ k = 6 \/ k = 7
         \/ k = 8 \/ k = 9 \/ k = 10 \/ k = 11 \/ k = 12 \/ k = 13 \/ k = 14 \/ k = 15
BY DEF AllKeys

\* Every key has a weight.
LEMMA ShiftedType == ASSUME NEW k \in AllKeys PROVE Shifted(k) \in Nat \ {0}
BY KeyCases DEF Shifted, Weights

\* The fields do not overlap: a higher key's weight is a multiple of four times a
\* lower key's.
LEMMA ShiftedApart ==
  ASSUME NEW i \in AllKeys, NEW j \in AllKeys, i < j
  PROVE  j - i - 1 \in AllKeys /\ Shifted(j) = 4 * Shifted(j - i - 1) * Shifted(i)
<1>1. j - i - 1 \in AllKeys
  BY DEF AllKeys
<1>2. Shifted(j) = 4 * Shifted(j - i - 1) * Shifted(i)
  BY KeyCases, Z3T(60) DEF Shifted, Weights, AllKeys
<1> QED
  BY <1>1, <1>2

\* Replacing the field of weight W: what is below it, it and what is above it.
LEMMA FieldRead ==
  ASSUME NEW W \in Nat \ {0}, NEW w \in Nat, NEW r \in 0 .. 3
  PROVE  ((w - ((w \div W) % 4) * W + r * W) \div W) % 4 = r
OBVIOUS

\* The word from the field up, after the field was replaced.
LEMMA FieldQuotient ==
  ASSUME NEW W \in Nat \ {0}, NEW w \in Nat, NEW r \in 0 .. 3
  PROVE  (w - ((w \div W) % 4) * W + r * W) \div W = (w \div W) - ((w \div W) % 4) + r
<1> DEFINE q == w \div W
           f == q % 4
           b == w % W
<1>1. w = q * W + b /\ b \in 0 .. (W - 1) /\ q \in Nat /\ f \in Nat
  OBVIOUS
<1> HIDE DEF q, f, b
<1>2. w - f * W + r * W = (q - f + r) * W + b
  BY <1>1
<1>3. \A a \in Int : (a * W + b) \div W = a
  BY <1>1
<1>4. (w - f * W + r * W) \div W = q - f + r
  BY <1>1, <1>2, <1>3
<1> QED
  BY <1>4, Zenon DEF q, f

\* The fields above the replaced one stay as they are,
LEMMA FieldAbove ==
  ASSUME NEW W \in Nat \ {0}, NEW w \in Nat, NEW r \in 0 .. 3
  PROVE  (w - ((w \div W) % 4) * W + r * W) \div (4 * W) = w \div (4 * W)
OBVIOUS

\* and so do those below it.
LEMMA FieldBelow ==
  ASSUME NEW W \in Nat \ {0}, NEW m \in Nat \ {0}, NEW w \in Nat, NEW d \in Int
  PROVE  (w + d * (4 * m * W)) \div W = (w \div W) + 4 * m * d
OBVIOUS

\* Shifting twice is shifting by both.
LEMMA QuotientTwice ==
  ASSUME NEW W \in Nat \ {0}, NEW w \in Nat, NEW m \in Nat \ {0}
  PROVE  w \div (m * W) = (w \div W) \div m
OBVIOUS

\* What comes out is a number.
LEMMA FieldNat ==
  ASSUME NEW W \in Nat \ {0}, NEW w \in Nat, NEW r \in 0 .. 3
  PROVE  w - ((w \div W) % 4) * W + r * W \in Nat
<1>1. ((w \div W) % 4) * W <= (w \div W) * W /\ (w \div W) * W <= w
  OBVIOUS
<1> QED
  BY <1>1

\* The shape of pkey_set for a key and rights in range.
LEMMA SetShape ==
  ASSUME NEW w \in Nat, NEW k \in AllKeys, NEW r \in Rights
  PROVE  /\ pkey_set(w, k, r) = w - ((w \div Shifted(k)) % 4) * Shifted(k) + r * Shifted(k)
         /\ pkey_set(w, k, r) \in Nat
         /\ pkey_get(w, k) = (w \div Shifted(k)) % 4
         /\ pkey_get(w, k) \in Rights
<1>1. pkey_get(w, k) = (w \div Shifted(k)) % 4
  BY DEF pkey_get
<1>2. pkey_set(w, k, r) = w - ((w \div Shifted(k)) % 4) * Shifted(k) + r * Shifted(k)
  BY <1>1 DEF pkey_set
<1>3. w - ((w \div Shifted(k)) % 4) * Shifted(k) + r * Shifted(k) \in Nat
  BY ShiftedType, FieldNat DEF Rights
<1>4. (w \div Shifted(k)) % 4 \in Rights
  BY ShiftedType DEF Rights
<1> QED
  BY <1>1, <1>2, <1>3, <1>4

\* The quotients above the field of key i do not change.
LEMMA SetAbove ==
  ASSUME NEW w \in Nat, NEW i \in AllKeys, NEW j \in AllKeys, i < j, NEW r \in Rights
  PROVE  pkey_set(w, i, r) \div Shifted(j) = w \div Shifted(j)
<1> DEFINE W == Shifted(i)
           m == Shifted(j - i - 1)
           v == pkey_set(w, i, r)
<1>1. W \in Nat \ {0} /\ m \in Nat \ {0} /\ Shifted(j) = 4 * m * W
  BY ShiftedType, ShiftedApart
<1>2. v \in Nat /\ v = w - ((w \div W) % 4) * W + r * W
  BY SetShape
<1> HIDE DEF W, m, v
<1>3. v \div (4 * W) = w \div (4 * W)
  BY <1>1, <1>2, FieldAbove DEF Rights
<1>4. 4 * W \in Nat \ {0} /\ Shifted(j) = m * (4 * W)
  BY <1>1
<1>5. v \div Shifted(j) = (v \div (4 * W)) \div m /\ w \div Shifted(j) = (w \div (4 * W)) \div m
  BY <1>1, <1>2, <1>4, QuotientTwice
<1> QED
  BY <1>3, <1>5 DEF v

\* A thread's register stays a 32-bit word (pkey_set, "*pkru & ~mask | ...").
LEMMA SetWord ==
  ASSUME NEW w, IsWord(w), NEW k \in AllKeys, NEW r \in Rights
  PROVE  IsWord(pkey_set(w, k, r))
<1>1. w \in Nat /\ 15 \in AllKeys /\ pkey_set(w, k, r) \in Nat
  <2>1. w \in Nat
    BY DEF IsWord
  <2>2. pkey_set(w, k, r) \in Nat
    BY <2>1, SetShape
  <2> QED
    BY <2>1, <2>2 DEF AllKeys
<1>2. CASE k = 15
  <2> DEFINE W == Shifted(15)
             q == w \div W
  <2>1. W \in Nat \ {0} /\ q \in Rights
    BY <1>1, ShiftedType DEF IsWord
  <2>2. pkey_set(w, k, r) = w - (q % 4) * W + r * W
    BY <1>1, <1>2, SetShape
  <2>3. (w - ((w \div W) % 4) * W + r * W) \div W = (w \div W) - ((w \div W) % 4) + r
    <3> HIDE DEF W
    <3> QED
      BY <1>1, <2>1, FieldQuotient DEF Rights
  <2>4. pkey_set(w, k, r) \div W = q - (q % 4) + r
    BY <2>2, <2>3
  <2> HIDE DEF q, W
  <2>5. q - (q % 4) + r = r
    BY <2>1 DEF Rights
  <2> QED
    BY <1>1, <2>4, <2>5 DEF IsWord, W
<1>3. CASE k < 15
  BY <1>1, <1>3, SetAbove DEF IsWord
<1> QED
  BY <1>2, <1>3 DEF AllKeys

\* pkey_get after pkey_set: the key that was set has its new right, and every
\* other key the right it had.  The shifts and masks of the two functions agree
\* on where each key lies.
THEOREM KeysIsolated ==
  ASSUME NEW w \in Nat, NEW k \in AllKeys, NEW r \in Rights, NEW j \in AllKeys
  PROVE  pkey_get(pkey_set(w, k, r), j) = IF j = k THEN r ELSE pkey_get(w, j)
<1> DEFINE v == pkey_set(w, k, r)
<1>0. v \in Nat /\ pkey_get(v, j) = (v \div Shifted(j)) % 4 /\ pkey_get(w, j) = (w \div Shifted(j)) % 4
  BY SetShape DEF pkey_get
<1>1. CASE j = k
  <2>1. v = w - ((w \div Shifted(k)) % 4) * Shifted(k) + r * Shifted(k)
    BY SetShape
  <2>2. ((w - ((w \div Shifted(k)) % 4) * Shifted(k) + r * Shifted(k)) \div Shifted(k)) % 4 = r
    BY ShiftedType, FieldRead DEF Rights
  <2> QED
    BY <1>0, <1>1, <2>1, <2>2
<1>2. CASE k < j
  <2>1. v \div Shifted(j) = w \div Shifted(j)
    BY <1>2, SetAbove
  <2> QED
    BY <1>0, <1>2, <2>1 DEF AllKeys
<1>3. CASE j < k
  <2> DEFINE W == Shifted(j)
             m == Shifted(k - j - 1)
             d == r - ((w \div Shifted(k)) % 4)
  <2>1. W \in Nat \ {0} /\ m \in Nat \ {0} /\ Shifted(k) = 4 * m * W
    BY <1>3, ShiftedType, ShiftedApart
  <2>2. d \in Int /\ (w \div Shifted(k)) % 4 \in Rights
    <3>1. Shifted(k) \in Nat \ {0}
      BY ShiftedType
    <3>2. ASSUME NEW S \in Nat \ {0} PROVE (w \div S) % 4 \in Rights
      BY DEF Rights
    <3>3. (w \div Shifted(k)) % 4 \in Rights
      BY <3>1, <3>2, Zenon
    <3> QED
      BY <3>3 DEF Rights
  <2>3. v = w + d * Shifted(k)
    <3> DEFINE S == Shifted(k)
               q == (w \div S) % 4
    <3>0. v = w - q * S + r * S
      BY SetShape, Zenon
    <3>1. S \in Nat \ {0} /\ q \in Int /\ d = r - q
      BY <2>2, ShiftedType DEF Rights
    <3> HIDE DEF S, q, d, v
    <3>2. r \in Int /\ v = w + (r - q) * S
      BY <3>0, <3>1 DEF Rights
    <3> QED
      BY <3>1, <3>2 DEF S
  <2> HIDE DEF W, m, d
  <2>4. v = w + d * (4 * m * W)
    BY <2>1, <2>3
  <2>5. (w + d * (4 * m * W)) \div W = (w \div W) + 4 * m * d
    BY <2>1, <2>2, FieldBelow
  <2>6. ((w \div W) + 4 * m * d) % 4 = (w \div W) % 4
    BY <2>1, <2>2
  <2> QED
    BY <1>0, <1>3, <2>4, <2>5, <2>6 DEF W, AllKeys
<1> QED
  BY <1>1, <1>2, <1>3 DEF AllKeys

\* Writing back what pkey_get returned before the key was opened restores the
\* whole word: what enableThreadMPK does to what disableThreadMPK did.
THEOREM SetBack ==
  ASSUME NEW w \in Nat, NEW k \in AllKeys, NEW r \in Rights
  PROVE  pkey_set(pkey_set(w, k, r), k, pkey_get(w, k)) = w
<1> DEFINE W == Shifted(k)
           v == pkey_set(w, k, r)
           q == pkey_get(w, k)
<1>1. W \in Nat \ {0} /\ v \in Nat /\ q \in Rights /\ v = w - q * W + r * W
  BY ShiftedType, SetShape
<1>2. pkey_get(v, k) = r
  BY KeysIsolated
<1>3. pkey_set(v, k, q) = v - r * W + q * W
  BY <1>1, <1>2 DEF pkey_set
<1> HIDE DEF W, v, q
<1>4. v - r * W + q * W = w
  BY <1>1 DEF Rights
<1> QED
  BY <1>3, <1>4 DEF v, q

-----------------------------------------------------------------------------
(* Single stepping.                                                        *)

\* A thread's register after a key was set in it.
LEMMA SetInThread ==
  ASSUME NEW f \in [Tids -> Nat], \A u \in Tids : IsWord(f[u]),
         NEW t \in Tids, NEW k \in AllKeys, NEW r \in Rights, NEW g,
         g = [f EXCEPT ![t] = pkey_set(@, k, r)]
  PROVE  g \in [Tids -> Nat] /\ \A u \in Tids : IsWord(g[u])
<1>1. IsWord(pkey_set(f[t], k, r))
  BY SetWord
<1>2. \A u \in Tids : g[u] = IF u = t THEN pkey_set(f[t], k, r) ELSE f[u]
  OBVIOUS
<1>3. \A u \in Tids : IsWord(g[u])
  BY <1>1, <1>2, Zenon
<1>4. \A u \in Tids : g[u] \in Nat
  BY <1>3 DEF IsWord
<1> QED
  BY <1>3, <1>4

\* Every variable keeps its type, with any number of threads.
THEOREM TypeCorrect == Spec => []TypeOK
<1>0. Keys \subseteq AllKeys /\ 0 \in Keys /\ AppRights \subseteq Rights /\ PKEY_ENABLE_ACCESS \in Rights
  BY KeysAssumption, RightsAssumption DEF PKEY_ENABLE_ACCESS, Rights
<1>1. Init => TypeOK
  <2> SUFFICES ASSUME Init PROVE TypeOK
    OBVIOUS
  <2>1. IsWord(InitPkru)
    BY DEF IsWord, InitPkru, Shifted, Weights, Rights
  <2>2. \A t \in Tids : pkru[t] = InitPkru /\ app[t] = InitPkru
    BY DEF Init
  <2>3. {pkru, app} \subseteq [Tids -> Nat] /\ \A t \in Tids : IsWord(pkru[t]) /\ IsWord(app[t])
    BY <2>1, <2>2 DEF Init, IsWord
  <2> QED
    BY <2>3, KeysAssumption DEF Init, TypeOK, NoInstr
<1>2. TypeOK /\ [Next]_vars => TypeOK'
  <2> SUFFICES ASSUME TypeOK, [Next]_vars PROVE TypeOK'
    OBVIOUS
  <2> DEFINE Word(f) == f \in [Tids -> Nat] /\ \A u \in Tids : IsWord(f[u])
             RestOK ==
               /\ DOMAIN pkey_by_tid_map \subseteq Tids
               /\ pkey_by_tid_map \in [DOMAIN pkey_by_tid_map -> [pkey : Keys, access_rights : Rights]]
               /\ lost \in [Tids -> SUBSET Keys]
               /\ TF \in [Tids -> BOOLEAN]
               /\ pageKey \in [Pages -> Keys]
               /\ pc \in [Tids -> {"run", "instr", "segv", "trap"}]
               /\ instr \in [Tids -> [pages : SUBSET Pages, write : BOOLEAN]]
               /\ fault \in [Tids -> [page : SUBSET Pages, key : Keys]]
  <2>a. Word(pkru) /\ Word(app) /\ RestOK
    BY DEF TypeOK
  <2>b. Word(pkru') /\ Word(app') /\ RestOK' => TypeOK'
    BY DEF TypeOK
  <2>c. \A t \in Tids, k \in AllKeys, r \in Rights :
          /\ pkru' = [pkru EXCEPT ![t] = pkey_set(@, k, r)] => Word(pkru')
          /\ app' = [app EXCEPT ![t] = pkey_set(@, k, r)] => Word(app')
    BY <2>a, SetInThread
  <2> HIDE DEF Word
  <2>1. CASE UNCHANGED vars
    BY <2>1, <2>a, <2>b DEF vars
  <2>2. ASSUME NEW t \in Tids, NEW k \in Keys \ {0}, NEW r \in AppRights, SetRights(t, k, r) PROVE TypeOK'
    <3>1. Word(pkru') /\ Word(app')
      BY <1>0, <2>2, <2>c DEF SetRights
    <3> QED
      BY <2>2, <3>1, <2>a, <2>b DEF SetRights
  <2>3. ASSUME NEW t \in Tids, NEW i \in Instrs, Issue(t, i) PROVE TypeOK'
    BY <2>3, <2>a, <2>b, InstrsAssumption DEF Issue
  <2>4. ASSUME NEW t \in Tids, NEW g \in Pages, RaiseSegv(t, g) PROVE TypeOK'
    BY <2>4, <2>a, <2>b DEF RaiseSegv
  <2>5. ASSUME NEW t \in Tids, Retire(t) PROVE TypeOK'
    <3>1. NoInstr \in [pages : SUBSET Pages, write : BOOLEAN]
      BY DEF NoInstr
    <3> QED
      BY <2>5, <3>1, <2>a, <2>b DEF Retire
  <2>6. ASSUME NEW t \in Tids, disable_mpk(t) PROVE TypeOK'
    <3>0. fault[t].key \in Keys /\ [page |-> {}, key |-> 0] \in [page : SUBSET Pages, key : Keys]
      BY <2>a, KeysAssumption
    <3>1. CASE ~PAGE_MPK
      <4> DEFINE info == PendingPKeyInfo(fault[t].key, pkey_get(pkru[t], fault[t].key))
      <4>1. /\ storePendingPKeyInfo(t, info)
            /\ pkru' = [pkru EXCEPT ![t] = pkey_set(@, fault[t].key, PKEY_ENABLE_ACCESS)]
            /\ TF' = [TF EXCEPT ![t] = TRUE] /\ UNCHANGED <<pageKey, app, instr>>
            /\ pc' = [pc EXCEPT ![t] = "instr"] /\ fault' = [fault EXCEPT ![t] = [page |-> {}, key |-> 0]]
        BY <2>6, <3>1 DEF disable_mpk, disableThreadMPK
      <4>2. Word(pkru') /\ Word(app')
        BY <4>1, <2>a, <2>c, <1>0, <3>0
      <4>3. info \in [pkey : Keys, access_rights : Rights]
        <5>1. pkru[t] \in Nat /\ fault[t].key \in AllKeys
          BY <1>0, <3>0, <2>a DEF Word
        <5>2. pkey_get(pkru[t], fault[t].key) \in Rights
          BY <5>1, <1>0, SetShape
        <5> QED
          BY <3>0, <5>2 DEF PendingPKeyInfo
      <4> HIDE DEF info
      <4>4. /\ DOMAIN pkey_by_tid_map' \subseteq Tids
            /\ pkey_by_tid_map' \in [DOMAIN pkey_by_tid_map' -> [pkey : Keys, access_rights : Rights]]
        <5>1. CASE t \in DOMAIN pkey_by_tid_map
          BY <4>1, <5>1, <2>a DEF storePendingPKeyInfo
        <5>2. CASE t \notin DOMAIN pkey_by_tid_map
          <6>1. pkey_by_tid_map' = [x \in DOMAIN pkey_by_tid_map \cup {t} |-> IF x = t THEN info ELSE pkey_by_tid_map[x]]
            BY <4>1, <5>2 DEF storePendingPKeyInfo
          <6> QED
            BY <4>3, <6>1, <2>a
        <5> QED
          BY <5>1, <5>2
      <4>5. lost' \in [Tids -> SUBSET Keys]
        BY <4>1, <4>3, <2>a DEF storePendingPKeyInfo
      <4> QED
        BY <4>1, <4>2, <4>4, <4>5, <3>0, <2>a, <2>b
    <3>2. CASE PAGE_MPK
      BY <2>6, <3>0, <3>2, <2>a, <2>b, KeysAssumption DEF disable_mpk, disablePageMPK
    <3> QED
      BY <3>1, <3>2
  <2>7. ASSUME NEW t \in Tids, pku_trap_handler(t) PROVE TypeOK'
    <3>1. NoInstr \in [pages : SUBSET Pages, write : BOOLEAN]
      BY DEF NoInstr
    <3>0. lost' \in [Tids -> SUBSET Keys]
      <4>1. \A u \in Tids : Pending(u) \subseteq Keys
        BY <2>a DEF Pending
      <4> QED
        BY <2>7, <4>1, <2>a, MainAssumption DEF pku_trap_handler, LostAtTrap
    <3>2. CASE Main \in DOMAIN pkey_by_tid_map
      <4> DEFINE info == pkey_by_tid_map[Main]
      <4>1. /\ pkru' = [pkru EXCEPT ![t] = pkey_set(@, info.pkey, info.access_rights)]
            /\ pkey_by_tid_map' = [x \in DOMAIN pkey_by_tid_map \ {Main} |-> pkey_by_tid_map[x]]
        BY <2>7, <3>2 DEF pku_trap_handler, enableThreadMPK, Restrict
      <4>2. info.pkey \in AllKeys /\ info.access_rights \in Rights
        BY <3>2, <2>a, <1>0
      <4> HIDE DEF info
      <4>3. Word(pkru') /\ Word(app')
        <5>1. app' = app
          BY <2>7 DEF pku_trap_handler
        <5>2. Word(pkru')
          BY <4>1, <4>2, <2>c
        <5> QED
          BY <5>1, <5>2, <2>a
      <4> QED
        BY <2>7, <3>0, <3>1, <4>1, <4>3, <2>a, <2>b DEF pku_trap_handler
    <3>3. CASE Main \notin DOMAIN pkey_by_tid_map
      BY <2>7, <3>0, <3>1, <3>3, <2>a, <2>b DEF pku_trap_handler
    <3> QED
      BY <3>2, <3>3
  <2> QED
    BY <2>1, <2>2, <2>3, <2>4, <2>5, <2>6, <2>7 DEF Next, Cpu, Handle
<1> QED
  BY <1>1, <1>2, PTL DEF Spec

\* A step of thread t.
StepOf(t) ==
  \/ \E k \in Keys \ {0}, r \in AppRights : SetRights(t, k, r)
  \/ \E i \in Instrs : Issue(t, i)
  \/ Cpu(t)
  \/ Handle(t)

\* What pkey_set does to the keys of the program.
LEMMA SetKey ==
  ASSUME NEW w \in Nat, NEW k \in Keys, NEW r \in Rights
  PROVE  \A j \in Keys : pkey_get(pkey_set(w, k, r), j) = IF j = k THEN r ELSE pkey_get(w, j)
BY KeysIsolated, KeysAssumption

\* A thread that a step leaves alone keeps its part of StepInv, also when its entry of
\* pkey_by_tid_map is taken, if that is counted as a loss.
LEMMA ThreadKept ==
  ASSUME NEW u \in Tids, ThreadInv(u), pageKey' = pageKey,
         pkru'[u] = pkru[u], app'[u] = app[u], TF'[u] = TF[u], pc'[u] = pc[u],
         instr'[u] = instr[u], fault'[u] = fault[u], lost[u] \subseteq lost'[u],
         Pending(u) \subseteq Pending(u)' \cup lost'[u]
  PROVE  ThreadInv(u)'
BY DEF ThreadInv, Differs, KeysOf

\* So does the main thread with MainInv.
LEMMA MainKept ==
  ASSUME MainInv, pkru'[Main] = pkru[Main], app'[Main] = app[Main], TF'[Main] = TF[Main],
         \/ /\ lost'[Main] = lost[Main]
            /\ Main \in DOMAIN pkey_by_tid_map' <=> Main \in DOMAIN pkey_by_tid_map
            /\ Main \in DOMAIN pkey_by_tid_map => pkey_by_tid_map'[Main] = pkey_by_tid_map[Main]
         \/ lost'[Main] = lost[Main] \cup Pending(Main) /\ Main \notin DOMAIN pkey_by_tid_map'
  PROVE  MainInv'
BY DEF MainInv, Pending

\* What a step of thread t leaves alone in the others, but for what a trap of a worker
\* does to the entry of the main thread.
OthersKept(t) ==
  /\ pageKey' = pageKey
  /\ \A u \in Tids \ {t} :
       /\ pkru'[u] = pkru[u] /\ app'[u] = app[u] /\ TF'[u] = TF[u] /\ pc'[u] = pc[u]
       /\ instr'[u] = instr[u] /\ fault'[u] = fault[u]

\* Every step of the single-step build is of that kind.
LEMMA StepKeepsOthers ==
  ASSUME ~PAGE_MPK, TypeOK, NEW t \in Tids, StepOf(t)
  PROVE  OthersKept(t)
<1> USE DEF TypeOK, OthersKept
<1>1. ASSUME NEW k \in Keys \ {0}, NEW r \in AppRights, SetRights(t, k, r) PROVE OthersKept(t)
  BY <1>1 DEF SetRights
<1>2. ASSUME NEW i \in Instrs, Issue(t, i) PROVE OthersKept(t)
  BY <1>2 DEF Issue
<1>3. ASSUME Cpu(t) PROVE OthersKept(t)
  BY <1>3 DEF Cpu, Retire, RaiseSegv
<1>4. ASSUME disable_mpk(t) PROVE OthersKept(t)
  BY <1>4 DEF disable_mpk, disableThreadMPK
<1>5. ASSUME pku_trap_handler(t) PROVE OthersKept(t)
  BY <1>5 DEF pku_trap_handler, enableThreadMPK
<1> QED
  BY <1>1, <1>2, <1>3, <1>4, <1>5 DEF StepOf, Handle

\* Whoever keeps the map and what is lost keeps the others' part of StepInv.
LEMMA QuietStep ==
  ASSUME TypeOK, StepInv, NEW t \in Tids, OthersKept(t), UNCHANGED pkey_by_tid_map,
         \A u \in Tids \ {t} : lost'[u] = lost[u]
  PROVE  /\ pageKey' = KeyOf
         /\ \A u \in Tids \ {t} : ThreadInv(u)'
         /\ t # Main => MainInv'
<1>1. \A u \in Tids \ {t} : ThreadInv(u)'
  <2> SUFFICES ASSUME NEW u \in Tids \ {t} PROVE ThreadInv(u)'
    OBVIOUS
  <2>1. ThreadInv(u) /\ Pending(u)' = Pending(u)
    BY DEF StepInv, Pending
  <2> QED
    BY <2>1, ThreadKept DEF OthersKept
<1>2. t # Main => MainInv'
  BY MainAssumption, MainKept DEF StepInv, OthersKept
<1> QED
  BY <1>1, <1>2 DEF StepInv, OthersKept

\* SetRights makes good what was lost of its key.
LEMMA SetRightsStep ==
  ASSUME ~PAGE_MPK, TypeOK, StepInv, NEW t \in Tids, NEW k \in Keys \ {0}, NEW r \in AppRights, SetRights(t, k, r)
  PROVE  StepInv'
<1>1. /\ pc[t] = "run" /\ pc' = pc /\ TF' = TF /\ instr' = instr /\ pkey_by_tid_map' = pkey_by_tid_map
      /\ pkru'[t] = pkey_set(pkru[t], k, r) /\ app'[t] = pkey_set(app[t], k, r)
      /\ lost'[t] = lost[t] \ {k} /\ \A u \in Tids \ {t} : lost'[u] = lost[u]
  BY DEF SetRights, TypeOK
<1>2. ~TF[t]
  BY <1>1 DEF StepInv, ThreadInv
<1>3. \A j \in Keys : /\ pkey_get(pkru'[t], j) = IF j = k THEN r ELSE pkey_get(pkru[t], j)
                      /\ pkey_get(app'[t], j) = IF j = k THEN r ELSE pkey_get(app[t], j)
  BY <1>1, SetKey, RightsAssumption DEF TypeOK
<1>4. \A j \in Keys : Differs(t, j) => j \in lost[t]
  BY <1>2 DEF StepInv, ThreadInv
<1>5. ThreadInv(t)'
  BY <1>1, <1>2, <1>3, <1>4 DEF ThreadInv, Differs
<1>6. t = Main => MainInv'
  <2> SUFFICES ASSUME t = Main PROVE MainInv'
    OBVIOUS
  <2>1. Main \notin DOMAIN pkey_by_tid_map'
    BY <1>1, <1>2 DEF StepInv, MainInv
  <2>2. \A j \in lost'[Main] : j \in Keys /\ pkey_get(pkru'[Main], j) = 0
    BY <1>1, <1>3 DEF StepInv, MainInv, TypeOK
  <2> QED
    BY <2>1, <2>2 DEF MainInv, Pending
<1>7. OthersKept(t)
  BY StepKeepsOthers DEF StepOf
<1>8. pageKey' = KeyOf /\ (\A u \in Tids \ {t} : ThreadInv(u)') /\ (t # Main => MainInv')
  BY <1>1, <1>7, QuietStep
<1> QED
  BY <1>5, <1>6, <1>8 DEF StepInv

\* An instruction is issued when no trap is to come; it faults on a key that is not
\* open; it retires into the trap that its flag asks for.
LEMMA CpuStep ==
  ASSUME ~PAGE_MPK, TypeOK, StepInv, NEW t \in Tids, Cpu(t) \/ \E i \in Instrs : Issue(t, i)
  PROVE  StepInv'
<1>1. UNCHANGED <<pkru, app, pkey_by_tid_map, lost, TF, pageKey>>
  BY DEF Cpu, Retire, RaiseSegv, Issue
<1>2. MainInv'
  BY <1>1, MainKept DEF StepInv
<1>3. OthersKept(t)
  BY StepKeepsOthers DEF StepOf
<1>4. pageKey' = KeyOf /\ \A u \in Tids \ {t} : ThreadInv(u)'
  BY <1>1, <1>3, QuietStep
<1>5. ThreadInv(t) /\ Pending(t)' = Pending(t)
  BY <1>1 DEF StepInv, Pending
<1>6. ASSUME NEW i \in Instrs, Issue(t, i) PROVE ThreadInv(t)'
  <2>1. pc[t] = "run" /\ pc'[t] = "instr" /\ ~TF[t]
    BY <1>5, <1>6 DEF Issue, ThreadInv, TypeOK
  <2> QED
    BY <1>1, <1>5, <2>1 DEF ThreadInv, Differs
<1>7. ASSUME NEW g \in Pages, RaiseSegv(t, g) PROVE ThreadInv(t)'
  <2>1. /\ pc'[t] = "segv" /\ fault'[t].key = pageKey[g] /\ instr' = instr /\ g \in instr[t].pages
        /\ pkey_get(pkru[t], pageKey[g]) # 0
    BY <1>7 DEF RaiseSegv, Denied, TypeOK, AccessDisabled, WriteDisabled
  <2> QED
    BY <1>1, <1>5, <2>1 DEF ThreadInv, Differs, KeysOf
<1>8. ASSUME Retire(t) PROVE ThreadInv(t)'
  <2>1. /\ pc'[t] = IF TF[t] THEN "trap" ELSE "run"
        /\ TF[t] => instr'[t] = instr[t]
    BY <1>8 DEF Retire, TypeOK
  <2> QED
    BY <1>1, <1>5, <2>1 DEF ThreadInv, Differs, KeysOf
<1> QED
  BY <1>2, <1>4, <1>6, <1>7, <1>8 DEF StepInv, Cpu

\* disable_mpk opens the key and either keeps its old rights or counts them as lost.
LEMMA SegvStep ==
  ASSUME ~PAGE_MPK, TypeOK, StepInv, NEW t \in Tids, disable_mpk(t)
  PROVE  StepInv'
<1> DEFINE k == fault[t].key
           map == pkey_by_tid_map
<1>1. /\ storePendingPKeyInfo(t, PendingPKeyInfo(k, pkey_get(pkru[t], k)))
      /\ pkru'[t] = pkey_set(pkru[t], k, 0) /\ app' = app /\ TF'[t] /\ pc[t] = "segv" /\ pc'[t] = "instr"
      /\ instr' = instr /\ pageKey' = pageKey
  BY DEF disable_mpk, disableThreadMPK, PKEY_ENABLE_ACCESS, TypeOK
<1>2. k \in Keys /\ k \in KeysOf(instr[t]) /\ pkey_get(pkru[t], k) # 0 /\ ThreadInv(t)
  BY <1>1 DEF StepInv, ThreadInv, TypeOK
<1>3. \A j \in Keys : pkey_get(pkru'[t], j) = IF j = k THEN 0 ELSE pkey_get(pkru[t], j)
  BY <1>1, <1>2, SetKey DEF TypeOK, Rights
<1>4. CASE t \in DOMAIN map
  <2>1. map' = map /\ lost'[t] = lost[t] \cup {k} /\ \A u \in Tids \ {t} : lost'[u] = lost[u]
    BY <1>1, <1>4 DEF storePendingPKeyInfo, PendingPKeyInfo, TypeOK
  <2> HIDE DEF k
  <2>2. ThreadInv(t)'
    BY <1>1, <1>2, <1>3, <2>1 DEF ThreadInv, Differs, KeysOf, Pending
  <2>3. t = Main => MainInv'
    <3> SUFFICES ASSUME t = Main PROVE MainInv'
      OBVIOUS
    <3>1. Pending(Main)' = Pending(Main) /\ Pending(Main) \subseteq Keys /\ lost[Main] \subseteq Keys
      BY <2>1, MainAssumption DEF Pending, TypeOK
    <3>2. \A j \in lost'[Main] \cup Pending(Main) : pkey_get(pkru'[Main], j) = 0
      BY <1>2, <1>3, <2>1, <3>1 DEF StepInv, MainInv
    <3>3. \A j \in Pending(Main) : j # k /\ j \notin lost'[Main]
      BY <1>2, <2>1 DEF StepInv, MainInv
    <3> QED
      BY <1>1, <2>1, <3>1, <3>2, <3>3 DEF StepInv, MainInv
  <2>4. OthersKept(t)
    BY StepKeepsOthers DEF StepOf, Handle
  <2>5. pageKey' = KeyOf /\ (\A u \in Tids \ {t} : ThreadInv(u)') /\ (t # Main => MainInv')
    BY <2>1, <2>4, QuietStep
  <2> QED
    BY <2>2, <2>3, <2>5 DEF StepInv
<1>5. CASE t \notin DOMAIN map
  <2> DEFINE info == PendingPKeyInfo(k, pkey_get(pkru[t], k))
  <2>1. /\ map' = [x \in DOMAIN map \cup {t} |-> IF x = t THEN info ELSE map[x]] /\ lost' = lost
        /\ info.pkey = k /\ info.access_rights = pkey_get(pkru[t], k)
    BY <1>1, <1>5 DEF storePendingPKeyInfo, PendingPKeyInfo
  <2> HIDE DEF k, info
  <2>2. Pending(t) = {} /\ Pending(t)' = {k} /\ \A u \in Tids \ {t} : Pending(u)' = Pending(u)
    BY <1>5, <2>1 DEF Pending
  <2>3. ThreadInv(t)'
    BY <1>1, <1>2, <1>3, <2>1, <2>2 DEF ThreadInv, Differs, KeysOf
  <2>4. OthersKept(t)
    BY StepKeepsOthers DEF StepOf, Handle
  <2>5. \A u \in Tids \ {t} : ThreadInv(u)'
    BY <2>1, <2>2, <2>4, ThreadKept DEF StepInv, OthersKept
  <2>6. t = Main => MainInv'
    <3> SUFFICES ASSUME t = Main PROVE MainInv'
      OBVIOUS
    <3>1. k \notin lost[Main] /\ pkey_get(pkru[Main], k) = pkey_get(app[Main], k)
      BY <1>2, <2>2 DEF StepInv, MainInv, ThreadInv, Differs
    <3>2. \A j \in lost[Main] \cup {k} : pkey_get(pkru'[Main], j) = 0
      BY <1>2, <1>3 DEF StepInv, MainInv, TypeOK
    <3> QED
      BY <1>1, <2>1, <2>2, <3>1, <3>2 DEF MainInv
  <2>7. t # Main => MainInv'
    BY <2>1, <2>4, MainAssumption, MainKept DEF StepInv, OthersKept
  <2> QED
    BY <1>1, <2>3, <2>5, <2>6, <2>7 DEF StepInv
<1> QED
  BY <1>4, <1>5

\* pku_trap_handler brings the main thread's key back, in the main thread; in a worker
\* both entries are lost.
LEMMA TrapStep ==
  ASSUME ~PAGE_MPK, TypeOK, StepInv, NEW t \in Tids, pku_trap_handler(t)
  PROVE  StepInv'
<1> DEFINE map == pkey_by_tid_map
           p == map[Main].pkey
           rights == map[Main].access_rights
<1>1. /\ ~TF'[t] /\ pc'[t] = "run" /\ app' = app /\ pageKey' = pageKey /\ lost' = LostAtTrap(t)
      /\ Main \notin DOMAIN map'
      /\ \A u \in Tids \ {Main} : Pending(u)' = Pending(u)
  <2>1. DOMAIN map' = DOMAIN map \ {Main} /\ \A u \in DOMAIN map \ {Main} : map'[u] = map[u]
    BY DEF pku_trap_handler, Restrict
  <2>2. /\ ~TF'[t] /\ pc'[t] = "run" /\ app' = app /\ pageKey' = pageKey /\ lost' = LostAtTrap(t)
    BY DEF pku_trap_handler, TypeOK
  <2>3. \A u \in Tids \ {Main} : Pending(u)' = Pending(u)
    BY <2>1 DEF Pending
  <2> QED
    BY <2>1, <2>2, <2>3
<1>2. /\ Main \in DOMAIN map => /\ p \in Keys /\ rights \in Rights
                                /\ pkru'[t] = pkey_set(pkru[t], p, rights)
                                /\ \A j \in Keys : pkey_get(pkru'[t], j) = IF j = p THEN rights ELSE pkey_get(pkru[t], j)
      /\ Main \notin DOMAIN map => pkru' = pkru
  <2>1. ASSUME Main \in DOMAIN map
        PROVE  p \in Keys /\ rights \in Rights /\ pkru'[t] = pkey_set(pkru[t], p, rights)
    BY <2>1 DEF pku_trap_handler, enableThreadMPK, TypeOK
  <2>2. ASSUME Main \in DOMAIN map
        PROVE  \A j \in Keys : pkey_get(pkru'[t], j) = IF j = p THEN rights ELSE pkey_get(pkru[t], j)
    <3> HIDE DEF p, rights
    <3> QED
      BY <2>1, <2>2, SetKey DEF TypeOK
  <2>3. Main \notin DOMAIN map => pkru' = pkru
    BY DEF pku_trap_handler
  <2> QED
    BY <2>1, <2>2, <2>3
<1>3. /\ Main \in DOMAIN map => Pending(Main) = {p}
      /\ Main \notin DOMAIN map => Pending(Main) = {}
      /\ Pending(Main)' = {}
  BY <1>1 DEF Pending
<1>4. OthersKept(t)
  BY StepKeepsOthers DEF StepOf, Handle
<1>5. ThreadInv(t)
  BY DEF StepInv
<1>6. CASE t = Main
  <2>1. lost' = lost
    BY <1>1, <1>6 DEF LostAtTrap
  <2>2. Main \in DOMAIN map => p \notin lost[Main] /\ rights = pkey_get(app[Main], p)
    BY <1>3 DEF StepInv, MainInv
  <2> HIDE DEF p, rights
  <2>3. \A j \in Keys : Differs(Main, j)' => j \in lost'[Main]
    BY <1>1, <1>2, <1>3, <1>5, <1>6, <2>1, <2>2 DEF ThreadInv, Differs
  <2>4. ThreadInv(Main)'
    BY <1>1, <1>6, <2>3 DEF ThreadInv
  <2>5. \A j \in lost[Main] : pkey_get(pkru'[Main], j) = 0
    BY <1>2, <1>6, <2>2 DEF StepInv, MainInv, TypeOK
  <2>6. MainInv'
    BY <1>1, <1>3, <2>1, <2>5 DEF MainInv
  <2>7. \A u \in Tids \ {t} : ThreadInv(u)'
    BY <1>1, <1>4, <1>6, <2>1, ThreadKept DEF StepInv, OthersKept
  <2> QED
    BY <1>1, <1>6, <2>4, <2>6, <2>7 DEF StepInv
<1>7. CASE t # Main
  <2>1. /\ lost'[t] = lost[t] \cup Pending(t) \cup Pending(Main)
        /\ lost'[Main] = lost[Main] \cup Pending(Main)
        /\ \A u \in Tids \ {t, Main} : lost'[u] = lost[u]
    BY <1>1, <1>7, MainAssumption DEF LostAtTrap, TypeOK
  <2> HIDE DEF p, rights
  <2>2. \A j \in Keys : Differs(t, j)' => j \in lost'[t]
    BY <1>1, <1>2, <1>3, <1>5, <2>1 DEF ThreadInv, Differs
  <2>3. ThreadInv(t)'
    BY <1>1, <2>2 DEF ThreadInv
  <2>4. MainInv'
    BY <1>1, <1>4, <1>7, <2>1, MainAssumption, MainKept DEF StepInv, OthersKept
  <2>5. ASSUME NEW u \in Tids \ {t} PROVE ThreadInv(u)'
    <3>1. lost[u] \subseteq lost'[u] /\ Pending(u) \subseteq Pending(u)' \cup lost'[u]
      BY <1>1, <1>3, <2>1, <2>5
    <3> QED
      BY <1>4, <3>1, ThreadKept DEF StepInv, OthersKept
  <2> QED
    BY <1>1, <2>3, <2>4, <2>5 DEF StepInv
<1> QED
  BY <1>6, <1>7

\* StepInv is inductive.
LEMMA StepInvStep ==
  ASSUME ~PAGE_MPK, TypeOK, StepInv, [Next]_vars
  PROVE  StepInv'
<1>1. CASE UNCHANGED vars
  BY <1>1 DEF vars, StepInv, ThreadInv, MainInv, Differs, KeysOf, Pending
<1>2. ASSUME NEW t \in Tids, StepOf(t) PROVE StepInv'
  BY <1>2, SetRightsStep, CpuStep, SegvStep, TrapStep DEF StepOf, Handle
<1> QED
  BY <1>1, <1>2 DEF Next, StepOf

\* In the single-step build, whatever the threads, keys, pages and instructions.
THEOREM StepInvCorrect ==
  ASSUME ~PAGE_MPK
  PROVE  Spec => [](TypeOK /\ StepInv)
<1>1. Init => StepInv
  <2> SUFFICES ASSUME Init PROVE StepInv
    OBVIOUS
  <2>1. \A t \in Tids : ThreadInv(t)
    BY DEF Init, ThreadInv, Differs
  <2>2. MainInv
    BY MainAssumption DEF Init, MainInv, Pending
  <2> QED
    BY <2>1, <2>2 DEF Init, StepInv
<1>2. TypeOK /\ StepInv /\ [Next]_vars => StepInv'
  BY StepInvStep
<1> QED
  BY <1>1, <1>2, TypeCorrect, PTL DEF Spec

\* In the single-step build every thread gets back after a fault exactly the rights it
\* had, but for the keys whose old rights the handlers lost: those of a second fault
\* before the trap, and those of a worker's trap.  For any number of threads, keys,
\* pages and instructions.
THEOREM RightsCorrect ==
  ASSUME ~PAGE_MPK
  PROVE  Spec => []RightsRestored
<1>1. StepInv => RightsRestored
  BY DEF StepInv, ThreadInv, RightsRestored
<1> QED
  BY <1>1, StepInvCorrect, PTL

\* In the single-step build nothing of a fault stays behind in a thread that is between
\* instructions, nor an entry of the main thread in pkey_by_tid_map.
THEOREM NothingLeftCorrect ==
  ASSUME ~PAGE_MPK
  PROVE  Spec => []NothingLeft
<1>1. StepInv => NothingLeft
  BY DEF StepInv, ThreadInv, MainInv, NothingLeft
<1> QED
  BY <1>1, StepInvCorrect, PTL

-----------------------------------------------------------------------------
(* When nothing is lost.                                                   *)

\* No instruction touches pages of two keys.
OneKey == \A i \in Instrs : \A g, h \in i.pages : KeyOf[g] = KeyOf[h]

\* No SIGTRAP of a worker takes the main thread's entry of pkey_by_tid_map: the
\* worker traps when there is none (getAndRemove(getpid()) then finds nothing).
WorkersKeepOff == \A t \in Tids \ {Main} : pku_trap_handler(t) => Main \notin DOMAIN pkey_by_tid_map

\* With an entry in the map the key of the instruction in flight is open.
MainLostInv ==
  /\ lost[Main] = {}
  /\ instr[Main] \in Instrs \cup {NoInstr}
  /\ Main \in DOMAIN pkey_by_tid_map => pc[Main] \in {"instr", "trap"} /\ Pending(Main) \subseteq KeysOf(instr[Main])

\* Its step: a second fault of the instruction would be on the key that is open.
LEMMA MainLostStep ==
  ASSUME OneKey, ~PAGE_MPK, TypeOK, StepInv, MainLostInv, [Next]_vars, [WorkersKeepOff]_vars
  PROVE  MainLostInv'
<1> USE MainAssumption
<1>0. \A g, h \in instr[Main].pages : pageKey[g] = pageKey[h]
  BY DEF MainLostInv, OneKey, NoInstr, StepInv
<1>1. CASE UNCHANGED vars
  BY <1>1 DEF vars, MainLostInv, Pending, KeysOf
<1>2. ASSUME NEW t \in Tids \ {Main}, StepOf(t), WorkersKeepOff PROVE MainLostInv'
  <2>1. OthersKept(t) /\ pc'[Main] = pc[Main] /\ instr'[Main] = instr[Main] /\ pageKey' = pageKey
    BY <1>2, StepKeepsOthers DEF OthersKept
  <2>2. lost'[Main] = lost[Main] /\ Pending(Main)' = Pending(Main)
        /\ (Main \in DOMAIN pkey_by_tid_map' => Main \in DOMAIN pkey_by_tid_map)
    <3>1. ASSUME NEW k \in Keys \ {0}, NEW r \in AppRights, SetRights(t, k, r)
          PROVE  lost'[Main] = lost[Main] /\ pkey_by_tid_map' = pkey_by_tid_map
      BY <3>1 DEF SetRights, TypeOK
    <3>2. ASSUME Cpu(t) \/ \E i \in Instrs : Issue(t, i) PROVE lost' = lost /\ pkey_by_tid_map' = pkey_by_tid_map
      BY <3>2 DEF Cpu, Retire, RaiseSegv, Issue
    <3>3. ASSUME disable_mpk(t)
          PROVE  /\ lost'[Main] = lost[Main]
                 /\ Main \in DOMAIN pkey_by_tid_map' <=> Main \in DOMAIN pkey_by_tid_map
                 /\ Main \in DOMAIN pkey_by_tid_map => pkey_by_tid_map'[Main] = pkey_by_tid_map[Main]
      BY <1>2, <3>3 DEF disable_mpk, disableThreadMPK, storePendingPKeyInfo, TypeOK
    <3>4. ASSUME pku_trap_handler(t)
          PROVE  lost'[Main] = lost[Main] /\ Main \notin DOMAIN pkey_by_tid_map /\ pkey_by_tid_map' = pkey_by_tid_map
      BY <1>2, <3>4 DEF pku_trap_handler, WorkersKeepOff, LostAtTrap, Pending, TypeOK
    <3> QED
      BY <1>2, <3>1, <3>2, <3>3, <3>4 DEF StepOf, Handle, Pending
  <2>3. KeysOf(instr[Main])' = KeysOf(instr[Main])
    BY <2>1 DEF KeysOf
  <2> QED
    BY <2>1, <2>2, <2>3 DEF MainLostInv
<1>3. ASSUME NEW k \in Keys \ {0}, NEW r \in AppRights, SetRights(Main, k, r) PROVE MainLostInv'
  BY <1>3 DEF SetRights, MainLostInv, TypeOK, Pending, KeysOf
<1>4. ASSUME NEW i \in Instrs, Issue(Main, i) PROVE MainLostInv'
  BY <1>4 DEF Issue, MainLostInv, TypeOK, Pending
<1>5. ASSUME NEW g \in Pages, RaiseSegv(Main, g) PROVE MainLostInv'
  <2>1. g \in instr[Main].pages /\ pkey_get(pkru[Main], pageKey[g]) # 0
    BY <1>5 DEF RaiseSegv, Denied, AccessDisabled, WriteDisabled
  <2>2. Main \notin DOMAIN pkey_by_tid_map
    <3> SUFFICES ASSUME Main \in DOMAIN pkey_by_tid_map PROVE FALSE
      OBVIOUS
    <3>1. PICK k \in Pending(Main) : TRUE
      BY DEF Pending
    <3>2. k = pageKey[g]
      BY <1>0, <2>1, <3>1 DEF MainLostInv, KeysOf
    <3> QED
      BY <2>1, <3>1, <3>2 DEF StepInv, MainInv
  <2> QED
    BY <1>5, <2>2 DEF RaiseSegv, MainLostInv
<1>6. ASSUME Retire(Main) PROVE MainLostInv'
  <2>1. UNCHANGED <<pkey_by_tid_map, lost, pageKey>>
        /\ (TF[Main] => pc'[Main] = "trap" /\ instr'[Main] = instr[Main])
        /\ (~TF[Main] => instr'[Main] = NoInstr)
    BY <1>6 DEF Retire, TypeOK
  <2> QED
    BY <2>1 DEF MainLostInv, StepInv, MainInv, Pending, KeysOf
<1>7. ASSUME disable_mpk(Main) PROVE MainLostInv'
  <2> DEFINE k == fault[Main].key
  <2>1. pc[Main] = "segv" /\ Main \notin DOMAIN pkey_by_tid_map /\ k \in KeysOf(instr[Main])
    BY <1>7 DEF disable_mpk, MainLostInv, StepInv, ThreadInv
  <2>2. /\ storePendingPKeyInfo(Main, PendingPKeyInfo(k, pkey_get(pkru[Main], k)))
        /\ pc'[Main] = "instr" /\ instr' = instr /\ pageKey' = pageKey
    BY <1>7 DEF disable_mpk, disableThreadMPK, TypeOK
  <2> HIDE DEF k
  <2>3. lost' = lost /\ Pending(Main)' = {k}
    BY <2>1, <2>2 DEF storePendingPKeyInfo, PendingPKeyInfo, Pending
  <2> QED
    BY <2>1, <2>2, <2>3 DEF MainLostInv, KeysOf
<1>8. ASSUME pku_trap_handler(Main) PROVE MainLostInv'
  BY <1>8 DEF pku_trap_handler, LostAtTrap, Restrict, MainLostInv, TypeOK
<1> QED
  BY <1>1, <1>2, <1>3, <1>4, <1>5, <1>6, <1>7, <1>8 DEF Next, StepOf, Cpu, Handle

\* When no instruction touches two keys and no trap of a worker comes while the main
\* thread has an entry, the handlers never lose a right of the main thread: its rights
\* are then its own between any two instructions, with any number of workers.
THEOREM MainLosesNothing ==
  ASSUME OneKey, ~PAGE_MPK
  PROVE  Spec /\ [][WorkersKeepOff]_vars =>
           [](lost[Main] = {} /\ (pc[Main] = "run" => \A k \in Keys : ~Differs(Main, k)))
<1>1. Init => MainLostInv
  BY MainAssumption DEF Init, MainLostInv
<1>2. TypeOK /\ StepInv /\ MainLostInv /\ [Next]_vars /\ [WorkersKeepOff]_vars => MainLostInv'
  BY MainLostStep
<1>3. StepInv /\ MainLostInv => lost[Main] = {} /\ (pc[Main] = "run" => \A k \in Keys : ~Differs(Main, k))
  BY MainAssumption DEF StepInv, ThreadInv, MainLostInv
<1> QED
  BY <1>1, <1>2, <1>3, StepInvCorrect, PTL DEF Spec

-----------------------------------------------------------------------------
(* Attribution.                                                            *)

InstrOf(a) == [pages |-> UNION {PagesOf[x] : x \in a.objs}, write |-> a.write]

\* Every thread has an access, a fault and a memory of its own.
AccessesTyped ==
  access \in [Tids -> SUBSET Objects] /\ hit \in [Tids -> SUBSET Objects] /\ blind \in [Tids -> SUBSET Keys]

\* Every step of the composition is a step of SingleStep.
LEMMA PathIsSteps == PathNext => Next
<1>1. ASSUME NEW t \in Tids, NEW a \in Accesses, IssueAccess(t, a) PROVE Next
  BY <1>1, AccessesAssumption DEF IssueAccess, Next
<1>2. ASSUME NEW t \in Tids, NEW x \in Objects, NEW g \in Pages, RaiseSegvOn(t, x, g) PROVE Next
  BY <1>2 DEF RaiseSegvOn, Next, Cpu
<1>3. ASSUME NEW t \in Tids, pku_segv_handler(t) PROVE Next
  BY <1>3 DEF pku_segv_handler, Next, Handle
<1> QED
  BY <1>1, <1>2, <1>3 DEF PathNext, Next, Cpu, Handle

\* The composition implements SingleStep: its steps change PKRU, pages and
\* pkey_by_tid_map only as the handlers alone do.
THEOREM PathImplementsSteps == PathSpec => Spec
<1>1. [PathNext]_pathVars => [Next]_vars
  BY PathIsSteps DEF pathVars, vars
<1>2. PathInit => Init
  BY DEF PathInit
<1> QED
  BY <1>1, <1>2, PTL DEF PathSpec, Spec

\* The pages of the objects of an access are pages of its instruction.
LEMMA AccessPages ==
  ASSUME NEW a \in Accesses, NEW x \in a.objs
  PROVE  PagesOf[x] \subseteq InstrOf(a).pages
BY DEF InstrOf

\* Every thread keeps an access, a fault and a memory of its own.
LEMMA AccessesStep ==
  ASSUME TypeOK, AccessesTyped, [PathNext]_pathVars
  PROVE  AccessesTyped'
<1>1. ASSUME NEW t \in Tids, NEW a \in Accesses, IssueAccess(t, a) PROVE AccessesTyped'
  BY <1>1, AccessesAssumption DEF IssueAccess, AccessesTyped, TypeOK
<1>2. ASSUME NEW t \in Tids, NEW x \in Objects, NEW g \in Pages, RaiseSegvOn(t, x, g) PROVE AccessesTyped'
  BY <1>2 DEF RaiseSegvOn, AccessesTyped
<1>3. ASSUME NEW t \in Tids, pku_segv_handler(t) PROVE AccessesTyped'
  BY <1>3 DEF pku_segv_handler, AccessesTyped
<1>4. ASSUME UNCHANGED <<access, hit, blind>> PROVE AccessesTyped'
  BY <1>4 DEF AccessesTyped
<1> QED
  BY <1>1, <1>2, <1>3, <1>4 DEF PathNext, pathVars

\* The single-step build, for thread t: the instruction in flight is one of the
\* program's accesses; a fault being handled is on one of its objects and a page that
\* is still denied; and a key the thread could rely on when the instruction was issued
\* is as the program set it, or has been reported on.
FlightInv(t) ==
  /\ pc[t] \in {"instr", "segv"} => \E a \in Accesses : access[t] = a.objs /\ instr[t] = InstrOf(a)
  /\ pc[t] = "segv" =>
       \E x \in access[t] : \E g \in PagesOf[x] : hit[t] = {x} /\ g \in Denied(t) /\ fault[t].key = KeyOf[g]
  /\ pc[t] \in {"instr", "segv"} => \A k \in Keys \ blind[t] : Differs(t, k) => ReportedOn(t, k)

PathInv == AccessesTyped /\ \A t \in Tids : FlightInv(t)

\* A step of thread t in the composition.
PathStepOf(t) ==
  \/ \E a \in Accesses : IssueAccess(t, a)
  \/ \E x \in Objects, g \in Pages : RaiseSegvOn(t, x, g)
  \/ pku_segv_handler(t)
  \/ /\ (\E k \in Keys \ {0}, r \in AppRights : SetRights(t, k, r)) \/ Retire(t) \/ pku_trap_handler(t)
     /\ UNCHANGED <<access, hit, blind, marked>>

\* It is one of SingleStep and leaves alone what other threads are doing; marks stay.
LEMMA PathKeepsOthers ==
  ASSUME ~PAGE_MPK, TypeOK, AccessesTyped, NEW t \in Tids, PathStepOf(t)
  PROVE  /\ OthersKept(t) /\ marked \subseteq marked'
         /\ \A u \in Tids \ {t} : access'[u] = access[u] /\ hit'[u] = hit[u] /\ blind'[u] = blind[u]
<1>1. StepOf(t)
  <2>1. ASSUME NEW a \in Accesses, IssueAccess(t, a) PROVE StepOf(t)
    BY <2>1, AccessesAssumption DEF IssueAccess, StepOf
  <2>2. ASSUME NEW x \in Objects, NEW g \in Pages, RaiseSegvOn(t, x, g) PROVE StepOf(t)
    BY <2>2 DEF RaiseSegvOn, StepOf, Cpu
  <2>3. ASSUME pku_segv_handler(t) PROVE StepOf(t)
    BY <2>3 DEF pku_segv_handler, StepOf, Handle
  <2> QED
    BY <2>1, <2>2, <2>3 DEF PathStepOf, StepOf, Cpu, Handle
<1>2. OthersKept(t)
  BY <1>1, StepKeepsOthers
<1>3. /\ marked \subseteq marked'
      /\ \A u \in Tids \ {t} : access'[u] = access[u] /\ hit'[u] = hit[u] /\ blind'[u] = blind[u]
  BY DEF PathStepOf, IssueAccess, RaiseSegvOn, pku_segv_handler, AccessesTyped
<1> QED
  BY <1>2, <1>3

\* A thread that is left alone keeps its part.
LEMMA FlightKept ==
  ASSUME NEW u \in Tids, FlightInv(u), pageKey' = pageKey, marked \subseteq marked',
         pkru'[u] = pkru[u], app'[u] = app[u], pc'[u] = pc[u], instr'[u] = instr[u], fault'[u] = fault[u],
         access'[u] = access[u], hit'[u] = hit[u], blind'[u] = blind[u]
  PROVE  FlightInv(u)'
<1>1. Denied(u)' = Denied(u) /\ \A k : Differs(u, k)' = Differs(u, k)
  BY DEF Denied, Differs
<1>2. \A k : ReportedOn(u, k) => ReportedOn(u, k)'
  BY DEF ReportedOn, NotAllowed
<1> QED
  BY <1>1, <1>2 DEF FlightInv

\* With the rights the program set in force on its key, a page is denied exactly when
\* it is not allowed.
LEMMA DeniedNotAllowed ==
  ASSUME StepInv, NEW t \in Tids, NEW g, ~Differs(t, KeyOf[g])
  PROVE  g \in Denied(t) <=> g \in instr[t].pages /\ NotAllowed(t, g)
BY DEF Denied, NotAllowed, Differs, StepInv

\* Handling a fault leaves the key reported on, whether it was as the program set it or
\* had been opened before.
LEMMA HandlerReports ==
  ASSUME ~PAGE_MPK, TypeOK, StepInv, AccessesTyped, NEW t \in Tids, FlightInv(t), pku_segv_handler(t)
  PROVE  FlightInv(t)'
<1>3. PICK k \in Keys : k = fault[t].key
  BY DEF TypeOK
<1>1. /\ pc[t] = "segv" /\ pc'[t] = "instr" /\ pkru'[t] = pkey_set(pkru[t], k, 0) /\ app' = app /\ instr' = instr
      /\ marked' = marked \cup {SiteOf[x] : x \in hit[t]} /\ access' = access /\ blind' = blind
  BY <1>3 DEF pku_segv_handler, disable_mpk, disableThreadMPK, TypeOK, PKEY_ENABLE_ACCESS
<1>0. PICK x \in access[t] : \E g \in PagesOf[x] : hit[t] = {x} /\ g \in Denied(t) /\ k = KeyOf[g]
  BY <1>1, <1>3 DEF FlightInv
<1>2. PICK g \in PagesOf[x] : hit[t] = {x} /\ g \in Denied(t) /\ k = KeyOf[g]
  BY <1>0
<1>4. \A j \in Keys \ {k} : Differs(t, j)' = Differs(t, j)
  BY <1>1, <1>3, SetKey DEF Differs, TypeOK, Rights
<1>5. \A j : ReportedOn(t, j) => ReportedOn(t, j)'
  BY <1>1 DEF ReportedOn, NotAllowed
<1>6. k \notin blind[t] => ReportedOn(t, k)'
  <2>1. CASE Differs(t, k)
    BY <1>1, <1>3, <1>5, <2>1 DEF FlightInv
  <2>2. CASE ~Differs(t, k)
    <3>1. NotAllowed(t, g) /\ NotAllowed(t, g)'
      BY <1>1, <1>2, <2>2, DeniedNotAllowed DEF NotAllowed
    <3> QED
      BY <1>1, <1>2, <3>1 DEF ReportedOn
  <2> QED
    BY <2>1, <2>2
<1> QED
  BY <1>1, <1>4, <1>5, <1>6 DEF FlightInv

\* PathInv is inductive, given StepInv.
LEMMA PathInvInductive ==
  ASSUME ~PAGE_MPK, TypeOK, StepInv, PathInv, [PathNext]_pathVars
  PROVE  PathInv'
<1>t. AccessesTyped /\ AccessesTyped'
  BY AccessesStep DEF PathInv
<1>1. CASE UNCHANGED pathVars
  <2>1. \A u \in Tids : FlightInv(u)'
    BY <1>1, FlightKept DEF PathInv, pathVars, vars
  <2> QED
    BY <1>t, <2>1 DEF PathInv
<1>2. ASSUME NEW t \in Tids, PathStepOf(t) PROVE PathInv'
  <2>1. \A u \in Tids \ {t} : FlightInv(u)'
    BY <1>t, <1>2, PathKeepsOthers, FlightKept DEF PathInv, OthersKept
  <2>2. ASSUME NEW a \in Accesses, IssueAccess(t, a) PROVE FlightInv(t)'
    <3>1. /\ pc[t] = "run" /\ pc'[t] = "instr" /\ access'[t] = a.objs /\ instr'[t] = InstrOf(a)
          /\ blind'[t] = lost[t] /\ UNCHANGED <<pkru, app>>
      BY <1>t, <2>2 DEF IssueAccess, Issue, InstrOf, TypeOK, AccessesTyped
    <3>2. \A k \in Keys : Differs(t, k) => k \in lost[t]
      BY <3>1 DEF StepInv, ThreadInv
    <3> QED
      BY <3>1, <3>2 DEF FlightInv, Differs
  <2>3. ASSUME NEW x \in Objects, NEW g \in Pages, RaiseSegvOn(t, x, g) PROVE FlightInv(t)'
    <3>1. /\ x \in access[t] /\ g \in PagesOf[x] /\ g \in Denied(t) /\ pc[t] = "instr" /\ pc'[t] = "segv"
          /\ hit'[t] = {x} /\ fault'[t].key = KeyOf[g]
          /\ UNCHANGED <<access, blind, marked, pkru, app, instr, pageKey>>
      BY <1>t, <2>3 DEF RaiseSegvOn, RaiseSegv, TypeOK, AccessesTyped, StepInv
    <3>2. g \in Denied(t)' /\ \A k : Differs(t, k)' = Differs(t, k) /\ ReportedOn(t, k)' = ReportedOn(t, k)
      BY <3>1 DEF Denied, Differs, ReportedOn, NotAllowed
    <3> QED
      BY <3>1, <3>2 DEF PathInv, FlightInv
  <2>4. ASSUME pku_segv_handler(t) PROVE FlightInv(t)'
    BY <1>t, <2>4, HandlerReports DEF PathInv
  <2>5. ASSUME \/ \E k \in Keys \ {0}, r \in AppRights : SetRights(t, k, r)
               \/ Retire(t) \/ pku_trap_handler(t)
        PROVE  FlightInv(t)'
    <3>1. pc'[t] \notin {"instr", "segv"}
      BY <2>5 DEF SetRights, Retire, pku_trap_handler, TypeOK
    <3> QED
      BY <3>1 DEF FlightInv
  <2>6. FlightInv(t)'
    BY <1>2, <2>2, <2>3, <2>4, <2>5 DEF PathStepOf
  <2> QED
    BY <1>t, <2>1, <2>6 DEF PathInv
<1> QED
  BY <1>1, <1>2 DEF PathNext, PathStepOf

\* The two halves of the handler keep in step.
LEMMA PathInvariant ==
  ASSUME ~PAGE_MPK
  PROVE  PathSpec => [](TypeOK /\ StepInv /\ PathInv)
<1>1. PathInit => PathInv
  BY DEF PathInit, Init, PathInv, FlightInv, AccessesTyped
<1>2. TypeOK /\ StepInv /\ PathInv /\ [PathNext]_pathVars => PathInv'
  BY PathInvInductive
<1> QED
  BY <1>1, <1>2, PathImplementsSteps, StepInvCorrect, PTL DEF PathSpec

\* In the single-step build no fault of the main thread is handled for an access that
\* was allowed, and none of a worker on a key whose rights it has not lost, with any
\* number of threads, and of objects and keys to an instruction: giving rights back
\* (enableThreadMPK) takes from the main thread no more than the program had taken.
THEOREM FaultsJustifiedCorrect ==
  ASSUME ~PAGE_MPK
  PROVE  PathSpec => []FaultsJustified
<1>1. TypeOK /\ StepInv /\ PathInv => FaultsJustified
  <2> SUFFICES ASSUME TypeOK, StepInv, PathInv, NEW t \in Tids, pc[t] = "segv",
                      t = Main \/ fault[t].key \notin lost[t]
               PROVE  hit[t] \subseteq Forbidden(t)
    BY DEF FaultsJustified
  <2>0. PICK x \in access[t] :
          \E g \in PagesOf[x] : hit[t] = {x} /\ g \in Denied(t) /\ fault[t].key = KeyOf[g]
    BY DEF PathInv, FlightInv
  <2>1. PICK g \in PagesOf[x] : hit[t] = {x} /\ g \in Denied(t) /\ fault[t].key = KeyOf[g]
    BY <2>0
  <2>2. fault[t].key \in Keys /\ pkey_get(pkru[t], fault[t].key) # 0
    BY DEF StepInv, ThreadInv, TypeOK
  <2>3. t = Main => fault[t].key \notin lost[t]
    BY <2>2 DEF StepInv, MainInv
  <2>4. ~Differs(t, KeyOf[g])
    BY <2>1, <2>2, <2>3 DEF StepInv, ThreadInv
  <2> QED
    BY <2>1, <2>4, DeniedNotAllowed DEF Forbidden
<1> QED
  BY <1>1, PathInvariant, PTL

\* An instruction completes only by retiring.
LEMMA CompletesRetires ==
  ASSUME TypeOK, [PathNext]_pathVars, NEW t \in Tids, Completes(t)
  PROVE  pc[t] = "instr" /\ Denied(t) = {}
<1>0. /\ pc[t] = "instr" /\ pc'[t] \in {"run", "trap"} /\ PathNext
      /\ pc \in [Tids -> {"run", "instr", "segv", "trap"}]
  BY DEF Completes, TypeOK, pathVars, vars
<1>1. ASSUME NEW u \in Tids, NEW b \in Accesses, IssueAccess(u, b) PROVE FALSE
  BY <1>0, <1>1 DEF IssueAccess, Issue
<1>2. ASSUME NEW u \in Tids, NEW y \in Objects, NEW h \in Pages, RaiseSegvOn(u, y, h) PROVE FALSE
  BY <1>0, <1>2 DEF RaiseSegvOn, RaiseSegv
<1>3. ASSUME NEW u \in Tids, pku_segv_handler(u) \/ pku_trap_handler(u) PROVE u # t /\ pc'[t] = pc[t]
  BY <1>0, <1>3 DEF pku_segv_handler, disable_mpk, pku_trap_handler
<1>4. ASSUME NEW u \in Tids, NEW k \in Keys \ {0}, NEW r \in AppRights, SetRights(u, k, r) PROVE FALSE
  BY <1>0, <1>4 DEF SetRights
<1>5. PICK u \in Tids : Retire(u)
  BY <1>0, <1>1, <1>2, <1>3, <1>4 DEF PathNext
<1>6. u = t
  BY <1>0, <1>5 DEF Retire
<1> QED
  BY <1>0, <1>5, <1>6 DEF Retire

\* In the single-step build an instruction that touches what it may not completes only
\* when an object it touched without permission is in fault_set, for each key of such
\* a page that its thread had not lost when it was issued: no right opened for an
\* earlier fault (disableThreadMPK) hides a later violation unless the handlers had no
\* entry to close it by.  For any number of threads, and of objects and keys to an
\* instruction.
THEOREM NoMissedViolationCorrect ==
  ASSUME ~PAGE_MPK
  PROVE  PathSpec => NoMissedViolation
<1>1. TypeOK /\ StepInv /\ PathInv /\ [PathNext]_pathVars =>
        [\A t \in Tids : Completes(t) =>
           \A x \in Forbidden(t) : \A g \in PagesOf[x] :
             NotAllowed(t, g) => KeyOf[g] \in blind[t] \/ ReportedOn(t, KeyOf[g])]_pathVars
  <2> SUFFICES ASSUME TypeOK, StepInv, PathInv, [PathNext]_pathVars, NEW t \in Tids, Completes(t),
                      NEW x \in Forbidden(t), NEW g \in PagesOf[x], NotAllowed(t, g), KeyOf[g] \notin blind[t]
               PROVE  ReportedOn(t, KeyOf[g])
    OBVIOUS
  <2>1. pc[t] = "instr" /\ Denied(t) = {}
    BY CompletesRetires
  <2>2. g \in instr[t].pages /\ KeyOf[g] \in Keys
    <3>1. PICK a \in Accesses : access[t] = a.objs /\ instr[t] = InstrOf(a)
      BY <2>1 DEF PathInv, FlightInv
    <3>2. g \in instr[t].pages
      BY <3>1, AccessPages DEF Forbidden
    <3> QED
      BY <3>2, KeysAssumption DEF TypeOK
  <2>3. Differs(t, KeyOf[g])
    BY <2>1, <2>2, DeniedNotAllowed
  <2> QED
    BY <2>1, <2>2, <2>3 DEF PathInv, FlightInv
<1> QED
  BY <1>1, PathInvariant, PTL DEF PathSpec, NoMissedViolation

\* In the single-step build, when no instruction touches two keys and no trap of a
\* worker comes while the main thread has an entry, nothing excuses the main thread:
\* whenever an instruction of it completes, an object that it touched without
\* permission is in fault_set, if there is one, with any number of workers.
THEOREM MainMissesNothing ==
  ASSUME OneKey, ~PAGE_MPK
  PROVE  PathSpec /\ [][WorkersKeepOff]_pathVars =>
           [][Completes(Main) /\ Forbidden(Main) # {} => \E x \in Forbidden(Main) : SiteOf[x] \in marked]_pathVars
<1> DEFINE Seeing == blind[Main] = {}
<1>1. PathInit => Seeing
  BY MainAssumption DEF PathInit
<1>2. TypeOK /\ PathInv /\ lost[Main] = {} /\ Seeing /\ [PathNext]_pathVars => Seeing'
  <2> SUFFICES ASSUME TypeOK, PathInv, lost[Main] = {}, Seeing, [PathNext]_pathVars PROVE Seeing'
    OBVIOUS
  <2>1. ASSUME NEW t \in Tids, NEW a \in Accesses, IssueAccess(t, a) PROVE Seeing'
    BY <2>1, MainAssumption DEF IssueAccess, PathInv, AccessesTyped
  <2> QED
    BY <2>1 DEF PathNext, RaiseSegvOn, pku_segv_handler, pathVars
<1>3. Seeing /\ [\A t \in Tids : Completes(t) =>
           \A x \in Forbidden(t) : \A g \in PagesOf[x] :
             NotAllowed(t, g) => KeyOf[g] \in blind[t] \/ ReportedOn(t, KeyOf[g])]_pathVars =>
        [Completes(Main) /\ Forbidden(Main) # {} => \E x \in Forbidden(Main) : SiteOf[x] \in marked]_pathVars
  <2> SUFFICES ASSUME Seeing, NEW x \in Forbidden(Main),
                      \A y \in Forbidden(Main) : \A g \in PagesOf[y] :
                        NotAllowed(Main, g) => KeyOf[g] \in blind[Main] \/ ReportedOn(Main, KeyOf[g])
               PROVE  \E y \in Forbidden(Main) : SiteOf[y] \in marked
    BY MainAssumption
  <2>1. PICK g \in PagesOf[x] : NotAllowed(Main, g)
    BY DEF Forbidden
  <2>2. ReportedOn(Main, KeyOf[g])
    BY <2>1
  <2> QED
    BY <2>2 DEF ReportedOn, Forbidden
<1>4. [WorkersKeepOff]_pathVars => [WorkersKeepOff]_vars
  BY DEF pathVars
<1>5. PathSpec => NoMissedViolation
  BY NoMissedViolationCorrect
<1> QED
  BY <1>1, <1>2, <1>3, <1>4, <1>5, PathImplementsSteps, MainLosesNothing, PathInvariant, PTL
     DEF PathSpec, NoMissedViolation

-----------------------------------------------------------------------------
(* The PAGE_MPK build, with any number of threads and for instructions     *)
(* that touch any number of objects, pages and keys.                       *)

\* Some object on page g is in the profile.
Reported(g) == \E y \in Objects : g \in PagesOf[y] /\ SiteOf[y] \in marked

\* The rights in force are those the program set, and key 0 stays open; a page
\* whose key was taken away has an object in the profile; the instruction in
\* flight is one of the program's accesses; and a fault being handled is on an
\* object of the reported page that was not to be touched.
PagePathInv ==
  /\ access \in [Tids -> SUBSET Objects] /\ hit \in [Tids -> SUBSET Objects]
  /\ pkru = app /\ DOMAIN pkey_by_tid_map = {}
  /\ \A t \in Tids : pkey_get(app[t], 0) = 0
  /\ \A g \in Pages : pageKey[g] = KeyOf[g] \/ (pageKey[g] = 0 /\ Reported(g))
  /\ \A t \in Tids : pc[t] \in {"instr", "segv"} => \E a \in Accesses : access[t] = a.objs /\ instr[t] = InstrOf(a)
  /\ \A t \in Tids : pc[t] = "segv" =>
       \E x \in Forbidden(t), g \in Pages : hit[t] = {x} /\ g \in PagesOf[x] /\ fault[t].page = {g}

\* With key 0 open, a page that faults is one the program was not to touch.
LEMMA PageDenied ==
  ASSUME PagePathInv, NEW t \in Tids, NEW g \in Denied(t), g \in Pages
  PROVE  NotAllowed(t, g)
<1>1. \/ AccessDisabled(pkey_get(app[t], pageKey[g]))
      \/ instr[t].write /\ WriteDisabled(pkey_get(app[t], pageKey[g]))
  BY DEF PagePathInv, Denied
<1>2. pageKey[g] = KeyOf[g]
  <2>1. pkey_get(app[t], 0) = 0
    BY DEF PagePathInv
  <2>2. pageKey[g] # 0 \/ pageKey[g] = KeyOf[g]
    BY <1>1, <2>1 DEF AccessDisabled, WriteDisabled
  <2> QED
    BY <2>2 DEF PagePathInv
<1> QED
  BY <1>1, <1>2 DEF NotAllowed

\* Setting a key that is not key 0 leaves key 0 open.
LEMMA KeyZeroKept ==
  ASSUME TypeOK, NEW t \in Tids, NEW k \in Keys \ {0}, NEW r \in AppRights
  PROVE  pkey_get(pkey_set(app[t], k, r), 0) = pkey_get(app[t], 0)
<1>1. app[t] \in Nat /\ k \in AllKeys /\ r \in Rights /\ 0 \in AllKeys /\ k # 0
  BY KeysAssumption, RightsAssumption DEF TypeOK, AllKeys
<1> QED
  BY <1>1, KeysIsolated

\* The invariant of the PAGE_MPK build holds at first,
LEMMA PagePathInvInit == PathInit => PagePathInv
<1> SUFFICES ASSUME PathInit PROVE PagePathInv
  OBVIOUS
<1>1. pkey_get(InitPkru, 0) = 0
  BY DEF pkey_get, InitPkru, AllKeys, Shifted, Weights
<1>2. pkru = app /\ \A t \in Tids : app[t] = InitPkru
  BY DEF PathInit, Init
<1>3. /\ access \in [Tids -> SUBSET Objects] /\ hit \in [Tids -> SUBSET Objects]
      /\ DOMAIN pkey_by_tid_map = {} /\ pageKey = KeyOf /\ \A t \in Tids : pc[t] = "run"
  BY DEF PathInit, Init
<1> QED
  BY <1>1, <1>2, <1>3 DEF PagePathInv

\* PagePathInv is inductive, given the types.
LEMMA PagePathInvInductive ==
  ASSUME PAGE_MPK, TypeOK, PagePathInv, [PathNext]_pathVars
  PROVE  PagePathInv'
<1> DEFINE
      Flight(t) == pc[t] \in {"instr", "segv"} => \E a \in Accesses : access[t] = a.objs /\ instr[t] = InstrOf(a)
      Fault(t) == pc[t] = "segv" =>
        \E x \in Forbidden(t), g \in Pages : hit[t] = {x} /\ g \in PagesOf[x] /\ fault[t].page = {g}
      Typed == access \in [Tids -> SUBSET Objects] /\ hit \in [Tids -> SUBSET Objects]
      Rest == pkru = app /\ DOMAIN pkey_by_tid_map = {} /\ \A t \in Tids : pkey_get(app[t], 0) = 0
      PagesOK == \A g \in Pages : pageKey[g] = KeyOf[g] \/ (pageKey[g] = 0 /\ Reported(g))
<1>0. /\ pc \in [Tids -> {"run", "instr", "segv", "trap"}]
      /\ instr \in [Tids -> [pages : SUBSET Pages, write : BOOLEAN]]
      /\ fault \in [Tids -> [page : SUBSET Pages, key : Keys]]
      /\ pageKey \in [Pages -> Keys] /\ app \in [Tids -> Nat]
  BY DEF TypeOK
<1>a. Typed /\ Rest /\ PagesOK /\ \A t \in Tids : Flight(t) /\ Fault(t)
  BY DEF PagePathInv
<1>b. Typed' /\ Rest' /\ PagesOK' /\ (\A t \in Tids : Flight(t)' /\ Fault(t)') => PagePathInv'
  BY DEF PagePathInv
\* What a thread is doing is not changed by the steps of the others.
<1>c. ASSUME NEW u \in Tids,
             pc'[u] = pc[u], instr'[u] = instr[u], access'[u] = access[u], hit'[u] = hit[u],
             fault'[u] = fault[u], pc[u] \in {"instr", "segv"} => app'[u] = app[u]
      PROVE  Flight(u)' /\ Fault(u)'
  <2>1. Flight(u)'
    BY <1>a, <1>c
  <2>2. CASE pc[u] = "segv"
    <3>1. app'[u] = app[u]
      BY <2>2, <1>c
    <3>2. Forbidden(u)' = Forbidden(u)
      BY <3>1, <1>c DEF Forbidden, NotAllowed
    <3> QED
      BY <3>2, <1>a, <1>c, <2>1
  <2>3. CASE pc[u] # "segv"
    BY <1>c, <2>1, <2>3
  <2> QED
    BY <2>2, <2>3
<1>1. CASE UNCHANGED pathVars
  <2>1. Typed' /\ Rest' /\ PagesOK'
    BY <1>1, <1>a DEF pathVars, vars, Reported
  <2>2. \A u \in Tids : Flight(u)' /\ Fault(u)'
    BY <1>1, <1>c DEF pathVars, vars
  <2> QED
    BY <1>b, <2>1, <2>2
<1>2. ASSUME NEW t \in Tids, NEW a \in Accesses, IssueAccess(t, a) PROVE PagePathInv'
  <2>1. Typed'
    BY <1>2, <1>a, AccessesAssumption DEF IssueAccess
  <2>2. Rest' /\ PagesOK'
    BY <1>2, <1>a DEF IssueAccess, Issue, Reported
  <2>3. pc'[t] = "instr" /\ access'[t] = a.objs /\ instr'[t] = InstrOf(a)
    BY <1>0, <1>2, <1>a DEF IssueAccess, Issue, InstrOf
  <2>4. Flight(t)' /\ Fault(t)'
    BY <2>3
  <2>5. ASSUME NEW u \in Tids, u # t PROVE Flight(u)' /\ Fault(u)'
    BY <1>0, <1>2, <1>a, <1>c, <2>5 DEF IssueAccess, Issue
  <2> QED
    BY <1>b, <2>1, <2>2, <2>4, <2>5
<1>3. ASSUME NEW t \in Tids, NEW x \in Objects, NEW g \in Pages, RaiseSegvOn(t, x, g) PROVE PagePathInv'
  <2>0. /\ pc[t] = "instr" /\ x \in access[t] /\ g \in PagesOf[x] /\ g \in Denied(t)
        /\ pc' = [pc EXCEPT ![t] = "segv"] /\ hit' = [hit EXCEPT ![t] = {x}]
        /\ fault' = [fault EXCEPT ![t] = [page |-> {g}, key |-> pageKey[g]]]
        /\ UNCHANGED <<pkru, app, pkey_by_tid_map, pageKey, instr, access, marked>>
    BY <1>3 DEF RaiseSegvOn, RaiseSegv
  <2>1. Typed'
    BY <2>0, <1>a
  <2>2. Rest' /\ PagesOK'
    BY <2>0, <1>a DEF Reported
  <2>3. Flight(t)'
    BY <2>0, <1>0, <1>a
  <2>4. Fault(t)'
    <3>1. x \in Forbidden(t)
      BY <2>0, PageDenied DEF Forbidden
    <3>2. Forbidden(t)' = Forbidden(t)
      BY <2>0 DEF Forbidden, NotAllowed
    <3>3. hit'[t] = {x} /\ fault'[t].page = {g}
      BY <2>0, <1>0, <1>a
    <3> QED
      BY <3>1, <3>2, <3>3, <2>0
  <2>5. ASSUME NEW u \in Tids, u # t PROVE Flight(u)' /\ Fault(u)'
    BY <1>0, <1>a, <1>c, <2>0, <2>5
  <2> QED
    BY <1>b, <2>1, <2>2, <2>3, <2>4, <2>5
<1>4. ASSUME NEW t \in Tids, pku_segv_handler(t) PROVE PagePathInv'
  <2>0. /\ pc[t] = "segv" /\ pc' = [pc EXCEPT ![t] = "instr"]
        /\ pageKey' = [g \in Pages |-> IF g \in fault[t].page THEN 0 ELSE pageKey[g]]
        /\ marked' = marked \cup {SiteOf[x] : x \in hit[t]} /\ hit' = [hit EXCEPT ![t] = {}]
        /\ fault' = [fault EXCEPT ![t] = [page |-> {}, key |-> 0]]
        /\ UNCHANGED <<pkru, app, pkey_by_tid_map, instr, access>>
    BY <1>4 DEF pku_segv_handler, disable_mpk, disablePageMPK
  <2>1. Typed' /\ Rest'
    BY <2>0, <1>a
  <2>2. PagesOK'
    <3>1. PICK x \in Forbidden(t), h \in Pages : hit[t] = {x} /\ h \in PagesOf[x] /\ fault[t].page = {h}
      BY <2>0, <1>a
    <3>2. x \in Objects /\ SiteOf[x] \in marked'
      BY <3>1, <2>0, <1>a DEF Forbidden
    <3>3. pageKey'[h] = 0 /\ Reported(h)'
      BY <3>1, <3>2, <2>0 DEF Reported
    <3>4. ASSUME NEW g \in Pages, g # h PROVE pageKey'[g] = pageKey[g] /\ (Reported(g) => Reported(g)')
      BY <3>1, <3>4, <2>0 DEF Reported
    <3> QED
      BY <3>3, <3>4, <1>a
  <2>3. Flight(t)' /\ Fault(t)'
    BY <2>0, <1>0, <1>a
  <2>4. ASSUME NEW u \in Tids, u # t PROVE Flight(u)' /\ Fault(u)'
    BY <1>0, <1>a, <1>c, <2>0, <2>4
  <2> QED
    BY <1>b, <2>1, <2>2, <2>3, <2>4
<1>5. ASSUME NEW t \in Tids, NEW k \in Keys \ {0}, NEW r \in AppRights, SetRights(t, k, r),
             UNCHANGED <<access, hit, blind, marked>>
      PROVE  PagePathInv'
  <2>0. /\ pc[t] = "run" /\ app' = [app EXCEPT ![t] = pkey_set(app[t], k, r)]
        /\ pkru' = [pkru EXCEPT ![t] = pkey_set(pkru[t], k, r)]
        /\ UNCHANGED <<pkey_by_tid_map, pageKey, pc, instr, fault, access, hit, blind, marked>>
    BY <1>5 DEF SetRights
  <2>1. Typed' /\ PagesOK'
    BY <2>0, <1>a DEF Reported
  <2>2. Rest'
    <3>1. pkru' = app' /\ DOMAIN pkey_by_tid_map' = {}
      BY <2>0, <1>a
    <3>2. pkey_get(app'[t], 0) = 0
      BY <2>0, <1>0, <1>a, KeyZeroKept
    <3>3. \A u \in Tids : u # t => app'[u] = app[u]
      BY <2>0, <1>0
    <3> QED
      BY <3>1, <3>2, <3>3, <1>a
  <2>3. ASSUME NEW u \in Tids PROVE Flight(u)' /\ Fault(u)'
    <3>1. pc[u] \in {"instr", "segv"} => app'[u] = app[u]
      BY <2>0, <1>0
    <3> QED
      BY <3>1, <2>0, <1>c
  <2> QED
    BY <1>b, <2>1, <2>2, <2>3
<1>6. ASSUME NEW t \in Tids, Retire(t) \/ pku_trap_handler(t), UNCHANGED <<access, hit, blind, marked>>
      PROVE  PagePathInv'
  <2>0. /\ pc'[t] \in {"run", "trap"} /\ \A u \in Tids : u # t => pc'[u] = pc[u] /\ instr'[u] = instr[u]
        /\ UNCHANGED <<app, pageKey, fault, access, hit, blind, marked>>
    BY <1>6, <1>0 DEF Retire, pku_trap_handler
  <2>1. pkru' = pkru /\ pkey_by_tid_map' = pkey_by_tid_map
    BY <1>6, <1>a DEF Retire, pku_trap_handler
  <2>2. Typed' /\ Rest' /\ PagesOK'
    BY <2>0, <2>1, <1>a DEF Reported
  <2>3. Flight(t)' /\ Fault(t)'
    BY <2>0
  <2>4. ASSUME NEW u \in Tids, u # t PROVE Flight(u)' /\ Fault(u)'
    BY <1>c, <2>0, <2>4
  <2> QED
    BY <1>b, <2>2, <2>3, <2>4
<1> QED
  BY <1>1, <1>2, <1>3, <1>4, <1>5, <1>6 DEF PathNext

\* and always.
LEMMA PagePathInvariant ==
  ASSUME PAGE_MPK
  PROVE  PathSpec => [](TypeOK /\ PagePathInv)
<1>1. TypeOK /\ PagePathInv /\ [PathNext]_pathVars => PagePathInv'
  BY PagePathInvInductive
<1>2. PathSpec => []TypeOK
  BY PathImplementsSteps, TypeCorrect
<1> QED
  BY <1>1, <1>2, PagePathInvInit, PTL DEF PathSpec

\* In a PAGE_MPK build no fault is handled for an access that was allowed, with any
\* number of threads: taking the key from a page (disablePageMPK) takes no right
\* away.
THEOREM PageFaultsJustified ==
  ASSUME PAGE_MPK
  PROVE  PathSpec => []FaultsJustified
<1>1. PagePathInv => FaultsJustified
  BY DEF PagePathInv, FaultsJustified
<1> QED
  BY <1>1, PagePathInvariant, PTL

\* In a PAGE_MPK build, whatever the threads do and however many objects, pages and
\* keys an instruction touches: when it completes, every page that it was not
\* allowed to touch has an object in fault_set.
THEOREM NoMissedPageCorrect ==
  ASSUME PAGE_MPK
  PROVE  PathSpec => NoMissedPage
<1>1. TypeOK /\ PagePathInv /\ [PathNext]_pathVars =>
        [\A t \in Tids : Completes(t) =>
           \A x \in access[t] : \A g \in PagesOf[x] : NotAllowed(t, g) =>
             \E y \in Objects : g \in PagesOf[y] /\ SiteOf[y] \in marked]_pathVars
  <2> SUFFICES ASSUME TypeOK, PagePathInv, PathNext, NEW t \in Tids, Completes(t),
                      NEW x \in access[t], NEW g \in PagesOf[x], NotAllowed(t, g)
               PROVE  \E y \in Objects : g \in PagesOf[y] /\ SiteOf[y] \in marked
    OBVIOUS
  <2>1. pc[t] = "instr" /\ Denied(t) = {}
    BY CompletesRetires
  <2>2. g \in instr[t].pages /\ x \in Objects /\ g \in Pages
    <3>1. PICK a \in Accesses : access[t] = a.objs /\ instr[t] = InstrOf(a)
      BY <2>1 DEF PagePathInv
    <3>2. g \in instr[t].pages
      BY <3>1, AccessPages
    <3> QED
      BY <3>2 DEF PagePathInv, TypeOK, AccessesTyped
  <2>3. pageKey[g] # KeyOf[g]
    BY <2>1, <2>2 DEF PagePathInv, Denied, NotAllowed
  <2> QED
    BY <2>2, <2>3 DEF PagePathInv, Reported
<1> QED
  BY <1>1, PagePathInvariant, PTL DEF PathSpec, NoMissedPage
=============================================================================
