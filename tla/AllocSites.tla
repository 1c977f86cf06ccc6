----------------------------- MODULE AllocSites -----------------------------
(***************************************************************************)
(* Allocation-site metadata and the ordered map that AllocSiteHandler      *)
(* keeps it in (Runtime/alloc_site_handler.h), as operators on values.     *)
(*                                                                         *)
(* A site is identified in the source by <localID, bbName, funcName>; that *)
(* triple is one element of Ids here, because the code only ever compares  *)
(* the three together (operator== and the hash).  NoId stands for the      *)
(* localID -1 of AllocSite::error().  The isRealloc flag is left out: it   *)
(* is written to the profile and read by nothing.                          *)
(***************************************************************************)
EXTENDS Integers, FiniteSets, Functions

CONSTANTS
  Ids,        \* identities of the instrumented allocation sites
  NoId,       \* the identity of the error site
  AddrSpace   \* number of addresses: pointers are integers modulo AddrSpace

ASSUME IdsAssumption == NoId \notin Ids
ASSUME AddrSpaceAssumption == AddrSpace \in Nat \ {0}

\* nullptr
Null == 0

AllocSite(ptr, size, id) == [ptr |-> ptr, size |-> size, id |-> id]

\* The assertions of the AllocSite constructor.  A site of the program always
\* has a localID >= 0 once the Post pass has numbered its hook.
Constructible(ptr, size) == ptr # Null /\ size > 0

error == AllocSite(Null, -1, NoId)

isValid(as) == as.ptr # Null /\ as.size > 0 /\ as.id # NoId

\* Slips of containsPtr: one byte too many, one too few.
containsPtr_long(as, p) == as.ptr <= p /\ p <= (as.ptr + as.size) % AddrSpace
containsPtr_short(as, p) == as.ptr <= p /\ p + 1 < (as.ptr + as.size) % AddrSpace

\* ptr + size is pointer arithmetic, so it wraps at the end of the address space.
containsPtr(as, p) == as.ptr <= p /\ p < (as.ptr + as.size) % AddrSpace

-----------------------------------------------------------------------------
(* std::map and std::unordered_map as partial functions.                   *)

EmptyMap == [k \in {} |-> error]

\* emplace inserts only when the key is absent: it never overwrites.
emplace(m, k, v) ==
  IF k \in DOMAIN m THEN m
  ELSE [x \in DOMAIN m \cup {k} |-> IF x = k THEN v ELSE m[x]]

erase(m, k) == Restrict(m, DOMAIN m \ {k})

\* The greatest key that is not above p: the node lower_bound(p) finds when it
\* starts at p, and the node before it otherwise.
nearest(m, p) ==
  LET upTo == {k \in DOMAIN m : k <= p}
  IN  {k \in upTo : \A j \in upTo : j <= k}

\* getAllocSite without the containsPtr test.
lookup_nearest(m, p) ==
  IF nearest(m, p) = {} THEN error ELSE m[CHOOSE k \in nearest(m, p) : TRUE]

\* getAllocSite.  An exact match is returned unconditionally, any other node only
\* when it covers p.  When every key is above p the code tests begin(), which
\* starts above p and so never covers it: error, as for an empty map.
lookup(m, p) ==
  LET found == {k \in nearest(m, p) : k = p \/ containsPtr(m[k], p)}
  IN  IF found = {} THEN error ELSE m[CHOOSE k \in found : TRUE]

\* unordered_set<AllocSite>::insert with operator== on the identity alone: the
\* first record of a site stays, so the pkey of its first fault is the one kept.
insertFault(S, id, pkey) ==
  IF \E f \in S : f.id = id THEN S ELSE S \cup {[id |-> id, pkey |-> pkey]}

IdsOf(S) == {f.id : f \in S}
=============================================================================
