-------------------------- MODULE MCInstrumentation -------------------------
(***************************************************************************)
(* Programs for TLC, each of two units.  The first unit has a function     *)
(* with calls and invokes, also two invokes that continue in the same      *)
(* block, and may have a second function.  The second unit has a           *)
(* straight-line function that may share the name of one of the first.     *)
(***************************************************************************)
EXTENDS Instrumentation

m == trusted_malloc
r == trusted_realloc
f == trusted_free
x == <<"x">>

Tag(unit, name, n) == 100 * unit + 10 * name + n

\* A call and an invoke that continues in block 2; and two invokes that do.
Branching(name, a, b, c, single) ==
  Func(name, <<Block(1, <<Call(a, Tag(1, name, 1)), Invoke(b, Tag(1, name, 2), 2, single)>>),
               Block(2, <<Call(c, Tag(1, name, 3))>>)>>)
Joining(name, a, b, c) ==
  Func(name, <<Block(1, <<Invoke(a, Tag(1, name, 1), 3, FALSE)>>),
               Block(2, <<Invoke(b, Tag(1, name, 2), 3, FALSE)>>),
               Block(3, <<Call(c, Tag(1, name, 3))>>)>>)
Straight(unit, name, a, b) ==
  Func(name, <<Block(1, <<Call(a, Tag(unit, name, 1)), Call(b, Tag(unit, name, 2))>>)>>)

Kinds == {<<m, r, m>>, <<m, f, r>>, <<f, m, x>>, <<r, x, f>>, <<f, f, m>>, <<x, r, r>>, <<r, m, m>>}
Firsts == {Branching(1, k[1], k[2], k[3], s) : k \in Kinds, s \in BOOLEAN}
            \cup {Joining(1, k[1], k[2], k[3]) : k \in Kinds}
FirstUnits == {<<g>> : g \in Firsts} \cup {<<g, Straight(1, 2, x, m)>> : g \in Firsts}
SecondUnits == {<<Straight(2, 1, m, r)>>, <<Straight(2, 3, f, m)>>}

Programs == {<<u, v>> : u \in FirstUnits, v \in SecondUnits}

\* Nothing set; lists with empty items, a name in two lists and a name that holds
\* another; and a list without a name in it.
MCEnvironments ==
  {[PROVSAN_ALLOC |-> <<>>, PROVSAN_REALLOC |-> <<>>, PROVSAN_FREE |-> <<>>],
   [PROVSAN_ALLOC |-> <<",", "m", ",", ",", "x">>, PROVSAN_REALLOC |-> <<"r", ",">>,
    PROVSAN_FREE |-> <<"x", ",", "f">>],
   [PROVSAN_ALLOC |-> <<",">>, PROVSAN_REALLOC |-> <<"x">>, PROVSAN_FREE |-> <<"x", "f">>]}

Opt(path, hook, testPath, testRemove) ==
  [PROVSAN_PATH |-> path, PROVSAN_HOOK |-> hook,
   mpk_test_profile_path |-> testPath, mpk_test_remove_hooks |-> testRemove]

MCOptions ==
  {Opt("", "", "", FALSE), Opt("TestResults", "0", "elsewhere", FALSE),
   Opt("TestResults", "1", "", FALSE), Opt("", "", "TestResults", TRUE)}
=============================================================================
