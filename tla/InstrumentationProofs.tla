----------------------- MODULE InstrumentationProofs ------------------------
(***************************************************************************)
(* The invariants of Instrumentation, for every program, every environment *)
(* and every bound.                                                        *)
(***************************************************************************)
EXTENDS Instrumentation, SequenceFacts

-----------------------------------------------------------------------------
(* Functions and their instructions.                                       *)

\* The sequence that InstrsOf flattens.
Bodies(f) == [k \in DOMAIN f.blocks |-> f.blocks[k].body]

\* Block k of f has the instruction x.
InBlock(f, k, x) == k \in DOMAIN f.blocks /\ x \in ToSet(f.blocks[k].body)

\* The parts of a function.
LEMMA FuncParts ==
  ASSUME NEW f \in Funcs
  PROVE  /\ f.name \in Nat /\ f.blocks \in Seq(Blocks) /\ f = Func(f.name, f.blocks)
         /\ DOMAIN f.blocks = 1 .. Len(f.blocks) /\ Len(f.blocks) \in Nat
         /\ \A k \in DOMAIN f.blocks : f.blocks[k].name \in Nat /\ f.blocks[k].body \in Seq(Instrs)
<1>1. f.name \in Nat /\ f.blocks \in Seq(Blocks) /\ f = Func(f.name, f.blocks)
  BY DEF Funcs, Func
<1>2. DOMAIN f.blocks = 1 .. Len(f.blocks) /\ Len(f.blocks) \in Nat
  BY <1>1
<1>3. \A k \in DOMAIN f.blocks : f.blocks[k] \in Blocks
  BY <1>1
<1> QED
  BY <1>1, <1>2, <1>3 DEF Blocks

\* The instructions of a function are those of its blocks.
LEMMA InstrsOfFacts ==
  ASSUME NEW f \in Funcs
  PROVE  /\ Bodies(f) \in Seq(Seq(Instrs)) /\ InstrsOf(f) = FlattenSeq(Bodies(f))
         /\ InstrsOf(f) \in Seq(Instrs)
         /\ \A x : x \in ToSet(InstrsOf(f)) <=> \E k \in DOMAIN f.blocks : InBlock(f, k, x)
<1>1. Bodies(f) \in Seq(Seq(Instrs)) /\ InstrsOf(f) = FlattenSeq(Bodies(f))
  BY FuncParts DEF Bodies, InstrsOf
<1>2. InstrsOf(f) \in Seq(Instrs)
  BY <1>1, FlattenType
<1>3. \A x : x \in ToSet(InstrsOf(f)) <=> \E k \in DOMAIN Bodies(f) : x \in ToSet(Bodies(f)[k])
  BY <1>1, FlattenRange
<1>4. DOMAIN Bodies(f) = DOMAIN f.blocks /\ \A k \in DOMAIN f.blocks : Bodies(f)[k] = f.blocks[k].body
  BY DEF Bodies
<1> QED
  BY <1>1, <1>2, <1>3, <1>4 DEF InBlock

\* So are its hooks.
LEMMA HooksOfFacts ==
  ASSUME NEW f \in Funcs
  PROVE  /\ HooksOf(f) \in Seq(Instrs)
         /\ \A x : x \in ToSet(HooksOf(f)) <=> x \in Hooks /\ \E k \in DOMAIN f.blocks : InBlock(f, k, x)
<1>1. InstrsOf(f) \in Seq(Instrs)
  BY InstrsOfFacts
<1>2. \A x : x \in ToSet(HooksOf(f)) <=> x \in ToSet(InstrsOf(f)) /\ x \in Hooks
  BY <1>1, KeepRange DEF HooksOf
<1> QED
  BY <1>1, <1>2, InstrsOfFacts, KeepType DEF HooksOf

\* What MapInstrs does to a function.
LEMMA MapInstrsFacts ==
  ASSUME NEW f \in Funcs, NEW F, \A x \in ToSet(InstrsOf(f)) : F[x] \in Instrs
  PROVE  /\ MapInstrs(f, F) \in Funcs /\ MapInstrs(f, F).name = f.name
         /\ DOMAIN MapInstrs(f, F).blocks = DOMAIN f.blocks
         /\ \A k \in DOMAIN f.blocks : /\ MapInstrs(f, F).blocks[k].name = f.blocks[k].name
                                       /\ MapInstrs(f, F).blocks[k].body = Mapped(f.blocks[k].body, F)
         /\ InstrsOf(MapInstrs(f, F)) = Mapped(InstrsOf(f), F)
<1> DEFINE g == MapInstrs(f, F)
           bl == [k \in DOMAIN f.blocks |-> Block(f.blocks[k].name, Mapped(f.blocks[k].body, F))]
           S == ToSet(InstrsOf(f))
           G == [x \in S |-> F[x]]
<1>0. G \in [S -> Instrs]
  OBVIOUS
<1>10. \A k \in DOMAIN f.blocks : f.blocks[k].body \in Seq(S)
  <2> SUFFICES ASSUME NEW k \in DOMAIN f.blocks PROVE f.blocks[k].body \in Seq(S)
    OBVIOUS
  <2>1. f.blocks[k].body \in Seq(Instrs)
    BY FuncParts
  <2>2. \A j \in DOMAIN f.blocks[k].body : f.blocks[k].body[j] \in S
    BY InstrsOfFacts DEF InBlock, ToSet
  <2> HIDE DEF S
  <2> QED
    BY <2>1, <2>2
<1>11. ASSUME NEW s \in Seq(S) PROVE Mapped(s, F) = Mapped(s, G)
  <2>1. \A j \in DOMAIN s : s[j] \in S
    OBVIOUS
  <2>2. \A x \in S : G[x] = F[x]
    OBVIOUS
  <2> HIDE DEF S, G
  <2> QED
    BY <2>1, <2>2 DEF Mapped
<1> HIDE DEF S, G
<1>1. g = Func(f.name, bl)
  BY DEF MapInstrs, Mapped
<1>2. g.name = f.name /\ g.blocks = bl
  BY <1>1 DEF Func
<1>3. \A k \in DOMAIN f.blocks : bl[k].name = f.blocks[k].name /\ bl[k].body = Mapped(f.blocks[k].body, F)
  BY DEF Block
<1>4. \A s \in Seq(S) : Mapped(s, F) \in Seq(Instrs)
  <2>1. \A s \in Seq(S) : Mapped(s, G) \in Seq(Instrs)
    BY <1>0, MappedType
  <2> QED
    BY <1>11, <2>1
<1>5. \A k \in DOMAIN f.blocks : bl[k] \in Blocks
  BY <1>4, <1>10, FuncParts DEF Blocks, Block
<1>6. bl \in Seq(Blocks)
  <2>1. DOMAIN bl = 1 .. Len(f.blocks) /\ Len(f.blocks) \in Nat
    BY FuncParts
  <2>2. bl = [k \in 1 .. Len(f.blocks) |-> bl[k]] /\ \A k \in 1 .. Len(f.blocks) : bl[k] \in Blocks
    BY <1>5, <2>1
  <2> HIDE DEF bl
  <2> QED
    BY <2>1, <2>2
<1>7. g \in Funcs
  BY <1>1, <1>6, FuncParts DEF Func, Funcs
<1>8. Bodies(g) = MapEach(Bodies(f), G)
  <2>1. \A k \in DOMAIN f.blocks : bl[k].body = Mapped(f.blocks[k].body, G)
    BY <1>3, <1>10, <1>11
  <2> HIDE DEF bl, g
  <2> QED
    BY <1>2, <2>1 DEF Bodies, MapEach, bl
<1>9. InstrsOf(g) = Mapped(InstrsOf(f), F)
  <2> HIDE DEF g
  <2>1. InstrsOf(f) = FlattenSeq(Bodies(f)) /\ InstrsOf(g) = FlattenSeq(Bodies(g))
    BY <1>7, InstrsOfFacts
  <2>2. Bodies(f) \in Seq(Seq(S))
    <3>1. /\ DOMAIN f.blocks = 1 .. Len(f.blocks) /\ Len(f.blocks) \in Nat
          /\ \A k \in DOMAIN f.blocks : f.blocks[k].body \in Seq(S)
      BY <1>10, FuncParts
    <3> QED
      BY <3>1 DEF Bodies
  <2>3. Mapped(FlattenSeq(Bodies(f)), G) = FlattenSeq(MapEach(Bodies(f), G))
    BY <1>0, <2>2, MapFlatten
  <2>4. FlattenSeq(Bodies(f)) \in Seq(S)
    BY <2>2, FlattenType
  <2> QED
    BY <1>8, <1>11, <2>1, <2>3, <2>4
<1> QED
  BY <1>2, <1>3, <1>7, <1>9

\* What KeepInstrs does to a function.
LEMMA KeepInstrsFacts ==
  ASSUME NEW f \in Funcs, NEW A
  PROVE  /\ KeepInstrs(f, A) \in Funcs /\ KeepInstrs(f, A).name = f.name
         /\ DOMAIN KeepInstrs(f, A).blocks = DOMAIN f.blocks
         /\ \A k \in DOMAIN f.blocks : KeepInstrs(f, A).blocks[k].body = Keep(f.blocks[k].body, A)
         /\ InstrsOf(KeepInstrs(f, A)) = Keep(InstrsOf(f), A)
<1> DEFINE g == KeepInstrs(f, A)
           bl == [k \in DOMAIN f.blocks |-> Block(f.blocks[k].name, Keep(f.blocks[k].body, A))]
<1>1. g = Func(f.name, bl)
  BY DEF KeepInstrs
<1>2. g.name = f.name /\ g.blocks = bl
  BY <1>1 DEF Func
<1>3. \A k \in DOMAIN f.blocks : bl[k].name = f.blocks[k].name /\ bl[k].body = Keep(f.blocks[k].body, A)
  BY DEF Block
<1>4. \A s \in Seq(Instrs) : Keep(s, A) \in Seq(Instrs)
  BY KeepType
<1>5. \A k \in DOMAIN f.blocks : bl[k] \in Blocks
  BY <1>4, FuncParts DEF Blocks, Block
<1>6. bl \in Seq(Blocks)
  <2>1. DOMAIN bl = 1 .. Len(f.blocks) /\ Len(f.blocks) \in Nat
    BY FuncParts
  <2>2. bl = [k \in 1 .. Len(f.blocks) |-> bl[k]] /\ \A k \in 1 .. Len(f.blocks) : bl[k] \in Blocks
    BY <1>5, <2>1
  <2> HIDE DEF bl
  <2> QED
    BY <2>1, <2>2
<1>7. g \in Funcs
  BY <1>1, <1>6, FuncParts DEF Func, Funcs
<1>8. Bodies(g) = KeepEach(Bodies(f), A)
  BY <1>2, <1>3 DEF Bodies, KeepEach
<1>9. InstrsOf(g) = Keep(InstrsOf(f), A)
  <2> HIDE DEF g
  <2>1. InstrsOf(f) = FlattenSeq(Bodies(f)) /\ Bodies(f) \in Seq(Seq(Instrs)) /\ InstrsOf(g) = FlattenSeq(Bodies(g))
    BY <1>7, InstrsOfFacts
  <2>2. Keep(FlattenSeq(Bodies(f)), A) = FlattenSeq(KeepEach(Bodies(f), A))
    BY <2>1, KeepFlatten
  <2> QED
    BY <1>8, <2>1, <2>2
<1> QED
  BY <1>2, <1>3, <1>7, <1>9

-----------------------------------------------------------------------------
(* Pre.                                                                    *)

\* The hook of a call is a hook with its tag.
LEMMA HookFacts ==
  ASSUME NEW i \in Instrs
  PROVE  /\ getHookInst(i) \in Hooks /\ getHookInst(i) \in Instrs
         /\ getHookInst(i).tag = i.tag /\ getHookInst(i).id = -1 /\ getHookInst(i).fn \in HookNames
<1>1. HookNames \subseteq Seq(Chars)
  <2>1. "h" \in Chars /\ "a" \in Chars /\ "r" \in Chars /\ "d" \in Chars
    BY CharsAssumption
  <2>2. allocHook \in Seq(Chars) /\ reallocHook \in Seq(Chars) /\ deallocHook \in Seq(Chars)
    BY <2>1 DEF allocHook, reallocHook, deallocHook
  <2> QED
    BY <2>2 DEF HookNames
<1>2. i.tag \in Nat
  BY DEF Instrs
<1>3. PICK h \in HookNames : getHookInst(i) = Hook(h, i.tag)
  BY DEF getHookInst, HookNames
<1>4. h \in Seq(Chars)
  BY <1>1
<1> QED
  BY <1>2, <1>3, <1>4 DEF Hook, Hooks, Instrs

\* The invokes that continue in block b of f.
InvokesTo(f, b, single) ==
  Keep(InstrsOf(f), {i \in Targets : i.op = "invoke" /\ i.dest = b.name /\ i.single = single})

\* The hooks of the invokes that go on in a block.
LEMMA InvokeHooksFacts ==
  ASSUME NEW f \in Funcs, NEW b, NEW single
  PROVE  /\ invokeHooks(f, b, single) \in Seq(Instrs)
         /\ InvokesTo(f, b, single) \in Seq(Instrs)
         /\ DOMAIN invokeHooks(f, b, single) = DOMAIN InvokesTo(f, b, single)
         /\ \A j \in DOMAIN InvokesTo(f, b, single) :
              invokeHooks(f, b, single)[j] = getHookInst(InvokesTo(f, b, single)[j])
         /\ \A x : x \in ToSet(InvokesTo(f, b, single)) <=>
              x \in ToSet(InstrsOf(f)) /\ x \in Targets /\ x.op = "invoke" /\ x.dest = b.name /\ x.single = single
<1> DEFINE A == {i \in Targets : i.op = "invoke" /\ i.dest = b.name /\ i.single = single}
           s == InvokesTo(f, b, single)
<1>1. s = Keep(InstrsOf(f), A) /\ InstrsOf(f) \in Seq(Instrs)
  BY InstrsOfFacts DEF InvokesTo
<1>2. s \in Seq(Instrs)
  BY <1>1, KeepType
<1>3. \A x : x \in ToSet(s) <=> x \in ToSet(InstrsOf(f)) /\ x \in A
  <2> HIDE DEF s, A
  <2> QED
    BY <1>1, KeepRange
<1>4. invokeHooks(f, b, single) = [j \in DOMAIN s |-> getHookInst(s[j])]
  BY Zenon DEF invokeHooks, InvokesTo
<1> HIDE DEF s
<1>5. \A j \in DOMAIN s : getHookInst(s[j]) \in Instrs
  <2>1. \A j \in DOMAIN s : s[j] \in Instrs
    BY <1>2
  <2> QED
    BY <2>1, HookFacts
<1>6. DOMAIN s = 1 .. Len(s) /\ Len(s) \in Nat
  BY <1>2
<1>7. invokeHooks(f, b, single) \in Seq(Instrs)
  BY <1>4, <1>5, <1>6
<1> QED
  BY <1>2, <1>3, <1>4, <1>7 DEF s

\* The elements, without the sequence they are the hooks of.
LEMMA InvokeHooksRange ==
  ASSUME NEW f \in Funcs, NEW b, NEW single, NEW y
  PROVE  y \in ToSet(invokeHooks(f, b, single)) <=>
           \E x \in ToSet(InstrsOf(f)) : /\ x \in Targets /\ x.op = "invoke" /\ x.dest = b.name
                                         /\ x.single = single /\ y = getHookInst(x)
<1> DEFINE s == InvokesTo(f, b, single)
           t == invokeHooks(f, b, single)
<1>1. DOMAIN t = DOMAIN s /\ \A j \in DOMAIN s : t[j] = getHookInst(s[j])
  BY InvokeHooksFacts
<1>2. \A x : x \in ToSet(s) <=>
         x \in ToSet(InstrsOf(f)) /\ x \in Targets /\ x.op = "invoke" /\ x.dest = b.name /\ x.single = single
  BY InvokeHooksFacts
<1> HIDE DEF s, t
<1>3. y \in ToSet(t) <=> \E j \in DOMAIN s : y = getHookInst(s[j])
  BY <1>1 DEF ToSet
<1>4. (\E j \in DOMAIN s : y = getHookInst(s[j])) <=> \E x \in ToSet(s) : y = getHookInst(x)
  BY DEF ToSet
<1> QED
  BY <1>2, <1>3, <1>4 DEF t

\* What hookCalls flattens.
Pairs(body) ==
  [j \in DOMAIN body |-> IF body[j] \in Targets /\ body[j].op = "call"
                           THEN <<body[j], getHookInst(body[j])>> ELSE <<body[j]>>]

\* A body with the hooks of its calls.
LEMMA HookCallsFacts ==
  ASSUME NEW body \in Seq(Instrs)
  PROVE  /\ Pairs(body) \in Seq(Seq(Instrs)) /\ hookCalls(body) = FlattenSeq(Pairs(body))
         /\ hookCalls(body) \in Seq(Instrs)
         /\ \A y : y \in ToSet(hookCalls(body)) <=>
              \/ y \in ToSet(body)
              \/ \E x \in ToSet(body) : x \in Targets /\ x.op = "call" /\ y = getHookInst(x)
<1>0. DOMAIN body = 1 .. Len(body) /\ Len(body) \in Nat /\ \A j \in DOMAIN body : body[j] \in Instrs
  OBVIOUS
<1>1. \A j \in DOMAIN body : getHookInst(body[j]) \in Instrs
  BY <1>0, HookFacts
<1>2. \A j \in DOMAIN body : Pairs(body)[j] \in Seq(Instrs)
  BY <1>0, <1>1 DEF Pairs
<1>3. Pairs(body) = [j \in 1 .. Len(body) |-> Pairs(body)[j]]
  BY <1>0 DEF Pairs
<1>4. Pairs(body) \in Seq(Seq(Instrs))
  BY <1>0, <1>2, <1>3
<1>5. hookCalls(body) = FlattenSeq(Pairs(body))
  BY DEF hookCalls, Pairs
<1>6. ASSUME NEW y
      PROVE  y \in ToSet(hookCalls(body)) <=>
              \/ y \in ToSet(body)
              \/ \E x \in ToSet(body) : x \in Targets /\ x.op = "call" /\ y = getHookInst(x)
  <2>1. y \in ToSet(hookCalls(body)) <=> \E j \in DOMAIN Pairs(body) : y \in ToSet(Pairs(body)[j])
    BY <1>4, <1>5, FlattenRange
  <2>2. ASSUME NEW j \in DOMAIN body
        PROVE  y \in ToSet(Pairs(body)[j]) <=>
                 y = body[j] \/ (body[j] \in Targets /\ body[j].op = "call" /\ y = getHookInst(body[j]))
    <3>1. CASE body[j] \in Targets /\ body[j].op = "call"
      <4>1. Pairs(body)[j] = <<body[j], getHookInst(body[j])>>
        BY <3>1 DEF Pairs
      <4>2. ToSet(<<body[j], getHookInst(body[j])>>) = {body[j], getHookInst(body[j])}
        BY DEF ToSet
      <4> QED
        BY <3>1, <4>1, <4>2
    <3>2. CASE ~(body[j] \in Targets /\ body[j].op = "call")
      <4>1. Pairs(body)[j] = <<body[j]>>
        BY <3>2 DEF Pairs
      <4>2. ToSet(<<body[j]>>) = {body[j]}
        BY DEF ToSet
      <4> QED
        BY <3>2, <4>1, <4>2
    <3> QED
      BY <3>1, <3>2
  <2>3. DOMAIN Pairs(body) = DOMAIN body
    BY DEF Pairs
  <2>4. \A x : x \in ToSet(body) <=> \E j \in DOMAIN body : x = body[j]
    BY DEF ToSet
  <2> QED
    BY <2>1, <2>2, <2>3, <2>4
<1> QED
  BY <1>4, <1>5, <1>6, FlattenType

\* A block with the hooks that go before it and into it.
Piece(f, b) == (invokeHooks(f, b, FALSE) \o invokeHooks(f, b, TRUE)) \o hookCalls(b.body)
Pieces(f) == [k \in DOMAIN f.blocks |-> Piece(f, f.blocks[k])]

\* What hookFunction flattens.
PreBlocks(f) == [k \in DOMAIN f.blocks |-> edges(f, f.blocks[k]) \o <<hooked(f, f.blocks[k])>>]

BodyOf == [b \in Blocks |-> b.body]

\* The blocks that replace one block have the instructions of its piece.
LEMMA PieceFacts ==
  ASSUME NEW f \in Funcs, NEW b \in Blocks
  PROVE  /\ Piece(f, b) \in Seq(Instrs)
         /\ edges(f, b) \in Seq(Blocks) /\ hooked(f, b) \in Blocks
         /\ FlattenSeq(Mapped(edges(f, b) \o <<hooked(f, b)>>, BodyOf)) = Piece(f, b)
<1> DEFINE s == invokeHooks(f, b, FALSE)
           t == invokeHooks(f, b, TRUE) \o hookCalls(b.body)
           e == edges(f, b)
           h == hooked(f, b)
<1>0. b.name \in Nat /\ b.body \in Seq(Instrs)
  BY DEF Blocks
<1>1. s \in Seq(Instrs) /\ invokeHooks(f, b, TRUE) \in Seq(Instrs) /\ hookCalls(b.body) \in Seq(Instrs)
  BY <1>0, InvokeHooksFacts, HookCallsFacts
<1>2. t \in Seq(Instrs) /\ Piece(f, b) = s \o t /\ Piece(f, b) \in Seq(Instrs)
  <2> DEFINE u == invokeHooks(f, b, TRUE)
             v == hookCalls(b.body)
  <2>1. Piece(f, b) = (s \o u) \o v /\ t = u \o v
    BY DEF Piece
  <2>2. s \in Seq(Instrs) /\ u \in Seq(Instrs) /\ v \in Seq(Instrs)
    BY <1>1
  <2> HIDE DEF s, t, u, v
  <2>3. u \o v \in Seq(Instrs) /\ (s \o u) \o v = s \o (u \o v) /\ s \o (u \o v) \in Seq(Instrs)
    BY <2>2
  <2> QED
    BY <2>1, <2>3
<1>3. h = Block(b.name, t)
  BY DEF hooked
<1> HIDE DEF t
<1>4. h \in Blocks /\ h.body = t
  BY <1>0, <1>2, <1>3 DEF Block, Blocks
<1>5. e = [j \in DOMAIN s |-> Block(10 * b.name + j, <<s[j]>>)]
  BY DEF edges
<1> HIDE DEF s, e, h
<1>6. DOMAIN s = 1 .. Len(s) /\ Len(s) \in Nat /\ \A j \in DOMAIN s : s[j] \in Instrs
  BY <1>1
<1>7. ASSUME NEW j \in DOMAIN s PROVE e[j] \in Blocks /\ e[j].body = <<s[j]>>
  <2>1. 10 * b.name + j \in Nat
    BY <1>0, <1>6
  <2>2. <<s[j]>> \in Seq(Instrs)
    BY <1>6
  <2> QED
    BY <1>5, <2>1, <2>2 DEF Block, Blocks
<1>8. e \in Seq(Blocks) /\ DOMAIN e = DOMAIN s
  BY <1>5, <1>6, <1>7
<1>9. BodyOf \in [Blocks -> Seq(Instrs)] /\ \A c \in Blocks : BodyOf[c] = c.body
  BY DEF BodyOf, Blocks
<1>10. <<h>> \in Seq(Blocks)
  BY <1>4
<1>11. Mapped(e \o <<h>>, BodyOf) = Mapped(e, BodyOf) \o Mapped(<<h>>, BodyOf)
  <2> HIDE DEF BodyOf, e
  <2>1. ASSUME NEW u \in Seq(Blocks), NEW v \in Seq(Blocks)
        PROVE  Mapped(u \o v, BodyOf) = Mapped(u, BodyOf) \o Mapped(v, BodyOf)
    BY <1>9, MappedConcat, ZenonT(60)
  <2> QED
    BY <1>8, <1>10, <2>1, Zenon
<1>12. Mapped(e, BodyOf) = [j \in DOMAIN s |-> <<s[j]>>]
  BY <1>7, <1>8, <1>9 DEF Mapped
<1>13. FlattenSeq(Mapped(e, BodyOf)) = s
  BY <1>1, <1>12, FlattenSingles
<1>14. Mapped(<<h>>, BodyOf) = <<t>>
  BY <1>4, <1>9 DEF Mapped
<1>15. FlattenSeq(Mapped(e, BodyOf) \o <<t>>) = s \o t
  <2>1. Mapped(e, BodyOf) \in Seq(Seq(Instrs))
    <3>1. \A x \in Seq(Blocks) : Mapped(x, BodyOf) \in Seq(Seq(Instrs))
      BY <1>9, MappedType
    <3> QED
      BY <1>8, <3>1
  <2>2. Mapped(e, BodyOf) \o <<t>> = Append(Mapped(e, BodyOf), t)
    BY <1>2, <2>1, AppendIsConcat
  <2>3. FlattenSeq(Append(Mapped(e, BodyOf), t)) = FlattenSeq(Mapped(e, BodyOf)) \o t
    BY <1>2, <2>1, FlattenAppend
  <2> QED
    BY <1>13, <2>2, <2>3
<1> QED
  BY <1>2, <1>4, <1>8, <1>11, <1>14, <1>15 DEF e, h

\* A hooked function has the instructions of its pieces, in their order.
LEMMA HookFunctionFacts ==
  ASSUME NEW f \in Funcs
  PROVE  /\ hookFunction(f) \in Funcs /\ hookFunction(f).name = f.name
         /\ Pieces(f) \in Seq(Seq(Instrs))
         /\ InstrsOf(hookFunction(f)) = FlattenSeq(Pieces(f))
<1> DEFINE g == hookFunction(f)
           pb == PreBlocks(f)
<1>0. DOMAIN f.blocks = 1 .. Len(f.blocks) /\ Len(f.blocks) \in Nat /\ \A k \in DOMAIN f.blocks : f.blocks[k] \in Blocks
  <2>1. f.blocks \in Seq(Blocks)
    BY FuncParts
  <2> QED
    BY <2>1
<1>1. g = Func(f.name, FlattenSeq(pb))
  BY DEF hookFunction, PreBlocks
<1>2. \A k \in DOMAIN f.blocks : pb[k] \in Seq(Blocks)
  <2> SUFFICES ASSUME NEW k \in DOMAIN f.blocks PROVE pb[k] \in Seq(Blocks)
    OBVIOUS
  <2> DEFINE e == edges(f, f.blocks[k])
             h == hooked(f, f.blocks[k])
  <2>1. e \in Seq(Blocks) /\ h \in Blocks
    BY <1>0, PieceFacts
  <2>2. pb[k] = e \o <<h>>
    BY DEF PreBlocks
  <2> HIDE DEF e, h, pb
  <2> QED
    BY <2>1, <2>2
<1>3. pb \in Seq(Seq(Blocks)) /\ DOMAIN pb = DOMAIN f.blocks
  <2>1. pb = [k \in 1 .. Len(f.blocks) |-> pb[k]]
    BY <1>0 DEF PreBlocks
  <2> HIDE DEF pb
  <2> QED
    BY <1>0, <1>2, <2>1
<1>4. FlattenSeq(pb) \in Seq(Blocks)
  BY <1>3, FlattenType
<1>5. g \in Funcs /\ g.name = f.name /\ g.blocks = FlattenSeq(pb)
  BY <1>1, <1>4, FuncParts DEF Func, Funcs
<1>6. \A k \in DOMAIN f.blocks : Piece(f, f.blocks[k]) \in Seq(Instrs)
  BY <1>0, PieceFacts
<1>7. Pieces(f) \in Seq(Seq(Instrs))
  BY <1>0, <1>6 DEF Pieces
<1>8. BodyOf \in [Blocks -> Seq(Instrs)] /\ \A c \in Blocks : BodyOf[c] = c.body
  BY DEF BodyOf, Blocks
<1>9. Bodies(g) = Mapped(FlattenSeq(pb), BodyOf)
  <2>1. \A k \in DOMAIN FlattenSeq(pb) : FlattenSeq(pb)[k] \in Blocks
    BY <1>4
  <2> QED
    BY <1>5, <1>8, <2>1 DEF Bodies, Mapped
<1> HIDE DEF g, pb
<1> HIDE DEF BodyOf
<1>10. Mapped(FlattenSeq(pb), BodyOf) = FlattenSeq(MapEach(pb, BodyOf)) /\ MapEach(pb, BodyOf) \in Seq(Seq(Seq(Instrs)))
  BY <1>3, <1>8, MapFlatten, MapEachType
<1>11. FlattenSeq(FlattenSeq(MapEach(pb, BodyOf))) = FlattenSeq(FlattenEach(MapEach(pb, BodyOf)))
  BY <1>10, FlattenFlatten
<1>12. FlattenEach(MapEach(pb, BodyOf)) = Pieces(f)
  <2>1. \A k \in DOMAIN f.blocks : FlattenSeq(Mapped(pb[k], BodyOf)) = Piece(f, f.blocks[k])
    BY <1>0, PieceFacts DEF pb, PreBlocks
  <2> QED
    BY <1>3, <2>1 DEF FlattenEach, MapEach, Pieces
<1>13. InstrsOf(g) = FlattenSeq(Bodies(g))
  BY <1>5, InstrsOfFacts
<1> QED
  BY <1>5, <1>7, <1>9, <1>10, <1>11, <1>12, <1>13 DEF g

-----------------------------------------------------------------------------
(* The source.                                                             *)

\* The same call, as far as the tags tell.
SameTag == {p \in Instrs \X Instrs : p[1].tag = p[2].tag}

\* A function as the passes get it.
SourceFunc(f) ==
  /\ f \in Funcs
  /\ \A i \in ToSet(InstrsOf(f)) :
       /\ i \in Calls /\ i.fn # <<>> /\ "," \notin ToSet(i.fn)
       /\ i.op = "invoke" => \E l \in DOMAIN f.blocks : f.blocks[l].name = i.dest
  /\ \A k, l \in DOMAIN f.blocks : f.blocks[k].name = f.blocks[l].name => k = l
  /\ Apart(Bodies(f), SameTag)

\* The functions of a well-formed program are.
LEMMA SourceFuncs ==
  ASSUME NEW prog, WellFormed(prog)
  PROVE  /\ \A u \in DOMAIN prog : prog[u] \in Seq(Funcs)
         /\ \A u \in DOMAIN prog : \A n \in DOMAIN prog[u] : SourceFunc(prog[u][n])
<1>1. prog \in Seq(Seq(Funcs))
  BY DEF WellFormed
<1>2. \A u \in DOMAIN prog : prog[u] \in Seq(Funcs)
  BY <1>1
<1>3. ASSUME NEW u \in DOMAIN prog, NEW n \in DOMAIN prog[u] PROVE SourceFunc(prog[u][n])
  <2> DEFINE f == prog[u][n]
  <2>1. f \in Funcs
    BY <1>2, <1>3
  <2>2. /\ \A k \in DOMAIN f.blocks : \A i \in ToSet(f.blocks[k].body) :
             /\ i.op # "hook" /\ i.fn # <<>> /\ "," \notin ToSet(i.fn)
             /\ i.op = "invoke" => \E l \in DOMAIN f.blocks : f.blocks[l].name = i.dest
        /\ \A k, l \in DOMAIN f.blocks : f.blocks[k].name = f.blocks[l].name => k = l
    BY DEF WellFormed
  <2>3. \A k, l \in DOMAIN f.blocks : \A i \in DOMAIN f.blocks[k].body, j \in DOMAIN f.blocks[l].body :
          f.blocks[k].body[i].tag = f.blocks[l].body[j].tag => k = l /\ i = j
    <3>1. TagsDiffer(prog)
      BY DEF WellFormed
    <3> QED
      BY <3>1, SMT DEF TagsDiffer
  <2> HIDE DEF f
  <2>4. DOMAIN Bodies(f) = DOMAIN f.blocks /\ \A k \in DOMAIN f.blocks : Bodies(f)[k] = f.blocks[k].body
    BY DEF Bodies
  <2>5. \A k \in DOMAIN f.blocks : Unclashing(Bodies(f)[k], SameTag)
    BY <2>3, <2>4 DEF Unclashing, SameTag
  <2>6. ASSUME NEW k \in DOMAIN f.blocks, NEW l \in DOMAIN f.blocks, k # l,
               NEW x \in ToSet(Bodies(f)[k]), NEW y \in ToSet(Bodies(f)[l])
        PROVE  <<x, y>> \notin SameTag
    <3>1. PICK i \in DOMAIN f.blocks[k].body : x = f.blocks[k].body[i]
      BY <2>4 DEF ToSet
    <3>2. PICK j \in DOMAIN f.blocks[l].body : y = f.blocks[l].body[j]
      BY <2>4 DEF ToSet
    <3> QED
      BY <2>3, <2>6, <3>1, <3>2 DEF SameTag
  <2>7. Apart(Bodies(f), SameTag)
    BY <2>4, <2>5, <2>6 DEF Apart
  <2>8. InstrsOf(f) \in Seq(Instrs)
    BY <2>1, InstrsOfFacts
  <2>9. ASSUME NEW i \in ToSet(InstrsOf(f))
        PROVE  /\ i \in Calls /\ i.fn # <<>> /\ "," \notin ToSet(i.fn)
               /\ i.op = "invoke" => \E l \in DOMAIN f.blocks : f.blocks[l].name = i.dest
    <3>1. i \in Instrs
      BY <2>8 DEF ToSet
    <3>2. PICK k \in DOMAIN f.blocks : i \in ToSet(f.blocks[k].body)
      BY <2>1, InstrsOfFacts DEF InBlock
    <3>3. /\ i.op # "hook" /\ i.fn # <<>> /\ "," \notin ToSet(i.fn)
          /\ i.op = "invoke" => \E l \in DOMAIN f.blocks : f.blocks[l].name = i.dest
      BY <2>2, <3>2
    <3> QED
      BY <3>1, <3>3 DEF Calls
  <2> QED
    BY <2>1, <2>2, <2>7, <2>9 DEF SourceFunc, f
<1> QED
  BY <1>2, <1>3

\* A tag is that of one call, in one place.
LEMMA TagHome ==
  ASSUME NEW prog, WellFormed(prog), NEW u \in DOMAIN prog, NEW v \in DOMAIN prog,
         NEW n \in DOMAIN prog[u], NEW m \in DOMAIN prog[v],
         NEW x \in ToSet(InstrsOf(prog[u][n])), NEW y \in ToSet(InstrsOf(prog[v][m])), x.tag = y.tag
  PROVE  u = v /\ n = m /\ x = y
<1>1. prog[u][n] \in Funcs /\ prog[v][m] \in Funcs
  BY SourceFuncs DEF SourceFunc
<1>2. PICK k \in DOMAIN prog[u][n].blocks : x \in ToSet(prog[u][n].blocks[k].body)
  BY <1>1, InstrsOfFacts DEF InBlock
<1>3. PICK l \in DOMAIN prog[v][m].blocks : y \in ToSet(prog[v][m].blocks[l].body)
  BY <1>1, InstrsOfFacts DEF InBlock
<1>4. PICK i \in DOMAIN prog[u][n].blocks[k].body : x = prog[u][n].blocks[k].body[i]
  BY <1>2 DEF ToSet
<1>5. PICK j \in DOMAIN prog[v][m].blocks[l].body : y = prog[v][m].blocks[l].body[j]
  BY <1>3 DEF ToSet
<1>6. TagsDiffer(prog) /\ prog[u][n].blocks[k].body[i].tag = prog[v][m].blocks[l].body[j].tag
  BY <1>4, <1>5 DEF WellFormed
<1>7. u = v /\ n = m /\ k = l /\ i = j
  BY <1>6, SMT DEF TagsDiffer
<1> QED
  BY <1>4, <1>5, <1>7

\* The instructions of a hooked function: the calls, and the hooks of the targets.
LEMMA HookedRange ==
  ASSUME NEW f, SourceFunc(f), NEW y
  PROVE  y \in ToSet(InstrsOf(hookFunction(f))) <=>
           \/ y \in ToSet(InstrsOf(f))
           \/ \E x \in ToSet(InstrsOf(f)) : x \in Targets /\ y = getHookInst(x)
<1>0. f \in Funcs
  BY DEF SourceFunc
<1>1. y \in ToSet(InstrsOf(hookFunction(f))) <=> \E k \in DOMAIN Pieces(f) : y \in ToSet(Pieces(f)[k])
  BY <1>0, HookFunctionFacts, FlattenRange
<1>2. DOMAIN Pieces(f) = DOMAIN f.blocks
  BY DEF Pieces
<1>3. ASSUME NEW k \in DOMAIN f.blocks
      PROVE  y \in ToSet(Pieces(f)[k]) <=>
               \/ y \in ToSet(invokeHooks(f, f.blocks[k], FALSE))
               \/ y \in ToSet(invokeHooks(f, f.blocks[k], TRUE))
               \/ y \in ToSet(hookCalls(f.blocks[k].body))
  <2> DEFINE r == invokeHooks(f, f.blocks[k], FALSE)
             s == invokeHooks(f, f.blocks[k], TRUE)
             t == hookCalls(f.blocks[k].body)
  <2>1. Pieces(f)[k] = (r \o s) \o t
    BY DEF Pieces, Piece
  <2>2. f.blocks[k].body \in Seq(Instrs)
    BY <1>0, FuncParts
  <2>3. r \in Seq(Instrs) /\ s \in Seq(Instrs) /\ t \in Seq(Instrs)
    BY <1>0, <2>2, InvokeHooksFacts, HookCallsFacts
  <2> HIDE DEF r, s, t
  <2>4. r \o s \in Seq(Instrs)
    BY <2>3
  <2>5. y \in ToSet((r \o s) \o t) <=> y \in ToSet(r \o s) \/ y \in ToSet(t)
    <3>1. ASSUME NEW u \in Seq(Instrs) PROVE y \in ToSet(u \o t) <=> y \in ToSet(u) \/ y \in ToSet(t)
      BY <2>3, ConcatRange
    <3> QED
      BY <2>4, <3>1, Zenon
  <2>6. y \in ToSet(r \o s) <=> y \in ToSet(r) \/ y \in ToSet(s)
    BY <2>3, ConcatRange
  <2> QED
    BY <2>1, <2>5, <2>6 DEF r, s, t
<1>4. \A x : x \in ToSet(InstrsOf(f)) <=> \E k \in DOMAIN f.blocks : x \in ToSet(f.blocks[k].body)
  BY <1>0, InstrsOfFacts DEF InBlock
<1>5. ASSUME NEW k \in DOMAIN f.blocks
      PROVE  y \in ToSet(hookCalls(f.blocks[k].body)) <=>
               \/ y \in ToSet(f.blocks[k].body)
               \/ \E x \in ToSet(f.blocks[k].body) : x \in Targets /\ x.op = "call" /\ y = getHookInst(x)
  BY <1>0, FuncParts, HookCallsFacts
<1>6. ASSUME NEW k \in DOMAIN f.blocks, NEW single \in BOOLEAN
      PROVE  y \in ToSet(invokeHooks(f, f.blocks[k], single)) <=>
               \E x \in ToSet(InstrsOf(f)) : /\ x \in Targets /\ x.op = "invoke" /\ x.dest = f.blocks[k].name
                                             /\ x.single = single /\ y = getHookInst(x)
  BY <1>0, InvokeHooksRange
<1>7. ASSUME y \in ToSet(InstrsOf(hookFunction(f)))
      PROVE  \/ y \in ToSet(InstrsOf(f))
             \/ \E x \in ToSet(InstrsOf(f)) : x \in Targets /\ y = getHookInst(x)
  BY <1>1, <1>2, <1>3, <1>4, <1>5, <1>6, <1>7
<1>8. ASSUME y \in ToSet(InstrsOf(f)) PROVE y \in ToSet(InstrsOf(hookFunction(f)))
  BY <1>1, <1>2, <1>3, <1>4, <1>5, <1>8
<1>9. ASSUME NEW x \in ToSet(InstrsOf(f)), x \in Targets, y = getHookInst(x)
      PROVE  y \in ToSet(InstrsOf(hookFunction(f)))
  <2>1. x \in Instrs /\ (x.op = "call" \/ x.op = "invoke")
    <3>1. x \in Calls
      BY DEF SourceFunc
    <3> QED
      BY <3>1 DEF Calls, Instrs
  <2>2. CASE x.op = "call"
    BY <1>1, <1>2, <1>3, <1>4, <1>5, <1>9, <2>2
  <2>3. CASE x.op = "invoke"
    <3>1. PICK k \in DOMAIN f.blocks : f.blocks[k].name = x.dest
      BY <2>3 DEF SourceFunc
    <3>2. x.single \in BOOLEAN
      BY <2>1 DEF Instrs
    <3>3. y \in ToSet(invokeHooks(f, f.blocks[k], x.single))
      BY <1>6, <1>9, <2>3, <3>1, <3>2
    <3> QED
      BY <1>1, <1>2, <1>3, <3>2, <3>3
  <2> QED
    BY <2>1, <2>2, <2>3
<1> QED
  BY <1>7, <1>8, <1>9

\* Two calls of one function with the same tag are the same.
LEMMA OneTag ==
  ASSUME NEW f, SourceFunc(f)
  PROVE  /\ Unclashing(InstrsOf(f), SameTag)
         /\ \A x, y \in ToSet(InstrsOf(f)) : x.tag = y.tag => x = y
<1>1. f \in Funcs /\ Apart(Bodies(f), SameTag)
  BY DEF SourceFunc
<1>2. Bodies(f) \in Seq(Seq(Instrs)) /\ InstrsOf(f) = FlattenSeq(Bodies(f)) /\ InstrsOf(f) \in Seq(Instrs)
  BY <1>1, InstrsOfFacts
<1>3. Unclashing(InstrsOf(f), SameTag)
  BY <1>1, <1>2, FlattenUnclashing
<1>4. ASSUME NEW x \in ToSet(InstrsOf(f)), NEW y \in ToSet(InstrsOf(f)), x.tag = y.tag PROVE x = y
  <2>1. PICK i \in DOMAIN InstrsOf(f) : x = InstrsOf(f)[i]
    BY DEF ToSet
  <2>2. PICK j \in DOMAIN InstrsOf(f) : y = InstrsOf(f)[j]
    BY DEF ToSet
  <2>3. x \in Instrs /\ y \in Instrs
    BY <1>2, <2>1, <2>2
  <2>4. <<x, y>> \in SameTag
    BY <1>4, <2>3 DEF SameTag
  <2>5. i = j
    BY <1>3, <2>1, <2>2, <2>4 DEF Unclashing
  <2> QED
    BY <2>1, <2>2, <2>5
<1> QED
  BY <1>3, <1>4

-----------------------------------------------------------------------------
(* Post: the numbers of the hooks.                                         *)

\* A set of natural numbers has its least element in it.
LEMMA LeastIn ==
  ASSUME NEW T \in SUBSET Nat, T # {}
  PROVE  Least(T) \in T
  BY LeastNat, Zenon DEF Least

\* The hooks that are numbered, in the order of their numbers.
Sites(g) == Keep(HooksOf(g), {h \in Hooks : Numbered(h)})
SitesAt(g, tag) == {n \in DOMAIN Sites(g) : Sites(g)[n].tag = tag}
IsSite(g, h) == h \in Hooks /\ Numbered(h) /\ \E k \in DOMAIN g.blocks : InBlock(g, k, h)

\* The number of a hook is its place in that order, less one: each has one, and none
\* shares it with the hook of another call.
LEMMA LocalIDFacts ==
  ASSUME NEW g \in Funcs
  PROVE  /\ \A h : h \in ToSet(Sites(g)) <=> IsSite(g, h)
         /\ \A h : IsSite(g, h) => LocalID(g, h.tag) \in Int
         /\ \A h, e : IsSite(g, h) /\ IsSite(g, e) /\ LocalID(g, h.tag) = LocalID(g, e.tag) => h.tag = e.tag
<1> DEFINE A == {h \in Hooks : Numbered(h)}
<1>1. HooksOf(g) \in Seq(Instrs)
  BY HooksOfFacts
<1>2. Sites(g) \in Seq(Instrs) /\ \A h : h \in ToSet(Sites(g)) <=> h \in ToSet(HooksOf(g)) /\ h \in A
  <2>1. Sites(g) = Keep(HooksOf(g), A)
    BY DEF Sites
  <2> HIDE DEF A
  <2> QED
    BY <1>1, <2>1, KeepType, KeepRange
<1>3. \A h : h \in ToSet(Sites(g)) <=> IsSite(g, h)
  BY <1>2, HooksOfFacts DEF IsSite
<1>4. \A tag : LocalID(g, tag) = Least(SitesAt(g, tag)) - 1
  BY DEF LocalID, SitesAt, Sites
<1>5. ASSUME NEW h, IsSite(g, h)
      PROVE  Least(SitesAt(g, h.tag)) \in Nat /\ Sites(g)[Least(SitesAt(g, h.tag))].tag = h.tag
  <2>1. PICK n \in DOMAIN Sites(g) : h = Sites(g)[n]
    BY <1>3, <1>5 DEF ToSet
  <2>2. SitesAt(g, h.tag) \in SUBSET Nat /\ SitesAt(g, h.tag) # {}
    BY <1>2, <2>1 DEF SitesAt
  <2>3. Least(SitesAt(g, h.tag)) \in SitesAt(g, h.tag)
    BY <2>2, LeastIn
  <2> QED
    BY <2>2, <2>3 DEF SitesAt
<1>6. \A h : IsSite(g, h) => LocalID(g, h.tag) \in Int
  BY <1>4, <1>5
<1>7. ASSUME NEW h, NEW e, IsSite(g, h), IsSite(g, e), LocalID(g, h.tag) = LocalID(g, e.tag) PROVE h.tag = e.tag
  <2>1. Least(SitesAt(g, h.tag)) = Least(SitesAt(g, e.tag))
    BY <1>4, <1>5, <1>7
  <2> QED
    BY <1>5, <1>7, <2>1
<1> QED
  BY <1>3, <1>6, <1>7

\* What setLocalIDs does to an instruction.
IDOf(g) == [i \in Instrs |-> IF i \in Hooks /\ Numbered(i) THEN [i EXCEPT !.id = LocalID(g, i.tag)] ELSE i]

\* What it does to a function.
LEMMA SetLocalIDsFacts ==
  ASSUME NEW g \in Funcs
  PROVE  /\ \A x \in ToSet(InstrsOf(g)) : IDOf(g)[x] \in Instrs
         /\ setLocalIDs(g) = MapInstrs(g, IDOf(g)) /\ setLocalIDs(g) \in Funcs
         /\ \A x \in Instrs : /\ IDOf(g)[x].op = x.op /\ IDOf(g)[x].fn = x.fn /\ IDOf(g)[x].tag = x.tag
                              /\ x \notin Hooks => IDOf(g)[x] = x
<1>1. setLocalIDs(g) = MapInstrs(g, IDOf(g))
  BY DEF setLocalIDs, IDOf
<1>2. \A x \in ToSet(InstrsOf(g)) : IDOf(g)[x] \in Instrs
  <2> SUFFICES ASSUME NEW x \in ToSet(InstrsOf(g)) PROVE IDOf(g)[x] \in Instrs
    OBVIOUS
  <2>1. InstrsOf(g) \in Seq(Instrs) /\ \E k \in DOMAIN g.blocks : InBlock(g, k, x)
    BY InstrsOfFacts
  <2>2. x \in Instrs
    BY <2>1 DEF ToSet
  <2>3. CASE x \in Hooks /\ Numbered(x)
    <3>1. LocalID(g, x.tag) \in Int
      BY <2>1, <2>3, LocalIDFacts DEF IsSite
    <3>2. [x EXCEPT !.id = LocalID(g, x.tag)] \in Instrs
      BY <2>2, <3>1 DEF Instrs
    <3> QED
      BY <2>2, <2>3, <3>2 DEF IDOf
  <2>4. CASE ~(x \in Hooks /\ Numbered(x))
    BY <2>2, <2>4 DEF IDOf
  <2> QED
    BY <2>3, <2>4
<1>3. MapInstrs(g, IDOf(g)) \in Funcs
  BY <1>2, MapInstrsFacts
<1>4. ASSUME NEW x \in Instrs
      PROVE  /\ IDOf(g)[x].op = x.op /\ IDOf(g)[x].fn = x.fn /\ IDOf(g)[x].tag = x.tag
             /\ x \notin Hooks => IDOf(g)[x] = x
  <2>1. IDOf(g)[x] = IF x \in Hooks /\ Numbered(x) THEN [x EXCEPT !.id = LocalID(g, x.tag)] ELSE x
    BY DEF IDOf
  <2> QED
    BY <2>1 DEF Instrs
<1> QED
  BY <1>1, <1>2, <1>3, <1>4

\* The instructions of a block whose instructions are mapped.
LEMMA MapInBlock ==
  ASSUME NEW f \in Funcs, NEW F, \A x \in ToSet(InstrsOf(f)) : F[x] \in Instrs, NEW k, NEW y
  PROVE  InBlock(MapInstrs(f, F), k, y) <=> \E x : InBlock(f, k, x) /\ y = F[x]
<1>1. /\ DOMAIN MapInstrs(f, F).blocks = DOMAIN f.blocks
      /\ k \in DOMAIN f.blocks => MapInstrs(f, F).blocks[k].body = Mapped(f.blocks[k].body, F)
  BY MapInstrsFacts
<1>2. y \in ToSet(Mapped(f.blocks[k].body, F)) <=> \E x \in ToSet(f.blocks[k].body) : y = F[x]
  BY MappedRange
<1> QED
  BY <1>1, <1>2 DEF InBlock

\* A function as the program runs it, apart from patches.
Instrumented(f) == setLocalIDs(hookFunction(f))

\* The numbered hooks of a function belong to its calls, and the number tells which.
LEMMA SiteFacts ==
  ASSUME NEW f, SourceFunc(f)
  PROVE  /\ Instrumented(f) \in Funcs /\ Instrumented(f).name = f.name
         /\ \A h : IsSite(Instrumented(f), h) =>
              \E x \in ToSet(InstrsOf(f)) : /\ x \in Targets /\ x.tag = h.tag
                                            /\ h = IDOf(hookFunction(f))[getHookInst(x)]
         /\ \A h, e : IsSite(Instrumented(f), h) /\ IsSite(Instrumented(f), e) /\ h.id = e.id => h = e
<1> DEFINE p == hookFunction(f)
           g == Instrumented(f)
<1>0. f \in Funcs
  BY DEF SourceFunc
<1>1. p \in Funcs /\ p.name = f.name
  BY <1>0, HookFunctionFacts
<1> HIDE DEF p
<1>2. g = MapInstrs(p, IDOf(p)) /\ g \in Funcs /\ \A x \in ToSet(InstrsOf(p)) : IDOf(p)[x] \in Instrs
  BY <1>1, SetLocalIDsFacts DEF Instrumented, p
<1>3. g.name = f.name
  BY <1>1, <1>2, MapInstrsFacts
<1> HIDE DEF g
<1>4. ASSUME NEW h, IsSite(g, h)
      PROVE  \E x \in ToSet(InstrsOf(f)) : /\ x \in Targets /\ x.tag = h.tag
                                           /\ h = IDOf(p)[getHookInst(x)] /\ IsSite(p, getHookInst(x))
                                           /\ h.id = LocalID(p, h.tag)
  <2>1. PICK k : InBlock(g, k, h)
    BY <1>4 DEF IsSite
  <2>2. PICK z : InBlock(p, k, z) /\ h = IDOf(p)[z]
    BY <1>1, <1>2, <2>1, MapInBlock
  <2>3. z \in ToSet(InstrsOf(p)) /\ InstrsOf(p) \in Seq(Instrs)
    BY <1>1, <2>2, InstrsOfFacts DEF InBlock
  <2>4. z \in Instrs
    BY <2>3 DEF ToSet
  <2>5. h.op = z.op /\ h.fn = z.fn /\ h.tag = z.tag
    BY <1>1, <2>2, <2>4, SetLocalIDsFacts
  <2>6. z \in Hooks /\ Numbered(z)
    BY <1>4, <2>4, <2>5 DEF IsSite, Hooks, Numbered
  <2>7. z \notin ToSet(InstrsOf(f))
    BY <2>6 DEF SourceFunc, Calls, Hooks
  <2>8. PICK x \in ToSet(InstrsOf(f)) : x \in Targets /\ z = getHookInst(x)
    BY <2>3, <2>7, HookedRange DEF p
  <2>9. x \in Instrs
    BY <2>8 DEF Targets, Calls
  <2>10. x.tag = z.tag
    BY <2>8, <2>9, HookFacts
  <2>11. IsSite(p, z)
    BY <2>2, <2>6 DEF IsSite, InBlock
  <2>12. h = [z EXCEPT !.id = LocalID(p, z.tag)]
    BY <2>2, <2>4, <2>6 DEF IDOf
  <2>13. h.id = LocalID(p, z.tag)
    BY <2>4, <2>12 DEF Instrs
  <2> QED
    BY <2>2, <2>5, <2>8, <2>10, <2>11, <2>13
<1>5. ASSUME NEW h, NEW e, IsSite(g, h), IsSite(g, e), h.id = e.id PROVE h = e
  <2>1. PICK x \in ToSet(InstrsOf(f)) : /\ x \in Targets /\ x.tag = h.tag
                                        /\ h = IDOf(p)[getHookInst(x)] /\ IsSite(p, getHookInst(x))
                                        /\ h.id = LocalID(p, h.tag)
    BY <1>4, <1>5
  <2>2. PICK y \in ToSet(InstrsOf(f)) : /\ y \in Targets /\ y.tag = e.tag
                                        /\ e = IDOf(p)[getHookInst(y)] /\ IsSite(p, getHookInst(y))
                                        /\ e.id = LocalID(p, e.tag)
    BY <1>4, <1>5
  <2>3. getHookInst(x).tag = h.tag /\ getHookInst(y).tag = e.tag
    BY <2>1, <2>2, HookFacts DEF Targets, Calls
  <2>4. h.tag = e.tag
    BY <1>1, <1>5, <2>1, <2>2, <2>3, LocalIDFacts
  <2>5. x = y
    BY <2>1, <2>2, <2>4, OneTag
  <2> QED
    BY <2>1, <2>2, <2>5
<1> QED
  BY <1>2, <1>3, <1>4, <1>5 DEF g, p

-----------------------------------------------------------------------------
(* Patched and stripped functions.                                         *)

\* g has the blocks of p and the hooks of p in them.
SameHooks(g, p) ==
  /\ g \in Funcs /\ g.name = p.name /\ DOMAIN g.blocks = DOMAIN p.blocks
  /\ \A k \in DOMAIN p.blocks :
       /\ g.blocks[k].name = p.blocks[k].name
       /\ ToSet(g.blocks[k].body) \cap Hooks = ToSet(p.blocks[k].body) \cap Hooks

\* g has no hooks.
NoHooks(g) == g \in Funcs /\ ToSet(InstrsOf(g)) \cap Hooks = {}

\* The blocks a hook is in.
Around(f, h) == {k \in DOMAIN f.blocks : h \in ToSet(f.blocks[k].body)}

\* Then the hooks of g pass the same identities.
LEMMA SameHooksFacts ==
  ASSUME NEW p \in Funcs, NEW g, SameHooks(g, p)
  PROVE  /\ \A h : IsSite(g, h) <=> IsSite(p, h)
         /\ \A h : IsSite(p, h) => Identity(g, h) = Identity(p, h)
<1>0. \A k : \A h \in Hooks : InBlock(g, k, h) <=> InBlock(p, k, h)
  BY DEF SameHooks, InBlock
<1>1. \A h : IsSite(g, h) <=> IsSite(p, h)
  BY <1>0 DEF SameHooks, IsSite
<1>2. ASSUME NEW h, IsSite(p, h) PROVE Identity(g, h) = Identity(p, h)
  <2>1. h \in Hooks
    BY <1>2 DEF IsSite
  <2>2. \A k : k \in Around(g, h) <=> k \in Around(p, h)
    BY <1>0, <2>1 DEF InBlock, Around
  <2>3. Around(g, h) = Around(p, h)
    BY <2>2
  <2>4. Around(p, h) \in SUBSET Nat /\ Around(p, h) # {}
    BY <1>2, FuncParts DEF IsSite, InBlock, Around
  <2>5. Least(Around(p, h)) \in DOMAIN p.blocks
    <3>1. Least(Around(p, h)) \in Around(p, h)
      BY <2>4, LeastIn
    <3> QED
      BY <3>1 DEF Around
  <2>6. bbName(g, h) = g.blocks[Least(Around(g, h))].name /\ bbName(p, h) = p.blocks[Least(Around(p, h))].name
    BY DEF bbName, Around
  <2>7. bbName(g, h) = bbName(p, h)
    BY <2>3, <2>5, <2>6 DEF SameHooks
  <2> QED
    BY <2>7 DEF Identity, SameHooks
<1> QED
  BY <1>1, <1>2

\* What patched does to an instruction.
PatchOf == [i \in Instrs |-> IF Patchable(i) THEN [i EXCEPT !.fn = untrusted_malloc] ELSE i]

\* A patch changes calls of trusted_malloc only.
LEMMA PatchFacts ==
  ASSUME NEW i \in Instrs
  PROVE  /\ PatchOf[i] \in Instrs /\ PatchOf[i].op = i.op /\ PatchOf[i].tag = i.tag
         /\ i \in Hooks => PatchOf[i] = i
         /\ PatchOf[i] \in Hooks => PatchOf[i] = i
<1>1. untrusted_malloc \in Seq(Chars)
  <2>1. "u" \in Chars
    BY CharsAssumption
  <2> QED
    BY <2>1 DEF untrusted_malloc
<1>2. PatchOf[i] = IF Patchable(i) THEN [i EXCEPT !.fn = untrusted_malloc] ELSE i
  BY DEF PatchOf
<1>3. CASE Patchable(i)
  <2> DEFINE j == [i EXCEPT !.fn = untrusted_malloc]
  <2>1. j \in Instrs /\ j.op = i.op /\ j.tag = i.tag
    BY <1>1 DEF Instrs
  <2>2. i.op # "hook"
    BY <1>3 DEF Patchable
  <2>3. PatchOf[i] = j
    BY <1>2, <1>3
  <2> QED
    BY <2>1, <2>2, <2>3 DEF Hooks
<1>4. CASE ~Patchable(i)
  BY <1>2, <1>4
<1> QED
  BY <1>3, <1>4

\* Patching leaves the hooks.
LEMMA PatchedFacts ==
  ASSUME NEW p \in Funcs
  PROVE  /\ patched(p) \in Funcs /\ SameHooks(patched(p), p)
         /\ InstrsOf(patched(p)) = Mapped(InstrsOf(p), PatchOf)
<1>1. patched(p) = MapInstrs(p, PatchOf)
  BY DEF patched, PatchOf
<1>2. InstrsOf(p) \in Seq(Instrs)
  BY InstrsOfFacts
<1>3. \A x \in ToSet(InstrsOf(p)) : PatchOf[x] \in Instrs
  BY <1>2, PatchFacts DEF ToSet
<1>4. /\ patched(p) \in Funcs /\ patched(p).name = p.name /\ DOMAIN patched(p).blocks = DOMAIN p.blocks
      /\ \A k \in DOMAIN p.blocks : patched(p).blocks[k].name = p.blocks[k].name
      /\ InstrsOf(patched(p)) = Mapped(InstrsOf(p), PatchOf)
  BY <1>1, <1>3, MapInstrsFacts
<1>5. ASSUME NEW k, NEW h \in Hooks PROVE InBlock(patched(p), k, h) <=> InBlock(p, k, h)
  <2>1. InBlock(patched(p), k, h) <=> \E x : InBlock(p, k, x) /\ h = PatchOf[x]
    BY <1>1, <1>3, MapInBlock
  <2>2. \A x : InBlock(p, k, x) => x \in Instrs
    <3>1. \A x : InBlock(p, k, x) => x \in ToSet(InstrsOf(p))
      BY InstrsOfFacts DEF InBlock
    <3> QED
      BY <1>2, <3>1 DEF ToSet
  <2>3. h \in Instrs
    BY DEF Hooks
  <2> QED
    BY <2>1, <2>2, <2>3, PatchFacts
<1>6. \A k \in DOMAIN p.blocks : ToSet(patched(p).blocks[k].body) \cap Hooks = ToSet(p.blocks[k].body) \cap Hooks
  BY <1>4, <1>5 DEF InBlock
<1> QED
  BY <1>4, <1>6 DEF SameHooks

\* Only calls are left.
LEMMA StrippedFacts ==
  ASSUME NEW p \in Funcs
  PROVE  NoHooks(KeepInstrs(p, Calls))
<1>1. KeepInstrs(p, Calls) \in Funcs /\ InstrsOf(KeepInstrs(p, Calls)) = Keep(InstrsOf(p), Calls)
  BY KeepInstrsFacts
<1>2. \A x : x \in ToSet(Keep(InstrsOf(p), Calls)) => x \in Calls
  BY InstrsOfFacts, KeepRange
<1> QED
  BY <1>1, <1>2 DEF NoHooks, Calls, Hooks

-----------------------------------------------------------------------------
(* The inductive invariant.                                                *)

\* The numbered hooks of f, and what they pass to the runtime.
SitesOf(f) == ToSet(Sites(Instrumented(f)))
IdOf(f, h) == Identity(Instrumented(f), h)

\* The functions of the program.
AllFuncs == UNION {ToSet(source[v]) : v \in DOMAIN source}

\* Record s names the hook h of f.
Names(s, f, h) == s.func = f.name /\ s.id = h.id

\* While the target functions stay the same, so does what the passes make of a
\* function.
LEMMA StableEnv ==
  ASSUME UNCHANGED env
  PROVE  /\ Targets' = Targets /\ \A i : getHookInst(i)' = getHookInst(i)
         /\ \A f : hookFunction(f)' = hookFunction(f)
         /\ \A f : Instrumented(f)' = Instrumented(f)
         /\ \A f : SitesOf(f)' = SitesOf(f)
         /\ \A f, h : IdOf(f, h)' = IdOf(f, h)
<1>1. AllocFunctions' = AllocFunctions /\ ReallocFunctions' = ReallocFunctions /\ DeallocFunctions' = DeallocFunctions
  BY DEF AllocFunctions, ReallocFunctions, DeallocFunctions
<1>2. Targets' = Targets
  BY <1>1 DEF Targets
<1>3. \A i : getHookInst(i)' = getHookInst(i)
  BY <1>1 DEF getHookInst
<1>4. \A b : hookCalls(b)' = hookCalls(b)
  BY <1>2, <1>3 DEF hookCalls
<1>5. \A f, b, s : invokeHooks(f, b, s)' = invokeHooks(f, b, s)
  BY <1>2, <1>3 DEF invokeHooks
<1>6. \A f, b : hooked(f, b)' = hooked(f, b) /\ edges(f, b)' = edges(f, b)
  BY <1>4, <1>5 DEF hooked, edges
<1>7. \A f : hookFunction(f)' = hookFunction(f)
  BY <1>6 DEF hookFunction
<1>8. \A f : Instrumented(f)' = Instrumented(f)
  BY <1>7 DEF Instrumented
<1>9. \A f : SitesOf(f)' = SitesOf(f)
  BY <1>8 DEF SitesOf
<1>10. \A f, h : IdOf(f, h)' = IdOf(f, h)
  BY <1>8 DEF IdOf
<1> QED
  BY <1>2, <1>3, <1>7, <1>8, <1>9, <1>10

\* The unit that is being compiled, as written.
Unit == source[Len(objects) + 1]

Phases == {"pre", "post", "remove", "compiled", "linked"}

\* The units are compiled one after the other, and the functions of each are
\* visited once in each pass.
Progress ==
  /\ source \in Sources /\ env \in Environments
  /\ phase \in Phases
  /\ objects \in Seq(Seq(Funcs)) /\ M \in Seq(Funcs)
  /\ IF phase = "linked" THEN Len(objects) = Len(source) ELSE Len(objects) < Len(source)
  /\ phase # "linked" => todo \in Seq(DOMAIN Unit) /\ IsInjective(todo)
  /\ phase \in {"remove", "compiled"} => todo = <<>>

\* A function that is instrumented and patched.
Patched(f) == patched(Instrumented(f))

\* What has become of function f at place n of the unit.
Stage(f, n) ==
  CASE phase = "pre"      -> IF n \in ToSet(todo) THEN f ELSE hookFunction(f)
    [] phase = "post"     -> IF n \in ToSet(todo) THEN hookFunction(f) ELSE Instrumented(f)
    [] phase = "remove"   -> Patched(f)
    [] phase = "compiled" -> IF RemoveHooks THEN KeepInstrs(Patched(f), Calls) ELSE Patched(f)

\* Shape of the unit.
Shape ==
  phase # "linked" =>
    /\ DOMAIN M = DOMAIN Unit
    /\ \A n \in DOMAIN Unit : \A f \in {Unit[n]} : M[n] = Stage(f, n)

\* The hooks of the units that are compiled are those of the instrumented functions,
\* or they are gone.
Compiled ==
  \A v \in DOMAIN objects :
    /\ DOMAIN objects[v] = DOMAIN source[v]
    /\ \A n \in DOMAIN source[v] : \A f \in {source[v][n]} :
         SameHooks(objects[v][n], Instrumented(f)) \/ NoHooks(objects[v][n])

\* The profile holds the identities of hooks whose allocations faulted, and of each
\* of these.
ProfileOfFaults ==
  /\ \A s \in profile : \E f \in AllFuncs : \E h \in SitesOf(f) : h.tag \in faulted /\ s = IdOf(f, h)
  /\ \A t \in faulted : \E f \in AllFuncs : \E h \in SitesOf(f) : h.tag = t /\ IdOf(f, h) \in profile

\* The fault map has, of the profile, one record of each name.
FaultMap ==
  /\ fault_map \subseteq profile
  /\ phase = "post" /\ MPKProfilePath = "TestResults" =>
       \A s \in profile : \E x \in fault_map : x.func = s.func /\ x.id = s.id

\* A call is reported because the profile names its hook.
ReportSound ==
  \A t \in reported : \E f \in AllFuncs : \E h \in SitesOf(f) :
    h.tag = t /\ \E s \in profile : Names(s, f, h)

\* The block of a call is said not to match because the profile says so.
MismatchSound ==
  \A t \in mismatched : \E f \in AllFuncs : \E h \in SitesOf(f) :
    h.tag = t /\ \E s \in profile : Names(s, f, h) /\ s.bb # IdOf(f, h).bb

\* The functions that assignLocalIDs has visited in this build.
Visited ==
  {f \in AllFuncs :
     \/ \E v \in DOMAIN objects : f \in ToSet(source[v])
     \/ phase \in {"post", "remove", "compiled"} /\ \E n \in DOMAIN Unit : n \notin ToSet(todo) /\ f = Unit[n]}

\* In these, every call whose hook the profile names is reported.
ReportComplete ==
  MPKProfilePath = "TestResults" =>
    \A f \in Visited : \A h \in SitesOf(f) : (\E s \in profile : Names(s, f, h)) => h.tag \in reported

ReportInv ==
  /\ Progress /\ Shape /\ Compiled /\ ProfileOfFaults /\ FaultMap
  /\ ReportSound /\ MismatchSound /\ ReportComplete

-----------------------------------------------------------------------------
(* What the steps of the cycle preserve.                                   *)

\* The program is well formed.
LEMMA SourceFacts ==
  ASSUME Progress
  PROVE  /\ WellFormed(source) /\ Len(source) \in Nat /\ DOMAIN source = 1 .. Len(source)
         /\ \A v \in DOMAIN source : /\ source[v] \in Seq(Funcs) /\ DOMAIN source[v] = 1 .. Len(source[v])
                                     /\ Len(source[v]) \in Nat
         /\ \A f : f \in AllFuncs <=> \E v \in DOMAIN source : \E n \in DOMAIN source[v] : f = source[v][n]
         /\ \A f \in AllFuncs : SourceFunc(f)
         /\ Len(objects) \in Nat /\ DOMAIN objects = 1 .. Len(objects)
         /\ phase # "linked" => Len(objects) + 1 \in DOMAIN source
<1>1. WellFormed(source)
  BY SourcesAssumption DEF Progress
<1>2. source \in Seq(Seq(Funcs))
  BY <1>1 DEF WellFormed
<1>3. Len(source) \in Nat /\ DOMAIN source = 1 .. Len(source)
  BY <1>2
<1>4. \A v \in DOMAIN source : source[v] \in Seq(Funcs)
  BY <1>2
<1>5. \A v \in DOMAIN source : DOMAIN source[v] = 1 .. Len(source[v]) /\ Len(source[v]) \in Nat
  BY <1>4
<1>6. \A f : f \in AllFuncs <=> \E v \in DOMAIN source : \E n \in DOMAIN source[v] : f = source[v][n]
  BY DEF AllFuncs, ToSet
<1>7. \A f \in AllFuncs : SourceFunc(f)
  BY <1>1, <1>6, SourceFuncs
<1>8. Len(objects) \in Nat /\ DOMAIN objects = 1 .. Len(objects)
  BY DEF Progress
<1>9. phase # "linked" => Len(objects) + 1 \in DOMAIN source
  BY <1>3, <1>8 DEF Progress
<1> QED
  BY <1>1, <1>3, <1>4, <1>5, <1>6, <1>7, <1>8, <1>9

\* The functions of the unit.
LEMMA UnitFacts ==
  ASSUME Progress, phase # "linked", NEW n \in DOMAIN Unit
  PROVE  SourceFunc(Unit[n]) /\ Unit[n] \in AllFuncs /\ Unit[n] \in Funcs
<1>1. Unit[n] \in AllFuncs
  BY SourceFacts DEF Unit
<1> QED
  BY <1>1, SourceFacts DEF SourceFunc

\* The numbered hooks of a function.
LEMMA SitesOfFacts ==
  ASSUME NEW f, SourceFunc(f)
  PROVE  /\ \A h : h \in SitesOf(f) <=> IsSite(Instrumented(f), h)
         /\ \A h : IdOf(f, h).func = f.name /\ IdOf(f, h).id = h.id /\ IdOf(f, h).bb = bbName(Instrumented(f), h)
<1>1. Instrumented(f) \in Funcs /\ Instrumented(f).name = f.name
  BY SiteFacts
<1> QED
  BY <1>1, LocalIDFacts DEF SitesOf, IdOf, Identity

\* The rest of a sequence without repetition.
LEMMA TailFacts ==
  ASSUME NEW S, NEW s \in Seq(S), s # <<>>, IsInjective(s)
  PROVE  /\ Head(s) \in S /\ Head(s) \in ToSet(s) /\ Tail(s) \in Seq(S) /\ IsInjective(Tail(s))
         /\ \A x : x \in ToSet(Tail(s)) <=> x \in ToSet(s) /\ x # Head(s)
<1> DEFINE L == Len(s)
           t == Tail(s)
<1>1. L \in Nat /\ L # 0 /\ DOMAIN s = 1 .. L /\ 1 \in 1 .. L
  OBVIOUS
<1>2. Head(s) = s[1] /\ s[1] \in S /\ t \in Seq(S) /\ DOMAIN t = 1 .. L - 1
  OBVIOUS
<1>3. \A i \in 1 .. L - 1 : t[i] = s[i + 1] /\ i + 1 \in 1 .. L /\ i + 1 # 1
  OBVIOUS
<1>4. \A i \in 1 .. L : i # 1 => i - 1 \in 1 .. L - 1 /\ (i - 1) + 1 = i
  BY <1>1
<1> HIDE DEF L, t
<1>5. \A i, j \in 1 .. L : s[i] = s[j] => i = j
  BY <1>1 DEF IsInjective
<1>6. IsInjective(t)
  <2> SUFFICES ASSUME NEW i \in 1 .. L - 1, NEW j \in 1 .. L - 1, t[i] = t[j] PROVE i = j
    BY <1>2 DEF IsInjective
  <2>1. i + 1 = j + 1
    BY <1>3, <1>5
  <2> QED
    BY <1>1, <2>1
<1>7. ASSUME NEW x PROVE x \in ToSet(t) <=> x \in ToSet(s) /\ x # Head(s)
  <2>1. x \in ToSet(s) <=> \E i \in 1 .. L : x = s[i]
    BY <1>1 DEF ToSet
  <2>2. x \in ToSet(t) <=> \E i \in 1 .. L - 1 : x = t[i]
    BY <1>2 DEF ToSet
  <2>3. ASSUME x \in ToSet(t) PROVE x \in ToSet(s) /\ x # Head(s)
    <3>1. PICK i \in 1 .. L - 1 : x = t[i]
      BY <2>2, <2>3
    <3>2. x = s[i + 1] /\ i + 1 \in 1 .. L /\ i + 1 # 1
      BY <1>3, <3>1
    <3> QED
      BY <1>1, <1>2, <1>5, <2>1, <3>2
  <2>4. ASSUME x \in ToSet(s), x # Head(s) PROVE x \in ToSet(t)
    <3>1. PICK i \in 1 .. L : x = s[i]
      BY <2>1, <2>4
    <3>2. i # 1
      BY <1>2, <2>4, <3>1
    <3>3. i - 1 \in 1 .. L - 1 /\ t[i - 1] = s[(i - 1) + 1] /\ (i - 1) + 1 = i
      BY <1>3, <1>4, <3>2
    <3> QED
      BY <2>2, <3>1, <3>3
  <2> QED
    BY <2>3, <2>4
<1> QED
  BY <1>1, <1>2, <1>6, <1>7 DEF t, ToSet

\* The facts about past runs stay.
LEMMA ProfileStable ==
  ASSUME ProfileOfFaults, UNCHANGED <<source, env, profile, faulted>>
  PROVE  ProfileOfFaults'
<1>1. AllFuncs' = AllFuncs
  BY DEF AllFuncs
<1> QED
  BY <1>1, StableEnv DEF ProfileOfFaults

\* So does the report as far as it goes.
LEMMA SoundStable ==
  ASSUME ReportSound, MismatchSound, UNCHANGED <<source, env, profile, reported, mismatched>>
  PROVE  ReportSound' /\ MismatchSound'
<1>1. AllFuncs' = AllFuncs
  BY DEF AllFuncs
<1>2. \A f : SitesOf(f)' = SitesOf(f)
  BY StableEnv
<1>3. \A f, h : IdOf(f, h)' = IdOf(f, h)
  BY StableEnv
<1>4. \A f, s, h : Names(s, f, h)' <=> Names(s, f, h)
  BY DEF Names
<1>5. ReportSound'
  BY <1>1, <1>2, <1>4 DEF ReportSound
<1>6. MismatchSound'
  BY <1>1, <1>2, <1>3, <1>4 DEF MismatchSound
<1> QED
  BY <1>5, <1>6

\* And it stays complete while no function is visited.
LEMMA CompleteStable ==
  ASSUME ReportComplete, UNCHANGED <<source, env, profile, opt, reported>>, Visited' \subseteq Visited
  PROVE  ReportComplete'
<1>1. MPKProfilePath' = MPKProfilePath
  BY DEF MPKProfilePath
<1>2. \A f : SitesOf(f)' = SitesOf(f)
  BY StableEnv
<1> QED
  BY <1>1, <1>2 DEF ReportComplete, Names

\* The units that are compiled stay as they are.
LEMMA CompiledStable ==
  ASSUME Compiled, UNCHANGED <<source, env, objects>>
  PROVE  Compiled'
  BY StableEnv DEF Compiled

\* hookFunctions: one more function has its hooks.
LEMMA HookFunctionsStep ==
  ASSUME ReportInv, hookFunctions
  PROVE  ReportInv'
<1>0. Progress /\ Shape
  BY DEF ReportInv
<1>1. /\ phase = "pre" /\ todo # <<>> /\ todo' = Tail(todo)
      /\ M' = [M EXCEPT ![Head(todo)] = hookFunction(M[Head(todo)])]
      /\ UNCHANGED <<source, env, opt, profile, faulted, objects, phase, fault_map, reported, mismatched>>
  BY DEF hookFunctions, program, run, output
<1>2. Unit' = Unit
  BY <1>1 DEF Unit
<1>3. todo \in Seq(DOMAIN Unit) /\ IsInjective(todo)
  BY <1>0, <1>1 DEF Progress
<1>4. /\ Head(todo) \in DOMAIN Unit /\ Head(todo) \in ToSet(todo) /\ todo' \in Seq(DOMAIN Unit) /\ IsInjective(todo')
      /\ \A x : x \in ToSet(todo') <=> x \in ToSet(todo) /\ x # Head(todo)
  BY <1>1, <1>3, TailFacts
<1>9. M' \in Seq(Funcs)
  <2>1. M \in Seq(Funcs) /\ Head(todo) \in DOMAIN M
    BY <1>0, <1>1, <1>4 DEF Progress, Shape
  <2>2. hookFunction(M[Head(todo)]) \in Funcs
    BY <2>1, HookFunctionFacts
  <2> QED
    BY <1>1, <2>1, <2>2
<1>5. Progress'
  BY <1>0, <1>1, <1>2, <1>4, <1>9 DEF Progress
<1>6. Shape'
  <2>1. DOMAIN M = DOMAIN Unit /\ DOMAIN M' = DOMAIN M
    BY <1>0, <1>1 DEF Shape
  <2>2. ASSUME NEW n \in DOMAIN Unit, NEW f, f = Unit[n] PROVE M'[n] = Stage(f, n)'
    <3>1. M[n] = IF n \in ToSet(todo) THEN f ELSE hookFunction(f)
      BY <1>0, <1>1, <2>2 DEF Shape, Stage
    <3>2. Stage(f, n)' = IF n \in ToSet(todo') THEN f ELSE hookFunction(f)
      BY <1>1, StableEnv DEF Stage
    <3>3. M'[n] = IF n = Head(todo) THEN hookFunction(M[n]) ELSE M[n]
      BY <1>1, <2>1
    <3> QED
      BY <1>4, <3>1, <3>2, <3>3
  <2> QED
    BY <1>1, <1>2, <2>1, <2>2 DEF Shape
<1>7. Visited' = Visited
  BY <1>1 DEF Visited, AllFuncs, Unit
<1>8. FaultMap'
  BY <1>1 DEF ReportInv, FaultMap
<1> QED
  BY <1>1, <1>5, <1>6, <1>7, <1>8, ProfileStable, SoundStable, CompleteStable, CompiledStable DEF ReportInv

\* StartPost: the fault map has a record for every name of the profile.
LEMMA StartPostStep ==
  ASSUME ReportInv, StartPost
  PROVE  ReportInv'
<1>0. Progress /\ Shape
  BY DEF ReportInv
<1>1. /\ phase = "pre" /\ todo = <<>> /\ phase' = "post"
      /\ fault_map' \in getFaultingAllocMap
      /\ UNCHANGED <<source, env, opt, profile, faulted, objects, M, reported, mismatched>>
  BY DEF StartPost, program, run, output
<1>2. Unit' = Unit /\ DOMAIN M = DOMAIN Unit
  BY <1>0, <1>1 DEF Unit, Shape
<1>3. PICK w \in [DOMAIN Unit -> DOMAIN Unit] : IsWorkList(w) /\ todo' = w
  BY <1>2 DEF StartPost
<1>4. todo' \in Seq(DOMAIN Unit) /\ IsInjective(todo') /\ ToSet(todo') = DOMAIN Unit
  <2>1. DOMAIN Unit = 1 .. Len(Unit) /\ Len(Unit) \in Nat
    BY <1>0, <1>1, SourceFacts DEF Unit
  <2>2. w \in Seq(DOMAIN Unit)
    BY <2>1
  <2>3. ASSUME NEW i \in DOMAIN w, NEW j \in DOMAIN w, w[i] = w[j] PROVE i = j
    <3>1. i \in Nat /\ j \in Nat
      BY <2>1
    <3>2. \A k, l \in DOMAIN w : k < l => w[k] # w[l]
      <4> SUFFICES ASSUME NEW k \in DOMAIN w, NEW l \in DOMAIN w, k < l, w[k] = w[l] PROVE FALSE
        OBVIOUS
      <4>1. M[w[k]].name > M[w[l]].name
        BY <1>3 DEF IsWorkList
      <4>2. w[k] \in DOMAIN Unit
        OBVIOUS
      <4>3. M[w[k]].name \in Nat
        <5>1. Unit[w[k]] \in Funcs
          BY <1>0, <1>1, <4>2, UnitFacts
        <5>2. M[w[k]] = hookFunction(Unit[w[k]])
          BY <1>0, <1>1, <4>2 DEF Shape, Stage, ToSet
        <5> QED
          BY <5>1, <5>2, HookFunctionFacts, FuncParts
      <4> QED
        BY <4>1, <4>3
    <3> QED
      BY <2>3, <3>1, <3>2
  <2>4. ToSet(w) = DOMAIN Unit
    BY <1>2, <1>3 DEF IsWorkList
  <2> QED
    BY <1>3, <2>2, <2>3, <2>4 DEF IsInjective
<1>5. Progress'
  BY <1>0, <1>1, <1>2, <1>4 DEF Progress, Phases
<1>6. Shape'
  <2>1. ASSUME NEW n \in DOMAIN Unit, NEW f, f = Unit[n] PROVE M'[n] = Stage(f, n)'
    <3>1. M[n] = hookFunction(f)
      BY <1>0, <1>1, <2>1 DEF Shape, Stage, ToSet
    <3>2. Stage(f, n)' = hookFunction(f)
      BY <1>1, <1>4, StableEnv DEF Stage
    <3> QED
      BY <1>1, <3>1, <3>2
  <2> QED
    BY <1>1, <1>2, <2>1 DEF Shape
<1>7. Visited' \subseteq Visited
  BY <1>1, <1>2, <1>4 DEF Visited, AllFuncs
<1>8. FaultMap'
  <2>1. MPKProfilePath' = MPKProfilePath
    BY <1>1 DEF MPKProfilePath
  <2>2. CASE MPKProfilePath # "TestResults"
    BY <1>1, <2>1, <2>2 DEF FaultMap, getFaultingAllocMap
  <2>3. CASE MPKProfilePath = "TestResults"
    <3>1. /\ fault_map' \in SUBSET profile
          /\ \A s \in profile : Cardinality({x \in fault_map' : x.func = s.func /\ x.id = s.id}) = 1
      BY <1>1, <2>3 DEF getFaultingAllocMap
    <3>2. ASSUME NEW s \in profile PROVE \E x \in fault_map' : x.func = s.func /\ x.id = s.id
      <4> DEFINE E == {x \in fault_map' : x.func = s.func /\ x.id = s.id}
      <4>1. Cardinality(E) = 1
        BY <3>1
      <4>2. E # {}
        <5> HIDE DEF E
        <5>1. E = {} => Cardinality(E) = 0
          BY FS_EmptySet
        <5> QED
          BY <4>1, <5>1
      <4> QED
        BY <4>2
    <3> QED
      BY <1>1, <2>1, <3>1, <3>2 DEF FaultMap
  <2> QED
    BY <2>2, <2>3
<1> QED
  BY <1>1, <1>5, <1>6, <1>7, <1>8, ProfileStable, SoundStable, CompleteStable, CompiledStable DEF ReportInv

\* The hooks of a function that the fault map names.
LEMMA FaultingFacts ==
  ASSUME NEW f, SourceFunc(f)
  PROVE  /\ Faulting(Instrumented(f)) \in Seq(Instrs)
         /\ \A h : h \in ToSet(Faulting(Instrumented(f))) <=>
              h \in SitesOf(f) /\ \E s \in fault_map : Names(s, f, h)
         /\ \A h : FaultOf(Instrumented(f), h) = {s \in fault_map : Names(s, f, h)}
<1> DEFINE g == Instrumented(f)
           A == {h \in Hooks : Numbered(h) /\ FaultOf(g, h) # {}}
<1>1. g \in Funcs /\ g.name = f.name
  BY SiteFacts
<1>2. \A h : FaultOf(g, h) = {s \in fault_map : Names(s, f, h)}
  BY <1>1 DEF FaultOf, Names
<1> HIDE DEF g
<1>3. HooksOf(g) \in Seq(Instrs) /\ Faulting(g) = Keep(HooksOf(g), A)
  BY <1>1, HooksOfFacts DEF Faulting
<1>4. Faulting(g) \in Seq(Instrs) /\ \A h : h \in ToSet(Faulting(g)) <=> h \in ToSet(HooksOf(g)) /\ h \in A
  <2> HIDE DEF A
  <2> QED
    BY <1>3, KeepType, KeepRange
<1>5. \A h : h \in SitesOf(f) <=> h \in ToSet(HooksOf(g)) /\ h \in Hooks /\ Numbered(h)
  BY <1>1, HooksOfFacts, SitesOfFacts DEF IsSite, g
<1> QED
  BY <1>2, <1>4, <1>5 DEF g

\* assignLocalIDs: one more function is numbered and reported.
LEMMA AssignLocalIDsStep ==
  ASSUME ReportInv, assignLocalIDs
  PROVE  ReportInv'
<1>0. Progress /\ Shape
  BY DEF ReportInv
<1> DEFINE c == Head(todo)
           f == Unit[c]
           g == setLocalIDs(M[c])
           hits == [j \in DOMAIN Faulting(g) |-> Faulting(g)[j].tag]
<1>1. /\ phase = "post" /\ todo # <<>> /\ todo' = Tail(todo)
      /\ M' = [M EXCEPT ![c] = g]
      /\ reported' = reported \cup ToSet(hits)
      /\ mismatched' = mismatched \cup {h.tag : h \in Mismatched(g)}
      /\ UNCHANGED <<source, env, opt, profile, faulted, objects, phase, fault_map>>
  BY DEF assignLocalIDs, program, run
<1>2. Unit' = Unit
  BY <1>1 DEF Unit
<1>3. todo \in Seq(DOMAIN Unit) /\ IsInjective(todo)
  BY <1>0, <1>1 DEF Progress
<1>4. /\ c \in DOMAIN Unit /\ c \in ToSet(todo) /\ todo' \in Seq(DOMAIN Unit) /\ IsInjective(todo')
      /\ \A x : x \in ToSet(todo') <=> x \in ToSet(todo) /\ x # c
  BY <1>1, <1>3, TailFacts
<1>5. SourceFunc(f) /\ f \in AllFuncs
  BY <1>0, <1>1, <1>4, UnitFacts
<1>6. M[c] = hookFunction(f)
  BY <1>0, <1>1, <1>4 DEF Shape, Stage
<1>7. g = Instrumented(f)
  BY <1>6 DEF Instrumented
<1> HIDE DEF c, f, g, hits
<1>19. M' \in Seq(Funcs)
  <2>1. M \in Seq(Funcs) /\ c \in DOMAIN M
    BY <1>0, <1>1, <1>4 DEF Progress, Shape
  <2>2. g \in Funcs
    BY <1>5, <1>7, SiteFacts
  <2> QED
    BY <1>1, <2>1, <2>2
<1>8. Progress'
  BY <1>0, <1>1, <1>2, <1>4, <1>19 DEF Progress
<1>9. Shape'
  <2>1. DOMAIN M = DOMAIN Unit /\ DOMAIN M' = DOMAIN M
    BY <1>0, <1>1 DEF Shape
  <2>2. ASSUME NEW n \in DOMAIN Unit, NEW e, e = Unit[n] PROVE M'[n] = Stage(e, n)'
    <3>1. M[n] = IF n \in ToSet(todo) THEN hookFunction(e) ELSE Instrumented(e)
      BY <1>0, <1>1, <2>2 DEF Shape, Stage
    <3>2. Stage(e, n)' = IF n \in ToSet(todo') THEN hookFunction(e) ELSE Instrumented(e)
      BY <1>1, StableEnv DEF Stage
    <3>3. M'[n] = IF n = c THEN g ELSE M[n]
      BY <1>1, <2>1
    <3>4. n = c => g = Instrumented(e)
      BY <1>7, <2>2 DEF f
    <3> QED
      BY <1>4, <3>1, <3>2, <3>3, <3>4
  <2> QED
    BY <1>1, <1>2, <2>1, <2>2 DEF Shape
<1>10. FaultMap'
  <2>1. MPKProfilePath' = MPKProfilePath
    BY <1>1 DEF MPKProfilePath
  <2> QED
    BY <1>1, <2>1 DEF ReportInv, FaultMap
<1>11. \A h : h \in ToSet(Faulting(g)) <=> h \in SitesOf(f) /\ \E s \in fault_map : Names(s, f, h)
  BY <1>5, <1>7, FaultingFacts
<1>12. \A t : t \in ToSet(hits) <=> \E h \in SitesOf(f) : h.tag = t /\ \E s \in fault_map : Names(s, f, h)
  <2>1. \A t : t \in ToSet(hits) <=> \E h \in ToSet(Faulting(g)) : h.tag = t
    BY DEF hits, ToSet
  <2> QED
    BY <1>11, <2>1
<1>13. fault_map \subseteq profile
  BY DEF ReportInv, FaultMap
<1>14. AllFuncs' = AllFuncs
  BY <1>1 DEF AllFuncs
<1>15. \A e : SitesOf(e)' = SitesOf(e)
  BY <1>1, StableEnv
<1>16. ReportSound'
  <2>1. ASSUME NEW t \in ToSet(hits)
        PROVE  \E e \in AllFuncs : \E h \in SitesOf(e) : h.tag = t /\ \E s \in profile : Names(s, e, h)
    BY <1>5, <1>12, <1>13
  <2>2. \A t \in reported' : \E e \in AllFuncs : \E h \in SitesOf(e) : h.tag = t /\ \E s \in profile : Names(s, e, h)
    BY <1>1, <2>1 DEF ReportInv, ReportSound
  <2> QED
    BY <1>1, <1>14, <1>15, <2>2 DEF ReportSound, Names
<1>17. MismatchSound'
  <2>1. ASSUME NEW h \in Mismatched(g)
        PROVE  h \in SitesOf(f) /\ \E s \in profile : Names(s, f, h) /\ s.bb # IdOf(f, h).bb
    <3>1. h \in ToSet(Faulting(g)) /\ \E s \in FaultOf(g, h) : s.bb # bbName(g, h)
      BY DEF Mismatched
    <3>2. \A s \in FaultOf(g, h) : s \in profile /\ Names(s, f, h)
      BY <1>5, <1>7, <1>13, FaultingFacts
    <3>3. IdOf(f, h).bb = bbName(g, h)
      BY <1>5, <1>7, SitesOfFacts
    <3> QED
      BY <1>11, <3>1, <3>2, <3>3
  <2>2. \A t \in mismatched' : \E e \in AllFuncs : \E h \in SitesOf(e) :
           h.tag = t /\ \E s \in profile : Names(s, e, h) /\ s.bb # IdOf(e, h).bb
    BY <1>1, <1>5, <2>1 DEF ReportInv, MismatchSound
  <2>3. \A e, h : IdOf(e, h)' = IdOf(e, h)
    BY <1>1, StableEnv
  <2> QED
    BY <1>1, <1>14, <1>15, <2>2, <2>3 DEF MismatchSound, Names
<1>18. ReportComplete'
  <2>1. MPKProfilePath' = MPKProfilePath
    BY <1>1 DEF MPKProfilePath
  <2>2. ASSUME NEW e \in Visited' PROVE e = f \/ e \in Visited
    <3>1. \/ \E v \in DOMAIN objects : e \in ToSet(source[v])
          \/ \E n \in DOMAIN Unit : n \notin ToSet(todo') /\ e = Unit[n]
      BY <1>1, <1>2 DEF Visited
    <3>2. e \in AllFuncs
      BY <1>14 DEF Visited
    <3>3. CASE \E v \in DOMAIN objects : e \in ToSet(source[v])
      BY <3>2, <3>3 DEF Visited
    <3>4. CASE \E n \in DOMAIN Unit : n \notin ToSet(todo') /\ e = Unit[n]
      <4>1. PICK n \in DOMAIN Unit : n \notin ToSet(todo') /\ e = Unit[n]
        BY <3>4
      <4>2. n = c \/ n \notin ToSet(todo)
        BY <1>4, <4>1
      <4> QED
        BY <1>1, <3>2, <4>1, <4>2 DEF Visited, f
    <3> QED
      BY <3>1, <3>3, <3>4
  <2>3. ASSUME MPKProfilePath = "TestResults", NEW h \in SitesOf(f), NEW s \in profile, Names(s, f, h)
        PROVE  h.tag \in reported'
    <3>1. PICK x \in fault_map : x.func = s.func /\ x.id = s.id
      BY <1>1, <2>3 DEF ReportInv, FaultMap
    <3>2. Names(x, f, h)
      BY <2>3, <3>1 DEF Names
    <3> QED
      BY <1>1, <1>12, <3>2
  <2>4. ASSUME MPKProfilePath = "TestResults", NEW e \in Visited, NEW h \in SitesOf(e), NEW s \in profile, Names(s, e, h)
        PROVE  h.tag \in reported'
    BY <1>1, <2>4 DEF ReportInv, ReportComplete
  <2> QED
    BY <1>1, <1>15, <2>1, <2>2, <2>3, <2>4 DEF ReportComplete, Names
<1> QED
  BY <1>1, <1>8, <1>9, <1>10, <1>16, <1>17, <1>18, ProfileStable, CompiledStable DEF ReportInv

\* The patches stay the same with patchList.
LEMMA StablePatch ==
  ASSUME UNCHANGED <<env, patchList>>
  PROVE  \A f : Patched(f)' = Patched(f)
<1>1. \A f : Instrumented(f)' = Instrumented(f)
  BY StableEnv
<1> QED
  BY <1>1 DEF Patched, patched, Patchable

\* patchInstructions: the patched functions have the same hooks.
LEMMA PatchInstructionsStep ==
  ASSUME ReportInv, patchInstructions
  PROVE  ReportInv'
<1>0. Progress /\ Shape
  BY DEF ReportInv
<1>1. /\ phase = "post" /\ todo = <<>> /\ phase' = "remove"
      /\ M' = [n \in DOMAIN M |-> patched(M[n])]
      /\ UNCHANGED <<source, env, opt, profile, faulted, objects, todo, fault_map, patchList, reported, mismatched>>
  BY DEF patchInstructions, program, run, output
<1>2. Unit' = Unit /\ DOMAIN M = DOMAIN Unit
  BY <1>0, <1>1 DEF Unit, Shape
<1>3. M' \in Seq(Funcs)
  <2>1. M \in Seq(Funcs)
    BY <1>0 DEF Progress
  <2>2. \A n \in DOMAIN M : patched(M[n]) \in Funcs
    BY <2>1, PatchedFacts
  <2> QED
    BY <1>1, <2>1, <2>2
<1>4. Progress'
  BY <1>0, <1>1, <1>2, <1>3 DEF Progress, Phases
<1>5. Shape'
  <2>1. ASSUME NEW n \in DOMAIN Unit, NEW f, f = Unit[n] PROVE M'[n] = Stage(f, n)'
    <3>1. M[n] = Instrumented(f)
      BY <1>0, <1>1, <2>1 DEF Shape, Stage, ToSet
    <3>2. Stage(f, n)' = Patched(f)
      BY <1>1, StablePatch DEF Stage
    <3> QED
      BY <1>1, <1>2, <3>1, <3>2 DEF Patched
  <2> QED
    BY <1>1, <1>2, <2>1 DEF Shape
<1>6. Visited' \subseteq Visited
  BY <1>1, <1>2 DEF Visited, AllFuncs
<1>7. FaultMap'
  BY <1>1 DEF ReportInv, FaultMap
<1> QED
  BY <1>1, <1>4, <1>5, <1>6, <1>7, ProfileStable, SoundStable, CompleteStable, CompiledStable DEF ReportInv

\* removeHooks: the hooks stay, or all go.
LEMMA RemoveHooksStep ==
  ASSUME ReportInv, removeHooks
  PROVE  ReportInv'
<1>0. Progress /\ Shape
  BY DEF ReportInv
<1>1. /\ phase = "remove" /\ phase' = "compiled"
      /\ M' = IF RemoveHooks THEN withoutHooks(M) ELSE M
      /\ UNCHANGED <<source, env, opt, profile, faulted, objects, todo, fault_map, patchList, reported, mismatched>>
  BY DEF removeHooks, program, run, output
<1>2. Unit' = Unit /\ DOMAIN M = DOMAIN Unit /\ todo = <<>>
  BY <1>0, <1>1 DEF Unit, Shape, Progress
<1>3. M' \in Seq(Funcs) /\ DOMAIN M' = DOMAIN M /\ \A n \in DOMAIN M : M'[n] = IF RemoveHooks THEN KeepInstrs(M[n], Calls) ELSE M[n]
  <2>1. M \in Seq(Funcs)
    BY <1>0 DEF Progress
  <2>2. \A n \in DOMAIN M : KeepInstrs(M[n], Calls) \in Funcs
    BY <2>1, KeepInstrsFacts
  <2> QED
    BY <1>1, <2>1, <2>2 DEF withoutHooks
<1>4. Progress'
  BY <1>0, <1>1, <1>2, <1>3 DEF Progress, Phases
<1>5. Shape'
  <2>0. RemoveHooks' <=> RemoveHooks
    BY <1>1 DEF RemoveHooks
  <2>1. ASSUME NEW n \in DOMAIN Unit, NEW f, f = Unit[n] PROVE M'[n] = Stage(f, n)'
    <3>1. M[n] = Patched(f)
      BY <1>0, <1>1, <2>1 DEF Shape, Stage
    <3>2. Stage(f, n)' = IF RemoveHooks THEN KeepInstrs(Patched(f), Calls) ELSE Patched(f)
      BY <1>1, <2>0, StablePatch DEF Stage
    <3> QED
      BY <1>2, <1>3, <3>1, <3>2
  <2> QED
    BY <1>1, <1>2, <1>3, <2>1 DEF Shape
<1>6. Visited' \subseteq Visited
  BY <1>1, <1>2 DEF Visited, AllFuncs
<1>7. FaultMap'
  BY <1>1 DEF ReportInv, FaultMap
<1> QED
  BY <1>1, <1>4, <1>5, <1>6, <1>7, ProfileStable, SoundStable, CompleteStable, CompiledStable DEF ReportInv

\* The objects with the unit that is compiled.
LEMMA UnitCompiled ==
  ASSUME ReportInv, phase = "compiled", UNCHANGED <<source, env>>, objects' = Append(objects, M)
  PROVE  /\ Compiled' /\ objects' \in Seq(Seq(Funcs)) /\ Len(objects') = Len(objects) + 1
         /\ \A f \in AllFuncs : (\E v \in DOMAIN objects' : f \in ToSet(source[v])) => f \in Visited
<1>0. Progress /\ Shape /\ Compiled
  BY DEF ReportInv
<1> DEFINE L == Len(objects)
<1>1. objects \in Seq(Seq(Funcs)) /\ M \in Seq(Funcs) /\ L \in Nat /\ todo = <<>>
  BY <1>0 DEF Progress
<1>2. /\ objects' \in Seq(Seq(Funcs)) /\ Len(objects') = L + 1 /\ DOMAIN objects' = 1 .. L + 1
      /\ objects'[L + 1] = M /\ \A v \in 1 .. L : objects'[v] = objects[v]
  BY <1>1, AppendProperties
<1>3. \A v \in 1 .. L + 1 : v \in 1 .. L \/ v = L + 1
  BY <1>1
<1>4. DOMAIN objects = 1 .. L
  BY <1>1
<1>5. ASSUME NEW n \in DOMAIN Unit, NEW f, f = Unit[n]
      PROVE  SameHooks(M[n], Instrumented(f)) \/ NoHooks(M[n])
  <2>1. SourceFunc(f)
    BY <1>0, <1>5, UnitFacts
  <2>2. Instrumented(f) \in Funcs
    BY <2>1, SiteFacts
  <2>3. SameHooks(Patched(f), Instrumented(f)) /\ Patched(f) \in Funcs
    BY <2>2, PatchedFacts DEF Patched
  <2>4. M[n] = IF RemoveHooks THEN KeepInstrs(Patched(f), Calls) ELSE Patched(f)
    BY <1>0, <1>5 DEF Shape, Stage
  <2> QED
    BY <2>3, <2>4, StrippedFacts
<1>6. DOMAIN M = DOMAIN Unit
  BY <1>0 DEF Shape
<1>7. ASSUME NEW v \in 1 .. L + 1
      PROVE  /\ DOMAIN objects'[v] = DOMAIN source[v]
             /\ \A n \in DOMAIN source[v] : \A f \in {source[v][n]} :
                  SameHooks(objects'[v][n], Instrumented(f)) \/ NoHooks(objects'[v][n])
  <2>1. CASE v \in 1 .. L
    BY <1>0, <1>2, <1>4, <2>1 DEF Compiled
  <2>2. CASE v = L + 1
    BY <1>2, <1>5, <1>6, <2>2 DEF Unit
  <2> QED
    BY <1>3, <2>1, <2>2
<1> HIDE DEF L
<1>8. Compiled'
  <2>1. \A f : Instrumented(f)' = Instrumented(f)
    BY StableEnv
  <2>2. \A v \in DOMAIN objects' : /\ DOMAIN objects'[v] = DOMAIN source[v]
           /\ \A n \in DOMAIN source[v] : \A f \in {source[v][n]} :
                SameHooks(objects'[v][n], Instrumented(f)) \/ NoHooks(objects'[v][n])
    BY <1>2, <1>7
  <2> QED
    BY <2>1, <2>2 DEF Compiled
<1>9. ASSUME NEW f \in AllFuncs, NEW v \in DOMAIN objects', f \in ToSet(source[v]) PROVE f \in Visited
  <2>1. CASE v \in 1 .. L
    BY <1>4, <1>9, <2>1 DEF Visited
  <2>2. CASE v = L + 1
    <3>1. PICK n \in DOMAIN Unit : f = Unit[n]
      BY <1>9, <2>2 DEF Unit, L, ToSet
    <3>2. n \notin ToSet(todo)
      BY <1>1 DEF ToSet
    <3> QED
      BY <3>1, <3>2 DEF Visited
  <2> QED
    BY <1>2, <1>3, <2>1, <2>2
<1> QED
  BY <1>2, <1>8, <1>9 DEF L

\* A process starts with a unit as it is written.
LEMMA FreshStep ==
  ASSUME Progress, UNCHANGED <<source, env>>, objects' \in Seq(Seq(Funcs)), Len(objects') + 1 \in DOMAIN source,
         Fresh(source[Len(objects') + 1])
  PROVE  Progress' /\ Shape'
<1>1. Unit' = source[Len(objects') + 1]
  BY DEF Unit
<1>2. M' = Unit' /\ phase' = "pre" /\ todo' = [n \in DOMAIN Unit' |-> n]
  BY <1>1 DEF Fresh
<1>3. Unit' \in Seq(Funcs) /\ DOMAIN Unit' = 1 .. Len(Unit') /\ Len(Unit') \in Nat
  BY <1>1, SourceFacts
<1> DEFINE U == Unit'
<1> HIDE DEF U
<1>4. todo' \in Seq(DOMAIN U) /\ IsInjective(todo') /\ \A n \in DOMAIN U : n \in ToSet(todo')
  BY <1>2, <1>3 DEF U, IsInjective, ToSet
<1>5. Len(objects') < Len(source)
  <2>1. Len(objects') \in Nat
    OBVIOUS
  <2>2. DOMAIN source = 1 .. Len(source) /\ Len(source) \in Nat
    BY SourceFacts
  <2> QED
    BY <2>1, <2>2
<1>6. Progress'
  BY <1>2, <1>3, <1>4, <1>5 DEF Progress, Phases, U
<1>7. ASSUME NEW n \in DOMAIN U, NEW f, f = U[n] PROVE M'[n] = Stage(f, n)'
  <2>1. Stage(f, n)' = f
    BY <1>2, <1>4 DEF Stage
  <2> QED
    BY <1>2, <1>7, <2>1 DEF U
<1>8. Shape'
  BY <1>2, <1>7 DEF Shape, U
<1> QED
  BY <1>6, <1>8

\* NextUnit: the object is kept, and the next unit starts afresh.
LEMMA NextUnitStep ==
  ASSUME ReportInv, NextUnit
  PROVE  ReportInv'
<1>0. Progress
  BY DEF ReportInv
<1>1. /\ phase = "compiled" /\ Len(objects) + 1 < Len(source) /\ objects' = Append(objects, M)
      /\ Fresh(source[Len(objects) + 2])
      /\ UNCHANGED <<source, env, opt, profile, faulted, reported, mismatched>>
  BY DEF NextUnit, program, run, output
<1>2. /\ Compiled' /\ objects' \in Seq(Seq(Funcs)) /\ Len(objects') = Len(objects) + 1
      /\ \A f \in AllFuncs : (\E v \in DOMAIN objects' : f \in ToSet(source[v])) => f \in Visited
  BY <1>1, UnitCompiled
<1>3. Len(objects') + 1 = Len(objects) + 2 /\ Len(objects) + 2 \in DOMAIN source
  <2>1. Len(objects) \in Nat /\ Len(source) \in Nat /\ DOMAIN source = 1 .. Len(source)
    BY <1>0, SourceFacts
  <2> QED
    BY <1>1, <1>2, <2>1
<1>4. Progress' /\ Shape'
  BY <1>0, <1>1, <1>2, <1>3, FreshStep
<1>5. phase' = "pre" /\ fault_map' = {}
  BY <1>1 DEF Fresh
<1>6. Visited' \subseteq Visited
  <2>1. AllFuncs' = AllFuncs
    BY <1>1 DEF AllFuncs
  <2>2. \A f \in Visited' : f \in AllFuncs /\ \E v \in DOMAIN objects' : f \in ToSet(source[v])
    BY <1>1, <1>5, <2>1 DEF Visited
  <2> QED
    BY <1>2, <2>2
<1>7. FaultMap'
  BY <1>5 DEF FaultMap
<1> QED
  BY <1>1, <1>2, <1>4, <1>6, <1>7, ProfileStable, SoundStable, CompleteStable DEF ReportInv

\* Link: the last object is kept.
LEMMA LinkStep ==
  ASSUME ReportInv, Link
  PROVE  ReportInv'
<1>0. Progress
  BY DEF ReportInv
<1>1. /\ phase = "compiled" /\ Len(objects) + 1 = Len(source) /\ objects' = Append(objects, M) /\ phase' = "linked"
      /\ UNCHANGED <<source, env, opt, profile, faulted, M, todo, fault_map, reported, mismatched>>
  BY DEF Link, program, run, output
<1>2. /\ Compiled' /\ objects' \in Seq(Seq(Funcs)) /\ Len(objects') = Len(objects) + 1
      /\ \A f \in AllFuncs : (\E v \in DOMAIN objects' : f \in ToSet(source[v])) => f \in Visited
  BY <1>1, UnitCompiled
<1>4. Progress'
  BY <1>0, <1>1, <1>2 DEF Progress, Phases
<1>5. Shape'
  BY <1>1 DEF Shape
<1>6. Visited' \subseteq Visited
  <2>1. AllFuncs' = AllFuncs
    BY <1>1 DEF AllFuncs
  <2>2. \A f \in Visited' : f \in AllFuncs /\ \E v \in DOMAIN objects' : f \in ToSet(source[v])
    BY <1>1, <2>1 DEF Visited
  <2> QED
    BY <1>2, <2>2
<1>7. FaultMap'
  BY <1>1 DEF ReportInv, FaultMap
<1> QED
  BY <1>1, <1>2, <1>4, <1>5, <1>6, <1>7, ProfileStable, SoundStable, CompleteStable DEF ReportInv

\* The hooks in the objects are numbered hooks of the program, and pass what these do.
LEMMA ObjectSites ==
  ASSUME ReportInv, NEW v \in DOMAIN objects, NEW n \in DOMAIN objects[v],
         NEW h \in ToSet(InstrsOf(objects[v][n])), h \in Hooks, Numbered(h)
  PROVE  \E f \in AllFuncs : h \in SitesOf(f) /\ Identity(objects[v][n], h) = IdOf(f, h)
<1>0. Progress /\ Compiled
  BY DEF ReportInv
<1> DEFINE g == objects[v][n]
           f == source[v][n]
<1>1. DOMAIN objects \subseteq DOMAIN source
  <2>1. Len(objects) <= Len(source) /\ Len(objects) \in Nat /\ DOMAIN objects = 1 .. Len(objects)
        /\ Len(source) \in Nat /\ DOMAIN source = 1 .. Len(source)
    BY <1>0, SourceFacts DEF Progress
  <2> QED
    BY <2>1
<1>2. n \in DOMAIN source[v] /\ (SameHooks(g, Instrumented(f)) \/ NoHooks(g))
  BY <1>0 DEF Compiled
<1>3. f \in AllFuncs /\ SourceFunc(f)
  BY <1>0, <1>1, <1>2, SourceFacts
<1> HIDE DEF f, g
<1>4. SameHooks(g, Instrumented(f))
  BY <1>2 DEF NoHooks, g
<1>5. Instrumented(f) \in Funcs
  BY <1>3, SiteFacts
<1>6. g \in Funcs
  BY <1>4 DEF SameHooks
<1>7. IsSite(g, h)
  BY <1>6, InstrsOfFacts DEF IsSite, InBlock, g
<1>8. IsSite(Instrumented(f), h) /\ Identity(g, h) = Identity(Instrumented(f), h)
  BY <1>4, <1>5, <1>7, SameHooksFacts
<1>9. h \in SitesOf(f)
  BY <1>3, <1>8, SitesOfFacts
<1> QED
  BY <1>3, <1>8, <1>9 DEF IdOf, g

\* Execute: what the run records are the identities of the hooks that saw the faults.
LEMMA ExecuteStep ==
  ASSUME ReportInv, NEW F \in SUBSET Detectable, NEW o, Execute(F, o)
  PROVE  ReportInv'
<1>0. Progress /\ ProfileOfFaults
  BY DEF ReportInv
<1>1. /\ faulted' = faulted \cup F /\ profile' = profile \cup Recorded(F)
      /\ objects' = <<>> /\ reported' = {} /\ mismatched' = {}
      /\ Fresh(source[1]) /\ UNCHANGED <<source, env>>
  BY DEF Execute, program
<1>2. objects' \in Seq(Seq(Funcs)) /\ Len(objects') = 0 /\ DOMAIN objects' = {}
  BY <1>1
<1>3. 1 \in DOMAIN source
  <2>1. source # <<>> /\ source \in Seq(Seq(Funcs))
    BY <1>0, SourceFacts DEF WellFormed
  <2> QED
    BY <2>1
<1>4. Progress' /\ Shape'
  <2>1. Len(objects') + 1 = 1
    BY <1>2
  <2> QED
    BY <1>0, <1>1, <1>2, <1>3, <2>1, FreshStep
<1>5. Compiled'
  BY <1>2 DEF Compiled
<1>6. phase' = "pre" /\ fault_map' = {}
  BY <1>1 DEF Fresh
<1>7. FaultMap'
  BY <1>6 DEF FaultMap
<1>8. ReportSound' /\ MismatchSound'
  BY <1>1 DEF ReportSound, MismatchSound
<1>9. ReportComplete'
  <2>1. Visited' = {}
    BY <1>2, <1>6 DEF Visited
  <2> QED
    BY <2>1 DEF ReportComplete
<1>10. ASSUME NEW v \in DOMAIN objects, NEW n \in DOMAIN objects[v]
       PROVE  objects[v][n] \in Funcs
  <2>1. objects \in Seq(Seq(Funcs))
    BY <1>0 DEF Progress
  <2>2. objects[v] \in Seq(Funcs)
    BY <2>1
  <2> QED
    BY <2>2
<1>11. ASSUME NEW s \in Recorded(F)
       PROVE  \E f \in AllFuncs : \E h \in SitesOf(f) : h.tag \in F /\ s = IdOf(f, h)
  <2>1. PICK v \in DOMAIN objects : \E g \in ToSet(objects[v]) : \E h \in ToSet(HooksOf(g)) :
               Numbered(h) /\ h.tag \in F /\ s = Identity(g, h)
    BY <1>11 DEF Recorded
  <2>2. PICK n \in DOMAIN objects[v] : \E h \in ToSet(HooksOf(objects[v][n])) :
               Numbered(h) /\ h.tag \in F /\ s = Identity(objects[v][n], h)
    BY <2>1 DEF ToSet
  <2>3. PICK h \in ToSet(HooksOf(objects[v][n])) : Numbered(h) /\ h.tag \in F /\ s = Identity(objects[v][n], h)
    BY <2>2
  <2>4. h \in Hooks /\ h \in ToSet(InstrsOf(objects[v][n]))
    BY <1>10, HooksOfFacts, InstrsOfFacts
  <2>5. \E f \in AllFuncs : h \in SitesOf(f) /\ Identity(objects[v][n], h) = IdOf(f, h)
    BY <2>3, <2>4, ObjectSites
  <2> QED
    BY <2>3, <2>5
<1>12. ASSUME NEW t \in F
       PROVE  \E f \in AllFuncs : \E h \in SitesOf(f) : h.tag = t /\ IdOf(f, h) \in Recorded(F)
  <2>1. PICK v \in DOMAIN objects : \E h \in InstrsIn(objects[v]) : h \in Hooks /\ Numbered(h) /\ h.tag = t
    BY DEF Detectable
  <2>2. PICK n \in DOMAIN objects[v] : \E h \in ToSet(InstrsOf(objects[v][n])) : h \in Hooks /\ Numbered(h) /\ h.tag = t
    BY <2>1 DEF InstrsIn
  <2>3. PICK h \in ToSet(InstrsOf(objects[v][n])) : h \in Hooks /\ Numbered(h) /\ h.tag = t
    BY <2>2
  <2>4. PICK f \in AllFuncs : h \in SitesOf(f) /\ Identity(objects[v][n], h) = IdOf(f, h)
    BY <2>3, ObjectSites
  <2>5. h \in ToSet(HooksOf(objects[v][n]))
    BY <1>10, <2>3, HooksOfFacts, InstrsOfFacts
  <2>6. objects[v][n] \in ToSet(objects[v])
    BY DEF ToSet
  <2>7. Identity(objects[v][n], h) \in Recorded(F)
    BY <2>3, <2>5, <2>6 DEF Recorded
  <2> QED
    BY <2>3, <2>4, <2>7
<1>13. ProfileOfFaults'
  <2>1. AllFuncs' = AllFuncs
    BY <1>1 DEF AllFuncs
  <2>2. \A f : SitesOf(f)' = SitesOf(f)
    BY <1>1, StableEnv
  <2>3. \A f, h : IdOf(f, h)' = IdOf(f, h)
    BY <1>1, StableEnv
  <2>4. \A s \in profile' : \E f \in AllFuncs : \E h \in SitesOf(f) : h.tag \in faulted' /\ s = IdOf(f, h)
    BY <1>0, <1>1, <1>11 DEF ProfileOfFaults
  <2>5. \A t \in faulted' : \E f \in AllFuncs : \E h \in SitesOf(f) : h.tag = t /\ IdOf(f, h) \in profile'
    BY <1>0, <1>1, <1>12 DEF ProfileOfFaults
  <2> QED
    BY <2>1, <2>2, <2>3, <2>4, <2>5 DEF ProfileOfFaults
<1> QED
  BY <1>4, <1>5, <1>7, <1>8, <1>9, <1>13 DEF ReportInv

\* The first process.
LEMMA ReportInvInit == Init => ReportInv
<1> SUFFICES ASSUME Init PROVE ReportInv
  OBVIOUS
<1>1. WellFormed(source)
  BY SourcesAssumption DEF Init
<1>2. source \in Seq(Seq(Funcs)) /\ source # <<>>
  BY <1>1 DEF WellFormed
<1>3. 1 \in DOMAIN source /\ Len(source) \in Nat /\ 0 < Len(source)
  BY <1>2
<1>4. source[1] \in Seq(Funcs)
  BY <1>2, <1>3
<1>5. objects = <<>> /\ Unit = source[1] /\ M = Unit /\ todo = [n \in DOMAIN Unit |-> n] /\ phase = "pre"
  BY DEF Init, Unit
<1>6. Len(objects) = 0 /\ DOMAIN objects = {} /\ objects \in Seq(Seq(Funcs))
  BY <1>5
<1>7. todo \in Seq(DOMAIN Unit) /\ IsInjective(todo) /\ \A n \in DOMAIN Unit : n \in ToSet(todo)
  BY <1>4, <1>5 DEF IsInjective, ToSet
<1>8. Progress
  BY <1>3, <1>4, <1>5, <1>6, <1>7 DEF Progress, Phases, Init
<1>9. Shape
  BY <1>5, <1>7 DEF Shape, Stage
<1>10. Visited = {}
  BY <1>5, <1>6 DEF Visited
<1> QED
  BY <1>5, <1>6, <1>8, <1>9, <1>10
  DEF Init, ReportInv, Compiled, ProfileOfFaults, FaultMap, ReportSound, MismatchSound, ReportComplete

\* The invariant is kept by every step of the cycle.
LEMMA ReportInvNext == ReportInv /\ [Next]_vars => ReportInv'
<1> SUFFICES ASSUME ReportInv, [Next]_vars PROVE ReportInv'
  OBVIOUS
<1>1. CASE UNCHANGED vars
  <2>1. UNCHANGED <<source, env, opt, profile, faulted, objects, M, phase, todo, fault_map, patchList, reported, mismatched>>
    BY <1>1 DEF vars, program, run, output
  <2>2. Unit' = Unit
    BY <2>1 DEF Unit
  <2>3. Progress'
    BY <2>1, <2>2 DEF ReportInv, Progress
  <2>4. \A f, n : Stage(f, n)' = Stage(f, n)
    <3>1. RemoveHooks' = RemoveHooks
      BY <2>1 DEF RemoveHooks
    <3> QED
      BY <2>1, <3>1, StableEnv, StablePatch DEF Stage
  <2>5. Shape'
    BY <2>1, <2>2, <2>4 DEF ReportInv, Shape
  <2>6. Visited' \subseteq Visited
    BY <2>1, <2>2 DEF Visited, AllFuncs
  <2>7. FaultMap'
    BY <2>1 DEF ReportInv, FaultMap, MPKProfilePath
  <2> QED
    BY <2>1, <2>3, <2>5, <2>6, <2>7, ProfileStable, SoundStable, CompleteStable, CompiledStable DEF ReportInv
<1>2. CASE \E F \in SUBSET Detectable, o \in Options : Cardinality(F) <= MaxFaults /\ Execute(F, o)
  BY <1>2, ExecuteStep
<1> QED
  BY <1>1, <1>2, HookFunctionsStep, StartPostStep, AssignLocalIDsStep, PatchInstructionsStep, RemoveHooksStep,
     NextUnitStep, LinkStep DEF Next

\* In every state of the cycle the unit is at the stage its phase says, the profile
\* is that of the faults, and the report follows from it.
THEOREM CycleInvariant == Spec => []ReportInv
  BY ReportInvInit, ReportInvNext, PTL DEF Spec

-----------------------------------------------------------------------------
(* The report.                                                             *)

\* A record names the hook it was made by, or one in a static function of the same
\* name.
LEMMA NamedHook ==
  ASSUME Progress, NEW f \in AllFuncs, NEW e \in AllFuncs, NEW h \in SitesOf(f), NEW d \in SitesOf(e),
         Names(IdOf(e, d), f, h)
  PROVE  (e = f /\ d = h) \/ Namesakes(h.tag, d.tag)
<1>1. SourceFunc(f) /\ SourceFunc(e)
  BY SourceFacts
<1>2. IsSite(Instrumented(f), h) /\ IsSite(Instrumented(e), d) /\ e.name = f.name /\ d.id = h.id
  BY <1>1, SitesOfFacts DEF Names
<1>3. CASE e = f
  BY <1>1, <1>2, <1>3, SiteFacts
<1>4. CASE e # f
  <2>1. PICK u \in DOMAIN source : \E n \in DOMAIN source[u] : f = source[u][n]
    BY SourceFacts
  <2>2. PICK n \in DOMAIN source[u] : f = source[u][n]
    BY <2>1
  <2>3. PICK v \in DOMAIN source : \E m \in DOMAIN source[v] : e = source[v][m]
    BY SourceFacts
  <2>4. PICK m \in DOMAIN source[v] : e = source[v][m]
    BY <2>3
  <2>5. WellFormed(source)
    BY SourceFacts
  <2>6. u # v
    <3>1. \A w \in DOMAIN source : \A k, l \in DOMAIN source[w] : source[w][k].name = source[w][l].name => k = l
      BY <2>5, Zenon DEF WellFormed
    <3> QED
      BY <1>2, <1>4, <2>2, <2>4, <3>1
  <2>7. Holds(u, n, h.tag)
    BY <1>1, <1>2, <2>2, SiteFacts DEF Holds
  <2>8. Holds(v, m, d.tag)
    BY <1>1, <1>2, <2>4, SiteFacts DEF Holds
  <2> QED
    BY <1>2, <2>2, <2>4, <2>6, <2>7, <2>8 DEF Namesakes
<1> QED
  BY <1>3, <1>4

\* What is reported faulted, or has a namesake that did.
LEMMA ReportedFaults ==
  ASSUME ReportInv, NEW x \in reported, x \notin faulted
  PROVE  \E y \in faulted : Namesakes(x, y)
<1>1. PICK f \in AllFuncs : \E h \in SitesOf(f) : h.tag = x /\ \E s \in profile : Names(s, f, h)
  BY DEF ReportInv, ReportSound
<1>2. PICK h \in SitesOf(f) : h.tag = x /\ \E s \in profile : Names(s, f, h)
  BY <1>1
<1>3. PICK s \in profile : Names(s, f, h)
  BY <1>2
<1>4. PICK e \in AllFuncs : \E d \in SitesOf(e) : d.tag \in faulted /\ s = IdOf(e, d)
  BY DEF ReportInv, ProfileOfFaults
<1>5. PICK d \in SitesOf(e) : d.tag \in faulted /\ s = IdOf(e, d)
  BY <1>4
<1>6. (e = f /\ d = h) \/ Namesakes(h.tag, d.tag)
  BY <1>3, <1>5, NamedHook DEF ReportInv
<1> QED
  BY <1>2, <1>5, <1>6

\* What faulted is reported once all units are compiled.
LEMMA FaultsReported ==
  ASSUME ReportInv, phase = "linked", opt.PROVSAN_PATH = "TestResults"
  PROVE  faulted \subseteq reported
<1>1. MPKProfilePath = "TestResults"
  BY DEF MPKProfilePath
<1>2. ASSUME NEW t \in faulted PROVE t \in reported
  <2>1. PICK f \in AllFuncs : \E h \in SitesOf(f) : h.tag = t /\ IdOf(f, h) \in profile
    BY DEF ReportInv, ProfileOfFaults
  <2>2. PICK h \in SitesOf(f) : h.tag = t /\ IdOf(f, h) \in profile
    BY <2>1
  <2>3. Names(IdOf(f, h), f, h)
    BY SourceFacts, SitesOfFacts DEF Names, ReportInv
  <2>4. f \in Visited
    <3>1. DOMAIN objects = DOMAIN source
      BY SourceFacts DEF ReportInv, Progress
    <3> QED
      BY <3>1 DEF AllFuncs, Visited
  <2> QED
    BY <1>1, <2>2, <2>3, <2>4 DEF ReportInv, ReportComplete
<1> QED
  BY <1>2

\* A complaint about a block is about a namesake of a faulting call.
LEMMA MismatchNamesake == ReportInv => MismatchExplained
<1> SUFFICES ASSUME ReportInv, NEW x \in mismatched PROVE \E y \in faulted : Namesakes(x, y)
  BY DEF MismatchExplained
<1>1. PICK f \in AllFuncs : \E h \in SitesOf(f) :
              h.tag = x /\ \E s \in profile : Names(s, f, h) /\ s.bb # IdOf(f, h).bb
  BY DEF ReportInv, MismatchSound
<1>2. PICK h \in SitesOf(f) : h.tag = x /\ \E s \in profile : Names(s, f, h) /\ s.bb # IdOf(f, h).bb
  BY <1>1
<1>3. PICK s \in profile : Names(s, f, h) /\ s.bb # IdOf(f, h).bb
  BY <1>2
<1>4. PICK e \in AllFuncs : \E d \in SitesOf(e) : d.tag \in faulted /\ s = IdOf(e, d)
  BY DEF ReportInv, ProfileOfFaults
<1>5. PICK d \in SitesOf(e) : d.tag \in faulted /\ s = IdOf(e, d)
  BY <1>4
<1>6. (e = f /\ d = h) \/ Namesakes(h.tag, d.tag)
  BY <1>3, <1>5, NamedHook DEF ReportInv
<1> QED
  BY <1>2, <1>3, <1>5, <1>6

\* A build with PROVSAN_PATH reports every allocation that faulted in any earlier
\* run, and else only calls in static functions that share a name with the function
\* of one: for every program, every list of target functions and any number of
\* builds.
THEOREM ReportIsExact == Spec => []ReportExact
<1>1. ReportInv => ReportExact
  BY ReportedFaults, FaultsReported DEF ReportExact
<1> QED
  BY <1>1, CycleInvariant, PTL

\* The complaint about a non-matching basic block is only raised about static
\* functions that share a name.
THEOREM MismatchIsExplained == Spec => []MismatchExplained
  BY MismatchNamesake, CycleInvariant, PTL

\* No static functions share a name: each name is defined in one unit.
NamesApart ==
  \A u, v \in DOMAIN source : \A n \in DOMAIN source[u], m \in DOMAIN source[v] :
    source[u][n].name = source[v][m].name => u = v

\* For such a program the cycle is exact: a build with PROVSAN_PATH reports precisely
\* the allocations that faulted in some earlier run, and getFaultingAllocMap's
\* entries always fit the block they are looked up for.
THEOREM CycleIsExact ==
  Spec => [](NamesApart => /\ phase = "linked" /\ opt.PROVSAN_PATH = "TestResults" => reported = faulted
                           /\ mismatched = {})
<1>1. NamesApart => \A x, y : ~Namesakes(x, y)
  BY DEF NamesApart, Namesakes
<1>2. ReportExact /\ MismatchExplained =>
        (NamesApart => /\ phase = "linked" /\ opt.PROVSAN_PATH = "TestResults" => reported = faulted
                       /\ mismatched = {})
  BY <1>1 DEF ReportExact, MismatchExplained
<1> QED
  BY <1>2, ReportIsExact, MismatchIsExplained, PTL

-----------------------------------------------------------------------------
(* Each target has one hook.                                               *)

\* Two hooks of the same call.
SameHook == {p \in Hooks \X Hooks : p[1].tag = p[2].tag}

\* The hook of the target x of f belongs to block k.
Owner(f, k, x) ==
  /\ x \in ToSet(InstrsOf(f)) /\ x \in Targets
  /\ \/ x.op = "invoke" /\ x.dest = f.blocks[k].name
     \/ x.op = "call" /\ x \in ToSet(f.blocks[k].body)

\* It belongs to one.
LEMMA OneOwner ==
  ASSUME NEW f, SourceFunc(f), NEW k \in DOMAIN f.blocks, NEW l \in DOMAIN f.blocks, NEW x,
         Owner(f, k, x), Owner(f, l, x)
  PROVE  k = l
<1>1. CASE x.op = "invoke"
  BY <1>1 DEF Owner, SourceFunc
<1>2. CASE x.op = "call"
  <2>1. x \in ToSet(Bodies(f)[k]) /\ x \in ToSet(Bodies(f)[l]) /\ DOMAIN Bodies(f) = DOMAIN f.blocks
    BY <1>2 DEF Owner, Bodies
  <2>2. <<x, x>> \in SameTag
    BY DEF SameTag, Owner, Targets, Calls
  <2>3. Apart(Bodies(f), SameTag)
    BY DEF SourceFunc
  <2> QED
    BY <2>1, <2>2, <2>3 DEF Apart
<1> QED
  BY <1>1, <1>2 DEF Owner

\* The hooks of one sequence of invokes belong to different calls.
LEMMA InvokeHooksDiffer ==
  ASSUME NEW f, SourceFunc(f), NEW b, NEW single
  PROVE  Unclashing(invokeHooks(f, b, single), SameHook)
<1>0. f \in Funcs
  BY DEF SourceFunc
<1> DEFINE s == InvokesTo(f, b, single)
           t == invokeHooks(f, b, single)
           A == {i \in Targets : i.op = "invoke" /\ i.dest = b.name /\ i.single = single}
<1>1. s \in Seq(Instrs) /\ DOMAIN t = DOMAIN s /\ \A j \in DOMAIN s : t[j] = getHookInst(s[j])
  BY <1>0, InvokeHooksFacts
<1>2. Unclashing(s, SameTag)
  <2>1. s = Keep(InstrsOf(f), A) /\ InstrsOf(f) \in Seq(Instrs)
    BY <1>0, InstrsOfFacts DEF InvokesTo
  <2>2. Unclashing(InstrsOf(f), SameTag)
    BY OneTag
  <2> HIDE DEF A, s
  <2>3. \A i, j \in DOMAIN InstrsOf(f) :
          InstrsOf(f)[i] \in A /\ InstrsOf(f)[j] \in A /\ <<InstrsOf(f)[i], InstrsOf(f)[j]>> \in SameTag => i = j
    BY <2>2 DEF Unclashing
  <2> QED
    BY <2>1, <2>3, KeepUnclashing
<1> HIDE DEF s, t
<1>3. ASSUME NEW i \in DOMAIN s, NEW j \in DOMAIN s, <<t[i], t[j]>> \in SameHook PROVE i = j
  <2>1. s[i] \in Instrs /\ s[j] \in Instrs
    BY <1>1
  <2>2. t[i].tag = s[i].tag /\ t[j].tag = s[j].tag
    BY <1>1, <2>1, HookFacts
  <2>3. <<s[i], s[j]>> \in SameTag
    BY <1>3, <2>1, <2>2 DEF SameHook, SameTag
  <2> QED
    BY <1>2, <2>3 DEF Unclashing
<1> QED
  BY <1>1, <1>3 DEF Unclashing, t

\* So do those of the calls of a block.
LEMMA HookCallsDiffer ==
  ASSUME NEW f, SourceFunc(f), NEW k \in DOMAIN f.blocks
  PROVE  Unclashing(hookCalls(f.blocks[k].body), SameHook)
<1> DEFINE body == f.blocks[k].body
<1>0. f \in Funcs /\ body \in Seq(Instrs)
  BY FuncParts DEF SourceFunc
<1>1. Pairs(body) \in Seq(Seq(Instrs)) /\ hookCalls(body) = FlattenSeq(Pairs(body)) /\ DOMAIN Pairs(body) = DOMAIN body
  BY <1>0, HookCallsFacts DEF Pairs
<1>2. ASSUME NEW j \in DOMAIN body PROVE body[j] \in Instrs /\ body[j] \notin Hooks
  <2>1. body[j] \in ToSet(InstrsOf(f))
    BY <1>0, InstrsOfFacts DEF InBlock, ToSet
  <2> QED
    BY <2>1 DEF SourceFunc, Calls, Hooks
<1>3. Unclashing(body, SameTag)
  <2>1. Apart(Bodies(f), SameTag) /\ k \in DOMAIN Bodies(f) /\ Bodies(f)[k] = body
    BY DEF SourceFunc, Bodies
  <2> QED
    BY <2>1 DEF Apart
<1> HIDE DEF body
<1>4. ASSUME NEW j \in DOMAIN body
      PROVE  /\ Unclashing(Pairs(body)[j], SameHook)
             /\ \A x \in ToSet(Pairs(body)[j]) : x \in Hooks => x.tag = body[j].tag
  <2>1. CASE body[j] \in Targets /\ body[j].op = "call"
    <3>1. Pairs(body)[j] = <<body[j], getHookInst(body[j])>>
      BY <2>1 DEF Pairs
    <3>2. body[j] \notin Hooks /\ getHookInst(body[j]).tag = body[j].tag
      BY <1>2, HookFacts
    <3>3. ToSet(Pairs(body)[j]) = {body[j], getHookInst(body[j])}
      BY <3>1 DEF ToSet
    <3>4. Unclashing(Pairs(body)[j], SameHook)
      <4>1. DOMAIN Pairs(body)[j] = {1, 2} /\ Pairs(body)[j][1] = body[j]
        BY <3>1
      <4> QED
        BY <3>2, <4>1 DEF Unclashing, SameHook
    <3> QED
      BY <3>2, <3>3, <3>4
  <2>2. CASE ~(body[j] \in Targets /\ body[j].op = "call")
    <3>1. Pairs(body)[j] = <<body[j]>>
      BY <2>2 DEF Pairs
    <3> QED
      BY <3>1 DEF Unclashing, ToSet
  <2> QED
    BY <2>1, <2>2
<1>5. ASSUME NEW i \in DOMAIN body, NEW j \in DOMAIN body, i # j,
             NEW x \in ToSet(Pairs(body)[i]), NEW y \in ToSet(Pairs(body)[j])
      PROVE  <<x, y>> \notin SameHook
  <2> SUFFICES ASSUME <<x, y>> \in SameHook PROVE FALSE
    OBVIOUS
  <2>1. body[i].tag = body[j].tag
    BY <1>4 DEF SameHook
  <2>2. <<body[i], body[j]>> \in SameTag
    BY <1>2, <2>1 DEF SameTag
  <2> QED
    BY <1>3, <1>5, <2>2 DEF Unclashing
<1>6. Apart(Pairs(body), SameHook)
  BY <1>1, <1>4, <1>5 DEF Apart
<1> QED
  BY <1>1, <1>6, FlattenUnclashing DEF body

\* The hooks of a piece belong to its block.
LEMMA PieceHooks ==
  ASSUME NEW f, SourceFunc(f), NEW k \in DOMAIN f.blocks
  PROVE  /\ \A single \in BOOLEAN : \A y \in ToSet(invokeHooks(f, f.blocks[k], single)) :
              \E x : Owner(f, k, x) /\ y = getHookInst(x) /\ x.op = "invoke" /\ x.single = single
         /\ \A y \in ToSet(hookCalls(f.blocks[k].body)) :
              y \in Hooks => \E x : Owner(f, k, x) /\ y = getHookInst(x) /\ x.op = "call"
<1>0. f \in Funcs
  BY DEF SourceFunc
<1>1. ASSUME NEW single \in BOOLEAN, NEW y \in ToSet(invokeHooks(f, f.blocks[k], single))
      PROVE  \E x : Owner(f, k, x) /\ y = getHookInst(x) /\ x.op = "invoke" /\ x.single = single
  <2>1. \E x \in ToSet(InstrsOf(f)) : /\ x \in Targets /\ x.op = "invoke" /\ x.dest = f.blocks[k].name
                                      /\ x.single = single /\ y = getHookInst(x)
    BY <1>0, <1>1, InvokeHooksRange
  <2> QED
    BY <2>1 DEF Owner
<1>2. ASSUME NEW y \in ToSet(hookCalls(f.blocks[k].body)), y \in Hooks
      PROVE  \E x : Owner(f, k, x) /\ y = getHookInst(x) /\ x.op = "call"
  <2>1. \A x \in ToSet(f.blocks[k].body) : x \in ToSet(InstrsOf(f))
    BY <1>0, InstrsOfFacts DEF InBlock
  <2>2. y \notin ToSet(f.blocks[k].body)
    BY <1>2, <2>1 DEF SourceFunc, Calls, Hooks
  <2>3. f.blocks[k].body \in Seq(Instrs)
    BY <1>0, FuncParts
  <2>4. \E x \in ToSet(f.blocks[k].body) : x \in Targets /\ x.op = "call" /\ y = getHookInst(x)
    BY <1>2, <2>2, <2>3, HookCallsFacts
  <2> QED
    BY <2>1, <2>4 DEF Owner
<1> QED
  BY <1>1, <1>2

\* Two hooks of the same call have the same owner.
LEMMA OwnersDiffer ==
  ASSUME NEW f, SourceFunc(f), NEW x, NEW y, NEW k, NEW l, Owner(f, k, x), Owner(f, l, y),
         <<getHookInst(x), getHookInst(y)>> \in SameHook
  PROVE  x = y
<1>1. x \in Instrs /\ y \in Instrs /\ x \in ToSet(InstrsOf(f)) /\ y \in ToSet(InstrsOf(f))
  BY DEF Owner, Targets, Calls
<1>2. x.tag = y.tag
  BY <1>1, HookFacts DEF SameHook
<1> QED
  BY <1>1, <1>2, OneTag

\* No call of a hooked function has two hooks.
LEMMA HooksDiffer ==
  ASSUME NEW f, SourceFunc(f)
  PROVE  Unclashing(InstrsOf(hookFunction(f)), SameHook)
<1>0. f \in Funcs
  BY DEF SourceFunc
<1>1. Pieces(f) \in Seq(Seq(Instrs)) /\ InstrsOf(hookFunction(f)) = FlattenSeq(Pieces(f)) /\ DOMAIN Pieces(f) = DOMAIN f.blocks
  BY <1>0, HookFunctionFacts DEF Pieces
<1>2. ASSUME NEW k \in DOMAIN f.blocks
      PROVE  /\ Unclashing(Pieces(f)[k], SameHook)
             /\ \A y \in ToSet(Pieces(f)[k]) : y \in Hooks => \E x : Owner(f, k, x) /\ y = getHookInst(x)
  <2> DEFINE r == invokeHooks(f, f.blocks[k], FALSE)
             s == invokeHooks(f, f.blocks[k], TRUE)
             t == hookCalls(f.blocks[k].body)
  <2>1. Pieces(f)[k] = (r \o s) \o t
    BY DEF Pieces, Piece
  <2>2. f.blocks[k].body \in Seq(Instrs)
    BY <1>0, FuncParts
  <2>3. r \in Seq(Instrs) /\ s \in Seq(Instrs) /\ t \in Seq(Instrs)
    BY <1>0, <2>2, InvokeHooksFacts, HookCallsFacts
  <2>4. Unclashing(r, SameHook) /\ Unclashing(s, SameHook) /\ Unclashing(t, SameHook)
    BY InvokeHooksDiffer, HookCallsDiffer
  <2>5. /\ \A y \in ToSet(r) : \E x : Owner(f, k, x) /\ y = getHookInst(x) /\ x.op = "invoke" /\ x.single = FALSE
        /\ \A y \in ToSet(s) : \E x : Owner(f, k, x) /\ y = getHookInst(x) /\ x.op = "invoke" /\ x.single = TRUE
        /\ \A y \in ToSet(t) : y \in Hooks => \E x : Owner(f, k, x) /\ y = getHookInst(x) /\ x.op = "call"
    BY PieceHooks
  <2> HIDE DEF r, s, t
  <2>6. r \o s \in Seq(Instrs) /\ \A y : y \in ToSet(r \o s) <=> y \in ToSet(r) \/ y \in ToSet(s)
    BY <2>3, ConcatRange
  <2>7. \A y : y \in ToSet((r \o s) \o t) <=> y \in ToSet(r \o s) \/ y \in ToSet(t)
    <3>1. ASSUME NEW u \in Seq(Instrs)
          PROVE  \A y : y \in ToSet(u \o t) <=> y \in ToSet(u) \/ y \in ToSet(t)
      BY <2>3, ConcatRange
    <3> QED
      BY <2>6, <3>1, Zenon
  <2>8. \A x, y : <<x, y>> \in SameHook => x \in Hooks /\ y \in Hooks /\ <<y, x>> \in SameHook
    BY DEF SameHook
  <2>9. \A y \in ToSet(r), z \in ToSet(s) : <<y, z>> \notin SameHook
    BY <2>5, OwnersDiffer
  <2>10. \A y \in ToSet(r \o s), z \in ToSet(t) : <<y, z>> \notin SameHook
    BY <2>5, <2>6, <2>8, OwnersDiffer
  <2>11. Unclashing(r \o s, SameHook)
    BY <2>3, <2>4, <2>8, <2>9, ConcatUnclashing
  <2>12. Unclashing((r \o s) \o t, SameHook)
    BY <2>3, <2>4, <2>6, <2>8, <2>10, <2>11, ConcatUnclashing
  <2> QED
    BY <2>1, <2>5, <2>6, <2>7, <2>12
<1>3. ASSUME NEW k \in DOMAIN f.blocks, NEW l \in DOMAIN f.blocks, k # l,
             NEW y \in ToSet(Pieces(f)[k]), NEW z \in ToSet(Pieces(f)[l]), <<y, z>> \in SameHook
      PROVE  FALSE
  <2>1. y \in Hooks /\ z \in Hooks
    BY <1>3 DEF SameHook
  <2>2. PICK x : Owner(f, k, x) /\ y = getHookInst(x)
    BY <1>2, <2>1
  <2>3. PICK w : Owner(f, l, w) /\ z = getHookInst(w)
    BY <1>2, <2>1
  <2>4. x = w
    BY <1>3, <2>2, <2>3, OwnersDiffer
  <2> QED
    BY <1>3, <2>2, <2>3, <2>4, OneOwner
<1>4. Apart(Pieces(f), SameHook)
  BY <1>1, <1>2, <1>3 DEF Apart
<1> QED
  BY <1>1, <1>4, FlattenUnclashing

\* The tags of a sequence of calls or hooks.
TagsIn(s) == {x.tag : x \in ToSet(s)}

\* If they differ, there is one for each.
LEMMA TagCount ==
  ASSUME NEW s \in Seq(Instrs), Unclashing(s, SameTag)
  PROVE  IsFiniteSet(TagsIn(s)) /\ Cardinality(TagsIn(s)) = Len(s)
<1> DEFINE t == [j \in DOMAIN s |-> s[j].tag]
<1>1. DOMAIN s = 1 .. Len(s) /\ Len(s) \in Nat /\ \A j \in DOMAIN s : s[j] \in Instrs
  OBVIOUS
<1>2. \A j \in DOMAIN s : s[j].tag \in Nat
  BY <1>1 DEF Instrs
<1>3. t \in Seq(Nat) /\ Len(t) = Len(s) /\ DOMAIN t = DOMAIN s /\ \A j \in DOMAIN s : t[j] = s[j].tag
  BY <1>1, <1>2
<1>4. ToSet(t) = TagsIn(s)
  BY <1>3 DEF ToSet, TagsIn
<1> HIDE DEF t
<1>5. \A i, j \in DOMAIN t : t[i] = t[j] => i = j
  BY <1>1, <1>3 DEF Unclashing, SameTag
<1> QED
  BY <1>3, <1>4, <1>5, DistinctCount

\* g has a hook for each target of f.
HasHooks(g, f) ==
  /\ g \in Funcs /\ Unclashing(InstrsOf(g), SameHook)
  /\ \A fn, tag : (\E h \in ToSet(HooksOf(g)) : h.fn = fn /\ h.tag = tag) <=>
                  (\E x \in ToSet(InstrsOf(f)) : x \in Targets /\ getHookInst(x).fn = fn /\ x.tag = tag)

\* Pre gives f such hooks, and Post numbers them.
LEMMA HooksMade ==
  ASSUME NEW f, SourceFunc(f)
  PROVE  HasHooks(hookFunction(f), f) /\ HasHooks(Instrumented(f), f)
<1> DEFINE p == hookFunction(f)
           g == Instrumented(f)
<1>0. f \in Funcs /\ \A x \in ToSet(InstrsOf(f)) : x \notin Hooks /\ x \in Instrs
  BY DEF SourceFunc, Calls, Hooks
<1>1. p \in Funcs
  BY <1>0, HookFunctionFacts
<1>2. Unclashing(InstrsOf(p), SameHook)
  BY HooksDiffer
<1>3. \A y : y \in ToSet(HooksOf(p)) <=> \E x \in ToSet(InstrsOf(f)) : x \in Targets /\ y = getHookInst(x)
  <2>1. \A y : y \in ToSet(HooksOf(p)) <=> y \in ToSet(InstrsOf(p)) /\ y \in Hooks
    BY <1>1, HooksOfFacts, InstrsOfFacts
  <2>2. \A y : y \in ToSet(InstrsOf(p)) <=>
           \/ y \in ToSet(InstrsOf(f))
           \/ \E x \in ToSet(InstrsOf(f)) : x \in Targets /\ y = getHookInst(x)
    BY HookedRange
  <2> QED
    BY <1>0, <2>1, <2>2, HookFacts
<1>4. \A x \in ToSet(InstrsOf(f)) : getHookInst(x).tag = x.tag
  BY <1>0, HookFacts
<1> HIDE DEF p, g
<1>5. HasHooks(p, f)
  BY <1>1, <1>2, <1>3, <1>4 DEF HasHooks
<1>6. g = MapInstrs(p, IDOf(p)) /\ g \in Funcs /\ \A x \in ToSet(InstrsOf(p)) : IDOf(p)[x] \in Instrs
  BY <1>1, SetLocalIDsFacts DEF Instrumented, g, p
<1>7. InstrsOf(g) = Mapped(InstrsOf(p), IDOf(p))
  BY <1>1, <1>6, MapInstrsFacts
<1>8. InstrsOf(p) \in Seq(Instrs)
  BY <1>1, InstrsOfFacts
<1>9. \A x \in Instrs : IDOf(p)[x].op = x.op /\ IDOf(p)[x].fn = x.fn /\ IDOf(p)[x].tag = x.tag
  BY <1>1, SetLocalIDsFacts
<1>10. \A x \in ToSet(InstrsOf(p)) : x \in Instrs /\ (IDOf(p)[x] \in Hooks <=> x \in Hooks)
  <2>1. \A x \in ToSet(InstrsOf(p)) : x \in Instrs
    BY <1>8 DEF ToSet
  <2> QED
    BY <1>6, <1>9, <2>1 DEF Hooks
<1>11. Unclashing(InstrsOf(g), SameHook)
  <2> DEFINE s == InstrsOf(p)
             t == InstrsOf(g)
  <2>1. DOMAIN t = DOMAIN s /\ \A j \in DOMAIN s : t[j] = IDOf(p)[s[j]] /\ s[j] \in ToSet(s)
    BY <1>7 DEF Mapped, ToSet
  <2> HIDE DEF s, t
  <2>2. ASSUME NEW i \in DOMAIN s, NEW j \in DOMAIN s, <<t[i], t[j]>> \in SameHook PROVE i = j
    <3>1. t[i] \in Hooks /\ t[j] \in Hooks /\ t[i].tag = t[j].tag
      BY <2>2 DEF SameHook
    <3>2. s[i] \in Hooks /\ s[j] \in Hooks /\ s[i].tag = s[j].tag
      BY <1>9, <1>10, <2>1, <3>1 DEF s
    <3> QED
      BY <1>2, <3>2 DEF SameHook, Unclashing, s
  <2> QED
    BY <2>1, <2>2 DEF Unclashing, t
<1>12. ASSUME NEW fn, NEW tag
       PROVE  (\E h \in ToSet(HooksOf(g)) : h.fn = fn /\ h.tag = tag) <=> (\E h \in ToSet(HooksOf(p)) : h.fn = fn /\ h.tag = tag)
  <2>1. \A y : y \in ToSet(HooksOf(g)) <=> y \in ToSet(InstrsOf(g)) /\ y \in Hooks
    BY <1>6, HooksOfFacts, InstrsOfFacts
  <2>2. \A y : y \in ToSet(HooksOf(p)) <=> y \in ToSet(InstrsOf(p)) /\ y \in Hooks
    BY <1>1, HooksOfFacts, InstrsOfFacts
  <2>3. \A y : y \in ToSet(InstrsOf(g)) <=> \E x \in ToSet(InstrsOf(p)) : y = IDOf(p)[x]
    BY <1>7, MappedRange
  <2> QED
    BY <1>9, <1>10, <2>1, <2>2, <2>3
<1>13. HasHooks(g, f)
  BY <1>5, <1>6, <1>11, <1>12 DEF HasHooks
<1> QED
  BY <1>5, <1>13 DEF g, p

\* Then the hooks of a kind are as many as their tags.
LEMMA HookCount ==
  ASSUME NEW g \in Funcs, Unclashing(InstrsOf(g), SameHook), NEW A
  PROVE  /\ Keep(HooksOf(g), A) \in Seq(Instrs) /\ HooksOf(g) \in Seq(Instrs)
         /\ Len(HooksOf(g)) = Cardinality(TagsIn(HooksOf(g))) /\ IsFiniteSet(TagsIn(HooksOf(g)))
         /\ Len(Keep(HooksOf(g), A)) = Cardinality(TagsIn(Keep(HooksOf(g), A)))
         /\ IsFiniteSet(TagsIn(Keep(HooksOf(g), A)))
<1>1. InstrsOf(g) \in Seq(Instrs) /\ HooksOf(g) = Keep(InstrsOf(g), Hooks)
  BY InstrsOfFacts DEF HooksOf
<1>2. HooksOf(g) \in Seq(Instrs)
  BY HooksOfFacts
<1>3. Unclashing(HooksOf(g), SameTag)
  <2>1. \A i, j \in DOMAIN InstrsOf(g) :
          InstrsOf(g)[i] \in Hooks /\ InstrsOf(g)[j] \in Hooks /\ <<InstrsOf(g)[i], InstrsOf(g)[j]>> \in SameTag => i = j
    BY DEF Unclashing, SameHook, SameTag
  <2> QED
    BY <1>1, <2>1, KeepUnclashing
<1>4. Keep(HooksOf(g), A) \in Seq(Instrs)
  BY <1>2, KeepType
<1>5. Unclashing(Keep(HooksOf(g), A), SameTag)
  <2>1. \A i, j \in DOMAIN HooksOf(g) :
          HooksOf(g)[i] \in A /\ HooksOf(g)[j] \in A /\ <<HooksOf(g)[i], HooksOf(g)[j]>> \in SameTag => i = j
    BY <1>3 DEF Unclashing
  <2> QED
    BY <1>2, <2>1, KeepUnclashing
<1> QED
  BY <1>2, <1>3, <1>4, <1>5, TagCount

-----------------------------------------------------------------------------
(* The lists of target functions.                                          *)

\* Where the first name from end on starts, and the comma behind it.
Begin(str, end) == Least(starts(str, end))
Comma(str, end) == Least(ends(str, Begin(str, end)))

\* A set of natural numbers has a least element.
LEMMA LeastIs ==
  ASSUME NEW T \in SUBSET Nat, T # {}
  PROVE  Least(T) \in T /\ \A k \in T : Least(T) <= k
  BY LeastNat, Zenon DEF Least

\* Numbers in an interval.
LEMMA Between ==
  ASSUME NEW i \in Nat, NEW L \in Nat, NEW b \in i .. L
  PROVE  /\ b \in Nat /\ i <= b /\ b <= L /\ \A n \in b .. L : n \in Nat /\ n \in i .. L
         /\ \A n \in i .. L : n < b => ~(b <= n)
  OBVIOUS

\* Commas lead to the name, and no comma is in it.
LEMMA BeginFacts ==
  ASSUME NEW str \in Seq(Chars), NEW end \in 1 .. Len(str) + 1
  PROVE  /\ starts(str, end) = {} => \A n \in end .. Len(str) : str[n] = ","
         /\ starts(str, end) # {} =>
              /\ Begin(str, end) \in end .. Len(str) /\ str[Begin(str, end)] # ","
              /\ \A n \in end .. Len(str) : n < Begin(str, end) => str[n] = ","
<1>0. Len(str) \in Nat /\ end \in Nat /\ \A n \in end .. Len(str) : n \in Nat
  OBVIOUS
<1>1. starts(str, end) \in SUBSET Nat
  BY <1>0, Zenon DEF starts
<1>2. starts(str, end) = {} => \A n \in end .. Len(str) : str[n] = ","
  BY DEF starts
<1>3. ASSUME starts(str, end) # {}
      PROVE  /\ Begin(str, end) \in end .. Len(str) /\ str[Begin(str, end)] # ","
             /\ \A n \in end .. Len(str) : n < Begin(str, end) => str[n] = ","
  <2> DEFINE b == Begin(str, end)
  <2>1. b \in starts(str, end) /\ \A k \in starts(str, end) : b <= k
    BY <1>1, <1>3, LeastIs DEF Begin
  <2> HIDE DEF b
  <2>2. b \in end .. Len(str) /\ str[b] # ","
    BY <2>1 DEF starts
  <2>3. \A n \in end .. Len(str) : n < b => str[n] = ","
    <3>1. \A n \in end .. Len(str) : n < b => ~(b <= n)
      BY <1>0, <2>2, Between
    <3> QED
      BY <2>1, <3>1, Zenon DEF starts
  <2> QED
    BY <2>2, <2>3 DEF b
<1> QED
  BY <1>2, <1>3

\* A comma ends the name, or the string does.
LEMMA CommaFacts ==
  ASSUME NEW str \in Seq(Chars), NEW end \in 1 .. Len(str) + 1, starts(str, end) # {}
  PROVE  /\ ends(str, Begin(str, end)) = {} => \A n \in Begin(str, end) .. Len(str) : str[n] # ","
         /\ ends(str, Begin(str, end)) # {} =>
              /\ Comma(str, end) \in end + 1 .. Len(str) /\ str[Comma(str, end)] = ","
              /\ Begin(str, end) < Comma(str, end)
              /\ \A n \in Begin(str, end) .. Len(str) : n < Comma(str, end) => str[n] # ","
<1> DEFINE b == Begin(str, end)
<1>0. Len(str) \in Nat /\ end \in Nat
  OBVIOUS
<1>1. b \in end .. Len(str) /\ str[b] # ","
  BY BeginFacts
<1> HIDE DEF b
<1>10. b \in Nat /\ end <= b /\ \A n \in b .. Len(str) : n \in Nat
  BY <1>0, <1>1, Between
<1>2. ends(str, b) \in SUBSET Nat
  BY <1>10, Zenon DEF ends
<1>3. ends(str, b) = {} => \A n \in b .. Len(str) : str[n] # ","
  BY DEF ends
<1>4. ASSUME ends(str, b) # {}
      PROVE  /\ Comma(str, end) \in end + 1 .. Len(str) /\ str[Comma(str, end)] = ","
             /\ b < Comma(str, end)
             /\ \A n \in b .. Len(str) : n < Comma(str, end) => str[n] # ","
  <2> DEFINE c == Comma(str, end)
  <2>1. c \in ends(str, b) /\ \A k \in ends(str, b) : c <= k
    BY <1>2, <1>4, LeastIs DEF Comma, b
  <2> HIDE DEF c
  <2>2. c \in b .. Len(str) /\ str[c] = ","
    BY <2>1 DEF ends
  <2>3. c # b
    BY <1>1, <2>2
  <2>4. b < c /\ c \in end + 1 .. Len(str)
    <3>1. c \in Nat /\ b <= c /\ c <= Len(str)
      BY <1>0, <1>10, <2>2, Between
    <3> QED
      BY <1>0, <1>10, <2>3, <3>1
  <2>5. \A n \in b .. Len(str) : n < c => str[n] # ","
    <3>1. \A n \in b .. Len(str) : n < c => ~(c <= n)
      BY <1>0, <1>10, <2>2, Between
    <3> QED
      BY <2>1, <3>1, Zenon DEF ends
  <2> QED
    BY <2>2, <2>4, <2>5 DEF c
<1> QED
  BY <1>3, <1>4 DEF b

\* The positions that the names are read from, and sequences of names.
Places(str) == 1 .. Len(str) + 1
NameSeqs == Seq(Seq(Chars))

\* The names depend on those from later positions only.
LEMMA NamesFacts ==
  ASSUME NEW str \in Seq(Chars), NEW end \in Places(str), NEW g \in [Places(str) -> NameSeqs]
  PROVE  /\ names(str, end, g) \in NameSeqs
         /\ \A d : (\A e \in Places(str) : end < e => d[e] = g[e]) => names(str, end, d) = names(str, end, g)
<1> DEFINE b == Begin(str, end)
           c == Comma(str, end)
           L == Len(str)
<1>0. L \in Nat /\ end \in 1 .. Len(str) + 1 /\ end \in Nat /\ \A n \in 1 .. L : str[n] \in Chars
  BY DEF Places
<1>1. \A d : names(str, end, d) =
         IF starts(str, end) = {} THEN <<>>
         ELSE IF ends(str, b) = {} THEN <<SubSeq(str, b, L)>>
         ELSE <<SubSeq(str, b, c - 1)>> \o d[c]
  BY DEF names, Begin, Comma
<1>2. CASE starts(str, end) = {}
  <2>1. \A d : names(str, end, d) = <<>>
    BY <1>1, <1>2, Zenon
  <2>2. <<>> \in NameSeqs
    BY DEF NameSeqs
  <2> QED
    BY <2>1, <2>2
<1>3. CASE starts(str, end) # {} /\ ends(str, b) = {}
  <2>1. b \in end .. L
    BY <1>0, <1>3, BeginFacts
  <2> HIDE DEF b, L
  <2>2. SubSeq(str, b, L) \in Seq(Chars)
    <3>1. b \in Int /\ L \in Int /\ \A n \in b .. L : str[n] \in Chars
      BY <1>0, <2>1
    <3> QED
      BY <3>1, SubSeqProperties
  <2>3. \A d : names(str, end, d) = <<SubSeq(str, b, L)>>
    BY <1>1, <1>3, Zenon
  <2>4. <<SubSeq(str, b, L)>> \in NameSeqs
    BY <2>2 DEF NameSeqs
  <2> QED
    BY <2>3, <2>4
<1>4. CASE starts(str, end) # {} /\ ends(str, b) # {}
  <2>1. b \in end .. L
    BY <1>0, <1>4, BeginFacts
  <2>2. c \in end + 1 .. L
    BY <1>0, <1>4, CommaFacts
  <2> HIDE DEF b, c, L
  <2>3. SubSeq(str, b, c - 1) \in Seq(Chars)
    <3>1. b \in Int /\ c - 1 \in Int /\ \A n \in b .. c - 1 : str[n] \in Chars
      BY <1>0, <2>1, <2>2
    <3> QED
      BY <3>1, SubSeqProperties
  <2>4. c \in Places(str) /\ end < c
    BY <1>0, <2>2 DEF Places, L
  <2>5. <<SubSeq(str, b, c - 1)>> \in Seq(Seq(Chars)) /\ g[c] \in Seq(Seq(Chars))
    BY <2>3, <2>4 DEF NameSeqs
  <2>6. <<SubSeq(str, b, c - 1)>> \o g[c] \in Seq(Seq(Chars))
    BY <2>5, ConcatProperties
  <2>7. \A d : names(str, end, d) = <<SubSeq(str, b, c - 1)>> \o d[c]
    BY <1>1, <1>4, Zenon
  <2> QED
    BY <2>4, <2>6, <2>7 DEF NameSeqs
<1> QED
  BY <1>2, <1>3, <1>4

\* g is the function that str_to_vec(str) defines.
IsVec(g, str) == g = [end \in 1 .. Len(str) + 1 |-> names(str, end, g)]

\* The recursion has a solution.
LEMMA VecExists ==
  ASSUME NEW str \in Seq(Chars)
  PROVE  \E g \in [Places(str) -> NameSeqs] : IsVec(g, str)
<1> DEFINE L == Len(str)
           Good(n, g) == \A e \in Places(str) : L + 1 - e <= n => g[e] = names(str, e, g)
           P(n) == \E g \in [Places(str) -> NameSeqs] : Good(n, g)
           T == {n \in Nat : P(n)}
<1>0. L \in Nat /\ \A e : e \in Places(str) <=> e \in Nat /\ 1 <= e /\ e <= L + 1
  BY DEF Places
<1> HIDE DEF L
<1>1. ASSUME NEW n \in Nat, NEW g \in [Places(str) -> NameSeqs], NEW p \in Places(str), L + 1 - p = n,
             \A e \in Places(str) : L + 1 - e < n => g[e] = names(str, e, g)
      PROVE  P(n)
  <2> DEFINE h == [g EXCEPT ![p] = names(str, p, g)]
  <2>1. h \in [Places(str) -> NameSeqs]
    BY NamesFacts
  <2>2. \A e \in Places(str) : h[e] = IF e = p THEN names(str, p, g) ELSE g[e]
    OBVIOUS
  <2> HIDE DEF h
  <2>3. ASSUME NEW e \in Places(str), L + 1 - e <= n PROVE h[e] = names(str, e, h)
    <3>1. \A d \in Places(str) : e < d => h[d] = g[d]
      BY <1>0, <1>1, <2>2, <2>3
    <3>2. names(str, e, h) = names(str, e, g)
      BY <2>1, <3>1, NamesFacts
    <3>3. e # p => L + 1 - e < n
      BY <1>0, <1>1, <2>3
    <3> QED
      BY <1>1, <2>2, <3>2, <3>3
  <2>4. Good(n, h)
    BY <2>3
  <2> HIDE DEF Good
  <2> QED
    BY <2>1, <2>4, Zenon
<1>2. P(0)
  <2> DEFINE g == [e \in Places(str) |-> <<>>]
  <2>1. g \in [Places(str) -> NameSeqs]
    BY DEF NameSeqs
  <2>2. L + 1 \in Places(str) /\ L + 1 - (L + 1) = 0 /\ \A e \in Places(str) : ~(L + 1 - e < 0)
    BY <1>0
  <2> HIDE DEF g, P
  <2> QED
    BY <1>1, <2>1, <2>2
<1>3. ASSUME NEW n \in Nat, P(n), n < L PROVE P(n + 1)
  <2>1. PICK g \in [Places(str) -> NameSeqs] : Good(n, g)
    BY <1>3, Zenon
  <2>2. L - n \in Places(str) /\ L + 1 - (L - n) = n + 1 /\ n + 1 \in Nat
    BY <1>0, <1>3
  <2>3. \A e \in Places(str) : L + 1 - e < n + 1 => g[e] = names(str, e, g)
    BY <1>0, <2>1
  <2> HIDE DEF P, Good
  <2> QED
    BY <1>1, <2>2, <2>3
<1>4. P(L)
  <2> HIDE DEF P
  <2>1. T \in SUBSET Nat /\ 0 \in T /\ \A n \in T : n < L => n + 1 \in T
    BY <1>2, <1>3
  <2> HIDE DEF T
  <2>2. 0 .. L \subseteq T
    BY <1>0, <2>1, UpTo
  <2> QED
    BY <1>0, <2>2 DEF T
<1>5. PICK g \in [Places(str) -> NameSeqs] : Good(L, g)
  BY <1>4, Zenon
<1>6. \A e \in Places(str) : g[e] = names(str, e, g)
  BY <1>0, <1>5
<1>7. IsVec(g, str)
  BY <1>6 DEF IsVec, Places
<1> QED
  BY <1>7

\* Of positions up to L, those in K being commas: from i to j is a name, as far as
\* it is read from end on.
IsName(K, L, end, i, j) ==
  /\ i \in end .. L /\ j \in i .. L /\ \A n \in i .. j : n \notin K
  /\ i = end \/ i - 1 \in K
  /\ j = L \/ j + 1 \in K

\* The first name ends where the string does, or at the first comma.
LEMMA NoName ==
  ASSUME NEW K, NEW L \in Nat, NEW end \in 1 .. L + 1, \A n \in end .. L : n \in K, NEW i, NEW j
  PROVE  ~IsName(K, L, end, i, j)
  BY DEF IsName

\* If no comma follows, that name is the only one left.
LEMMA LastName ==
  ASSUME NEW K, NEW L \in Nat, NEW end \in 1 .. L + 1, NEW b \in end .. L, b \notin K,
         \A n \in end .. L : n < b => n \in K, \A n \in b .. L : n \notin K, NEW i, NEW j
  PROVE  IsName(K, L, end, i, j) <=> i = b /\ j = L
<1>1. ASSUME IsName(K, L, end, i, j) PROVE i = b /\ j = L
  <2>1. i \in end .. L /\ j \in i .. L /\ i \notin K
    BY <1>1 DEF IsName
  <2>2. ~(i < b)
    BY <2>1
  <2>3. ~(b < i)
    <3> SUFFICES ASSUME b < i PROVE FALSE
      OBVIOUS
    <3>1. i - 1 \in b .. L /\ i # end
      BY <2>1
    <3> QED
      BY <1>1, <3>1 DEF IsName
  <2>4. i = b
    BY <2>1, <2>2, <2>3
  <2>5. j # L => j + 1 \in b .. L
    BY <2>1, <2>4
  <2> QED
    BY <1>1, <2>4, <2>5 DEF IsName
<1>2. IsName(K, L, end, b, L)
  <2>1. b # end => b - 1 \in end .. L /\ b - 1 < b
    OBVIOUS
  <2> QED
    BY <2>1 DEF IsName
<1> QED
  BY <1>1, <1>2

\* Else the name up to the next comma is first, and the others follow that comma.
LEMMA NextName ==
  ASSUME NEW K, NEW L \in Nat, NEW end \in 1 .. L + 1, NEW b \in end .. L, b \notin K,
         \A n \in end .. L : n < b => n \in K,
         NEW c \in b + 1 .. L, c \in K, \A n \in b .. L : n < c => n \notin K, NEW i, NEW j
  PROVE  IsName(K, L, end, i, j) <=> (i = b /\ j = c - 1) \/ IsName(K, L, c, i, j)
<1>1. ASSUME IsName(K, L, end, i, j), i = b PROVE j = c - 1
  <2>1. j \in b .. L /\ (j = L \/ j + 1 \in K)
    BY <1>1 DEF IsName
  <2>2. ~(c <= j)
    <3>1. c <= j => c \in i .. j
      BY <1>1, <2>1
    <3> QED
      BY <1>1, <3>1 DEF IsName
  <2>3. j # L /\ j + 1 \in b .. L /\ j + 1 \in K
    BY <2>1, <2>2
  <2>4. ~(j + 1 < c)
    BY <2>3
  <2> QED
    BY <2>1, <2>2, <2>4
<1>2. ASSUME IsName(K, L, end, i, j), i # b PROVE IsName(K, L, c, i, j)
  <2>1. i \in end .. L /\ j \in i .. L /\ i \notin K
    BY <1>2 DEF IsName
  <2>2. b < i
    BY <1>2, <2>1
  <2>3. i - 1 \in b .. L /\ i - 1 \in K
    BY <1>2, <2>1, <2>2 DEF IsName
  <2>4. ~(i - 1 < c)
    BY <2>3
  <2>5. i \in c .. L
    BY <2>1, <2>4
  <2> QED
    BY <1>2, <2>3, <2>5 DEF IsName
<1>3. IsName(K, L, end, b, c - 1)
  <2>1. b # end => b - 1 \in end .. L /\ b - 1 < b
    OBVIOUS
  <2>2. c - 1 \in b .. L /\ (c - 1) + 1 = c /\ \A n \in b .. c - 1 : n \in b .. L /\ n < c
    OBVIOUS
  <2> QED
    BY <2>1, <2>2 DEF IsName
<1>4. ASSUME IsName(K, L, c, i, j) PROVE IsName(K, L, end, i, j)
  <2>1. i \in c .. L /\ i \in i .. j /\ i \notin K
    BY <1>4 DEF IsName
  <2>2. i \in end .. L /\ i - 1 \in K
    BY <1>4, <2>1 DEF IsName
  <2> QED
    BY <1>4, <2>2 DEF IsName
<1> QED
  BY <1>1, <1>2, <1>3, <1>4

\* Where the commas of a string are.
Commas(str) == {n \in DOMAIN str : str[n] = ","}

\* name is read from position end on.
ReadFrom(str, end, name) == \E i, j : IsName(Commas(str), Len(str), end, i, j) /\ name = SubSeq(str, i, j)

\* A sequence of one element.
LEMMA SingleRange ==
  ASSUME NEW x, NEW y
  PROVE  y \in ToSet(<<x>>) <=> y = x
  BY DEF ToSet

\* One step of str_to_vec adds the first name, if there is one.
LEMMA NamesRead ==
  ASSUME NEW str \in Seq(Chars), NEW end \in Places(str), NEW g \in [Places(str) -> NameSeqs],
         \A e \in Places(str) : end < e => \A name : name \in ToSet(g[e]) <=> ReadFrom(str, e, name), NEW name
  PROVE  name \in ToSet(names(str, end, g)) <=> ReadFrom(str, end, name)
<1> DEFINE b == Begin(str, end)
           c == Comma(str, end)
           L == Len(str)
           K == Commas(str)
<1>0. L \in Nat /\ end \in 1 .. Len(str) + 1 /\ end \in Nat /\ \A n \in 1 .. L : n \in DOMAIN str
  BY DEF Places
<1>1. names(str, end, g) =
         IF starts(str, end) = {} THEN <<>>
         ELSE IF ends(str, b) = {} THEN <<SubSeq(str, b, L)>>
         ELSE <<SubSeq(str, b, c - 1)>> \o g[c]
  BY DEF names, Begin, Comma
<1>2. \A n \in 1 .. L : n \in K <=> str[n] = ","
  BY <1>0 DEF Commas
<1>3. \A n \in end .. L : n \in 1 .. L
  BY <1>0
<1>4. CASE starts(str, end) = {}
  <2>1. \A n \in end .. L : n \in K
    <3>1. \A n \in end .. L : str[n] = ","
      BY <1>0, <1>4, BeginFacts
    <3> QED
      BY <1>2, <1>3, <3>1
  <2>2. ~ReadFrom(str, end, name)
    BY <1>0, <2>1, NoName DEF ReadFrom
  <2>3. names(str, end, g) = <<>>
    BY <1>1, <1>4, Zenon
  <2> QED
    BY <2>2, <2>3 DEF ToSet
<1>5. ASSUME starts(str, end) # {}
      PROVE  b \in end .. L /\ b \notin K /\ \A n \in end .. L : n < b => n \in K
  <2>1. b \in end .. L /\ str[b] # "," /\ \A n \in end .. L : n < b => str[n] = ","
    BY <1>0, <1>5, BeginFacts
  <2> HIDE DEF b, L, K
  <2> QED
    BY <1>2, <1>3, <2>1
<1>6. CASE starts(str, end) # {} /\ ends(str, b) = {}
  <2>0. b \in end .. L /\ b \notin K /\ \A n \in end .. L : n < b => n \in K
    BY <1>5, <1>6
  <2>1. \A n \in b .. L : n \notin K
    <3>1. \A n \in b .. L : str[n] # ","
      BY <1>0, <1>6, CommaFacts
    <3>2. \A n \in b .. L : n \in 1 .. L
      BY <1>0, <2>0
    <3> QED
      BY <1>2, <3>1, <3>2
  <2>2. \A i, j : IsName(K, L, end, i, j) <=> i = b /\ j = L
    <3> HIDE DEF b, L, K
    <3> QED
      BY <1>0, <2>0, <2>1, LastName DEF L
  <2>3. names(str, end, g) = <<SubSeq(str, b, L)>>
    BY <1>1, <1>6, Zenon
  <2>4. name \in ToSet(<<SubSeq(str, b, L)>>) <=> name = SubSeq(str, b, L)
    BY SingleRange
  <2>5. ReadFrom(str, end, name) <=> name = SubSeq(str, b, L)
    <3>1. IsName(K, L, end, b, L)
      BY <2>2
    <3> HIDE DEF b
    <3> QED
      BY <2>2, <3>1 DEF ReadFrom
  <2> QED
    BY <2>3, <2>4, <2>5
<1>7. CASE starts(str, end) # {} /\ ends(str, b) # {}
  <2>0. b \in end .. L /\ b \notin K /\ \A n \in end .. L : n < b => n \in K
    BY <1>5, <1>7
  <2>1. c \in end + 1 .. L /\ str[c] = "," /\ b < c /\ \A n \in b .. L : n < c => str[n] # ","
    BY <1>0, <1>7, CommaFacts
  <2> HIDE DEF b, c
  <2>2. c \in Nat /\ c \in 1 .. L /\ c \in b + 1 .. L /\ c \in Places(str) /\ end < c
    <3>1. c \in end + 1 .. L /\ b < c
      BY <2>1
    <3>2. b \in end .. L
      BY <2>0
    <3> HIDE DEF L
    <3>3. c \in Nat /\ c \in 1 .. L /\ c \in b + 1 .. L /\ c \in 1 .. L + 1 /\ end < c
      BY <1>0, <3>1, <3>2
    <3> QED
      BY <3>3 DEF Places, L
  <2>3. c \in K /\ \A n \in b .. L : n < c => n \notin K
    <3>1. \A n \in b .. L : n \in 1 .. L
      BY <1>0, <2>0
    <3> QED
      BY <1>2, <2>1, <2>2, <3>1
  <2>4. \A i, j : IsName(K, L, end, i, j) <=> (i = b /\ j = c - 1) \/ IsName(K, L, c, i, j)
    <3> HIDE DEF L, K
    <3> QED
      BY <1>0, <2>0, <2>2, <2>3, NextName DEF L
  <2>5. ReadFrom(str, end, name) <=> name = SubSeq(str, b, c - 1) \/ ReadFrom(str, c, name)
    BY <2>4 DEF ReadFrom
  <2>6. names(str, end, g) = <<SubSeq(str, b, c - 1)>> \o g[c]
    BY <1>1, <1>7, Zenon
  <2>7. <<SubSeq(str, b, c - 1)>> \in Seq(Seq(Chars)) /\ g[c] \in Seq(Seq(Chars))
    <3>1. b \in Int /\ c - 1 \in Int /\ \A n \in b .. c - 1 : str[n] \in Chars
      BY <1>0, <2>0, <2>2
    <3>2. SubSeq(str, b, c - 1) \in Seq(Chars)
      BY <3>1, SubSeqProperties
    <3> QED
      BY <2>2, <3>2 DEF NameSeqs
  <2>8. name \in ToSet(<<SubSeq(str, b, c - 1)>> \o g[c]) <=>
          name \in ToSet(<<SubSeq(str, b, c - 1)>>) \/ name \in ToSet(g[c])
    BY <2>7, ConcatRange
  <2>9. name \in ToSet(<<SubSeq(str, b, c - 1)>>) <=> name = SubSeq(str, b, c - 1)
    BY SingleRange
  <2>10. name \in ToSet(g[c]) <=> ReadFrom(str, c, name)
    BY <2>2
  <2> QED
    BY <2>5, <2>6, <2>8, <2>9, <2>10
<1> QED
  BY <1>4, <1>6, <1>7

\* There is no other solution, and str_to_vec takes its first value.
LEMMA VecIs ==
  ASSUME NEW str \in Seq(Chars)
  PROVE  \E g \in [Places(str) -> NameSeqs] : IsVec(g, str) /\ str_to_vec(str) = g[1]
<1> DEFINE v == CHOOSE g : g = [end \in 1 .. Len(str) + 1 |-> names(str, end, g)]
           L == Len(str)
           T(g) == {n \in Nat : \A e \in Places(str) : L + 1 - e <= n => v[e] = g[e]}
<1>0. L \in Nat /\ \A e : e \in Places(str) <=> e \in Nat /\ 1 <= e /\ e <= L + 1
  BY DEF Places
<1>1. PICK g \in [Places(str) -> NameSeqs] : IsVec(g, str)
  BY VecExists
<1>2. IsVec(v, str)
  BY <1>1, Zenon DEF IsVec
<1>3. str_to_vec(str) = v[1]
  BY Zenon DEF str_to_vec
<1> HIDE DEF v, L
<1>4. \A e \in Places(str) : v[e] = names(str, e, v) /\ g[e] = names(str, e, g)
  <2>1. \A e \in Places(str) : v[e] = names(str, e, v)
    BY <1>2 DEF IsVec, Places
  <2>2. \A e \in Places(str) : g[e] = names(str, e, g)
    BY <1>1 DEF IsVec, Places
  <2> QED
    BY <2>1, <2>2
<1>5. ASSUME NEW e \in Places(str), \A d \in Places(str) : e < d => v[d] = g[d] PROVE v[e] = g[e]
  BY <1>4, <1>5, NamesFacts
<1>6. T(g) \in SUBSET Nat /\ 0 \in T(g)
  <2>1. ASSUME NEW e \in Places(str), L + 1 - e <= 0 PROVE v[e] = g[e]
    <3>1. \A d \in Places(str) : ~(e < d)
      BY <1>0, <2>1
    <3> QED
      BY <1>5, <3>1
  <2> QED
    BY <2>1
<1>7. ASSUME NEW n \in T(g) PROVE n + 1 \in T(g)
  <2>1. ASSUME NEW e \in Places(str), L + 1 - e <= n + 1 PROVE v[e] = g[e]
    <3>1. \A d \in Places(str) : e < d => L + 1 - d <= n
      BY <1>0, <2>1
    <3>2. \A d \in Places(str) : e < d => v[d] = g[d]
      BY <3>1
    <3> QED
      BY <1>5, <3>2
  <2> QED
    BY <2>1
<1>8. L \in T(g)
  <2> DEFINE U == T(g)
  <2>1. U \in SUBSET Nat /\ 0 \in U /\ \A n \in U : n < L => n + 1 \in U
    BY <1>6, <1>7
  <2> HIDE DEF U
  <2>2. 0 .. L \subseteq U
    BY <1>0, <2>1, UpTo
  <2> QED
    BY <1>0, <2>2 DEF U
<1>9. 1 \in Places(str) /\ L + 1 - 1 <= L
  BY <1>0
<1>10. v[1] = g[1]
  BY <1>8, <1>9
<1> QED
  BY <1>1, <1>3, <1>10

\* The list that str_to_vec makes has the names that are read from the start on.
LEMMA VecReads ==
  ASSUME NEW str \in Seq(Chars), NEW name
  PROVE  name \in ToSet(str_to_vec(str)) <=> ReadFrom(str, 1, name)
<1> DEFINE L == Len(str)
           Right(g, e) == \A x : x \in ToSet(g[e]) <=> ReadFrom(str, e, x)
           T(g) == {n \in Nat : \A e \in Places(str) : L + 1 - e <= n => Right(g, e)}
<1>0. L \in Nat /\ \A e : e \in Places(str) <=> e \in Nat /\ 1 <= e /\ e <= L + 1
  BY DEF Places
<1>1. PICK g \in [Places(str) -> NameSeqs] : IsVec(g, str) /\ str_to_vec(str) = g[1]
  BY VecIs
<1> HIDE DEF L
<1>4. \A e \in Places(str) : g[e] = names(str, e, g)
  BY <1>1 DEF IsVec, Places
<1>5. ASSUME NEW e \in Places(str), \A d \in Places(str) : e < d => Right(g, d) PROVE Right(g, e)
  <2>1. ASSUME NEW x PROVE x \in ToSet(names(str, e, g)) <=> ReadFrom(str, e, x)
    BY <1>5, NamesRead
  <2> QED
    BY <1>4, <2>1
<1> HIDE DEF Right
<1>6. T(g) \in SUBSET Nat /\ 0 \in T(g)
  <2>1. ASSUME NEW e \in Places(str), L + 1 - e <= 0 PROVE Right(g, e)
    <3>1. \A d \in Places(str) : ~(e < d)
      BY <1>0, <2>1
    <3> QED
      BY <1>5, <3>1
  <2> QED
    BY <2>1
<1>7. ASSUME NEW n \in T(g) PROVE n + 1 \in T(g)
  <2>1. ASSUME NEW e \in Places(str), L + 1 - e <= n + 1 PROVE Right(g, e)
    <3>1. \A d \in Places(str) : e < d => L + 1 - d <= n
      BY <1>0, <2>1
    <3>2. \A d \in Places(str) : e < d => Right(g, d)
      BY <3>1
    <3> QED
      BY <1>5, <3>2
  <2> QED
    BY <2>1
<1>8. L \in T(g)
  <2> DEFINE U == T(g)
  <2>1. U \in SUBSET Nat /\ 0 \in U /\ \A n \in U : n < L => n + 1 \in U
    BY <1>6, <1>7
  <2> HIDE DEF U
  <2>2. 0 .. L \subseteq U
    BY <1>0, <2>1, UpTo
  <2> QED
    BY <1>0, <2>2 DEF U
<1>9. 1 \in Places(str) /\ L + 1 - 1 <= L
  BY <1>0
<1>10. Right(g, 1)
  BY <1>8, <1>9
<1> QED
  BY <1>1, <1>10 DEF Right

\* A name that a list of names can hold.
Plain(name) == name # <<>> /\ "," \notin ToSet(name)

\* No position of it is that of a comma.
LEMMA PlainFacts ==
  ASSUME NEW str, NEW name, Plain(name)
  PROVE  name # <<>> /\ \A n \in DOMAIN str : \A m \in DOMAIN name : name[m] = str[n] => n \notin Commas(str)
<1>1. \A m \in DOMAIN name : name[m] \in ToSet(name)
  BY DEF ToSet
<1> QED
  BY <1>1, Zenon DEF Plain, Commas

\* Listed, in terms of the positions of commas.
LEMMA ListedAt ==
  ASSUME NEW str, NEW name, DOMAIN str = 1 .. Len(str), Len(str) \in Nat
  PROVE  Listed(name, str) <=>
           \E i, j \in 1 .. Len(str) : /\ SubSeq(str, i, j) = name
                                       /\ i = 1 \/ i - 1 \in Commas(str)
                                       /\ j = Len(str) \/ j + 1 \in Commas(str)
<1>1. \A i \in 1 .. Len(str) : i # 1 => i - 1 \in DOMAIN str
  OBVIOUS
<1>2. \A j \in 1 .. Len(str) : j # Len(str) => j + 1 \in DOMAIN str
  <2>1. \A L \in Nat : \A j \in 1 .. L : j # L => j + 1 \in 1 .. L
    OBVIOUS
  <2> QED
    BY <2>1, Zenon
<1>3. \A i \in 1 .. Len(str) : (i = 1 \/ str[i - 1] = ",") <=> (i = 1 \/ i - 1 \in Commas(str))
  BY <1>1, Zenon DEF Commas
<1>4. \A j \in 1 .. Len(str) : (j = Len(str) \/ str[j + 1] = ",") <=> (j = Len(str) \/ j + 1 \in Commas(str))
  BY <1>2, Zenon DEF Commas
<1> QED
  BY <1>3, <1>4, Zenon DEF Listed

\* A name without a comma is read where it is listed.
LEMMA ListedRead ==
  ASSUME NEW str \in Seq(Chars), NEW name, Plain(name)
  PROVE  ReadFrom(str, 1, name) <=> Listed(name, str)
<1> DEFINE L == Len(str)
           K == Commas(str)
<1>0. L \in Nat /\ DOMAIN str = 1 .. L /\ \A n \in 1 .. L : str[n] \in Chars
  OBVIOUS
<1>1. K \subseteq 1 .. L
  BY <1>0, Zenon DEF Commas
<1>2. Listed(name, str) <=> \E i, j \in 1 .. L : /\ SubSeq(str, i, j) = name
                                                 /\ i = 1 \/ i - 1 \in K
                                                 /\ j = L \/ j + 1 \in K
  BY <1>0, ListedAt
<1>3. name # <<>> /\ \A n \in 1 .. L : \A m \in DOMAIN name : name[m] = str[n] => n \notin K
  BY <1>0, PlainFacts
<1> HIDE DEF L, K
<1>4. ASSUME NEW i, NEW j, IsName(K, L, 1, i, j) PROVE i \in 1 .. L /\ j \in 1 .. L
  BY <1>0, <1>4 DEF IsName
<1>5. ASSUME NEW i \in 1 .. L, NEW j \in 1 .. L, SubSeq(str, i, j) = name,
             i = 1 \/ i - 1 \in K, j = L \/ j + 1 \in K
      PROVE  IsName(K, L, 1, i, j)
  <2>0. i \in Int /\ j \in Int /\ i \in Nat /\ j \in Nat
    BY <1>0
  <2>1. i <= j
    BY <1>3, <1>5, <2>0, SubSeqEmpty
  <2>2. \A n \in i .. j : str[n] \in Chars /\ n \in 1 .. L
    BY <1>0, <2>0
  <2>3. /\ Len(name) = j - i + 1 /\ \A n \in 1 .. j - i + 1 : name[n] = str[i + n - 1]
        /\ name \in Seq(Chars)
    <3>1. \A n \in i .. j : str[n] \in Chars
      BY <2>2
    <3>2. SubSeq(str, i, j) \in Seq(Chars)
      BY <2>0, <3>1, SubSeqProperties
    <3>3. Len(SubSeq(str, i, j)) = j - i + 1
      BY <2>0, <2>1, <3>1, SubSeqProperties
    <3>4. \A n \in 1 .. j - i + 1 : SubSeq(str, i, j)[n] = str[i + n - 1]
      BY <2>0, <2>1, <3>1
    <3> QED
      BY <1>5, <3>2, <3>3, <3>4, Zenon
  <2>4. ASSUME NEW n \in i .. j PROVE n \notin K
    <3>1. n - i + 1 \in 1 .. j - i + 1 /\ i + (n - i + 1) - 1 = n /\ n \in 1 .. L
      BY <1>0, <2>0, <2>1
    <3>2. name[n - i + 1] = str[n]
      BY <2>3, <3>1
    <3>3. n - i + 1 \in DOMAIN name
      BY <2>0, <2>1, <2>3, <3>1
    <3> QED
      BY <1>3, <3>1, <3>2, <3>3
  <2>7. i \in 1 .. L /\ j \in i .. L
    BY <1>0, <2>1
  <2> QED
    BY <1>5, <2>4, <2>7 DEF IsName
<1>6. ReadFrom(str, 1, name) <=> \E i, j : IsName(K, L, 1, i, j) /\ name = SubSeq(str, i, j)
  BY DEF ReadFrom, K, L
<1> QED
  BY <1>2, <1>4, <1>5, <1>6 DEF IsName

\* So a call is a target just when its callee is wanted.
LEMMA WantedRead ==
  ASSUME NEW var \in Seq(Chars), NEW fallback, NEW i, Plain(i.fn)
  PROVE  i.fn \in ToSet(populateFromEnv(var, fallback)) <=> Wanted(i, var, fallback)
<1>1. CASE var = <<>>
  <2>1. populateFromEnv(var, fallback) = <<fallback>>
    BY <1>1 DEF populateFromEnv
  <2>2. i.fn \in ToSet(<<fallback>>) <=> i.fn = fallback
    BY SingleRange
  <2>3. ~Listed(i.fn, var)
    <3>1. 1 .. Len(var) = {} /\ DOMAIN var = 1 .. Len(var) /\ Len(var) \in Nat
      BY <1>1
    <3> QED
      BY <3>1, ListedAt
  <2> QED
    BY <1>1, <2>1, <2>2, <2>3 DEF Wanted
<1>2. CASE var # <<>>
  <2>1. populateFromEnv(var, fallback) = str_to_vec(var)
    BY <1>2 DEF populateFromEnv
  <2>2. i.fn \in ToSet(str_to_vec(var)) <=> ReadFrom(var, 1, i.fn)
    BY VecReads
  <2>3. ReadFrom(var, 1, i.fn) <=> Listed(i.fn, var)
    BY ListedRead
  <2> QED
    BY <1>2, <2>1, <2>2, <2>3 DEF Wanted
<1> QED
  BY <1>1, <1>2

\* Which calls of a function are targets, and of which kind.
LEMMA KindsWanted ==
  ASSUME env \in Environments, NEW f, SourceFunc(f), NEW x \in ToSet(InstrsOf(f))
  PROVE  /\ x.fn \in AllocFunctions <=> Wanted(x, env.PROVSAN_ALLOC, trusted_malloc)
         /\ x.fn \in ReallocFunctions <=> Wanted(x, env.PROVSAN_REALLOC, trusted_realloc)
         /\ x.fn \in DeallocFunctions <=> Wanted(x, env.PROVSAN_FREE, trusted_free)
         /\ x \in Targets <=> x.fn \in AllocFunctions \/ x.fn \in ReallocFunctions \/ x.fn \in DeallocFunctions
         /\ getHookInst(x).fn = IF x.fn \in AllocFunctions THEN allocHook
                                ELSE IF x.fn \in ReallocFunctions THEN reallocHook ELSE deallocHook
<1>1. env.PROVSAN_ALLOC \in Seq(Chars) /\ env.PROVSAN_REALLOC \in Seq(Chars) /\ env.PROVSAN_FREE \in Seq(Chars)
  BY EnvironmentsAssumption
<1>2. Plain(x.fn) /\ x \in Calls
  BY Zenon DEF SourceFunc, Plain
<1>3. x.fn \in AllocFunctions <=> Wanted(x, env.PROVSAN_ALLOC, trusted_malloc)
  BY <1>1, <1>2, WantedRead DEF AllocFunctions
<1>4. x.fn \in ReallocFunctions <=> Wanted(x, env.PROVSAN_REALLOC, trusted_realloc)
  BY <1>1, <1>2, WantedRead DEF ReallocFunctions
<1>5. x.fn \in DeallocFunctions <=> Wanted(x, env.PROVSAN_FREE, trusted_free)
  BY <1>1, <1>2, WantedRead DEF DeallocFunctions
<1>6. getHookInst(x).fn = IF x.fn \in AllocFunctions THEN allocHook
                          ELSE IF x.fn \in ReallocFunctions THEN reallocHook ELSE deallocHook
  BY DEF getHookInst, Hook
<1> QED
  BY <1>2, <1>3, <1>4, <1>5, <1>6 DEF Targets

\* The hooks of a unit between the passes are those of the calls that are wanted.
LEMMA HooksWanted == ReportInv => HookedOnce
<1> SUFFICES ASSUME ReportInv, phase = "post", NEW n \in DOMAIN M
             PROVE  LET calls   == ToSet(InstrsOf(source[Len(objects) + 1][n]))
                        alloc   == {i \in calls : Wanted(i, env.PROVSAN_ALLOC, trusted_malloc)}
                        realloc == {i \in calls : Wanted(i, env.PROVSAN_REALLOC, trusted_realloc)} \ alloc
                        free    == {i \in calls : Wanted(i, env.PROVSAN_FREE, trusted_free)} \ (alloc \cup realloc)
                    IN  /\ Len(HooksOf(M[n])) = Cardinality({h.tag : h \in ToSet(HooksOf(M[n]))})
                        /\ {<<h.fn, h.tag>> : h \in ToSet(HooksOf(M[n]))} =
                             {<<allocHook, i.tag>> : i \in alloc} \cup {<<reallocHook, i.tag>> : i \in realloc}
                               \cup {<<deallocHook, i.tag>> : i \in free}
  BY Zenon DEF HookedOnce
<1> DEFINE f == Unit[n]
           g == M[n]
           calls == ToSet(InstrsOf(f))
           alloc == {i \in calls : Wanted(i, env.PROVSAN_ALLOC, trusted_malloc)}
           realloc == {i \in calls : Wanted(i, env.PROVSAN_REALLOC, trusted_realloc)} \ alloc
           free == {i \in calls : Wanted(i, env.PROVSAN_FREE, trusted_free)} \ (alloc \cup realloc)
<1>1. Progress /\ Shape /\ env \in Environments
  BY DEF ReportInv, Progress
<1>2. n \in DOMAIN Unit /\ SourceFunc(f)
  BY <1>1, UnitFacts DEF Shape
<1>3. g = hookFunction(f) \/ g = Instrumented(f)
  BY <1>1, <1>2 DEF Shape, Stage
<1>4. HasHooks(g, f)
  BY <1>2, <1>3, HooksMade
<1>5. Len(HooksOf(g)) = Cardinality({h.tag : h \in ToSet(HooksOf(g))})
  <2> HIDE DEF g
  <2>1. Len(HooksOf(g)) = Cardinality(TagsIn(HooksOf(g)))
    BY <1>4, HookCount DEF HasHooks
  <2> QED
    BY <2>1 DEF TagsIn
<1>6. f = source[Len(objects) + 1][n]
  BY DEF Unit
<1> HIDE DEF f, g
<1>7. \A fn, tag : (\E h \in ToSet(HooksOf(g)) : h.fn = fn /\ h.tag = tag) <=>
                   \/ fn = allocHook /\ \E i \in alloc : i.tag = tag
                   \/ fn = reallocHook /\ \E i \in realloc : i.tag = tag
                   \/ fn = deallocHook /\ \E i \in free : i.tag = tag
  <2>1. \A x \in calls :
          /\ x \in alloc <=> x.fn \in AllocFunctions
          /\ x \in realloc <=> x.fn \in ReallocFunctions /\ x.fn \notin AllocFunctions
          /\ x \in free <=> x.fn \in DeallocFunctions /\ x.fn \notin AllocFunctions /\ x.fn \notin ReallocFunctions
          /\ x \in Targets <=> x.fn \in AllocFunctions \/ x.fn \in ReallocFunctions \/ x.fn \in DeallocFunctions
          /\ getHookInst(x).fn = IF x.fn \in AllocFunctions THEN allocHook
                                 ELSE IF x.fn \in ReallocFunctions THEN reallocHook ELSE deallocHook
    BY <1>1, <1>2, KindsWanted
  <2>2. alloc \subseteq calls /\ realloc \subseteq calls /\ free \subseteq calls
    OBVIOUS
  <2> HIDE DEF calls, alloc, realloc, free
  <2>3. ASSUME NEW fn, NEW tag
        PROVE  (\E x \in calls : x \in Targets /\ getHookInst(x).fn = fn /\ x.tag = tag) <=>
                   \/ fn = allocHook /\ \E i \in alloc : i.tag = tag
                   \/ fn = reallocHook /\ \E i \in realloc : i.tag = tag
                   \/ fn = deallocHook /\ \E i \in free : i.tag = tag
    BY <2>1, <2>2
  <2> QED
    BY <1>4, <2>3 DEF HasHooks, calls
<1> HIDE DEF calls, alloc, realloc, free
<1>8. {<<h.fn, h.tag>> : h \in ToSet(HooksOf(g))} =
        {<<allocHook, i.tag>> : i \in alloc} \cup {<<reallocHook, i.tag>> : i \in realloc}
          \cup {<<deallocHook, i.tag>> : i \in free}
  <2> DEFINE R == {<<allocHook, i.tag>> : i \in alloc} \cup {<<reallocHook, i.tag>> : i \in realloc}
                    \cup {<<deallocHook, i.tag>> : i \in free}
  <2>1. ASSUME NEW h \in ToSet(HooksOf(g)) PROVE <<h.fn, h.tag>> \in R
    <3>1. \/ h.fn = allocHook /\ \E i \in alloc : i.tag = h.tag
          \/ h.fn = reallocHook /\ \E i \in realloc : i.tag = h.tag
          \/ h.fn = deallocHook /\ \E i \in free : i.tag = h.tag
      BY <1>7, Zenon
    <3> QED
      BY <3>1
  <2>2. ASSUME NEW i \in alloc PROVE \E h \in ToSet(HooksOf(g)) : h.fn = allocHook /\ h.tag = i.tag
    <3>1. ASSUME NEW fn, fn = allocHook PROVE \E h \in ToSet(HooksOf(g)) : h.fn = fn /\ h.tag = i.tag
      <4>1. \E j \in alloc : j.tag = i.tag
        OBVIOUS
      <4> QED
        BY <1>7, <3>1, <4>1
    <3> QED
      BY <3>1
  <2>3. ASSUME NEW i \in realloc PROVE \E h \in ToSet(HooksOf(g)) : h.fn = reallocHook /\ h.tag = i.tag
    <3>1. ASSUME NEW fn, fn = reallocHook PROVE \E h \in ToSet(HooksOf(g)) : h.fn = fn /\ h.tag = i.tag
      <4>1. \E j \in realloc : j.tag = i.tag
        OBVIOUS
      <4> QED
        BY <1>7, <3>1, <4>1
    <3> QED
      BY <3>1
  <2>4. ASSUME NEW i \in free PROVE \E h \in ToSet(HooksOf(g)) : h.fn = deallocHook /\ h.tag = i.tag
    <3>1. ASSUME NEW fn, fn = deallocHook PROVE \E h \in ToSet(HooksOf(g)) : h.fn = fn /\ h.tag = i.tag
      <4>1. \E j \in free : j.tag = i.tag
        OBVIOUS
      <4> QED
        BY <1>7, <3>1, <4>1
    <3> QED
      BY <3>1
  <2> QED
    BY <2>1, <2>2, <2>3, <2>4
<1> QED
  BY <1>5, <1>6, <1>8 DEF calls, alloc, realloc, free, g

\* After hookFunctions every call of a listed function, and no other, has one hook,
\* of the kind the lists say: for every program and every text of the lists.
THEOREM EachHookedOnce == Spec => []HookedOnce
  BY HooksWanted, CycleInvariant, PTL

-----------------------------------------------------------------------------
(* The calls are kept.                                                     *)

\* The hooks that hookCalls puts in a body can be taken out again.
LEMMA CallsOfBody ==
  ASSUME NEW body \in Seq(Instrs), ToSet(body) \subseteq Calls
  PROVE  Keep(hookCalls(body), Calls) = body
<1>0. DOMAIN body = 1 .. Len(body) /\ Len(body) \in Nat /\ \A j \in DOMAIN body : body[j] \in Instrs /\ body[j] \in Calls
  BY DEF ToSet
<1>1. Pairs(body) \in Seq(Seq(Instrs)) /\ hookCalls(body) = FlattenSeq(Pairs(body)) /\ DOMAIN Pairs(body) = DOMAIN body
  BY HookCallsFacts DEF Pairs
<1>2. ASSUME NEW j \in DOMAIN body PROVE Keep(Pairs(body)[j], Calls) = <<body[j]>>
  <2> DEFINE x == body[j]
             h == getHookInst(x)
  <2>1. x \in Instrs /\ x \in Calls /\ h \in Instrs /\ h \notin Calls
    BY <1>0, HookFacts DEF Hooks, Calls
  <2> HIDE DEF x, h
  <2>2. Keep(<<x>>, Calls) = <<x>> /\ <<x>> \in Seq(Instrs)
    <3>1. ToSet(<<x>>) \subseteq Calls /\ <<x>> \in Seq(Instrs)
      BY <2>1, SingleRange
    <3> QED
      BY <3>1, KeepAllOrNone
  <2>3. Keep(<<h>>, Calls) = <<>> /\ <<h>> \in Seq(Instrs)
    <3>1. ToSet(<<h>>) \cap Calls = {} /\ <<h>> \in Seq(Instrs)
      BY <2>1, SingleRange
    <3> QED
      BY <3>1, KeepAllOrNone
  <2>4. Pairs(body)[j] = <<x, h>> \/ Pairs(body)[j] = <<x>>
    BY DEF Pairs, x, h
  <2>5. <<x, h>> = <<x>> \o <<h>>
    <3> DEFINE s == <<x>>
               t == <<h>>
               u == <<x, h>>
    <3>1. s \in Seq(Instrs) /\ Len(s) = 1 /\ s[1] = x /\ t \in Seq(Instrs) /\ Len(t) = 1 /\ t[1] = h
      BY <2>1
    <3>2. u \in Seq(Instrs) /\ Len(u) = 2 /\ u[1] = x /\ u[2] = h
      BY <2>1
    <3> HIDE DEF s, t, u
    <3>3. s \o t \in Seq(Instrs) /\ Len(s \o t) = 2 /\ (s \o t)[1] = x /\ (s \o t)[2] = h
      <4>1. s \o t \in Seq(Instrs) /\ Len(s \o t) = Len(s) + Len(t)
            /\ \A i \in 1 .. Len(s) + Len(t) : (s \o t)[i] = IF i <= Len(s) THEN s[i] ELSE t[i - Len(s)]
        BY <3>1, ConcatProperties
      <4> QED
        BY <3>1, <4>1
    <3>4. \A i \in 1 .. Len(u) : u[i] = (s \o t)[i]
      BY <3>2, <3>3
    <3>5. u = s \o t
      BY <3>2, <3>3, <3>4, SeqEqual
    <3> QED
      BY <3>5 DEF s, t, u
  <2>6. Keep(<<x>> \o <<h>>, Calls) = Keep(<<x>>, Calls) \o Keep(<<h>>, Calls)
    BY <2>2, <2>3, KeepConcat
  <2>7. <<x>> \o <<>> = <<x>>
    OBVIOUS
  <2> QED
    BY <2>2, <2>3, <2>4, <2>5, <2>6, <2>7 DEF x
<1>3. KeepEach(Pairs(body), Calls) = [j \in DOMAIN body |-> <<body[j]>>]
  BY <1>1, <1>2 DEF KeepEach
<1>4. Keep(FlattenSeq(Pairs(body)), Calls) = FlattenSeq(KeepEach(Pairs(body), Calls))
  BY <1>1, KeepFlatten
<1> QED
  BY <1>1, <1>3, <1>4, FlattenSingles

\* So can those of a function.
LEMMA CallsOfHooked ==
  ASSUME NEW f, SourceFunc(f)
  PROVE  Keep(InstrsOf(hookFunction(f)), Calls) = InstrsOf(f)
<1>0. f \in Funcs /\ \A x \in ToSet(InstrsOf(f)) : x \in Calls
  BY DEF SourceFunc
<1>1. Pieces(f) \in Seq(Seq(Instrs)) /\ InstrsOf(hookFunction(f)) = FlattenSeq(Pieces(f)) /\ DOMAIN Pieces(f) = DOMAIN f.blocks
  BY <1>0, HookFunctionFacts DEF Pieces
<1>2. ASSUME NEW k \in DOMAIN f.blocks PROVE Keep(Pieces(f)[k], Calls) = f.blocks[k].body
  <2> DEFINE r == invokeHooks(f, f.blocks[k], FALSE)
             s == invokeHooks(f, f.blocks[k], TRUE)
             t == hookCalls(f.blocks[k].body)
  <2>1. Pieces(f)[k] = (r \o s) \o t
    BY DEF Pieces, Piece
  <2>2. f.blocks[k].body \in Seq(Instrs) /\ ToSet(f.blocks[k].body) \subseteq Calls
    BY <1>0, FuncParts, InstrsOfFacts DEF InBlock
  <2>3. r \in Seq(Instrs) /\ s \in Seq(Instrs) /\ t \in Seq(Instrs)
    BY <1>0, <2>2, InvokeHooksFacts, HookCallsFacts
  <2>4. \A single \in BOOLEAN : \A y \in ToSet(invokeHooks(f, f.blocks[k], single)) : y \notin Calls
    BY PieceHooks, HookFacts DEF Owner, Targets, Calls, Hooks
  <2>5. ToSet(r) \cap Calls = {} /\ ToSet(s) \cap Calls = {}
    BY <2>4
  <2>6. Keep(t, Calls) = f.blocks[k].body
    BY <2>2, CallsOfBody
  <2> HIDE DEF r, s, t
  <2>7. Keep(r, Calls) = <<>> /\ Keep(s, Calls) = <<>>
    BY <2>3, <2>5, KeepAllOrNone
  <2>8. r \o s \in Seq(Instrs) /\ Keep(r \o s, Calls) = Keep(r, Calls) \o Keep(s, Calls)
    BY <2>3, KeepConcat
  <2>9. Keep((r \o s) \o t, Calls) = Keep(r \o s, Calls) \o Keep(t, Calls)
    BY <2>3, <2>8, KeepConcat
  <2>10. (<<>> \o <<>>) \o f.blocks[k].body = f.blocks[k].body
    BY <2>2
  <2> QED
    BY <2>1, <2>6, <2>7, <2>8, <2>9, <2>10
<1>3. KeepEach(Pieces(f), Calls) = Bodies(f)
  BY <1>1, <1>2 DEF KeepEach, Bodies
<1>4. Keep(FlattenSeq(Pieces(f)), Calls) = FlattenSeq(KeepEach(Pieces(f), Calls))
  BY <1>1, KeepFlatten
<1> QED
  BY <1>0, <1>1, <1>3, <1>4, InstrsOfFacts

\* Numbering leaves the calls, and patching changes each by itself.
LEMMA CallsOfPatched ==
  ASSUME NEW f, SourceFunc(f)
  PROVE  /\ Instrumented(f) \in Funcs /\ Patched(f) \in Funcs
         /\ Keep(InstrsOf(Instrumented(f)), Calls) = InstrsOf(f)
         /\ Keep(InstrsOf(Patched(f)), Calls) = Mapped(InstrsOf(f), PatchOf)
<1> DEFINE p == hookFunction(f)
           g == Instrumented(f)
           q == Patched(f)
<1>0. f \in Funcs /\ \A x \in ToSet(InstrsOf(f)) : x \in Instrs /\ x \notin Hooks
  BY DEF SourceFunc, Calls, Hooks
<1>1. p \in Funcs /\ InstrsOf(p) \in Seq(Instrs)
  BY <1>0, HookFunctionFacts, InstrsOfFacts
<1>2. Keep(InstrsOf(p), Calls) = InstrsOf(f)
  BY CallsOfHooked
<1> HIDE DEF p, g, q
<1>3. g = MapInstrs(p, IDOf(p)) /\ g \in Funcs /\ \A x \in ToSet(InstrsOf(p)) : IDOf(p)[x] \in Instrs
  BY <1>1, SetLocalIDsFacts DEF Instrumented, g, p
<1>4. InstrsOf(g) = Mapped(InstrsOf(p), IDOf(p))
  BY <1>1, <1>3, MapInstrsFacts
<1>5. \A x \in Instrs : IDOf(p)[x].op = x.op /\ (x \notin Hooks => IDOf(p)[x] = x)
  BY <1>1, SetLocalIDsFacts
<1>6. \A x \in ToSet(InstrsOf(p)) : IDOf(p)[x] \in Calls <=> x \in Calls
  <2>1. \A x \in ToSet(InstrsOf(p)) : x \in Instrs
    BY <1>1 DEF ToSet
  <2> QED
    BY <1>3, <1>5, <2>1 DEF Calls
<1>7. Keep(InstrsOf(g), Calls) = Mapped(InstrsOf(f), IDOf(p))
  BY <1>1, <1>2, <1>4, <1>6, KeepMapped
<1>8. InstrsOf(f) \in Seq(Instrs)
  BY <1>0, InstrsOfFacts
<1>9. Mapped(InstrsOf(f), IDOf(p)) = InstrsOf(f)
  <2> DEFINE s == InstrsOf(f)
  <2>1. \A j \in DOMAIN s : IDOf(p)[s[j]] = s[j]
    BY <1>0, <1>5 DEF ToSet
  <2>2. s = [j \in DOMAIN s |-> s[j]]
    BY <1>8
  <2> HIDE DEF s
  <2>3. Mapped(s, IDOf(p)) = s
    BY <2>1, <2>2 DEF Mapped
  <2> QED
    BY <2>3 DEF s
<1>10. q \in Funcs /\ InstrsOf(q) = Mapped(InstrsOf(g), PatchOf)
  BY <1>3, PatchedFacts DEF Patched, q, g
<1>11. InstrsOf(g) \in Seq(Instrs)
  BY <1>3, InstrsOfFacts
<1>12. \A x \in ToSet(InstrsOf(g)) : PatchOf[x] \in Calls <=> x \in Calls
  <2>1. \A x \in ToSet(InstrsOf(g)) : x \in Instrs
    BY <1>11 DEF ToSet
  <2> QED
    BY <2>1, PatchFacts DEF Calls
<1>13. Keep(InstrsOf(q), Calls) = Mapped(Keep(InstrsOf(g), Calls), PatchOf)
  BY <1>10, <1>11, <1>12, KeepMapped
<1> QED
  BY <1>3, <1>7, <1>9, <1>10, <1>13 DEF g, q

\* Unit v has a call with this tag.
UnitHolds(v, tag) == \E n \in DOMAIN source[v] : Holds(v, n, tag)

\* What is to be patched is reported of this unit, and what is reported else belongs
\* to the units before.
PatchList ==
  /\ patchList \in Seq(Nat) /\ ToSet(patchList) \subseteq reported
  /\ phase # "linked" => \A t \in ToSet(patchList) : UnitHolds(Len(objects) + 1, t)
  /\ \A t \in reported : t \in ToSet(patchList) \/ \E v \in DOMAIN objects : UnitHolds(v, t)

\* assignLocalIDs reports calls of its function.
LEMMA PatchListAssign ==
  ASSUME ReportInv, PatchList, assignLocalIDs
  PROVE  PatchList'
<1>0. Progress /\ Shape
  BY DEF ReportInv
<1> DEFINE c == Head(todo)
           f == Unit[c]
           g == setLocalIDs(M[c])
           hits == [j \in DOMAIN Faulting(g) |-> Faulting(g)[j].tag]
<1>1. /\ phase = "post" /\ todo # <<>> /\ patchList' = patchList \o hits
      /\ reported' = reported \cup ToSet(hits) /\ UNCHANGED <<source, objects, phase>>
  BY DEF assignLocalIDs, program, run
<1>3. todo \in Seq(DOMAIN Unit) /\ IsInjective(todo)
  BY <1>0, <1>1 DEF Progress
<1>4. c \in DOMAIN Unit /\ c \in ToSet(todo)
  BY <1>1, <1>3, TailFacts
<1>5. SourceFunc(f)
  BY <1>0, <1>1, <1>4, UnitFacts
<1>6. M[c] = hookFunction(f)
  BY <1>0, <1>1, <1>4 DEF Shape, Stage
<1>7. g = Instrumented(f)
  BY <1>6 DEF Instrumented
<1>13. f = source[Len(objects) + 1][c] /\ c \in DOMAIN source[Len(objects) + 1]
  BY <1>4 DEF Unit
<1> HIDE DEF c, f, g
<1>8. Faulting(g) \in Seq(Instrs) /\ \A h : h \in ToSet(Faulting(g)) => h \in SitesOf(f)
  BY <1>5, <1>7, FaultingFacts
<1>9. \A j \in DOMAIN Faulting(g) : Faulting(g)[j].tag \in Nat
  <2>1. \A j \in DOMAIN Faulting(g) : Faulting(g)[j] \in Instrs
    BY <1>8
  <2> QED
    BY <2>1 DEF Instrs
<1>10. hits \in Seq(Nat)
  <2>1. DOMAIN Faulting(g) = 1 .. Len(Faulting(g)) /\ Len(Faulting(g)) \in Nat
    BY <1>8
  <2> QED
    BY <1>9, <2>1
<1>11. \A t \in ToSet(hits) : \E h \in SitesOf(f) : h.tag = t
  BY <1>8 DEF ToSet
<1> HIDE DEF hits
<1>12. \A t \in ToSet(hits) : UnitHolds(Len(objects) + 1, t)
  <2> SUFFICES ASSUME NEW t \in ToSet(hits) PROVE UnitHolds(Len(objects) + 1, t)
    OBVIOUS
  <2>1. PICK h \in SitesOf(f) : h.tag = t
    BY <1>11
  <2>2. \E x \in ToSet(InstrsOf(f)) : x.tag = t
    BY <1>5, <2>1, SiteFacts, SitesOfFacts
  <2> QED
    BY <1>13, <2>2 DEF UnitHolds, Holds
<1>14. patchList' \in Seq(Nat) /\ \A t : t \in ToSet(patchList') <=> t \in ToSet(patchList) \/ t \in ToSet(hits)
  <2>1. patchList \in Seq(Nat)
    BY DEF PatchList
  <2>2. patchList \o hits \in Seq(Nat)
    BY <1>10, <2>1
  <2>3. \A t : t \in ToSet(patchList \o hits) <=> t \in ToSet(patchList) \/ t \in ToSet(hits)
    BY <1>10, <2>1, ConcatRange
  <2> QED
    BY <1>1, <2>2, <2>3
<1>15. \A v, t : UnitHolds(v, t)' <=> UnitHolds(v, t)
  BY <1>1 DEF UnitHolds, Holds
<1>16. \A t \in ToSet(patchList') : UnitHolds(Len(objects) + 1, t)
  BY <1>1, <1>12, <1>14 DEF PatchList
<1>17. \A t \in reported' : t \in ToSet(patchList') \/ \E v \in DOMAIN objects : UnitHolds(v, t)
  BY <1>1, <1>14 DEF PatchList
<1>18. ToSet(patchList') \subseteq reported'
  BY <1>1, <1>14 DEF PatchList
<1> QED
  BY <1>1, <1>14, <1>15, <1>16, <1>17, <1>18 DEF PatchList

\* No step of the cycle confuses the two.
LEMMA PatchListNext == ReportInv /\ PatchList /\ [Next]_vars => PatchList'
<1> SUFFICES ASSUME ReportInv, PatchList, [Next]_vars PROVE PatchList'
  OBVIOUS
<1>0. Progress
  BY DEF ReportInv
<1>1. ASSUME UNCHANGED <<source, objects, reported, patchList>>, phase' # "linked" => phase # "linked" PROVE PatchList'
  <2>1. \A v, t : UnitHolds(v, t)' <=> UnitHolds(v, t)
    BY <1>1 DEF UnitHolds, Holds
  <2> QED
    BY <1>1, <2>1 DEF PatchList
<1>2. CASE UNCHANGED vars
  <2>1. UNCHANGED <<source, objects, reported, patchList, phase>>
    BY <1>2 DEF vars, program, run, output
  <2> QED
    BY <1>1, <2>1
<1>3. CASE hookFunctions
  <2>1. UNCHANGED <<source, objects, reported, patchList, phase>>
    BY <1>3 DEF hookFunctions, program, run, output
  <2> QED
    BY <1>1, <2>1
<1>4. CASE StartPost
  <2>1. UNCHANGED <<source, objects, reported, patchList>> /\ phase = "pre"
    BY <1>4 DEF StartPost, program, run, output
  <2> QED
    BY <1>1, <2>1
<1>5. CASE patchInstructions
  <2>1. UNCHANGED <<source, objects, reported, patchList>> /\ phase = "post"
    BY <1>5 DEF patchInstructions, program, run, output
  <2> QED
    BY <1>1, <2>1
<1>6. CASE removeHooks
  <2>1. UNCHANGED <<source, objects, reported, patchList>> /\ phase = "remove"
    BY <1>6 DEF removeHooks, program, run, output
  <2> QED
    BY <1>1, <2>1
<1>7. ASSUME objects' = Append(objects, M), phase = "compiled", UNCHANGED <<source, reported>>
      PROVE  \A t \in reported' : \E v \in DOMAIN objects' : UnitHolds(v, t)'
  <2>1. \A v, t : UnitHolds(v, t)' <=> UnitHolds(v, t)
    BY <1>7 DEF UnitHolds, Holds
  <2>2. objects \in Seq(Seq(Funcs)) /\ M \in Seq(Funcs) /\ Len(objects) \in Nat
    BY <1>0 DEF Progress
  <2>3. DOMAIN objects' = 1 .. Len(objects) + 1 /\ DOMAIN objects = 1 .. Len(objects)
    BY <1>7, <2>2, AppendProperties
  <2>4. Len(objects) + 1 \in DOMAIN objects' /\ DOMAIN objects \subseteq DOMAIN objects'
    BY <2>2, <2>3
  <2> QED
    BY <1>7, <2>1, <2>4 DEF PatchList
<1>8. CASE NextUnit
  <2>1. patchList' = <<>> /\ phase = "compiled" /\ objects' = Append(objects, M) /\ UNCHANGED <<source, reported>>
    BY <1>8 DEF NextUnit, Fresh, program, output
  <2>2. patchList' \in Seq(Nat) /\ ToSet(patchList') = {}
    BY <2>1 DEF ToSet
  <2> QED
    BY <1>7, <2>1, <2>2 DEF PatchList
<1>9. CASE Link
  <2>1. /\ phase = "compiled" /\ phase' = "linked" /\ objects' = Append(objects, M)
        /\ UNCHANGED <<source, reported, patchList>>
    BY <1>9 DEF Link, program, output
  <2> QED
    BY <1>7, <2>1 DEF PatchList
<1>10. ASSUME NEW F, NEW o, Execute(F, o) PROVE PatchList'
  <2>1. patchList' = <<>> /\ reported' = {}
    BY <1>10 DEF Execute, Fresh
  <2>2. patchList' \in Seq(Nat) /\ ToSet(patchList') = {}
    BY <2>1 DEF ToSet
  <2> QED
    BY <2>1, <2>2 DEF PatchList
<1> QED
  BY <1>2, <1>3, <1>4, <1>5, <1>6, <1>8, <1>9, <1>10, PatchListAssign DEF Next

\* It is right when the cycle begins.
LEMMA PatchListInit == Init => PatchList
<1> SUFFICES ASSUME Init PROVE PatchList
  OBVIOUS
<1>1. patchList = <<>> /\ reported = {}
  BY DEF Init
<1>2. patchList \in Seq(Nat) /\ ToSet(patchList) = {}
  BY <1>1 DEF ToSet
<1> QED
  BY <1>1, <1>2 DEF PatchList

\* In the unit, a call is to be patched when it is reported.
LEMMA PatchedReported ==
  ASSUME ReportInv, PatchList, phase # "linked", NEW n \in DOMAIN Unit, NEW x \in ToSet(InstrsOf(Unit[n]))
  PROVE  x.tag \in ToSet(patchList) <=> x.tag \in reported
<1>0. Progress
  BY DEF ReportInv
<1>1. WellFormed(source) /\ Len(objects) + 1 \in DOMAIN source /\ Len(objects) \in Nat /\ DOMAIN objects = 1 .. Len(objects)
  BY <1>0, SourceFacts
<1>2. DOMAIN objects \subseteq DOMAIN source
  <2>1. Len(objects) < Len(source) /\ DOMAIN source = 1 .. Len(source) /\ Len(source) \in Nat
    BY <1>0, SourceFacts DEF Progress
  <2> QED
    BY <1>1, <2>1
<1>3. ASSUME NEW v \in DOMAIN objects, UnitHolds(v, x.tag) PROVE FALSE
  <2>1. PICK m \in DOMAIN source[v] : \E y \in ToSet(InstrsOf(source[v][m])) : y.tag = x.tag
    BY <1>3 DEF UnitHolds, Holds
  <2>2. PICK y \in ToSet(InstrsOf(source[v][m])) : y.tag = x.tag
    BY <2>1
  <2>3. v = Len(objects) + 1
    <3> DEFINE u == Len(objects) + 1
    <3>1. u \in DOMAIN source /\ v \in DOMAIN source /\ n \in DOMAIN source[u] /\ x \in ToSet(InstrsOf(source[u][n]))
      BY <1>1, <1>2 DEF Unit
    <3> HIDE DEF u
    <3>2. u = v
      BY <1>1, <2>2, <3>1, TagHome
    <3> QED
      BY <3>2 DEF u
  <2> QED
    BY <1>1, <1>3, <2>3
<1> QED
  BY <1>3 DEF PatchList

\* Then the calls that are left of the unit are those of the source, redirected
\* where they are reported.
LEMMA CallsRestored == ReportInv /\ PatchList => SourceRestored
<1> SUFFICES ASSUME ReportInv, PatchList, phase = "compiled", NEW n \in DOMAIN M
             PROVE  LET before == InstrsOf(source[Len(objects) + 1][n])
                    IN  /\ Keep(InstrsOf(M[n]), Calls) =
                             [j \in DOMAIN before |->
                                IF before[j].fn = trusted_malloc /\ before[j].tag \in reported /\ Replaceable
                                  THEN [before[j] EXCEPT !.fn = untrusted_malloc] ELSE before[j]]
                        /\ RemoveHooks => HooksOf(M[n]) = <<>>
  BY DEF SourceRestored
<1> DEFINE f == Unit[n]
           g == M[n]
           before == InstrsOf(f)
           q == Patched(f)
<1>1. Progress /\ Shape
  BY DEF ReportInv
<1>2. n \in DOMAIN Unit /\ SourceFunc(f)
  BY <1>1, UnitFacts DEF Shape
<1>3. g = IF RemoveHooks THEN KeepInstrs(q, Calls) ELSE q
  BY <1>1, <1>2 DEF Shape, Stage
<1>4. q \in Funcs /\ Keep(InstrsOf(q), Calls) = Mapped(before, PatchOf)
  BY <1>2, CallsOfPatched
<1>5. before \in Seq(Instrs) /\ \A j \in DOMAIN before : before[j] \in ToSet(before)
  BY <1>2, InstrsOfFacts DEF SourceFunc, ToSet
<1>6. \A x \in ToSet(before) : x \in Instrs /\ x.op # "hook" /\ (x.tag \in ToSet(patchList) <=> x.tag \in reported)
  BY <1>2, PatchedReported DEF SourceFunc, Calls
<1>7. f = source[Len(objects) + 1][n]
  BY DEF Unit
<1> HIDE DEF f, g, q, before
<1>8. \A j \in DOMAIN before :
        PatchOf[before[j]] = IF before[j].fn = trusted_malloc /\ before[j].tag \in reported /\ Replaceable
                               THEN [before[j] EXCEPT !.fn = untrusted_malloc] ELSE before[j]
  <2> SUFFICES ASSUME NEW j \in DOMAIN before, NEW x, x = before[j]
               PROVE  PatchOf[x] = IF x.fn = trusted_malloc /\ x.tag \in reported /\ Replaceable
                                     THEN [x EXCEPT !.fn = untrusted_malloc] ELSE x
    OBVIOUS
  <2>1. x \in Instrs /\ x.op # "hook" /\ (x.tag \in ToSet(patchList) <=> x.tag \in reported)
    BY <1>5, <1>6
  <2>2. PatchOf[x] = IF Patchable(x) THEN [x EXCEPT !.fn = untrusted_malloc] ELSE x
    BY <2>1 DEF PatchOf
  <2>3. Patchable(x) <=> x.fn = trusted_malloc /\ x.tag \in reported /\ Replaceable
    BY <2>1 DEF Patchable
  <2> QED
    BY <2>2, <2>3, Zenon
<1>9. Mapped(before, PatchOf) =
        [j \in DOMAIN before |->
           IF before[j].fn = trusted_malloc /\ before[j].tag \in reported /\ Replaceable
             THEN [before[j] EXCEPT !.fn = untrusted_malloc] ELSE before[j]]
  BY <1>8, Zenon DEF Mapped
<1>10. InstrsOf(q) \in Seq(Instrs)
  BY <1>4, InstrsOfFacts
<1>11. RemoveHooks => InstrsOf(g) = Keep(InstrsOf(q), Calls)
  BY <1>3, <1>4, KeepInstrsFacts
<1>12. Keep(InstrsOf(q), Calls) \in Seq(Instrs) /\ ToSet(Keep(InstrsOf(q), Calls)) \subseteq Calls
  BY <1>10, KeepType, KeepRange
<1>13. Keep(InstrsOf(g), Calls) = Keep(InstrsOf(q), Calls)
  <2>1. CASE RemoveHooks
    <3>1. Keep(Keep(InstrsOf(q), Calls), Calls) = Keep(InstrsOf(q), Calls)
      BY <1>12, KeepAllOrNone
    <3> QED
      BY <1>11, <2>1, <3>1
  <2>2. CASE ~RemoveHooks
    BY <1>3, <2>2
  <2> QED
    BY <2>1, <2>2
<1>14. ASSUME RemoveHooks PROVE HooksOf(g) = <<>>
  <2>1. ToSet(Keep(InstrsOf(q), Calls)) \cap Hooks = {}
    BY <1>12 DEF Calls, Hooks
  <2>2. Keep(Keep(InstrsOf(q), Calls), Hooks) = <<>>
    BY <1>12, <2>1, KeepAllOrNone
  <2> QED
    BY <1>11, <1>14, <2>2 DEF HooksOf
<1> QED
  BY <1>4, <1>7, <1>9, <1>13, <1>14 DEF g, before

\* A build leaves all calls of the source in their order, those of trusted_malloc
\* that it reports redirected, and with PROVSAN_HOOK nothing else.
THEOREM SourceIsRestored == Spec => []SourceRestored
<1>1. Spec => []PatchList
  BY PatchListInit, PatchListNext, CycleInvariant, PTL DEF Spec
<1> QED
  BY <1>1, CallsRestored, CycleInvariant, PTL

-----------------------------------------------------------------------------
(* The statistics.                                                         *)

\* The tags of the calls of f that get a hook of one of the kinds H.
TagsOf(f, H) ==
  {t \in Nat : \E x \in ToSet(InstrsOf(f)) : x \in Targets /\ getHookInst(x).fn \in H /\ x.tag = t}

\* The same for the functions at the places N of the unit.
Tagged(N, H) == {t \in Nat : \E n \in N : \E f \in {Unit[n]} : t \in TagsOf(f, H)}

\* A pass that has visited the places N has counted them.
Counted(total, kinds, N) ==
  /\ \A H : IsFiniteSet(Tagged(N, H))
  /\ total = Cardinality(Tagged(N, HookNames))
  /\ kinds = [h \in HookNames |-> Cardinality(Tagged(N, {h}))]

\* The places that Pre and Post have visited.
PreSeen == IF phase = "pre" THEN DOMAIN Unit \ ToSet(todo) ELSE DOMAIN Unit
PostSeen == IF phase = "pre" THEN {} ELSE DOMAIN Unit \ ToSet(todo)

\* The calls of the source that the build redirects.
ToPatch == {i \in InstrsIn(Unit) : Patchable(i)}

CountInv ==
  phase # "linked" =>
    /\ \A c \in {PreStats.hook_count}, k \in {PreStats.kinds}, N \in {PreSeen} : Counted(c, k, N)
    /\ \A c \in {PostStats.total_hooks}, k \in {PostStats.kinds}, N \in {PostSeen} : Counted(c, k, N)
    /\ DOMAIN PostStats = {"total_hooks", "kinds", "modified_inst_count"}
    /\ RemoveHooks => \A N \in {PostSeen} : Tagged(N, HookNames) \subseteq hookList
    /\ PostStats.modified_inst_count = IF phase \in {"remove", "compiled"} THEN Cardinality(ToPatch) ELSE 0

\* The calls of a function that get a hook of kind h are as many as their tags.
LEMMA TargetCount ==
  ASSUME NEW f, SourceFunc(f)
  PROVE  /\ \A H : IsFiniteSet(TagsOf(f, H))
         /\ \A h : Len(Keep(InstrsOf(f), {i \in Targets : getHookInst(i).fn = h})) = Cardinality(TagsOf(f, {h}))
<1>1. InstrsOf(f) \in Seq(Instrs) /\ Unclashing(InstrsOf(f), SameTag)
  BY InstrsOfFacts, OneTag DEF SourceFunc
<1>2. \A x \in ToSet(InstrsOf(f)) : x \in Instrs /\ x.tag \in Nat
  <2>1. \A x \in ToSet(InstrsOf(f)) : x \in Instrs
    BY <1>1 DEF ToSet
  <2> QED
    BY <2>1 DEF Instrs
<1>3. ASSUME NEW H PROVE IsFiniteSet(TagsOf(f, H))
  <2>1. IsFiniteSet(TagsIn(InstrsOf(f)))
    BY <1>1, TagCount
  <2>2. TagsOf(f, H) \in SUBSET TagsIn(InstrsOf(f))
    BY DEF TagsOf, TagsIn
  <2> QED
    BY <2>1, <2>2, FS_Subset
<1>4. ASSUME NEW h PROVE Len(Keep(InstrsOf(f), {i \in Targets : getHookInst(i).fn = h})) = Cardinality(TagsOf(f, {h}))
  <2> DEFINE A == {i \in Targets : getHookInst(i).fn = h}
             s == InstrsOf(f)
  <2>1. \A x : x \in A <=> x \in Targets /\ getHookInst(x).fn = h
    OBVIOUS
  <2> HIDE DEF A
  <2>2. Keep(s, A) \in Seq(Instrs)
    BY <1>1, KeepType
  <2>3. Unclashing(Keep(s, A), SameTag)
    <3>1. \A i, j \in DOMAIN s : s[i] \in A /\ s[j] \in A /\ <<s[i], s[j]>> \in SameTag => i = j
      BY <1>1 DEF Unclashing
    <3> QED
      BY <1>1, <3>1, KeepUnclashing
  <2>4. \A x : x \in ToSet(Keep(s, A)) <=> x \in ToSet(s) /\ x \in A
    BY <1>1, KeepRange
  <2>5. TagsIn(Keep(s, A)) = TagsOf(f, {h})
    BY <1>2, <2>1, <2>4 DEF TagsIn, TagsOf
  <2>6. Len(Keep(s, A)) = Cardinality(TagsOf(f, {h}))
    BY <2>2, <2>3, <2>5, TagCount
  <2> QED
    BY <2>6 DEF A
<1> QED
  BY <1>3, <1>4

\* So are its hooks, before and after Post has numbered them.
LEMMA HookedCount ==
  ASSUME NEW f, SourceFunc(f), NEW g, HasHooks(g, f)
  PROVE  /\ Len(HooksOf(g)) = Cardinality(TagsOf(f, HookNames))
         /\ \A h : Len(Keep(HooksOf(g), {i \in Hooks : i.fn = h})) = Cardinality(TagsOf(f, {h}))
         /\ TagsIn(HooksOf(g)) = TagsOf(f, HookNames)
<1>1. g \in Funcs /\ Unclashing(InstrsOf(g), SameHook)
  BY DEF HasHooks
<1>2. HooksOf(g) \in Seq(Instrs) /\ Len(HooksOf(g)) = Cardinality(TagsIn(HooksOf(g)))
  BY <1>1, HookCount
<1>3. \A x \in ToSet(HooksOf(g)) : x \in Hooks /\ x.tag \in Nat
  BY <1>1, <1>2, HooksOfFacts DEF Hooks, Instrs
<1>4. \A x \in ToSet(InstrsOf(f)) : x \in Instrs /\ getHookInst(x).fn \in HookNames
  <2>1. InstrsOf(f) \in Seq(Instrs)
    BY InstrsOfFacts DEF SourceFunc
  <2>2. \A x \in ToSet(InstrsOf(f)) : x \in Instrs
    BY <2>1 DEF ToSet
  <2> QED
    BY <2>2, HookFacts
<1>5. \A fn, tag : (\E h \in ToSet(HooksOf(g)) : h.fn = fn /\ h.tag = tag) <=>
                   (\E x \in ToSet(InstrsOf(f)) : x \in Targets /\ getHookInst(x).fn = fn /\ x.tag = tag)
  BY DEF HasHooks
<1>6. TagsIn(HooksOf(g)) = TagsOf(f, HookNames)
  <2>1. ASSUME NEW t PROVE t \in TagsIn(HooksOf(g)) <=> t \in TagsOf(f, HookNames)
    <3>1. t \in TagsIn(HooksOf(g)) <=> \E h \in ToSet(HooksOf(g)) : h.tag = t
      BY DEF TagsIn
    <3>2. t \in TagsOf(f, HookNames) <=> t \in Nat /\ \E x \in ToSet(InstrsOf(f)) : x \in Targets /\ x.tag = t
      BY <1>4 DEF TagsOf
    <3>3. ASSUME NEW h \in ToSet(HooksOf(g)), h.tag = t PROVE t \in TagsOf(f, HookNames)
      <4>1. \E x \in ToSet(InstrsOf(f)) : x \in Targets /\ getHookInst(x).fn = h.fn /\ x.tag = t
        <5>1. \E y \in ToSet(HooksOf(g)) : y.fn = h.fn /\ y.tag = t
          BY <3>3
        <5> QED
          BY <1>5, <5>1
      <4>2. t \in Nat
        BY <1>3, <3>3
      <4> QED
        BY <3>2, <4>1, <4>2
    <3>4. ASSUME NEW x \in ToSet(InstrsOf(f)), x \in Targets, x.tag = t PROVE t \in TagsIn(HooksOf(g))
      BY <1>5, <3>1, <3>4
    <3> QED
      BY <3>1, <3>2, <3>3, <3>4, Zenon
  <2> QED
    BY <2>1
<1>7. ASSUME NEW h PROVE Len(Keep(HooksOf(g), {i \in Hooks : i.fn = h})) = Cardinality(TagsOf(f, {h}))
  <2> DEFINE A == {i \in Hooks : i.fn = h}
  <2>1. \A x : x \in A <=> x \in Hooks /\ x.fn = h
    OBVIOUS
  <2> HIDE DEF A
  <2>2. Len(Keep(HooksOf(g), A)) = Cardinality(TagsIn(Keep(HooksOf(g), A)))
    BY <1>1, HookCount
  <2>3. \A x : x \in ToSet(Keep(HooksOf(g), A)) <=> x \in ToSet(HooksOf(g)) /\ x.fn = h
    BY <1>2, <1>3, <2>1, KeepRange
  <2>4. ASSUME NEW t PROVE t \in TagsIn(Keep(HooksOf(g), A)) <=> t \in TagsOf(f, {h})
    <3>1. t \in TagsIn(Keep(HooksOf(g), A)) <=> \E y \in ToSet(HooksOf(g)) : y.fn = h /\ y.tag = t
      BY <2>3 DEF TagsIn
    <3>2. t \in TagsOf(f, {h}) <=> t \in Nat /\ \E x \in ToSet(InstrsOf(f)) : x \in Targets /\ getHookInst(x).fn = h /\ x.tag = t
      BY DEF TagsOf
    <3> QED
      BY <1>3, <1>5, <3>1, <3>2
  <2>5. TagsIn(Keep(HooksOf(g), A)) = TagsOf(f, {h})
    BY <2>4
  <2>6. Len(Keep(HooksOf(g), A)) = Cardinality(TagsOf(f, {h}))
    BY <2>2, <2>5
  <2> QED
    BY <2>6 DEF A
<1> QED
  BY <1>2, <1>6, <1>7

\* Another function has tags of its own.
LEMMA TaggedMore ==
  ASSUME Progress, phase # "linked", NEW N, N \subseteq DOMAIN Unit, NEW n \in DOMAIN Unit, n \notin N, NEW H
  PROVE  /\ Tagged(N \cup {n}, H) = Tagged(N, H) \cup TagsOf(Unit[n], H)
         /\ Tagged(N, H) \cap TagsOf(Unit[n], H) = {}
<1>1. Tagged(N \cup {n}, H) = Tagged(N, H) \cup TagsOf(Unit[n], H)
  <2>1. TagsOf(Unit[n], H) \subseteq Nat
    BY DEF TagsOf
  <2> QED
    BY <2>1 DEF Tagged
<1>2. ASSUME NEW t, t \in Tagged(N, H), t \in TagsOf(Unit[n], H) PROVE FALSE
  <2>1. PICK m \in N : t \in TagsOf(Unit[m], H)
    BY <1>2 DEF Tagged
  <2>2. PICK x \in ToSet(InstrsOf(Unit[m])) : x.tag = t
    BY <2>1 DEF TagsOf
  <2>3. PICK y \in ToSet(InstrsOf(Unit[n])) : y.tag = t
    BY <1>2 DEF TagsOf
  <2>4. WellFormed(source) /\ Len(objects) + 1 \in DOMAIN source /\ m \in DOMAIN Unit
    BY SourceFacts
  <2>5. m = n
    BY <2>2, <2>3, <2>4, TagHome DEF Unit
  <2> QED
    BY <2>5
<1> QED
  BY <1>1, <1>2

\* So a pass that counts the hooks of another function counts right.
LEMMA CountedMore ==
  ASSUME Progress, phase # "linked", NEW N, N \subseteq DOMAIN Unit, NEW n \in DOMAIN Unit, n \notin N,
         NEW c, NEW k, Counted(c, k, N)
  PROVE  Counted(c + Cardinality(TagsOf(Unit[n], HookNames)),
                 [h \in HookNames |-> k[h] + Cardinality(TagsOf(Unit[n], {h}))], N \cup {n})
<1>1. ASSUME NEW H
      PROVE  /\ IsFiniteSet(Tagged(N \cup {n}, H))
             /\ Cardinality(Tagged(N \cup {n}, H)) = Cardinality(Tagged(N, H)) + Cardinality(TagsOf(Unit[n], H))
  <2> DEFINE S == Tagged(N, H)
             T == TagsOf(Unit[n], H)
  <2>1. IsFiniteSet(S)
    BY DEF Counted
  <2>2. IsFiniteSet(T)
    BY UnitFacts, TargetCount
  <2>3. Tagged(N \cup {n}, H) = S \cup T /\ S \cap T = {}
    BY TaggedMore
  <2> HIDE DEF S, T
  <2>4. /\ IsFiniteSet(S \cup T)
        /\ Cardinality(S \cup T) = Cardinality(S) + Cardinality(T) - Cardinality(S \cap T)
    BY <2>1, <2>2, FS_Union
  <2>5. Cardinality(S \cap T) = 0 /\ Cardinality(S) \in Nat /\ Cardinality(T) \in Nat
    BY <2>1, <2>2, <2>3, FS_EmptySet, FS_CardinalityType
  <2>6. Cardinality(S \cup T) = Cardinality(S) + Cardinality(T)
    BY <2>4, <2>5
  <2>7. IsFiniteSet(Tagged(N \cup {n}, H)) /\ Cardinality(Tagged(N \cup {n}, H)) = Cardinality(S) + Cardinality(T)
    BY <2>3, <2>4, <2>6
  <2> QED
    BY <2>7 DEF S, T
<1>2. c = Cardinality(Tagged(N, HookNames)) /\ k = [h \in HookNames |-> Cardinality(Tagged(N, {h}))]
  BY DEF Counted
<1>3. c + Cardinality(TagsOf(Unit[n], HookNames)) = Cardinality(Tagged(N \cup {n}, HookNames))
  BY <1>1, <1>2
<1>4. \A h \in HookNames : k[h] + Cardinality(TagsOf(Unit[n], {h})) = Cardinality(Tagged(N \cup {n}, {h}))
  BY <1>1, <1>2
<1>5. [h \in HookNames |-> k[h] + Cardinality(TagsOf(Unit[n], {h}))]
        = [h \in HookNames |-> Cardinality(Tagged(N \cup {n}, {h}))]
  BY <1>4
<1> QED
  BY <1>1, <1>3, <1>5 DEF Counted

\* A pass that has visited nothing has counted nothing.
LEMMA CountedNone == Counted(0, [h \in HookNames |-> 0], {})
<1>1. \A H : Tagged({}, H) = {}
  BY DEF Tagged
<1>2. IsFiniteSet({}) /\ Cardinality({}) = 0
  BY FS_EmptySet
<1> QED
  BY <1>1, <1>2 DEF Counted

\* The hooks of the three kinds are all hooks.
LEMMA KindsAddUp ==
  ASSUME Progress, phase # "linked", NEW N, N \subseteq DOMAIN Unit, \A H : IsFiniteSet(Tagged(N, H))
  PROVE  Cardinality(Tagged(N, HookNames)) =
           Cardinality(Tagged(N, {allocHook})) + Cardinality(Tagged(N, {reallocHook}))
             + Cardinality(Tagged(N, {deallocHook}))
<1> DEFINE A == Tagged(N, {allocHook})
           R == Tagged(N, {reallocHook})
           D == Tagged(N, {deallocHook})
<1>1. Tagged(N, HookNames) = (A \cup R) \cup D
  BY DEF Tagged, TagsOf, HookNames
<1>2. \A h, e : h # e => Tagged(N, {h}) \cap Tagged(N, {e}) = {}
  <2> SUFFICES ASSUME NEW h, NEW e, h # e, NEW t, t \in Tagged(N, {h}), t \in Tagged(N, {e}) PROVE FALSE
    OBVIOUS
  <2>1. PICK n \in N : t \in TagsOf(Unit[n], {h})
    BY DEF Tagged
  <2>2. PICK m \in N : t \in TagsOf(Unit[m], {e})
    BY DEF Tagged
  <2>3. PICK x \in ToSet(InstrsOf(Unit[n])) : getHookInst(x).fn = h /\ x.tag = t
    BY <2>1 DEF TagsOf
  <2>4. PICK y \in ToSet(InstrsOf(Unit[m])) : getHookInst(y).fn = e /\ y.tag = t
    BY <2>2 DEF TagsOf
  <2>5. WellFormed(source) /\ Len(objects) + 1 \in DOMAIN source /\ m \in DOMAIN Unit /\ n \in DOMAIN Unit
    BY SourceFacts
  <2>6. x = y
    BY <2>3, <2>4, <2>5, TagHome DEF Unit
  <2> QED
    BY <2>3, <2>4, <2>6
<1>3. allocHook # reallocHook /\ allocHook # deallocHook /\ reallocHook # deallocHook
  <2>1. allocHook[2] = "a" /\ reallocHook[2] = "r" /\ deallocHook[2] = "d"
    BY DEF allocHook, reallocHook, deallocHook
  <2> QED
    BY <2>1
<1>4. A \cap R = {} /\ (A \cup R) \cap D = {}
  BY <1>2, <1>3
<1>5. IsFiniteSet(A) /\ IsFiniteSet(R) /\ IsFiniteSet(D)
  OBVIOUS
<1> HIDE DEF A, R, D
<1>6. /\ IsFiniteSet(A \cup R)
      /\ Cardinality(A \cup R) = Cardinality(A) + Cardinality(R) - Cardinality(A \cap R)
  BY <1>5, FS_Union
<1>7. Cardinality((A \cup R) \cup D) = Cardinality(A \cup R) + Cardinality(D) - Cardinality((A \cup R) \cap D)
  BY <1>5, <1>6, FS_Union
<1>8. Cardinality({}) = 0 /\ Cardinality(A) \in Nat /\ Cardinality(R) \in Nat /\ Cardinality(D) \in Nat
  BY <1>5, FS_EmptySet, FS_CardinalityType
<1>9. Cardinality(A \cup R) = Cardinality(A) + Cardinality(R)
  <2>1. Cardinality(A \cap R) = 0
    BY <1>4, <1>8, Zenon
  <2> QED
    BY <1>6, <1>8, <2>1
<1>10. Cardinality((A \cup R) \cup D) = Cardinality(A \cup R) + Cardinality(D)
  <2>1. Cardinality((A \cup R) \cap D) = 0
    BY <1>4, <1>8, Zenon
  <2>2. Cardinality(A \cup R) \in Nat
    BY <1>8, <1>9
  <2> QED
    BY <1>7, <1>8, <2>1, <2>2
<1>11. Cardinality(Tagged(N, HookNames)) = Cardinality(A) + Cardinality(R) + Cardinality(D)
  BY <1>1, <1>9, <1>10
<1> QED
  BY <1>11 DEF A, R, D

\* The counts stay right while the unit stays the same.
LEMMA CountedStable ==
  ASSUME UNCHANGED <<source, env, objects>>
  PROVE  /\ Unit' = Unit
         /\ \A N, H : Tagged(N, H)' = Tagged(N, H)
         /\ \A c, k, N : Counted(c, k, N)' <=> Counted(c, k, N)
<1>1. Unit' = Unit
  BY DEF Unit
<1>2. \A f, H : TagsOf(f, H)' = TagsOf(f, H)
  BY StableEnv DEF TagsOf
<1>3. \A N, H : Tagged(N, H)' = Tagged(N, H)
  BY <1>1, <1>2 DEF Tagged
<1>4. \A c, k, N : Counted(c, k, N)' <=> Counted(c, k, N)
  BY <1>3 DEF Counted
<1> QED
  BY <1>1, <1>3, <1>4

\* The calls to redirect stay the same while the list of them does.
LEMMA ToPatchStable ==
  ASSUME UNCHANGED <<source, objects, patchList>>
  PROVE  ToPatch' = ToPatch
  BY DEF ToPatch, Patchable, InstrsIn, Unit

\* No two calls of the unit have one tag.
LEMMA UnitTags ==
  ASSUME Progress, phase # "linked", NEW x \in InstrsIn(Unit), NEW y \in InstrsIn(Unit), x.tag = y.tag
  PROVE  x = y
<1>1. PICK n \in DOMAIN Unit : x \in ToSet(InstrsOf(Unit[n]))
  BY DEF InstrsIn
<1>2. PICK m \in DOMAIN Unit : y \in ToSet(InstrsOf(Unit[m]))
  BY DEF InstrsIn
<1>3. WellFormed(source) /\ Len(objects) + 1 \in DOMAIN source
  BY SourceFacts
<1> QED
  BY <1>1, <1>2, <1>3, TagHome DEF Unit

\* They are calls.
LEMMA UnitCalls ==
  ASSUME Progress, phase # "linked", NEW x \in InstrsIn(Unit)
  PROVE  x \in Instrs /\ x \in Calls
<1>1. PICK n \in DOMAIN Unit : x \in ToSet(InstrsOf(Unit[n]))
  BY DEF InstrsIn
<1>2. SourceFunc(Unit[n])
  BY UnitFacts
<1>3. x \in Calls
  BY <1>1, <1>2 DEF SourceFunc
<1> QED
  BY <1>3 DEF Calls

\* There are finitely many calls to redirect, as there is a finite list of them.
LEMMA ToPatchFinite ==
  ASSUME Progress, PatchList, phase # "linked"
  PROVE  IsFiniteSet(ToPatch) /\ Cardinality(ToPatch) \in Nat
<1> DEFINE T == ToSet(patchList)
           h == [i \in ToPatch |-> i.tag]
<1>1. patchList \in Seq(Nat)
  BY DEF PatchList
<1>2. IsFiniteSet(T)
  <2>1. IsFiniteSet(1 .. Len(patchList))
    BY <1>1, FS_Interval
  <2>2. DOMAIN patchList = 1 .. Len(patchList) /\ patchList \in [1 .. Len(patchList) -> T]
    BY <1>1 DEF ToSet
  <2>3. patchList \in Surjection(1 .. Len(patchList), T)
    BY <2>2 DEF Surjection, ToSet
  <2> QED
    BY <2>1, <2>3, FS_Surjection
<1>3. \A i \in ToPatch : i.tag \in T /\ i \in InstrsIn(Unit)
  BY DEF ToPatch, Patchable
<1>4. h \in [ToPatch -> T] /\ \A i \in ToPatch : h[i] = i.tag
  BY <1>3
<1>5. \A i, j \in ToPatch : h[i] = h[j] => i = j
  BY <1>3, <1>4, UnitTags
<1> HIDE DEF h, T
<1>6. h \in Injection(ToPatch, T)
  BY <1>4, <1>5 DEF Injection, IsInjective
<1>7. IsFiniteSet(ToPatch)
  BY <1>2, <1>6, FS_Injection
<1> QED
  BY <1>7, FS_CardinalityType

\* patchInstruction finds them in the unit with its hooks.
LEMMA PatchFinds ==
  ASSUME ReportInv, phase = "post", todo = <<>>
  PROVE  {i \in InstrsIn(M) : Patchable(i)} = ToPatch
<1>1. Progress /\ Shape
  BY DEF ReportInv
<1>2. DOMAIN M = DOMAIN Unit /\ \A n \in DOMAIN Unit : M[n] = Instrumented(Unit[n])
  BY <1>1 DEF Shape, Stage, ToSet
<1>3. ASSUME NEW n \in DOMAIN Unit, NEW i, i.op # "hook"
      PROVE  i \in ToSet(InstrsOf(M[n])) <=> i \in ToSet(InstrsOf(Unit[n]))
  <2>1. SourceFunc(Unit[n])
    BY <1>1, UnitFacts
  <2>2. M[n] \in Funcs /\ Keep(InstrsOf(M[n]), Calls) = InstrsOf(Unit[n])
    BY <1>2, <2>1, CallsOfPatched
  <2>3. InstrsOf(M[n]) \in Seq(Instrs)
    BY <2>2, InstrsOfFacts
  <2>4. i \in ToSet(Keep(InstrsOf(M[n]), Calls)) <=> i \in ToSet(InstrsOf(M[n])) /\ i \in Calls
    BY <2>3, KeepRange
  <2>5. i \in ToSet(InstrsOf(M[n])) => i \in Instrs
    BY <2>3 DEF ToSet
  <2>6. i \in ToSet(InstrsOf(M[n])) => i \in Calls
    BY <1>3, <2>5 DEF Calls
  <2> QED
    BY <2>2, <2>4, <2>6
<1>4. \A i : i \in InstrsIn(M) <=> \E n \in DOMAIN Unit : i \in ToSet(InstrsOf(M[n]))
  BY <1>2 DEF InstrsIn
<1>5. \A i : i \in InstrsIn(Unit) <=> \E n \in DOMAIN Unit : i \in ToSet(InstrsOf(Unit[n]))
  BY DEF InstrsIn
<1>6. \A i : i.op # "hook" => (i \in InstrsIn(M) <=> i \in InstrsIn(Unit))
  BY <1>3, <1>4, <1>5
<1>7. \A i : Patchable(i) => i.op # "hook"
  BY DEF Patchable
<1> QED
  BY <1>6, <1>7 DEF ToPatch

\* In the end they are the calls that are not as in the source.
LEMMA PatchesDiffer ==
  ASSUME ReportInv, PatchList, phase = "compiled"
  PROVE  Cardinality(ToPatch) = Cardinality((InstrsIn(M) \cap Calls) \ InstrsIn(Unit))
<1>1. Progress /\ Shape
  BY DEF ReportInv
<1>2. \A x \in InstrsIn(Unit) : x \in Instrs /\ x.op # "hook"
  BY <1>1, UnitCalls DEF Calls
<1>3. ASSUME NEW n \in DOMAIN Unit, NEW z
      PROVE  z \in ToSet(InstrsOf(M[n])) /\ z \in Calls <=> \E x \in ToSet(InstrsOf(Unit[n])) : z = PatchOf[x]
  <2> DEFINE q == Patched(Unit[n])
  <2>1. q \in Funcs /\ Keep(InstrsOf(q), Calls) = Mapped(InstrsOf(Unit[n]), PatchOf)
    BY <1>1, UnitFacts, CallsOfPatched
  <2>2. M[n] = IF RemoveHooks THEN KeepInstrs(q, Calls) ELSE q
    BY <1>1 DEF Shape, Stage
  <2> HIDE DEF q
  <2>3. InstrsOf(q) \in Seq(Instrs)
    BY <2>1, InstrsOfFacts
  <2>4. InstrsOf(KeepInstrs(q, Calls)) = Keep(InstrsOf(q), Calls)
    BY <2>1, KeepInstrsFacts
  <2>5. z \in ToSet(Keep(InstrsOf(q), Calls)) <=> z \in ToSet(InstrsOf(q)) /\ z \in Calls
    BY <2>3, KeepRange
  <2>6. z \in ToSet(InstrsOf(M[n])) /\ z \in Calls <=> z \in ToSet(Keep(InstrsOf(q), Calls))
    BY <2>2, <2>4, <2>5
  <2>7. z \in ToSet(Mapped(InstrsOf(Unit[n]), PatchOf)) <=> \E x \in ToSet(InstrsOf(Unit[n])) : z = PatchOf[x]
    BY MappedRange
  <2> QED
    BY <2>1, <2>6, <2>7
<1>4. \A z : z \in InstrsIn(M) /\ z \in Calls <=> \E x \in InstrsIn(Unit) : z = PatchOf[x]
  <2>1. DOMAIN M = DOMAIN Unit
    BY <1>1 DEF Shape
  <2> QED
    BY <1>3, <2>1 DEF InstrsIn
<1>5. \A x \in InstrsIn(Unit) : x \notin ToPatch => PatchOf[x] = x
  BY <1>2 DEF ToPatch, PatchOf
<1>6. ASSUME NEW x \in ToPatch PROVE PatchOf[x] \notin InstrsIn(Unit)
  <2>1. x \in InstrsIn(Unit) /\ x \in Instrs /\ Patchable(x)
    BY <1>2 DEF ToPatch
  <2>2. PatchOf[x] = [x EXCEPT !.fn = untrusted_malloc]
    BY <2>1 DEF PatchOf
  <2>3. x.fn = trusted_malloc
    BY <2>1 DEF Patchable
  <2>4. PatchOf[x].fn = untrusted_malloc /\ PatchOf[x].tag = x.tag
    BY <2>1, <2>2 DEF Instrs
  <2>5. untrusted_malloc # trusted_malloc
    <3>1. untrusted_malloc[1] = "u" /\ trusted_malloc[1] = "m"
      BY DEF untrusted_malloc, trusted_malloc
    <3> QED
      BY <3>1
  <2>6. PatchOf[x] \in InstrsIn(Unit) => PatchOf[x] = x
    BY <1>1, <2>1, <2>4, UnitTags
  <2> QED
    BY <2>3, <2>4, <2>5, <2>6
<1> DEFINE Q == (InstrsIn(M) \cap Calls) \ InstrsIn(Unit)
           b == [i \in ToPatch |-> PatchOf[i]]
<1>7. \A i \in ToPatch : i \in InstrsIn(Unit)
  BY DEF ToPatch
<1>8. \A z : z \in Q <=> \E x \in ToPatch : z = PatchOf[x]
  BY <1>4, <1>5, <1>6, <1>7
<1>9. \A x, y \in ToPatch : PatchOf[x] = PatchOf[y] => x = y
  <2>1. \A x \in ToPatch : PatchOf[x].tag = x.tag
    BY <1>2, <1>7, PatchFacts
  <2>2. \A x, y \in ToPatch : x.tag = y.tag => x = y
    BY <1>1, <1>7, UnitTags
  <2> QED
    BY <2>1, <2>2
<1> HIDE DEF Q
<1>10. b \in [ToPatch -> Q] /\ \A i \in ToPatch : b[i] = PatchOf[i]
  BY <1>8
<1> HIDE DEF b
<1>11. b \in Injection(ToPatch, Q)
  BY <1>9, <1>10 DEF Injection, IsInjective
<1>12. b \in Surjection(ToPatch, Q)
  BY <1>8, <1>10 DEF Surjection
<1>13. ExistsBijection(ToPatch, Q)
  BY <1>11, <1>12 DEF ExistsBijection, Bijection
<1>14. Cardinality(Q) = Cardinality(ToPatch)
  BY <1>1, <1>13, ToPatchFinite, FS_Bijection
<1> QED
  BY <1>14 DEF Q

\* The statistics when a unit is begun.
LEMMA CountFresh ==
  ASSUME phase' = "pre", todo' = [n \in DOMAIN Unit' |-> n],
         PreStats' = [hook_count |-> 0, kinds |-> [h \in HookNames |-> 0]],
         PostStats' = [total_hooks |-> 0, kinds |-> [h \in HookNames |-> 0], modified_inst_count |-> 0]
  PROVE  CountInv'
<1>1. PreSeen' = {} /\ PostSeen' = {}
  BY DEF PreSeen, PostSeen, ToSet
<1>2. Counted(0, [h \in HookNames |-> 0], {})'
  BY CountedNone, PTL
<1>3. \A N : N = {} => Tagged(N, HookNames)' = {}
  BY DEF Tagged
<1>4. \A c, k, N : c = 0 /\ k = [h \in HookNames |-> 0] /\ N = {} => Counted(c, k, N)'
  BY <1>2
<1>5. \A c \in {PreStats'.hook_count}, k \in {PreStats'.kinds}, N \in {PreSeen'} : Counted(c, k, N)'
  BY <1>1, <1>4
<1>6. \A c \in {PostStats'.total_hooks}, k \in {PostStats'.kinds}, N \in {PostSeen'} : Counted(c, k, N)'
  BY <1>1, <1>4
<1> QED
  BY <1>1, <1>3, <1>5, <1>6 DEF CountInv

\* hookFunctions counts the hooks of one more function.
LEMMA CountHookFunctions ==
  ASSUME ReportInv, CountInv, hookFunctions
  PROVE  CountInv'
<1>0. Progress /\ Shape
  BY DEF ReportInv
<1> DEFINE n == Head(todo)
           f == Unit[n]
           N == PreSeen
<1>1. /\ phase = "pre" /\ todo # <<>> /\ todo' = Tail(todo)
      /\ PreStats' = [hook_count |-> PreStats.hook_count + Len(HooksOf(hookFunction(M[n]))),
                      kinds |-> [h \in HookNames |-> PreStats.kinds[h] +
                                   Len(Keep(InstrsOf(M[n]), {i \in Targets : getHookInst(i).fn = h}))]]
      /\ UNCHANGED <<source, env, opt, objects, phase, hookList, patchList, PostStats>>
  BY DEF hookFunctions, program, run
<1>2. todo \in Seq(DOMAIN Unit) /\ IsInjective(todo)
  BY <1>0, <1>1 DEF Progress
<1>3. n \in DOMAIN Unit /\ n \in ToSet(todo) /\ \A x : x \in ToSet(todo') <=> x \in ToSet(todo) /\ x # n
  BY <1>1, <1>2, TailFacts
<1>4. M[n] = f /\ SourceFunc(f)
  BY <1>0, <1>1, <1>3, UnitFacts DEF Shape, Stage
<1>5. Unit' = Unit /\ (\A R, H : Tagged(R, H)' = Tagged(R, H)) /\ \A c, k, R : Counted(c, k, R)' <=> Counted(c, k, R)
  BY <1>1, CountedStable
<1>6. N \subseteq DOMAIN Unit /\ n \notin N /\ PreSeen' = N \cup {n} /\ PostSeen = {} /\ PostSeen' = {}
  BY <1>1, <1>3, <1>5 DEF PreSeen, PostSeen
<1>7. HasHooks(hookFunction(f), f)
  BY <1>4, HooksMade
<1>8. /\ PreStats'.hook_count = PreStats.hook_count + Cardinality(TagsOf(f, HookNames))
      /\ PreStats'.kinds = [h \in HookNames |-> PreStats.kinds[h] + Cardinality(TagsOf(f, {h}))]
  <2>1. Len(HooksOf(hookFunction(f))) = Cardinality(TagsOf(f, HookNames))
    BY <1>4, <1>7, HookedCount
  <2>2. \A h : Len(Keep(InstrsOf(f), {i \in Targets : getHookInst(i).fn = h})) = Cardinality(TagsOf(f, {h}))
    BY <1>4, TargetCount
  <2>3. PreStats'.hook_count = PreStats.hook_count + Len(HooksOf(hookFunction(f)))
    BY <1>1, <1>4
  <2>4. PreStats'.kinds = [h \in HookNames |-> PreStats.kinds[h] +
                             Len(Keep(InstrsOf(f), {i \in Targets : getHookInst(i).fn = h}))]
    BY <1>1, <1>4
  <2> QED
    BY <2>1, <2>2, <2>3, <2>4
<1>9. Counted(PreStats.hook_count, PreStats.kinds, N)
  BY <1>1 DEF CountInv
<1> HIDE DEF n, f, N
<1>10. \A c, k : c = PreStats'.hook_count /\ k = PreStats'.kinds => Counted(c, k, N \cup {n})
  <2>1. phase # "linked"
    BY <1>1
  <2>2. Counted(PreStats.hook_count + Cardinality(TagsOf(f, HookNames)),
                [h \in HookNames |-> PreStats.kinds[h] + Cardinality(TagsOf(f, {h}))], N \cup {n})
    BY <1>0, <1>3, <1>6, <1>9, <2>1, CountedMore DEF f
  <2> QED
    BY <1>8, <2>2
<1>11. \A c \in {PreStats'.hook_count}, k \in {PreStats'.kinds}, R \in {PreSeen'} : Counted(c, k, R)'
  BY <1>5, <1>6, <1>10
<1>12. \A c \in {PostStats.total_hooks}, k \in {PostStats.kinds}, R \in {{}} : Counted(c, k, R)
  BY <1>1, <1>6 DEF CountInv
<1>13. \A c \in {PostStats'.total_hooks}, k \in {PostStats'.kinds}, R \in {PostSeen'} : Counted(c, k, R)'
  BY <1>1, <1>5, <1>6, <1>12
<1>14. \A R \in {PostSeen'} : Tagged(R, HookNames)' \subseteq hookList'
  BY <1>6 DEF Tagged
<1>15. DOMAIN PostStats' = {"total_hooks", "kinds", "modified_inst_count"} /\ PostStats'.modified_inst_count = 0
  BY <1>1 DEF CountInv
<1> QED
  BY <1>1, <1>11, <1>13, <1>14, <1>15 DEF CountInv

\* The counters stand still between the visits.
LEMMA CountStartPost ==
  ASSUME ReportInv, CountInv, StartPost
  PROVE  CountInv'
<1>0. Progress /\ Shape
  BY DEF ReportInv
<1>1. /\ phase = "pre" /\ todo = <<>> /\ phase' = "post" /\ ToSet(todo') = DOMAIN M
      /\ UNCHANGED <<source, env, opt, objects, hookList, patchList, PreStats, PostStats>>
  BY DEF StartPost, IsWorkList, program, run
<1>2. Unit' = Unit /\ (\A R, H : Tagged(R, H)' = Tagged(R, H)) /\ \A c, k, R : Counted(c, k, R)' <=> Counted(c, k, R)
  BY <1>1, CountedStable
<1>3. DOMAIN M = DOMAIN Unit
  BY <1>0, <1>1 DEF Shape
<1>4. PreSeen' = DOMAIN Unit /\ PreSeen = DOMAIN Unit /\ PostSeen = {} /\ PostSeen' = {}
  <2>1. ToSet(todo) = {}
    BY <1>1 DEF ToSet
  <2> QED
    BY <1>1, <1>2, <1>3, <2>1 DEF PreSeen, PostSeen
<1>5. \A c \in {PreStats'.hook_count}, k \in {PreStats'.kinds}, R \in {PreSeen'} : Counted(c, k, R)'
  BY <1>1, <1>2, <1>4 DEF CountInv
<1>6. \A c \in {PostStats'.total_hooks}, k \in {PostStats'.kinds}, R \in {PostSeen'} : Counted(c, k, R)'
  BY <1>1, <1>2, <1>4 DEF CountInv
<1>7. \A R \in {PostSeen'} : Tagged(R, HookNames)' \subseteq hookList'
  BY <1>4 DEF Tagged
<1>8. DOMAIN PostStats' = {"total_hooks", "kinds", "modified_inst_count"} /\ PostStats'.modified_inst_count = 0
  BY <1>1 DEF CountInv
<1> QED
  BY <1>1, <1>5, <1>6, <1>7, <1>8 DEF CountInv

\* assignLocalIDs counts the same hooks, and puts them on the list of those to remove.
LEMMA CountAssignLocalIDs ==
  ASSUME ReportInv, CountInv, assignLocalIDs
  PROVE  CountInv'
<1>0. Progress /\ Shape
  BY DEF ReportInv
<1> DEFINE n == Head(todo)
           f == Unit[n]
           g == setLocalIDs(M[n])
           N == PostSeen
<1>1. /\ phase = "post" /\ todo # <<>> /\ todo' = Tail(todo)
      /\ PostStats' = [total_hooks |-> PostStats.total_hooks + Len(HooksOf(g)),
                       kinds |-> [h \in HookNames |-> PostStats.kinds[h] +
                                    Len(Keep(HooksOf(g), {i \in Hooks : i.fn = h}))],
                       modified_inst_count |-> PostStats.modified_inst_count]
      /\ hookList' = IF RemoveHooks THEN hookList \cup ToRemove(g) ELSE hookList
      /\ UNCHANGED <<source, env, opt, objects, phase, PreStats>>
  BY DEF assignLocalIDs, program, run
<1>2. todo \in Seq(DOMAIN Unit) /\ IsInjective(todo)
  BY <1>0, <1>1 DEF Progress
<1>3. n \in DOMAIN Unit /\ n \in ToSet(todo) /\ \A x : x \in ToSet(todo') <=> x \in ToSet(todo) /\ x # n
  BY <1>1, <1>2, TailFacts
<1>4. SourceFunc(f)
  BY <1>0, <1>1, <1>3, UnitFacts
<1>5. M[n] = hookFunction(f)
  BY <1>0, <1>1, <1>3 DEF Shape, Stage
<1>6. g = Instrumented(f)
  BY <1>5 DEF Instrumented
<1>7. Unit' = Unit /\ (\A R, H : Tagged(R, H)' = Tagged(R, H)) /\ \A c, k, R : Counted(c, k, R)' <=> Counted(c, k, R)
  BY <1>1, CountedStable
<1>8. N \subseteq DOMAIN Unit /\ n \notin N /\ PostSeen' = N \cup {n} /\ PreSeen = DOMAIN Unit /\ PreSeen' = DOMAIN Unit
  BY <1>1, <1>3, <1>7 DEF PreSeen, PostSeen
<1>9. HasHooks(g, f)
  BY <1>4, <1>6, HooksMade
<1> HIDE DEF g
<1>10. /\ Len(HooksOf(g)) = Cardinality(TagsOf(f, HookNames))
       /\ \A h : Len(Keep(HooksOf(g), {i \in Hooks : i.fn = h})) = Cardinality(TagsOf(f, {h}))
       /\ TagsIn(HooksOf(g)) = TagsOf(f, HookNames)
  BY <1>4, <1>9, HookedCount
<1>11. /\ PostStats'.total_hooks = PostStats.total_hooks + Cardinality(TagsOf(f, HookNames))
       /\ PostStats'.kinds = [h \in HookNames |-> PostStats.kinds[h] + Cardinality(TagsOf(f, {h}))]
  <2>1. PostStats'.total_hooks = PostStats.total_hooks + Len(HooksOf(g))
    BY <1>1
  <2>2. PostStats'.kinds = [h \in HookNames |-> PostStats.kinds[h] +
                              Len(Keep(HooksOf(g), {i \in Hooks : i.fn = h}))]
    BY <1>1
  <2> QED
    BY <1>10, <2>1, <2>2
<1>12. Counted(PostStats.total_hooks, PostStats.kinds, N)
  BY <1>1 DEF CountInv
<1>13. RemoveHooks' <=> RemoveHooks
  BY <1>1 DEF RemoveHooks
<1>14. RemoveHooks => \A R \in {PostSeen'} : Tagged(R, HookNames)' \subseteq hookList'
  <2> SUFFICES ASSUME RemoveHooks, NEW R, R = PostSeen' PROVE Tagged(R, HookNames)' \subseteq hookList'
    OBVIOUS
  <2>1. Tagged(N, HookNames) \subseteq hookList
    BY <1>1 DEF CountInv
  <2>2. Tagged(N \cup {n}, HookNames) = Tagged(N, HookNames) \cup TagsOf(f, HookNames)
    BY <1>0, <1>1, <1>3, <1>8, TaggedMore
  <2>3. ToRemove(g) = TagsOf(f, HookNames)
    BY <1>10 DEF ToRemove, TagsIn
  <2>4. Tagged(R, HookNames)' = Tagged(R, HookNames)
    BY <1>7, Zenon
  <2> HIDE DEF n, f, N
  <2>5. R = N \cup {n} /\ hookList' = hookList \cup ToRemove(g)
    BY <1>1, <1>8
  <2> QED
    BY <2>1, <2>2, <2>3, <2>4, <2>5
<1> HIDE DEF n, f, N
<1>15. \A c, k : c = PostStats'.total_hooks /\ k = PostStats'.kinds => Counted(c, k, N \cup {n})
  <2>1. phase # "linked"
    BY <1>1
  <2>2. Counted(PostStats.total_hooks + Cardinality(TagsOf(f, HookNames)),
                [h \in HookNames |-> PostStats.kinds[h] + Cardinality(TagsOf(f, {h}))], N \cup {n})
    BY <1>0, <1>3, <1>8, <1>12, <2>1, CountedMore DEF f
  <2> QED
    BY <1>11, <2>2
<1>16. \A c \in {PostStats'.total_hooks}, k \in {PostStats'.kinds}, R \in {PostSeen'} : Counted(c, k, R)'
  BY <1>7, <1>8, <1>15
<1>17. \A c \in {PreStats'.hook_count}, k \in {PreStats'.kinds}, R \in {PreSeen'} : Counted(c, k, R)'
  BY <1>1, <1>7, <1>8 DEF CountInv
<1>18. PostStats.modified_inst_count = 0
  BY <1>1 DEF CountInv
<1>19. DOMAIN PostStats' = {"total_hooks", "kinds", "modified_inst_count"} /\ PostStats'.modified_inst_count = 0
  BY <1>1, <1>18
<1> QED
  BY <1>1, <1>13, <1>14, <1>16, <1>17, <1>19 DEF CountInv

\* patchInstructions counts the calls it redirects.
LEMMA CountPatchInstructions ==
  ASSUME ReportInv, PatchList, CountInv, patchInstructions
  PROVE  CountInv'
<1>0. Progress /\ Shape
  BY DEF ReportInv
<1>1. /\ phase = "post" /\ todo = <<>> /\ todo' = todo /\ phase' = "remove"
      /\ PostStats' = [PostStats EXCEPT !.modified_inst_count = @ + Cardinality({i \in InstrsIn(M) : Patchable(i)})]
      /\ UNCHANGED <<source, env, opt, objects, hookList, patchList, PreStats>>
  BY DEF patchInstructions, program, run
<1>2. Unit' = Unit /\ (\A R, H : Tagged(R, H)' = Tagged(R, H)) /\ \A c, k, R : Counted(c, k, R)' <=> Counted(c, k, R)
  BY <1>1, CountedStable
<1>3. PreSeen' = PreSeen /\ PostSeen' = PostSeen
  BY <1>1, <1>2 DEF PreSeen, PostSeen
<1>4. RemoveHooks' <=> RemoveHooks
  BY <1>1 DEF RemoveHooks
<1>5. /\ PostStats.modified_inst_count = 0
      /\ DOMAIN PostStats = {"total_hooks", "kinds", "modified_inst_count"}
  BY <1>1 DEF CountInv
<1>6. Cardinality({i \in InstrsIn(M) : Patchable(i)}) = Cardinality(ToPatch) /\ Cardinality(ToPatch) \in Nat
  BY <1>0, <1>1, PatchFinds, ToPatchFinite
<1>7. ToPatch' = ToPatch
  BY <1>1, ToPatchStable
<1>8. /\ DOMAIN PostStats' = {"total_hooks", "kinds", "modified_inst_count"}
      /\ PostStats'.total_hooks = PostStats.total_hooks /\ PostStats'.kinds = PostStats.kinds
  BY <1>1, <1>5
<1>9. PostStats'.modified_inst_count = Cardinality(ToPatch)
  <2>1. PostStats'.modified_inst_count = 0 + Cardinality({i \in InstrsIn(M) : Patchable(i)})
    BY <1>1, <1>5
  <2> QED
    BY <1>6, <2>1
<1>10. \A c \in {PreStats'.hook_count}, k \in {PreStats'.kinds}, R \in {PreSeen'} : Counted(c, k, R)'
  BY <1>1, <1>2, <1>3 DEF CountInv
<1>11. \A c \in {PostStats'.total_hooks}, k \in {PostStats'.kinds}, R \in {PostSeen'} : Counted(c, k, R)'
  BY <1>1, <1>2, <1>3, <1>8 DEF CountInv
<1>12. RemoveHooks => \A R \in {PostSeen'} : Tagged(R, HookNames)' \subseteq hookList'
  BY <1>1, <1>2, <1>3 DEF CountInv
<1> QED
  BY <1>1, <1>4, <1>7, <1>8, <1>9, <1>10, <1>11, <1>12 DEF CountInv

\* removeHooks finds no hook that is not on the list.
LEMMA CountRemoveHooks ==
  ASSUME ReportInv, CountInv, removeHooks
  PROVE  CountInv'
<1>0. Progress /\ Shape
  BY DEF ReportInv
<1> DEFINE left == removeFunctionUsers(M)
<1>1. /\ phase = "remove" /\ phase' = "compiled" /\ todo' = todo
      /\ IF RemoveHooks
           THEN PostStats' = [total_hooks |-> PostStats.total_hooks + Cardinality(left),
                              kinds |-> [h \in HookNames |-> PostStats.kinds[h] +
                                           Cardinality({i \in left : i.fn = h})],
                              modified_inst_count |-> PostStats.modified_inst_count]
           ELSE PostStats' = PostStats
      /\ UNCHANGED <<source, env, opt, objects, hookList, patchList, PreStats>>
  BY DEF removeHooks, program, run
<1>2. Unit' = Unit /\ (\A R, H : Tagged(R, H)' = Tagged(R, H)) /\ \A c, k, R : Counted(c, k, R)' <=> Counted(c, k, R)
  BY <1>1, CountedStable
<1>3. PreSeen' = PreSeen /\ PostSeen' = PostSeen /\ PostSeen = DOMAIN Unit
  <2>1. todo = <<>>
    BY <1>0, <1>1 DEF Progress
  <2>2. ToSet(todo) = {}
    BY <2>1 DEF ToSet
  <2> QED
    BY <1>1, <1>2, <2>2 DEF PreSeen, PostSeen
<1>4. RemoveHooks' <=> RemoveHooks
  BY <1>1 DEF RemoveHooks
<1>5. RemoveHooks => left = {}
  <2> SUFFICES ASSUME RemoveHooks, NEW h \in HooksIn(M) PROVE h.tag \in hookList
    BY DEF removeFunctionUsers
  <2>1. PICK n \in DOMAIN M : h \in ToSet(InstrsOf(M[n])) /\ h \in Hooks
    BY DEF HooksIn, InstrsIn
  <2>2. n \in DOMAIN Unit /\ M[n] = Patched(Unit[n])
    BY <1>0, <1>1, <2>1 DEF Shape, Stage
  <2>3. SourceFunc(Unit[n])
    BY <1>0, <1>1, <2>2, UnitFacts
  <2>4. Instrumented(Unit[n]) \in Funcs /\ HasHooks(Instrumented(Unit[n]), Unit[n])
    BY <2>3, SiteFacts, HooksMade
  <2>5. InstrsOf(M[n]) = Mapped(InstrsOf(Instrumented(Unit[n])), PatchOf)
    BY <2>2, <2>4, PatchedFacts DEF Patched
  <2>6. PICK x \in ToSet(InstrsOf(Instrumented(Unit[n]))) : h = PatchOf[x]
    BY <2>1, <2>5, MappedRange
  <2>7. x \in Instrs
    <3>1. InstrsOf(Instrumented(Unit[n])) \in Seq(Instrs)
      BY <2>4, InstrsOfFacts
    <3> QED
      BY <3>1 DEF ToSet
  <2>8. h = x
    BY <2>1, <2>6, <2>7, PatchFacts
  <2>9. h \in ToSet(HooksOf(Instrumented(Unit[n])))
    BY <2>1, <2>4, <2>6, <2>8, HooksOfFacts, InstrsOfFacts
  <2>10. h.tag \in TagsOf(Unit[n], HookNames)
    <3>1. TagsIn(HooksOf(Instrumented(Unit[n]))) = TagsOf(Unit[n], HookNames)
      BY <2>3, <2>4, HookedCount
    <3> QED
      BY <2>9, <3>1 DEF TagsIn
  <2>11. h.tag \in Tagged(DOMAIN Unit, HookNames)
    BY <2>2, <2>10 DEF Tagged, TagsOf
  <2>12. Tagged(DOMAIN Unit, HookNames) \subseteq hookList
    BY <1>1, <1>3 DEF CountInv
  <2> QED
    BY <2>11, <2>12
<1>6. /\ Counted(PostStats.total_hooks, PostStats.kinds, PostSeen)
      /\ DOMAIN PostStats = {"total_hooks", "kinds", "modified_inst_count"}
      /\ PostStats.modified_inst_count = Cardinality(ToPatch)
  BY <1>1 DEF CountInv
<1>7. PostStats.total_hooks \in Nat /\ PostStats.kinds = [h \in HookNames |-> PostStats.kinds[h]]
      /\ \A h \in HookNames : PostStats.kinds[h] \in Nat
  <2>1. \A H : Cardinality(Tagged(PostSeen, H)) \in Nat
    BY <1>6, FS_CardinalityType DEF Counted
  <2> QED
    BY <1>6, <2>1 DEF Counted
<1> HIDE DEF left
<1>8. /\ DOMAIN PostStats' = {"total_hooks", "kinds", "modified_inst_count"}
      /\ PostStats'.total_hooks = PostStats.total_hooks /\ PostStats'.kinds = PostStats.kinds
      /\ PostStats'.modified_inst_count = PostStats.modified_inst_count
  <2>1. CASE RemoveHooks
    <3>1. Cardinality(left) = 0 /\ \A h : Cardinality({i \in left : i.fn = h}) = 0
      <4>1. \A h : {i \in left : i.fn = h} = {}
        BY <1>5, <2>1
      <4> QED
        BY <1>5, <2>1, <4>1, FS_EmptySet, Zenon
    <3>2. PostStats' = [total_hooks |-> PostStats.total_hooks + Cardinality(left),
                        kinds |-> [h \in HookNames |-> PostStats.kinds[h] + Cardinality({i \in left : i.fn = h})],
                        modified_inst_count |-> PostStats.modified_inst_count]
      BY <1>1, <2>1
    <3>3. PostStats'.total_hooks = PostStats.total_hooks
      BY <1>7, <3>1, <3>2
    <3>4. [h \in HookNames |-> PostStats.kinds[h] + Cardinality({i \in left : i.fn = h})] = [h \in HookNames |-> PostStats.kinds[h]]
      BY <1>7, <3>1
    <3> QED
      BY <1>7, <3>2, <3>3, <3>4
  <2>2. CASE ~RemoveHooks
    BY <1>1, <1>6, <2>2
  <2> QED
    BY <2>1, <2>2
<1>9. ToPatch' = ToPatch
  BY <1>1, ToPatchStable
<1>10. \A c \in {PreStats'.hook_count}, k \in {PreStats'.kinds}, R \in {PreSeen'} : Counted(c, k, R)'
  BY <1>1, <1>2, <1>3 DEF CountInv
<1>11. \A c \in {PostStats'.total_hooks}, k \in {PostStats'.kinds}, R \in {PostSeen'} : Counted(c, k, R)'
  BY <1>2, <1>3, <1>6, <1>8
<1>12. RemoveHooks => \A R \in {PostSeen'} : Tagged(R, HookNames)' \subseteq hookList'
  BY <1>1, <1>2, <1>3 DEF CountInv
<1> QED
  BY <1>1, <1>4, <1>6, <1>8, <1>9, <1>10, <1>11, <1>12 DEF CountInv

\* The statistics are right when the cycle begins,
LEMMA CountInvInit == Init => CountInv
<1> SUFFICES ASSUME Init PROVE CountInv
  OBVIOUS
<1>1. /\ phase = "pre" /\ todo = [n \in DOMAIN Unit |-> n]
      /\ PreStats = [hook_count |-> 0, kinds |-> [h \in HookNames |-> 0]]
      /\ PostStats = [total_hooks |-> 0, kinds |-> [h \in HookNames |-> 0], modified_inst_count |-> 0]
  BY DEF Init, Unit
<1>2. PreSeen = {} /\ PostSeen = {}
  BY <1>1 DEF PreSeen, PostSeen, ToSet
<1>3. Tagged({}, HookNames) = {}
  BY DEF Tagged
<1>4. \A c, k, N : c = 0 /\ k = [h \in HookNames |-> 0] /\ N = {} => Counted(c, k, N)
  BY CountedNone
<1>5. \A c \in {PreStats.hook_count}, k \in {PreStats.kinds}, N \in {PreSeen} : Counted(c, k, N)
  BY <1>1, <1>2, <1>4
<1>6. \A c \in {PostStats.total_hooks}, k \in {PostStats.kinds}, N \in {PostSeen} : Counted(c, k, N)
  BY <1>1, <1>2, <1>4
<1> QED
  BY <1>1, <1>2, <1>3, <1>5, <1>6 DEF CountInv

\* and every step of the cycle keeps them so.
LEMMA CountInvNext == ReportInv /\ PatchList /\ CountInv /\ [Next]_vars => CountInv'
<1> SUFFICES ASSUME ReportInv, PatchList, CountInv, [Next]_vars PROVE CountInv'
  OBVIOUS
<1>1. CASE UNCHANGED vars
  <2>1. UNCHANGED <<source, env, opt, objects, phase, todo, hookList, patchList, PreStats, PostStats>>
    BY <1>1 DEF vars, program, run
  <2>2. Unit' = Unit /\ (\A R, H : Tagged(R, H)' = Tagged(R, H)) /\ \A c, k, R : Counted(c, k, R)' <=> Counted(c, k, R)
    BY <2>1, CountedStable
  <2>3. PreSeen' = PreSeen /\ PostSeen' = PostSeen
    BY <2>1, <2>2 DEF PreSeen, PostSeen
  <2>4. RemoveHooks' <=> RemoveHooks
    BY <2>1 DEF RemoveHooks
  <2>5. ToPatch' = ToPatch
    BY <2>1, ToPatchStable
  <2> QED
    BY <2>1, <2>2, <2>3, <2>4, <2>5 DEF CountInv
<1>2. ASSUME NEW U, U = Unit', Fresh(U) PROVE CountInv'
  <2>1. /\ phase' = "pre" /\ todo' = [n \in DOMAIN Unit' |-> n]
        /\ PreStats' = [hook_count |-> 0, kinds |-> [h \in HookNames |-> 0]]
        /\ PostStats' = [total_hooks |-> 0, kinds |-> [h \in HookNames |-> 0], modified_inst_count |-> 0]
    BY <1>2 DEF Fresh
  <2> QED
    BY <2>1, CountFresh
<1>3. CASE NextUnit
  <2>1. objects' = Append(objects, M) /\ Fresh(source[Len(objects) + 2]) /\ source' = source
    BY <1>3 DEF NextUnit, program
  <2>2. objects \in Seq(Seq(Funcs)) /\ M \in Seq(Funcs) /\ Len(objects) \in Nat
    BY DEF ReportInv, Progress
  <2>3. Len(objects') = Len(objects) + 1
    BY <2>1, <2>2, AppendProperties
  <2>4. Len(objects') + 1 = Len(objects) + 2
    BY <2>2, <2>3
  <2>5. Unit' = source[Len(objects) + 2]
    BY <2>1, <2>4 DEF Unit
  <2> QED
    BY <1>2, <2>1, <2>5
<1>4. CASE Link
  BY <1>4 DEF Link, CountInv
<1>5. ASSUME NEW F, NEW o, Execute(F, o) PROVE CountInv'
  <2>1. objects' = <<>> /\ Fresh(source[1]) /\ source' = source
    BY <1>5 DEF Execute, program
  <2>2. Unit' = source[1]
    BY <2>1 DEF Unit
  <2> QED
    BY <1>2, <2>1, <2>2
<1> QED
  BY <1>1, <1>3, <1>4, <1>5, CountHookFunctions, CountStartPost, CountAssignLocalIDs, CountPatchInstructions,
     CountRemoveHooks DEF Next

\* When a unit is compiled both passes have visited all of it.
LEMMA StatisticsAgree == ReportInv /\ PatchList /\ CountInv => CountsAgree
<1> SUFFICES ASSUME ReportInv, PatchList, CountInv, phase = "compiled"
             PROVE  /\ PostStats.total_hooks = PreStats.hook_count
                    /\ PostStats.kinds = PreStats.kinds
                    /\ PreStats.hook_count =
                         PreStats.kinds[allocHook] + PreStats.kinds[reallocHook] + PreStats.kinds[deallocHook]
                    /\ PostStats.modified_inst_count =
                         Cardinality((InstrsIn(M) \cap Calls) \ InstrsIn(source[Len(objects) + 1]))
  BY DEF CountsAgree
<1> DEFINE N == DOMAIN Unit
<1>1. Progress
  BY DEF ReportInv
<1>2. todo = <<>>
  BY <1>1 DEF Progress
<1>3. ToSet(todo) = {}
  BY <1>2 DEF ToSet
<1>4. PreSeen = N /\ PostSeen = N
  BY <1>3 DEF PreSeen, PostSeen
<1>5. Counted(PreStats.hook_count, PreStats.kinds, N) /\ Counted(PostStats.total_hooks, PostStats.kinds, N)
  BY <1>4 DEF CountInv
<1>6. PostStats.modified_inst_count = Cardinality(ToPatch)
  BY DEF CountInv
<1> HIDE DEF N
<1>7. PostStats.total_hooks = PreStats.hook_count /\ PostStats.kinds = PreStats.kinds
  BY <1>5 DEF Counted
<1>8. PreStats.hook_count = PreStats.kinds[allocHook] + PreStats.kinds[reallocHook] + PreStats.kinds[deallocHook]
  <2>1. Cardinality(Tagged(N, HookNames)) =
           Cardinality(Tagged(N, {allocHook})) + Cardinality(Tagged(N, {reallocHook}))
             + Cardinality(Tagged(N, {deallocHook}))
    BY <1>1, <1>5, KindsAddUp DEF Counted, N
  <2>2. \A h \in HookNames : PreStats.kinds[h] = Cardinality(Tagged(N, {h}))
    BY <1>5 DEF Counted
  <2>3. allocHook \in HookNames /\ reallocHook \in HookNames /\ deallocHook \in HookNames
    BY DEF HookNames
  <2>4. PreStats.hook_count = Cardinality(Tagged(N, HookNames))
    BY <1>5 DEF Counted
  <2> QED
    BY <2>1, <2>2, <2>3, <2>4
<1>9. PostStats.modified_inst_count = Cardinality((InstrsIn(M) \cap Calls) \ InstrsIn(source[Len(objects) + 1]))
  BY <1>6, PatchesDiffer DEF Unit
<1> QED
  BY <1>7, <1>8, <1>9

\* Post numbers as many hooks as Pre has made, in all and of each kind, and counts
\* the calls that it redirects.
THEOREM StatisticsAreRight == Spec => []CountsAgree
<1>1. Spec => []PatchList
  BY PatchListInit, PatchListNext, CycleInvariant, PTL DEF Spec
<1>2. Spec => []CountInv
  BY <1>1, CountInvInit, CountInvNext, CycleInvariant, PTL DEF Spec
<1> QED
  BY <1>1, <1>2, StatisticsAgree, CycleInvariant, PTL
=============================================================================
