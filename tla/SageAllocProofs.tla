--------------------------- MODULE SageAllocProofs ---------------------------
(***************************************************************************)
(* The kernel heap is sound for every arena size and every set of request   *)
(* sizes that do not wrap size_t: SageAlloc's invariants, proved with one    *)
(* inductive invariant, HeapInv.                                            *)
(***************************************************************************)
EXTENDS SageAlloc, TLAPS

Aligned(n) == n % ALIGNMENT = 0

\* Sums and differences of aligned sizes are aligned.
LEMMA AlignedSum ==
    ASSUME NEW a \in Nat, NEW b \in Nat, Aligned(a), Aligned(b)
    PROVE  Aligned(a + b) /\ Aligned(a - b)
BY DEF Aligned, ALIGNMENT

\* ALIGN rounds a size that does not wrap up to a multiple of ALIGNMENT.
LEMMA AlignUp ==
    ASSUME NEW n \in Nat, n + 15 < SIZE_MOD
    PROVE  /\ ALIGN(n) \in Nat
           /\ Aligned(ALIGN(n))
           /\ n =< ALIGN(n)
           /\ Aligned(n) => ALIGN(n) = n
BY SizesAssumption DEF ALIGN, Wrap, Aligned, ALIGNMENT

\* A block for a request has room for the header and for the request.
LEMMA NeededBounds ==
    ASSUME NEW size \in Sizes, size # 0
    PROVE  /\ Needed(size) \in Nat
           /\ Aligned(Needed(size))
           /\ size + 16 =< Needed(size)
<1>1. size \in Nat /\ size + 31 < SIZE_MOD
  BY SizesAssumption
<1>2. Wrap(size + ALLOC_HEADER_SIZE) = size + 16
  BY <1>1, SizesAssumption DEF Wrap, ALLOC_HEADER_SIZE
<1>. QED BY <1>1, <1>2, AlignUp DEF Needed

\* The fields of a block of the free list.
LEMMA BlockFields ==
    ASSUME NEW x \in FreeBlock
    PROVE  x.addr \in Nat /\ x.size \in Nat
BY DEF FreeBlock

\* RemoveAt, element by element.
LEMMA RemoveAtElements ==
    ASSUME NEW f \in Seq(FreeBlock), NEW i \in 1 .. Len(f)
    PROVE  /\ RemoveAt(f, i) \in Seq(FreeBlock)
           /\ Len(RemoveAt(f, i)) = Len(f) - 1
           /\ \A j \in 1 .. Len(f) - 1 :
                 RemoveAt(f, i)[j] = IF j < i THEN f[j] ELSE f[j + 1]
BY DEF RemoveAt

------------------------------------------------------------------------------
(* The inductive invariant, in terms of a free list f, a bump pointer bp and *)
(* a set lv of held blocks, so that it can be stated of the heap between the  *)
(* two halves of sage_realloc.                                              *)

End(x) == x.addr + x.size

\* The blocks of the list are aligned, not empty, below bp and in order.
ListOK(f, bp) ==
    /\ f \in Seq(FreeBlock)
    /\ \A i \in 1 .. Len(f) : /\ Aligned(f[i].addr)
                             /\ Aligned(f[i].size)
                             /\ f[i].size > 0
                             /\ End(f[i]) =< bp
    /\ \A i, j \in 1 .. Len(f) : i < j => End(f[i]) =< f[j].addr

\* Only the blocks at the indices in T touch a later block.
Touching(f, T) ==
    \A i, j \in 1 .. Len(f) : i < j /\ End(f[i]) = f[j].addr => i \in T

LiveOK(lv, bp) ==
    /\ \A b \in lv : /\ b \in LiveBlock
                     /\ Aligned(b.addr)
                     /\ Aligned(b.user)
                     /\ b.want =< b.user
                     /\ LiveEnd(b) =< bp
    /\ \A b, c \in lv : b # c => LiveEnd(b) =< c.addr \/ LiveEnd(c) =< b.addr

Apart(f, lv) ==
    \A b \in lv, i \in 1 .. Len(f) : LiveEnd(b) =< f[i].addr \/ End(f[i]) =< b.addr

InList(f, u) == \E i \in 1 .. Len(f) : f[i].addr =< u /\ u < End(f[i])
InLive(lv, u) == \E b \in lv : b.addr =< u /\ u < LiveEnd(b)

Covered(f, lv, bp) ==
    \A u \in Nat : u < bp /\ Aligned(u) => InLive(lv, u) \/ InList(f, u)

HeapInv(f, bp, lv) ==
    /\ bp \in 0 .. SAGE_ARENA_SIZE
    /\ Aligned(bp)
    /\ ListOK(f, bp)
    /\ Touching(f, {})
    /\ LiveOK(lv, bp)
    /\ Apart(f, lv)
    /\ Covered(f, lv, bp)

------------------------------------------------------------------------------
(* Coalescing                                                               *)

\* Absorb, element by element, when the two blocks touch.
LEMMA AbsorbElements ==
    ASSUME NEW f \in Seq(FreeBlock), NEW i \in 1 .. Len(f) - 1,
           End(f[i]) = f[i + 1].addr
    PROVE  /\ Absorb(f, i) \in Seq(FreeBlock)
           /\ Len(Absorb(f, i)) = Len(f) - 1
           /\ \A j \in 1 .. Len(f) - 1 :
                 Absorb(f, i)[j] =
                    IF j < i THEN f[j]
                    ELSE IF j = i THEN [addr |-> f[i].addr, size |-> f[i].size + f[i + 1].size]
                    ELSE f[j + 1]
<1>. DEFINE m == [addr |-> f[i].addr, size |-> f[i].size + f[i + 1].size]
            g == [f EXCEPT ![i] = m]
<1>0. Len(f) \in Nat /\ f \in [1 .. Len(f) -> FreeBlock]
  OBVIOUS
<1>1. m \in FreeBlock
  <2>0. i \in 1 .. Len(f) /\ i + 1 \in 1 .. Len(f)
    BY <1>0
  <2>1. f[i] \in FreeBlock /\ f[i + 1] \in FreeBlock
    BY <1>0, <2>0
  <2>2. f[i].addr \in Nat /\ f[i].size \in Nat /\ f[i + 1].size \in Nat
    BY <2>1, BlockFields
  <2>3. f[i].size + f[i + 1].size \in Nat
    BY <2>2, SMTT(30)
  <2>. QED BY <2>2, <2>3 DEF FreeBlock
<1>. HIDE DEF m
<1>2. /\ g \in Seq(FreeBlock)
      /\ Len(g) = Len(f)
      /\ \A j \in 1 .. Len(f) : g[j] = IF j = i THEN m ELSE f[j]
  BY <1>0, <1>1
<1>. HIDE DEF g
<1>3. i + 1 \in 1 .. Len(g)
  BY <1>0, <1>2
<1>4. /\ RemoveAt(g, i + 1) \in Seq(FreeBlock)
      /\ Len(RemoveAt(g, i + 1)) = Len(g) - 1
      /\ \A j \in 1 .. Len(g) - 1 :
            RemoveAt(g, i + 1)[j] = IF j < i + 1 THEN g[j] ELSE g[j + 1]
  BY <1>2, <1>3, RemoveAtElements
<1>5. Absorb(f, i) = RemoveAt(g, i + 1)
  BY DEF Absorb, End, g, m
<1>6. ASSUME NEW j \in 1 .. Len(f) - 1
      PROVE  RemoveAt(g, i + 1)[j] = IF j < i THEN f[j] ELSE IF j = i THEN m ELSE f[j + 1]
  <2>0. RemoveAt(g, i + 1)[j] = IF j < i + 1 THEN g[j] ELSE g[j + 1]
    BY <1>2, <1>4
  <2>1. j \in 1 .. Len(f) /\ j + 1 \in 1 .. Len(f)
    BY <1>0
  <2>2. CASE j < i + 1
    <3>1. g[j] = IF j = i THEN m ELSE f[j]
      BY <1>2, <2>1
    <3>. QED BY <1>0, <2>0, <2>2, <3>1
  <2>3. CASE ~(j < i + 1)
    <3>1. g[j + 1] = f[j + 1] /\ ~(j < i) /\ j # i
      BY <1>0, <1>2, <2>1, <2>3
    <3>. QED BY <2>0, <2>3, <3>1
  <2>. QED BY <2>2, <2>3
<1>. QED BY <1>2, <1>4, <1>5, <1>6 DEF m

\* The elements of a list that is in order.
LEMMA ListFacts ==
    ASSUME NEW f, NEW bp, ListOK(f, bp)
    PROVE  /\ f \in Seq(FreeBlock)
           /\ Len(f) \in Nat
           /\ \A j \in 1 .. Len(f) : /\ f[j] \in FreeBlock
                                     /\ f[j].addr \in Nat
                                     /\ f[j].size \in Nat
                                     /\ End(f[j]) \in Nat
                                     /\ End(f[j]) = f[j].addr + f[j].size
                                     /\ f[j].addr < End(f[j])
<1>1. f \in Seq(FreeBlock)
  BY DEF ListOK
<1>2. Len(f) \in Nat /\ f \in [1 .. Len(f) -> FreeBlock]
  BY <1>1
<1>3. ASSUME NEW j \in 1 .. Len(f)
      PROVE  /\ f[j] \in FreeBlock
             /\ f[j].addr \in Nat
             /\ f[j].size \in Nat
             /\ End(f[j]) \in Nat
             /\ End(f[j]) = f[j].addr + f[j].size
             /\ f[j].addr < End(f[j])
  <2>1. f[j] \in FreeBlock
    BY <1>2
  <2>2. f[j].addr \in Nat /\ f[j].size \in Nat
    BY <2>1 DEF FreeBlock
  <2>3. f[j].size > 0
    BY DEF ListOK
  <2>. QED BY <2>1, <2>2, <2>3 DEF End
<1>. QED BY <1>1, <1>2, <1>3

\* A block in use is not empty.
LEMMA LiveFacts ==
    ASSUME NEW lv, NEW bp, LiveOK(lv, bp), NEW b \in lv
    PROVE  /\ b \in LiveBlock
           /\ b.addr \in Nat
           /\ b.user \in Nat
           /\ LiveEnd(b) \in Nat
           /\ LiveEnd(b) = b.addr + b.user + 16
           /\ b.addr < LiveEnd(b)
<1>1. b \in LiveBlock
  BY DEF LiveOK
<1>2. b.addr \in Nat /\ b.user \in Nat
  BY <1>1 DEF LiveBlock
<1>. QED BY <1>1, <1>2 DEF LiveEnd, ALLOC_HEADER_SIZE

\* The ends of the blocks when block i has absorbed its successor.
LEMMA AbsorbEnds ==
    ASSUME NEW bp, NEW f, ListOK(f, bp), NEW i \in 1 .. Len(f) - 1,
           End(f[i]) = f[i + 1].addr
    PROVE  /\ Absorb(f, i) \in Seq(FreeBlock)
           /\ Len(Absorb(f, i)) = Len(f) - 1
           /\ \A j \in 1 .. Len(f) - 1 :
                 /\ j < i => Absorb(f, i)[j] = f[j]
                 /\ j > i => Absorb(f, i)[j] = f[j + 1]
           /\ Absorb(f, i)[i].addr = f[i].addr
           /\ Absorb(f, i)[i].size = f[i].size + f[i + 1].size
           /\ End(Absorb(f, i)[i]) = End(f[i + 1])
<1>. DEFINE h == Absorb(f, i)
<1>1. Len(f) \in Nat /\ i \in 1 .. Len(f) /\ i + 1 \in 1 .. Len(f)
  BY ListFacts
<1>2. /\ f[i].addr \in Nat /\ f[i].size \in Nat /\ End(f[i]) = f[i].addr + f[i].size
      /\ f[i + 1].addr \in Nat /\ f[i + 1].size \in Nat
      /\ End(f[i + 1]) = f[i + 1].addr + f[i + 1].size
  BY <1>1, ListFacts
<1>3. /\ h \in Seq(FreeBlock)
      /\ Len(h) = Len(f) - 1
      /\ \A j \in 1 .. Len(f) - 1 :
            h[j] = IF j < i THEN f[j]
                   ELSE IF j = i THEN [addr |-> f[i].addr, size |-> f[i].size + f[i + 1].size]
                   ELSE f[j + 1]
  BY AbsorbElements, ListFacts
<1>. HIDE DEF h
<1>4. h[i] = [addr |-> f[i].addr, size |-> f[i].size + f[i + 1].size]
  BY <1>1, <1>3
<1>5. h[i].addr = f[i].addr /\ h[i].size = f[i].size + f[i + 1].size
  BY <1>4
<1>6. End(h[i]) = End(f[i + 1])
  BY <1>2, <1>5 DEF End
<1>7. ASSUME NEW j \in 1 .. Len(f) - 1
      PROVE  /\ j < i => h[j] = f[j]
             /\ j > i => h[j] = f[j + 1]
  BY <1>1, <1>3
<1>. QED BY <1>3, <1>5, <1>6, <1>7 DEF h

\* Merging two blocks of a list that is in order keeps the list in order,
\* apart from the blocks in use, and covering what it covered.
LEMMA AbsorbKeeps ==
    ASSUME NEW bp \in Nat, NEW lv, NEW f, NEW i \in Nat,
           ListOK(f, bp), LiveOK(lv, bp), Apart(f, lv)
    PROVE  /\ ListOK(Absorb(f, i), bp)
           /\ Apart(Absorb(f, i), lv)
           /\ \A u \in Nat : InList(f, u) => InList(Absorb(f, i), u)
<1>. DEFINE h == Absorb(f, i)
<1>0. /\ Len(f) \in Nat
      /\ \A j \in 1 .. Len(f) : /\ f[j].addr \in Nat
                                /\ f[j].size \in Nat
                                /\ End(f[j]) \in Nat
                                /\ f[j].addr < End(f[j])
  BY ListFacts
<1>1. CASE ~(i \in 1 .. Len(f) - 1 /\ End(f[i]) = f[i + 1].addr)
  BY <1>1 DEF Absorb, End
<1>2. CASE i \in 1 .. Len(f) - 1 /\ End(f[i]) = f[i + 1].addr
  <2>0. i \in 1 .. Len(f) /\ i + 1 \in 1 .. Len(f)
    BY <1>0, <1>2
  <2>1. /\ h \in Seq(FreeBlock)
        /\ Len(h) = Len(f) - 1
        /\ \A j \in 1 .. Len(f) - 1 : (j < i => h[j] = f[j]) /\ (j > i => h[j] = f[j + 1])
        /\ h[i].addr = f[i].addr
        /\ h[i].size = f[i].size + f[i + 1].size
        /\ End(h[i]) = End(f[i + 1])
    BY <1>2, AbsorbEnds
  <2>. HIDE DEF h
  <2>3. ASSUME NEW j \in 1 .. Len(f) - 1
        PROVE  /\ Aligned(h[j].addr)
               /\ Aligned(h[j].size)
               /\ h[j].size > 0
               /\ End(h[j]) =< bp
    <3>0. j \in 1 .. Len(f) /\ j + 1 \in 1 .. Len(f)
      BY <1>0
    <3>1. CASE j < i
      BY <2>1, <3>0, <3>1 DEF ListOK
    <3>2. CASE j = i
      <4>1. /\ Aligned(f[i].addr) /\ Aligned(f[i].size) /\ f[i].size > 0
            /\ Aligned(f[i + 1].size) /\ f[i + 1].size > 0 /\ End(f[i + 1]) =< bp
        BY <2>0 DEF ListOK
      <4>2. Aligned(f[i].size + f[i + 1].size) /\ f[i].size + f[i + 1].size > 0
        <5>1. f[i].size \in Nat /\ f[i + 1].size \in Nat
          BY <1>0, <2>0
        <5>2. Aligned(f[i].size + f[i + 1].size)
          BY <4>1, <5>1, AlignedSum
        <5>3. f[i].size + f[i + 1].size > 0
          BY <4>1, <5>1
        <5>. QED BY <5>2, <5>3
      <4>. QED BY <2>1, <3>2, <4>1, <4>2
    <3>3. CASE j > i
      BY <2>1, <3>0, <3>3 DEF ListOK
    <3>. QED BY <1>0, <1>2, <3>1, <3>2, <3>3
  <2>4. ASSUME NEW j \in 1 .. Len(f) - 1, NEW k \in 1 .. Len(f) - 1, j < k
        PROVE  End(h[j]) =< h[k].addr
    <3>1. j \in 1 .. Len(f) /\ j + 1 \in 1 .. Len(f) /\ k \in 1 .. Len(f) /\ k + 1 \in 1 .. Len(f)
      BY <1>0
    <3>2. \A a, b \in 1 .. Len(f) : a < b => End(f[a]) =< f[b].addr
      BY DEF ListOK
    <3>3. CASE k < i
      <4>1. h[j] = f[j] /\ h[k] = f[k]
        <5>1. j < i
          BY <1>0, <1>2, <2>4, <3>3
        <5>. QED BY <2>1, <3>3, <5>1
      <4>. QED BY <2>4, <3>1, <3>2, <4>1
    <3>4. CASE k = i
      <4>1. h[j] = f[j] /\ End(f[j]) =< f[i].addr
        BY <1>0, <1>2, <2>0, <2>1, <2>4, <3>1, <3>2, <3>4
      <4>. QED BY <2>1, <3>4, <4>1
    <3>5. CASE k > i
      <4>0. h[k] = f[k + 1]
        BY <2>1, <3>5
      <4>1. CASE j < i
        BY <1>0, <1>2, <2>1, <2>4, <3>1, <3>2, <4>0, <4>1
      <4>2. CASE j = i
        <5>1. End(f[i + 1]) =< f[k + 1].addr
          BY <1>0, <2>0, <3>1, <3>2, <3>5
        <5>. QED BY <2>1, <4>0, <4>2, <5>1
      <4>3. CASE j > i
        <5>1. h[j] = f[j + 1]
          BY <2>1, <4>3
        <5>2. j + 1 < k + 1
          BY <1>0, <2>4
        <5>3. End(f[j + 1]) =< f[k + 1].addr
          BY <3>1, <3>2, <5>2
        <5>. QED BY <4>0, <5>1, <5>3
      <4>. QED BY <1>0, <1>2, <4>1, <4>2, <4>3
    <3>. QED BY <1>0, <1>2, <3>3, <3>4, <3>5
  <2>5. ListOK(h, bp)
    BY <2>1, <2>3, <2>4 DEF ListOK
  <2>6. Apart(h, lv)
    <3>. SUFFICES ASSUME NEW b \in lv, NEW j \in 1 .. Len(f) - 1
                  PROVE  LiveEnd(b) =< h[j].addr \/ End(h[j]) =< b.addr
      BY <2>1 DEF Apart
    <3>1. b.addr \in Nat /\ LiveEnd(b) \in Nat /\ b.addr < LiveEnd(b)
      BY LiveFacts
    <3>2. j \in 1 .. Len(f) /\ j + 1 \in 1 .. Len(f)
      BY <1>0
    <3>3. /\ LiveEnd(b) =< f[j].addr \/ End(f[j]) =< b.addr
          /\ LiveEnd(b) =< f[j + 1].addr \/ End(f[j + 1]) =< b.addr
      BY <3>2 DEF Apart
    <3>4. CASE j = i
      <4>1. /\ f[i].addr \in Nat /\ f[i + 1].addr \in Nat /\ End(f[i]) \in Nat
            /\ End(f[i + 1]) \in Nat /\ End(f[i]) = f[i + 1].addr
        BY <1>0, <1>2, <2>0
      <4>2. LiveEnd(b) =< f[i].addr \/ End(f[i + 1]) =< b.addr
        BY <3>1, <3>3, <3>4, <4>1
      <4>. QED BY <2>1, <3>4, <4>2
    <3>5. CASE j < i
      BY <2>1, <3>3, <3>5
    <3>6. CASE j > i
      BY <2>1, <3>3, <3>6
    <3>. QED BY <1>0, <1>2, <3>4, <3>5, <3>6
  <2>7. ASSUME NEW u \in Nat, InList(f, u)
        PROVE  InList(h, u)
    <3>1. PICK j \in 1 .. Len(f) : f[j].addr =< u /\ u < End(f[j])
      BY <2>7 DEF InList
    <3>2. CASE j =< i
      <4>1. j \in 1 .. Len(f) - 1
        BY <1>0, <1>2, <3>2
      <4>2. CASE j < i
        BY <2>1, <3>1, <4>1, <4>2 DEF InList
      <4>3. CASE j = i
        <5>1. h[i].addr =< u /\ u < End(h[i])
          BY <1>0, <1>2, <2>0, <2>1, <3>1, <4>3
        <5>. QED BY <1>2, <2>1, <5>1 DEF InList
      <4>. QED BY <1>0, <3>2, <4>2, <4>3
    <3>3. CASE ~(j =< i)
      <4>0. PICK k \in 1 .. Len(f) - 1 : k >= i /\ k + 1 = j
        <5>1. j - 1 \in 1 .. Len(f) - 1 /\ j - 1 >= i /\ (j - 1) + 1 = j
          BY <1>0, <1>2, <3>3
        <5>. QED BY <5>1
      <4>1. CASE k > i
        <5>1. h[k] = f[j]
          BY <2>1, <4>0, <4>1
        <5>. QED BY <2>1, <3>1, <4>0, <5>1 DEF InList
      <4>2. CASE k = i
        <5>1. f[i + 1].addr =< u /\ u < End(f[i + 1])
          BY <3>1, <4>0, <4>2
        <5>2. f[i].addr \in Nat /\ End(f[i]) \in Nat /\ f[i].addr < End(f[i])
          BY <1>0, <2>0
        <5>3. f[i].addr =< u
          BY <1>2, <5>1, <5>2
        <5>. QED BY <1>2, <2>1, <5>1, <5>3 DEF InList
      <4>. QED BY <1>0, <1>2, <4>0, <4>1, <4>2
    <3>. QED BY <3>2, <3>3
  <2>. QED BY <2>5, <2>6, <2>7 DEF h
<1>. QED BY <1>1, <1>2

\* When only block i and blocks before it touch a later block, merging block
\* i with its successor leaves the blocks before it.
LEMMA AbsorbUntouches ==
    ASSUME NEW bp, NEW f, NEW i \in Nat, NEW T \in SUBSET (0 .. i),
           ListOK(f, bp), Touching(f, T)
    PROVE  Touching(Absorb(f, i), T \ {i})
<1>. DEFINE h == Absorb(f, i)
<1>0. /\ Len(f) \in Nat
      /\ \A j \in 1 .. Len(f) : /\ f[j].addr \in Nat
                                /\ End(f[j]) \in Nat
                                /\ f[j].addr < End(f[j])
  BY ListFacts
<1>1. \A a, b \in 1 .. Len(f) : a < b => End(f[a]) =< f[b].addr
  BY DEF ListOK
<1>2. \A a, b \in 1 .. Len(f) : a < b /\ End(f[a]) = f[b].addr => a \in T /\ b = a + 1
  <2>. SUFFICES ASSUME NEW a \in 1 .. Len(f), NEW b \in 1 .. Len(f), a < b,
                       End(f[a]) = f[b].addr, b # a + 1
                PROVE  FALSE
    BY DEF Touching
  <2>1. a + 1 \in 1 .. Len(f) /\ a + 1 < b
    BY <1>0
  <2>2. End(f[a]) =< f[a + 1].addr /\ End(f[a + 1]) =< f[b].addr
    BY <1>0, <1>1, <2>1
  <2>. QED BY <1>0, <2>1, <2>2
<1>3. CASE ~(i \in 1 .. Len(f) - 1 /\ End(f[i]) = f[i + 1].addr)
  <2>1. h = f
    BY <1>3 DEF Absorb, End
  <2>. SUFFICES ASSUME NEW a \in 1 .. Len(f), NEW b \in 1 .. Len(f), a < b,
                       End(f[a]) = f[b].addr
                PROVE  a \in T \ {i}
    BY <2>1 DEF Touching
  <2>2. a \in T /\ b = a + 1
    BY <1>2
  <2>3. a # i
    BY <1>0, <1>3, <2>2
  <2>. QED BY <2>2, <2>3
<1>4. CASE i \in 1 .. Len(f) - 1 /\ End(f[i]) = f[i + 1].addr
  <2>1. /\ Len(h) = Len(f) - 1
        /\ \A j \in 1 .. Len(f) - 1 : (j < i => h[j] = f[j]) /\ (j > i => h[j] = f[j + 1])
        /\ h[i].addr = f[i].addr
        /\ End(h[i]) = End(f[i + 1])
    <3>1. i \in 1 .. Len(f) - 1 /\ End(f[i]) = f[i + 1].addr
      BY <1>4
    <3>. QED BY <3>1, AbsorbEnds
  <2>. HIDE DEF h
  <2>. SUFFICES ASSUME NEW a \in 1 .. Len(f) - 1, NEW b \in 1 .. Len(f) - 1, a < b,
                       End(h[a]) = h[b].addr
                PROVE  a \in T \ {i}
    BY <2>1 DEF Touching, h
  <2>2. /\ a \in 1 .. Len(f) /\ a + 1 \in 1 .. Len(f) /\ i \in 1 .. Len(f)
        /\ b \in 1 .. Len(f) /\ b + 1 \in 1 .. Len(f) /\ i + 1 \in 1 .. Len(f)
    BY <1>0, <1>4
  <2>3. CASE a < i
    <3>1. h[a] = f[a]
      BY <2>1, <2>3
    <3>2. a \in T
      <4>1. CASE b < i
        <5>1. h[b] = f[b]
          BY <2>1, <4>1
        <5>. QED BY <1>2, <2>2, <3>1, <5>1
      <4>2. CASE b = i
        BY <1>2, <2>1, <2>2, <3>1, <4>2
      <4>3. CASE b > i
        <5>1. h[b] = f[b + 1]
          BY <2>1, <4>3
        <5>2. a < b + 1
          BY <1>0
        <5>. QED BY <1>2, <2>2, <3>1, <5>1, <5>2
      <4>. QED BY <1>0, <1>4, <4>1, <4>2, <4>3
    <3>. QED BY <1>0, <1>4, <2>3, <3>2
  <2>4. CASE ~(a < i)
    <3>1. b > i
      BY <1>0, <1>4, <2>4
    <3>2. h[b] = f[b + 1] /\ End(h[a]) = End(f[a + 1])
      <4>1. h[b] = f[b + 1]
        BY <2>1, <3>1
      <4>2. CASE a = i
        BY <2>1, <4>1, <4>2
      <4>3. CASE a > i
        BY <2>1, <4>1, <4>3
      <4>. QED BY <1>0, <1>4, <2>4, <4>2, <4>3
    <3>3. a + 1 \in T
      BY <1>0, <1>2, <2>2, <3>2
    <3>. QED BY <1>0, <1>4, <2>4, <3>3
  <2>. QED BY <2>3, <2>4
<1>. QED BY <1>3, <1>4

------------------------------------------------------------------------------
(* The effect of each operation on the invariant                            *)

\* The size sage_free computes from the header is the whole block.
LEMMA FreedWhole ==
    ASSUME NEW lv, NEW bp \in 0 .. SAGE_ARENA_SIZE, LiveOK(lv, bp), NEW b \in lv
    PROVE  /\ AsFree(b) \in FreeBlock
           /\ AsFree(b).addr = b.addr
           /\ AsFree(b).size = b.user + 16
           /\ End(AsFree(b)) = LiveEnd(b)
<1>1. b.addr \in Nat /\ b.user \in Nat /\ LiveEnd(b) = b.addr + b.user + 16
  BY LiveFacts
<1>2. LiveEnd(b) =< bp /\ Aligned(b.user)
  BY DEF LiveOK
<1>3. b.user + 31 < SIZE_MOD
  BY <1>1, <1>2, SizesAssumption, ArenaAssumption
<1>4. Wrap(b.user + ALLOC_HEADER_SIZE) = b.user + 16
  BY <1>1, <1>3, SizesAssumption DEF Wrap, ALLOC_HEADER_SIZE
<1>5. Aligned(b.user + 16)
  BY <1>1, <1>2 DEF Aligned, ALIGNMENT
<1>6. TotalSize(b) = b.user + 16
  BY <1>1, <1>3, <1>4, <1>5, AlignUp DEF TotalSize
<1>. QED BY <1>1, <1>6 DEF AsFree, FreeBlock, End

\* sage_free keeps the invariant.
LEMMA ReleaseKeeps ==
    ASSUME NEW f, NEW bp, NEW lv, HeapInv(f, bp, lv), NEW b \in lv,
           NEW k \in 0 .. Len(f), InsertsAfter(f, b.addr, k)
    PROVE  HeapInv(Released(f, b, k), bp, lv \ {b})
<1>. DEFINE x == AsFree(b)
            g == InsertAt(f, k + 1, x)
            rest == lv \ {b}
<1>0. /\ bp \in 0 .. SAGE_ARENA_SIZE /\ bp \in Nat /\ Aligned(bp) /\ ListOK(f, bp)
      /\ Touching(f, {}) /\ LiveOK(lv, bp) /\ Apart(f, lv) /\ Covered(f, lv, bp)
  BY ArenaAssumption DEF HeapInv
<1>1. /\ f \in Seq(FreeBlock)
      /\ Len(f) \in Nat
      /\ \A j \in 1 .. Len(f) : /\ f[j].addr \in Nat
                                /\ End(f[j]) \in Nat
                                /\ f[j].addr < End(f[j])
  BY <1>0, ListFacts
<1>2. x \in FreeBlock /\ x.addr = b.addr /\ x.size = b.user + 16 /\ End(x) = LiveEnd(b)
  BY <1>0, FreedWhole
<1>3. /\ b.addr \in Nat /\ b.user \in Nat /\ LiveEnd(b) \in Nat /\ b.addr < LiveEnd(b)
      /\ LiveEnd(b) =< bp /\ Aligned(b.addr) /\ Aligned(b.user)
  BY <1>0, LiveFacts DEF LiveOK
<1>. HIDE DEF x
<1>4. /\ g \in Seq(FreeBlock)
      /\ Len(g) = Len(f) + 1
      /\ \A j \in 1 .. Len(f) + 1 :
            g[j] = IF j < k + 1 THEN f[j] ELSE IF j = k + 1 THEN x ELSE f[j - 1]
  <2>1. k + 1 \in 1 .. Len(f) + 1
    BY <1>1
  <2>2. f \in Seq(FreeBlock) /\ x \in FreeBlock
    BY <1>1, <1>2
  <2>3. /\ InsertAt(f, k + 1, x) \in Seq(FreeBlock)
        /\ Len(InsertAt(f, k + 1, x)) = Len(f) + 1
        /\ \A j \in 1 .. Len(f) + 1 :
              InsertAt(f, k + 1, x)[j] =
                 IF j < k + 1 THEN f[j] ELSE IF j = k + 1 THEN x ELSE f[j - 1]
    BY <2>1, <2>2 DEF InsertAt
  <2>. QED BY <2>3
<1>. HIDE DEF g
<1>5. \A j \in 1 .. Len(f) : j =< k => End(f[j]) =< b.addr
  <2>. SUFFICES ASSUME NEW j \in 1 .. Len(f), j =< k
                PROVE  End(f[j]) =< b.addr
    OBVIOUS
  <2>1. f[j].addr < b.addr
    BY <1>1 DEF InsertsAfter
  <2>2. LiveEnd(b) =< f[j].addr \/ End(f[j]) =< b.addr
    BY <1>0 DEF Apart
  <2>. QED BY <1>1, <1>3, <2>1, <2>2
<1>6. \A j \in 1 .. Len(f) : j > k => LiveEnd(b) =< f[j].addr
  <2>. SUFFICES ASSUME NEW j \in 1 .. Len(f), j > k
                PROVE  LiveEnd(b) =< f[j].addr
    OBVIOUS
  <2>1. k + 1 \in 1 .. Len(f) /\ f[k + 1].addr >= b.addr
    BY <1>1 DEF InsertsAfter
  <2>2. f[j].addr >= f[k + 1].addr
    <3>1. CASE j = k + 1
      BY <1>1, <3>1
    <3>2. CASE j # k + 1
      <4>1. End(f[k + 1]) =< f[j].addr
        BY <1>0, <1>1, <2>1, <3>2 DEF ListOK
      <4>. QED BY <1>1, <2>1, <4>1
    <3>. QED BY <3>1, <3>2
  <2>3. LiveEnd(b) =< f[j].addr \/ End(f[j]) =< b.addr
    BY <1>0 DEF Apart
  <2>4. f[j].addr \in Nat /\ End(f[j]) \in Nat /\ f[j].addr < End(f[j]) /\ f[k + 1].addr \in Nat
    BY <1>1, <2>1
  <2>. QED BY <1>3, <2>1, <2>2, <2>3, <2>4
<1>7. LiveOK(rest, bp)
  BY <1>0 DEF LiveOK
<1>8. ListOK(g, bp)
  <2>1. ASSUME NEW j \in 1 .. Len(f) + 1
        PROVE  Aligned(g[j].addr) /\ Aligned(g[j].size) /\ g[j].size > 0 /\ End(g[j]) =< bp
    <3>1. CASE j < k + 1
      <4>1. j \in 1 .. Len(f) /\ g[j] = f[j]
        BY <1>1, <1>4, <3>1
      <4>. QED BY <1>0, <4>1 DEF ListOK
    <3>2. CASE j = k + 1
      <4>1. g[j] = x
        BY <1>1, <1>4, <3>2
      <4>2. Aligned(b.user + 16) /\ b.user + 16 > 0
        BY <1>3 DEF Aligned, ALIGNMENT
      <4>. QED BY <1>2, <1>3, <4>1, <4>2
    <3>3. CASE j > k + 1
      <4>1. j - 1 \in 1 .. Len(f) /\ g[j] = f[j - 1]
        BY <1>1, <1>4, <3>3
      <4>. QED BY <1>0, <4>1 DEF ListOK
    <3>. QED BY <1>1, <3>1, <3>2, <3>3
  <2>2. ASSUME NEW i \in 1 .. Len(f) + 1, NEW j \in 1 .. Len(f) + 1, i < j
        PROVE  End(g[i]) =< g[j].addr
    <3>0. \A a, c \in 1 .. Len(f) : a < c => End(f[a]) =< f[c].addr
      BY <1>0 DEF ListOK
    <3>1. CASE j < k + 1
      <4>1. i \in 1 .. Len(f) /\ j \in 1 .. Len(f) /\ g[i] = f[i] /\ g[j] = f[j]
        BY <1>1, <1>4, <2>2, <3>1
      <4>. QED BY <2>2, <3>0, <4>1
    <3>2. CASE j = k + 1
      <4>1. i \in 1 .. Len(f) /\ i =< k /\ g[i] = f[i] /\ g[j] = x
        BY <1>1, <1>4, <2>2, <3>2
      <4>. QED BY <1>2, <1>5, <4>1
    <3>3. CASE j > k + 1
      <4>1. j - 1 \in 1 .. Len(f) /\ j - 1 > k /\ g[j] = f[j - 1]
        BY <1>1, <1>4, <3>3
      <4>2. CASE i < k + 1
        <5>1. i \in 1 .. Len(f) /\ i < j - 1 /\ g[i] = f[i]
          BY <1>1, <1>4, <3>3, <4>2
        <5>. QED BY <3>0, <4>1, <5>1
      <4>3. CASE i = k + 1
        <5>1. g[i] = x
          BY <1>1, <1>4, <4>3
        <5>. QED BY <1>2, <1>6, <4>1, <5>1
      <4>4. CASE i > k + 1
        <5>1. i - 1 \in 1 .. Len(f) /\ i - 1 < j - 1 /\ g[i] = f[i - 1]
          BY <1>1, <1>4, <2>2, <4>4
        <5>. QED BY <3>0, <4>1, <5>1
      <4>. QED BY <1>1, <4>2, <4>3, <4>4
    <3>. QED BY <1>1, <3>1, <3>2, <3>3
  <2>. QED BY <1>4, <2>1, <2>2 DEF ListOK
<1>9. Apart(g, rest)
  <2>. SUFFICES ASSUME NEW c \in rest, NEW j \in 1 .. Len(f) + 1
                PROVE  LiveEnd(c) =< g[j].addr \/ End(g[j]) =< c.addr
    BY <1>4 DEF Apart
  <2>1. CASE j < k + 1
    <3>1. j \in 1 .. Len(f) /\ g[j] = f[j]
      BY <1>1, <1>4, <2>1
    <3>. QED BY <1>0, <3>1 DEF Apart
  <2>2. CASE j = k + 1
    <3>1. g[j] = x
      BY <1>1, <1>4, <2>2
    <3>2. LiveEnd(c) =< b.addr \/ LiveEnd(b) =< c.addr
      BY <1>0 DEF LiveOK
    <3>. QED BY <1>2, <3>1, <3>2
  <2>3. CASE j > k + 1
    <3>1. j - 1 \in 1 .. Len(f) /\ g[j] = f[j - 1]
      BY <1>1, <1>4, <2>3
    <3>. QED BY <1>0, <3>1 DEF Apart
  <2>. QED BY <1>1, <2>1, <2>2, <2>3
<1>10. Touching(g, {k, k + 1})
  <2>. SUFFICES ASSUME NEW i \in 1 .. Len(f) + 1, NEW j \in 1 .. Len(f) + 1, i < j,
                       End(g[i]) = g[j].addr, i \notin {k, k + 1}
                PROVE  FALSE
    BY <1>4 DEF Touching
  <2>0. \A a, c \in 1 .. Len(f) : a < c => End(f[a]) # f[c].addr
    BY <1>0 DEF Touching
  <2>1. CASE i > k + 1
    <3>1. /\ i - 1 \in 1 .. Len(f) /\ j - 1 \in 1 .. Len(f) /\ i - 1 < j - 1
          /\ g[i] = f[i - 1] /\ g[j] = f[j - 1]
      BY <1>1, <1>4, <2>1
    <3>. QED BY <2>0, <3>1
  <2>2. CASE i < k
    <3>1. i \in 1 .. Len(f) /\ k \in 1 .. Len(f) /\ g[i] = f[i]
      BY <1>1, <1>4, <2>2
    <3>2. CASE j < k + 1
      <4>1. j \in 1 .. Len(f) /\ g[j] = f[j]
        BY <1>1, <1>4, <3>2
      <4>. QED BY <2>0, <3>1, <4>1
    <3>3. CASE j = k + 1
      <4>1. g[j] = x
        BY <1>1, <1>4, <3>3
      <4>2. End(f[i]) =< f[k].addr /\ f[k].addr < End(f[k]) /\ End(f[k]) =< b.addr
        BY <1>0, <1>1, <1>5, <2>2, <3>1 DEF ListOK
      <4>. QED BY <1>1, <1>2, <1>3, <3>1, <4>1, <4>2
    <3>4. CASE j > k + 1
      <4>1. j - 1 \in 1 .. Len(f) /\ i < j - 1 /\ g[j] = f[j - 1]
        BY <1>1, <1>4, <2>2, <3>4
      <4>. QED BY <2>0, <3>1, <4>1
    <3>. QED BY <1>1, <3>2, <3>3, <3>4
  <2>. QED BY <1>1, <2>1, <2>2
<1>11. \A u \in Nat : InLive(lv, u) \/ InList(f, u) => InLive(rest, u) \/ InList(g, u)
  <2>. SUFFICES ASSUME NEW u \in Nat, InLive(lv, u) \/ InList(f, u)
                PROVE  InLive(rest, u) \/ InList(g, u)
    OBVIOUS
  <2>1. CASE InLive(lv, u)
    <3>1. PICK c \in lv : c.addr =< u /\ u < LiveEnd(c)
      BY <2>1 DEF InLive
    <3>2. CASE c # b
      BY <3>1, <3>2 DEF InLive
    <3>3. CASE c = b
      <4>1. k + 1 \in 1 .. Len(g) /\ g[k + 1] = x
        BY <1>1, <1>4
      <4>. QED BY <1>2, <3>1, <3>3, <4>1 DEF InList
    <3>. QED BY <3>2, <3>3
  <2>2. CASE InList(f, u)
    <3>1. PICK j \in 1 .. Len(f) : f[j].addr =< u /\ u < End(f[j])
      BY <2>2 DEF InList
    <3>2. CASE j =< k
      <4>1. j \in 1 .. Len(g) /\ g[j] = f[j]
        BY <1>1, <1>4, <3>2
      <4>. QED BY <3>1, <4>1 DEF InList
    <3>3. CASE ~(j =< k)
      <4>1. j + 1 \in 1 .. Len(g) /\ g[j + 1] = f[j]
        BY <1>1, <1>4, <3>3
      <4>. QED BY <3>1, <4>1 DEF InList
    <3>. QED BY <3>2, <3>3
  <2>. QED BY <2>1, <2>2
<1>. DEFINE h == Absorb(g, k + 1)
            r == Absorb(h, k)
<1>12. Released(f, b, k) = r
  BY DEF Released, g, x
<1>13. /\ ListOK(h, bp) /\ Apart(h, rest)
       /\ \A u \in Nat : InList(g, u) => InList(h, u)
  <2>1. k + 1 \in Nat
    BY <1>1
  <2>. QED BY <1>0, <1>7, <1>8, <1>9, <2>1, AbsorbKeeps
<1>14. Touching(h, {k})
  <2>1. k + 1 \in Nat /\ {k, k + 1} \in SUBSET (0 .. k + 1) /\ {k, k + 1} \ {k + 1} = {k}
    BY <1>1
  <2>2. Touching(h, {k, k + 1} \ {k + 1})
    BY <1>8, <1>10, <2>1, AbsorbUntouches
  <2>. QED BY <2>1, <2>2
<1>. HIDE DEF h, rest
<1>15. /\ ListOK(r, bp) /\ Apart(r, rest)
       /\ \A u \in Nat : InList(h, u) => InList(r, u)
  <2>1. k \in Nat
    BY <1>1
  <2>. QED BY <1>0, <1>7, <1>13, <2>1, AbsorbKeeps
<1>16. Touching(r, {})
  <2>1. k \in Nat /\ {k} \in SUBSET (0 .. k) /\ {k} \ {k} = {}
    BY <1>1
  <2>2. Touching(r, {k} \ {k})
    BY <1>13, <1>14, <2>1, AbsorbUntouches
  <2>. QED BY <2>1, <2>2
<1>. HIDE DEF r
<1>17. Covered(r, rest, bp)
  BY <1>0, <1>11, <1>13, <1>15 DEF Covered
<1>. QED BY <1>0, <1>7, <1>12, <1>15, <1>16, <1>17 DEF HeapInv, rest

\* Taking the i-th block of the free list, whole or split, keeps the
\* invariant.
LEMMA CarveKeepsInv ==
    ASSUME NEW f, NEW bp, NEW lv, HeapInv(f, bp, lv), NEW i \in 1 .. Len(f),
           NEW size \in Sizes, size # 0, f[i].size >= Needed(size)
    PROVE  HeapInv(Carve(f, i, Needed(size)), bp, lv \cup {Carved(f, i, size)})
<1>. DEFINE n == Needed(size)
            nb == Carved(f, i, size)
            more == lv \cup {nb}
            g == Carve(f, i, n)
<1>0. /\ bp \in 0 .. SAGE_ARENA_SIZE /\ bp \in Nat /\ Aligned(bp) /\ ListOK(f, bp)
      /\ Touching(f, {}) /\ LiveOK(lv, bp) /\ Apart(f, lv) /\ Covered(f, lv, bp)
  BY ArenaAssumption DEF HeapInv
<1>1. /\ f \in Seq(FreeBlock)
      /\ Len(f) \in Nat
      /\ \A j \in 1 .. Len(f) : /\ f[j] \in FreeBlock
                                /\ f[j].addr \in Nat
                                /\ f[j].size \in Nat
                                /\ End(f[j]) \in Nat
                                /\ End(f[j]) = f[j].addr + f[j].size
                                /\ f[j].addr < End(f[j])
  BY <1>0, ListFacts
<1>2. n \in Nat /\ Aligned(n) /\ size + 16 =< n /\ size \in Nat /\ n =< f[i].size
  BY <1>1, NeededBounds, SizesAssumption
<1>3. Aligned(f[i].addr) /\ Aligned(f[i].size) /\ End(f[i]) =< bp
  BY <1>0 DEF ListOK
<1>. HIDE DEF n
<1>4. /\ nb.addr = f[i].addr
      /\ nb.want = size
      /\ nb.user = (IF Splits(f[i].size, n) THEN n ELSE f[i].size) - 16
  BY DEF Carved, ALLOC_HEADER_SIZE, n
<1>5. /\ nb \in LiveBlock /\ nb.addr \in Nat /\ nb.user \in Nat /\ nb.want =< nb.user
      /\ Aligned(nb.addr) /\ Aligned(nb.user)
      /\ LiveEnd(nb) = IF Splits(f[i].size, n) THEN f[i].addr + n ELSE End(f[i])
      /\ LiveEnd(nb) =< End(f[i])
  <2>. DEFINE total == IF Splits(f[i].size, n) THEN n ELSE f[i].size
  <2>1. total \in Nat /\ Aligned(total) /\ size + 16 =< total /\ total =< f[i].size
    BY <1>1, <1>2, <1>3
  <2>2. f[i].addr \in Nat /\ f[i].size \in Nat /\ End(f[i]) = f[i].addr + f[i].size
    BY <1>1
  <2>3. nb.user = total - 16
    BY <1>4
  <2>4. nb = [addr |-> f[i].addr, user |-> total - 16, want |-> size]
    BY DEF Carved, ALLOC_HEADER_SIZE, n
  <2>. HIDE DEF total, nb
  <2>5. total - 16 \in Nat /\ Aligned(total - 16) /\ size =< total - 16
    BY <1>2, <2>1 DEF Aligned, ALIGNMENT
  <2>6. nb \in LiveBlock
    BY <1>2, <2>2, <2>4, <2>5 DEF LiveBlock
  <2>7. LiveEnd(nb) = f[i].addr + total
    BY <1>4, <2>1, <2>2, <2>3 DEF LiveEnd, ALLOC_HEADER_SIZE
  <2>8. LiveEnd(nb) = IF Splits(f[i].size, n) THEN f[i].addr + n ELSE End(f[i])
    BY <2>2, <2>7 DEF total
  <2>9. LiveEnd(nb) =< End(f[i])
    BY <2>1, <2>2, <2>7
  <2>. QED BY <1>3, <1>4, <2>2, <2>3, <2>5, <2>6, <2>8, <2>9
<1>. HIDE DEF nb
<1>6. LiveEnd(nb) \in Nat /\ nb.addr < LiveEnd(nb)
  BY <1>5 DEF LiveEnd, ALLOC_HEADER_SIZE
<1>7. \A b \in lv : LiveEnd(b) =< nb.addr \/ LiveEnd(nb) =< b.addr
  <2>. TAKE b \in lv
  <2>1. b.addr \in Nat /\ LiveEnd(b) \in Nat
    BY <1>0, LiveFacts
  <2>2. LiveEnd(b) =< f[i].addr \/ End(f[i]) =< b.addr
    BY <1>0 DEF Apart
  <2>. QED BY <1>1, <1>4, <1>5, <1>6, <2>1, <2>2
<1>8. LiveOK(more, bp)
  <2>1. LiveEnd(nb) =< bp
    BY <1>0, <1>1, <1>3, <1>5, <1>6
  <2>2. \A b \in more : /\ b \in LiveBlock
                        /\ Aligned(b.addr)
                        /\ Aligned(b.user)
                        /\ b.want =< b.user
                        /\ LiveEnd(b) =< bp
    BY <1>0, <1>5, <2>1 DEF LiveOK
  <2>3. \A b, c \in more : b # c => LiveEnd(b) =< c.addr \/ LiveEnd(c) =< b.addr
    BY <1>0, <1>7 DEF LiveOK
  <2>. QED BY <2>2, <2>3 DEF LiveOK
<1>9. ASSUME NEW j \in 1 .. Len(f), j # i
      PROVE  LiveEnd(nb) =< f[j].addr \/ End(f[j]) =< nb.addr
  <2>1. \A a, c \in 1 .. Len(f) : a < c => End(f[a]) =< f[c].addr
    BY <1>0 DEF ListOK
  <2>2. CASE j < i
    BY <1>4, <2>1, <2>2
  <2>3. CASE j > i
    <3>1. End(f[i]) =< f[j].addr
      BY <2>1, <2>3
    <3>2. End(f[i]) \in Nat /\ f[j].addr \in Nat
      BY <1>1
    <3>. QED BY <1>5, <1>6, <3>1, <3>2
  <2>. QED BY <1>1, <1>9, <2>2, <2>3
<1>10. CASE ~Splits(f[i].size, n)
  <2>1. /\ g \in Seq(FreeBlock)
        /\ Len(g) = Len(f) - 1
        /\ \A j \in 1 .. Len(f) - 1 : g[j] = IF j < i THEN f[j] ELSE f[j + 1]
    BY <1>1, <1>10, RemoveAtElements DEF Carve
  <2>. HIDE DEF g
  <2>2. \A j \in 1 .. Len(g) :
           \E a \in 1 .. Len(f) : /\ a # i
                                  /\ g[j] = f[a]
                                  /\ a = IF j < i THEN j ELSE j + 1
    <3>. TAKE j \in 1 .. Len(g)
    <3>1. CASE j < i
      BY <1>1, <2>1, <3>1
    <3>2. CASE ~(j < i)
      <4>1. j + 1 \in 1 .. Len(f) /\ j + 1 # i /\ g[j] = f[j + 1]
        BY <1>1, <2>1, <3>2
      <4>. QED BY <3>2, <4>1
    <3>. QED BY <3>1, <3>2
  <2>3. \A j, k \in 1 .. Len(g) : j < k =>
           \E a, c \in 1 .. Len(f) : a < c /\ g[j] = f[a] /\ g[k] = f[c]
    <3>. SUFFICES ASSUME NEW j \in 1 .. Len(g), NEW k \in 1 .. Len(g), j < k
                  PROVE  \E a, c \in 1 .. Len(f) : a < c /\ g[j] = f[a] /\ g[k] = f[c]
      OBVIOUS
    <3>1. PICK a \in 1 .. Len(f) : g[j] = f[a] /\ a = IF j < i THEN j ELSE j + 1
      BY <2>2
    <3>2. PICK c \in 1 .. Len(f) : g[k] = f[c] /\ c = IF k < i THEN k ELSE k + 1
      BY <2>2
    <3>3. a < c
      BY <1>1, <2>1, <3>1, <3>2
    <3>. QED BY <3>1, <3>2, <3>3
  <2>4. ListOK(g, bp)
    <3>1. \A j \in 1 .. Len(g) : /\ Aligned(g[j].addr)
                                 /\ Aligned(g[j].size)
                                 /\ g[j].size > 0
                                 /\ End(g[j]) =< bp
      BY <1>0, <2>2 DEF ListOK
    <3>2. \A j, k \in 1 .. Len(g) : j < k => End(g[j]) =< g[k].addr
      BY <1>0, <2>3 DEF ListOK
    <3>. QED BY <2>1, <3>1, <3>2 DEF ListOK
  <2>5. Touching(g, {})
    BY <1>0, <2>3 DEF Touching
  <2>6. Apart(g, more)
    BY <1>0, <1>9, <2>2 DEF Apart
  <2>7. Covered(g, more, bp)
    <3>. SUFFICES ASSUME NEW u \in Nat, u < bp, Aligned(u)
                  PROVE  InLive(more, u) \/ InList(g, u)
      BY DEF Covered
    <3>1. CASE InLive(lv, u)
      BY <3>1 DEF InLive
    <3>2. CASE InList(f, u)
      <4>1. PICK j \in 1 .. Len(f) : f[j].addr =< u /\ u < End(f[j])
        BY <3>2 DEF InList
      <4>2. CASE j = i
        BY <1>4, <1>5, <1>10, <4>1, <4>2 DEF InLive
      <4>3. CASE j < i
        <5>1. j \in 1 .. Len(g) /\ g[j] = f[j]
          BY <1>1, <2>1, <4>3
        <5>. QED BY <4>1, <5>1 DEF InList
      <4>4. CASE j > i
        <5>1. j - 1 \in 1 .. Len(g) /\ g[j - 1] = f[j]
          BY <1>1, <2>1, <4>4
        <5>. QED BY <4>1, <5>1 DEF InList
      <4>. QED BY <1>1, <4>2, <4>3, <4>4
    <3>. QED BY <1>0, <3>1, <3>2 DEF Covered
  <2>. QED BY <1>0, <1>8, <2>4, <2>5, <2>6, <2>7 DEF HeapInv, g, n, nb
<1>11. CASE Splits(f[i].size, n)
  <2>. DEFINE x == [addr |-> f[i].addr + n, size |-> f[i].size - n]
  <2>0. /\ f[i].addr \in Nat /\ f[i].size \in Nat /\ End(f[i]) = f[i].addr + f[i].size
        /\ n + 32 =< f[i].size
    BY <1>1, <1>2, <1>11 DEF Splits, FREE_BLOCK_SIZE, ALIGNMENT
  <2>1. /\ x \in FreeBlock /\ x.addr = f[i].addr + n /\ x.size = f[i].size - n
        /\ x.size > 0 /\ End(x) = End(f[i]) /\ x.addr = LiveEnd(nb)
    <3>1. x.addr = f[i].addr + n /\ x.size = f[i].size - n
      OBVIOUS
    <3>2. f[i].addr + n \in Nat /\ f[i].size - n \in Nat /\ f[i].size - n > 0
      <4>1. f[i].addr \in Nat /\ f[i].size \in Nat /\ n \in Nat /\ n + 32 =< f[i].size
        BY <1>2, <2>0
      <4>. QED BY ONLY <4>1
    <3>3. x \in FreeBlock
      BY <3>2 DEF FreeBlock
    <3>. HIDE DEF x
    <3>4. End(x) = End(f[i])
      BY <1>2, <2>0, <3>1 DEF End
    <3>5. x.addr = LiveEnd(nb)
      BY <1>5, <1>11, <3>1
    <3>. QED BY <3>1, <3>2, <3>3, <3>4, <3>5
  <2>2. Aligned(x.addr) /\ Aligned(x.size)
    BY <1>2, <1>3, <2>0, <2>1, AlignedSum
  <2>3. /\ g \in Seq(FreeBlock)
        /\ Len(g) = Len(f)
        /\ \A j \in 1 .. Len(f) : g[j] = IF j = i THEN x ELSE f[j]
    BY <1>1, <1>11, <2>1 DEF Carve
  <2>. HIDE DEF g, x
  <2>4. \A j \in 1 .. Len(f) : End(g[j]) = End(f[j]) /\ (j # i => g[j] = f[j])
    BY <2>1, <2>3
  <2>10. \A j \in 1 .. Len(f) : f[j].addr =< g[j].addr /\ g[j].addr \in Nat
    <3>. TAKE j \in 1 .. Len(f)
    <3>1. f[j].addr \in Nat
      BY <1>1
    <3>2. CASE j = i
      BY <1>2, <2>1, <2>3, <3>1, <3>2
    <3>3. CASE j # i
      BY <2>4, <3>1, <3>3
    <3>. QED BY <3>2, <3>3
  <2>5. \A j \in 1 .. Len(f) : /\ Aligned(g[j].addr)
                               /\ Aligned(g[j].size)
                               /\ g[j].size > 0
                               /\ End(g[j]) =< bp
    BY <1>0, <2>1, <2>2, <2>3, <2>4 DEF ListOK
  <2>6. \A j, k \in 1 .. Len(f) : j < k => End(g[j]) < g[k].addr
    <3>. SUFFICES ASSUME NEW j \in 1 .. Len(f), NEW k \in 1 .. Len(f), j < k
                  PROVE  End(g[j]) < g[k].addr
      OBVIOUS
    <3>1. End(f[j]) < f[k].addr
      <4>1. End(f[j]) =< f[k].addr /\ End(f[j]) # f[k].addr
        BY <1>0 DEF ListOK, Touching
      <4>2. End(f[j]) \in Nat /\ f[k].addr \in Nat
        BY <1>1
      <4>. QED BY <4>1, <4>2
    <3>2. f[k].addr =< g[k].addr /\ g[k].addr \in Nat
      BY <2>10
    <3>3. End(g[j]) = End(f[j]) /\ End(f[j]) \in Nat /\ f[k].addr \in Nat
      BY <1>1, <2>4
    <3>. QED BY <3>1, <3>2, <3>3
  <2>7. ListOK(g, bp) /\ Touching(g, {})
    <3>1. \A j \in 1 .. Len(f) : End(g[j]) \in Nat /\ g[j].addr \in Nat
      <4>. TAKE j \in 1 .. Len(f)
      <4>1. End(g[j]) \in Nat
        BY <1>1, <2>4
      <4>2. g[j].addr \in Nat
        BY <2>10
      <4>. QED BY <4>1, <4>2
    <3>. QED BY <2>3, <2>5, <2>6, <3>1 DEF ListOK, Touching
  <2>8. Apart(g, more)
    <3>. SUFFICES ASSUME NEW b \in more, NEW j \in 1 .. Len(f)
                  PROVE  LiveEnd(b) =< g[j].addr \/ End(g[j]) =< b.addr
      BY <2>3 DEF Apart
    <3>1. CASE b \in lv
      <4>1. b.addr \in Nat /\ LiveEnd(b) \in Nat
        BY <1>0, <3>1, LiveFacts
      <4>2. LiveEnd(b) =< f[j].addr \/ End(f[j]) =< b.addr
        BY <1>0, <3>1 DEF Apart
      <4>3. f[j].addr =< g[j].addr /\ g[j].addr \in Nat /\ f[j].addr \in Nat
        BY <1>1, <2>10
      <4>4. End(g[j]) = End(f[j])
        BY <2>4
      <4>. QED BY <4>1, <4>2, <4>3, <4>4
    <3>2. CASE b = nb
      <4>1. CASE j = i
        BY <1>6, <2>1, <2>3, <3>2, <4>1
      <4>2. CASE j # i
        BY <1>9, <2>4, <3>2, <4>2
      <4>. QED BY <4>1, <4>2
    <3>. QED BY <3>1, <3>2
  <2>9. Covered(g, more, bp)
    <3>. SUFFICES ASSUME NEW u \in Nat, u < bp, Aligned(u)
                  PROVE  InLive(more, u) \/ InList(g, u)
      BY DEF Covered
    <3>1. CASE InLive(lv, u)
      BY <3>1 DEF InLive
    <3>2. CASE InList(f, u)
      <4>1. PICK j \in 1 .. Len(f) : f[j].addr =< u /\ u < End(f[j])
        BY <3>2 DEF InList
      <4>2. CASE j # i
        BY <2>3, <2>4, <4>1, <4>2 DEF InList
      <4>3. CASE j = i /\ u < LiveEnd(nb)
        BY <1>4, <4>1, <4>3 DEF InLive
      <4>4. CASE j = i /\ ~(u < LiveEnd(nb))
        <5>1. g[i].addr =< u /\ u < End(g[i])
          BY <1>6, <2>1, <2>3, <2>4, <4>1, <4>4
        <5>. QED BY <2>3, <5>1 DEF InList
      <4>. QED BY <4>2, <4>3, <4>4
    <3>. QED BY <1>0, <3>1, <3>2 DEF Covered
  <2>. QED BY <1>0, <1>8, <2>7, <2>8, <2>9 DEF HeapInv, g, n, nb
<1>. QED BY <1>10, <1>11

\* Growing the bump pointer keeps the invariant.
LEMMA BumpKeepsInv ==
    ASSUME NEW f, NEW bp, NEW lv, HeapInv(f, bp, lv),
           NEW n \in Nat, Aligned(n), NEW size \in Nat, size + 16 =< n,
           bp + n =< SAGE_ARENA_SIZE
    PROVE  HeapInv(f, bp + n, lv \cup {[addr |-> bp, user |-> n - 16, want |-> size]})
<1>. DEFINE nb == [addr |-> bp, user |-> n - 16, want |-> size]
            more == lv \cup {nb}
            top == bp + n
<1>0. /\ bp \in 0 .. SAGE_ARENA_SIZE /\ bp \in Nat /\ Aligned(bp) /\ ListOK(f, bp)
      /\ Touching(f, {}) /\ LiveOK(lv, bp) /\ Apart(f, lv) /\ Covered(f, lv, bp)
  BY ArenaAssumption DEF HeapInv
<1>1. /\ f \in Seq(FreeBlock)
      /\ Len(f) \in Nat
      /\ \A j \in 1 .. Len(f) : End(f[j]) \in Nat /\ End(f[j]) =< bp
  BY <1>0, ListFacts DEF ListOK
<1>2. top \in 0 .. SAGE_ARENA_SIZE /\ top \in Nat /\ bp =< top /\ Aligned(top)
  BY <1>0, AlignedSum, ArenaAssumption
<1>3. /\ nb \in LiveBlock /\ nb.addr = bp /\ nb.user = n - 16 /\ nb.want =< nb.user
      /\ LiveEnd(nb) = top
  BY <1>0 DEF LiveBlock, LiveEnd, ALLOC_HEADER_SIZE
<1>4. Aligned(nb.addr) /\ Aligned(nb.user)
  <2>1. Aligned(n - 16)
    BY DEF Aligned, ALIGNMENT
  <2>. QED BY <1>0, <1>3, <2>1
<1>. HIDE DEF nb, top
<1>5. LiveOK(more, top)
  <2>1. ASSUME NEW b \in more
        PROVE  /\ b \in LiveBlock /\ Aligned(b.addr) /\ Aligned(b.user)
               /\ b.want =< b.user /\ LiveEnd(b) =< top
    <3>1. CASE b \in lv
      <4>1. LiveEnd(b) \in Nat /\ LiveEnd(b) =< bp
        BY <1>0, <3>1, LiveFacts DEF LiveOK
      <4>2. LiveEnd(b) =< top
        BY <1>0, <1>2, <4>1
      <4>. QED BY <1>0, <3>1, <4>2 DEF LiveOK
    <3>2. CASE b = nb
      BY <1>2, <1>3, <1>4, <3>2
    <3>. QED BY <3>1, <3>2
  <2>2. ASSUME NEW b \in more, NEW c \in more, b # c
        PROVE  LiveEnd(b) =< c.addr \/ LiveEnd(c) =< b.addr
    <3>1. \A d \in lv : LiveEnd(d) =< nb.addr
      BY <1>0, <1>3 DEF LiveOK
    <3>. QED BY <1>0, <2>2, <3>1 DEF LiveOK
  <2>. QED BY <2>1, <2>2 DEF LiveOK
<1>6. ListOK(f, top)
  <2>1. \A j \in 1 .. Len(f) : End(f[j]) =< top
    BY <1>0, <1>1, <1>2
  <2>. QED BY <1>0, <2>1 DEF ListOK
<1>7. Apart(f, more)
  BY <1>0, <1>1, <1>3 DEF Apart
<1>8. Covered(f, more, top)
  <2>. SUFFICES ASSUME NEW u \in Nat, u < top, Aligned(u)
                PROVE  InLive(more, u) \/ InList(f, u)
    BY DEF Covered
  <2>1. CASE u < bp
    BY <1>0, <2>1 DEF Covered, InLive
  <2>2. CASE ~(u < bp)
    <3>1. bp =< u
      BY <1>0, <2>2
    <3>. QED BY <1>3, <3>1 DEF InLive
  <2>. QED BY <2>1, <2>2
<1>. QED BY <1>0, <1>2, <1>5, <1>6, <1>7, <1>8 DEF HeapInv, nb, top

------------------------------------------------------------------------------
(* The theorems                                                             *)

Inv == HeapInv(free, bump, live)

\* The empty heap satisfies the invariant.
LEMMA InitInv ==
    Init => Inv
<1>. SUFFICES ASSUME Init PROVE Inv
  OBVIOUS
<1>1. free = <<>> /\ bump = 0 /\ live = {}
  BY DEF Init
<1>2. Len(free) = 0 /\ free \in Seq(FreeBlock)
  BY <1>1
<1>. QED BY <1>1, <1>2, ArenaAssumption
         DEF Inv, HeapInv, ListOK, Touching, LiveOK, Apart, Covered, Aligned, ALIGNMENT

\* A block cut from the top of the arena.
LEMMA BumpedInv ==
    ASSUME Inv, NEW size \in Sizes, size # 0, bump + Needed(size) =< SAGE_ARENA_SIZE
    PROVE  HeapInv(free, bump + Needed(size), live \cup {Bumped(size)})
<1>1. /\ Needed(size) \in Nat /\ Aligned(Needed(size)) /\ size + 16 =< Needed(size)
      /\ size \in Nat
  BY NeededBounds, SizesAssumption
<1>2. Bumped(size) = [addr |-> bump, user |-> Needed(size) - 16, want |-> size]
  BY DEF Bumped, ALLOC_HEADER_SIZE
<1>. QED BY <1>1, <1>2, BumpKeepsInv DEF Inv

\* A block cut from the free list.
LEMMA CarvedInv ==
    ASSUME Inv, NEW size \in Sizes, size # 0, NEW i \in 1 .. Len(free),
           FirstFit(Needed(size), i)
    PROVE  HeapInv(Carve(free, i, Needed(size)), bump, live \cup {Carved(free, i, size)})
BY CarveKeepsInv DEF Inv, FirstFit

\* What a request that is not refused finds above the bump pointer.
LEMMA RoomAbove ==
    ASSUME Inv, NEW size \in Sizes, size # 0, NoFit(Needed(size)), ~OutOfMemory(size)
    PROVE  bump + Needed(size) =< SAGE_ARENA_SIZE
BY NeededBounds, ArenaAssumption DEF Inv, HeapInv, OutOfMemory

\* Every call to the allocator keeps the invariant.
LEMMA StepInv ==
    Inv /\ [Next]_vars => Inv'
<1>. SUFFICES ASSUME Inv, [Next]_vars
              PROVE  Inv'
  OBVIOUS
<1>1. ASSUME NEW size \in Sizes, sage_malloc(size)
      PROVE  Inv'
  <2>1. CASE UNCHANGED vars
    BY <2>1 DEF Inv, vars
  <2>2. CASE /\ size # 0
             /\ \E i \in 1 .. Len(free) :
                   /\ FirstFit(Needed(size), i)
                   /\ free' = Carve(free, i, Needed(size))
                   /\ live' = live \cup {Carved(free, i, size)}
             /\ UNCHANGED bump
    BY <2>2, CarvedInv DEF Inv
  <2>3. CASE /\ size # 0
             /\ NoFit(Needed(size))
             /\ ~OutOfMemory(size)
             /\ bump' = bump + Needed(size)
             /\ live' = live \cup {Bumped(size)}
             /\ UNCHANGED free
    <3>1. HeapInv(free, bump + Needed(size), live \cup {Bumped(size)})
      BY <2>3, RoomAbove, BumpedInv
    <3>. QED BY <2>3, <3>1 DEF Inv
  <2>. QED BY <1>1, <2>1, <2>2, <2>3 DEF sage_malloc
<1>2. ASSUME NEW b \in live, sage_free(b)
      PROVE  Inv'
  BY <1>2, ReleaseKeeps DEF Inv, sage_free
<1>3. ASSUME NEW b \in live, NEW size \in Sizes, sage_realloc(b, size)
      PROVE  Inv'
  <2>1. CASE sage_free(b)
    BY <1>2, <2>1
  <2>2. CASE /\ FitsInPlace(b, size)
             /\ live' = (live \ {b}) \cup {[b EXCEPT !.want = size]}
             /\ UNCHANGED <<bump, free>>
    <3>. DEFINE nb == [b EXCEPT !.want = size]
    <3>0. LiveOK(live, bump) /\ Apart(free, live) /\ Covered(free, live, bump)
      BY DEF Inv, HeapInv
    <3>1. b \in LiveBlock /\ size \in Nat /\ size =< b.user
      BY <2>2, <3>0, SizesAssumption DEF LiveOK, FitsInPlace
    <3>2. /\ nb \in LiveBlock /\ nb.addr = b.addr /\ nb.user = b.user
          /\ nb.want =< nb.user
      BY <3>1 DEF LiveBlock
    <3>. HIDE DEF nb
    <3>3. LiveEnd(nb) = LiveEnd(b)
      BY <3>2 DEF LiveEnd
    <3>4. live' = (live \ {b}) \cup {nb} /\ bump' = bump /\ free' = free
      BY <2>2 DEF nb
    <3>5. LiveOK(live', bump)
      <4>1. \A c \in live' : /\ c \in LiveBlock /\ Aligned(c.addr) /\ Aligned(c.user)
                             /\ c.want =< c.user /\ LiveEnd(c) =< bump
        BY <3>0, <3>2, <3>3, <3>4 DEF LiveOK
      <4>2. \A c, d \in live' : c # d => LiveEnd(c) =< d.addr \/ LiveEnd(d) =< c.addr
        BY <3>0, <3>2, <3>3, <3>4 DEF LiveOK
      <4>. QED BY <4>1, <4>2 DEF LiveOK
    <3>6. Apart(free, live')
      BY <3>0, <3>2, <3>3, <3>4 DEF Apart
    <3>7. Covered(free, live', bump)
      <4>1. \A u \in Nat : InLive(live, u) => InLive(live', u)
        BY <3>2, <3>3, <3>4 DEF InLive
      <4>. QED BY <3>0, <4>1 DEF Covered
    <3>. QED BY <3>4, <3>5, <3>6, <3>7 DEF Inv, HeapInv
  <2>3. CASE size # 0 /\ Move(b, size)
    <3>1. CASE UNCHANGED vars
      BY <3>1 DEF Inv, vars
    <3>2. ASSUME NEW i \in 1 .. Len(free),
                 FirstFit(Needed(size), i),
                 NEW k \in 0 .. Len(Carve(free, i, Needed(size))),
                 InsertsAfter(Carve(free, i, Needed(size)), b.addr, k),
                 free' = Released(Carve(free, i, Needed(size)), b, k),
                 live' = (live \cup {Carved(free, i, size)}) \ {b},
                 bump' = bump
          PROVE  Inv'
      <4>1. HeapInv(Carve(free, i, Needed(size)), bump, live \cup {Carved(free, i, size)})
        BY <2>3, <3>2, CarvedInv
      <4>2. b \in live \cup {Carved(free, i, size)}
        OBVIOUS
      <4>. QED BY <3>2, <4>1, <4>2, ReleaseKeeps DEF Inv
    <3>3. CASE /\ NoFit(Needed(size))
               /\ ~OutOfMemory(size)
               /\ \E k \in 0 .. Len(free) :
                     /\ InsertsAfter(free, b.addr, k)
                     /\ free' = Released(free, b, k)
               /\ bump' = bump + Needed(size)
               /\ live' = (live \cup {Bumped(size)}) \ {b}
      <4>1. HeapInv(free, bump + Needed(size), live \cup {Bumped(size)})
        BY <2>3, <3>3, RoomAbove, BumpedInv
      <4>2. b \in live \cup {Bumped(size)}
        OBVIOUS
      <4>. QED BY <3>3, <4>1, <4>2, ReleaseKeeps DEF Inv
    <3>. QED BY <2>3, <3>1, <3>2, <3>3 DEF Move
  <2>. QED BY <1>3, <2>1, <2>2, <2>3 DEF sage_realloc
<1>4. CASE sage_arena_reset
  <2>1. free' = <<>> /\ bump' = 0 /\ live' = {}
    BY <1>4 DEF sage_arena_reset
  <2>2. Len(free') = 0 /\ free' \in Seq(FreeBlock)
    BY <2>1
  <2>. QED BY <2>1, <2>2, ArenaAssumption
           DEF Inv, HeapInv, ListOK, Touching, LiveOK, Apart, Covered, Aligned, ALIGNMENT
<1>5. CASE UNCHANGED vars
  BY <1>5 DEF Inv, vars
<1>. QED BY <1>1, <1>2, <1>3, <1>4, <1>5 DEF Next

\* In every reachable heap HeapInv holds of the free list, the bump pointer
\* and the blocks in use.
THEOREM HeapInvariant == Spec => []Inv
<1>. QED BY InitInv, StepInv, PTL DEF Spec

\* The bump pointer stays inside the arena.
THEOREM HeapTypeCorrect == Spec => []TypeOK
<1>1. Inv => TypeOK
  BY DEF Inv, HeapInv, ListOK, LiveOK, TypeOK
<1>. QED BY <1>1, HeapInvariant, PTL

\* sage_free leaves the list in address order with a gap after every block.
THEOREM ListIsCoalesced == Spec => []Coalesced
<1>1. Inv => Coalesced
  <2>. SUFFICES ASSUME Inv, NEW i \in 1 .. Len(free), NEW j \in 1 .. Len(free), i < j
                PROVE  FreeEnd(i) < free[j].addr
    BY DEF Coalesced
  <2>1. ListOK(free, bump) /\ Touching(free, {})
    BY DEF Inv, HeapInv
  <2>2. End(free[i]) \in Nat /\ free[j].addr \in Nat /\ FreeEnd(i) = End(free[i])
    BY <2>1, ListFacts DEF FreeEnd, End
  <2>3. End(free[i]) =< free[j].addr /\ End(free[i]) # free[j].addr
    BY <2>1 DEF ListOK, Touching
  <2>. QED BY <2>2, <2>3
<1>. QED BY <1>1, HeapInvariant, PTL

\* No two blocks, in use or free, overlap.
THEOREM BlocksAreDisjoint == Spec => []NoOverlap
<1>1. Inv => NoOverlap
  BY DEF Inv, HeapInv, LiveOK, Apart, NoOverlap, FreeEnd, End
<1>. QED BY <1>1, HeapInvariant, PTL

\* Every unit below the bump pointer is in a block that is in use or free.
THEOREM NothingLeaks == Spec => []NoLeak
<1>1. Inv => NoLeak
  BY ArenaAssumption
     DEF Inv, HeapInv, Covered, InLive, InList, NoLeak, FreeEnd, End, Aligned
<1>. QED BY <1>1, HeapInvariant, PTL

\* A block has room for the request and ends below the bump pointer.
THEOREM BlocksAreBigEnough == Spec => []BigEnough
<1>1. Inv => BigEnough
  BY DEF Inv, HeapInv, LiveOK, BigEnough
<1>. QED BY <1>1, HeapInvariant, PTL

\* When nothing is in use the whole heap is one free block.
THEOREM FreedHeapIsWhole == Spec => []FreedIsWhole
<1>1. Inv => FreedIsWhole
  <2>. SUFFICES ASSUME Inv, live = {}, bump > 0
                PROVE  free = <<[addr |-> 0, size |-> bump]>>
    BY DEF FreedIsWhole
  <2>0. /\ bump \in 0 .. SAGE_ARENA_SIZE /\ bump \in Nat /\ ListOK(free, bump)
        /\ Touching(free, {}) /\ Covered(free, live, bump)
    BY ArenaAssumption DEF Inv, HeapInv
  <2>1. /\ free \in Seq(FreeBlock)
        /\ Len(free) \in Nat
        /\ \A j \in 1 .. Len(free) : /\ free[j] \in FreeBlock
                                     /\ free[j].addr \in Nat
                                     /\ free[j].size \in Nat
                                     /\ End(free[j]) \in Nat
                                     /\ End(free[j]) = free[j].addr + free[j].size
                                     /\ free[j].addr < End(free[j])
    BY <2>0, ListFacts
  <2>2. \A u \in Nat : u < bump /\ Aligned(u) => InList(free, u)
    BY <2>0 DEF Covered, InLive
  <2>3. PICK i \in 1 .. Len(free) : free[i].addr =< 0 /\ 0 < End(free[i])
    <3>1. Aligned(0)
      BY DEF Aligned, ALIGNMENT
    <3>. QED BY <2>2, <3>1 DEF InList
  <2>4. free[i].addr = 0 /\ End(free[i]) = free[i].size /\ End(free[i]) =< bump
    BY <2>0, <2>1, <2>3 DEF ListOK
  <2>5. \A j, k \in 1 .. Len(free) : j < k => End(free[j]) < free[k].addr
    <3>. SUFFICES ASSUME NEW j \in 1 .. Len(free), NEW k \in 1 .. Len(free), j < k
                  PROVE  End(free[j]) < free[k].addr
      OBVIOUS
    <3>1. End(free[j]) =< free[k].addr /\ End(free[j]) # free[k].addr
      BY <2>0 DEF ListOK, Touching
    <3>. QED BY <2>1, <3>1
  <2>6. i = 1
    <3>. SUFFICES ASSUME i # 1 PROVE FALSE
      OBVIOUS
    <3>1. 1 \in 1 .. Len(free) /\ 1 < i
      BY <2>1
    <3>2. End(free[1]) < free[i].addr
      BY <2>5, <3>1
    <3>. QED BY <2>1, <2>4, <3>1, <3>2
  <2>7. End(free[1]) = bump
    <3>. SUFFICES ASSUME End(free[1]) < bump PROVE FALSE
      BY <2>0, <2>1, <2>4, <2>6
    <3>1. Aligned(End(free[1])) /\ End(free[1]) \in Nat
      BY <2>0, <2>1, <2>4, <2>6 DEF ListOK
    <3>2. PICK j \in 1 .. Len(free) : free[j].addr =< End(free[1]) /\ End(free[1]) < End(free[j])
      BY <2>2, <3>1 DEF InList
    <3>3. j # 1
      BY <3>1, <3>2
    <3>4. End(free[1]) < free[j].addr
      <4>1. 1 \in 1 .. Len(free) /\ 1 < j
        BY <2>1, <3>3
      <4>. QED BY <2>5, <4>1
    <3>. QED BY <2>1, <3>1, <3>2, <3>4
  <2>8. Len(free) = 1
    <3>0. Len(free) \in Nat /\ 1 \in 1 .. Len(free)
      BY <2>1, <2>6
    <3>. SUFFICES ASSUME Len(free) > 1 PROVE FALSE
      BY <3>0
    <3>1. 2 \in 1 .. Len(free) /\ 1 \in 1 .. Len(free)
      BY <3>0
    <3>2. End(free[1]) < free[2].addr
      BY <2>5, <3>1
    <3>3. free[2].addr \in Nat /\ End(free[2]) \in Nat /\ free[2].addr < End(free[2])
      BY <2>1, <3>1
    <3>4. End(free[2]) =< bump
      BY <2>0, <3>1 DEF ListOK
    <3>. QED BY <2>0, <2>7, <3>2, <3>3, <3>4
  <2>9. free[1] = [addr |-> 0, size |-> bump]
    BY <2>1, <2>4, <2>6, <2>7, <2>8 DEF FreeBlock
  <2>. QED BY <2>1, <2>8, <2>9
<1>. QED BY <1>1, HeapInvariant, PTL
=============================================================================
