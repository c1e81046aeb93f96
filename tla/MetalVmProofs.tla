---------------------------- MODULE MetalVmProofs ----------------------------
(***************************************************************************)
(* Proofs about MetalVm, for pools, stacks and call depths of any size: the *)
(* interpreter stays inside its arrays, the collector reclaims no object    *)
(* that can be reached, and a return gives the caller its operands and its  *)
(* scope back.                                                              *)
(***************************************************************************)
EXTENDS MetalVm, WellFoundedInduction, TLAPS

HeapOK(h) ==
    /\ h \in Heap
    /\ \A s \in Slots : Len(h.elems[s]) =< MAX_ELEMS

\* The parts of the type invariant.
StackOK == sp \in 0 .. STACK_SIZE /\ stack \in [0 .. sp - 1 -> Values]
FramesOK ==
    /\ frame_count \in 0 .. CALL_STACK
    /\ frames \in [1 .. frame_count -> Frame]
    /\ start \in 0 .. CALL_STACK /\ stale \in 0 .. CALL_STACK /\ envs \in Nat
ScopesOK ==
    /\ depth \in 0 .. ENV_DEPTH - 1
    /\ scopes \in [0 .. depth -> [Names -> Values \cup {Undefined}]]
FlagsOK ==
    /\ mode \in {"main", "host", "query", "back", "idle", "over"}
    /\ vm \in {"g_vfs_vm", "g_sage_shell_vm"}
    /\ before \in SUBSET Slots
    /\ error \in BOOLEAN /\ dipped \in BOOLEAN /\ loose \in BOOLEAN /\ uneven \in BOOLEAN

\* The type invariant is the conjunction of its parts.
LEMMA TypeParts == TypeOK <=> StackOK /\ FramesOK /\ ScopesOK /\ HeapOK(heap) /\ FlagsOK
BY Zenon DEF TypeOK, StackOK, FramesOK, ScopesOK, HeapOK, FlagsOK

\* The same one step later.
LEMMA TypePartsNext ==
    TypeOK' <=> StackOK' /\ FramesOK' /\ ScopesOK' /\ HeapOK(heap') /\ FlagsOK'
BY Zenon DEF TypeOK, StackOK, FramesOK, ScopesOK, HeapOK, FlagsOK

\* The constants are numbers and no value is its own negative.
LEMMA Sizes ==
    /\ STACK_SIZE \in Nat /\ STACK_SIZE > 0 /\ CALL_STACK \in Nat
    /\ ENV_DEPTH \in Nat /\ ENV_DEPTH > 0
    /\ ARRAYS \in Nat /\ DICTS \in Nat /\ MAX_ELEMS \in Nat
    /\ ARGS \in Nat /\ ARGS < STACK_SIZE /\ ENVS \in Nat
BY SizesAssumption

\* Slots are numbers, and neither Plain nor Undefined is one of them.
LEMMA SlotFacts ==
    /\ Slots \subseteq Nat
    /\ Plain \notin Slots /\ Undefined \notin Slots /\ Plain # Undefined
    /\ Plain \in Values /\ Slots \subseteq Values /\ Undefined \notin Values
    /\ Arrays \subseteq Slots /\ Dicts \subseteq Slots /\ Arrays \cap Dicts = {}
    /\ \A v \in Values : v \in Slots \/ v = Plain
BY Sizes DEF Slots, Plain, Undefined, Values, Arrays, Dicts

\* A non-empty set of numbers has a least element.
LEMMA LeastElement ==
    ASSUME NEW T, T \subseteq Nat, T # {}
    PROVE  \E s \in T : \A t \in T : s =< t
<1>1. PICK x \in T : \A y \in T : ~(<<y, x>> \in OpToRel(<, Nat))
  BY NatLessThanWellFounded, WFMin, Zenon
<1>2. \A y \in T : ~(y < x)
  BY <1>1, Zenon DEF OpToRel
<1>. QED  BY <1>2

\* And one with an upper bound has a greatest element.
LEMMA GreatestElement ==
    ASSUME NEW n \in Nat, NEW T, T \subseteq 0 .. n, T # {}
    PROVE  \E s \in T : \A t \in T : t =< s
<1>. DEFINE U == {n - t : t \in T}
<1>0. PICK r \in T : TRUE
  BY Zenon
<1>1. U \subseteq Nat /\ U # {}
  <2>1. \A t \in T : n - t \in Nat
    OBVIOUS
  <2>2. n - r \in U
    BY <1>0, Zenon
  <2>. QED  BY <2>1, <2>2, Zenon
<1>2. PICK u \in U : \A t \in U : u =< t
  BY <1>1, LeastElement, Zenon
<1>3. PICK s \in T : u = n - s
  BY Zenon
<1>4. \A t \in T : n - s =< n - t
  BY <1>2, <1>3, Zenon
<1>. QED  BY <1>4

------------------------------------------------------------------------------
(* The object pools                                                         *)

\* The values that an instruction may use when the slots of S are in use.
Live(S) == S \cup {Plain}

\* The slots that an allocation hands out only after a collection has freed
\* them: in use, and below the count.
Held(h) == h.in_use \cap h.taken

\* A heap has these three fields and no other.
HeapFields(h) ==
    /\ h = [in_use |-> h.in_use, taken |-> h.taken, elems |-> h.elems]
    /\ h.in_use \in SUBSET Slots /\ h.taken \in SUBSET Slots
    /\ h.elems \in [Slots -> Seq(Values)]

\* That is what the type invariant says of it.
LEMMA HeapHasFields ==
    ASSUME NEW h, HeapOK(h)
    PROVE  HeapFields(h)
BY DEF HeapFields, HeapOK, Heap

\* And a record of three such fields is a heap.
LEMMA IsHeap ==
    ASSUME NEW u \in SUBSET Slots, NEW t \in SUBSET Slots, NEW e \in [Slots -> Seq(Values)],
           \A s \in Slots : Len(e[s]) =< MAX_ELEMS
    PROVE  HeapOK([in_use |-> u, taken |-> t, elems |-> e])
BY Zenon DEF HeapOK, Heap

\* A heap in which slot s holds w.
Holding(h, s, w) ==
    [in_use |-> h.in_use, taken |-> h.taken, elems |-> [h.elems EXCEPT ![s] = w]]

\* Heap g is heap h but for slot s, which holds w.
HoldsOnly(h, s, w, g) ==
    /\ g.in_use = h.in_use /\ g.taken = h.taken
    /\ \A t \in Slots : g.elems[t] = IF t = s THEN w ELSE h.elems[t]

\* A slot is all that changes when its elements are replaced.
LEMMA ChangedSlot ==
    ASSUME NEW h, HeapFields(h), NEW s \in Slots, NEW w
    PROVE  [h EXCEPT !.elems[s] = w] = Holding(h, s, w)
<1>. DEFINE e == [h.elems EXCEPT ![s] = w]
<1>1. [h EXCEPT !.elems[s] = w] = [h EXCEPT !.elems = e]
  BY Zenon
<1>. HIDE DEF e
<1>2. [h EXCEPT !.elems = e] = [in_use |-> h.in_use, taken |-> h.taken, elems |-> e]
  BY DEF HeapFields
<1>. QED  BY <1>1, <1>2, Zenon DEF Holding, e

\* And the heap keeps its type when the new elements fit.
LEMMA HoldingType ==
    ASSUME NEW h, HeapOK(h), NEW s \in Slots, NEW w \in Seq(Values), Len(w) =< MAX_ELEMS
    PROVE  HeapOK(Holding(h, s, w)) /\ HoldsOnly(h, s, w, Holding(h, s, w))
<1>. DEFINE e == [h.elems EXCEPT ![s] = w]
<1>0. HeapFields(h) /\ \A t \in Slots : Len(h.elems[t]) =< MAX_ELEMS
  BY HeapHasFields, Zenon DEF HeapOK
<1>1. e \in [Slots -> Seq(Values)] /\ \A t \in Slots : e[t] = IF t = s THEN w ELSE h.elems[t]
  BY <1>0, Zenon DEF HeapFields
<1>2. Holding(h, s, w) = [in_use |-> h.in_use, taken |-> h.taken, elems |-> e]
  BY Zenon DEF Holding
<1>. HIDE DEF e
<1>3. \A t \in Slots : Len(e[t]) =< MAX_ELEMS
  BY <1>0, <1>1, Zenon
<1>4. HeapOK(Holding(h, s, w))
  BY <1>0, <1>1, <1>2, <1>3, IsHeap, Zenon DEF HeapFields
<1>5. /\ Holding(h, s, w).in_use = h.in_use /\ Holding(h, s, w).taken = h.taken
      /\ Holding(h, s, w).elems = e
  BY <1>2
<1>. QED  BY <1>1, <1>4, <1>5, Zenon DEF HoldsOnly

\* Marking reaches the roots and whatever their elements refer to, but for the
\* elements of the slots at which it stops.
LEMMA MarkedFacts ==
    ASSUME NEW h, HeapOK(h), NEW roots, NEW old
    PROVE  /\ Marked(h.elems, roots, old) \subseteq Slots
           /\ roots \cap Slots \subseteq Marked(h.elems, roots, old)
           /\ Closed(h.elems, Marked(h.elems, roots, old), old)
<1>. DEFINE M == Marked(h.elems, roots, old)
<1>1. M \subseteq Slots /\ roots \cap Slots \subseteq M
  BY Zenon DEF Marked
<1>2. ASSUME NEW s \in M \ old, NEW i \in 1 .. Len(h.elems[s])
      PROVE  h.elems[s][i] \in M \cup {Plain}
  <2>0. s \in Slots /\ h.elems[s] \in Seq(Values)
    BY <1>1, <1>2, Zenon DEF HeapOK, Heap
  <2>1. h.elems[s][i] \in Values
    BY <2>0, <1>2
  <2>2. CASE h.elems[s][i] \in Slots
    <3>1. ASSUME NEW S \in SUBSET Slots, roots \cap Slots \subseteq S, Closed(h.elems, S, old)
          PROVE  h.elems[s][i] \in S
      <4>1. s \in S \ old
        BY <3>1, <1>2, Zenon DEF Marked
      <4>2. h.elems[s][i] \in S \cup {Plain}
        BY <4>1, <3>1, <1>2, Zenon DEF Closed
      <4>. QED  BY <4>2, <2>2, SlotFacts, Zenon
    <3>. QED  BY <3>1, <2>2, Zenon DEF Marked
  <2>. QED  BY <2>1, <2>2, SlotFacts, Zenon
<1>3. Closed(h.elems, M, old)
  BY <1>2, Zenon DEF Closed
<1>. QED  BY <1>1, <1>3, Zenon

\* It reaches no more than it must.
LEMMA MarkedLeast ==
    ASSUME NEW e, NEW roots, NEW old, NEW S \in SUBSET Slots, roots \cap Slots \subseteq S,
           Closed(e, S, old)
    PROVE  Marked(e, roots, old) \subseteq S
BY Zenon DEF Marked

\* A set that is closed stays closed when marking may stop earlier.
LEMMA ClosedMore ==
    ASSUME NEW e, NEW S, NEW old, Closed(e, S, {})
    PROVE  Closed(e, S, old)
BY Zenon DEF Closed

\* A collection leaves the elements and the counts alone.
LEMMA CollectedFacts ==
    ASSUME NEW h, HeapOK(h), NEW pool, NEW roots
    PROVE  LET c == Collected(h, pool, roots) IN
             /\ HeapOK(c)
             /\ c.elems = h.elems /\ c.taken = h.taken
             /\ ~Full(h, pool) => c = h
             /\ Full(h, pool) =>
                  c.in_use = Uncleared(h) \cup Marked(h.elems, roots, Uncleared(h))
<1>1. CASE Full(h, pool)
  <2>. DEFINE u == Uncleared(h) \cup Marked(h.elems, roots, Uncleared(h))
  <2>0. HeapFields(h)
    BY HeapHasFields, Zenon
  <2>1. u \in SUBSET Slots
    BY <2>0, MarkedFacts, Zenon DEF Uncleared, HeapFields
  <2>2. Collected(h, pool, roots) = [h EXCEPT !.in_use = u]
    BY <1>1, Zenon DEF Collected, metal_vm_gc
  <2>. HIDE DEF u
  <2>3. [h EXCEPT !.in_use = u] = [in_use |-> u, taken |-> h.taken, elems |-> h.elems]
    BY <2>0 DEF HeapFields
  <2>4. HeapOK([in_use |-> u, taken |-> h.taken, elems |-> h.elems])
    BY <2>0, <2>1, IsHeap, Zenon DEF HeapFields, HeapOK
  <2>. QED  BY <1>1, <2>2, <2>3, <2>4 DEF u
<1>2. CASE ~Full(h, pool)
  BY <1>2, Zenon DEF Collected
<1>. QED  BY <1>1, <1>2, Zenon

\* A slot that is handed out was free or at the count, belongs to the pool and
\* is empty; the elements of the others stay.
LEMMA NewFacts ==
    ASSUME NEW h, HeapOK(h), NEW pool \in {Arrays, Dicts}, NEW roots
    PROVE  LET c == Collected(h, pool, roots)
               s == NewSlot(h, pool, roots)
               n == NewHeap(h, pool, roots) IN
             /\ s \in pool \cup {Plain}
             /\ s = Plain => n = c
             /\ s # Plain =>
                  /\ s \in Slots /\ s \notin Held(c)
                  /\ n.in_use = c.in_use \cup {s} /\ n.taken = c.taken \cup {s}
                  /\ n.elems[s] = <<>>
             /\ \A t \in Slots : t # s => n.elems[t] = h.elems[t]
             /\ HeapOK(n)
<1>. DEFINE c == Collected(h, pool, roots)
            s == NewSlot(h, pool, roots)
            n == NewHeap(h, pool, roots)
            free == Free(c, pool)
<1>1. HeapOK(c) /\ c.elems = h.elems
  BY CollectedFacts, Zenon
<1>2. pool \subseteq Nat /\ pool \subseteq Slots
  BY SlotFacts, Zenon
<1>3. CASE free = {}
  <2>1. s = Plain
    BY <1>3, Zenon DEF NewSlot
  <2>2. n = c
    BY <2>1, Zenon DEF NewHeap
  <2>. QED  BY <1>1, <2>1, <2>2, Zenon
<1>4. CASE free # {}
  <2>0. s = CHOOSE u \in free : \A t \in free : u =< t
    BY <1>4, Zenon DEF NewSlot
  <2>00. free \subseteq pool /\ \A u \in free : u \notin Held(c)
    BY Zenon DEF Free, Held
  <2>. HIDE DEF free
  <2>1. \E u \in free : \A t \in free : u =< t
    BY <1>4, <1>2, <2>00, LeastElement, Zenon
  <2>2. s \in pool /\ s \notin Held(c)
    BY <2>0, <2>00, <2>1, Zenon
  <2>3. s # Plain /\ s \in Slots
    BY <2>2, <1>2, SlotFacts, Zenon
  <2>. DEFINE e == [c.elems EXCEPT ![s] = <<>>]
  <2>4. n = [in_use |-> c.in_use \cup {s}, taken |-> c.taken \cup {s}, elems |-> e]
    BY <2>3, Zenon DEF NewHeap
  <2>5. HeapFields(c)
    BY <1>1, HeapHasFields, Zenon
  <2>6. <<>> \in Seq(Values) /\ Len(<<>>) = 0
    OBVIOUS
  <2>. HIDE DEF s, c, n
  <2>7. e \in [Slots -> Seq(Values)] /\ \A t \in Slots : e[t] = IF t = s THEN <<>> ELSE c.elems[t]
    BY <2>3, <2>5, <2>6, Zenon DEF HeapFields
  <2>. HIDE DEF e
  <2>8. \A t \in Slots : Len(e[t]) =< MAX_ELEMS
    BY <2>6, <2>7, <1>1, Sizes DEF HeapOK
  <2>9. HeapOK(n)
    <3>1. c.in_use \cup {s} \in SUBSET Slots /\ c.taken \cup {s} \in SUBSET Slots
      BY <2>3, <2>5, Zenon DEF HeapFields
    <3>. QED  BY <2>4, <2>7, <2>8, <3>1, IsHeap, Zenon
  <2>10. n.in_use = c.in_use \cup {s} /\ n.taken = c.taken \cup {s} /\ n.elems = e
    BY <2>4, Zenon
  <2>11. \A t \in Slots : t # s => n.elems[t] = h.elems[t]
    BY <2>7, <2>10, <1>1, Zenon
  <2>12. n.elems[s] = <<>>
    BY <2>3, <2>7, <2>10, Zenon
  <2>. QED  BY <2>2, <2>3, <2>9, <2>10, <2>11, <2>12, Zenon DEF s, c, n
<1>. QED  BY <1>3, <1>4, Zenon

\* The contents of the other slots stay as they are.
LEMMA OldElems ==
    ASSUME NEW h, HeapOK(h), NEW pool \in {Arrays, Dicts}, NEW roots,
           NEW t \in Slots, t # NewSlot(h, pool, roots)
    PROVE  NewHeap(h, pool, roots).elems[t] = h.elems[t]
BY NewFacts

\* Heap g is heap h, or has v in slot s besides elements that it had there.
Stores(h, s, v, g) ==
    g = h \/ \E w \in Seq(Values) :
       /\ s \in Slots /\ Len(w) =< MAX_ELEMS /\ g = Holding(h, s, w)
       /\ \A j \in 1 .. Len(w) :
             w[j] = v \/ (j \in 1 .. Len(h.elems[s]) /\ w[j] = h.elems[s][j])

\* Adding an element, or replacing one, does that.
LEMMA StoreFacts ==
    ASSUME NEW h, HeapOK(h), NEW s, NEW v \in Values, NEW i, NEW g,
           g = Added(h, s, v) \/ g = Stored(h, s, i, v)
    PROVE  Stores(h, s, v, g)
<1>0. HeapFields(h)
  BY HeapHasFields, Zenon
<1>1. ASSUME g = Added(h, s, v) PROVE Stores(h, s, v, g)
  <2>1. CASE ~(s \in Slots /\ Len(h.elems[s]) < MAX_ELEMS)
    BY <1>1, <2>1, Zenon DEF Added, Stores
  <2>2. CASE s \in Slots /\ Len(h.elems[s]) < MAX_ELEMS
    <3>. DEFINE w == Append(h.elems[s], v)
    <3>0. h.elems[s] \in Seq(Values)
      BY <2>2, <1>0, Zenon DEF HeapFields
    <3>1. /\ w \in Seq(Values) /\ Len(w) =< MAX_ELEMS
          /\ \A j \in 1 .. Len(w) :
                w[j] = v \/ (j \in 1 .. Len(h.elems[s]) /\ w[j] = h.elems[s][j])
      BY <3>0, <2>2, Sizes
    <3>2. g = Holding(h, s, w)
      <4>1. Added(h, s, v) = [h EXCEPT !.elems[s] = w]
        BY <2>2, Zenon DEF Added
      <4>. HIDE DEF w
      <4>. QED  BY <1>0, <1>1, <2>2, <4>1, ChangedSlot, Zenon
    <3>. HIDE DEF w
    <3>. QED  BY <2>2, <3>1, <3>2, Zenon DEF Stores
  <2>. QED  BY <2>1, <2>2, Zenon
<1>2. ASSUME g = Stored(h, s, i, v) PROVE Stores(h, s, v, g)
  <2>1. CASE ~(s \in Slots /\ i \in 1 .. Len(h.elems[s]))
    BY <1>1, <1>2, <2>1, Zenon DEF Stored, Stores
  <2>2. CASE s \in Slots /\ i \in 1 .. Len(h.elems[s])
    <3>. DEFINE w == [h.elems[s] EXCEPT ![i] = v]
    <3>0. h.elems[s] \in Seq(Values) /\ Len(h.elems[s]) =< MAX_ELEMS
      BY <2>2, <1>0, Zenon DEF HeapFields, HeapOK
    <3>1. /\ w \in Seq(Values) /\ Len(w) =< MAX_ELEMS
          /\ \A j \in 1 .. Len(w) :
                w[j] = v \/ (j \in 1 .. Len(h.elems[s]) /\ w[j] = h.elems[s][j])
      BY <3>0, <2>2
    <3>2. g = Holding(h, s, w)
      <4>1. Stored(h, s, i, v) = [h EXCEPT !.elems[s] = w]
        BY <2>2, Zenon DEF Stored
      <4>. HIDE DEF w
      <4>. QED  BY <1>0, <1>2, <2>2, <4>1, ChangedSlot, Zenon
    <3>. HIDE DEF w
    <3>. QED  BY <2>2, <3>1, <3>2, Zenon DEF Stores
  <2>. QED  BY <2>1, <2>2, Zenon
<1>. QED  BY <1>1, <1>2, Zenon

\* So it keeps the types of the pools.
LEMMA StoreType ==
    ASSUME NEW h, HeapOK(h), NEW s, NEW v \in Values, NEW i
    PROVE  HeapOK(Added(h, s, v)) /\ HeapOK(Stored(h, s, i, v))
<1>1. ASSUME NEW g, g = Added(h, s, v) \/ g = Stored(h, s, i, v) PROVE HeapOK(g)
  <2>1. CASE g = h
    BY <2>1, Zenon
  <2>2. CASE g # h
    <3>1. PICK w \in Seq(Values) : s \in Slots /\ Len(w) =< MAX_ELEMS /\ g = Holding(h, s, w)
      <4>1. Stores(h, s, v, g)
        BY <1>1, StoreFacts, Zenon
      <4>. QED  BY <4>1, <2>2, Zenon DEF Stores
    <3>. QED  BY <3>1, HoldingType, Zenon
  <2>. QED  BY <2>1, <2>2, Zenon
<1>. QED  BY <1>1, Zenon

\* Heap g is heap h, or has the first of n values vs in slot s.
Fills(h, s, vs, n, g) ==
    g = h \/ \E w \in Seq(Values) :
       /\ s \in Slots /\ Len(w) =< MAX_ELEMS /\ g = Holding(h, s, w)
       /\ \A j \in 1 .. Len(w) : j \in 1 .. n /\ w[j] = vs[j]

\* Filling a new slot does that.
LEMMA FillFacts ==
    ASSUME NEW h, HeapOK(h), NEW s, NEW n \in Nat, NEW vs,
           \A j \in 1 .. n : vs[j] \in Values
    PROVE  Fills(h, s, vs, n, AddedAll(h, s, vs, n))
<1>0. HeapFields(h)
  BY HeapHasFields, Zenon
<1>1. CASE s \notin Slots
  BY <1>1, Zenon DEF AddedAll, Fills
<1>2. CASE s \in Slots
  <2>. DEFINE m == AtMost(n, MAX_ELEMS)
              w == [j \in 1 .. m |-> vs[j]]
  <2>1. m \in Nat /\ m =< MAX_ELEMS /\ m =< n
    BY Sizes DEF AtMost
  <2>2. AddedAll(h, s, vs, n) = Holding(h, s, w)
    <3>1. AddedAll(h, s, vs, n) = [h EXCEPT !.elems[s] = w]
      BY <1>2, Zenon DEF AddedAll
    <3>. HIDE DEF w
    <3>. QED  BY <1>0, <1>2, <3>1, ChangedSlot, Zenon
  <2>. HIDE DEF m
  <2>3. /\ w \in Seq(Values) /\ Len(w) =< MAX_ELEMS
        /\ \A j \in 1 .. Len(w) : j \in 1 .. n /\ w[j] = vs[j]
    BY <2>1
  <2>. HIDE DEF w
  <2>. QED  BY <1>2, <2>2, <2>3, Zenon DEF Fills
<1>. QED  BY <1>1, <1>2, Zenon

\* And keeps the types.
LEMMA FillType ==
    ASSUME NEW h, HeapOK(h), NEW s, NEW n \in Nat, NEW vs,
           \A j \in 1 .. n : vs[j] \in Values
    PROVE  HeapOK(AddedAll(h, s, vs, n))
<1>1. CASE AddedAll(h, s, vs, n) = h
  BY <1>1, Zenon
<1>2. CASE AddedAll(h, s, vs, n) # h
  <2>1. PICK w \in Seq(Values) :
           s \in Slots /\ Len(w) =< MAX_ELEMS /\ AddedAll(h, s, vs, n) = Holding(h, s, w)
    <3>1. Fills(h, s, vs, n, AddedAll(h, s, vs, n))
      BY FillFacts, Zenon
    <3>. QED  BY <3>1, <1>2, Zenon DEF Fills
  <2>. QED  BY <2>1, HoldingType, Zenon
<1>. QED  BY <1>1, <1>2, Zenon

------------------------------------------------------------------------------
(* The type invariant                                                       *)

\* Operands are values.
LEMMA OperandType ==
    ASSUME StackOK, NEW n \in Nat
    PROVE  Operand(n) \in Values /\ Below(n) \in 0 .. sp
BY SlotFacts DEF StackOK, Operand, Below

\* Popping keeps the type of the stack.
LEMMA DropType ==
    ASSUME StackOK, NEW n \in Nat, Drop(n)
    PROVE  StackOK'
<1>1. Below(n) \in 0 .. sp
  BY OperandType, Zenon
<1>2. sp' = Below(n) /\ stack' = [i \in 0 .. Below(n) - 1 |-> stack[i]]
  BY Zenon DEF Drop, Cut
<1>. QED  BY <1>1, <1>2, Sizes DEF StackOK

\* A value fits on a stack that is not full.
LEMMA ToppedType ==
    ASSUME StackOK, NEW n \in 0 .. sp, n < STACK_SIZE, NEW v \in Values,
           stack' = Topped(n, v), sp' = n + 1
    PROVE  StackOK'
<1>1. stack' = [i \in 0 .. n |-> IF i = n THEN v ELSE stack[i]]
  BY Zenon DEF Topped
<1>2. n + 1 \in 0 .. STACK_SIZE
  BY Sizes DEF StackOK
<1>3. \A i \in 0 .. n : (IF i = n THEN v ELSE stack[i]) \in Values
  BY DEF StackOK
<1>4. 0 .. n = 0 .. sp' - 1
  BY <1>2
<1>. QED  BY <1>1, <1>2, <1>3, <1>4, Zenon DEF StackOK

\* Pushing keeps the type of the stack.
LEMMA PushType ==
    ASSUME StackOK, NEW v \in Values, Push(v)
    PROVE  StackOK'
<1>1. CASE sp >= STACK_SIZE
  <2>1. UNCHANGED <<stack, sp>>
    BY <1>1, Sizes DEF Push, StackOK
  <2>. QED  BY <2>1, Zenon DEF StackOK
<1>2. CASE sp < STACK_SIZE
  <2>1. stack' = Topped(sp, v) /\ sp' = sp + 1
    BY <1>2, Sizes DEF Push, StackOK
  <2>2. sp \in 0 .. sp
    BY DEF StackOK
  <2>. QED  BY <1>2, <2>1, <2>2, ToppedType, Zenon
<1>. QED  BY <1>1, <1>2, Sizes DEF StackOK

\* So does replacing operands by a result.
LEMMA ReplaceType ==
    ASSUME StackOK, NEW n \in Nat \ {0}, NEW v \in Values, Replace(n, v)
    PROVE  StackOK'
<1>1. Below(n) \in 0 .. sp /\ Below(n) < STACK_SIZE
  BY Sizes DEF StackOK, Below
<1>. QED  BY <1>1, ToppedType, Zenon DEF Replace

\* The interpreter is at rest when it has stopped.
LEMMA LeftModes ==
    ASSUME NEW failed
    PROVE  Left(failed) \in {"back", "idle", "over"}
BY DEF Left

\* The mode and the flags keep their types.
LEMMA FlagsNext ==
    ASSUME TypeOK, Next
    PROVE  FlagsOK'
<1>0. FlagsOK /\ heap.taken \in SUBSET Slots
  BY TypeParts, HeapHasFields, Zenon DEF HeapFields
<1>00. \A b \in BOOLEAN : Left(b) \in {"back", "idle", "over"}
  BY LeftModes, Zenon
<1>. USE <1>0, <1>00 DEF FlagsOK
<1>1. CASE OP_CONSTANT
  BY <1>1, Zenon DEF OP_CONSTANT, Push, Fail, Run, Quiet, calls
<1>2. CASE OP_DUP
  BY <1>2, Zenon DEF OP_DUP, Push, Fail, Run, Quiet, calls
<1>3. CASE OP_POP
  BY <1>3, Zenon DEF OP_POP, Drop, Dip, Run, Quiet, calls
<1>4. ASSUME NEW n \in 1 .. 3, OP_COMPUTE(n) PROVE FlagsOK'
  BY <1>4, Zenon DEF OP_COMPUTE, Replace, Dip, Run, Quiet, calls
<1>5. ASSUME NEW n \in 0 .. 2, OP_FAIL(n) PROVE FlagsOK'
  BY <1>5, Zenon DEF OP_FAIL, Drop, Dip, Fail, Quiet, calls
<1>6. ASSUME NEW x \in Names, OP_GET_GLOBAL(x) PROVE FlagsOK'
  BY <1>6, Zenon DEF OP_GET_GLOBAL, Push, Fail, Run, Quiet, calls
<1>7. ASSUME NEW x \in Names, OP_DEFINE_GLOBAL(x) PROVE FlagsOK'
  BY <1>7, Zenon DEF OP_DEFINE_GLOBAL, Drop, Dip, Run
<1>8. ASSUME NEW x \in Names, OP_SET_GLOBAL(x) PROVE FlagsOK'
  BY <1>8, Zenon DEF OP_SET_GLOBAL, Drop, Dip, Run
<1>9. CASE OP_PUSH_ENV
  BY <1>9, Zenon DEF OP_PUSH_ENV
<1>10. CASE OP_POP_ENV
  BY <1>10, Zenon DEF OP_POP_ENV
<1>11. ASSUME NEW argc \in 0 .. ARGS, NEW params \in Params, OP_CALL(argc, params) PROVE FlagsOK'
  BY <1>11, Zenon DEF OP_CALL, Enter, Fail, Run, calls
<1>12. CASE OP_RETURN
  BY <1>12, Zenon DEF OP_RETURN, Drop, Dip, calls
<1>13. CASE OP_HALT
  BY <1>13, Zenon DEF OP_HALT, calls
<1>14. ASSUME NEW argc \in 0 .. ARGS, NEW params \in Params, NEW query \in BOOLEAN,
             metal_vm_call(argc, params, query)
      PROVE  FlagsOK'
  BY <1>14, Zenon DEF metal_vm_call, Enter, calls
<1>15. ASSUME NEW n \in 0 .. ARGS, OP_ARRAY(n) PROVE FlagsOK'
  BY <1>15, Zenon DEF OP_ARRAY, Push, Replace, Dip, Fail, Run, calls
<1>16. ASSUME NEW n \in 0 .. ARGS, OP_DICT(n) PROVE FlagsOK'
  BY <1>16, Zenon DEF OP_DICT, Push, Replace, Dip, Fail, Run, calls
<1>17. ASSUME NEW n \in 1 .. 2, NEW i \in 0 .. MAX_ELEMS, OP_GET(n, i) PROVE FlagsOK'
  BY <1>17, Zenon DEF OP_GET, Replace, Dip, Run, Quiet, calls
<1>18. ASSUME NEW n \in 2 .. 3, NEW i \in 0 .. MAX_ELEMS, OP_SET(n, i) PROVE FlagsOK'
  BY <1>18, Zenon DEF OP_SET, Replace, Dip, Run, calls
<1>19. CASE ArrayPush
  BY <1>19, Zenon DEF ArrayPush, Replace, Dip, Run, calls
<1>20. ASSUME NEW n \in 0 .. MAX_ELEMS, OP_SLICE(n) PROVE FlagsOK'
  BY <1>20, Zenon DEF OP_SLICE, Replace, Drop, Dip, Fail, Run, calls
<1>21. ASSUME NEW argc \in 0 .. ARGS, NEW n \in 0 .. MAX_ELEMS, NativeArray(argc, n) PROVE FlagsOK'
  BY <1>21, Zenon DEF NativeArray, Replace, Dip, Run, calls
<1>22. ASSUME NEW argc \in 0 .. ARGS, NativeList(argc) PROVE FlagsOK'
  BY <1>22, Zenon DEF NativeList, Replace, Dip, Run, calls
<1>23. CASE vfs_reset
  BY <1>23, Zenon DEF vfs_reset
<1>24. CASE sage_shell_run
  BY <1>24, Zenon DEF sage_shell_run
<1>. QED
  BY <1>1, <1>2, <1>3, <1>4, <1>5, <1>6, <1>7, <1>8, <1>9, <1>10, <1>11, <1>12, <1>13, <1>14, <1>15, <1>16, <1>17, <1>18, <1>19, <1>20, <1>21, <1>22, <1>23, <1>24, Zenon DEF Next

\* The place at which a call cuts the stack, and the operands of its caller.
LEMMA NewFrameType ==
    ASSUME StackOK, FramesOK, ScopesOK, NEW b \in 0 .. STACK_SIZE - 1, NEW st,
           \A i \in 0 .. b : st[i] \in Values
    PROVE  NewFrame(st, b) \in Frame
<1>1. \A i \in 0 .. STACK_SIZE - 1 : (IF i < b THEN st[i] ELSE Plain) \in Values
  BY SlotFacts, Sizes
<1>2. envs \in Nat /\ depth \in Nat
  BY Sizes DEF FramesOK, ScopesOK
<1>. QED  BY <1>1, <1>2, Zenon DEF NewFrame, Frame

\* The frame of a call is added on top.
LEMMA EnterFrames ==
    ASSUME StackOK, FramesOK, ScopesOK, NEW b \in 0 .. STACK_SIZE - 1, NEW st,
           \A i \in 0 .. b : st[i] \in Values, NEW argc, NEW params,
           Enter(st, b, argc, params), frame_count < CALL_STACK, start' \in 0 .. CALL_STACK,
           UNCHANGED stale
    PROVE  FramesOK'
<1>. DEFINE f == NewFrame(st, b)
<1>1. f \in Frame
  BY NewFrameType, Zenon
<1>2. /\ frames' = [i \in 1 .. frame_count + 1 |-> IF i > frame_count THEN f ELSE frames[i]]
      /\ frame_count' = frame_count + 1 /\ envs' = 0
  BY Zenon DEF Enter
<1>. HIDE DEF f
<1>3. \A i \in 1 .. frame_count + 1 : (IF i > frame_count THEN f ELSE frames[i]) \in Frame
  BY <1>1 DEF FramesOK
<1>4. frame_count' \in 0 .. CALL_STACK
  BY <1>2, Sizes DEF FramesOK
<1>. QED  BY <1>2, <1>3, <1>4, Zenon DEF FramesOK

\* The function and its arguments lie on the stack, or are put there.
LEMMA CallPlace ==
    ASSUME StackOK, NEW argc \in 0 .. ARGS, argc < sp
    PROVE  /\ sp - argc - 1 \in 0 .. STACK_SIZE - 1
           /\ \A i \in 0 .. sp - 1 : stack[i] \in Values
BY Sizes DEF StackOK

\* metal_vm_call pushes them, as far as there is room.
HostTop(argc) == IF sp + argc + 1 > STACK_SIZE THEN STACK_SIZE ELSE sp + argc + 1
HostStack(argc) == [i \in 0 .. HostTop(argc) - 1 |-> IF i < sp THEN stack[i] ELSE Plain]

\* The place of a function that the kernel calls.
LEMMA HostPlace ==
    ASSUME StackOK, NEW argc \in 0 .. ARGS
    PROVE  /\ HostTop(argc) \in 0 .. STACK_SIZE
           /\ HostTop(argc) - argc - 1 \in 0 .. STACK_SIZE - 1
           /\ HostTop(argc) - argc - 1 =< sp /\ sp =< HostTop(argc)
           /\ HostStack(argc) \in [0 .. HostTop(argc) - 1 -> Values]
           /\ \A i \in 0 .. sp - 1 : HostStack(argc)[i] = stack[i]
<1>1. /\ HostTop(argc) \in 0 .. STACK_SIZE
      /\ HostTop(argc) - argc - 1 \in 0 .. STACK_SIZE - 1
      /\ HostTop(argc) - argc - 1 =< sp /\ sp =< HostTop(argc)
  BY Sizes DEF StackOK, HostTop
<1>2. \A i \in 0 .. HostTop(argc) - 1 : (IF i < sp THEN stack[i] ELSE Plain) \in Values
  BY <1>1, SlotFacts DEF StackOK
<1>. QED  BY <1>1, <1>2 DEF HostStack, StackOK

\* What metal_vm_call does, in these terms.
LEMMA HostCall ==
    ASSUME NEW argc, NEW params, NEW query, metal_vm_call(argc, params, query)
    PROVE  \/ /\ frame_count >= CALL_STACK
              /\ stack' = HostStack(argc) /\ sp' = HostTop(argc)
              /\ UNCHANGED dipped /\ UNCHANGED calls /\ UNCHANGED <<heap, loose>>
           \/ /\ frame_count < CALL_STACK
              /\ Enter(HostStack(argc), HostTop(argc) - argc - 1, argc, params)
              /\ start' = frame_count /\ UNCHANGED stale
              /\ UNCHANGED <<heap, loose>>
BY Zenon DEF metal_vm_call, HostStack, HostTop

\* What a return does to frames, scopes and flags.
LEMMA ReturnSteps ==
    ASSUME OP_RETURN, frame_count # 0
    PROVE  /\ frames' = [i \in 1 .. frame_count - 1 |-> frames[i]]
           /\ frame_count' = frame_count - 1
           /\ envs' = frames[frame_count].envs
           /\ scopes' = Shut /\ depth' = ShutDepth
           /\ uneven' = (uneven \/ envs > 0 \/ frame_count =< stale)
           /\ dipped' = (dipped \/ Below(1) < frames[frame_count].base)
           /\ UNCHANGED <<heap, loose>> /\ UNCHANGED start /\ UNCHANGED stale
BY Zenon DEF OP_RETURN, CloseScope

\* And what it does to the stack and the mode.
LEMMA ReturnPlace ==
    ASSUME OP_RETURN, frame_count # 0
    PROVE  \E junk \in [Below(1) .. frames[frame_count].base - 1 -> Values] :
              LET b == frames[frame_count].base
                  back == Returned(b, junk, Operand(0)) IN
                 \/ sp' = b /\ stack' = [i \in 0 .. b - 1 |-> back[i]] /\ mode # "main" /\ mode' = Left(FALSE)
                 \/ sp' = b + 1 /\ stack' = back /\ mode' = mode
BY Zenon DEF OP_RETURN, ReturnTo

\* Frames keep their types.
LEMMA FramesNext ==
    ASSUME TypeOK, Next
    PROVE  FramesOK'
<1>. StackOK /\ FramesOK /\ ScopesOK
  BY TypeParts, Zenon
<1>1. CASE OP_CONSTANT
  BY <1>1, Zenon DEF FramesOK, OP_CONSTANT, Quiet, calls
<1>2. CASE OP_DUP
  BY <1>2, Zenon DEF FramesOK, OP_DUP, Quiet, calls
<1>3. CASE OP_POP
  BY <1>3, Zenon DEF FramesOK, OP_POP, Quiet, calls
<1>4. ASSUME NEW n \in 1 .. 3, OP_COMPUTE(n) PROVE FramesOK'
  BY <1>4, Zenon DEF FramesOK, OP_COMPUTE, Quiet, calls
<1>5. ASSUME NEW n \in 0 .. 2, OP_FAIL(n) PROVE FramesOK'
  BY <1>5, Zenon DEF FramesOK, OP_FAIL, Quiet, calls
<1>6. ASSUME NEW x \in Names, OP_GET_GLOBAL(x) PROVE FramesOK'
  BY <1>6, Zenon DEF FramesOK, OP_GET_GLOBAL, Quiet, calls
<1>7. ASSUME NEW x \in Names, OP_DEFINE_GLOBAL(x) PROVE FramesOK'
  BY <1>7, Zenon DEF FramesOK, OP_DEFINE_GLOBAL
<1>8. ASSUME NEW x \in Names, OP_SET_GLOBAL(x) PROVE FramesOK'
  BY <1>8, Zenon DEF FramesOK, OP_SET_GLOBAL
<1>9. CASE OP_PUSH_ENV
  BY <1>9 DEF FramesOK, OP_PUSH_ENV
<1>10. CASE OP_POP_ENV
  BY <1>10 DEF FramesOK, OP_POP_ENV
<1>11. ASSUME NEW argc \in 0 .. ARGS, NEW params \in Params, OP_CALL(argc, params) PROVE FramesOK'
  <2>1. CASE UNCHANGED calls
    BY <2>1, Zenon DEF FramesOK, calls
  <2>2. CASE /\ frame_count < CALL_STACK
             /\ Enter(stack, sp - argc - 1, argc, params)
             /\ UNCHANGED start /\ UNCHANGED stale
    <3>1. argc < sp
      BY <1>11, Zenon DEF OP_CALL
    <3>2. sp - argc - 1 \in 0 .. STACK_SIZE - 1 /\ \A i \in 0 .. sp - argc - 1 : stack[i] \in Values
      BY <1>11, <3>1, CallPlace, Sizes DEF StackOK
    <3>3. start' \in 0 .. CALL_STACK
      BY <2>2, Zenon DEF FramesOK
    <3>. QED  BY <2>2, <3>2, <3>3, EnterFrames, Zenon
  <2>. QED  BY <1>11, <2>1, <2>2, Zenon DEF OP_CALL
<1>12. CASE OP_RETURN
  <2>1. CASE frame_count = 0
    BY <1>12, <2>1 DEF FramesOK, OP_RETURN, calls
  <2>2. CASE frame_count > 0
    <3>1. /\ frames' = [i \in 1 .. frame_count - 1 |-> frames[i]]
          /\ frame_count' = frame_count - 1
          /\ envs' = frames[frame_count].envs
          /\ UNCHANGED start /\ UNCHANGED stale
      BY <1>12, <2>2, ReturnSteps
    <3>2. frames[frame_count] \in Frame
      BY <2>2 DEF FramesOK
    <3>3. frames[frame_count].envs \in Nat
      BY <3>2, Zenon DEF Frame
    <3>. QED  BY <3>1, <3>3, <2>2, Sizes DEF FramesOK
  <2>. QED  BY <2>1, <2>2 DEF FramesOK
<1>13. CASE OP_HALT
  BY <1>13, Zenon DEF FramesOK, OP_HALT, calls
<1>14. ASSUME NEW argc \in 0 .. ARGS, NEW params \in Params, NEW query \in BOOLEAN,
             metal_vm_call(argc, params, query)
      PROVE  FramesOK'
  <2>1. CASE UNCHANGED calls
    BY <2>1, Zenon DEF FramesOK, calls
  <2>2. CASE /\ frame_count < CALL_STACK
             /\ Enter(HostStack(argc), HostTop(argc) - argc - 1, argc, params)
             /\ start' = frame_count /\ UNCHANGED stale
    <3>0. /\ HostTop(argc) - argc - 1 \in 0 .. STACK_SIZE - 1 /\ HostTop(argc) \in Nat
          /\ HostStack(argc) \in [0 .. HostTop(argc) - 1 -> Values]
      BY HostPlace
    <3>1. /\ HostTop(argc) - argc - 1 \in 0 .. STACK_SIZE - 1
          /\ \A i \in 0 .. HostTop(argc) - argc - 1 : HostStack(argc)[i] \in Values
      BY <3>0, Sizes
    <3>2. start' \in 0 .. CALL_STACK
      BY <2>2, Zenon DEF FramesOK
    <3>. QED  BY <2>2, <3>1, <3>2, EnterFrames, Zenon
  <2>. QED  BY <1>14, <2>1, <2>2, HostCall, Zenon
<1>15. ASSUME NEW n \in 0 .. ARGS, OP_ARRAY(n) PROVE FramesOK'
  BY <1>15, Zenon DEF FramesOK, OP_ARRAY, calls
<1>16. ASSUME NEW n \in 0 .. ARGS, OP_DICT(n) PROVE FramesOK'
  BY <1>16, Zenon DEF FramesOK, OP_DICT, calls
<1>17. ASSUME NEW n \in 1 .. 2, NEW i \in 0 .. MAX_ELEMS, OP_GET(n, i) PROVE FramesOK'
  BY <1>17, Zenon DEF FramesOK, OP_GET, Quiet, calls
<1>18. ASSUME NEW n \in 2 .. 3, NEW i \in 0 .. MAX_ELEMS, OP_SET(n, i) PROVE FramesOK'
  BY <1>18, Zenon DEF FramesOK, OP_SET, calls
<1>19. CASE ArrayPush
  BY <1>19, Zenon DEF FramesOK, ArrayPush, calls
<1>20. ASSUME NEW n \in 0 .. MAX_ELEMS, OP_SLICE(n) PROVE FramesOK'
  BY <1>20, Zenon DEF FramesOK, OP_SLICE, calls
<1>21. ASSUME NEW argc \in 0 .. ARGS, NEW n \in 0 .. MAX_ELEMS, NativeArray(argc, n) PROVE FramesOK'
  BY <1>21, Zenon DEF FramesOK, NativeArray, calls
<1>22. ASSUME NEW argc \in 0 .. ARGS, NativeList(argc) PROVE FramesOK'
  BY <1>22, Zenon DEF FramesOK, NativeList, calls
<1>23. CASE vfs_reset
  BY <1>23, Zenon DEF FramesOK, vfs_reset
<1>24. CASE sage_shell_run
  BY <1>24 DEF FramesOK, sage_shell_run
<1>. QED
  BY <1>1, <1>2, <1>3, <1>4, <1>5, <1>6, <1>7, <1>8, <1>9, <1>10, <1>11, <1>12, <1>13, <1>14, <1>15, <1>16, <1>17, <1>18, <1>19, <1>20, <1>21, <1>22, <1>23, <1>24, Zenon DEF Next

\* Frames hold numbers.
LEMMA FrameFields ==
    ASSUME FramesOK, NEW k \in 1 .. frame_count
    PROVE  /\ frames[k].depth \in Nat /\ frames[k].envs \in Nat
           /\ frames[k].base \in 0 .. STACK_SIZE - 1
           /\ frames[k].kept \in [0 .. STACK_SIZE - 1 -> Values]
<1>1. frames[k] \in Frame
  BY Zenon DEF FramesOK
<1>. QED  BY <1>1, Zenon DEF Frame

\* The base of a function lies inside the stack.
LEMMA BaseType ==
    ASSUME FramesOK
    PROVE  Base \in 0 .. STACK_SIZE - 1
<1>1. CASE frame_count =< stale
  BY <1>1, Sizes DEF Base
<1>2. CASE ~(frame_count =< stale)
  <2>1. frame_count \in 1 .. frame_count
    BY <1>2 DEF FramesOK
  <2>. QED  BY <1>2, <2>1, FrameFields, Zenon DEF Base
<1>. QED  BY <1>1, <1>2, Zenon

\* A call cuts the stack below the function.
LEMMA EnterStack ==
    ASSUME NEW b \in 0 .. STACK_SIZE - 1, NEW st, \A i \in 0 .. b : st[i] \in Values,
           NEW argc, NEW params, Enter(st, b, argc, params)
    PROVE  StackOK'
<1>1. stack' = [i \in 0 .. b - 1 |-> st[i]] /\ sp' = b
  BY Zenon DEF Enter
<1>. QED  BY <1>1, Sizes DEF StackOK

\* A slot that is handed out is a value.
LEMMA NewSlotType ==
    ASSUME HeapOK(heap), NEW pool \in {Arrays, Dicts}, NEW roots
    PROVE  NewSlot(heap, pool, roots) \in Values
BY NewFacts, SlotFacts, Zenon

\* Elements are values.
LEMMA ElementType ==
    ASSUME HeapOK(heap), NEW s, NEW i
    PROVE  Element(s, i) \in Values
<1>1. CASE s \in Slots /\ i \in 1 .. Len(heap.elems[s])
  <2>1. heap.elems[s] \in Seq(Values)
    BY <1>1, Zenon DEF HeapOK, Heap
  <2>. QED  BY <1>1, <2>1 DEF Element
<1>2. CASE ~(s \in Slots /\ i \in 1 .. Len(heap.elems[s]))
  BY <1>2, SlotFacts, Zenon DEF Element
<1>. QED  BY <1>1, <1>2, Zenon

\* Variables are looked up to a value.
LEMMA LookupType ==
    ASSUME ScopesOK, NEW x \in Names
    PROVE  /\ Holders(x) # {} =>
                /\ Innermost(x) \in 0 .. depth
                /\ scopes[Innermost(x)][x] \in Values
                /\ scopes[Innermost(x)][x] # Undefined
<1>. SUFFICES ASSUME Holders(x) # {}
     PROVE  /\ Innermost(x) \in 0 .. depth
            /\ scopes[Innermost(x)][x] \in Values
            /\ scopes[Innermost(x)][x] # Undefined
  BY Zenon
<1>1. Holders(x) \subseteq 0 .. depth /\ depth \in Nat
  BY Sizes DEF Holders, ScopesOK
<1>2. \E d \in Holders(x) : \A e \in Holders(x) : e =< d
  BY <1>1, GreatestElement, Zenon
<1>3. Innermost(x) \in Holders(x)
  BY <1>2, Zenon DEF Innermost
<1>4. Innermost(x) \in 0 .. depth /\ scopes[Innermost(x)][x] # Undefined
  BY <1>3, Zenon DEF Holders
<1>. QED  BY <1>4, Zenon DEF ScopesOK

\* The stack keeps its type and its bounds.
LEMMA StackNext ==
    ASSUME TypeOK, Next
    PROVE  StackOK'
<1>. StackOK /\ FramesOK /\ ScopesOK /\ HeapOK(heap)
  BY TypeParts, Zenon
<1>1. CASE OP_CONSTANT
  BY <1>1, PushType, SlotFacts, Zenon DEF OP_CONSTANT
<1>2. CASE OP_DUP
  <2>1. CASE UNCHANGED <<stack, sp>>
    BY <2>1, Zenon DEF StackOK
  <2>2. CASE Push(Operand(0))
    BY <2>2, PushType, OperandType, Zenon
  <2>. QED  BY <1>2, <2>1, <2>2, Zenon DEF OP_DUP
<1>3. CASE OP_POP
  BY <1>3, DropType, Zenon DEF OP_POP
<1>4. ASSUME NEW n \in 1 .. 3, OP_COMPUTE(n) PROVE StackOK'
  BY <1>4, ReplaceType, SlotFacts DEF OP_COMPUTE
<1>5. ASSUME NEW n \in 0 .. 2, OP_FAIL(n) PROVE StackOK'
  BY <1>5, DropType DEF OP_FAIL
<1>6. ASSUME NEW x \in Names, OP_GET_GLOBAL(x) PROVE StackOK'
  <2>1. (IF Holders(x) = {} THEN Plain ELSE scopes[Innermost(x)][x]) \in Values
    BY LookupType, SlotFacts, Zenon
  <2>. QED  BY <1>6, <2>1, PushType, Zenon DEF OP_GET_GLOBAL
<1>7. ASSUME NEW x \in Names, OP_DEFINE_GLOBAL(x) PROVE StackOK'
  BY <1>7, DropType, Zenon DEF OP_DEFINE_GLOBAL
<1>8. ASSUME NEW x \in Names, OP_SET_GLOBAL(x) PROVE StackOK'
  BY <1>8, DropType, Zenon DEF OP_SET_GLOBAL
<1>9. CASE OP_PUSH_ENV
  BY <1>9, Zenon DEF StackOK, OP_PUSH_ENV
<1>10. CASE OP_POP_ENV
  BY <1>10, Zenon DEF StackOK, OP_POP_ENV
<1>11. ASSUME NEW argc \in 0 .. ARGS, NEW params \in Params, OP_CALL(argc, params) PROVE StackOK'
  <2>1. CASE UNCHANGED <<stack, sp>>
    BY <2>1, Zenon DEF StackOK
  <2>2. CASE Enter(stack, sp - argc - 1, argc, params)
    <3>1. argc < sp
      BY <1>11, Zenon DEF OP_CALL
    <3>2. sp - argc - 1 \in 0 .. STACK_SIZE - 1 /\ \A i \in 0 .. sp - argc - 1 : stack[i] \in Values
      BY <1>11, <3>1, CallPlace, Sizes DEF StackOK
    <3>. QED  BY <2>2, <3>2, EnterStack, Zenon
  <2>. QED  BY <1>11, <2>1, <2>2, Zenon DEF OP_CALL
<1>12. CASE OP_RETURN
  <2>1. CASE frame_count = 0 /\ Drop(1)
    BY <2>1, DropType, Zenon
  <2>2. CASE frame_count > 0
    <3>. DEFINE b == frames[frame_count].base
    <3>0. b \in 0 .. STACK_SIZE - 1 /\ Below(1) \in 0 .. sp /\ Operand(0) \in Values
      <4>1. frame_count \in 1 .. frame_count
        BY <2>2 DEF FramesOK
      <4>. QED  BY <4>1, FrameFields, OperandType, Zenon
    <3>1. PICK junk \in [Below(1) .. b - 1 -> Values] :
             LET back == Returned(b, junk, Operand(0)) IN
                \/ sp' = b /\ stack' = [i \in 0 .. b - 1 |-> back[i]]
                \/ sp' = b + 1 /\ stack' = back
      <4>1. frame_count # 0
        BY <2>2
      <4>. QED  BY <1>12, <4>1, ReturnPlace, Zenon
    <3>. HIDE DEF b
    <3>. DEFINE back == Returned(b, junk, Operand(0))
    <3>2. \A i \in 0 .. b :
             (IF i = b THEN Operand(0) ELSE IF i < Below(1) THEN stack[i] ELSE junk[i]) \in Values
      BY <3>0 DEF StackOK
    <3>3. back \in [0 .. b -> Values]
      BY <3>2, Zenon DEF Returned
    <3>. HIDE DEF back
    <3>4. CASE sp' = b /\ stack' = [i \in 0 .. b - 1 |-> back[i]]
      BY <3>4, <3>3, <3>0, Sizes DEF StackOK
    <3>5. CASE sp' = b + 1 /\ stack' = back
      BY <3>5, <3>3, <3>0, Sizes DEF StackOK
    <3>. QED  BY <3>1, <3>4, <3>5, Zenon DEF back
  <2>. QED  BY <1>12, <2>1, <2>2, Zenon DEF OP_RETURN
<1>13. CASE OP_HALT
  BY <1>13, Zenon DEF StackOK, OP_HALT
<1>14. ASSUME NEW argc \in 0 .. ARGS, NEW params \in Params, NEW query \in BOOLEAN,
             metal_vm_call(argc, params, query)
      PROVE  StackOK'
  <2>0. /\ HostTop(argc) - argc - 1 \in 0 .. STACK_SIZE - 1 /\ HostTop(argc) \in 0 .. STACK_SIZE
        /\ HostStack(argc) \in [0 .. HostTop(argc) - 1 -> Values]
    BY HostPlace, Zenon
  <2>1. CASE stack' = HostStack(argc) /\ sp' = HostTop(argc)
    BY <2>0, <2>1, Zenon DEF StackOK
  <2>2. CASE Enter(HostStack(argc), HostTop(argc) - argc - 1, argc, params)
    <3>1. \A i \in 0 .. HostTop(argc) - argc - 1 : HostStack(argc)[i] \in Values
      BY <2>0, Sizes
    <3>. QED  BY <2>0, <2>2, <3>1, EnterStack, Zenon
  <2>. QED  BY <1>14, <2>1, <2>2, HostCall, Zenon
<1>15. ASSUME NEW n \in 0 .. ARGS, OP_ARRAY(n) PROVE StackOK'
  <2>. DEFINE s == NewSlot(heap, Arrays, Roots(sp))
  <2>0. s \in Values
    BY NewSlotType, Zenon
  <2>. HIDE DEF s
  <2>1. CASE UNCHANGED <<stack, sp>>
    BY <2>1, Zenon DEF StackOK
  <2>2. CASE n = 0 /\ Push(s)
    BY <2>0, <2>2, PushType, Zenon
  <2>3. CASE n # 0 /\ Replace(n, s)
    BY <1>15, <2>0, <2>3, ReplaceType, Sizes
  <2>. QED  BY <1>15, <2>1, <2>2, <2>3, Zenon DEF OP_ARRAY, s
<1>16. ASSUME NEW n \in 0 .. ARGS, OP_DICT(n) PROVE StackOK'
  <2>. DEFINE s == NewSlot(heap, Dicts, Roots(sp))
  <2>0. s \in Values
    BY NewSlotType, Zenon
  <2>. HIDE DEF s
  <2>1. CASE UNCHANGED <<stack, sp>>
    BY <2>1, Zenon DEF StackOK
  <2>2. CASE n = 0 /\ Push(s)
    BY <2>0, <2>2, PushType, Zenon
  <2>3. CASE n # 0 /\ Replace(2 * n, s)
    BY <1>16, <2>0, <2>3, ReplaceType, Sizes
  <2>. QED  BY <1>16, <2>1, <2>2, <2>3, Zenon DEF OP_DICT, s
<1>17. ASSUME NEW n \in 1 .. 2, NEW i \in 0 .. MAX_ELEMS, OP_GET(n, i) PROVE StackOK'
  BY <1>17, ReplaceType, ElementType DEF OP_GET
<1>18. ASSUME NEW n \in 2 .. 3, NEW i \in 0 .. MAX_ELEMS, OP_SET(n, i) PROVE StackOK'
  BY <1>18, ReplaceType, OperandType DEF OP_SET
<1>19. CASE ArrayPush
  BY <1>19, ReplaceType, SlotFacts DEF ArrayPush
<1>20. ASSUME NEW n \in 0 .. MAX_ELEMS, OP_SLICE(n) PROVE StackOK'
  <2>. DEFINE s == NewSlot(heap, Arrays, Roots(Below(3)))
  <2>0. s \in Values
    BY NewSlotType, Zenon
  <2>. HIDE DEF s
  <2>1. CASE Drop(3)
    BY <2>1, DropType, Zenon
  <2>2. CASE Replace(3, s)
    BY <2>0, <2>2, ReplaceType
  <2>. QED  BY <1>20, <2>1, <2>2, Zenon DEF OP_SLICE, s
<1>21. ASSUME NEW argc \in 0 .. ARGS, NEW n \in 0 .. MAX_ELEMS, NativeArray(argc, n) PROVE StackOK'
  <2>. DEFINE s == NewSlot(heap, Arrays, Roots(sp - argc - 1))
  <2>0. s \in Values
    BY NewSlotType, Zenon
  <2>1. Replace(argc + 1, s)
    BY <1>21, Zenon DEF NativeArray
  <2>. HIDE DEF s
  <2>. QED  BY <1>21, <2>0, <2>1, ReplaceType, Sizes
<1>22. ASSUME NEW argc \in 0 .. ARGS, NativeList(argc) PROVE StackOK'
  <2>. DEFINE s == NewSlot(heap, Arrays, Roots(sp - argc - 1))
  <2>0. s \in Values
    BY NewSlotType, Zenon
  <2>1. Replace(argc + 1, s)
    BY <1>22, Zenon DEF NativeList
  <2>. HIDE DEF s
  <2>. QED  BY <1>22, <2>0, <2>1, ReplaceType, Sizes
<1>23. CASE vfs_reset
  BY <1>23, Zenon DEF StackOK, vfs_reset
<1>24. CASE sage_shell_run
  BY <1>24, Sizes DEF StackOK, sage_shell_run, Cut
<1>. QED
  BY <1>1, <1>2, <1>3, <1>4, <1>5, <1>6, <1>7, <1>8, <1>9, <1>10, <1>11, <1>12, <1>13, <1>14, <1>15, <1>16, <1>17, <1>18, <1>19, <1>20, <1>21, <1>22, <1>23, <1>24, Zenon DEF Next

\* What a scope may hold for a name.
Slot == Values \cup {Undefined}

\* Opening a scope, and closing one, keeps the scope chain a function on its
\* depth.
LEMMA OpenedType ==
    ASSUME ScopesOK
    PROVE  /\ OpenedDepth \in 0 .. ENV_DEPTH - 1
           /\ Opened \in [0 .. OpenedDepth -> [Names -> Slot]]
           /\ ShutDepth \in 0 .. ENV_DEPTH - 1
           /\ Shut \in [0 .. ShutDepth -> [Names -> Slot]]
<1>0. EmptyScope \in [Names -> Slot]
  BY Zenon DEF EmptyScope, Slot
<1>00. depth \in 0 .. ENV_DEPTH - 1 /\ scopes \in [0 .. depth -> [Names -> Slot]]
  BY Zenon DEF ScopesOK, Slot
<1>1. /\ OpenedDepth \in 0 .. ENV_DEPTH - 1
      /\ Opened \in [0 .. OpenedDepth -> [Names -> Slot]]
  <2>1. CASE AtLimit
    BY <2>1, <1>00, Zenon DEF Opened, OpenedDepth
  <2>2. CASE ~AtLimit
    <3>1. depth + 1 \in 0 .. ENV_DEPTH - 1
      BY <2>2, <1>00, Sizes DEF AtLimit
    <3>2. \A d \in 0 .. depth + 1 : (IF d > depth THEN EmptyScope ELSE scopes[d]) \in [Names -> Slot]
      BY <1>0, <1>00
    <3>. QED  BY <2>2, <3>1, <3>2, Zenon DEF Opened, OpenedDepth
  <2>. QED  BY <2>1, <2>2, Zenon
<1>2. /\ ShutDepth \in 0 .. ENV_DEPTH - 1
      /\ Shut \in [0 .. ShutDepth -> [Names -> Slot]]
  <2>1. CASE depth > 0
    BY <2>1, <1>00, Sizes DEF Shut, ShutDepth
  <2>2. CASE ~(depth > 0)
    BY <2>2, <1>00, Zenon DEF Shut, ShutDepth
  <2>. QED  BY <2>1, <2>2, Zenon
<1>. QED  BY <1>1, <1>2, Zenon

\* Parameters are values on the stack, or nil.
LEMMA BoundValues ==
    ASSUME NEW params \in Params, NEW b \in Nat, NEW argc \in Nat, NEW st, NEW scope,
           NEW x \in Names
    PROVE  \/ Bound(scope, params, st, b, argc)[x] = Plain
           \/ Bound(scope, params, st, b, argc)[x] = scope[x]
           \/ \E i \in b .. b + argc : Bound(scope, params, st, b, argc)[x] = st[i]
<1>1. CASE \E p \in 1 .. Len(params) : params[p] = x
  <2>. DEFINE p == CHOOSE q \in 1 .. Len(params) : params[q] = x
  <2>1. p \in 1 .. Len(params)
    BY <1>1, Zenon
  <2>2. Bound(scope, params, st, b, argc)[x] = IF p =< argc THEN st[b + p] ELSE Plain
    BY <1>1, Zenon DEF Bound
  <2>. HIDE DEF p
  <2>3. params \in Seq(Names) /\ Len(params) \in Nat
    BY SizesAssumption
  <2>4. CASE p =< argc
    <3>1. b + p \in b .. b + argc
      BY <2>1, <2>3, <2>4
    <3>. QED  BY <2>2, <2>4, <3>1, Zenon
  <2>5. CASE ~(p =< argc)
    BY <2>2, <2>5, Zenon
  <2>. QED  BY <2>4, <2>5, Zenon
<1>2. CASE ~\E p \in 1 .. Len(params) : params[p] = x
  BY <1>2, Zenon DEF Bound
<1>. QED  BY <1>1, <1>2, Zenon

\* So it is in every set that contains nil, the arguments and the old value.
LEMMA BoundIn ==
    ASSUME NEW params \in Params, NEW b \in Nat, NEW argc \in Nat, NEW st, NEW scope,
           NEW x \in Names, NEW S, Plain \in S, scope[x] \in S,
           \A i \in b .. b + argc : st[i] \in S
    PROVE  Bound(scope, params, st, b, argc)[x] \in S
BY BoundValues

\* The scope that a call opens.
LEMMA EnterScopes ==
    ASSUME ScopesOK, NEW b \in Nat, NEW argc \in Nat, NEW params \in Params, NEW st,
           \A i \in b .. b + argc : st[i] \in Values, Enter(st, b, argc, params)
    PROVE  ScopesOK'
<1>. DEFINE s == Bound(Opened[OpenedDepth], params, st, b, argc)
<1>1. /\ OpenedDepth \in 0 .. ENV_DEPTH - 1
      /\ Opened \in [0 .. OpenedDepth -> [Names -> Slot]]
  BY OpenedType, Zenon
<1>2. Opened[OpenedDepth] \in [Names -> Slot]
  BY <1>1
<1>3. s \in [Names -> Slot]
  <2>1. \A x \in Names : s[x] \in Slot
    BY <1>2, BoundValues, SlotFacts DEF Slot
  <2>2. s = [x \in Names |-> s[x]]
    BY Zenon DEF Bound
  <2>. QED  BY <2>1, <2>2, Zenon
<1>4. scopes' = [Opened EXCEPT ![OpenedDepth] = s] /\ depth' = OpenedDepth
  BY <1>1, Zenon DEF Enter
<1>. HIDE DEF s
<1>. QED  BY <1>1, <1>3, <1>4, Zenon DEF ScopesOK, Slot

\* A variable is given a value.
LEMMA DefineType ==
    ASSUME ScopesOK, NEW d \in 0 .. depth, NEW x \in Names, NEW v \in Values,
           scopes' = [scopes EXCEPT ![d] = [@ EXCEPT ![x] = v]], UNCHANGED depth
    PROVE  ScopesOK'
<1>1. [scopes[d] EXCEPT ![x] = v] \in [Names -> Slot]
  BY Zenon DEF ScopesOK, Slot
<1>2. scopes' \in [0 .. depth -> [Names -> Slot]]
  BY <1>1, Zenon DEF ScopesOK, Slot
<1>. QED  BY <1>2, Zenon DEF ScopesOK, Slot

\* Scopes keep their types and their limit.
LEMMA ScopesNext ==
    ASSUME TypeOK, Next
    PROVE  ScopesOK'
<1>. StackOK /\ FramesOK /\ ScopesOK /\ HeapOK(heap)
  BY TypeParts, Zenon
<1>1. CASE OP_CONSTANT
  BY <1>1, Zenon DEF ScopesOK, OP_CONSTANT, Quiet, calls
<1>2. CASE OP_DUP
  BY <1>2, Zenon DEF ScopesOK, OP_DUP, Quiet, calls
<1>3. CASE OP_POP
  BY <1>3, Zenon DEF ScopesOK, OP_POP, Quiet, calls
<1>4. ASSUME NEW n \in 1 .. 3, OP_COMPUTE(n) PROVE ScopesOK'
  BY <1>4, Zenon DEF ScopesOK, OP_COMPUTE, Quiet, calls
<1>5. ASSUME NEW n \in 0 .. 2, OP_FAIL(n) PROVE ScopesOK'
  BY <1>5, Zenon DEF ScopesOK, OP_FAIL, Quiet, calls
<1>6. ASSUME NEW x \in Names, OP_GET_GLOBAL(x) PROVE ScopesOK'
  BY <1>6, Zenon DEF ScopesOK, OP_GET_GLOBAL, Quiet, calls
<1>7. ASSUME NEW x \in Names, OP_DEFINE_GLOBAL(x) PROVE ScopesOK'
  <2>1. depth \in 0 .. depth /\ Operand(0) \in Values
    BY OperandType DEF ScopesOK
  <2>. QED  BY <1>7, <2>1, DefineType, Zenon DEF OP_DEFINE_GLOBAL
<1>8. ASSUME NEW x \in Names, OP_SET_GLOBAL(x) PROVE ScopesOK'
  <2>. DEFINE d == IF Holders(x) = {} THEN depth ELSE Innermost(x)
  <2>1. d \in 0 .. depth /\ Operand(0) \in Values
    BY OperandType, LookupType DEF ScopesOK
  <2>2. scopes' = [scopes EXCEPT ![d] = [@ EXCEPT ![x] = Operand(0)]] /\ UNCHANGED depth
    BY <1>8, Zenon DEF OP_SET_GLOBAL
  <2>. HIDE DEF d
  <2>. QED  BY <2>1, <2>2, DefineType, Zenon
<1>9. CASE OP_PUSH_ENV
  BY <1>9, OpenedType, Zenon DEF OP_PUSH_ENV, ScopesOK, Slot
<1>10. CASE OP_POP_ENV
  BY <1>10, OpenedType, Zenon DEF OP_POP_ENV, ScopesOK, Slot
<1>11. ASSUME NEW argc \in 0 .. ARGS, NEW params \in Params, OP_CALL(argc, params) PROVE ScopesOK'
  <2>1. CASE UNCHANGED calls
    BY <2>1, Zenon DEF ScopesOK, calls
  <2>2. CASE Enter(stack, sp - argc - 1, argc, params)
    <3>1. argc < sp /\ argc \in Nat
      BY <1>11, Sizes DEF OP_CALL
    <3>2. sp - argc - 1 \in Nat /\ \A i \in sp - argc - 1 .. sp - argc - 1 + argc : stack[i] \in Values
      BY <1>11, <3>1, CallPlace, Sizes DEF StackOK
    <3>. QED  BY <2>2, <3>1, <3>2, EnterScopes, Zenon
  <2>. QED  BY <1>11, <2>1, <2>2, Zenon DEF OP_CALL
<1>12. CASE OP_RETURN
  <2>1. CASE UNCHANGED calls
    BY <2>1, Zenon DEF ScopesOK, calls
  <2>2. CASE scopes' = Shut /\ depth' = ShutDepth
    BY <2>2, OpenedType, Zenon DEF ScopesOK, Slot
  <2>. QED  BY <1>12, <2>1, <2>2, Zenon DEF OP_RETURN, CloseScope
<1>13. CASE OP_HALT
  BY <1>13, Zenon DEF ScopesOK, OP_HALT, calls
<1>14. ASSUME NEW argc \in 0 .. ARGS, NEW params \in Params, NEW query \in BOOLEAN,
             metal_vm_call(argc, params, query)
      PROVE  ScopesOK'
  <2>1. CASE UNCHANGED calls
    BY <2>1, Zenon DEF ScopesOK, calls
  <2>2. CASE Enter(HostStack(argc), HostTop(argc) - argc - 1, argc, params)
    <3>0. /\ HostTop(argc) - argc - 1 \in 0 .. STACK_SIZE - 1 /\ HostTop(argc) \in 0 .. STACK_SIZE
          /\ HostStack(argc) \in [0 .. HostTop(argc) - 1 -> Values]
      BY HostPlace, Zenon
    <3>1. HostTop(argc) - argc - 1 \in Nat /\ argc \in Nat
      BY <3>0, Sizes
    <3>2. \A i \in HostTop(argc) - argc - 1 .. HostTop(argc) - argc - 1 + argc :
             HostStack(argc)[i] \in Values
      BY <3>0, <3>1
    <3>. QED  BY <2>2, <3>1, <3>2, EnterScopes, Zenon
  <2>. QED  BY <1>14, <2>1, <2>2, HostCall, Zenon
<1>15. ASSUME NEW n \in 0 .. ARGS, OP_ARRAY(n) PROVE ScopesOK'
  BY <1>15, Zenon DEF ScopesOK, OP_ARRAY, calls
<1>16. ASSUME NEW n \in 0 .. ARGS, OP_DICT(n) PROVE ScopesOK'
  BY <1>16, Zenon DEF ScopesOK, OP_DICT, calls
<1>17. ASSUME NEW n \in 1 .. 2, NEW i \in 0 .. MAX_ELEMS, OP_GET(n, i) PROVE ScopesOK'
  BY <1>17, Zenon DEF ScopesOK, OP_GET, Quiet, calls
<1>18. ASSUME NEW n \in 2 .. 3, NEW i \in 0 .. MAX_ELEMS, OP_SET(n, i) PROVE ScopesOK'
  BY <1>18, Zenon DEF ScopesOK, OP_SET, calls
<1>19. CASE ArrayPush
  BY <1>19, Zenon DEF ScopesOK, ArrayPush, calls
<1>20. ASSUME NEW n \in 0 .. MAX_ELEMS, OP_SLICE(n) PROVE ScopesOK'
  BY <1>20, Zenon DEF ScopesOK, OP_SLICE, calls
<1>21. ASSUME NEW argc \in 0 .. ARGS, NEW n \in 0 .. MAX_ELEMS, NativeArray(argc, n) PROVE ScopesOK'
  BY <1>21, Zenon DEF ScopesOK, NativeArray, calls
<1>22. ASSUME NEW argc \in 0 .. ARGS, NativeList(argc) PROVE ScopesOK'
  BY <1>22, Zenon DEF ScopesOK, NativeList, calls
<1>23. CASE vfs_reset
  BY <1>23, Zenon DEF ScopesOK, vfs_reset
<1>24. CASE sage_shell_run
  <2>1. depth' = 0 /\ scopes' = [d \in {0} |-> scopes[d]] /\ {0} = 0 .. 0 /\ 0 \in 0 .. depth
    BY <1>24 DEF sage_shell_run, ScopesOK
  <2>. QED  BY <2>1, Sizes DEF ScopesOK
<1>. QED
  BY <1>1, <1>2, <1>3, <1>4, <1>5, <1>6, <1>7, <1>8, <1>9, <1>10, <1>11, <1>12, <1>13, <1>14, <1>15, <1>16, <1>17, <1>18, <1>19, <1>20, <1>21, <1>22, <1>23, <1>24, Zenon DEF Next

\* The pools keep their types.
LEMMA HeapNext ==
    ASSUME TypeOK, Next
    PROVE  HeapOK(heap')
<1>. StackOK /\ FramesOK /\ ScopesOK /\ HeapOK(heap)
  BY TypeParts, Zenon
<1>1. CASE OP_CONSTANT
  BY <1>1, Zenon DEF OP_CONSTANT, Quiet
<1>2. CASE OP_DUP
  BY <1>2, Zenon DEF OP_DUP, Quiet
<1>3. CASE OP_POP
  BY <1>3, Zenon DEF OP_POP, Quiet
<1>4. ASSUME NEW n \in 1 .. 3, OP_COMPUTE(n) PROVE HeapOK(heap')
  BY <1>4, Zenon DEF OP_COMPUTE, Quiet
<1>5. ASSUME NEW n \in 0 .. 2, OP_FAIL(n) PROVE HeapOK(heap')
  BY <1>5, Zenon DEF OP_FAIL, Quiet
<1>6. ASSUME NEW x \in Names, OP_GET_GLOBAL(x) PROVE HeapOK(heap')
  BY <1>6, Zenon DEF OP_GET_GLOBAL, Quiet
<1>7. ASSUME NEW x \in Names, OP_DEFINE_GLOBAL(x) PROVE HeapOK(heap')
  BY <1>7, Zenon DEF OP_DEFINE_GLOBAL
<1>8. ASSUME NEW x \in Names, OP_SET_GLOBAL(x) PROVE HeapOK(heap')
  BY <1>8, Zenon DEF OP_SET_GLOBAL
<1>9. CASE OP_PUSH_ENV
  BY <1>9, Zenon DEF OP_PUSH_ENV
<1>10. CASE OP_POP_ENV
  BY <1>10, Zenon DEF OP_POP_ENV
<1>11. ASSUME NEW argc \in 0 .. ARGS, NEW params \in Params, OP_CALL(argc, params) PROVE HeapOK(heap')
  BY <1>11, Zenon DEF OP_CALL
<1>12. CASE OP_RETURN
  BY <1>12, Zenon DEF OP_RETURN
<1>13. CASE OP_HALT
  BY <1>13, Zenon DEF OP_HALT
<1>14. ASSUME NEW argc \in 0 .. ARGS, NEW params \in Params, NEW query \in BOOLEAN,
             metal_vm_call(argc, params, query)
      PROVE  HeapOK(heap')
  BY <1>14, HostCall, Zenon
<1>15. ASSUME NEW n \in 0 .. ARGS, OP_ARRAY(n) PROVE HeapOK(heap')
  <2>. DEFINE s == NewSlot(heap, Arrays, Roots(sp))
              h == NewHeap(heap, Arrays, Roots(sp))
              vs == [j \in 1 .. n |-> stack[sp - n + j - 1]]
  <2>0. HeapOK(h)
    BY NewFacts, Zenon
  <2>1. \A j \in 1 .. n : vs[j] \in Values
    BY <1>15, OperandType, Sizes DEF OP_ARRAY, StackOK
  <2>2. heap' = h \/ heap' = AddedAll(h, s, vs, n)
    BY <1>15, Zenon DEF OP_ARRAY
  <2>. HIDE DEF s, h, vs
  <2>. QED  BY <1>15, <2>0, <2>1, <2>2, FillType, Sizes
<1>16. ASSUME NEW n \in 0 .. ARGS, OP_DICT(n) PROVE HeapOK(heap')
  <2>. DEFINE s == NewSlot(heap, Dicts, Roots(sp))
              h == NewHeap(heap, Dicts, Roots(sp))
              vs == [j \in 1 .. n |-> Operand(2 * j - 2)]
  <2>0. HeapOK(h)
    BY NewFacts, Zenon
  <2>1. \A j \in 1 .. n : vs[j] \in Values
    BY <1>16, OperandType, Sizes DEF OP_DICT, StackOK
  <2>2. heap' = h \/ heap' = AddedAll(h, s, vs, n)
    BY <1>16, Zenon DEF OP_DICT
  <2>. HIDE DEF s, h, vs
  <2>. QED  BY <1>16, <2>0, <2>1, <2>2, FillType, Sizes
<1>17. ASSUME NEW n \in 1 .. 2, NEW i \in 0 .. MAX_ELEMS, OP_GET(n, i) PROVE HeapOK(heap')
  BY <1>17, Zenon DEF OP_GET, Quiet
<1>18. ASSUME NEW n \in 2 .. 3, NEW i \in 0 .. MAX_ELEMS, OP_SET(n, i) PROVE HeapOK(heap')
  BY <1>18, OperandType, StoreType, Zenon DEF OP_SET
<1>19. CASE ArrayPush
  BY <1>19, OperandType, StoreType, Zenon DEF ArrayPush
<1>20. ASSUME NEW n \in 0 .. MAX_ELEMS, OP_SLICE(n) PROVE HeapOK(heap')
  <2>. DEFINE s == NewSlot(heap, Arrays, Roots(Below(3)))
              h == NewHeap(heap, Arrays, Roots(Below(3)))
              obj == Operand(2)
              m == AtMost(n, Len(h.elems[obj]))
  <2>0. HeapOK(h)
    BY NewFacts, Zenon
  <2>1. heap' = h \/ (obj \in Arrays /\ heap' = AddedAll(h, s, h.elems[obj], m))
    BY <1>20, Zenon DEF OP_SLICE
  <2>. HIDE DEF s, h, obj
  <2>2. ASSUME obj \in Arrays PROVE m \in Nat /\ \A j \in 1 .. m : h.elems[obj][j] \in Values
    <3>1. h.elems[obj] \in Seq(Values)
      BY <2>0, <2>2, SlotFacts, Zenon DEF HeapOK, Heap
    <3>2. m \in Nat /\ m =< Len(h.elems[obj])
      BY <1>20, <3>1, Sizes DEF AtMost
    <3>. HIDE DEF m
    <3>. QED  BY <3>1, <3>2
  <2>. HIDE DEF m
  <2>. QED  BY <2>0, <2>1, <2>2, FillType, Zenon
<1>21. ASSUME NEW argc \in 0 .. ARGS, NEW n \in 0 .. MAX_ELEMS, NativeArray(argc, n) PROVE HeapOK(heap')
  <2>. DEFINE s == NewSlot(heap, Arrays, Roots(sp - argc - 1))
              h == NewHeap(heap, Arrays, Roots(sp - argc - 1))
              vs == [j \in 1 .. n |-> Plain]
  <2>0. HeapOK(h)
    BY NewFacts, Zenon
  <2>1. \A j \in 1 .. n : vs[j] \in Values
    BY SlotFacts, Zenon
  <2>2. heap' = AddedAll(h, s, vs, n)
    BY <1>21, Zenon DEF NativeArray
  <2>. HIDE DEF s, h, vs
  <2>. QED  BY <1>21, <2>0, <2>1, <2>2, FillType, Sizes
<1>22. ASSUME NEW argc \in 0 .. ARGS, NativeList(argc) PROVE HeapOK(heap')
  <2>. DEFINE r == Roots(sp - argc - 1)
              h == NewHeap(heap, Arrays, r)
              d == NewSlot(h, Dicts, r)
              g == NewHeap(h, Dicts, r)
  <2>0. HeapOK(h)
    BY NewFacts, Zenon
  <2>. HIDE DEF h
  <2>1. HeapOK(g) /\ d \in Dicts \cup {Plain}
    BY <2>0, NewFacts, Zenon
  <2>2. d \in Values
    BY <2>1, SlotFacts, Zenon
  <2>3. heap' = Added(g, NewSlot(heap, Arrays, r), d)
    BY <1>22, Zenon DEF NativeList, h
  <2>. HIDE DEF d, g
  <2>. QED  BY <2>1, <2>2, <2>3, StoreType, Zenon
<1>23. CASE vfs_reset
  <2>1. heap' = [heap EXCEPT !.taken = before] /\ before \in SUBSET Slots
    BY <1>23, TypeParts, Zenon DEF vfs_reset, FlagsOK
  <2>2. HeapFields(heap) /\ \A s \in Slots : Len(heap.elems[s]) =< MAX_ELEMS
    BY HeapHasFields, Zenon DEF HeapOK
  <2>3. heap' = [in_use |-> heap.in_use, taken |-> before, elems |-> heap.elems]
    BY <2>1, <2>2 DEF HeapFields
  <2>4. heap.in_use \in SUBSET Slots /\ heap.elems \in [Slots -> Seq(Values)]
    BY <2>2, Zenon DEF HeapFields
  <2>5. HeapOK([in_use |-> heap.in_use, taken |-> before, elems |-> heap.elems])
    BY <2>1, <2>2, <2>4, IsHeap, Zenon
  <2>. QED  BY <2>3, <2>5, Zenon
<1>24. CASE sage_shell_run
  BY <1>24, Zenon DEF sage_shell_run
<1>. QED
  BY <1>1, <1>2, <1>3, <1>4, <1>5, <1>6, <1>7, <1>8, <1>9, <1>10, <1>11, <1>12, <1>13, <1>14, <1>15, <1>16, <1>17, <1>18, <1>19, <1>20, <1>21, <1>22, <1>23, <1>24, Zenon DEF Next

\* The interpreter starts in a state of its type.
LEMMA InitType == Init => TypeOK
<1>. SUFFICES ASSUME Init PROVE TypeOK
  BY Zenon
<1>1. StackOK
  BY Sizes DEF Init, StackOK
<1>2. FramesOK
  BY Sizes DEF Init, FramesOK
<1>3. ScopesOK
  <2>1. depth = 0 /\ scopes = [d \in {0} |-> [x \in Names |-> Undefined]] /\ {0} = 0 .. 0
    BY DEF Init
  <2>. QED  BY <2>1, Sizes DEF ScopesOK
<1>4. HeapOK(heap)
  <2>1. heap = [in_use |-> {}, taken |-> {}, elems |-> [s \in Slots |-> <<>>]]
    BY Zenon DEF Init
  <2>2. <<>> \in Seq(Values) /\ Len(<<>>) = 0
    OBVIOUS
  <2>. QED  BY <2>1, <2>2, Sizes DEF HeapOK, Heap
<1>5. FlagsOK
  BY Zenon DEF Init, FlagsOK
<1>. QED  BY <1>1, <1>2, <1>3, <1>4, <1>5, TypeParts, Zenon

\* Every step, and stuttering, keeps the types.
LEMMA TypeNext == TypeOK /\ [Next]_vars => TypeOK'
<1>. SUFFICES ASSUME TypeOK, [Next]_vars PROVE TypeOK'
  BY Zenon
<1>1. CASE Next
  <2>1. FlagsOK'
    BY <1>1, FlagsNext, Zenon
  <2>. QED  BY <1>1, <2>1, StackNext, FramesNext, ScopesNext, HeapNext, TypePartsNext, Zenon
<1>2. CASE UNCHANGED vars
  BY <1>2, Zenon DEF TypeOK, vars
<1>. QED  BY <1>1, <1>2, Zenon

\* Whatever program runs, the interpreter stays inside its stack, its frames,
\* its scopes and its pools, and each of them holds what it is meant to.
THEOREM VmTypeCorrect == Spec => []TypeOK
BY InitType, TypeNext, PTL DEF Spec

------------------------------------------------------------------------------
(* A return and the scope of the caller                                     *)

\* The scopes add up: the running function has its caller's, one for its
\* parameters, and those that it opened itself, and so on down the frames of
\* this run.
ScopeChain ==
    /\ stale =< frame_count
    /\ depth = IF frame_count =< stale THEN envs ELSE frames[frame_count].depth + 1 + envs
    /\ \A k \in stale + 1 .. frame_count :
          frames[k].depth = IF k = stale + 1 THEN frames[k].envs
                                             ELSE frames[k - 1].depth + 1 + frames[k].envs

\* What a call adds to the frames.
LEMMA EnterFacts ==
    ASSUME FramesOK, NEW st, NEW b, NEW argc, NEW params, Enter(st, b, argc, params)
    PROVE  /\ frame_count' = frame_count + 1
           /\ \A k \in 1 .. frame_count : frames'[k] = frames[k]
           /\ frames'[frame_count + 1] = NewFrame(st, b)
<1>1. /\ frames' = [i \in 1 .. frame_count + 1 |->
                      IF i > frame_count THEN NewFrame(st, b) ELSE frames[i]]
      /\ frame_count' = frame_count + 1
  BY Zenon DEF Enter
<1>2. frame_count \in Nat
  BY DEF FramesOK
<1>. QED  BY <1>1, <1>2

\* A call below the limit adds one scope.
LEMMA EnterChain ==
    ASSUME FramesOK, ScopesOK, NEW st, NEW b, NEW argc, NEW params,
           Enter(st, b, argc, params), UNCHANGED stale, ScopeChain, ~AtLimit
    PROVE  ScopeChain'
<1>. DEFINE n == frame_count
            m == stale
<1>0. n \in Nat /\ m \in Nat /\ envs \in Nat /\ depth \in Nat
  BY Sizes DEF FramesOK, ScopesOK
<1>1. frame_count' = n + 1 /\ (\A k \in 1 .. n : frames'[k] = frames[k])
  BY EnterFacts, Zenon
<1>2. frames'[n + 1].depth = depth /\ frames'[n + 1].envs = envs
  <2>1. frames'[n + 1] = NewFrame(st, b)
    BY EnterFacts, Zenon
  <2>2. NewFrame(st, b).depth = depth /\ NewFrame(st, b).envs = envs
    BY Zenon DEF NewFrame
  <2>. QED  BY <2>1, <2>2, Zenon
<1>3. depth' = depth + 1 /\ envs' = 0 /\ stale' = m
  BY Zenon DEF Enter, OpenedDepth
<1>. HIDE DEF n, m
<1>4. m =< n /\ depth = IF n =< m THEN envs ELSE frames[n].depth + 1 + envs
  BY Zenon DEF ScopeChain, n, m
<1>5. \A k \in m + 1 .. n : frames[k].depth = IF k = m + 1 THEN frames[k].envs
                                             ELSE frames[k - 1].depth + 1 + frames[k].envs
  BY Zenon DEF ScopeChain, n, m
<1>6. ASSUME NEW k \in m + 1 .. n + 1
      PROVE  frames'[k].depth = IF k = m + 1 THEN frames'[k].envs
                                ELSE frames'[k - 1].depth + 1 + frames'[k].envs
  <2>1. CASE k = n + 1 /\ n =< m
    <3>1. k = m + 1
      BY <2>1, <1>0, <1>4
    <3>. QED  BY <2>1, <3>1, <1>2, <1>4, Zenon
  <2>2. CASE k = n + 1 /\ ~(n =< m)
    <3>1. k # m + 1 /\ k - 1 = n /\ n \in 1 .. n
      BY <2>2, <1>0
    <3>2. frames'[k - 1].depth = frames[n].depth
      BY <3>1, <1>1, Zenon
    <3>. QED  BY <2>2, <3>1, <3>2, <1>2, <1>4, Zenon
  <2>3. CASE k # n + 1
    <3>1. k \in m + 1 .. n /\ k \in 1 .. n /\ (k # m + 1 => k - 1 \in 1 .. n)
      BY <2>3, <1>0
    <3>. QED  BY <3>1, <1>1, <1>5, Zenon
  <2>. QED  BY <2>1, <2>2, <2>3, Zenon
<1>7. depth' = frames'[n + 1].depth + 1 + envs'
  BY <1>0, <1>2, <1>3
<1>8. ~(n + 1 =< m) /\ m =< n + 1
  BY <1>0, <1>4
<1>. QED  BY <1>1, <1>3, <1>6, <1>7, <1>8, Zenon DEF ScopeChain

\* A return of a function that has closed its own scopes gives the depth of
\* its caller back.
LEMMA ReturnDepth ==
    ASSUME FramesOK, ScopesOK, ScopeChain, stale < frame_count, envs = 0
    PROVE  ShutDepth = frames[frame_count].depth
<1>1. frame_count \in 1 .. frame_count /\ ~(frame_count =< stale)
  BY DEF FramesOK
<1>2. frames[frame_count].depth \in Nat
  BY <1>1, FrameFields, Zenon
<1>3. depth = frames[frame_count].depth + 1 + 0
  BY <1>1 DEF ScopeChain
<1>. QED  BY <1>2, <1>3 DEF ShutDepth

\* Steps that leave frames and depth alone.
LEMMA QuietChain ==
    ASSUME UNCHANGED <<frames, frame_count, depth, stale, envs, uneven>>, uneven \/ ScopeChain
    PROVE  (uneven \/ ScopeChain)'
BY Zenon DEF ScopeChain

\* Every step keeps the scopes adding up, or records that they do not.
LEMMA ChainNext ==
    ASSUME TypeOK, uneven \/ ScopeChain, Next
    PROVE  (uneven \/ ScopeChain)'
<1>. StackOK /\ FramesOK /\ ScopesOK
  BY TypeParts, Zenon
<1>1. CASE OP_CONSTANT
  BY <1>1, QuietChain, Zenon DEF OP_CONSTANT, Quiet, calls
<1>2. CASE OP_DUP
  BY <1>2, QuietChain, Zenon DEF OP_DUP, Quiet, calls
<1>3. CASE OP_POP
  BY <1>3, QuietChain, Zenon DEF OP_POP, Quiet, calls
<1>4. ASSUME NEW n \in 1 .. 3, OP_COMPUTE(n) PROVE (uneven \/ ScopeChain)'
  BY <1>4, QuietChain, Zenon DEF OP_COMPUTE, Quiet, calls
<1>5. ASSUME NEW n \in 0 .. 2, OP_FAIL(n) PROVE (uneven \/ ScopeChain)'
  BY <1>5, QuietChain, Zenon DEF OP_FAIL, Quiet, calls
<1>6. ASSUME NEW x \in Names, OP_GET_GLOBAL(x) PROVE (uneven \/ ScopeChain)'
  BY <1>6, QuietChain, Zenon DEF OP_GET_GLOBAL, Quiet, calls
<1>7. ASSUME NEW x \in Names, OP_DEFINE_GLOBAL(x) PROVE (uneven \/ ScopeChain)'
  BY <1>7, QuietChain, Zenon DEF OP_DEFINE_GLOBAL
<1>8. ASSUME NEW x \in Names, OP_SET_GLOBAL(x) PROVE (uneven \/ ScopeChain)'
  BY <1>8, QuietChain, Zenon DEF OP_SET_GLOBAL
<1>9. CASE OP_PUSH_ENV
  <2>. SUFFICES ASSUME ~uneven' PROVE ScopeChain'
    BY Zenon
  <2>1. ScopeChain /\ ~AtLimit
    BY <1>9, Zenon DEF OP_PUSH_ENV
  <2>2. /\ depth' = depth + 1 /\ envs' = envs + 1
        /\ UNCHANGED <<frames, frame_count, stale>>
    BY <1>9, <2>1, Zenon DEF OP_PUSH_ENV, OpenedDepth
  <2>3. CASE frame_count =< stale
    BY <2>1, <2>2, <2>3, Zenon DEF ScopeChain
  <2>4. CASE ~(frame_count =< stale)
    <3>1. frames[frame_count].depth \in Nat
      BY <2>4, FrameFields DEF FramesOK
    <3>2. depth = frames[frame_count].depth + 1 + envs
      BY <2>1, <2>4, Zenon DEF ScopeChain
    <3>3. depth \in Nat /\ envs \in Nat
      BY DEF FramesOK, ScopesOK
    <3>4. depth + 1 = frames[frame_count].depth + 1 + (envs + 1)
      BY <3>1, <3>2, <3>3
    <3>. QED  BY <2>1, <2>2, <2>4, <3>4, Zenon DEF ScopeChain
  <2>. QED  BY <2>3, <2>4, Zenon
<1>10. CASE OP_POP_ENV
  <2>. SUFFICES ASSUME ~uneven' PROVE ScopeChain'
    BY Zenon
  <2>1. ScopeChain /\ envs > 0
    BY <1>10, Zenon DEF OP_POP_ENV
  <2>3. CASE frame_count =< stale
    <3>1. depth = envs /\ depth > 0
      BY <2>1, <2>3, Zenon DEF ScopeChain
    <3>2. depth' = depth - 1 /\ envs' = envs - 1 /\ UNCHANGED <<frames, frame_count, stale>>
      BY <1>10, <3>1, Zenon DEF OP_POP_ENV, ShutDepth
    <3>. QED  BY <2>1, <2>3, <3>1, <3>2, Zenon DEF ScopeChain
  <2>4. CASE ~(frame_count =< stale)
    <3>1. frames[frame_count].depth \in Nat
      BY <2>4, FrameFields DEF FramesOK
    <3>2. depth = frames[frame_count].depth + 1 + envs
      BY <2>1, <2>4, Zenon DEF ScopeChain
    <3>3. depth - 1 = frames[frame_count].depth + 1 + (envs - 1) /\ depth > 0
      BY <3>1, <3>2, <2>1, SMTT(30) DEF FramesOK
    <3>4. depth' = depth - 1 /\ envs' = envs - 1 /\ UNCHANGED <<frames, frame_count, stale>>
      BY <1>10, <3>3, Zenon DEF OP_POP_ENV, ShutDepth
    <3>. QED  BY <2>1, <3>4, <2>4, <3>3, Zenon DEF ScopeChain
  <2>. QED  BY <2>3, <2>4, Zenon
<1>11. ASSUME NEW argc \in 0 .. ARGS, NEW params \in Params, OP_CALL(argc, params) PROVE (uneven \/ ScopeChain)'
  <2>1. CASE UNCHANGED calls
    BY <2>1, QuietChain, Zenon DEF calls
  <2>2. CASE Enter(stack, sp - argc - 1, argc, params) /\ UNCHANGED stale
    <3>1. uneven' = (uneven \/ AtLimit)
      BY <2>2, Zenon DEF Enter
    <3>. QED  BY <2>2, <3>1, EnterChain, Zenon
  <2>. QED  BY <1>11, <2>1, <2>2, Zenon DEF OP_CALL
<1>12. CASE OP_RETURN
  <2>1. CASE frame_count = 0
    <3>1. UNCHANGED calls
      BY <1>12, <2>1 DEF OP_RETURN
    <3>. QED  BY <3>1, QuietChain, Zenon DEF calls
  <2>2. CASE frame_count # 0
    <3>. SUFFICES ASSUME ~uneven' PROVE ScopeChain'
      BY Zenon
    <3>. DEFINE n == frame_count
                m == stale
    <3>1. /\ depth' = ShutDepth /\ frame_count' = n - 1 /\ envs' = frames[n].envs
          /\ frames' = [i \in 1 .. n - 1 |-> frames[i]] /\ stale' = m
          /\ uneven' = (uneven \/ envs > 0 \/ n =< m)
      BY <1>12, <2>2, ReturnSteps, Zenon
    <3>2. ScopeChain /\ ~(envs > 0) /\ ~(n =< m)
      BY <3>1, Zenon
    <3>0. n \in Nat /\ m \in Nat /\ m < n
      BY <3>2 DEF FramesOK
    <3>3. envs = 0
      BY <3>2 DEF FramesOK
    <3>4. depth' = frames[n].depth
      BY <3>0, <3>1, <3>2, <3>3, ReturnDepth, Zenon
    <3>. HIDE DEF n, m
    <3>5. \A k \in m + 1 .. n : frames[k].depth = IF k = m + 1 THEN frames[k].envs
                                             ELSE frames[k - 1].depth + 1 + frames[k].envs
      BY <3>2, Zenon DEF ScopeChain, n, m
    <3>6. \A k \in m + 1 .. n - 1 :
             frames'[k].depth = IF k = m + 1 THEN frames'[k].envs
                                             ELSE frames'[k - 1].depth + 1 + frames'[k].envs
      <4>1. \A k \in m + 1 .. n - 1 :
               k \in m + 1 .. n /\ k \in 1 .. n - 1 /\ (k # m + 1 => k - 1 \in 1 .. n - 1)
        BY <3>0
      <4>. QED  BY <4>1, <3>1, <3>5, Zenon
    <3>7. m =< n - 1 /\ n \in m + 1 .. n
      BY <3>0
    <3>10. frame_count' = n - 1 /\ stale' = m
      BY <3>1, Zenon
    <3>8. CASE n = m + 1
      <4>1. n - 1 =< m
        BY <3>0, <3>8
      <4>2. frames[n].depth = frames[n].envs
        BY <3>5, <3>7, <3>8, Zenon
      <4>3. depth' = IF n - 1 =< m THEN envs' ELSE frames'[n - 1].depth + 1 + envs'
        BY <3>1, <3>4, <4>1, <4>2, Zenon
      <4>. QED  BY <3>6, <3>7, <3>10, <4>3, Zenon DEF ScopeChain
    <3>9. CASE n # m + 1
      <4>1. n - 1 \in 1 .. n - 1 /\ ~(n - 1 =< m)
        BY <3>0, <3>9
      <4>2. frames[n].depth = frames[n - 1].depth + 1 + frames[n].envs
        BY <3>5, <3>7, <3>9, Zenon
      <4>3. frames'[n - 1] = frames[n - 1]
        BY <4>1, <3>1, Zenon
      <4>4. depth' = IF n - 1 =< m THEN envs' ELSE frames'[n - 1].depth + 1 + envs'
        BY <3>1, <3>4, <4>1, <4>2, <4>3, Zenon
      <4>. QED  BY <3>6, <3>7, <3>10, <4>4, Zenon DEF ScopeChain
    <3>. QED  BY <3>8, <3>9, Zenon
  <2>. QED  BY <2>1, <2>2, Zenon
<1>13. CASE OP_HALT
  BY <1>13, QuietChain, Zenon DEF OP_HALT, calls
<1>14. ASSUME NEW argc \in 0 .. ARGS, NEW params \in Params, NEW query \in BOOLEAN,
             metal_vm_call(argc, params, query)
      PROVE  (uneven \/ ScopeChain)'
  <2>1. CASE UNCHANGED calls
    BY <2>1, QuietChain, Zenon DEF calls
  <2>2. CASE Enter(HostStack(argc), HostTop(argc) - argc - 1, argc, params) /\ UNCHANGED stale
    <3>1. uneven' = (uneven \/ AtLimit)
      BY <2>2, Zenon DEF Enter
    <3>. QED  BY <2>2, <3>1, EnterChain, Zenon
  <2>. QED  BY <1>14, <2>1, <2>2, HostCall, Zenon
<1>15. ASSUME NEW n \in 0 .. ARGS, OP_ARRAY(n) PROVE (uneven \/ ScopeChain)'
  BY <1>15, QuietChain, Zenon DEF OP_ARRAY, calls
<1>16. ASSUME NEW n \in 0 .. ARGS, OP_DICT(n) PROVE (uneven \/ ScopeChain)'
  BY <1>16, QuietChain, Zenon DEF OP_DICT, calls
<1>17. ASSUME NEW n \in 1 .. 2, NEW i \in 0 .. MAX_ELEMS, OP_GET(n, i) PROVE (uneven \/ ScopeChain)'
  BY <1>17, QuietChain, Zenon DEF OP_GET, Quiet, calls
<1>18. ASSUME NEW n \in 2 .. 3, NEW i \in 0 .. MAX_ELEMS, OP_SET(n, i) PROVE (uneven \/ ScopeChain)'
  BY <1>18, QuietChain, Zenon DEF OP_SET, calls
<1>19. CASE ArrayPush
  BY <1>19, QuietChain, Zenon DEF ArrayPush, calls
<1>20. ASSUME NEW n \in 0 .. MAX_ELEMS, OP_SLICE(n) PROVE (uneven \/ ScopeChain)'
  BY <1>20, QuietChain, Zenon DEF OP_SLICE, calls
<1>21. ASSUME NEW argc \in 0 .. ARGS, NEW n \in 0 .. MAX_ELEMS, NativeArray(argc, n) PROVE (uneven \/ ScopeChain)'
  BY <1>21, QuietChain, Zenon DEF NativeArray, calls
<1>22. ASSUME NEW argc \in 0 .. ARGS, NativeList(argc) PROVE (uneven \/ ScopeChain)'
  BY <1>22, QuietChain, Zenon DEF NativeList, calls
<1>23. CASE vfs_reset
  BY <1>23, QuietChain, Zenon DEF vfs_reset
<1>24. CASE sage_shell_run
  <2>1. /\ depth' = 0 /\ envs' = 0 /\ stale' = frame_count /\ frame_count' = frame_count
    BY <1>24, Zenon DEF sage_shell_run
  <2>2. frame_count \in Nat
    BY DEF FramesOK
  <2>. QED  BY <2>1, <2>2 DEF ScopeChain
<1>. QED
  BY <1>1, <1>2, <1>3, <1>4, <1>5, <1>6, <1>7, <1>8, <1>9, <1>10, <1>11, <1>12, <1>13, <1>14, <1>15, <1>16, <1>17, <1>18, <1>19, <1>20, <1>21, <1>22, <1>23, <1>24, Zenon DEF Next

\* A return is the only step that takes a frame away.
LEMMA OnlyReturns ==
    ASSUME TypeOK, Next, frame_count' < frame_count
    PROVE  Running /\ OP_RETURN /\ frame_count > 0
<1>. FramesOK
  BY TypeParts, Zenon
<1>0. frame_count \in Nat
  BY DEF FramesOK
<1>. USE DEF calls, Quiet
<1>1. CASE OP_CONSTANT
  BY <1>1, <1>0 DEF OP_CONSTANT
<1>2. CASE OP_DUP
  BY <1>2, <1>0 DEF OP_DUP
<1>3. CASE OP_POP
  BY <1>3, <1>0 DEF OP_POP
<1>4. ASSUME NEW n \in 1 .. 3, OP_COMPUTE(n) PROVE Running /\ OP_RETURN /\ frame_count > 0
  BY <1>4, <1>0 DEF OP_COMPUTE
<1>5. ASSUME NEW n \in 0 .. 2, OP_FAIL(n) PROVE Running /\ OP_RETURN /\ frame_count > 0
  BY <1>5, <1>0 DEF OP_FAIL
<1>6. ASSUME NEW x \in Names, OP_GET_GLOBAL(x) PROVE Running /\ OP_RETURN /\ frame_count > 0
  BY <1>6, <1>0 DEF OP_GET_GLOBAL
<1>7. ASSUME NEW x \in Names, OP_DEFINE_GLOBAL(x) PROVE Running /\ OP_RETURN /\ frame_count > 0
  BY <1>7, <1>0 DEF OP_DEFINE_GLOBAL
<1>8. ASSUME NEW x \in Names, OP_SET_GLOBAL(x) PROVE Running /\ OP_RETURN /\ frame_count > 0
  BY <1>8, <1>0 DEF OP_SET_GLOBAL
<1>9. CASE OP_PUSH_ENV
  BY <1>9, <1>0 DEF OP_PUSH_ENV
<1>10. CASE OP_POP_ENV
  BY <1>10, <1>0 DEF OP_POP_ENV
<1>11. ASSUME NEW argc \in 0 .. ARGS, NEW params \in Params, OP_CALL(argc, params) PROVE Running /\ OP_RETURN /\ frame_count > 0
  BY <1>11, <1>0 DEF OP_CALL, Enter
<1>12. CASE Running /\ OP_RETURN
  BY <1>12, <1>0, Zenon DEF OP_RETURN
<1>13. CASE OP_HALT
  BY <1>13, <1>0 DEF OP_HALT
<1>14. ASSUME NEW argc \in 0 .. ARGS, NEW params \in Params, NEW query \in BOOLEAN,
             metal_vm_call(argc, params, query)
      PROVE  Running /\ OP_RETURN /\ frame_count > 0
  BY <1>14, <1>0, SMTT(30) DEF metal_vm_call, Enter
<1>15. ASSUME NEW n \in 0 .. ARGS, OP_ARRAY(n) PROVE Running /\ OP_RETURN /\ frame_count > 0
  BY <1>15, <1>0 DEF OP_ARRAY
<1>16. ASSUME NEW n \in 0 .. ARGS, OP_DICT(n) PROVE Running /\ OP_RETURN /\ frame_count > 0
  BY <1>16, <1>0 DEF OP_DICT
<1>17. ASSUME NEW n \in 1 .. 2, NEW i \in 0 .. MAX_ELEMS, OP_GET(n, i) PROVE Running /\ OP_RETURN /\ frame_count > 0
  BY <1>17, <1>0 DEF OP_GET
<1>18. ASSUME NEW n \in 2 .. 3, NEW i \in 0 .. MAX_ELEMS, OP_SET(n, i) PROVE Running /\ OP_RETURN /\ frame_count > 0
  BY <1>18, <1>0 DEF OP_SET
<1>19. CASE ArrayPush
  BY <1>19, <1>0 DEF ArrayPush
<1>20. ASSUME NEW n \in 0 .. MAX_ELEMS, OP_SLICE(n) PROVE Running /\ OP_RETURN /\ frame_count > 0
  BY <1>20, <1>0 DEF OP_SLICE
<1>21. ASSUME NEW argc \in 0 .. ARGS, NEW n \in 0 .. MAX_ELEMS, NativeArray(argc, n) PROVE Running /\ OP_RETURN /\ frame_count > 0
  BY <1>21, <1>0 DEF NativeArray
<1>22. ASSUME NEW argc \in 0 .. ARGS, NativeList(argc) PROVE Running /\ OP_RETURN /\ frame_count > 0
  BY <1>22, <1>0 DEF NativeList
<1>23. CASE vfs_reset
  BY <1>23, <1>0 DEF vfs_reset
<1>24. CASE sage_shell_run
  BY <1>24, <1>0 DEF sage_shell_run
<1>. QED
  BY <1>1, <1>2, <1>3, <1>4, <1>5, <1>6, <1>7, <1>8, <1>9, <1>10, <1>11, <1>12, <1>13, <1>14, <1>15, <1>16, <1>17, <1>18, <1>19, <1>20, <1>21, <1>22, <1>23, <1>24, Zenon DEF Next

\* A return brings back the caller's scope, however deep the calls are nested
\* below METAL_ENV_DEPTH.
THEOREM ScopeRestored == Spec => CallerScopeBack
<1>. DEFINE Inv == TypeOK /\ (uneven \/ ScopeChain)
            Kept == stale < frame_count /\ frame_count' < frame_count /\ ~uneven' =>
                      depth' = frames[frame_count].depth
<1>1. Init => Inv
  BY InitType, SMTT(30) DEF Init, ScopeChain
<1>2. Inv /\ [Next]_vars => Inv'
  <2>1. ASSUME Inv, UNCHANGED vars PROVE Inv'
    <3>1. UNCHANGED <<frames, frame_count, depth, stale, envs, uneven>>
      BY <2>1, Zenon DEF vars
    <3>. QED  BY <2>1, <3>1, TypeNext, QuietChain, Zenon
  <2>. QED  BY <2>1, TypeNext, ChainNext, Zenon
<1>3. Inv /\ [Next]_vars => [Kept]_vars
  <2>. SUFFICES ASSUME Inv, Next, stale < frame_count, frame_count' < frame_count, ~uneven'
       PROVE  depth' = frames[frame_count].depth
    BY Zenon
  <2>1. OP_RETURN /\ frame_count > 0 /\ FramesOK /\ ScopesOK
    BY OnlyReturns, TypeParts, Zenon
  <2>0. frame_count # 0
    BY <2>1
  <2>2. depth' = ShutDepth /\ uneven' = (uneven \/ envs > 0 \/ frame_count =< stale)
    BY <2>0, <2>1, ReturnSteps, Zenon
  <2>3. ScopeChain /\ ~(envs > 0)
    BY <2>2, Zenon
  <2>4. envs = 0
    BY <2>1, <2>3 DEF FramesOK
  <2>. QED  BY <2>1, <2>2, <2>3, <2>4, ReturnDepth, Zenon
<1>. HIDE DEF Inv, Kept
<1>4. Spec => [][Kept]_vars
  BY <1>1, <1>2, <1>3, PTL DEF Spec
<1>. QED  BY <1>4, Zenon DEF Kept, CallerScopeBack

------------------------------------------------------------------------------
(* A return and the operands of the caller                                  *)

\* Below the base of each frame of this run the stack is what it was at the
\* call, and the bases rise from frame to frame.
Intact ==
    /\ \A k \in stale + 1 .. frame_count :
          /\ frames[k].base =< sp
          /\ \A j \in 0 .. frames[k].base - 1 : frames[k].kept[j] = stack[j]
    /\ \A k, l \in stale + 1 .. frame_count : k =< l => frames[k].base =< frames[l].base

\* A step that stays above the base of the running function disturbs nothing.
LEMMA AboveBase ==
    ASSUME FramesOK, Intact, UNCHANGED <<frames, frame_count, stale>>, sp' \in Nat, Base =< sp',
           \A j \in 0 .. Base - 1 : stack'[j] = stack[j]
    PROVE  Intact'
<1>. DEFINE n == frame_count
            m == stale
<1>0. n \in Nat /\ m \in Nat
  BY Sizes DEF FramesOK
<1>1. \A k \in m + 1 .. n : frames[k].base \in Nat /\ frames[k].base =< Base
  <2>. TAKE k \in m + 1 .. n
  <2>1. n \in m + 1 .. n /\ k =< n /\ ~(n =< m) /\ k \in 1 .. n
    BY <1>0
  <2>2. Base = frames[n].base
    BY <2>1, Zenon DEF Base
  <2>3. frames[k].base =< frames[n].base
    BY <2>1, Zenon DEF Intact
  <2>. QED  BY <2>1, <2>2, <2>3, FrameFields
<1>2. Base \in Nat
  BY BaseType, Sizes
<1>3. ASSUME NEW k \in m + 1 .. n
      PROVE  /\ frames[k].base =< sp'
             /\ \A j \in 0 .. frames[k].base - 1 : frames[k].kept[j] = stack'[j]
  <2>1. frames[k].base =< sp'
    BY <1>1, <1>2
  <2>2. \A j \in 0 .. frames[k].base - 1 : j \in 0 .. Base - 1
    BY <1>1, <1>2
  <2>3. \A j \in 0 .. frames[k].base - 1 : frames[k].kept[j] = stack[j]
    BY Zenon DEF Intact
  <2>. QED  BY <2>1, <2>2, <2>3, Zenon
<1>. QED  BY <1>3, Zenon DEF Intact

\* Pops, until one reaches the caller's operands.
LEMMA DropIntact ==
    ASSUME StackOK, FramesOK, dipped \/ Intact, NEW n \in Nat, Drop(n),
           UNCHANGED <<frames, frame_count, stale>>
    PROVE  (dipped \/ Intact)'
<1>. SUFFICES ASSUME ~dipped' PROVE Intact'
  BY Zenon
<1>1. Intact /\ ~(Below(n) < Base)
  BY Zenon DEF Drop, Dip
<1>2. Below(n) \in 0 .. sp /\ Base \in Nat
  BY OperandType, BaseType, Sizes
<1>3. sp' = Below(n) /\ stack' = [i \in 0 .. Below(n) - 1 |-> stack[i]]
  BY Zenon DEF Drop, Cut
<1>4. sp' \in Nat /\ Base =< sp' /\ \A j \in 0 .. Base - 1 : stack'[j] = stack[j]
  BY <1>1, <1>2, <1>3 DEF StackOK
<1>. QED  BY <1>1, <1>4, AboveBase, Zenon

\* A value on top of place n, above the base.
LEMMA ToppedIntact ==
    ASSUME StackOK, FramesOK, Intact, NEW n \in 0 .. sp, Base =< n, NEW v,
           stack' = Topped(n, v), sp' = n + 1, UNCHANGED <<frames, frame_count, stale>>
    PROVE  Intact'
<1>1. Base \in Nat
  BY BaseType, Sizes
<1>2. stack' = [i \in 0 .. n |-> IF i = n THEN v ELSE stack[i]]
  BY Zenon DEF Topped
<1>3. sp' \in Nat /\ Base =< sp' /\ \A j \in 0 .. Base - 1 : stack'[j] = stack[j]
  BY <1>1, <1>2 DEF StackOK
<1>. QED  BY <1>3, AboveBase, Zenon

\* The base is on the stack.
LEMMA BaseBelow ==
    ASSUME FramesOK, StackOK, Intact
    PROVE  Base =< sp
<1>1. CASE frame_count =< stale
  BY <1>1 DEF Base, StackOK
<1>2. CASE ~(frame_count =< stale)
  <2>1. frame_count \in stale + 1 .. frame_count
    BY <1>2, Sizes DEF FramesOK
  <2>. QED  BY <1>2, <2>1, Zenon DEF Base, Intact
<1>. QED  BY <1>1, <1>2, Zenon

\* Pushes.
LEMMA PushIntact ==
    ASSUME StackOK, FramesOK, dipped \/ Intact, NEW v, Push(v), UNCHANGED <<frames, frame_count, stale>>
    PROVE  (dipped \/ Intact)'
<1>. SUFFICES ASSUME ~dipped' PROVE Intact'
  BY Zenon
<1>1. Intact
  BY Zenon DEF Push
<1>2. CASE UNCHANGED <<stack, sp>>
  BY <1>1, <1>2, Zenon DEF Intact
<1>3. CASE stack' = Topped(sp, v) /\ sp' = sp + 1
  <2>1. sp \in 0 .. sp /\ Base =< sp
    BY <1>1, BaseBelow DEF StackOK
  <2>. QED  BY <1>1, <1>3, <2>1, ToppedIntact, Zenon
<1>. QED  BY <1>2, <1>3, Zenon DEF Push

\* Operands and their result.
LEMMA ReplaceIntact ==
    ASSUME StackOK, FramesOK, dipped \/ Intact, NEW n \in Nat, NEW v, Replace(n, v),
           UNCHANGED <<frames, frame_count, stale>>
    PROVE  (dipped \/ Intact)'
<1>. SUFFICES ASSUME ~dipped' PROVE Intact'
  BY Zenon
<1>1. Intact /\ ~(Below(n) < Base)
  BY Zenon DEF Replace, Dip
<1>2. Below(n) \in 0 .. sp /\ Base \in Nat
  BY OperandType, BaseType, Sizes
<1>3. Base =< Below(n)
  BY <1>1, <1>2 DEF StackOK
<1>. QED  BY <1>1, <1>2, <1>3, ToppedIntact, Zenon DEF Replace

\* A call above the base of the running function.
LEMMA EnterIntact ==
    ASSUME StackOK, FramesOK, dipped \/ Intact, NEW b \in 0 .. STACK_SIZE - 1, b =< sp, NEW st,
           \A j \in 0 .. b - 1 : st[j] = stack[j], NEW argc, NEW params,
           Enter(st, b, argc, params), UNCHANGED stale
    PROVE  (dipped \/ Intact)'
<1>. SUFFICES ASSUME ~dipped' PROVE Intact'
  BY Zenon
<1>. DEFINE n == frame_count
            m == stale
<1>0. n \in Nat /\ m \in Nat /\ Base \in Nat
  BY BaseType, Sizes DEF FramesOK
<1>1. Intact /\ ~(b < Base)
  BY Zenon DEF Enter
<1>2. sp' = b /\ stack' = [i \in 0 .. b - 1 |-> st[i]]
  BY Zenon DEF Enter
<1>3. frame_count' = n + 1 /\ (\A k \in 1 .. n : frames'[k] = frames[k])
  BY EnterFacts, Zenon
<1>4. /\ frames'[n + 1].base = b
      /\ frames'[n + 1].kept = [i \in 0 .. STACK_SIZE - 1 |-> IF i < b THEN st[i] ELSE Plain]
  <2>1. frames'[n + 1] = NewFrame(st, b)
    BY EnterFacts, Zenon
  <2>2. /\ NewFrame(st, b).base = b
        /\ NewFrame(st, b).kept = [i \in 0 .. STACK_SIZE - 1 |-> IF i < b THEN st[i] ELSE Plain]
    BY Zenon DEF NewFrame
  <2>. QED  BY <2>1, <2>2, Zenon
<1>5. \A k \in m + 1 .. n : frames[k].base \in Nat /\ frames[k].base =< b
  <2>. TAKE k \in m + 1 .. n
  <2>1. n \in m + 1 .. n /\ k =< n /\ ~(n =< m) /\ k \in 1 .. n
    BY <1>0
  <2>2. Base = frames[n].base
    BY <2>1, Zenon DEF Base
  <2>3. frames[k].base =< frames[n].base
    BY <2>1, <1>1, Zenon DEF Intact
  <2>4. frames[k].base \in Nat
    BY <2>1, FrameFields
  <2>. QED  BY <1>0, <1>1, <2>2, <2>3, <2>4
<1>6. ASSUME NEW k \in m + 1 .. n + 1
      PROVE  /\ frames'[k].base =< b
             /\ \A j \in 0 .. frames'[k].base - 1 : frames'[k].kept[j] = stack'[j]
  <2>1. CASE k = n + 1
    BY <2>1, <1>2, <1>4, Sizes
  <2>2. CASE k # n + 1
    <3>1. k \in 1 .. n /\ k \in m + 1 .. n
      BY <2>2, <1>0
    <3>2. frames'[k] = frames[k] /\ frames[k].base \in Nat /\ frames[k].base =< b
      BY <3>1, <1>3, <1>5, Zenon
    <3>3. \A j \in 0 .. frames[k].base - 1 : frames[k].kept[j] = stack[j]
      BY <3>1, <1>1, Zenon DEF Intact
    <3>4. \A j \in 0 .. frames[k].base - 1 : stack'[j] = stack[j]
      BY <3>2, <1>2
    <3>. QED  BY <3>2, <3>3, <3>4, Zenon
  <2>. QED  BY <2>1, <2>2, Zenon
<1>7. ASSUME NEW k \in m + 1 .. n + 1, NEW l \in m + 1 .. n + 1, k =< l
      PROVE  frames'[k].base =< frames'[l].base
  <2>1. CASE l = n + 1
    BY <2>1, <1>6, <1>4, Zenon
  <2>2. CASE l # n + 1
    <3>1. /\ k \in 1 .. n /\ k \in m + 1 .. n
          /\ l \in 1 .. n /\ l \in m + 1 .. n
      BY <2>2, <1>0, <1>7
    <3>2. frames[k].base =< frames[l].base
      BY <3>1, <1>7, <1>1, Zenon DEF Intact
    <3>. QED  BY <3>1, <3>2, <1>3, Zenon
  <2>. QED  BY <2>1, <2>2, Zenon
<1>8. stale' = m
  BY Zenon
<1>. HIDE DEF n, m
<1>. QED  BY <1>2, <1>3, <1>6, <1>7, <1>8, Zenon DEF Intact

\* What a return leaves on the stack when the function did not dip.
LEMMA ReturnStack ==
    ASSUME StackOK, FramesOK, OP_RETURN, frame_count # 0, ~dipped', NEW b,
           b = frames[frame_count].base
    PROVE  /\ b \in Nat /\ b =< Below(1) /\ Below(1) =< sp
           /\ \/ sp' = b /\ mode # "main" /\ mode' = Left(FALSE)
              \/ sp' = b + 1 /\ mode' = mode
           /\ \A j \in 0 .. b - 1 : stack'[j] = stack[j]
           /\ sp' = b + 1 => stack'[b] = Operand(0)
<1>0. b \in Nat /\ Below(1) \in 0 .. sp
  <2>1. frame_count \in 1 .. frame_count
    BY DEF FramesOK
  <2>2. b \in 0 .. STACK_SIZE - 1
    BY <2>1, FrameFields, Zenon
  <2>3. 1 \in Nat
    OBVIOUS
  <2>4. Below(1) \in 0 .. sp
    BY <2>3, OperandType, Zenon
  <2>. QED  BY <2>2, <2>4, Sizes
<1>1. b =< Below(1)
  <2>1. ~(Below(1) < b)
    BY ReturnSteps, Zenon
  <2>. QED  BY <2>1, <1>0 DEF StackOK
<1>2. PICK junk :
         LET back == Returned(b, junk, Operand(0)) IN
            \/ sp' = b /\ stack' = [i \in 0 .. b - 1 |-> back[i]] /\ mode # "main" /\ mode' = Left(FALSE)
            \/ sp' = b + 1 /\ stack' = back /\ mode' = mode
  BY ReturnPlace, Zenon
<1>. DEFINE back == Returned(b, junk, Operand(0))
<1>3. /\ back = [i \in 0 .. b |-> back[i]]
      /\ back[b] = Operand(0)
      /\ \A j \in 0 .. b - 1 : back[j] = stack[j]
  BY <1>0, <1>1 DEF Returned
<1>. HIDE DEF back
<1>4. CASE sp' = b /\ stack' = [i \in 0 .. b - 1 |-> back[i]] /\ mode # "main" /\ mode' = Left(FALSE)
  <2>1. \A j \in 0 .. b - 1 : stack'[j] = stack[j]
    BY <1>3, <1>4, Zenon
  <2>2. sp' # b + 1 /\ Below(1) =< sp
    BY <1>0, <1>4 DEF StackOK
  <2>. QED  BY <1>0, <1>1, <1>4, <2>1, <2>2, Zenon
<1>5. CASE sp' = b + 1 /\ stack' = back /\ mode' = mode
  <2>1. \A j \in 0 .. b - 1 : stack'[j] = stack[j]
    BY <1>3, <1>5, Zenon
  <2>2. Below(1) =< sp
    BY <1>0 DEF StackOK
  <2>. QED  BY <1>0, <1>1, <1>3, <1>5, <2>1, <2>2, Zenon
<1>. QED  BY <1>2, <1>4, <1>5, Zenon DEF back

\* Every step keeps the operands of all callers in place, or records a dip.
LEMMA IntactNext ==
    ASSUME TypeOK, dipped \/ Intact, Next
    PROVE  (dipped \/ Intact)'
<1>. StackOK /\ FramesOK /\ ScopesOK /\ HeapOK(heap)
  BY TypeParts, Zenon
<1>0. ASSUME UNCHANGED <<frames, frame_count, stale, stack, sp, dipped>> PROVE (dipped \/ Intact)'
  BY <1>0, Zenon DEF Intact
<1>1. CASE OP_CONSTANT
  BY <1>1, PushIntact, Zenon DEF OP_CONSTANT, Quiet, calls
<1>2. CASE OP_DUP
  BY <1>2, <1>0, PushIntact, Zenon DEF OP_DUP, Quiet, calls
<1>3. CASE OP_POP
  BY <1>3, DropIntact, Zenon DEF OP_POP, Quiet, calls
<1>4. ASSUME NEW n \in 1 .. 3, OP_COMPUTE(n) PROVE (dipped \/ Intact)'
  BY <1>4, ReplaceIntact DEF OP_COMPUTE, Quiet, calls
<1>5. ASSUME NEW n \in 0 .. 2, OP_FAIL(n) PROVE (dipped \/ Intact)'
  BY <1>5, DropIntact DEF OP_FAIL, Quiet, calls
<1>6. ASSUME NEW x \in Names, OP_GET_GLOBAL(x) PROVE (dipped \/ Intact)'
  BY <1>6, PushIntact, Zenon DEF OP_GET_GLOBAL, Quiet, calls
<1>7. ASSUME NEW x \in Names, OP_DEFINE_GLOBAL(x) PROVE (dipped \/ Intact)'
  BY <1>7, DropIntact, Zenon DEF OP_DEFINE_GLOBAL
<1>8. ASSUME NEW x \in Names, OP_SET_GLOBAL(x) PROVE (dipped \/ Intact)'
  BY <1>8, DropIntact, Zenon DEF OP_SET_GLOBAL
<1>9. CASE OP_PUSH_ENV
  BY <1>9, <1>0, Zenon DEF OP_PUSH_ENV
<1>10. CASE OP_POP_ENV
  BY <1>10, <1>0, Zenon DEF OP_POP_ENV
<1>11. ASSUME NEW argc \in 0 .. ARGS, NEW params \in Params, OP_CALL(argc, params) PROVE (dipped \/ Intact)'
  <2>1. CASE UNCHANGED <<stack, sp, dipped>> /\ UNCHANGED calls
    BY <2>1, <1>0, Zenon DEF calls
  <2>2. CASE Enter(stack, sp - argc - 1, argc, params) /\ UNCHANGED stale
    <3>1. argc < sp
      BY <1>11, Zenon DEF OP_CALL
    <3>2. sp - argc - 1 \in 0 .. STACK_SIZE - 1 /\ sp - argc - 1 =< sp
      BY <1>11, <3>1, CallPlace, Sizes DEF StackOK
    <3>. QED  BY <2>2, <3>2, EnterIntact, Zenon
  <2>. QED  BY <1>11, <2>1, <2>2, Zenon DEF OP_CALL
<1>12. CASE OP_RETURN
  <2>1. CASE frame_count = 0
    BY <1>12, <2>1, DropIntact DEF OP_RETURN, calls
  <2>2. CASE frame_count # 0
    <3>. SUFFICES ASSUME ~dipped' PROVE Intact'
      BY Zenon
    <3>. DEFINE n == frame_count
                m == stale
                b == frames[frame_count].base
    <3>0. n \in Nat /\ n > 0 /\ n \in 1 .. n /\ m \in Nat
      BY <2>2, Sizes DEF FramesOK
    <3>1. /\ Intact /\ frame_count' = n - 1 /\ stale' = m
          /\ frames' = [i \in 1 .. n - 1 |-> frames[i]]
      BY <1>12, <2>2, ReturnSteps, Zenon
    <3>2. /\ b \in Nat /\ sp' \in Nat /\ b =< sp'
          /\ \A j \in 0 .. b - 1 : stack'[j] = stack[j]
      <4>1. /\ b \in Nat /\ (sp' = b \/ sp' = b + 1)
            /\ \A j \in 0 .. b - 1 : stack'[j] = stack[j]
        BY <1>12, <2>2, ReturnStack, Zenon
      <4>. HIDE DEF b
      <4>. QED  BY <4>1
    <3>4. ASSUME NEW k \in m + 1 .. n - 1
          PROVE  /\ frames'[k] = frames[k] /\ frames[k].base =< sp'
                 /\ \A j \in 0 .. frames[k].base - 1 : frames[k].kept[j] = stack'[j]
      <4>1. /\ k \in m + 1 .. n /\ k \in 1 .. n /\ k =< n /\ n \in m + 1 .. n
            /\ frames'[k] = frames[k]
        BY <3>0, <3>1
      <4>0. frames[k].base =< b
        BY <4>1, <3>1, Zenon DEF Intact
      <4>2. frames[k].base =< b /\ frames[k].base \in Nat
        BY <4>0, <4>1, FrameFields
      <4>3. \A j \in 0 .. frames[k].base - 1 : frames[k].kept[j] = stack[j]
        BY <4>1, <3>1, Zenon DEF Intact
      <4>4. \A j \in 0 .. frames[k].base - 1 : stack'[j] = stack[j]
        BY <4>2, <3>2
      <4>5. frames[k].base =< sp'
        BY <4>2, <3>2, SMTT(30)
      <4>. QED  BY <4>1, <4>3, <4>4, <4>5, Zenon
    <3>5. \A k, l \in m + 1 .. n - 1 : k =< l => frames'[k].base =< frames'[l].base
      <4>1. \A k \in m + 1 .. n - 1 : k \in m + 1 .. n /\ frames'[k] = frames[k]
        BY <3>0, <3>1
      <4>. QED  BY <4>1, <3>1, Zenon DEF Intact
    <3>6. frame_count' = n - 1 /\ stale' = m
      BY <3>1, Zenon
    <3>. HIDE DEF n, m
    <3>7. \A k \in m + 1 .. n - 1 :
             /\ frames'[k].base =< sp'
             /\ \A j \in 0 .. frames'[k].base - 1 : frames'[k].kept[j] = stack'[j]
      BY <3>4
    <3>. QED  BY <3>5, <3>6, <3>7, Zenon DEF Intact
  <2>. QED  BY <2>1, <2>2, Zenon
<1>13. CASE OP_HALT
  BY <1>13, <1>0, Zenon DEF OP_HALT, calls
<1>14. ASSUME NEW argc \in 0 .. ARGS, NEW params \in Params, NEW query \in BOOLEAN,
             metal_vm_call(argc, params, query)
      PROVE  (dipped \/ Intact)'
  <2>0. /\ HostTop(argc) - argc - 1 \in 0 .. STACK_SIZE - 1 /\ HostTop(argc) \in 0 .. STACK_SIZE
        /\ HostTop(argc) - argc - 1 =< sp /\ sp =< HostTop(argc)
        /\ \A i \in 0 .. sp - 1 : HostStack(argc)[i] = stack[i]
    BY HostPlace, Zenon
  <2>1. CASE /\ stack' = HostStack(argc) /\ sp' = HostTop(argc)
             /\ UNCHANGED dipped /\ UNCHANGED calls
    <3>. SUFFICES ASSUME Intact PROVE Intact'
      BY <2>1, Zenon
    <3>1. Base =< sp /\ Base \in Nat
      BY BaseBelow, BaseType, Sizes
    <3>2. sp' \in Nat /\ Base =< sp' /\ \A j \in 0 .. Base - 1 : stack'[j] = stack[j]
      BY <2>0, <2>1, <3>1 DEF StackOK
    <3>. QED  BY <2>1, <3>2, AboveBase, Zenon DEF calls
  <2>2. CASE Enter(HostStack(argc), HostTop(argc) - argc - 1, argc, params) /\ UNCHANGED stale
    <3>1. \A j \in 0 .. HostTop(argc) - argc - 1 - 1 : HostStack(argc)[j] = stack[j]
      BY <2>0 DEF StackOK
    <3>. QED  BY <2>0, <2>2, <3>1, EnterIntact, Zenon
  <2>. QED  BY <1>14, <2>1, <2>2, HostCall, Zenon
<1>15. ASSUME NEW n \in 0 .. ARGS, OP_ARRAY(n) PROVE (dipped \/ Intact)'
  BY <1>15, <1>0, PushIntact, ReplaceIntact, Sizes DEF OP_ARRAY, calls
<1>16. ASSUME NEW n \in 0 .. ARGS, OP_DICT(n) PROVE (dipped \/ Intact)'
  <2>1. 2 * n \in Nat
    BY <1>16, Sizes
  <2>. QED  BY <1>16, <1>0, <2>1, PushIntact, ReplaceIntact, Zenon DEF OP_DICT, calls
<1>17. ASSUME NEW n \in 1 .. 2, NEW i \in 0 .. MAX_ELEMS, OP_GET(n, i) PROVE (dipped \/ Intact)'
  BY <1>17, ReplaceIntact DEF OP_GET, Quiet, calls
<1>18. ASSUME NEW n \in 2 .. 3, NEW i \in 0 .. MAX_ELEMS, OP_SET(n, i) PROVE (dipped \/ Intact)'
  BY <1>18, ReplaceIntact DEF OP_SET, calls
<1>19. CASE ArrayPush
  BY <1>19, ReplaceIntact, Zenon DEF ArrayPush, calls
<1>20. ASSUME NEW n \in 0 .. MAX_ELEMS, OP_SLICE(n) PROVE (dipped \/ Intact)'
  BY <1>20, DropIntact, ReplaceIntact, Zenon DEF OP_SLICE, calls
<1>21. ASSUME NEW argc \in 0 .. ARGS, NEW n \in 0 .. MAX_ELEMS, NativeArray(argc, n) PROVE (dipped \/ Intact)'
  BY <1>21, ReplaceIntact, Sizes DEF NativeArray, calls
<1>22. ASSUME NEW argc \in 0 .. ARGS, NativeList(argc) PROVE (dipped \/ Intact)'
  BY <1>22, ReplaceIntact, Sizes DEF NativeList, calls
<1>23. CASE vfs_reset
  BY <1>23, <1>0, Zenon DEF vfs_reset
<1>24. CASE sage_shell_run
  <2>1. stale' = frame_count /\ frame_count' = frame_count /\ frame_count \in Nat
    BY <1>24 DEF sage_shell_run, FramesOK
  <2>. QED  BY <2>1 DEF Intact
<1>. QED
  BY <1>1, <1>2, <1>3, <1>4, <1>5, <1>6, <1>7, <1>8, <1>9, <1>10, <1>11, <1>12, <1>13, <1>14, <1>15, <1>16, <1>17, <1>18, <1>19, <1>20, <1>21, <1>22, <1>23, <1>24 DEF Next

\* A function that pops only what it pushed gives its caller back every operand
\* below its own place, and one result.
THEOREM OperandsRestored == Spec => CallerIntact
<1>. DEFINE Inv == TypeOK /\ (dipped \/ Intact)
            Kept == stale < frame_count /\ frame_count' < frame_count /\ ~dipped' =>
                      /\ sp' = Base + (IF mode' = mode THEN 1 ELSE 0)
                      /\ \A i \in 0 .. Base - 1 : stack'[i] = frames[frame_count].kept[i]
<1>1. Init => Inv
  BY InitType DEF Init, Intact
<1>2. Inv /\ [Next]_vars => Inv'
  <2>1. ASSUME Inv, UNCHANGED vars PROVE Inv'
    <3>1. UNCHANGED <<frames, frame_count, stale, stack, sp, dipped>>
      BY <2>1, Zenon DEF vars
    <3>. QED  BY <2>1, <3>1, TypeNext, Zenon DEF Intact
  <2>. QED  BY <2>1, TypeNext, IntactNext, Zenon
<1>3. Inv /\ [Next]_vars => [Kept]_vars
  <2>. SUFFICES ASSUME Inv, Next, stale < frame_count, frame_count' < frame_count, ~dipped'
       PROVE  /\ sp' = Base + (IF mode' = mode THEN 1 ELSE 0)
              /\ \A i \in 0 .. Base - 1 : stack'[i] = frames[frame_count].kept[i]
    BY Zenon
  <2>1. OP_RETURN /\ frame_count # 0 /\ StackOK /\ FramesOK
    <3>1. OP_RETURN /\ frame_count > 0 /\ StackOK /\ FramesOK
      BY OnlyReturns, TypeParts, Zenon
    <3>. QED  BY <3>1
  <2>2. Intact
    BY <2>1, ReturnSteps, Zenon
  <2>3. frame_count \in stale + 1 .. frame_count /\ Base = frames[frame_count].base
    BY <2>1, Sizes DEF FramesOK, Base
  <2>4. \A i \in 0 .. Base - 1 : stack'[i] = frames[frame_count].kept[i]
    BY <2>1, <2>2, <2>3, ReturnStack, Zenon DEF Intact
  <2>5. mode # "main" => Left(FALSE) # mode
    BY OnlyReturns DEF Running, Left
  <2>6. sp' = Base + (IF mode' = mode THEN 1 ELSE 0)
    <3>1. \/ Base \in Nat /\ sp' = Base /\ mode' # mode
          \/ sp' = Base + 1 /\ mode' = mode
      BY <2>1, <2>3, <2>5, ReturnStack, Zenon
    <3>. QED  BY <3>1
  <2>. QED  BY <2>4, <2>6, Zenon
<1>. HIDE DEF Inv, Kept
<1>4. Spec => [][Kept]_vars
  BY <1>1, <1>2, <1>3, PTL DEF Spec
<1>. QED  BY <1>4, Zenon DEF Kept, CallerIntact

------------------------------------------------------------------------------
(* The collector                                                            *)

\* The first n operands of f, and the variables of the scopes sc up to d, refer
\* to slots of S only.
StackIn(f, n, S) == \A i \in 0 .. n - 1 : f[i] \in Live(S)
ScopesIn(sc, d, S) == \A e \in 0 .. d, x \in Names : sc[e][x] \in Live(S) \cup {Undefined}

\* S holds all that the program can get at, and none of it is free.
In(S) ==
    /\ S \subseteq Held(heap)
    /\ StackIn(stack, sp, S)
    /\ ScopesIn(scopes, depth, S)
    /\ Closed(heap.elems, S, {})

Reached == \E S \in SUBSET Slots : In(S)

\* A root is an operand or the value of a name.
LEMMA RootValues ==
    ASSUME NEW n, NEW v \in Roots(n)
    PROVE  \/ \E i \in 0 .. n - 1 : v = stack[i]
           \/ \E e \in 0 .. depth, x \in Names : v = scopes[e][x]
BY DEF Roots

\* The slots among the roots lie in S.
LEMMA RootsIn ==
    ASSUME StackOK, NEW S, In(S), NEW n \in 0 .. sp
    PROVE  Roots(n) \cap Slots \subseteq S
<1>0. \A i \in 0 .. n - 1 : i \in 0 .. sp - 1
  BY DEF StackOK
<1>. SUFFICES ASSUME NEW v \in Roots(n), v \in Slots PROVE v \in S
  BY Zenon
<1>1. v # Plain /\ v # Undefined
  BY SlotFacts, Zenon
<1>2. \/ \E i \in 0 .. n - 1 : v = stack[i]
      \/ \E e \in 0 .. depth, x \in Names : v = scopes[e][x]
  BY RootValues, Zenon
<1>3. CASE \E i \in 0 .. n - 1 : v = stack[i]
  BY <1>3, <1>1, <1>0, Zenon DEF In, StackIn, Live
<1>4. CASE \E e \in 0 .. depth, x \in Names : v = scopes[e][x]
  BY <1>4, <1>1, Zenon DEF In, ScopesIn, Live
<1>. QED  BY <1>2, <1>3, <1>4, Zenon

\* Then marking from the roots stays inside S.
LEMMA ReachedIsIn ==
    ASSUME TypeOK, NEW S \in SUBSET Slots, In(S)
    PROVE  Reachable \subseteq S
<1>0. StackOK
  BY TypeParts, Zenon
<1>1. sp \in 0 .. sp
  BY <1>0 DEF StackOK
<1>2. Roots(sp) \cap Slots \subseteq S
  BY <1>0, <1>1, RootsIn, Zenon
<1>3. Closed(heap.elems, S, {})
  BY Zenon DEF In
<1>. QED  BY <1>2, <1>3, MarkedLeast, Zenon DEF Reachable

\* M, and the slot s if there is one.
With(M, s) == M \cup ({s} \ {Plain})

\* An object without elements refers to nothing.
LEMMA NothingInEmpty == \A i : i \notin 1 .. Len(<<>>)
  OBVIOUS

\* The slot that is handed out is none of M, and refers to nothing.
LEMMA NewLive ==
    ASSUME NEW h, HeapOK(h), NEW pool \in {Arrays, Dicts}, NEW roots, NEW M \in SUBSET Slots,
           M \subseteq Held(Collected(h, pool, roots)), Closed(h.elems, M, {}),
           NEW s, s = NewSlot(h, pool, roots), NEW g, g = NewHeap(h, pool, roots)
    PROVE  /\ With(M, s) \in SUBSET Slots /\ With(M, s) \subseteq Held(g)
           /\ Closed(g.elems, With(M, s), {}) /\ s \in Live(With(M, s))
<1>. DEFINE c == Collected(h, pool, roots)
            T == With(M, s)
<1>1. s = Plain => g = c
  BY NewFacts, ZenonT(60)
<1>2. s # Plain => /\ s \in Slots /\ s \notin Held(c) /\ g.in_use = c.in_use \cup {s}
                   /\ g.taken = c.taken \cup {s} /\ g.elems[s] = <<>>
  BY NewFacts, ZenonT(60)
<1>3. \A t \in Slots : t # s => g.elems[t] = h.elems[t]
  BY OldElems, Zenon
<1>. HIDE DEF c
<1>4. T \in SUBSET Slots /\ s \in Live(T)
  BY <1>2, Zenon DEF With, Live
<1>5. T \subseteq Held(g)
  <2>1. M \subseteq Held(c)
    BY Zenon DEF c
  <2>. QED  BY <1>1, <1>2, <2>1, Zenon DEF With, Held
<1>6. ASSUME NEW t \in T, NEW i \in 1 .. Len(g.elems[t])
      PROVE  g.elems[t][i] \in T \cup {Plain}
  <2>1. t # s
    <3>. SUFFICES ASSUME t = s PROVE FALSE
      OBVIOUS
    <3>1. s # Plain
      BY SlotFacts, Zenon DEF With
    <3>2. g.elems[t] = <<>>
      BY <3>1, <1>2, Zenon
    <3>3. i \in 1 .. Len(<<>>)
      BY <3>2, <1>6, Zenon
    <3>. QED  BY <3>3, NothingInEmpty, Zenon
  <2>2. t \in M /\ g.elems[t] = h.elems[t]
    BY <2>1, <1>3, Zenon DEF With
  <2>3. t \in M \ {} /\ i \in 1 .. Len(h.elems[t])
    BY <2>2, <1>6, Zenon
  <2>4. h.elems[t][i] \in M \cup {Plain}
    BY <2>3, Zenon DEF Closed
  <2>. QED  BY <2>2, <2>4, Zenon DEF With
<1>7. Closed(g.elems, T, {})
  BY <1>6, Zenon DEF Closed
<1>. QED  BY <1>4, <1>5, <1>7, Zenon

\* What an allocation with n operands on the stack leaves of S: T holds all that
\* can be got at in heap g, the new slot s included.
Allocated(pool, n, S, T, s, g) ==
    /\ T \in SUBSET Slots /\ T \subseteq Held(g)
    /\ StackIn(stack, n, T) /\ ScopesIn(scopes, depth, T)
    /\ Closed(g.elems, T, {}) /\ s \in Live(T)
    /\ \A o \in S :
          (Full(heap, pool) => o \in Marked(heap.elems, Roots(n), Uncleared(heap))) => o \in T

\* What the roots of a collection refer to survives it.
LEMMA AllocLive ==
    ASSUME StackOK, ScopesOK, HeapOK(heap), NEW S \in SUBSET Slots, In(S),
           NEW pool \in {Arrays, Dicts}, NEW n \in 0 .. sp,
           NEW s, s = NewSlot(heap, pool, Roots(n)), NEW g, g = NewHeap(heap, pool, Roots(n))
    PROVE  \E T : Allocated(pool, n, S, T, s, g)
<1>. DEFINE R == Roots(n)
            old == Uncleared(heap)
            c == Collected(heap, pool, R)
            K == Marked(heap.elems, R, old)
            M == IF Full(heap, pool) THEN K ELSE S
<1>0. \A i \in 0 .. n - 1 : i \in 0 .. sp - 1
  BY DEF StackOK
<1>1. R \cap Slots \subseteq S
  BY RootsIn, Zenon
<1>2. /\ \A i \in 0 .. n - 1 : stack[i] \in R /\ stack[i] \in Values
      /\ \A e \in 0 .. depth, x \in Names : scopes[e][x] \in R /\ scopes[e][x] \in Values \cup {Undefined}
  BY <1>0 DEF Roots, StackOK, ScopesOK
<1>3. S \subseteq Held(heap) /\ Closed(heap.elems, S, {})
  BY Zenon DEF In
<1>. HIDE DEF R, old
<1>4. K \subseteq S
  <2>1. Closed(heap.elems, S, old)
    BY <1>3, ClosedMore, Zenon
  <2>. QED  BY <1>1, <2>1, MarkedLeast, Zenon
<1>5. R \cap Slots \subseteq K /\ Closed(heap.elems, K, {})
  <2>1. R \cap Slots \subseteq K /\ Closed(heap.elems, K, old)
    BY MarkedFacts, Zenon
  <2>2. \A t \in K : t \notin old
    BY <1>3, <1>4, Zenon DEF old, Uncleared, Held
  <2>. HIDE DEF K
  <2>. QED  BY <2>1, <2>2, Zenon DEF Closed
<1>6. M \in SUBSET Slots /\ R \cap Slots \subseteq M /\ Closed(heap.elems, M, {})
  BY <1>1, <1>3, <1>4, <1>5, Zenon
<1>7. M \subseteq Held(c)
  <2>1. CASE Full(heap, pool)
    <3>1. c.taken = heap.taken /\ c.in_use = old \cup K
      BY <2>1, CollectedFacts, Zenon DEF old
    <3>. QED  BY <2>1, <3>1, <1>3, <1>4, Zenon DEF Held
  <2>2. CASE ~Full(heap, pool)
    BY <2>2, <1>3, Zenon DEF Collected
  <2>. QED  BY <2>1, <2>2, Zenon
<1>8. \A o \in S : (Full(heap, pool) => o \in Marked(heap.elems, Roots(n), Uncleared(heap))) => o \in M
  BY Zenon DEF R, old
<1>9. s = NewSlot(heap, pool, R) /\ g = NewHeap(heap, pool, R)
  BY Zenon DEF R
<1>. HIDE DEF M
<1>. DEFINE T == With(M, s)
<1>10. T \in SUBSET Slots /\ T \subseteq Held(g) /\ Closed(g.elems, T, {}) /\ s \in Live(T)
  BY <1>6, <1>7, <1>9, NewLive, Zenon
<1>11. M \subseteq T
  BY Zenon DEF With
<1>. HIDE DEF T
<1>12. StackIn(stack, n, T) /\ ScopesIn(scopes, depth, T)
  BY <1>2, <1>6, <1>11, SlotFacts, Zenon DEF StackIn, ScopesIn, Live
<1>. QED  BY <1>8, <1>10, <1>11, <1>12, Zenon DEF Allocated

\* Heap g holds what h holds, and S is closed in it.
Keeps(g, h, S) == Held(g) = Held(h) /\ Closed(g.elems, S, {})

\* Values that are live in S keep it closed when they are put into a slot.
LEMMA HoldLive ==
    ASSUME NEW h, HeapOK(h), NEW S \in SUBSET Slots, Closed(h.elems, S, {}), NEW s \in Slots,
           NEW w \in Seq(Values), Len(w) =< MAX_ELEMS,
           s \in S => \A j \in 1 .. Len(w) : w[j] \in S \cup {Plain}
    PROVE  Keeps(Holding(h, s, w), h, S)
<1>. DEFINE g == Holding(h, s, w)
<1>1. HoldsOnly(h, s, w, g)
  BY HoldingType, Zenon
<1>. HIDE DEF g
<1>2. Held(g) = Held(h)
  BY <1>1, Zenon DEF HoldsOnly, Held
<1>3. ASSUME NEW t \in S, NEW j \in 1 .. Len(g.elems[t])
      PROVE  g.elems[t][j] \in S \cup {Plain}
  <2>1. g.elems[t] = IF t = s THEN w ELSE h.elems[t]
    BY <1>1, Zenon DEF HoldsOnly
  <2>2. CASE t = s
    BY <2>1, <2>2, <1>3, Zenon
  <2>3. CASE t # s
    <3>1. t \in S \ {} /\ g.elems[t] = h.elems[t]
      BY <2>1, <2>3, Zenon
    <3>. QED  BY <3>1, <1>3, Zenon DEF Closed
  <2>. QED  BY <2>2, <2>3, Zenon
<1>4. Keeps(g, h, S)
  BY <1>2, <1>3, Zenon DEF Closed, Keeps
<1>. QED  BY <1>4, Zenon DEF g

\* So does filling a slot with live values.
LEMMA FillLive ==
    ASSUME NEW h, HeapOK(h), NEW S \in SUBSET Slots, Closed(h.elems, S, {}), NEW s,
           NEW n \in Nat, NEW vs, \A j \in 1 .. n : vs[j] \in Live(S)
    PROVE  Keeps(AddedAll(h, s, vs, n), h, S)
<1>. DEFINE g == AddedAll(h, s, vs, n)
<1>0. \A j \in 1 .. n : vs[j] \in Values
  BY SlotFacts, Zenon DEF Live
<1>1. Fills(h, s, vs, n, g)
  BY <1>0, FillFacts, Zenon
<1>. SUFFICES Keeps(g, h, S)
  BY Zenon
<1>. HIDE DEF g
<1>2. CASE g = h
  BY <1>2, Zenon DEF Keeps
<1>3. CASE g # h
  <2>1. PICK w \in Seq(Values) :
           /\ s \in Slots /\ Len(w) =< MAX_ELEMS /\ g = Holding(h, s, w)
           /\ \A j \in 1 .. Len(w) : j \in 1 .. n /\ w[j] = vs[j]
    BY <1>1, <1>3, Zenon DEF Fills
  <2>2. \A j \in 1 .. Len(w) : w[j] \in S \cup {Plain}
    BY <2>1, Zenon DEF Live
  <2>3. Keeps(Holding(h, s, w), h, S)
    BY <2>1, <2>2, HoldLive, Zenon
  <2>. QED  BY <2>1, <2>3, Zenon
<1>. QED  BY <1>2, <1>3, Zenon

\* And adding or replacing an element.
LEMMA StoreLive ==
    ASSUME NEW h, HeapOK(h), NEW S \in SUBSET Slots, Closed(h.elems, S, {}), NEW s,
           NEW v \in Live(S), NEW i, NEW g, g = Added(h, s, v) \/ g = Stored(h, s, i, v)
    PROVE  Keeps(g, h, S)
<1>0. v \in Values
  BY SlotFacts, Zenon DEF Live
<1>1. Stores(h, s, v, g)
  BY <1>0, StoreFacts, Zenon
<1>2. CASE g = h
  BY <1>2, Zenon DEF Keeps
<1>3. CASE g # h
  <2>1. PICK w \in Seq(Values) :
           /\ s \in Slots /\ Len(w) =< MAX_ELEMS /\ g = Holding(h, s, w)
           /\ \A j \in 1 .. Len(w) :
                 w[j] = v \/ (j \in 1 .. Len(h.elems[s]) /\ w[j] = h.elems[s][j])
    BY <1>1, <1>3, Zenon DEF Stores
  <2>2. ASSUME s \in S, NEW j \in 1 .. Len(w) PROVE w[j] \in S \cup {Plain}
    <3>1. s \in S \ {}
      BY <2>2, Zenon
    <3>. QED  BY <3>1, <2>1, Zenon DEF Live, Closed
  <2>3. s \in S => \A j \in 1 .. Len(w) : w[j] \in S \cup {Plain}
    BY <2>2, Zenon
  <2>4. Keeps(Holding(h, s, w), h, S)
    BY <2>1, <2>3, HoldLive, Zenon
  <2>. QED  BY <2>1, <2>4, Zenon
<1>. QED  BY <1>2, <1>3, Zenon

\* Operands are live.
LEMMA OperandLive ==
    ASSUME StackOK, NEW S, StackIn(stack, sp, S), NEW n \in Nat
    PROVE  Operand(n) \in Live(S)
<1>1. CASE sp > n
  <2>1. sp - 1 - n \in 0 .. sp - 1
    BY <1>1 DEF StackOK
  <2>. QED  BY <1>1, <2>1, Zenon DEF Operand, StackIn
<1>2. CASE ~(sp > n)
  BY <1>2, Zenon DEF Operand, Live
<1>. QED  BY <1>1, <1>2, Zenon

\* A shorter stack is live, and so is one with a live value on top.
LEMMA StackLive ==
    ASSUME StackOK, NEW S, NEW n \in 0 .. sp, StackIn(stack, n, S)
    PROVE  /\ \A m \in 0 .. n : StackIn(stack, m, S) /\ StackIn(Cut(m), m, S)
           /\ \A v \in Live(S) : StackIn(Topped(n, v), n + 1, S)
<1>0. n \in Nat
  BY DEF StackOK
<1>1. ASSUME NEW m \in 0 .. n PROVE StackIn(stack, m, S) /\ StackIn(Cut(m), m, S)
  <2>1. \A i \in 0 .. m - 1 : i \in 0 .. n - 1
    BY <1>0
  <2>2. StackIn(stack, m, S)
    BY <2>1, Zenon DEF StackIn
  <2>. QED  BY <2>2, Zenon DEF StackIn, Cut
<1>2. ASSUME NEW v \in Live(S) PROVE StackIn(Topped(n, v), n + 1, S)
  <2>1. \A i \in 0 .. n : Topped(n, v)[i] = IF i = n THEN v ELSE stack[i]
    BY Zenon DEF Topped
  <2>2. \A i \in 0 .. n + 1 - 1 : i \in 0 .. n /\ (i # n => i \in 0 .. n - 1)
    BY <1>0
  <2>. QED  BY <2>1, <2>2 DEF StackIn
<1>. QED  BY <1>1, <1>2, Zenon

\* Pops, pushes and results leave a live stack.
LEMMA StepsLive ==
    ASSUME StackOK, NEW S, NEW n \in Nat, NEW v \in Live(S)
    PROVE  /\ Drop(n) /\ StackIn(stack, sp, S) => StackIn(stack', sp', S)
           /\ Push(v) /\ StackIn(stack, sp, S) => StackIn(stack', sp', S)
           /\ Replace(n, v) /\ StackIn(stack, Below(n), S) => StackIn(stack', sp', S)
<1>0. Below(n) \in 0 .. sp /\ sp \in 0 .. sp
  BY OperandType DEF StackOK
<1>1. Drop(n) /\ StackIn(stack, sp, S) => StackIn(stack', sp', S)
  BY <1>0, StackLive, Zenon DEF Drop
<1>2. Push(v) /\ StackIn(stack, sp, S) => StackIn(stack', sp', S)
  BY <1>0, StackLive, Zenon DEF Push
<1>3. Replace(n, v) /\ StackIn(stack, Below(n), S) => StackIn(stack', sp', S)
  BY <1>0, StackLive, Zenon DEF Replace
<1>. QED  BY <1>1, <1>2, <1>3, Zenon

\* The scope chain after one is opened or closed.
LEMMA ScopesLive ==
    ASSUME ScopesOK, NEW S, ScopesIn(scopes, depth, S)
    PROVE  ScopesIn(Opened, OpenedDepth, S) /\ ScopesIn(Shut, ShutDepth, S)
<1>0. depth \in Nat
  BY Sizes DEF ScopesOK
<1>1. ScopesIn(Opened, OpenedDepth, S)
  <2>1. CASE AtLimit
    BY <2>1, Zenon DEF Opened, OpenedDepth
  <2>2. CASE ~AtLimit
    <3>1. \A e \in 0 .. depth + 1 : Opened[e] = IF e > depth THEN EmptyScope ELSE scopes[e]
      BY <2>2, Zenon DEF Opened
    <3>2. \A e \in 0 .. depth + 1 : ~(e > depth) => e \in 0 .. depth
      BY <1>0
    <3>3. \A x \in Names : EmptyScope[x] = Undefined
      BY Zenon DEF EmptyScope
    <3>. QED  BY <2>2, <3>1, <3>2, <3>3, Zenon DEF ScopesIn, OpenedDepth
  <2>. QED  BY <2>1, <2>2, Zenon
<1>2. ScopesIn(Shut, ShutDepth, S)
  <2>1. CASE depth > 0
    <3>1. \A e \in 0 .. depth - 1 : Shut[e] = scopes[e] /\ e \in 0 .. depth
      BY <2>1, <1>0 DEF Shut
    <3>. QED  BY <2>1, <3>1, Zenon DEF ScopesIn, ShutDepth
  <2>2. CASE ~(depth > 0)
    BY <2>2, Zenon DEF Shut, ShutDepth
  <2>. QED  BY <2>1, <2>2, Zenon
<1>. QED  BY <1>1, <1>2, Zenon

\* The scope of a call holds arguments, nil, or what was there at the limit.
LEMMA EnterLive ==
    ASSUME ScopesOK, NEW S, ScopesIn(scopes, depth, S), NEW b \in Nat, NEW argc \in Nat,
           NEW params \in Params, NEW st, \A i \in 0 .. b + argc : st[i] \in Live(S),
           Enter(st, b, argc, params)
    PROVE  ScopesIn(scopes', depth', S) /\ StackIn(stack', sp', S)
<1>. DEFINE top == Opened[OpenedDepth]
            s == Bound(top, params, st, b, argc)
<1>1. OpenedDepth \in Nat /\ Opened \in [0 .. OpenedDepth -> [Names -> Slot]]
  BY OpenedType, Sizes
<1>2. ScopesIn(Opened, OpenedDepth, S)
  BY ScopesLive, Zenon
<1>3. \A x \in Names : s[x] \in Live(S) \cup {Undefined}
  <2>. TAKE x \in Names
  <2>1. top[x] \in Live(S) \cup {Undefined}
    BY <1>1, <1>2 DEF ScopesIn
  <2>2. \A i \in b .. b + argc : st[i] \in Live(S) \cup {Undefined}
    OBVIOUS
  <2>3. Plain \in Live(S) \cup {Undefined}
    BY Zenon DEF Live
  <2>. HIDE DEF top
  <2>. QED  BY <2>1, <2>2, <2>3, BoundIn, Zenon
<1>4. scopes' = [Opened EXCEPT ![OpenedDepth] = s] /\ depth' = OpenedDepth
  BY <1>1, Zenon DEF Enter
<1>. HIDE DEF s
<1>5. \A e \in 0 .. OpenedDepth : scopes'[e] = IF e = OpenedDepth THEN s ELSE Opened[e]
  BY <1>1, <1>4, Zenon
<1>6. ScopesIn(scopes', depth', S)
  BY <1>2, <1>3, <1>4, <1>5 DEF ScopesIn
<1>7. stack' = [i \in 0 .. b - 1 |-> st[i]] /\ sp' = b
  BY Zenon DEF Enter
<1>8. StackIn(stack', sp', S)
  BY <1>7 DEF StackIn
<1>. QED  BY <1>6, <1>8, Zenon

\* A variable is given a live value.
LEMMA DefineLive ==
    ASSUME ScopesOK, NEW S, ScopesIn(scopes, depth, S), NEW d \in 0 .. depth, NEW x \in Names,
           NEW v \in Live(S), scopes' = [scopes EXCEPT ![d] = [@ EXCEPT ![x] = v]]
    PROVE  ScopesIn(scopes', depth, S)
<1>1. \A e \in 0 .. depth, y \in Names :
         scopes'[e][y] = IF e = d /\ y = x THEN v ELSE scopes[e][y]
  BY Zenon DEF ScopesOK
<1>. QED  BY <1>1 DEF ScopesIn

\* What has gone wrong once is remembered.
LEMMA Remembered ==
    ASSUME TypeOK, Next, ~dipped', ~loose'
    PROVE  ~dipped /\ ~loose
<1>. dipped \in BOOLEAN /\ loose \in BOOLEAN
  BY Zenon DEF TypeOK
<1>. DEFINE Kept == ~dipped /\ ~loose
<1>1. CASE OP_CONSTANT
  <2>1. dipped' = dipped \/ \E b : dipped' = (dipped \/ b)
    BY <1>1, Zenon DEF OP_CONSTANT, Push, Quiet
  <2>2. loose' = loose \/ \E b : loose' = (loose \/ b)
    BY <1>1, Zenon DEF OP_CONSTANT, Push, Quiet
  <2>. QED  BY <2>1, <2>2, Zenon
<1>2. CASE OP_DUP
  <2>1. dipped' = dipped \/ \E b : dipped' = (dipped \/ b)
    BY <1>2, Zenon DEF OP_DUP, Push, Quiet
  <2>2. loose' = loose \/ \E b : loose' = (loose \/ b)
    BY <1>2, Zenon DEF OP_DUP, Push, Quiet
  <2>. QED  BY <2>1, <2>2, Zenon
<1>3. CASE OP_POP
  BY <1>3, Zenon DEF OP_POP, Drop, Dip, Quiet
<1>4. ASSUME NEW n \in 1 .. 3, OP_COMPUTE(n) PROVE Kept
  BY <1>4, Zenon DEF OP_COMPUTE, Replace, Dip, Quiet
<1>5. ASSUME NEW n \in 0 .. 2, OP_FAIL(n) PROVE Kept
  BY <1>5, Zenon DEF OP_FAIL, Drop, Dip, Quiet
<1>6. ASSUME NEW x \in Names, OP_GET_GLOBAL(x) PROVE Kept
  <2>1. dipped' = dipped \/ \E b : dipped' = (dipped \/ b)
    BY <1>6, Zenon DEF OP_GET_GLOBAL, Push, Quiet
  <2>2. loose' = loose \/ \E b : loose' = (loose \/ b)
    BY <1>6, Zenon DEF OP_GET_GLOBAL, Push, Quiet
  <2>. QED  BY <2>1, <2>2, Zenon
<1>7. ASSUME NEW x \in Names, OP_DEFINE_GLOBAL(x) PROVE Kept
  BY <1>7, Zenon DEF OP_DEFINE_GLOBAL, Drop, Dip
<1>8. ASSUME NEW x \in Names, OP_SET_GLOBAL(x) PROVE Kept
  BY <1>8, Zenon DEF OP_SET_GLOBAL, Drop, Dip
<1>9. CASE OP_PUSH_ENV
  BY <1>9, Zenon DEF OP_PUSH_ENV
<1>10. CASE OP_POP_ENV
  BY <1>10, Zenon DEF OP_POP_ENV
<1>11. ASSUME NEW argc \in 0 .. ARGS, NEW params \in Params, OP_CALL(argc, params) PROVE Kept
  <2>1. dipped' = dipped \/ \E b : dipped' = (dipped \/ b)
    BY <1>11, Zenon DEF OP_CALL, Enter
  <2>2. loose' = loose \/ \E b : loose' = (loose \/ b)
    BY <1>11, Zenon DEF OP_CALL, Enter
  <2>. QED  BY <2>1, <2>2, Zenon
<1>12. CASE OP_RETURN
  <2>1. CASE frame_count = 0 /\ Drop(1) /\ UNCHANGED loose
    BY <2>1, Zenon DEF Drop, Dip
  <2>2. CASE frame_count # 0
    <3>1. dipped' = dipped \/ \E b : dipped' = (dipped \/ b)
      BY <1>12, <2>2, ReturnSteps, Zenon
    <3>2. loose' = loose \/ \E b : loose' = (loose \/ b)
      BY <1>12, <2>2, ReturnSteps, Zenon
    <3>. QED  BY <3>1, <3>2, Zenon
  <2>3. frame_count = 0 => Drop(1) /\ UNCHANGED loose
    BY <1>12 DEF OP_RETURN
  <2>. QED  BY <2>1, <2>2, <2>3, Zenon
<1>13. CASE OP_HALT
  BY <1>13, Zenon DEF OP_HALT
<1>14. ASSUME NEW argc \in 0 .. ARGS, NEW params \in Params, NEW query \in BOOLEAN,
             metal_vm_call(argc, params, query)
      PROVE  Kept
  BY <1>14, HostCall, Zenon DEF Enter
<1>15. ASSUME NEW n \in 0 .. ARGS, OP_ARRAY(n) PROVE Kept
  BY <1>15, Zenon DEF OP_ARRAY, Push, Replace, Dip
<1>16. ASSUME NEW n \in 0 .. ARGS, OP_DICT(n) PROVE Kept
  BY <1>16, Zenon DEF OP_DICT, Push, Replace, Dip
<1>17. ASSUME NEW n \in 1 .. 2, NEW i \in 0 .. MAX_ELEMS, OP_GET(n, i) PROVE Kept
  BY <1>17, Zenon DEF OP_GET, Replace, Dip, Quiet
<1>18. ASSUME NEW n \in 2 .. 3, NEW i \in 0 .. MAX_ELEMS, OP_SET(n, i) PROVE Kept
  BY <1>18, Zenon DEF OP_SET, Replace, Dip
<1>19. CASE ArrayPush
  BY <1>19, Zenon DEF ArrayPush, Replace, Dip
<1>20. ASSUME NEW n \in 0 .. MAX_ELEMS, OP_SLICE(n) PROVE Kept
  <2>1. dipped' = dipped \/ \E b : dipped' = (dipped \/ b)
    BY <1>20, Zenon DEF OP_SLICE, Drop, Replace, Dip
  <2>2. loose' = loose \/ \E b : loose' = (loose \/ b)
    BY <1>20, Zenon DEF OP_SLICE, Drop, Replace, Dip
  <2>. QED  BY <2>1, <2>2, Zenon
<1>21. ASSUME NEW argc \in 0 .. ARGS, NEW n \in 0 .. MAX_ELEMS, NativeArray(argc, n) PROVE Kept
  BY <1>21, Zenon DEF NativeArray, Replace, Dip
<1>22. ASSUME NEW argc \in 0 .. ARGS, NativeList(argc) PROVE Kept
  BY <1>22, Zenon DEF NativeList, Replace, Dip
<1>23. CASE vfs_reset
  BY <1>23, Zenon DEF vfs_reset
<1>24. CASE sage_shell_run
  BY <1>24, Zenon DEF sage_shell_run
<1>. HIDE DEF Kept
<1>25. Kept
  BY <1>1, <1>2, <1>3, <1>4, <1>5, <1>6, <1>7, <1>8, <1>9, <1>10, <1>11, <1>12, <1>13, <1>14, <1>15, <1>16, <1>17, <1>18, <1>19, <1>20, <1>21, <1>22, <1>23, <1>24, Zenon DEF Next, Kept
<1>. QED  BY <1>25, Zenon DEF Kept

\* A set that holds all of it after the step.
LEMMA Witness ==
    ASSUME NEW T \in SUBSET Slots, NEW U, U = Held(heap'), T \subseteq U,
           StackIn(stack', sp', T), ScopesIn(scopes', depth', T), Closed(heap'.elems, T, {})
    PROVE  Reached'
BY Zenon DEF Reached, In

\* When the pools are left alone, S is one if it still holds the operands and
\* variables.
LEMMA SameHeap ==
    ASSUME NEW S \in SUBSET Slots, In(S), UNCHANGED heap,
           StackIn(stack', sp', S), ScopesIn(scopes', depth', S)
    PROVE  Reached'
<1>1. S \subseteq Held(heap') /\ Closed(heap'.elems, S, {})
  BY Zenon DEF In, Held
<1>. QED  BY <1>1, Witness, Zenon

\* Every step keeps what can be got at in use, or records why it cannot.
LEMMA LiveNext ==
    ASSUME TypeOK, NEW S \in SUBSET Slots, In(S), Next, ~dipped', ~loose'
    PROVE  Reached'
<1>. StackOK /\ FramesOK /\ ScopesOK /\ HeapOK(heap)
  BY TypeParts, Zenon
<1>0. sp \in 0 .. sp /\ Plain \in Live(S)
  BY DEF StackOK, Live
<1>00. \A n \in Nat : Below(n) \in 0 .. sp
  BY OperandType, Zenon
<1>1. CASE OP_CONSTANT
  <2>1. UNCHANGED <<heap, scopes, depth>>
    BY <1>1, Zenon DEF OP_CONSTANT, Push, Quiet, calls
  <2>2. StackIn(stack', sp', S)
    BY <1>1, <2>1, <1>0, StepsLive, Zenon DEF OP_CONSTANT, In
  <2>. QED  BY <2>1, <2>2, SameHeap, Zenon DEF In
<1>2. CASE OP_DUP
  <2>1. UNCHANGED <<heap, scopes, depth>>
    BY <1>2, Zenon DEF OP_DUP, Push, Quiet, calls
  <2>2. Operand(0) \in Live(S)
    BY <2>1, OperandLive, Zenon DEF In
  <2>3. StackIn(stack', sp', S)
    BY <1>2, <2>1, <2>2, StepsLive, Zenon DEF OP_DUP, In
  <2>. QED  BY <2>1, <2>3, SameHeap, Zenon DEF In
<1>3. CASE OP_POP
  <2>1. UNCHANGED <<heap, scopes, depth>>
    BY <1>3, Zenon DEF OP_POP, Drop, Dip, Quiet, calls
  <2>2. StackIn(stack', sp', S)
    BY <1>3, <2>1, <1>0, StepsLive, Zenon DEF OP_POP, In
  <2>. QED  BY <2>1, <2>2, SameHeap, Zenon DEF In
<1>4. ASSUME NEW n \in 1 .. 3, OP_COMPUTE(n) PROVE Reached'
  <2>1. UNCHANGED <<heap, scopes, depth>>
    BY <1>4, Zenon DEF OP_COMPUTE, Replace, Dip, Quiet, calls
  <2>2. StackIn(stack, Below(n), S)
    BY <1>4, <2>1, <1>0, <1>00, StackLive DEF In
  <2>3. StackIn(stack', sp', S)
    BY <1>4, <2>2, <1>0, StepsLive DEF OP_COMPUTE
  <2>. QED  BY <2>1, <2>3, SameHeap, Zenon DEF In
<1>5. ASSUME NEW n \in 0 .. 2, OP_FAIL(n) PROVE Reached'
  <2>1. UNCHANGED <<heap, scopes, depth>>
    BY <1>5, Zenon DEF OP_FAIL, Drop, Dip, Quiet, calls
  <2>2. StackIn(stack', sp', S)
    BY <1>5, <2>1, <1>0, StepsLive DEF OP_FAIL, In
  <2>. QED  BY <2>1, <2>2, SameHeap, Zenon DEF In
<1>6. ASSUME NEW x \in Names, OP_GET_GLOBAL(x) PROVE Reached'
  <2>1. UNCHANGED <<heap, scopes, depth>>
    BY <1>6, Zenon DEF OP_GET_GLOBAL, Push, Quiet, calls
  <2>. DEFINE v == IF Holders(x) = {} THEN Plain ELSE scopes[Innermost(x)][x]
  <2>2. v \in Live(S)
    BY <2>1, <1>0, LookupType, Zenon DEF In, ScopesIn
  <2>3. Push(v)
    BY <1>6, Zenon DEF OP_GET_GLOBAL
  <2>. HIDE DEF v
  <2>4. StackIn(stack', sp', S)
    BY <2>1, <2>2, <2>3, StepsLive, Zenon DEF In
  <2>. QED  BY <2>1, <2>4, SameHeap, Zenon DEF In
<1>7. ASSUME NEW x \in Names, OP_DEFINE_GLOBAL(x) PROVE Reached'
  <2>1. UNCHANGED <<heap, depth>> /\ Drop(1)
    BY <1>7, Zenon DEF OP_DEFINE_GLOBAL, Drop, Dip
  <2>2. Operand(0) \in Live(S) /\ depth \in 0 .. depth
    BY <2>1, OperandLive DEF In, ScopesOK
  <2>3. ScopesIn(scopes', depth, S)
    BY <1>7, <2>1, <2>2, DefineLive, Zenon DEF OP_DEFINE_GLOBAL, In
  <2>4. StackIn(stack', sp', S)
    BY <2>1, <1>0, StepsLive, Zenon DEF In
  <2>. QED  BY <2>1, <2>3, <2>4, SameHeap, Zenon DEF In
<1>8. ASSUME NEW x \in Names, OP_SET_GLOBAL(x) PROVE Reached'
  <2>1. UNCHANGED <<heap, depth>> /\ Drop(1)
    BY <1>8, Zenon DEF OP_SET_GLOBAL, Drop, Dip
  <2>. DEFINE d == IF Holders(x) = {} THEN depth ELSE Innermost(x)
  <2>2. Operand(0) \in Live(S) /\ d \in 0 .. depth
    BY <2>1, OperandLive, LookupType DEF In, ScopesOK
  <2>3. scopes' = [scopes EXCEPT ![d] = [@ EXCEPT ![x] = Operand(0)]]
    BY <1>8, Zenon DEF OP_SET_GLOBAL
  <2>. HIDE DEF d
  <2>4. ScopesIn(scopes', depth, S)
    BY <2>1, <2>2, <2>3, DefineLive, Zenon DEF In
  <2>5. StackIn(stack', sp', S)
    BY <2>1, <1>0, StepsLive, Zenon DEF In
  <2>. QED  BY <2>1, <2>4, <2>5, SameHeap, Zenon DEF In
<1>9. CASE OP_PUSH_ENV
  <2>1. UNCHANGED <<heap, stack, sp>> /\ scopes' = Opened /\ depth' = OpenedDepth
    BY <1>9, Zenon DEF OP_PUSH_ENV
  <2>2. ScopesIn(scopes', depth', S)
    BY <2>1, ScopesLive, Zenon DEF In
  <2>. QED  BY <2>1, <2>2, SameHeap, Zenon DEF In
<1>10. CASE OP_POP_ENV
  <2>1. UNCHANGED <<heap, stack, sp>> /\ scopes' = Shut /\ depth' = ShutDepth
    BY <1>10, Zenon DEF OP_POP_ENV
  <2>2. ScopesIn(scopes', depth', S)
    BY <2>1, ScopesLive, Zenon DEF In
  <2>. QED  BY <2>1, <2>2, SameHeap, Zenon DEF In
<1>11. ASSUME NEW argc \in 0 .. ARGS, NEW params \in Params, OP_CALL(argc, params) PROVE Reached'
  <2>1. CASE UNCHANGED <<stack, sp, heap>> /\ UNCHANGED calls
    BY <2>1, SameHeap, Zenon DEF calls, In
  <2>2. CASE Enter(stack, sp - argc - 1, argc, params) /\ UNCHANGED heap
    <3>1. argc < sp /\ argc \in Nat
      BY <1>11, Sizes DEF OP_CALL
    <3>2. sp - argc - 1 \in Nat /\ \A i \in 0 .. sp - argc - 1 + argc : i \in 0 .. sp - 1
      BY <3>1 DEF StackOK
    <3>3. \A i \in 0 .. sp - argc - 1 + argc : stack[i] \in Live(S)
      BY <3>2, Zenon DEF In, StackIn
    <3>4. ScopesIn(scopes', depth', S) /\ StackIn(stack', sp', S)
      BY <2>2, <3>1, <3>2, <3>3, EnterLive, Zenon DEF In
    <3>. QED  BY <2>2, <3>4, SameHeap, Zenon
  <2>. QED  BY <1>11, <2>1, <2>2, Zenon DEF OP_CALL
<1>12. CASE OP_RETURN
  <2>1. CASE frame_count = 0
    <3>1. Drop(1) /\ UNCHANGED <<heap, scopes, depth>>
      BY <1>12, <2>1 DEF OP_RETURN, calls
    <3>2. StackIn(stack', sp', S)
      BY <3>1, <1>0, StepsLive, Zenon DEF In
    <3>. QED  BY <3>1, <3>2, SameHeap, Zenon DEF In
  <2>2. CASE frame_count # 0
    <3>. DEFINE b == frames[frame_count].base
    <3>1. UNCHANGED heap /\ scopes' = Shut /\ depth' = ShutDepth
      BY <1>12, <2>2, ReturnSteps, Zenon
    <3>2. ScopesIn(scopes', depth', S)
      BY <3>1, ScopesLive, Zenon DEF In
    <3>3. Operand(0) \in Live(S)
      BY OperandLive, Zenon DEF In
    <3>4. /\ b \in Nat /\ b =< Below(1) /\ Below(1) =< sp
          /\ sp' = b \/ sp' = b + 1
          /\ \A j \in 0 .. b - 1 : stack'[j] = stack[j]
          /\ sp' = b + 1 => stack'[b] = Operand(0)
      BY <1>12, <2>2, ReturnStack, Zenon
    <3>. HIDE DEF b
    <3>5. \A j \in 0 .. b - 1 : stack'[j] \in Live(S)
      <4>1. \A j \in 0 .. b - 1 : j \in 0 .. sp - 1
        BY <3>4, <1>00 DEF StackOK
      <4>. QED  BY <4>1, <3>4, Zenon DEF In, StackIn
    <3>6. \A j \in 0 .. sp' - 1 : stack'[j] \in Live(S)
      <4>1. CASE sp' = b
        BY <4>1, <3>5, Zenon
      <4>2. CASE sp' = b + 1
        <5>1. \A j \in 0 .. sp' - 1 : j = b \/ j \in 0 .. b - 1
          BY <4>2, <3>4
        <5>. QED  BY <4>2, <5>1, <3>3, <3>4, <3>5, Zenon
      <4>. QED  BY <4>1, <4>2, <3>4, Zenon
    <3>7. StackIn(stack', sp', S)
      BY <3>6, Zenon DEF StackIn
    <3>. QED  BY <3>1, <3>2, <3>7, SameHeap, Zenon
  <2>. QED  BY <2>1, <2>2, Zenon
<1>13. CASE OP_HALT
  BY <1>13, SameHeap, Zenon DEF OP_HALT, In, calls
<1>14. ASSUME NEW argc \in 0 .. ARGS, NEW params \in Params, NEW query \in BOOLEAN,
             metal_vm_call(argc, params, query)
      PROVE  Reached'
  <2>0. /\ HostTop(argc) - argc - 1 \in 0 .. STACK_SIZE - 1 /\ HostTop(argc) \in 0 .. STACK_SIZE
        /\ argc \in Nat
    BY HostPlace, Sizes
  <2>2. \A i \in 0 .. HostTop(argc) - 1 : HostStack(argc)[i] \in Live(S)
    BY <1>0 DEF HostStack, In, StackIn, StackOK
  <2>3. CASE stack' = HostStack(argc) /\ sp' = HostTop(argc) /\ UNCHANGED calls /\ UNCHANGED heap
    <3>1. StackIn(stack', sp', S)
      BY <2>2, <2>3, Zenon DEF StackIn
    <3>. QED  BY <2>3, <3>1, SameHeap, Zenon DEF In, calls
  <2>4. CASE Enter(HostStack(argc), HostTop(argc) - argc - 1, argc, params) /\ UNCHANGED heap
    <3>1. HostTop(argc) - argc - 1 \in Nat /\ HostTop(argc) - argc - 1 + argc = HostTop(argc) - 1
      BY <2>0
    <3>2. \A i \in 0 .. HostTop(argc) - argc - 1 + argc : HostStack(argc)[i] \in Live(S)
      BY <2>2, <3>1, Zenon
    <3>3. ScopesIn(scopes', depth', S) /\ StackIn(stack', sp', S)
      BY <2>0, <2>4, <3>1, <3>2, EnterLive, Zenon DEF In
    <3>. QED  BY <2>4, <3>3, SameHeap, Zenon
  <2>. QED  BY <1>14, <2>3, <2>4, HostCall, Zenon
<1>15. ASSUME NEW n \in 0 .. ARGS, OP_ARRAY(n) PROVE Reached'
  <2>. DEFINE s == NewSlot(heap, Arrays, Roots(sp))
              h == NewHeap(heap, Arrays, Roots(sp))
              vs == [j \in 1 .. n |-> stack[sp - n + j - 1]]
  <2>0. n \in Nat /\ n \in Nat /\ n =< sp
    BY <1>15, Sizes, SMTT(30) DEF OP_ARRAY
  <2>1. UNCHANGED <<scopes, depth>>
    BY <1>15, Zenon DEF OP_ARRAY, calls
  <2>2. HeapOK(h)
    BY NewFacts, Zenon
  <2>3. PICK T : Allocated(Arrays, sp, S, T, s, h)
    BY <1>0, AllocLive, Zenon
  <2>4. \/ heap' = h /\ UNCHANGED <<stack, sp>>
        \/ heap' = AddedAll(h, s, vs, n) /\ (Push(s) \/ Replace(n, s))
    BY <1>15, Zenon DEF OP_ARRAY
  <2>. HIDE DEF s, h
  <2>5. /\ T \in SUBSET Slots /\ T \subseteq Held(h) /\ Closed(h.elems, T, {}) /\ s \in Live(T)
        /\ StackIn(stack, sp, T) /\ ScopesIn(scopes, depth, T)
    BY <2>3, Zenon DEF Allocated
  <2>6. CASE heap' = h /\ UNCHANGED <<stack, sp>>
    BY <2>1, <2>5, <2>6, Witness, Zenon
  <2>7. CASE heap' = AddedAll(h, s, vs, n) /\ (Push(s) \/ Replace(n, s))
    <3>1. \A j \in 1 .. n : vs[j] \in Live(T)
      BY <2>0, <2>5 DEF StackIn, StackOK
    <3>. HIDE DEF vs
    <3>2. Held(heap') = Held(h) /\ Closed(heap'.elems, T, {})
      <4>1. Keeps(AddedAll(h, s, vs, n), h, T)
        BY <2>0, <2>2, <2>5, <2>7, <3>1, FillLive, Zenon
      <4>. QED  BY <2>7, <4>1, Zenon DEF Keeps
    <3>3. StackIn(stack, Below(n), T)
      BY <2>0, <2>5, <1>0, <1>00, StackLive, Zenon
    <3>4. StackIn(stack', sp', T)
      BY <2>0, <2>5, <2>7, <3>3, StepsLive, Zenon
    <3>. QED  BY <2>1, <2>5, <3>2, <3>4, Witness, Zenon
  <2>. QED  BY <2>4, <2>6, <2>7, Zenon
<1>16. ASSUME NEW n \in 0 .. ARGS, OP_DICT(n) PROVE Reached'
  <2>. DEFINE s == NewSlot(heap, Dicts, Roots(sp))
              h == NewHeap(heap, Dicts, Roots(sp))
              vs == [j \in 1 .. n |-> Operand(2 * j - 2)]
  <2>0. n \in Nat /\ 2 * n \in Nat /\ 2 * n =< sp
    BY <1>16, Sizes DEF OP_DICT
  <2>1. UNCHANGED <<scopes, depth>>
    BY <1>16, Zenon DEF OP_DICT, calls
  <2>2. HeapOK(h)
    BY NewFacts, Zenon
  <2>3. PICK T : Allocated(Dicts, sp, S, T, s, h)
    BY <1>0, AllocLive, Zenon
  <2>4. \/ heap' = h /\ UNCHANGED <<stack, sp>>
        \/ heap' = AddedAll(h, s, vs, n) /\ (Push(s) \/ Replace(2 * n, s))
    BY <1>16, Zenon DEF OP_DICT
  <2>. HIDE DEF s, h
  <2>5. /\ T \in SUBSET Slots /\ T \subseteq Held(h) /\ Closed(h.elems, T, {}) /\ s \in Live(T)
        /\ StackIn(stack, sp, T) /\ ScopesIn(scopes, depth, T)
    BY <2>3, Zenon DEF Allocated
  <2>6. CASE heap' = h /\ UNCHANGED <<stack, sp>>
    BY <2>1, <2>5, <2>6, Witness, Zenon
  <2>7. CASE heap' = AddedAll(h, s, vs, n) /\ (Push(s) \/ Replace(2 * n, s))
    <3>1. \A j \in 1 .. n : vs[j] \in Live(T)
      BY <2>0, <2>5, OperandLive
    <3>. HIDE DEF vs
    <3>2. Held(heap') = Held(h) /\ Closed(heap'.elems, T, {})
      <4>1. Keeps(AddedAll(h, s, vs, n), h, T)
        BY <2>0, <2>2, <2>5, <2>7, <3>1, FillLive, Zenon
      <4>. QED  BY <2>7, <4>1, Zenon DEF Keeps
    <3>3. StackIn(stack, Below(2 * n), T)
      BY <2>0, <2>5, <1>0, <1>00, StackLive, Zenon
    <3>4. StackIn(stack', sp', T)
      BY <2>0, <2>5, <2>7, <3>3, StepsLive, Zenon
    <3>. QED  BY <2>1, <2>5, <3>2, <3>4, Witness, Zenon
  <2>. QED  BY <2>4, <2>6, <2>7, Zenon
<1>17. ASSUME NEW n \in 1 .. 2, NEW i \in 0 .. MAX_ELEMS, OP_GET(n, i) PROVE Reached'
  <2>1. UNCHANGED <<heap, scopes, depth>>
    BY <1>17, Zenon DEF OP_GET, Replace, Dip, Quiet, calls
  <2>. DEFINE o == Operand(n - 1)
              v == Element(o, i)
  <2>2. o \in Live(S)
    BY <1>17, <2>1, OperandLive DEF In
  <2>. HIDE DEF o
  <2>3. v \in Live(S)
    BY <2>1, <2>2, <1>0, SlotFacts, Zenon DEF Element, Live, In, Closed
  <2>4. StackIn(stack, Below(n), S)
    BY <1>17, <2>1, <1>0, <1>00, StackLive, SMTT(30) DEF In
  <2>5. Replace(n, v)
    BY <1>17, Zenon DEF OP_GET, o
  <2>. HIDE DEF v
  <2>6. StackIn(stack', sp', S)
    BY <1>17, <2>3, <2>4, <2>5, StepsLive
  <2>. QED  BY <2>1, <2>6, SameHeap, Zenon DEF In
<1>18. ASSUME NEW n \in 2 .. 3, NEW i \in 0 .. MAX_ELEMS, OP_SET(n, i) PROVE Reached'
  <2>1. UNCHANGED <<scopes, depth>> /\ Replace(n, Operand(0))
    BY <1>18, Zenon DEF OP_SET, calls
  <2>2. Operand(0) \in Live(S)
    BY OperandLive, Zenon DEF In
  <2>3. heap' = Stored(heap, Operand(n - 1), i, Operand(0))
    BY <1>18, Zenon DEF OP_SET
  <2>4. Held(heap') = Held(heap) /\ Closed(heap'.elems, S, {})
    <3>1. Keeps(heap', heap, S)
      BY <2>2, <2>3, StoreLive, Zenon DEF In
    <3>. QED  BY <3>1, Zenon DEF Keeps
  <2>5. StackIn(stack, Below(n), S)
    BY <1>18, <1>0, <1>00, StackLive DEF In
  <2>6. StackIn(stack', sp', S)
    BY <1>18, <2>1, <2>2, <2>5, StepsLive, SMTT(30)
  <2>. QED  BY <2>1, <2>4, <2>6, Witness, Zenon DEF In
<1>19. CASE ArrayPush
  <2>1. UNCHANGED <<scopes, depth>> /\ Replace(2, Plain)
    BY <1>19, Zenon DEF ArrayPush, calls
  <2>2. Operand(0) \in Live(S)
    BY OperandLive, Zenon DEF In
  <2>3. heap' = Added(heap, Operand(1), Operand(0))
    BY <1>19, Zenon DEF ArrayPush
  <2>4. Held(heap') = Held(heap) /\ Closed(heap'.elems, S, {})
    <3>1. Keeps(heap', heap, S)
      BY <2>2, <2>3, StoreLive, Zenon DEF In
    <3>. QED  BY <3>1, Zenon DEF Keeps
  <2>5. StackIn(stack, Below(2), S)
    BY <1>0, <1>00, StackLive, Zenon DEF In
  <2>6. StackIn(stack', sp', S)
    BY <2>1, <2>5, <1>0, StepsLive, Zenon
  <2>. QED  BY <2>1, <2>4, <2>6, Witness, Zenon DEF In
<1>20. ASSUME NEW n \in 0 .. MAX_ELEMS, OP_SLICE(n) PROVE Reached'
  <2>. DEFINE R == Roots(Below(3))
              s == NewSlot(heap, Arrays, R)
              h == NewHeap(heap, Arrays, R)
              o == Operand(2)
              m == AtMost(n, Len(h.elems[o]))
              K == Marked(heap.elems, R, Uncleared(heap))
  <2>0. Below(3) \in 0 .. sp /\ o \in Arrays /\ o \in Slots
    BY <1>20, <1>00, SlotFacts, Zenon DEF OP_SLICE
  <2>1. UNCHANGED <<scopes, depth>>
    BY <1>20, Zenon DEF OP_SLICE, calls
  <2>2. HeapOK(h)
    BY NewFacts, Zenon
  <2>3. PICK T : Allocated(Arrays, Below(3), S, T, s, h)
    BY <2>0, AllocLive, Zenon
  <2>4. \/ heap' = h /\ Drop(3)
        \/ /\ heap' = AddedAll(h, s, h.elems[o], m) /\ Replace(3, s)
           /\ ~(Full(heap, Arrays) /\ o \notin K)
    BY <1>20, Zenon DEF OP_SLICE
  <2>. HIDE DEF s, h
  <2>5. /\ T \in SUBSET Slots /\ T \subseteq Held(h) /\ Closed(h.elems, T, {}) /\ s \in Live(T)
        /\ StackIn(stack, Below(3), T) /\ ScopesIn(scopes, depth, T)
        /\ \A x \in S : (Full(heap, Arrays) => x \in K) => x \in T
    BY <2>3, Zenon DEF Allocated
  <2>6. CASE heap' = h /\ Drop(3)
    <3>1. StackIn(stack', sp', T)
      <4>1. Below(3) \in 0 .. Below(3)
        BY <2>0 DEF StackOK
      <4>. QED  BY <2>5, <2>6, <2>0, <4>1, StackLive, Zenon DEF Drop
    <3>. QED  BY <2>1, <2>5, <2>6, <3>1, Witness, Zenon
  <2>7. CASE /\ heap' = AddedAll(h, s, h.elems[o], m) /\ Replace(3, s)
             /\ ~(Full(heap, Arrays) /\ o \notin K)
    <3>1. o \in S
      BY <2>0, OperandLive, SlotFacts, Zenon DEF In, Live
    <3>. HIDE DEF K, o, R
    <3>2. o \in T
      BY <2>5, <2>7, <3>1, Zenon
    <3>3. h.elems[o] \in Seq(Values)
      BY <2>0, <2>2, Zenon DEF HeapOK, Heap
    <3>4. m \in Nat /\ m =< Len(h.elems[o])
      BY <1>20, <3>3, Sizes DEF AtMost
    <3>. HIDE DEF m
    <3>5. \A j \in 1 .. m : h.elems[o][j] \in Live(T)
      <4>. TAKE j \in 1 .. m
      <4>1. j \in 1 .. Len(h.elems[o])
        <5>. DEFINE k == Len(h.elems[o])
        <5>1. k \in Nat /\ m =< k
          BY <3>3, <3>4
        <5>. HIDE DEF k
        <5>2. j \in 1 .. k
          BY <5>1, <3>4
        <5>. QED  BY <5>2, Zenon DEF k
      <4>2. o \in T \ {}
        BY <3>2, Zenon
      <4>3. h.elems[o][j] \in T \cup {Plain}
        BY <4>1, <4>2, <2>5, Zenon DEF Closed
      <4>. QED  BY <4>3, Zenon DEF Live
    <3>6. Held(heap') = Held(h) /\ Closed(heap'.elems, T, {})
      <4>1. Keeps(AddedAll(h, s, h.elems[o], m), h, T)
        BY <2>2, <2>5, <2>7, <3>4, <3>5, FillLive, Zenon
      <4>. QED  BY <2>7, <4>1, Zenon DEF Keeps
    <3>7. StackIn(stack', sp', T)
      BY <2>5, <2>7, StepsLive, Zenon
    <3>. QED  BY <2>1, <2>5, <3>6, <3>7, Witness, Zenon
  <2>. QED  BY <2>4, <2>6, <2>7, Zenon
<1>21. ASSUME NEW argc \in 0 .. ARGS, NEW n \in 0 .. MAX_ELEMS, NativeArray(argc, n) PROVE Reached'
  <2>. DEFINE R == Roots(sp - argc - 1)
              s == NewSlot(heap, Arrays, R)
              h == NewHeap(heap, Arrays, R)
              vs == [j \in 1 .. n |-> Plain]
  <2>0. /\ argc + 1 \in Nat /\ n \in Nat /\ sp - argc - 1 \in 0 .. sp
        /\ Below(argc + 1) = sp - argc - 1
    BY <1>21, Sizes DEF NativeArray, StackOK, Below
  <2>1. UNCHANGED <<scopes, depth>>
    BY <1>21, Zenon DEF NativeArray, calls
  <2>2. HeapOK(h)
    BY NewFacts, Zenon
  <2>3. PICK T : Allocated(Arrays, sp - argc - 1, S, T, s, h)
    BY <2>0, AllocLive, Zenon
  <2>4. heap' = AddedAll(h, s, vs, n) /\ Replace(argc + 1, s)
    BY <1>21, Zenon DEF NativeArray
  <2>. HIDE DEF s, h
  <2>5. /\ T \in SUBSET Slots /\ T \subseteq Held(h) /\ Closed(h.elems, T, {}) /\ s \in Live(T)
        /\ StackIn(stack, sp - argc - 1, T) /\ ScopesIn(scopes, depth, T)
    BY <2>3, Zenon DEF Allocated
  <2>6. \A j \in 1 .. n : vs[j] \in Live(T)
    BY Zenon DEF Live
  <2>. HIDE DEF vs
  <2>7. Held(heap') = Held(h) /\ Closed(heap'.elems, T, {})
    <3>1. Keeps(AddedAll(h, s, vs, n), h, T)
      BY <2>0, <2>2, <2>4, <2>5, <2>6, FillLive, Zenon
    <3>. QED  BY <2>4, <3>1, Zenon DEF Keeps
  <2>8. StackIn(stack', sp', T)
    BY <2>0, <2>4, <2>5, StepsLive, Zenon
  <2>. QED  BY <2>1, <2>5, <2>7, <2>8, Witness, Zenon
<1>22. ASSUME NEW argc \in 0 .. ARGS, NativeList(argc) PROVE Reached'
  <2>. DEFINE R == Roots(sp - argc - 1)
              s == NewSlot(heap, Arrays, R)
              h == NewHeap(heap, Arrays, R)
              d == NewSlot(h, Dicts, R)
              g == NewHeap(h, Dicts, R)
  <2>0. /\ argc + 1 \in Nat /\ sp - argc - 1 \in 0 .. sp
        /\ Below(argc + 1) = sp - argc - 1
    BY <1>22, Sizes, SMTT(30) DEF NativeList, StackOK, Below
  <2>1. UNCHANGED <<scopes, depth>> /\ ~Full(h, Dicts)
    BY <1>22, Zenon DEF NativeList, calls
  <2>2. HeapOK(h)
    BY NewFacts, Zenon
  <2>3. PICK T : Allocated(Arrays, sp - argc - 1, S, T, s, h)
    BY <2>0, AllocLive, Zenon
  <2>4. heap' = Added(g, s, d) /\ Replace(argc + 1, s)
    BY <1>22, Zenon DEF NativeList
  <2>. HIDE DEF s, h, R
  <2>5. /\ T \in SUBSET Slots /\ T \subseteq Held(h) /\ Closed(h.elems, T, {}) /\ s \in Live(T)
        /\ StackIn(stack, sp - argc - 1, T) /\ ScopesIn(scopes, depth, T)
    BY <2>3, Zenon DEF Allocated
  <2>6. Collected(h, Dicts, R) = h
    BY <2>1, Zenon DEF Collected
  <2>7. HeapOK(g)
    BY <2>2, NewFacts, Zenon
  <2>. DEFINE V == With(T, d)
  <2>8. V \in SUBSET Slots /\ V \subseteq Held(g) /\ Closed(g.elems, V, {}) /\ d \in Live(V)
    <3>1. T \subseteq Held(Collected(h, Dicts, R))
      BY <2>5, <2>6, Zenon
    <3>. QED  BY <2>2, <2>5, <3>1, NewLive, Zenon
  <2>. HIDE DEF d, g
  <2>9. StackIn(stack, sp - argc - 1, V) /\ ScopesIn(scopes, depth, V) /\ s \in Live(V)
    BY <2>5, Zenon DEF StackIn, ScopesIn, Live, With
  <2>. HIDE DEF V
  <2>10. Held(heap') = Held(g) /\ Closed(heap'.elems, V, {})
    <3>1. Keeps(Added(g, s, d), g, V)
      BY <2>7, <2>8, StoreLive, Zenon
    <3>. QED  BY <2>4, <3>1, Zenon DEF Keeps
  <2>11. StackIn(stack', sp', V)
    BY <2>0, <2>4, <2>9, StepsLive, Zenon
  <2>. QED  BY <2>1, <2>8, <2>9, <2>10, <2>11, Witness, Zenon
<1>23. CASE vfs_reset
  <2>. DEFINE T == Reachable
  <2>1. /\ UNCHANGED <<stack, sp, scopes, depth>> /\ heap' = [heap EXCEPT !.taken = before]
        /\ T \subseteq before
    BY <1>23, Zenon DEF vfs_reset
  <2>2. T \subseteq S
    BY ReachedIsIn, Zenon
  <2>3. heap'.in_use = heap.in_use /\ heap'.taken = before /\ heap'.elems = heap.elems
    BY <2>1, HeapHasFields DEF HeapFields
  <2>4. T \in SUBSET Slots /\ Roots(sp) \cap Slots \subseteq T /\ Closed(heap.elems, T, {})
    BY MarkedFacts, Zenon DEF Reachable
  <2>5. /\ \A i \in 0 .. sp - 1 : stack[i] \in Roots(sp) /\ stack[i] \in Values
        /\ \A e \in 0 .. depth, x \in Names :
              scopes[e][x] \in Roots(sp) /\ scopes[e][x] \in Values \cup {Undefined}
    BY DEF Roots, StackOK, ScopesOK
  <2>. HIDE DEF T
  <2>6. StackIn(stack, sp, T) /\ ScopesIn(scopes, depth, T)
    BY <2>4, <2>5, SlotFacts, Zenon DEF StackIn, ScopesIn, Live
  <2>7. T \subseteq Held(heap')
    BY <2>1, <2>2, <2>3, Zenon DEF In, Held
  <2>. QED  BY <2>1, <2>3, <2>4, <2>6, <2>7, Witness, Zenon
<1>24. CASE sage_shell_run
  <2>1. /\ UNCHANGED heap /\ sp' = 0 /\ depth' = 0
        /\ scopes' = [d \in {0} |-> scopes[d]]
    BY <1>24, Zenon DEF sage_shell_run
  <2>2. StackIn(stack', sp', S)
    BY <2>1 DEF StackIn
  <2>3. ScopesIn(scopes', depth', S)
    <3>1. \A e \in 0 .. 0 : e = 0 /\ e \in 0 .. depth /\ e \in {0}
      BY Sizes DEF ScopesOK
    <3>. QED  BY <2>1, <3>1, Zenon DEF In, ScopesIn
  <2>. QED  BY <2>1, <2>2, <2>3, SameHeap, Zenon
<1>. QED
  BY <1>1, <1>2, <1>3, <1>4, <1>5, <1>6, <1>7, <1>8, <1>9, <1>10, <1>11, <1>12, <1>13, <1>14, <1>15, <1>16, <1>17, <1>18, <1>19, <1>20, <1>21, <1>22, <1>23, <1>24, Zenon DEF Next

\* No collection, whenever it runs, reclaims an object that the program can
\* still get at through its operands and variables, and no allocation hands it
\* out again.
THEOREM LiveObjectsAreKept == Spec => []LiveObjectsKept
<1>. DEFINE Inv == TypeOK /\ (dipped \/ loose \/ Reached)
<1>1. Init => Inv
  <2>1. ASSUME Init PROVE Reached
    <3>1. In({})
      BY <2>1, Sizes DEF Init, In, Held, StackIn, ScopesIn, Closed
    <3>. QED  BY <3>1, Zenon DEF Reached
  <2>. QED  BY <2>1, InitType, Zenon
<1>2. Inv /\ [Next]_vars => Inv'
  <2>1. ASSUME Inv, UNCHANGED vars PROVE Inv'
    <3>1. UNCHANGED <<stack, sp, scopes, depth, heap, dipped, loose>>
      BY <2>1, Zenon DEF vars
    <3>. QED  BY <2>1, <3>1, TypeNext, Zenon DEF Reached, In, Held
  <2>2. ASSUME Inv, Next, ~dipped', ~loose' PROVE Reached'
    <3>1. PICK S \in SUBSET Slots : In(S)
      BY <2>2, Remembered, Zenon DEF Reached
    <3>. QED  BY <2>2, <3>1, LiveNext, Zenon
  <2>. QED  BY <2>1, <2>2, TypeNext, Zenon
<1>3. Inv => LiveObjectsKept
  <2>. SUFFICES ASSUME TypeOK, Reached PROVE Reachable \subseteq Held(heap)
    BY Zenon DEF LiveObjectsKept, Held
  <2>1. PICK S \in SUBSET Slots : In(S)
    BY Zenon DEF Reached
  <2>. QED  BY <2>1, ReachedIsIn, Zenon DEF In
<1>. HIDE DEF Inv
<1>. QED  BY <1>1, <1>2, <1>3, PTL DEF Spec
==============================================================================
