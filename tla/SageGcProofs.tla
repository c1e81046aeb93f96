---------------------------- MODULE SageGcProofs -----------------------------
(***************************************************************************)
(* Proof that a collection of SageGc frees exactly what cannot be reached,  *)
(* for every heap, every set of tasks and every order of the mark stack.    *)
(***************************************************************************)
EXTENDS SageGc, TLAPS

Roots == RootValues \cup RootEnvs

\* What a node refers to.
Refs(n) == holds[n] \cup ({scope[n]} \ {NULL})

\* The nodes a collection has come across: the environments with their mark set
\* and the objects that are not white.
Seen == marked \cup {o \in Objects : color[o] # "WHITE"}

\* A set of nodes that contains the roots and whatever its members refer to.
IsClosed(S) ==
    /\ S \in SUBSET Nodes
    /\ Roots \subseteq S
    /\ \A m \in S : Refs(m) \subseteq S

\* Whatever has been finished refers to nodes that have been seen.
Finished ==
    /\ \A e \in marked : Refs(e) \subseteq Seen
    /\ \A o \in Objects : color[o] = "BLACK" => Refs(o) \subseteq Seen

\* The inductive invariant: marks are clear between collections; within one the
\* roots have been seen, nothing has been seen that is not reachable, and only
\* gray objects may refer to something not seen yet.
Inv ==
    /\ GcTypeOK
    /\ phase = "IDLE" => marked = {}
    /\ phase # "IDLE" =>
          /\ Roots \subseteq Seen
          /\ Finished
          /\ \A S : IsClosed(S) => Seen \subseteq S

------------------------------------------------------------------------------

\* The roots are nodes, and objects are no environments.
LEMMA RootFacts ==
    ASSUME GcTypeOK
    PROVE  /\ RootValues \subseteq Objects /\ RootEnvs \subseteq Envs
           /\ Objects \cap Envs = {} /\ NULL \notin Envs /\ Global \in Envs
           /\ \A n \in Nodes : /\ holds[n] \subseteq Objects
                               /\ {scope[n]} \ {NULL} \subseteq Envs
<1>1. Objects \cap Envs = {} /\ NULL \notin Envs /\ Global \in Envs
  BY NodesAssumption
<1>2. RootValues \subseteq Objects
  BY DEF RootValues
<1>3. RootEnvs \subseteq Envs
  <2>1. \A t \in Tasks : env_temps[t] \in Seq(Envs) /\ gc_root_stack[t] \in Seq(Envs)
    BY DEF GcTypeOK
  <2>2. \A s \in Seq(Envs) : Elems(s) \subseteq Envs
    BY DEF Elems
  <2>. QED  BY <1>1, <2>1, <2>2 DEF RootEnvs
<1>4. \A n \in Nodes : holds[n] \subseteq Objects /\ {scope[n]} \ {NULL} \subseteq Envs
  BY DEF GcTypeOK
<1>. QED  BY <1>1, <1>2, <1>3, <1>4

\* gc_mark_env marks what it is given and what lies above it, and nothing that a
\* set closed under parents can do without.
LEMMA EnvsMarkedFacts ==
    ASSUME GcTypeOK, NEW M \in SUBSET Envs, NEW E \in SUBSET Envs
    PROVE  /\ EnvsMarked(M, E) \in SUBSET Envs
           /\ M \cup E \subseteq EnvsMarked(M, E)
           /\ \A x \in EnvsMarked(M, E) \ M : scope[x] # NULL => scope[x] \in EnvsMarked(M, E)
           /\ \A S \in SUBSET Envs :
                 /\ M \cup E \subseteq S
                 /\ \A x \in S \ M : scope[x] # NULL => scope[x] \in S
                 => EnvsMarked(M, E) \subseteq S
<1>. DEFINE Walked(S) == /\ M \cup E \subseteq S
                         /\ \A x \in S \ M : scope[x] # NULL => scope[x] \in S
            W == {e \in Envs : \A S \in SUBSET Envs : Walked(S) => e \in S}
<1>1. EnvsMarked(M, E) = W
  BY DEF EnvsMarked
<1>2. W \in SUBSET Envs /\ M \cup E \subseteq W
  OBVIOUS
<1>3. ASSUME NEW x \in W \ M, scope[x] # NULL PROVE scope[x] \in W
  <2>1. scope[x] \in Envs
    BY <1>3 DEF GcTypeOK, Nodes
  <2>2. ASSUME NEW S \in SUBSET Envs, Walked(S) PROVE scope[x] \in S
    <3>1. x \in S
      BY <2>2
    <3>. QED  BY <3>1, <2>2, <1>3
  <2>. QED  BY <2>1, <2>2
<1>4. \A S \in SUBSET Envs : Walked(S) => W \subseteq S
  OBVIOUS
<1>. QED  BY <1>1, <1>2, <1>3, <1>4

\* What a marking step marks and shades.
LEMMA MarkResult ==
    ASSUME GcTypeOK, NEW c \in [Objects -> Colors], NEW O \in SUBSET Objects,
           NEW E \in SUBSET Envs, Mark(c, O, E)
    PROVE  /\ marked' = EnvsMarked(marked, E) /\ marked' \in SUBSET Envs
           /\ color' \in [Objects -> Colors]
           /\ \A o \in Objects : color'[o] = "BLACK" => c[o] = "BLACK"
           /\ Seen' = marked' \cup {o \in Objects : c[o] # "WHITE"}
                       \cup (O \cup UNION {holds[e] : e \in marked' \ marked})
<1>. DEFINE P == O \cup UNION {holds[e] : e \in marked' \ marked}
<1>1. marked' = EnvsMarked(marked, E) /\ color' = Shaded(c, P)
  BY DEF Mark
<1>2. marked' \in SUBSET Envs
  BY <1>1, EnvsMarkedFacts DEF GcTypeOK
<1>3. P \in SUBSET Objects
  <2>1. \A e \in marked' \ marked : holds[e] \subseteq Objects
    BY <1>2, RootFacts DEF Nodes
  <2>. QED  BY <2>1
<1>4. \A o \in Objects : color'[o] = IF o \in P /\ c[o] = "WHITE" THEN "GRAY" ELSE c[o]
  BY <1>1 DEF Shaded
<1>5. color' \in [Objects -> Colors]
  BY <1>1 DEF Shaded, Colors
<1>6. {o \in Objects : color'[o] # "WHITE"} = {o \in Objects : c[o] # "WHITE"} \cup P
  BY <1>3, <1>4
<1>. HIDE DEF P
<1>7. Seen' = marked' \cup {o \in Objects : c[o] # "WHITE"} \cup P
  BY <1>6 DEF Seen
<1>. QED  BY <1>1, <1>2, <1>4, <1>5, <1>7 DEF P

\* A marking step sees what it is given and finishes the environments it marks.
LEMMA MarkFacts ==
    ASSUME GcTypeOK, NEW c \in [Objects -> Colors], NEW O \in SUBSET Objects,
           NEW E \in SUBSET Envs, Mark(c, O, E)
    PROVE  /\ marked \cup {o \in Objects : c[o] # "WHITE"} \cup O \cup E \subseteq Seen'
           /\ \A e \in marked' \ marked : Refs(e) \subseteq Seen'
<1>. DEFINE P == O \cup UNION {holds[e] : e \in marked' \ marked}
<1>1. Seen' = marked' \cup {o \in Objects : c[o] # "WHITE"} \cup P
  BY MarkResult, Zenon
<1>2. /\ marked \cup E \subseteq marked'
      /\ \A x \in marked' \ marked : scope[x] # NULL => scope[x] \in marked'
  <2>1. marked \in SUBSET Envs /\ marked' = EnvsMarked(marked, E)
    BY MarkResult DEF GcTypeOK
  <2>. QED  BY <2>1, EnvsMarkedFacts
<1>3. \A e \in marked' \ marked : Refs(e) \subseteq marked' \cup P
  BY <1>2 DEF Refs
<1>. QED  BY <1>1, <1>2, <1>3

\* A marking step sees nothing that a closed set can do without.
LEMMA MarkLeast ==
    ASSUME GcTypeOK, NEW c \in [Objects -> Colors], NEW O \in SUBSET Objects,
           NEW E \in SUBSET Envs, Mark(c, O, E), NEW S \in SUBSET Nodes,
           marked \cup {o \in Objects : c[o] # "WHITE"} \cup O \cup E \subseteq S,
           \A m \in S : Refs(m) \subseteq S
    PROVE  Seen' \subseteq S
<1>. DEFINE P == O \cup UNION {holds[e] : e \in marked' \ marked}
<1>1. Seen' = marked' \cup {o \in Objects : c[o] # "WHITE"} \cup P
  BY MarkResult, Zenon
<1>2. marked \in SUBSET Envs /\ Envs \subseteq Nodes
  BY DEF GcTypeOK, Nodes
<1>3. \A x \in S \cap Envs : scope[x] # NULL => scope[x] \in S \cap Envs
  BY <1>2, RootFacts DEF Refs
<1>4. EnvsMarked(marked, E) \subseteq S \cap Envs
  <2>1. S \cap Envs \in SUBSET Envs /\ marked \cup E \subseteq S \cap Envs
    BY <1>2
  <2>2. \A x \in (S \cap Envs) \ marked : scope[x] # NULL => scope[x] \in S \cap Envs
    BY <1>3
  <2>3. \A T \in SUBSET Envs :
            /\ marked \cup E \subseteq T
            /\ \A x \in T \ marked : scope[x] # NULL => scope[x] \in T
            => EnvsMarked(marked, E) \subseteq T
    BY <1>2, EnvsMarkedFacts, Zenon
  <2>. QED  BY <2>1, <2>2, <2>3
<1>5. marked' \subseteq S \cap Envs
  BY <1>4, MarkResult
<1>6. P \subseteq S
  BY <1>5 DEF Refs
<1>. QED  BY <1>1, <1>5, <1>6

------------------------------------------------------------------------------

\* What can be reached from the roots is the least closed set.
LEMMA ReachableFacts ==
    ASSUME GcTypeOK
    PROVE  /\ IsClosed(Reachable)
           /\ \A S : IsClosed(S) => Reachable \subseteq S
<1>1. \A S : IsClosed(S) <=>
          /\ S \in SUBSET Nodes
          /\ RootValues \cup RootEnvs \subseteq S
          /\ \A m \in S : holds[m] \cup ({scope[m]} \ {NULL}) \subseteq S
  BY DEF IsClosed, Roots, Refs
<1>2. Reachable = {n \in Nodes : \A S : IsClosed(S) => n \in S}
  BY <1>1 DEF Reachable
<1>3. \A S : IsClosed(S) => Reachable \subseteq S
  BY <1>2
<1>4. Roots \subseteq Reachable
  <2>1. Roots \subseteq Nodes
    BY RootFacts DEF Roots, Nodes
  <2>. QED  BY <2>1, <1>2 DEF IsClosed
<1>5. ASSUME NEW m \in Reachable PROVE Refs(m) \subseteq Reachable
  <2>1. Refs(m) \subseteq Nodes
    BY <1>2, RootFacts DEF Refs, Nodes
  <2>2. \A S : IsClosed(S) => Refs(m) \subseteq S
    BY <1>3 DEF IsClosed
  <2>. QED  BY <2>1, <2>2, <1>2
<1>. QED  BY <1>2, <1>3, <1>4, <1>5 DEF IsClosed

\* When the mark stack is empty, what has been seen is what can be reached.
LEMMA SeenIsReachable ==
    ASSUME Inv, phase # "IDLE", Gray = {}
    PROVE  Seen = Reachable
<1>1. Seen \in SUBSET Nodes
  BY DEF Inv, GcTypeOK, Seen, Nodes
<1>2. ASSUME NEW m \in Seen PROVE Refs(m) \subseteq Seen
  <2>1. CASE m \in marked
    BY <2>1 DEF Inv, Finished
  <2>2. CASE m \in Objects /\ color[m] # "WHITE"
    <3>1. color[m] = "BLACK"
      BY <2>2 DEF Gray, Inv, GcTypeOK, Colors
    <3>. QED  BY <2>2, <3>1 DEF Inv, Finished
  <2>. QED  BY <2>1, <2>2 DEF Seen
<1>3. IsClosed(Seen)
  BY <1>1, <1>2 DEF IsClosed, Inv
<1>4. GcTypeOK /\ \A S : IsClosed(S) => Seen \subseteq S
  BY DEF Inv
<1>. QED  BY <1>3, <1>4, ReachableFacts

------------------------------------------------------------------------------

\* Roots and references are those of the heap and the root stacks.
LEMMA SameHeap ==
    ASSUME UNCHANGED <<heapVars, rootVars>>
    PROVE  /\ Roots' = Roots
           /\ \A n : Refs(n)' = Refs(n)
           /\ \A S : IsClosed(S)' <=> IsClosed(S)
<1>1. Roots' = Roots
  BY DEF Roots, RootValues, RootEnvs, heapVars, rootVars
<1>2. \A n : Refs(n)' = Refs(n)
  BY DEF Refs, heapVars
<1>. QED  BY <1>1, <1>2 DEF IsClosed

\* A marking step keeps the invariant, if what was finished before it refers to
\* what had been seen or is marked by it.
LEMMA MarkInv ==
    ASSUME GcTypeOK, NEW c \in [Objects -> Colors], NEW O \in SUBSET Objects,
           NEW E \in SUBSET Envs, Mark(c, O, E),
           UNCHANGED <<heapVars, rootVars>>, phase' \in {"MARK", "REMARK"},
           NEW K, K = marked \cup {o \in Objects : c[o] # "WHITE"} \cup O \cup E,
           Roots \subseteq K,
           \A e \in marked : Refs(e) \subseteq K,
           \A o \in Objects : c[o] = "BLACK" => Refs(o) \subseteq K,
           \A S : IsClosed(S) => K \subseteq S
    PROVE  Inv'
<1>1. /\ marked' \in SUBSET Envs /\ color' \in [Objects -> Colors]
      /\ \A o \in Objects : color'[o] = "BLACK" => c[o] = "BLACK"
      /\ K \subseteq Seen'
      /\ \A e \in marked' \ marked : Refs(e) \subseteq Seen'
  BY MarkResult, MarkFacts
<1>2. ASSUME NEW S \in SUBSET Nodes, K \subseteq S, \A m \in S : Refs(m) \subseteq S
      PROVE  Seen' \subseteq S
  BY <1>2, MarkLeast
<1>3. GcTypeOK'
  BY <1>1 DEF GcTypeOK, heapVars, rootVars, Phases
<1>4. \A S : IsClosed(S) => Seen' \subseteq S
  BY <1>2 DEF IsClosed
<1>5. \A e \in marked' : Refs(e) \subseteq Seen'
  BY <1>1
<1>6. \A o \in Objects : color'[o] = "BLACK" => Refs(o) \subseteq Seen'
  BY <1>1
<1>7. Finished'
  BY <1>5, <1>6, SameHeap DEF Finished
<1>8. Roots' \subseteq Seen' /\ \A S : IsClosed(S)' => Seen' \subseteq S
  BY <1>1, <1>4, SameHeap
<1>. QED  BY <1>3, <1>7, <1>8 DEF Inv

\* Init and every step of the collector and of an interpreter keep the invariant.
LEMMA InitInv == GcInit => Inv
<1>. SUFFICES ASSUME GcInit PROVE Inv
  OBVIOUS
<1>1. <<>> \in Seq(Values) /\ <<>> \in Seq(Envs)
  OBVIOUS
<1>2. GcTypeOK
  BY <1>1, NodesAssumption DEF GcInit, GcTypeOK, Nodes, Colors, Phases
<1>. QED  BY <1>2 DEF GcInit, Inv

LEMMA NextInv ==
    ASSUME Inv, [GcNext]_gcVars PROVE Inv'
<1>0. GcTypeOK
  BY DEF Inv
<1>1. CASE Mutate
  BY <1>1 DEF Mutate, Inv, markVars
<1>2. CASE gc_begin_cycle
  <2>1. /\ White \in [Objects -> Colors] /\ RootValues \in SUBSET Objects
        /\ RootEnvs \in SUBSET Envs /\ marked = {}
        /\ \A o \in Objects : White[o] = "WHITE"
    BY <1>0, <1>2, RootFacts DEF White, Colors, gc_begin_cycle, Inv
  <2>2. /\ Mark(White, RootValues, RootEnvs) /\ phase' = "MARK"
        /\ UNCHANGED <<heapVars, rootVars>>
    BY <1>2 DEF gc_begin_cycle
  <2>3. Roots = marked \cup {o \in Objects : White[o] # "WHITE"} \cup RootValues \cup RootEnvs
    BY <2>1 DEF Roots
  <2>4. \A S : IsClosed(S) => Roots \subseteq S
    BY DEF IsClosed
  <2>5. \A o \in Objects : White[o] = "BLACK" => Refs(o) \subseteq Roots
    BY <2>1
  <2>. HIDE DEF White
  <2>. QED  BY <1>0, <2>1, <2>2, <2>3, <2>4, <2>5, MarkInv
<1>3. CASE gc_mark_step
  <2>1. PICK o \in Gray : Blacken(o)
    BY <1>3 DEF gc_mark_step
  <2>. DEFINE c == [color EXCEPT ![o] = "BLACK"]
              E == {scope[o]} \ {NULL}
              K == marked \cup {x \in Objects : c[x] # "WHITE"} \cup holds[o] \cup E
  <2>2. o \in Objects /\ color[o] = "GRAY" /\ o \in Nodes
    BY <2>1 DEF Gray, Nodes
  <2>3. /\ c \in [Objects -> Colors] /\ holds[o] \in SUBSET Objects /\ E \in SUBSET Envs
    BY <1>0, <2>2, RootFacts DEF GcTypeOK, Colors
  <2>4. /\ Mark(c, holds[o], E) /\ phase' = phase /\ phase \in {"MARK", "REMARK"}
        /\ UNCHANGED <<heapVars, rootVars>>
    BY <1>3, <2>1 DEF gc_mark_step, Blacken
  <2>5. {x \in Objects : c[x] # "WHITE"} = {x \in Objects : color[x] # "WHITE"}
    BY <1>0, <2>2 DEF GcTypeOK
  <2>6. K = Seen \cup Refs(o)
    BY <2>5 DEF Seen, Refs
  <2>7. \A x \in Objects : c[x] = "BLACK" => x = o \/ color[x] = "BLACK"
    BY <1>0 DEF GcTypeOK
  <2>8. phase # "IDLE" /\ o \in Seen
    BY <2>2, <2>4 DEF Seen
  <2>. HIDE DEF c, E, K
  <2>9. /\ Roots \subseteq K
        /\ \A e \in marked : Refs(e) \subseteq K
        /\ \A x \in Objects : c[x] = "BLACK" => Refs(x) \subseteq K
    BY <2>6, <2>7, <2>8 DEF Inv, Finished
  <2>10. \A S : IsClosed(S) => K \subseteq S
    BY <2>6, <2>8 DEF Inv, IsClosed
  <2>. QED  BY <1>0, <2>3, <2>4, <2>9, <2>10, MarkInv DEF K
<1>4. CASE gc_remark
  <2>1. /\ color \in [Objects -> Colors] /\ RootValues \in SUBSET Objects
        /\ RootEnvs \in SUBSET Envs
    BY <1>0, RootFacts DEF GcTypeOK
  <2>2. /\ Mark(color, RootValues, RootEnvs) /\ phase' = "REMARK" /\ phase # "IDLE"
        /\ UNCHANGED <<heapVars, rootVars>>
    BY <1>4 DEF gc_remark
  <2>. DEFINE K == marked \cup {o \in Objects : color[o] # "WHITE"} \cup RootValues \cup RootEnvs
  <2>3. K = Seen
    BY <2>2 DEF Inv, Seen, Roots
  <2>. HIDE DEF K
  <2>4. /\ Roots \subseteq K
        /\ \A e \in marked : Refs(e) \subseteq K
        /\ \A o \in Objects : color[o] = "BLACK" => Refs(o) \subseteq K
        /\ \A S : IsClosed(S) => K \subseteq S
    BY <2>2, <2>3 DEF Inv, Finished
  <2>. QED  BY <1>0, <2>1, <2>2, <2>4, MarkInv DEF K
<1>5. CASE gc_sweep
  <2>1. /\ live' \in SUBSET Nodes /\ holds' \in [Nodes -> SUBSET Objects]
        /\ scope' \in [Nodes -> Envs \cup {NULL}]
    BY <1>0, <1>5 DEF gc_sweep, Free, GcTypeOK
  <2>2. /\ color' \in [Objects -> Colors] /\ marked' = {} /\ phase' = "IDLE"
        /\ UNCHANGED rootVars
    BY <1>5 DEF gc_sweep, White, Colors, MarksCleared
  <2>3. GcTypeOK'
    BY <1>0, <2>1, <2>2 DEF GcTypeOK, rootVars, Phases
  <2>. QED  BY <2>2, <2>3 DEF Inv
<1>6. CASE UNCHANGED gcVars
  <2>1. UNCHANGED <<heapVars, rootVars>> /\ UNCHANGED markVars
    BY <1>6 DEF gcVars
  <2>2. GcTypeOK' /\ Seen' = Seen /\ (Finished' <=> Finished)
    BY <1>0, <2>1, SameHeap DEF GcTypeOK, heapVars, rootVars, markVars, Seen, Finished
  <2>. QED  BY <2>1, <2>2, SameHeap DEF Inv, markVars
<1>. QED  BY <1>1, <1>2, <1>3, <1>4, <1>5, <1>6 DEF GcNext, Collector

\* The collector's invariant holds at all times, whatever the interpreter does
\* between collections.
THEOREM MarksAreSound == GcSpec => []Inv
<1>. QED  BY InitInv, NextInv, PTL DEF GcSpec

\* A collection frees exactly the nodes that cannot be reached from the roots.
THEOREM SweepIsExact == GcSpec => SweptExactly
<1>1. ASSUME Inv, [GcNext]_gcVars
      PROVE  [phase = "REMARK" /\ phase' = "IDLE" => live' = live \cap Reachable]_gcVars
  <2>. SUFFICES ASSUME phase = "REMARK", phase' = "IDLE" PROVE live' = live \cap Reachable
    OBVIOUS
  <2>1. gc_sweep
    BY <1>1 DEF GcNext, Collector, Mutate, gc_begin_cycle, gc_mark_step, Blacken, gc_remark,
                gcVars, markVars
  <2>2. live' = live \ (Unreached \cup Unmarked) /\ Gray = {}
    BY <2>1 DEF gc_sweep, Free
  <2>3. Seen = Reachable
    BY <1>1, <2>2, SeenIsReachable
  <2>4. live \subseteq Nodes /\ Objects \cap Envs = {} /\ marked \subseteq Envs
    BY <1>1, RootFacts DEF Inv, GcTypeOK
  <2>5. live \ (Unreached \cup Unmarked) = live \cap Seen
    BY <2>4 DEF Unreached, Unmarked, Seen, Nodes
  <2>. QED  BY <2>2, <2>3, <2>5
<1>2. QED  BY <1>1, MarksAreSound, PTL DEF SweptExactly, GcSpec
==============================================================================
