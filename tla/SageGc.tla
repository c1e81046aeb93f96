------------------------------- MODULE SageGc --------------------------------
(***************************************************************************)
(* The heap and the tracing collector of the SageLang interpreter that runs *)
(* in the kernel (sage_lang/core/src/c/gc.c and env.c).                     *)
(*                                                                         *)
(* A node is an object or an environment.  What it contains is the set of   *)
(* the objects it refers to, and at most one environment: the parent of an  *)
(* environment, the one a function, generator or class closes over.  Every  *)
(* gray object is on the mark stack and no other is, so the colours stand   *)
(* for the stack; the order it is drained in is left open.                  *)
(*                                                                         *)
(* gc_collect runs in the task that allocates or starts a statement, and    *)
(* nothing in it yields: the interpreter goes on when the phase is IDLE      *)
(* again, and the write barrier, which is armed from gc_begin_cycle to       *)
(* gc_remark, has nothing to do.                                            *)
(***************************************************************************)
EXTENDS Naturals, Sequences

CONSTANTS Objects, Envs, Tasks,
          Global,         \* g_sage_env, the environment all scripts share
          NULL

ASSUME NodesAssumption ==
    /\ Global \in Envs
    /\ NULL \notin Objects \cup Envs
    /\ Objects \cap Envs = {}

VARIABLES live,           \* the nodes on gc.objects and on allocated_envs
          holds,          \* per node: the objects it refers to
          scope,          \* per node: the environment it refers to
          color,          \* per object
          marked,         \* the environments with their mark set
          phase,          \* gc.phase
          temps,          \* per task: ast_gc_temps
          env_temps,      \* per task: ast_gc_env_temps
          gc_root_stack   \* per task: the environments interpret() runs in

heapVars == <<live, holds, scope>>
markVars == <<color, marked, phase>>
rootVars == <<temps, env_temps, gc_root_stack>>
gcVars == <<heapVars, markVars, rootVars>>

Nodes == Objects \cup Envs
Colors == {"WHITE", "GRAY", "BLACK"}
Phases == {"IDLE", "MARK", "REMARK"}
Values == Objects \cup {NULL}        \* NULL: nil, a number, a boolean
Elems(s) == {s[i] : i \in DOMAIN s}

GcTypeOK ==
    /\ live \in SUBSET Nodes
    /\ holds \in [Nodes -> SUBSET Objects]
    /\ scope \in [Nodes -> Envs \cup {NULL}]
    /\ color \in [Objects -> Colors]
    /\ marked \in SUBSET Envs
    /\ phase \in Phases
    /\ temps \in [Tasks -> Seq(Values)]
    /\ env_temps \in [Tasks -> Seq(Envs)]
    /\ gc_root_stack \in [Tasks -> Seq(Envs)]

GcInit ==
    /\ live = {Global}
    /\ holds = [n \in Nodes |-> {}]
    /\ scope = [n \in Nodes |-> NULL]
    /\ color = [o \in Objects |-> "WHITE"]
    /\ marked = {}
    /\ phase = "IDLE"
    /\ temps = [t \in Tasks |-> <<>>]
    /\ env_temps = [t \in Tasks |-> <<>>]
    /\ gc_root_stack = [t \in Tasks |-> <<>>]

------------------------------------------------------------------------------
(* Marking                                                                  *)

\* gc_mark_env from each of E, with M marked before: the least set that contains
\* both and the parent of each environment marked now.  The walk up stops at an
\* environment that is marked already.
EnvsMarked(M, E) ==
    LET Walked(S) == /\ M \cup E \subseteq S
                     /\ \A x \in S \ M : scope[x] # NULL => scope[x] \in S
    IN  {e \in Envs : \A S \in SUBSET Envs : Walked(S) => e \in S}

\* gc_try_shade for each of the objects O.
Shaded(c, O) ==
    [o \in Objects |-> IF o \in O /\ c[o] = "WHITE" THEN "GRAY" ELSE c[o]]

\* gc_mark_value of the objects O and gc_mark_env of the environments E.
Mark(c, O, E) ==
    LET M == EnvsMarked(marked, E)
    IN  /\ marked' = M
        /\ color' = Shaded(c, O \cup UNION {holds[e] : e \in M \ marked})

\* The roots of gc_mark_all_roots: the global environment and what the threads
\* of the registry have pushed.
RootEnvs ==
    {Global} \cup UNION {Elems(env_temps[t]) \cup Elems(gc_root_stack[t]) : t \in Tasks}

RootValues == (UNION {Elems(temps[t]) : t \in Tasks}) \cap Objects

White == [o \in Objects |-> "WHITE"]
Gray == {o \in Objects : color[o] = "GRAY"}

gc_begin_cycle ==
    /\ phase = "IDLE"
    /\ Mark(White, RootValues, RootEnvs)
    /\ phase' = "MARK"
    /\ UNCHANGED <<heapVars, rootVars>>

\* gc_shade_children of one object off the mark stack.
Blacken(o) ==
    /\ Mark([color EXCEPT ![o] = "BLACK"], holds[o], {scope[o]} \ {NULL})
    /\ UNCHANGED <<phase, heapVars, rootVars>>

\* One round of the loop of gc_mark_step, and of the one in gc_remark.
gc_mark_step ==
    /\ phase \in {"MARK", "REMARK"}
    /\ \E o \in Gray : Blacken(o)

\* The mark stack is empty: the roots are scanned again.
gc_remark ==
    /\ phase = "MARK"
    /\ Gray = {}
    /\ Mark(color, RootValues, RootEnvs)
    /\ phase' = "REMARK"
    /\ UNCHANGED <<heapVars, rootVars>>

------------------------------------------------------------------------------
(* Sweeping                                                                 *)

\* The heap without the nodes N.
Free(N) ==
    /\ live' = live \ N
    /\ holds' = [n \in Nodes |-> IF n \in N THEN {} ELSE holds[n]]
    /\ scope' = [n \in Nodes |-> IF n \in N THEN NULL ELSE scope[n]]

\* The objects gc_sweep_step frees.
Unreached == {o \in live \cap Objects : color[o] = "WHITE"}

\* Mutant: environments are never freed.
UnmarkedNone == {}

\* The environments env_sweep_unmarked frees.
Unmarked == (live \cap Envs) \ marked

\* Mutant: the marks of the environments that stay are not cleared.
MarksStay == marked

\* The marks after env_sweep_unmarked.
MarksCleared == {}

\* gc_remark has drained the mark stack.  The loop over gc_sweep_step frees the
\* white objects and whitens the others, env_sweep_unmarked frees the
\* environments without a mark and clears the others', and gc_collect ends.
gc_sweep ==
    /\ phase = "REMARK"
    /\ Gray = {}
    /\ Free(Unreached \cup Unmarked)
    /\ color' = White
    /\ marked' = MarksCleared
    /\ phase' = "IDLE"
    /\ UNCHANGED rootVars

Collector == gc_mark_step \/ gc_remark \/ gc_sweep

------------------------------------------------------------------------------
(* The collector under any interpreter                                      *)

\* What an interpreter does between collections, as the collector sees it:
\* whatever it likes with the heap and the roots.
Mutate ==
    /\ phase = "IDLE"
    /\ GcTypeOK'
    /\ UNCHANGED markVars

GcNext == Mutate \/ gc_begin_cycle \/ Collector

GcSpec == GcInit /\ [][GcNext]_gcVars

\* What the roots refer to, directly or through other nodes.
Reachable ==
    {n \in Nodes : \A S \in SUBSET Nodes :
        /\ RootValues \cup RootEnvs \subseteq S
        /\ \A m \in S : holds[m] \cup ({scope[m]} \ {NULL}) \subseteq S
        => n \in S}

\* A collection frees what cannot be reached, and nothing else: the marks left
\* by gc_begin_cycle, gc_mark_step and gc_remark are exact when gc_sweep_step and
\* env_sweep_unmarked use them.
SweptExactly ==
    [][phase = "REMARK" /\ phase' = "IDLE" => live' = live \cap Reachable]_gcVars
==============================================================================
