------------------------------- MODULE MetalVm -------------------------------
(***************************************************************************)
(* The bytecode interpreter of core/sagelang/metal_vm.c: its operand stack, *)
(* call frames and scope chain, and the pools of arrays and dictionaries    *)
(* with their mark-and-sweep collector.                                     *)
(*                                                                         *)
(* The program is any sequence of instructions: instruction pointer, code   *)
(* and constants are left out, and each step executes some instruction.     *)
(* One condition is taken from the compiler: the operands that OP_CALL,     *)
(* OP_ARRAY and OP_CALL_METHOD read without a check are on the stack.       *)
(* Numbers, strings, booleans, functions and nil are the one value Plain;   *)
(* an array or dictionary is the number of its slot.                        *)
(*                                                                         *)
(* Two interpreters outlive one run of their program: g_vfs_vm, whose       *)
(* functions the file system calls once its main has ended, and             *)
(* g_sage_shell_vm, whose main the command sageshell runs again and again.  *)
(***************************************************************************)
EXTENDS Integers, Sequences

CONSTANTS STACK_SIZE,  \* METAL_STACK_SIZE
          CALL_STACK,  \* METAL_CALL_STACK
          ENV_DEPTH,   \* METAL_ENV_DEPTH
          ARRAYS,      \* length of vm->arrays
          DICTS,       \* length of vm->dicts
          MAX_ELEMS,   \* METAL_ARRAY_MAX_ELEMS, METAL_DICT_MAX_ENTRIES
          Names,       \* the names of variables
          Params,      \* the parameter lists of functions
          ARGS,        \* the largest number of operands of one instruction
          ENVS         \* bound on the scopes a function opens

ASSUME SizesAssumption ==
    /\ STACK_SIZE \in Nat /\ CALL_STACK \in Nat /\ ENV_DEPTH \in Nat \ {0}
    /\ ARRAYS \in Nat /\ DICTS \in Nat /\ MAX_ELEMS \in Nat
    /\ ARGS \in Nat /\ ARGS < STACK_SIZE /\ ENVS \in Nat
    /\ Params \subseteq Seq(Names)

VARIABLES stack,   \* vm->stack below sp
          sp,
          frames,  \* vm->call_stack below frame_count
          frame_count,
          scopes,  \* vm->scopes up to scope_depth
          depth,   \* vm->scope_depth
          heap,    \* the slots in use, those below array_count or dict_count,
                   \* and the elements of every slot
          mode,    \* "main": in metal_vm_run; "host", "query": in metal_vm_call;
                   \* "back": a query has ended; "idle": ready to be called;
                   \* "over": main has ended, and nothing is called
          start,   \* start_frame of metal_vm_call
          error,
          vm,      \* which interpreter it is
          before,  \* saved_arrays and saved_dicts, as slots, of a query
          stale,   \* frames that an earlier run has left
          envs,    \* scopes that the running function has opened itself
          dipped,  \* has a function popped an operand of its caller?
          loose,   \* did a collection miss an object held outside the roots?
          uneven   \* has a scope been shared or left open?

vars == <<stack, sp, frames, frame_count, scopes, depth, heap, mode, start, error,
          vm, before, stale, envs, dipped, loose, uneven>>
calls == <<frames, frame_count, scopes, depth, start, vm, before, stale, envs, uneven>>

Arrays == 0 .. ARRAYS - 1
Dicts == ARRAYS .. ARRAYS + DICTS - 1
Slots == 0 .. ARRAYS + DICTS - 1
Plain == -1
Undefined == -2
Values == Slots \cup {Plain}

\* kept, what the caller has on the stack, is not part of the program.
Frame == [base : 0 .. STACK_SIZE - 1, envs : Nat, depth : Nat,
          kept : [0 .. STACK_SIZE - 1 -> Values]]
Heap == [in_use : SUBSET Slots, taken : SUBSET Slots, elems : [Slots -> Seq(Values)]]

TypeOK ==
    /\ sp \in 0 .. STACK_SIZE
    /\ stack \in [0 .. sp - 1 -> Values]
    /\ frame_count \in 0 .. CALL_STACK
    /\ frames \in [1 .. frame_count -> Frame]
    /\ depth \in 0 .. ENV_DEPTH - 1
    /\ scopes \in [0 .. depth -> [Names -> Values \cup {Undefined}]]
    /\ heap \in Heap
    /\ \A s \in Slots : Len(heap.elems[s]) =< MAX_ELEMS
    /\ mode \in {"main", "host", "query", "back", "idle", "over"}
    /\ vm \in {"g_vfs_vm", "g_sage_shell_vm"}
    /\ before \in SUBSET Slots
    /\ start \in 0 .. CALL_STACK /\ stale \in 0 .. CALL_STACK /\ envs \in Nat
    /\ error \in BOOLEAN /\ dipped \in BOOLEAN /\ loose \in BOOLEAN /\ uneven \in BOOLEAN

\* metal_vm_init and metal_vm_load_binary, before the first instruction.
Init ==
    /\ sp = 0
    /\ stack = [i \in {} |-> Plain]
    /\ frames = <<>> /\ frame_count = 0
    /\ depth = 0
    /\ scopes = [d \in {0} |-> [x \in Names |-> Undefined]]
    /\ heap = [in_use |-> {}, taken |-> {}, elems |-> [s \in Slots |-> <<>>]]
    /\ mode = "main"
    /\ vm \in {"g_vfs_vm", "g_sage_shell_vm"}
    /\ before = {}
    /\ start = 0 /\ stale = 0 /\ envs = 0
    /\ error = FALSE /\ dipped = FALSE /\ loose = FALSE /\ uneven = FALSE

------------------------------------------------------------------------------
(* The operand stack                                                        *)

Below(n) == IF sp > n THEN sp - n ELSE 0
Operand(n) == IF sp > n THEN stack[sp - 1 - n] ELSE Plain

\* The place of the running function's callee, below which its caller's
\* operands lie; main has no caller.
Base == IF frame_count =< stale THEN 0 ELSE frames[frame_count].base

Dip(n) == dipped' = (dipped \/ Below(n) < Base)

\* The stack of height n, and with v on top of it.
Cut(n) == [i \in 0 .. n - 1 |-> stack[i]]
Topped(n, v) == [i \in 0 .. n |-> IF i = n THEN v ELSE stack[i]]

\* metal_vm_pop, n times
Drop(n) ==
    /\ sp' = Below(n)
    /\ stack' = Cut(Below(n))
    /\ Dip(n)

\* Where the interpreter is left when it stops.  vfs_init allows calls only
\* when its main has ended without an error.
Left(failed) ==
    CASE mode = "query" -> "back"
      [] mode = "host" -> "idle"
      [] OTHER -> IF vm = "g_vfs_vm" /\ ~failed THEN "idle" ELSE "over"

Fail == error' = TRUE /\ mode' = Left(TRUE)
Run == UNCHANGED <<error, mode>>
Running == mode \in {"main", "host", "query"}

\* metal_vm_push
Push(v) ==
    \/ /\ sp >= STACK_SIZE
       /\ Fail
       /\ UNCHANGED <<stack, sp, dipped>>
    \/ /\ sp < STACK_SIZE
       /\ stack' = Topped(sp, v)
       /\ sp' = sp + 1
       /\ Run /\ UNCHANGED dipped

\* n > 0 operands are popped and a result is pushed, for which there is room.
Replace(n, v) ==
    /\ stack' = Topped(Below(n), v)
    /\ sp' = Below(n) + 1
    /\ Dip(n)
    /\ Run

------------------------------------------------------------------------------
(* The object pools                                                         *)

\* Mutant: variables of outer scopes are not roots.
RootsInner(n) == {stack[i] : i \in 0 .. n - 1} \cup {scopes[depth][x] : x \in Names}

\* The values from which metal_vm_gc marks when n operands are on the stack.
Roots(n) == {stack[i] : i \in 0 .. n - 1} \cup {scopes[d][x] : d \in 0 .. depth, x \in Names}

\* Every element of a slot of S, but those of the slots in old, is in S.
Closed(elems, S, old) ==
    \A s \in S \ old : \A i \in 1 .. Len(elems[s]) : elems[s][i] \in S \cup {Plain}

\* The slots that marking reaches, which goes no further where a slot is in use
\* before it begins: the least set that contains the roots and is closed.
Marked(elems, roots, old) ==
    {s \in Slots : \A S \in SUBSET Slots :
                      roots \cap Slots \subseteq S /\ Closed(elems, S, old) => s \in S}

\* What the program can get at.
Reachable == Marked(heap.elems, Roots(sp), {})

\* The slots that metal_vm_gc does not clear are those at and above array_count
\* and dict_count, where a query has left objects.
Uncleared(h) == h.in_use \ h.taken

metal_vm_gc(h, roots) ==
    [h EXCEPT !.in_use = Uncleared(h) \cup Marked(h.elems, roots, Uncleared(h))]

\* The count of a pool has reached its length and no slot is free.
Full(h, pool) == pool \subseteq h.taken /\ pool \subseteq h.in_use

Collected(h, pool, roots) == IF Full(h, pool) THEN metal_vm_gc(h, roots) ELSE h

\* The slots that may be handed out: a free one below the count, or else the
\* one at the count, whether it is in use or not.
Free(h, pool) ==
    LET free == (pool \cap h.taken) \ h.in_use IN
       IF free = {} THEN pool \ h.taken ELSE free

\* The slot that metal_array_new or metal_dict_new returns.
NewSlot(h, pool, roots) ==
    LET free == Free(Collected(h, pool, roots), pool) IN
       IF free = {} THEN Plain ELSE CHOOSE s \in free : \A t \in free : s =< t

\* The pools after it: the slot is in use and empty.
NewHeap(h, pool, roots) ==
    LET c == Collected(h, pool, roots)
        s == NewSlot(h, pool, roots) IN
       IF s = Plain
       THEN c
       ELSE [in_use |-> c.in_use \cup {s}, taken |-> c.taken \cup {s},
             elems |-> [c.elems EXCEPT ![s] = <<>>]]

\* metal_array_push, and metal_dict_set with a new key
Added(h, s, v) ==
    IF s \in Slots /\ Len(h.elems[s]) < MAX_ELEMS
    THEN [h EXCEPT !.elems[s] = Append(@, v)]
    ELSE h

AtMost(n, m) == IF n < m THEN n ELSE m

\* The first n elements of vs added to an empty slot one after the other.
AddedAll(h, s, vs, n) ==
    IF s \in Slots
    THEN [h EXCEPT !.elems[s] = [i \in 1 .. AtMost(n, MAX_ELEMS) |-> vs[i]]]
    ELSE h

\* An element at place i of an array, or of the key of an entry: replaced when
\* there is one, and a new key is added to a dictionary.
Stored(h, s, i, v) ==
    IF s \in Slots /\ i \in 1 .. Len(h.elems[s])
    THEN [h EXCEPT !.elems[s][i] = v]
    ELSE IF s \in Dicts THEN Added(h, s, v) ELSE h

Element(s, i) ==
    IF s \in Slots /\ i \in 1 .. Len(heap.elems[s]) THEN heap.elems[s][i] ELSE Plain

------------------------------------------------------------------------------
(* Instructions on values                                                   *)

Quiet == UNCHANGED <<heap, loose>> /\ UNCHANGED calls

\* OP_CONSTANT, OP_NIL, OP_TRUE, OP_FALSE
OP_CONSTANT == Push(Plain) /\ Quiet

\* OP_DUP
OP_DUP ==
    /\ \/ sp < 1 /\ Fail /\ UNCHANGED <<stack, sp, dipped>>
       \/ sp >= 1 /\ Push(Operand(0))
    /\ Quiet

\* OP_POP, OP_PRINT, OP_JUMP_IF_FALSE
OP_POP == Drop(1) /\ Run /\ Quiet

\* Arithmetic, comparison and bit operations, OP_NOT, OP_TRUTHY, OP_ARRAY_LEN,
\* OP_SLICE of a string, and the methods and natives that return a plain value
OP_COMPUTE(n) == Replace(n, Plain) /\ Quiet

\* OP_DIV and OP_MOD by zero, exceptions, unknown opcodes, failed calls
OP_FAIL(n) == Drop(n) /\ Fail /\ Quiet

------------------------------------------------------------------------------
(* Instructions on scopes                                                   *)

Holders(x) == {d \in 0 .. depth : scopes[d][x] # Undefined}
Innermost(x) == CHOOSE d \in Holders(x) : \A e \in Holders(x) : e =< d

\* scope_lookup
OP_GET_GLOBAL(x) ==
    /\ Push(IF Holders(x) = {} THEN Plain ELSE scopes[Innermost(x)][x])
    /\ Quiet

\* scope_define
OP_DEFINE_GLOBAL(x) ==
    /\ Drop(1) /\ Run
    /\ scopes' = [scopes EXCEPT ![depth] = [@ EXCEPT ![x] = Operand(0)]]
    /\ UNCHANGED <<frames, frame_count, depth, heap, start, vm, before, stale, envs, loose, uneven>>

\* scope_assign
OP_SET_GLOBAL(x) ==
    /\ Drop(1) /\ Run
    /\ LET d == IF Holders(x) = {} THEN depth ELSE Innermost(x) IN
          scopes' = [scopes EXCEPT ![d] = [@ EXCEPT ![x] = Operand(0)]]
    /\ UNCHANGED <<frames, frame_count, depth, heap, start, vm, before, stale, envs, loose, uneven>>

EmptyScope == [x \in Names |-> Undefined]
AtLimit == depth >= ENV_DEPTH - 1

\* The scope chain with one scope more, unless the limit is reached.
Opened ==
    IF AtLimit
    THEN scopes
    ELSE [d \in 0 .. depth + 1 |-> IF d > depth THEN EmptyScope ELSE scopes[d]]
OpenedDepth == IF AtLimit THEN depth ELSE depth + 1
Shut == IF depth > 0 THEN [d \in 0 .. depth - 1 |-> scopes[d]] ELSE scopes
ShutDepth == IF depth > 0 THEN depth - 1 ELSE depth

OP_PUSH_ENV ==
    /\ envs < ENVS
    /\ scopes' = Opened /\ depth' = OpenedDepth
    /\ envs' = envs + 1
    /\ uneven' = (uneven \/ AtLimit)
    /\ UNCHANGED <<stack, sp, frames, frame_count, heap, mode, start, error, vm, before, stale, dipped, loose>>

\* The compiler emits one for each OP_PUSH_ENV of the same function.
OP_POP_ENV ==
    /\ envs > 0
    /\ scopes' = Shut /\ depth' = ShutDepth
    /\ envs' = envs - 1
    /\ UNCHANGED <<stack, sp, frames, frame_count, heap, mode, start, error, vm, before, stale, dipped, loose, uneven>>

------------------------------------------------------------------------------
(* Calls                                                                    *)

\* The frame of a call of the function at place b of a stack st.
NewFrame(st, b) ==
    [base |-> b, envs |-> envs, depth |-> depth,
     kept |-> [i \in 0 .. STACK_SIZE - 1 |-> IF i < b THEN st[i] ELSE Plain]]

\* The parameters are defined in the new scope, the missing ones as nil; the
\* arguments follow the function at place b.
Bound(scope, params, st, b, argc) ==
    [x \in Names |->
       IF \E p \in 1 .. Len(params) : params[p] = x
       THEN LET p == CHOOSE q \in 1 .. Len(params) : params[q] = x IN
               IF p =< argc THEN st[b + p] ELSE Plain
       ELSE scope[x]]

\* A frame and a scope for a function, entered by OP_CALL and metal_vm_call.
Enter(st, b, argc, params) ==
    /\ frames' = [i \in 1 .. frame_count + 1 |->
                     IF i > frame_count THEN NewFrame(st, b) ELSE frames[i]]
    /\ frame_count' = frame_count + 1
    /\ scopes' = [Opened EXCEPT ![OpenedDepth] = Bound(@, params, st, b, argc)]
    /\ depth' = OpenedDepth
    /\ stack' = [i \in 0 .. b - 1 |-> st[i]]
    /\ sp' = b
    /\ envs' = 0
    /\ uneven' = (uneven \/ AtLimit)
    /\ dipped' = (dipped \/ b < Base)

\* OP_CALL of a function.
OP_CALL(argc, params) ==
    /\ argc < sp
    /\ stack[sp - argc - 1] = Plain
    /\ \/ /\ frame_count >= CALL_STACK
          /\ Fail
          /\ UNCHANGED <<stack, sp, dipped>> /\ UNCHANGED calls
       \/ /\ frame_count < CALL_STACK
          /\ Enter(stack, sp - argc - 1, argc, params)
          /\ Run /\ UNCHANGED <<start, vm, before, stale>>
    /\ UNCHANGED <<heap, loose>>

\* Mutant: the stack is left where the function left it.
ReturnHigh == Below(1)

\* The height to which a return cuts the stack.
ReturnTo == frames[frame_count].base

\* Mutant: the scope of the function stays open.
ScopeKept == scopes' = scopes /\ depth' = depth

CloseScope == scopes' = Shut /\ depth' = ShutDepth

\* What lies at and above sp is not cleared: a function that popped operands of
\* its caller brings up whatever is there.
Returned(n, junk, v) ==
    [i \in 0 .. n |-> IF i = n THEN v ELSE IF i < Below(1) THEN stack[i] ELSE junk[i]]

\* A frame that an earlier run has left is popped as any other.
OP_RETURN ==
    \/ /\ frame_count = 0
       /\ Drop(1)
       /\ mode' = Left(FALSE)
       /\ UNCHANGED <<heap, error, loose>> /\ UNCHANGED calls
    \/ /\ frame_count > 0
       /\ CloseScope
       /\ frames' = [i \in 1 .. frame_count - 1 |-> frames[i]]
       /\ frame_count' = frame_count - 1
       /\ envs' = frames[frame_count].envs
       /\ uneven' = (uneven \/ envs > 0 \/ frame_count =< stale)
       /\ dipped' = (dipped \/ Below(1) < frames[frame_count].base)
       /\ \E junk \in [Below(1) .. ReturnTo - 1 -> Values] :
             LET back == Returned(ReturnTo, junk, Operand(0)) IN
                IF mode # "main" /\ frame_count - 1 = start
                THEN /\ sp' = ReturnTo
                     /\ stack' = [i \in 0 .. ReturnTo - 1 |-> back[i]]
                     /\ mode' = Left(FALSE)
                ELSE /\ sp' = ReturnTo + 1
                     /\ stack' = back
                     /\ UNCHANGED mode
       /\ UNCHANGED <<heap, error, loose, start, vm, before, stale>>

\* OP_HALT, the end of the code, and the limit that metal_vm_run puts on the
\* number of steps, which may stop the program inside a function.
OP_HALT ==
    /\ mode = "main"
    /\ mode' = Left(FALSE)
    /\ UNCHANGED <<stack, sp, heap, error, dipped, loose>> /\ UNCHANGED calls

\* metal_vm_call: the file system calls a function by its name, with strings,
\* numbers and pointers, and runs it to its return or to an error.  After an
\* error it runs nothing, and leaves the frame and the scope behind.  The calls
\* that ask for something, by vfs_stat, vfs_readdir and vfs_read, save the
\* counts of the pools first.
metal_vm_call(argc, params, query) ==
    LET s == IF sp + argc + 1 > STACK_SIZE THEN STACK_SIZE ELSE sp + argc + 1
        st == [i \in 0 .. s - 1 |-> IF i < sp THEN stack[i] ELSE Plain]
        e == error \/ sp + argc + 1 > STACK_SIZE IN
       /\ mode = "idle"
       /\ \/ /\ frame_count >= CALL_STACK
             /\ error' = TRUE
             /\ stack' = st /\ sp' = s
             /\ UNCHANGED <<mode, dipped>> /\ UNCHANGED calls
          \/ /\ frame_count < CALL_STACK
             /\ Enter(st, s - argc - 1, argc, params)
             /\ error' = e
             /\ mode' = IF e THEN "idle" ELSE IF query THEN "query" ELSE "host"
             /\ before' = IF query THEN heap.taken ELSE {}
             /\ start' = frame_count
             /\ UNCHANGED <<vm, stale>>
       /\ UNCHANGED <<heap, loose>>

\* vfs_stat, vfs_readdir and vfs_read have read the result, and set array_count
\* and dict_count back: whatever the query has created is given up, in use or
\* not.  (A query that ran nothing has created nothing.)
vfs_reset ==
    /\ mode = "back"
    /\ mode' = "idle"
    /\ heap' = [heap EXCEPT !.taken = before]
    /\ before' = {}
    /\ loose' = (loose \/ ~(Reachable \subseteq before))
    /\ UNCHANGED <<stack, sp, frames, frame_count, scopes, depth, start, error, vm, stale,
                   envs, dipped, uneven>>

\* sage_shell_run once more: operands and scopes are dropped, all but the global
\* variables; frames and pools stay.
sage_shell_run ==
    /\ mode = "over" /\ vm = "g_sage_shell_vm"
    /\ mode' = "main"
    /\ sp' = 0 /\ stack' = Cut(0)
    /\ depth' = 0 /\ scopes' = [d \in {0} |-> scopes[d]]
    /\ error' = FALSE
    /\ stale' = frame_count /\ envs' = 0 /\ uneven' = FALSE
    /\ UNCHANGED <<frames, frame_count, heap, start, vm, before, dipped, loose>>

------------------------------------------------------------------------------
(* Instructions on objects                                                  *)

\* OP_ARRAY, OP_TUPLE: the slot is taken while the operands are on the stack.
OP_ARRAY(n) ==
    LET s == NewSlot(heap, Arrays, Roots(sp))
        h == NewHeap(heap, Arrays, Roots(sp)) IN
       /\ n =< sp
       /\ \/ /\ s = Plain
             /\ heap' = h
             /\ Fail
             /\ UNCHANGED <<stack, sp, dipped>>
          \/ /\ s # Plain
             /\ heap' = AddedAll(h, s, [i \in 1 .. n |-> stack[sp - n + i - 1]], n)
             /\ IF n = 0 THEN Push(s) ELSE Replace(n, s)
       /\ UNCHANGED loose /\ UNCHANGED calls

\* OP_DICT with n entries whose keys differ.
OP_DICT(n) ==
    LET s == NewSlot(heap, Dicts, Roots(sp))
        h == NewHeap(heap, Dicts, Roots(sp)) IN
       /\ 2 * n =< sp
       /\ \/ /\ s = Plain
             /\ heap' = h
             /\ Fail
             /\ UNCHANGED <<stack, sp, dipped>>
          \/ /\ s # Plain
             /\ heap' = AddedAll(h, s, [i \in 1 .. n |-> Operand(2 * i - 2)], n)
             /\ IF n = 0 THEN Push(s) ELSE Replace(2 * n, s)
       /\ UNCHANGED loose /\ UNCHANGED calls

\* OP_GET_INDEX (n = 2), OP_GET_PROPERTY (n = 1)
OP_GET(n, i) == Replace(n, Element(Operand(n - 1), i)) /\ Quiet

\* OP_SET_INDEX (n = 3), OP_SET_PROPERTY (n = 2)
OP_SET(n, i) ==
    /\ heap' = Stored(heap, Operand(n - 1), i, Operand(0))
    /\ Replace(n, Operand(0))
    /\ UNCHANGED loose /\ UNCHANGED calls

\* The method push of arrays and the native os_array_push.
ArrayPush ==
    /\ sp >= 2
    /\ Operand(1) \in Arrays
    /\ heap' = Added(heap, Operand(1), Operand(0))
    /\ Replace(2, Plain)
    /\ UNCHANGED loose /\ UNCHANGED calls

\* OP_SLICE of the first n elements of an array, which is off the stack when
\* the slot for the result is looked for.
OP_SLICE(n) ==
    LET obj == Operand(2)
        roots == Roots(Below(3))
        s == NewSlot(heap, Arrays, roots)
        h == NewHeap(heap, Arrays, roots) IN
       /\ obj \in Arrays
       /\ \/ /\ s = Plain
             /\ heap' = h
             /\ Drop(3) /\ Fail
             /\ UNCHANGED loose
          \/ /\ s # Plain
             /\ heap' = AddedAll(h, s, h.elems[obj], AtMost(n, Len(h.elems[obj])))
             /\ Replace(3, s)
             /\ loose' = (loose \/ (/\ Full(heap, Arrays)
                                   /\ obj \notin Marked(heap.elems, roots, Uncleared(heap))))
       /\ UNCHANGED calls

\* A native that returns an array of n plain values; its arguments are off the
\* stack.  An array that cannot be allocated is nil or behaves as nil.
NativeArray(argc, n) ==
    LET roots == Roots(sp - argc - 1)
        h == NewHeap(heap, Arrays, roots)
        s == NewSlot(heap, Arrays, roots) IN
       /\ argc < sp
       /\ stack[sp - argc - 1] = Plain
       /\ heap' = AddedAll(h, s, [i \in 1 .. n |-> Plain], n)
       /\ Replace(argc + 1, s)
       /\ UNCHANGED loose /\ UNCHANGED calls

\* A native that returns an array with a dictionary (os_backend_readdir,
\* os_get_tasks): nothing but a C variable refers to the array while the slot
\* of the dictionary is looked for.
NativeList(argc) ==
    LET roots == Roots(sp - argc - 1)
        h == NewHeap(heap, Arrays, roots)
        s == NewSlot(heap, Arrays, roots)
        d == NewSlot(h, Dicts, roots) IN
       /\ argc < sp
       /\ stack[sp - argc - 1] = Plain
       /\ heap' = Added(NewHeap(h, Dicts, roots), s, d)
       /\ Replace(argc + 1, s)
       /\ loose' = (loose \/ Full(h, Dicts))
       /\ UNCHANGED calls

------------------------------------------------------------------------------

Next ==
    \/ Running /\ OP_CONSTANT
    \/ Running /\ OP_DUP
    \/ Running /\ OP_POP
    \/ \E n \in 1 .. 3 : Running /\ OP_COMPUTE(n)
    \/ \E n \in 0 .. 2 : Running /\ OP_FAIL(n)
    \/ \E x \in Names : Running /\ OP_GET_GLOBAL(x)
    \/ \E x \in Names : Running /\ OP_DEFINE_GLOBAL(x)
    \/ \E x \in Names : Running /\ OP_SET_GLOBAL(x)
    \/ Running /\ OP_PUSH_ENV
    \/ Running /\ OP_POP_ENV
    \/ \E argc \in 0 .. ARGS, params \in Params : Running /\ OP_CALL(argc, params)
    \/ Running /\ OP_RETURN
    \/ OP_HALT
    \/ \E argc \in 0 .. ARGS, params \in Params, query \in BOOLEAN :
          metal_vm_call(argc, params, query)
    \/ vfs_reset
    \/ sage_shell_run
    \/ \E n \in 0 .. ARGS : Running /\ OP_ARRAY(n)
    \/ \E n \in 0 .. ARGS : Running /\ OP_DICT(n)
    \/ \E n \in 1 .. 2, i \in 0 .. MAX_ELEMS : Running /\ OP_GET(n, i)
    \/ \E n \in 2 .. 3, i \in 0 .. MAX_ELEMS : Running /\ OP_SET(n, i)
    \/ Running /\ ArrayPush
    \/ \E n \in 0 .. MAX_ELEMS : Running /\ OP_SLICE(n)
    \/ \E argc \in 0 .. ARGS, n \in 0 .. MAX_ELEMS : Running /\ NativeArray(argc, n)
    \/ \E argc \in 0 .. ARGS : Running /\ NativeList(argc)

Spec == Init /\ [][Next]_vars

------------------------------------------------------------------------------
(* Properties                                                               *)

\* No allocation hands out an object that the program can still get at:
\* whatever is reachable from the stack and the variables is in use, and lies
\* below array_count or dict_count.  It fails once a query has left an object in
\* a variable and its counts are set back, a collection ran while a slice or a
\* native held an object that metal_vm_gc does not know of, or a function popped
\* an operand of its caller that the return brings back.
LiveObjectsKept ==
    ~dipped /\ ~loose => Reachable \subseteq heap.in_use \cap heap.taken

\* A call takes its callee and arguments off the stack and puts one result
\* there: a function that pops only what it pushed leaves every operand of its
\* caller in place, whatever is left on the stack at the return.
CallerIntact ==
    [][stale < frame_count /\ frame_count' < frame_count /\ ~dipped' =>
         /\ sp' = Base + (IF mode' = mode THEN 1 ELSE 0)
         /\ \A i \in 0 .. Base - 1 : stack'[i] = frames[frame_count].kept[i]]_vars

\* A return from a call of the same run brings the caller's scope back, with
\* calls nested to any depth below METAL_ENV_DEPTH, whatever frames an earlier
\* run has left, unless a loop was left open by a return.
CallerScopeBack ==
    [][stale < frame_count /\ frame_count' < frame_count /\ ~uneven' =>
         depth' = frames[frame_count].depth]_vars
=============================================================================
