----------------------------- MODULE SageInterp ------------------------------
(***************************************************************************)
(* The tree-walking interpreter of sage_lang/core/src/c/interpreter.c and   *)
(* what it keeps from the collector of SageGc.                              *)
(*                                                                         *)
(* A collection may run inside any allocation, at the start of every 100th  *)
(* statement and in a native function; the values in the C locals of the    *)
(* calls of eval_expr and interpret_inner in progress survive it only       *)
(* where the code has pushed them on the root stacks of its thread.  A call *)
(* is a frame: the form of the expression or statement, how far it is, the  *)
(* values in its locals, the environment it evaluates in and the one it has *)
(* made.  A form is the list of the steps that matter to the collector, in  *)
(* the order of the code.                                                   *)
(*                                                                         *)
(* Scripts run in several tasks, one at a time: g_gil_owner, which only a   *)
(* sleeping script gives up before it ends.  sage_error_exit, the jump out  *)
(* of the interpreter, is left out, and so is the host's threading.         *)
(***************************************************************************)
EXTENDS SageGc, FiniteSets

CONSTANTS AST_GC_TEMP_MAX, \* and AST_GC_ENV_TEMP_MAX
          FRAME_LIMIT,    \* bound on the calls in progress, per task
          FORM_LIMIT,     \* bound on the forms a behaviour evaluates
          Explored        \* per task and per number of calls in progress: the
                          \* forms tried next

VARIABLES frames,         \* per task: the calls in progress, the innermost last
          exit,           \* per task: the return or exception on its way out
          gil,            \* g_gil_owner
          pin_count,      \* gc.pin_count
          forms,          \* history: the forms begun
          loose           \* history: a collection ran while a value was held
                          \* only where the code does not root it

interpVars == <<frames, exit, gil, pin_count, forms, loose>>
vars == <<gcVars, interpVars>>

------------------------------------------------------------------------------
(* The forms                                                                *)

(* eval      evaluate an operand; eval+ and AST_GC_PUSH its value; arg an     *)
(*           argument, which is pushed and counted in pushed_args; self look  *)
(*           up a variable                                                   *)
(* make      allocate an object; copy with the contents of the first value,  *)
(*           pack with all the values, close over the environment            *)
(* new       allocate an instance, pinned, and AST_GC_PUSH it                *)
(* store     put the last value into the first; fetch take one out of it     *)
(* scope     env_create and AST_GC_PUSH_ENV; env env_create alone            *)
(* bind      define the last value in that environment; bindall all values,  *)
(*           bindargs all but the first, item something the first contains   *)
(* set       assign the last value in the environment evaluated in           *)
(* body      interpret() in the environment made; block in the one evaluated *)
(*           in; block+ and AST_GC_PUSH both fields of the outcome            *)
(* forget    the last value is done with; drop all are, and are popped       *)
(* end       pop and return the last value; end1, end2 the first, the second *)

\* eval_binary: the operands are read before the string becomes an object, or
\* the exception of a division by zero.
Binary == <<"eval+", "eval", "drop", "make", "end">>

\* A class's __eq__; the result is a boolean.
BinaryEq == <<"eval+", "eval+", "env", "bindall", "body", "drop", "end">>

\* EXPR_ARRAY and EXPR_DICT.
Array == <<"pin", "make", "eval", "store", "forget", "eval", "store", "unpin", "end1">>

\* EXPR_TUPLE.
Tuple == <<"pin", "eval", "eval", "pack", "unpin", "end">>

\* EXPR_INDEX.
Index == <<"eval+", "eval", "fetch", "end">>

\* EXPR_INDEX of a string and EXPR_SLICE: the indices are numbers.
Slice == <<"eval+", "eval", "forget", "copy", "end">>

\* Mutant: the container is not pushed.
IndexSetBare == <<"eval", "eval+", "eval", "store", "end">>

\* EXPR_INDEX_SET.
IndexSet == <<"eval+", "eval+", "eval", "store", "end">>

\* EXPR_GET.
Get == <<"eval", "fetch", "end">>

\* EXPR_SET of a property.
SetProperty == <<"eval+", "eval", "store", "end">>

\* EXPR_SET of a variable, STMT_LET.
Assign == <<"eval", "set", "end">>

\* EXPR_CALL of a method.
Method == <<"eval+", "scope", "bind", "arg", "bind", "body", "end">>

\* EXPR_CALL of super.
Super == <<"self", "scope", "bind", "forget", "arg", "bind", "body", "end">>

\* EXPR_CALL of a native function.
Native == <<"eval+", "arg", "arg", "native", "end">>

\* EXPR_CALL of a function.
Function == <<"eval+", "arg", "arg", "scope", "bindargs", "body", "end">>

\* EXPR_CALL of a generator.
Generator == <<"eval+", "scope", "arg", "bind", "close", "end">>

\* EXPR_CALL of a class: the instance, then init.
Instantiate == <<"eval+", "new", "scope", "bind", "arg", "bind", "body", "end2">>

\* STMT_FOR.
For == <<"eval+", "scope", "item", "body", "forget", "item", "body", "forget", "end">>

\* STMT_IF, and a round of STMT_WHILE.
If == <<"eval", "forget", "block", "end">>

\* STMT_MATCH.
Match == <<"eval+", "eval", "forget", "block", "end">>

\* STMT_PRINT of an instance with __str__.
PrintStr == <<"eval+", "scope", "bind", "body", "end">>

\* STMT_TRY; a Try whose block throws goes on as a Catch with the exception.
Try == <<"block", "end">>
Catch == <<"eval+", "scope", "make", "bind", "forget", "body", "end">>

\* An exception that is an instance is bound as it is.
CatchInstance == <<"eval+", "scope", "bind", "body", "end">>

\* The finally block of STMT_TRY, run with the outcome of the rest pushed.
Finally == <<"block+", "block", "forget", "end1">>

\* STMT_RAISE.
Raise == <<"eval", "wrap">>

\* STMT_RETURN.
Return == <<"eval", "return">>

\* STMT_PROC; STMT_CLASS and STMT_STRUCT, which allocate pinned.
Proc == <<"close", "set", "end">>

\* STMT_ENUM and STMT_TRAIT: a dictionary, filled and then bound.
Enum == <<"make", "make", "store", "forget", "set", "end">>

\* STMT_BLOCK, in interpret(): a body, a block or a script.
Block == <<"statements">>

Form ==
    [Binary |-> Binary, BinaryEq |-> BinaryEq, Array |-> Array, Tuple |-> Tuple,
     Index |-> Index, Slice |-> Slice, IndexSet |-> IndexSet, Get |-> Get,
     SetProperty |-> SetProperty, Assign |-> Assign, Method |-> Method, Super |-> Super,
     Native |-> Native, Function |-> Function, Generator |-> Generator,
     Instantiate |-> Instantiate, For |-> For, If |-> If, Match |-> Match,
     PrintStr |-> PrintStr, Try |-> Try, Catch |-> Catch,
     CatchInstance |-> CatchInstance, Finally |-> Finally,
     Raise |-> Raise, Return |-> Return, Proc |-> Proc, Enum |-> Enum,
     Block |-> Block]

Inner == {"Block", "Catch", "CatchInstance"}
StatementForms == {"For", "If", "Match", "PrintStr", "Try", "Finally", "Raise", "Return",
                   "Proc", "Enum"}
ExprForms == DOMAIN Form \ (StatementForms \cup Inner)

\* The forms whose body is that of a function: what it returns is their value.
Calls == {"BinaryEq", "Method", "Super", "Function", "Instantiate", "PrintStr"}

\* Those that go on when the body throws.
Swallows == {"BinaryEq", "PrintStr"}

\* Those that look at the type or the arity of their first value once it is
\* pushed, and may turn it down.
Checks == {"Slice", "SetProperty", "Method", "Native", "Function", "Generator"}

\* The forms that hold values they have not pushed: a literal is only pinned,
\* the result of a block is unprotected while deferred statements run, and so
\* are the message of an exception and the members of an enum.
Unprotected == {"Array", "Tuple", "Block", "Raise", "Enum"}

------------------------------------------------------------------------------
(* Frames and root stacks                                                   *)

NewFrame(form, env) ==
    [form |-> form, pc |-> 1, vals |-> <<>>, env |-> env, scope |-> NULL,
     pushed_args |-> 0, outcome |-> "value"]

Last(s) == s[Len(s)]
Front(s) == SubSeq(s, 1, Len(s) - 1)
Result(f) == IF f.vals = <<>> THEN NULL ELSE Last(f.vals)

Top(t) == Last(frames[t])
Below(t) == Front(frames[t])
Op(t) == Form[Top(t).form][Top(t).pc]

\* Mutant: init's early return forgets the instance.
CallPopsOne(f) ==
    CASE f.form = "Super" -> f.pushed_args
      [] f.form \in {"Method", "Native", "Function", "Generator", "Instantiate"} ->
            1 + f.pushed_args

\* What the returns of EXPR_CALL pop: the arguments so far and the object or the
\* callee, which super has none of and beside which a class has the instance.
CallPops(f) ==
    CASE f.form = "Super" -> f.pushed_args
      [] f.form \in {"Method", "Native", "Function", "Generator"} -> 1 + f.pushed_args
      [] f.form = "Instantiate" -> 2 + f.pushed_args

\* AST_GC_POP and AST_GC_POP_N on the way out of f at the step it is at, whether
\* that is its last or one that threw; nothing is pushed before the first operand.
Pops(f) ==
    CASE f.pc = 1 -> 0
      [] f.form = "Binary" -> IF f.pc > 3 THEN 0 ELSE 1
      [] f.form = "BinaryEq" -> <<0, 1, 2, 2, 2, 2, 0>>[f.pc]
      [] f.form = "IndexSet" -> IF f.pc = 2 THEN 1 ELSE 2
      [] f.form \in {"Index", "Slice", "SetProperty", "For", "Match", "PrintStr",
                     "Catch", "CatchInstance"} -> 1
      [] f.form = "Finally" -> 2
      [] f.form \in {"Method", "Super", "Native", "Function", "Generator", "Instantiate"} ->
            CallPops(f)
      [] OTHER -> 0

\* AST_GC_POP_ENV on the same way: a function makes its scope after its arguments.
PopEnvs(f) ==
    CASE f.form = "Function" -> IF f.pc > 4 THEN 1 ELSE 0
      [] f.form \in {"Method", "Super", "Generator", "Instantiate", "For", "PrintStr",
                     "Catch", "CatchInstance"} -> IF f.pc > 2 THEN 1 ELSE 0
      [] OTHER -> 0

\* AST_GC_PUSH and AST_GC_PUSH_ENV: a push beyond the limit is dropped.
Dropped(s) == Len(s) = AST_GC_TEMP_MAX
PUSH(s, v) == IF Dropped(s) THEN s ELSE Append(s, v)

\* AST_GC_POP_N.
POP_N(s, n) == SubSeq(s, 1, IF Len(s) < n THEN 0 ELSE Len(s) - n)

\* Mutant: the interpreter goes on while a collection is under way.
RunningOn(t) == gil = t /\ exit[t] = NULL /\ frames[t] # <<>>

\* t runs a script, and nothing is on its way out of it.
Running(t) == gil = t /\ phase = "IDLE" /\ exit[t] = NULL /\ frames[t] # <<>>

SetFrames(t, fs) == frames' = [frames EXCEPT ![t] = fs]

\* Frame f of t goes on with the values vs.
Advance(t, vs) == SetFrames(t, Append(Below(t), [Top(t) EXCEPT !.pc = @ + 1, !.vals = vs]))

\* The innermost of the frames fs gets the value of the operand, the body or the
\* block it waits for; a block has no use for the value of a statement.
Hand(t, fs, roots, v) ==
    LET f == Last(fs)
        op == Form[f.form][f.pc]
        pushed == CASE op \in {"eval+", "arg"} -> PUSH(roots, v)
                    [] op = "block+" -> PUSH(PUSH(roots, v), NULL)
                    [] OTHER -> roots
    IN  IF f.form = "Block"
        THEN /\ SetFrames(t, fs)
             /\ temps' = [temps EXCEPT ![t] = roots]
             /\ UNCHANGED loose
        ELSE /\ SetFrames(t, Append(Front(fs),
                                    [f EXCEPT !.pc = @ + 1, !.vals = Append(@, v),
                                              !.pushed_args = @ + (IF op = "arg" THEN 1 ELSE 0)]))
             /\ temps' = [temps EXCEPT ![t] = pushed]
             /\ loose' = (loose \/ (op \in {"eval+", "arg", "block+"} /\ Dropped(roots))
                               \/ (op = "block+" /\ Dropped(PUSH(roots, v))))

\* The innermost frame of t leaves, with no value for the one below it yet.
Leave(t) ==
    /\ SetFrames(t, Below(t))
    /\ temps' = [temps EXCEPT ![t] = POP_N(@, Pops(Top(t)))]
    /\ env_temps' = [env_temps EXCEPT ![t] = POP_N(@, PopEnvs(Top(t)))]
    /\ UNCHANGED loose

\* It leaves with the value v.
LeaveWith(t, v) ==
    /\ Hand(t, Below(t), POP_N(temps[t], Pops(Top(t))), v)
    /\ env_temps' = [env_temps EXCEPT ![t] = POP_N(@, PopEnvs(Top(t)))]

------------------------------------------------------------------------------
(* Scripts and tasks                                                        *)

InterpInit ==
    /\ GcInit
    /\ frames = [t \in Tasks |-> <<>>]
    /\ exit = [t \in Tasks |-> NULL]
    /\ gil = NULL
    /\ pin_count = 0
    /\ forms = 0
    /\ loose = FALSE

\* A task without a script starts one; a sleeping one goes on.
Acquire(t) ==
    /\ gil = NULL
    /\ gil' = t
    /\ IF frames[t] = <<>>
       THEN /\ SetFrames(t, <<NewFrame("Block", Global)>>)
            /\ gc_root_stack' = [gc_root_stack EXCEPT ![t] = <<Global>>]
       ELSE UNCHANGED <<frames, gc_root_stack>>
    /\ UNCHANGED <<heapVars, markVars, temps, env_temps, exit, pin_count, forms, loose>>

\* nanosleep gives the lock away.
Sleep(t) ==
    /\ Running(t)
    /\ Op(t) = "native"
    /\ gil' = NULL
    /\ UNCHANGED <<gcVars, frames, exit, pin_count, forms, loose>>

------------------------------------------------------------------------------
(* Evaluation                                                               *)

\* The environments of a chain of scopes, and the values of its variables.
Chain(e) == EnvsMarked({}, {e})
Visible(e) == UNION {holds[x] : x \in Chain(e)}

\* An operand that is a number, nil or a variable.
Variable(t) ==
    /\ Running(t)
    /\ Op(t) \in {"eval", "eval+", "arg", "self"}
    /\ \E v \in Visible(Top(t).env) \cup {NULL} : Hand(t, frames[t], temps[t], v)
    /\ UNCHANGED <<heapVars, markVars, env_temps, gc_root_stack, exit, gil, pin_count, forms>>

\* An operand that is a string.
String(t) ==
    /\ Running(t)
    /\ Op(t) \in {"eval", "eval+", "arg"}
    /\ \E o \in Objects \ live :
          /\ live' = live \cup {o}
          /\ Hand(t, frames[t], temps[t], o)
    /\ UNCHANGED <<holds, scope, markVars, env_temps, gc_root_stack, exit, gil, pin_count, forms>>

\* An operand or a statement that is a form of its own.
Nest(t) ==
    /\ Running(t)
    /\ Len(frames[t]) < FRAME_LIMIT /\ forms < FORM_LIMIT
    /\ forms' = forms + 1
    /\ \/ Op(t) \in {"eval", "eval+", "arg"} /\ \E form \in ExprForms \cap Explored[t][Len(frames[t])] :
            SetFrames(t, Append(frames[t], NewFrame(form, Top(t).env)))
       \/ Op(t) = "statements" /\ \E form \in Explored[t][Len(frames[t])] :
            SetFrames(t, Append(frames[t], NewFrame(form, Top(t).env)))
    /\ UNCHANGED <<gcVars, exit, gil, pin_count, loose>>

\* interpret() of a body or of a block.
Interpret(t) ==
    /\ Running(t)
    /\ Op(t) \in {"body", "block", "block+"}
    /\ Len(frames[t]) < FRAME_LIMIT
    /\ LET env == IF Op(t) = "body" THEN Top(t).scope ELSE Top(t).env IN
          /\ SetFrames(t, Append(frames[t], NewFrame("Block", env)))
          /\ gc_root_stack' = [gc_root_stack EXCEPT ![t] = Append(@, env)]
    /\ UNCHANGED <<heapVars, markVars, temps, env_temps, exit, gil, pin_count, forms, loose>>

\* gc_alloc.
Make(t) ==
    /\ Running(t)
    /\ Op(t) \in {"make", "copy", "pack", "close", "new"}
    /\ LET f == Top(t) IN
       \E o \in Objects \ live :
          /\ live' = live \cup {o}
          /\ holds' = [holds EXCEPT ![o] =
                CASE Op(t) = "copy" /\ f.vals[1] # NULL -> holds[f.vals[1]]
                  [] Op(t) \in {"pack", "new"} -> Elems(f.vals) \cap Objects
                  [] OTHER -> {}]
          /\ scope' = [scope EXCEPT ![o] =
                IF Op(t) # "close" THEN NULL
                ELSE IF f.scope # NULL THEN f.scope ELSE f.env]
          /\ Advance(t, Append(f.vals, o))
          /\ temps' = [temps EXCEPT ![t] = IF Op(t) = "new" THEN PUSH(@, o) ELSE @]
          /\ loose' = (loose \/ (Op(t) = "new" /\ Dropped(temps[t])))
    /\ UNCHANGED <<markVars, env_temps, gc_root_stack, exit, gil, pin_count, forms>>

\* v is put into n, beside what n holds or in the place of some of it.
Put(n, v) ==
    \E old \in holds[n] \cup {NULL} :
        holds' = [holds EXCEPT ![n] = (@ \ {old}) \cup ({v} \cap Objects)]

\* array_set, array_push, dict_set, instance_set_field, env_define, env_assign.
Write(t) ==
    /\ Running(t)
    /\ LET f == Top(t) IN
          /\ \/ Op(t) = "store" /\ f.vals[1] # NULL /\ Put(f.vals[1], Result(f))
             \/ Op(t) = "store" /\ f.vals[1] = NULL /\ UNCHANGED holds
             \/ Op(t) = "set" /\ \E e \in Chain(f.env) : Put(e, Result(f))
             \/ Op(t) = "bind" /\ Put(f.scope, Result(f))
             \/ Op(t) = "bindall" /\ holds' = [holds EXCEPT ![f.scope] = Elems(f.vals) \cap Objects]
             \/ Op(t) = "bindargs" /\ holds' = [holds EXCEPT ![f.scope] =
                                        Elems(Tail(f.vals)) \cap Objects]
             \/ /\ Op(t) = "item" /\ f.vals[1] # NULL
                /\ \E v \in holds[f.vals[1]] \cup {NULL} : Put(f.scope, v)
             \/ Op(t) = "item" /\ f.vals[1] = NULL /\ UNCHANGED holds
          /\ Advance(t, f.vals)
    /\ UNCHANGED <<live, scope, markVars, rootVars, exit, gil, pin_count, forms, loose>>

\* array_get, dict_get, instance_get_field.
Fetch(t) ==
    /\ Running(t)
    /\ Op(t) = "fetch"
    /\ LET f == Top(t) IN
       \E v \in {NULL} \cup (IF f.vals[1] = NULL THEN {} ELSE holds[f.vals[1]]) :
          Advance(t, Append(f.vals, v))
    /\ UNCHANGED <<gcVars, exit, gil, pin_count, forms, loose>>

\* env_create below the environment the first value closes over.
Scope(t) ==
    /\ Running(t)
    /\ Op(t) \in {"scope", "env"}
    /\ LET f == Top(t)
           closure == IF f.form \in Calls \cup {"Generator"} /\ f.vals[1] # NULL
                      THEN scope[f.vals[1]] ELSE NULL
       IN \E e \in Envs \ live :
             /\ live' = live \cup {e}
             /\ scope' = [scope EXCEPT ![e] = IF closure = NULL THEN f.env ELSE closure]
             /\ SetFrames(t, Append(Below(t), [f EXCEPT !.pc = @ + 1, !.scope = e]))
             /\ env_temps' = [env_temps EXCEPT ![t] = IF Op(t) = "scope" THEN PUSH(@, e) ELSE @]
             /\ loose' = (loose \/ (Op(t) = "scope" /\ Dropped(env_temps[t])))
    /\ UNCHANGED <<holds, markVars, temps, gc_root_stack, exit, gil, pin_count, forms>>

\* A native function that takes or leaves its arguments, or makes an object; one
\* that collects or sleeps does so before.
CallNative(t) ==
    /\ Running(t)
    /\ Op(t) = "native"
    /\ LET f == Top(t) IN
          \/ Advance(t, Append(f.vals, NULL)) /\ UNCHANGED heapVars
          \/ /\ f.vals[2] # NULL /\ Put(f.vals[2], f.vals[3])
             /\ Advance(t, f.vals) /\ UNCHANGED <<live, scope>>
          \/ \E o \in Objects \ live :
                /\ live' = live \cup {o}
                /\ Advance(t, Append(f.vals, o))
                /\ UNCHANGED <<holds, scope>>
    /\ UNCHANGED <<markVars, rootVars, exit, gil, pin_count, forms, loose>>

\* gc_pin, gc_unpin, and values that are done with.
Quiet(t) ==
    /\ Running(t)
    /\ \/ Op(t) = "pin" /\ pin_count' = pin_count + 1 /\ Advance(t, Top(t).vals)
       \/ Op(t) = "unpin" /\ pin_count' = pin_count - 1 /\ Advance(t, Top(t).vals)
       \/ Op(t) = "forget" /\ Advance(t, Front(Top(t).vals)) /\ UNCHANGED pin_count
    /\ UNCHANGED <<gcVars, exit, gil, forms, loose>>

Drop(t) ==
    /\ Running(t)
    /\ Op(t) = "drop"
    /\ temps' = [temps EXCEPT ![t] = POP_N(@, Pops(Top(t)))]
    /\ Advance(t, <<>>)
    /\ UNCHANGED <<heapVars, markVars, env_temps, gc_root_stack, exit, gil, pin_count, forms, loose>>

------------------------------------------------------------------------------
(* Results, returns and exceptions                                          *)

\* A form ends; the finally block passes on the outcome it was run with.
End(t) ==
    /\ Running(t)
    /\ Op(t) \in {"end", "end1", "end2"}
    /\ LET f == Top(t)
           v == CASE Op(t) = "end1" -> f.vals[1] [] Op(t) = "end2" -> f.vals[2]
                  [] OTHER -> Result(f)
       IN IF f.outcome = "value"
          THEN LeaveWith(t, v) /\ UNCHANGED exit
          ELSE Leave(t) /\ exit' = [exit EXCEPT ![t] = [outcome |-> f.outcome, value |-> v]]
    /\ UNCHANGED <<heapVars, markVars, gc_root_stack, gil, pin_count, forms>>

\* The first value is not an instance, not callable, takes another number of
\* arguments: the form is nil.
Reject(t) ==
    /\ Running(t)
    /\ Top(t).form \in Checks /\ Top(t).pc = 2
    /\ LeaveWith(t, NULL)
    /\ UNCHANGED <<heapVars, markVars, gc_root_stack, exit, gil, pin_count, forms>>

\* STMT_RETURN; STMT_RAISE, which makes the exception out of its message unless
\* it has an instance; and a division by zero.
Exit(t) ==
    /\ Running(t)
    /\ \/ /\ Op(t) = "return"
          /\ exit' = [exit EXCEPT ![t] = [outcome |-> "return", value |-> Result(Top(t))]]
          /\ UNCHANGED live
       \/ /\ Op(t) = "wrap"                  \* an instance
          /\ Result(Top(t)) # NULL
          /\ exit' = [exit EXCEPT ![t] = [outcome |-> "throw", value |-> Result(Top(t))]]
          /\ UNCHANGED live
       \/ /\ Op(t) = "wrap" \/ (Op(t) = "make" /\ Top(t).form = "Binary")
          /\ \E o \in Objects \ live :
                /\ live' = live \cup {o}
                /\ exit' = [exit EXCEPT ![t] = [outcome |-> "throw", value |-> o]]
    /\ SetFrames(t, Below(t))
    /\ UNCHANGED <<holds, scope, markVars, rootVars, gil, pin_count, forms, loose>>

\* The end of a block or of a script.
EndBlock(t) ==
    /\ Running(t)
    /\ Op(t) = "statements"
    /\ gc_root_stack' = [gc_root_stack EXCEPT ![t] = Front(@)]
    /\ LET f == Top(t) IN
          IF Len(frames[t]) = 1
          THEN /\ SetFrames(t, <<>>)
               /\ gil' = NULL
               /\ UNCHANGED <<temps, exit, loose>>
          ELSE /\ UNCHANGED gil
               /\ IF f.outcome = "value"
                  THEN Hand(t, Below(t), temps[t], NULL) /\ UNCHANGED exit
                  ELSE /\ SetFrames(t, Below(t))
                       /\ exit' = [exit EXCEPT ![t] =
                                      [outcome |-> f.outcome, value |-> f.vals[1]]]
                       /\ UNCHANGED <<temps, loose>>
    /\ UNCHANGED <<heapVars, markVars, env_temps, pin_count, forms>>

\* A return or an exception reaches the innermost frame.
Unwind(t) ==
    /\ gil = t /\ phase = "IDLE" /\ exit[t] # NULL
    /\ LET f == Top(t)
           v == exit[t].value
           raised == exit[t].outcome = "throw"
           Stop == exit' = [exit EXCEPT ![t] = NULL]
           Keep == [f EXCEPT !.vals = <<v>>, !.outcome = exit[t].outcome]
       IN
       CASE f.form = "Block" ->              \* deferred statements may run first;
                                             \* a script goes on
               /\ SetFrames(t, Append(Below(t), IF f.vals = <<>> /\ Below(t) # <<>>
                                                THEN Keep ELSE f))
               /\ Stop
               /\ UNCHANGED <<temps, env_temps, pin_count, forms, loose>>
         [] f.form \in Calls /\ Op(t) = "body" /\ (~raised \/ f.form \in Swallows) ->
               /\ Hand(t, frames[t], temps[t], IF raised THEN NULL ELSE v)
               /\ Stop
               /\ UNCHANGED <<env_temps, pin_count>>
         [] f.form = "Try" /\ raised ->
               /\ \E form \in {"Catch", "CatchInstance"} :
                     Hand(t, Append(Below(t), NewFrame(form, f.env)), temps[t], v)
               /\ Stop
               /\ UNCHANGED <<env_temps, pin_count>>
         [] f.form = "Finally" /\ f.pc = 1 ->
               /\ Hand(t, Append(Below(t), [Keep EXCEPT !.vals = <<>>]), temps[t], v)
               /\ Stop
               /\ UNCHANGED <<env_temps, pin_count>>
         [] OTHER ->                         \* the early returns
               /\ Leave(t)
               /\ pin_count' = IF f.form \in {"Array", "Tuple"} THEN pin_count - 1 ELSE pin_count
               /\ UNCHANGED exit
    /\ UNCHANGED <<heapVars, markVars, gc_root_stack, gil, forms>>

------------------------------------------------------------------------------
(* Collections                                                              *)

\* gc_should_collect, once a threshold is reached.
gc_should_collect == pin_count = 0

\* An allocation may collect before it; interpret_inner collects at every 100th
\* statement and a native function on demand, pinned or not.
Collect(t) ==
    /\ Running(t)
    /\ \/ /\ Op(t) \in {"eval", "eval+", "arg", "make", "copy", "pack", "close", "wrap"}
          /\ gc_should_collect
       \/ Op(t) \in {"statements", "native"}
    /\ gc_begin_cycle
    /\ loose' = (loose \/ \E u \in Tasks : \E i \in DOMAIN frames[u] :
                    /\ frames[u][i].form \in Unprotected
                    /\ Elems(frames[u][i].vals) \cap Objects # {})
    /\ UNCHANGED <<frames, exit, gil, pin_count, forms>>

CollectorStep == Collector /\ UNCHANGED interpVars

Step(t) ==
    \/ Acquire(t) \/ Sleep(t) \/ Variable(t) \/ String(t) \/ Nest(t) \/ Interpret(t)
    \/ Make(t) \/ Write(t) \/ Fetch(t) \/ Scope(t) \/ CallNative(t) \/ Quiet(t)
    \/ Drop(t) \/ End(t) \/ Reject(t) \/ Exit(t) \/ EndBlock(t) \/ Unwind(t) \/ Collect(t)

Next == CollectorStep \/ \E t \in Tasks : Step(t)

Spec == InterpInit /\ [][Next]_vars

\* The states explored: as long as no collection found an unprotected value.
Telling == ~loose

------------------------------------------------------------------------------
(* Properties                                                               *)

\* Everything that a call in progress holds in its locals survives the
\* collections that run inside it: values, environments and outcomes.
HeldKept ==
    ~loose =>
    \A t \in Tasks :
        /\ exit[t] # NULL => exit[t].value \in live \cup {NULL}
        /\ \A i \in DOMAIN frames[t] :
              LET f == frames[t][i]
              IN  Elems(f.vals) \cup {f.env, f.scope} \subseteq live \cup {NULL}

\* Nothing that is alive refers to something freed.
Closed ==
    phase = "IDLE" /\ ~loose =>
        \A n \in live : holds[n] \cup {scope[n]} \subseteq live \cup {NULL}

\* Every step of the interpreter is one that the collector allows for: none
\* changes the heap while a collection is under way.
ImplementsGc == GcSpec

\* The pushes and the pin of f that are still due to be undone: the steps before
\* the one it is at, since it dropped its values last.
Due(f, steps) ==
    {k \in 1 .. f.pc - 1 : /\ Form[f.form][k] \in steps
                          /\ \A j \in k .. f.pc - 1 : Form[f.form][j] \notin {"drop", "unpin"}}

\* The same over the calls in progress of t.
AllDue(t, steps) ==
    UNION {{i} \X Due(frames[t][i], steps) : i \in DOMAIN frames[t]}

\* The early returns of eval_expr and interpret_inner pop what their call has
\* pushed and no more: at every moment the root stacks of a task and the pin
\* count stand for exactly the pushes of the calls in progress, whatever operand,
\* argument or body has returned or thrown.  A script that is over has left
\* nothing behind, and none has taken a root of its caller with it.
RootsBalanced ==
    ~loose =>
    /\ \A t \in Tasks :
          /\ Len(temps[t]) = Cardinality(AllDue(t, {"eval+", "arg", "new", "block+"}))
                            + Cardinality(AllDue(t, {"block+"}))
          /\ Len(env_temps[t]) = Cardinality(AllDue(t, {"scope"}))
          /\ Len(gc_root_stack[t]) =
                Cardinality({i \in DOMAIN frames[t] : frames[t][i].form = "Block"})
    /\ pin_count = Cardinality(UNION {{t} \X AllDue(t, {"pin"}) : t \in Tasks})
==============================================================================
