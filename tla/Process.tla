------------------------------- MODULE Process -------------------------------
(***************************************************************************)
(* Processes on top of the task table: the ELF programs that sys_execve     *)
(* (fs/elf.c) loads, the children that sys_vfork makes and the copy of the  *)
(* parent's program that sys_execve takes and sys_exit puts back.           *)
(*                                                                         *)
(* Memory is identity mapped and every program is linked at an address of   *)
(* its own choosing, so two programs lie on top of each other.  The model   *)
(* keeps one such place, and of its contents only which process they belong *)
(* to.  A vfork child executes its parent's program until it calls          *)
(* sys_execve.  A call of sys_execve that fails before it touches anything  *)
(* (no such file, no memory for it, a short read) is a stuttering step.     *)
(*                                                                         *)
(* What is copied is the span elf_base .. elf_base + elf_size of the parent *)
(* at the time of the copy.  Of a span the model keeps whether it covers    *)
(* the program that the task executes: it does when that program was loaded *)
(* by sys_execve, and it need not when a later call of sys_execve recorded  *)
(* the span of a file and then rejected the file.  The heap behind a        *)
(* program, which sys_brk bounds, is left out.                              *)
(***************************************************************************)
EXTENDS Scheduler

CONSTANT SHELL_PID  \* the task that starts programs: the shell

ASSUME ShellAssumption == SHELL_PID \in Nat \ {0}

VARIABLES parent,   \* t->parent, as an index of g_tasks
          span,     \* t->elf_base, t->elf_size
          saved,    \* what t->saved_elf_data points to
          memory,   \* the contents of the place where programs are loaded
          image,    \* the process whose program the task executes
          spoiled   \* a program was lost, in one of the ways Spoils names

imageVars == <<parent, span, saved, memory, image, spoiled>>

allVars == <<vars, imageVars>>

NoSlot == -1
Torn == -3      \* parts of several programs

Contents == Pids \cup {NoPid, Torn}

\* The span is empty, holds all of the program that the task executes, or
\* lies elsewhere or holds only a part of it.
Spans == {"none", "covers", "misses"}

\* The contents of memory when the copy was taken, and the span that was copied.
Copies == [of : Contents, span : Spans]
NoCopy == [of |-> NoPid, span |-> "none"]  \* a null pointer

ProcessTypeOK ==
    /\ parent \in [Slots -> Slots \cup {NoSlot}]
    /\ span \in [Slots -> Spans]
    /\ saved \in [Slots -> Copies]
    /\ memory \in Contents
    /\ image \in [Slots -> Pids \cup {NoPid}]
    /\ spoiled \in BOOLEAN

ProcessInit ==
    /\ Init
    /\ parent = [s \in Slots |-> NoSlot]
    /\ span = [s \in Slots |-> "none"]
    /\ saved = [s \in Slots |-> NoCopy]
    /\ memory = NoPid
    /\ image = [s \in Slots |-> NoPid]
    /\ spoiled = FALSE

-----------------------------------------------------------------------------
(* Creation                                                                 *)

\* sched_create_thread clears the entry it takes, sys_vfork sets the parent.
Created(s, p, program) ==
    /\ parent' = [parent EXCEPT ![s] = p]
    /\ span' = [span EXCEPT ![s] = "none"]
    /\ saved' = [saved EXCEPT ![s] = NoCopy]
    /\ image' = [image EXCEPT ![s] = program]

\* A task of the runtime: the supervisor, or what os_spawn_task starts.
Spawn ==
    /\ sage_execute_init \/ os_spawn_task
    /\ \E s \in Slots : FirstUnused(s) /\ Created(s, NoSlot, NoPid)
    /\ UNCHANGED <<memory, spoiled>>

\* Programs, not the runtime, call vfork.
Vfork ==
    /\ image[current] # NoPid
    /\ sys_vfork
    /\ \E s \in Slots : FirstUnused(s) /\ Created(s, current, image[current])
    /\ UNCHANGED <<memory, spoiled>>

-----------------------------------------------------------------------------
(* sys_execve and execelf                                                   *)

\* The parent's program has to be saved.
ToSave(p) == p # NoSlot /\ span[p] # "none" /\ saved[p] = NoCopy

\* sys_execve copies the parent's span; the heap may have no room for it, which
\* the code passes over.
Save(p) ==
    \/ /\ ToSave(p)
       /\ saved' = [saved EXCEPT ![p] = [of |-> memory, span |-> span[p]]]
    \/ UNCHANGED saved

\* No copy is kept of the whole program that the parent executes.
Overwrites(p) == p # NoSlot /\ saved'[p].span # "covers"

\* elf_exec loads the program and jumps to it.
Enter ==
    /\ memory' = id[current]
    /\ image' = [image EXCEPT ![current] = id[current]]
    /\ spoiled' = (spoiled \/ Overwrites(parent[current]))

\* elf_exec rejects the file, or fails behind the first segment it has loaded;
\* the caller goes on with the program it had, or with the shell.
Reject ==
    /\ UNCHANGED image
    /\ \/ UNCHANGED <<memory, spoiled>>
       \/ memory' = Torn /\ spoiled' = (spoiled \/ image[current] # NoPid)

\* The span of the file is recorded before elf_exec looks at the file.
sys_execve ==
    /\ InUserCode
    /\ image[current] # NoPid \/ id[current] = SHELL_PID
    /\ Save(parent[current])
    /\ \/ Enter /\ span' = [span EXCEPT ![current] = "covers"]
       \/ Reject /\ \E sp \in Spans : span' = [span EXCEPT ![current] = sp]
    /\ UNCHANGED <<vars, parent>>

\* The command of the shell calls elf_exec itself: no span is recorded.
execelf ==
    /\ InUserCode
    /\ image[current] = NoPid /\ id[current] = SHELL_PID
    /\ UNCHANGED <<saved, span>>
    /\ Enter \/ Reject
    /\ UNCHANGED <<vars, parent>>

-----------------------------------------------------------------------------
(* sys_exit                                                                 *)

\* What memory holds when the copy has been written to the parent's span.  Of
\* a span that does not cover the program, only its own bytes come back.
PutBack(p) ==
    IF saved[p].span = "covers" /\ span[p] = "covers" THEN saved[p].of
    ELSE IF memory = saved[p].of THEN memory
    ELSE Torn

\* Mutant: the copy is freed but not put back.
RestoreFrees(p) ==
    /\ saved' = IF p # NoSlot THEN [saved EXCEPT ![p] = NoCopy] ELSE saved
    /\ UNCHANGED memory

\* Mutant: the pointer to the copy is not reset.
RestoreKeeps(p) ==
    /\ memory' = IF p # NoSlot /\ saved[p] # NoCopy THEN PutBack(p) ELSE memory
    /\ UNCHANGED saved

\* The parent's span is written back and the copy freed.
Restore(p) ==
    IF p # NoSlot /\ saved[p] # NoCopy
    THEN /\ memory' = PutBack(p)
         /\ saved' = [saved EXCEPT ![p] = NoCopy]
    ELSE UNCHANGED <<memory, saved>>

\* sched_exit makes a parent ready that waits in vfork for another child.
WakesEarly ==
    \E s \in Slots :
        /\ state[s] = "BLOCKED"
        /\ cont[s].op = "vfork"
        /\ cont[s].pid # id[current]

Exit ==
    /\ sys_exit
    /\ Restore(parent[current])
    /\ spoiled' = (spoiled \/ WakesEarly)
    /\ UNCHANGED <<parent, span, image>>

-----------------------------------------------------------------------------

\* The calls that touch no program.
Other ==
    /\ \/ kmain_idle \/ kmain_idle_tick \/ kmain_resched
       \/ sched_yield \/ sched_block
       \/ \E s \in Slots : sched_unblock(s)
       \/ sys_vfork_return
       \/ \E pid \in Pids : sys_waitpid(pid)
       \/ sched_timer_tick \/ kernel_panic
    /\ UNCHANGED imageVars

ProcessNext == Spawn \/ Vfork \/ sys_execve \/ execelf \/ Exit \/ Other

ProcessSpec == ProcessInit /\ [][ProcessNext]_allVars

\* A bound for model checking: what follows the loss of a program is left to
\* the proofs about the task table, which do not look at programs.
Unspoiled == ~spoiled

-----------------------------------------------------------------------------
(* Properties                                                               *)

\* A task that executes a program finds that program in memory: what a vfork
\* child loads on top of its parent is gone again when the parent goes on.
\* The exceptions are those that the code does not guard against: an exit that
\* wakes a vfork parent before its child is done (scheduler.c:222), a program
\* loaded over a parent of which there is no whole copy, because the heap had no
\* room for it (elf.c:137), execelf recorded no span (shell.c:791) or a rejected
\* file left its own (elf.c:154), and a program that fails to load half way
\* (elf.c:50, 66).
RunsOwnProgram ==
    ~spoiled /\ InUserCode /\ image[current] # NoPid => memory = image[current]

\* A copy is kept exactly as long as it is needed, for a parent that is
\* suspended in vfork under a child that lives, and it was taken of the program
\* that the parent executes.  That program is still in memory, or a copy of all
\* of it exists.
SavedForSuspended ==
    ~spoiled =>
        \A s \in Slots :
            saved[s] # NoCopy =>
                /\ saved[s].of = image[s]
                /\ \/ memory = image[s]
                   \/ \E t \in Slots : saved[t] = [of |-> image[s], span |-> "covers"]
                /\ state[s] = "BLOCKED"
                /\ \E c \in Slots :
                      parent[c] = s /\ IsThread(c, cont[s].pid) /\ Alive(id[c])

\* The parent of a vfork stays blocked until the child exits or executes a
\* program of its own.
VforkParentWaits ==
    \A s, c \in Slots :
        /\ cont[s].op = "vfork"
        /\ IsThread(c, cont[s].pid)
        /\ state[c] # "TERMINATED"
        /\ image[c] # id[c]
        => state[s] = "BLOCKED"
=============================================================================
