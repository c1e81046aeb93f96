------------------------------ MODULE Scheduler ------------------------------
(***************************************************************************)
(* The cooperative round-robin scheduler of core/scheduler.c, the process  *)
(* calls of core/syscall.c that are built on it (vfork, waitpid, exit) and  *)
(* the idle loop of core/virt_main.c that feeds the software watchdog.      *)
(*                                                                         *)
(* One CPU executes one task at a time.  A task gives the CPU up only in    *)
(* sched_schedule: when it yields, blocks, exits, or polls the timer and    *)
(* finds a tick due.  The code between two such points is one action.       *)
(***************************************************************************)
EXTENDS Integers, FiniteSets

CONSTANTS MAX_TASKS,               \* length of g_tasks
          WATCHDOG_TIMEOUT_TICKS,  \* silent ticks the watchdog tolerates
          PID_LIMIT                \* bound: pids handed out stay below it

ASSUME MaxTasksAssumption == MAX_TASKS \in Nat \ {0, 1}
ASSUME WatchdogAssumption == WATCHDOG_TIMEOUT_TICKS \in Nat \ {0}
ASSUME PidLimitAssumption == PID_LIMIT \in Nat \ {0, 1}

VARIABLES state,     \* g_tasks[i].state
          id,        \* g_tasks[i].id
          cont,      \* where the task continues when it is switched to
          current,   \* g_current_task, as an index of g_tasks
          next_pid,  \* g_next_pid
          idlePc,    \* where task 0 is in kmain
          fed,       \* g_watchdog_counter # last_counter
          ticks,     \* ticks_since_update
          panicked   \* kernel_panic has been entered

vars == <<state, id, cont, current, next_pid, idlePc, fed, ticks, panicked>>

watchdogVars == <<fed, ticks, panicked>>

Slots == 0 .. MAX_TASKS - 1
Idle == 0
Pids == 0 .. PID_LIMIT - 1
NoPid == -1

States == {"UNUSED", "READY", "RUNNING", "BLOCKED", "TERMINATED"}

\* The kernel code a task is suspended in.
UserCode == [op |-> "user", pid |-> NoPid]
InWaitpid(pid) == [op |-> "waitpid", pid |-> pid]
InVfork(child) == [op |-> "vfork", pid |-> child]

TypeOK ==
    /\ state \in [Slots -> States]
    /\ id \in [Slots -> Pids]
    /\ cont \in [Slots -> [op : {"user", "waitpid", "vfork"},
                           pid : Pids \cup {NoPid}]]
    /\ current \in Slots
    /\ next_pid \in 1 .. PID_LIMIT
    /\ idlePc \in {"boot", "loop", "resched"}
    /\ fed \in BOOLEAN
    /\ ticks \in 0 .. WATCHDOG_TIMEOUT_TICKS
    /\ panicked \in BOOLEAN

-----------------------------------------------------------------------------
(* Initial state: sched_init has made the boot context task 0.              *)

Init ==
    /\ state = [s \in Slots |-> IF s = Idle THEN "RUNNING" ELSE "UNUSED"]
    /\ id = [s \in Slots |-> 0]
    /\ cont = [s \in Slots |-> UserCode]
    /\ current = Idle
    /\ next_pid = 1
    /\ idlePc = "boot"
    /\ fed = FALSE
    /\ ticks = 0
    /\ panicked = FALSE

-----------------------------------------------------------------------------
(* sched_schedule                                                           *)

\* Mutant: the scan starts at slot s itself.
ScanFromSelf(s, t) == IF t >= s THEN t - s ELSE t - s + MAX_TASKS

\* The length of the scan that starts behind slot s until it meets slot t.
ScanDistance(s, t) == IF t > s THEN t - s ELSE t - s + MAX_TASKS

Runnable(st, s) == st[s] \in {"READY", "RUNNING"}

\* t is the first runnable slot the scan meets.
IsNext(st, t) ==
    /\ Runnable(st, t)
    /\ \A u \in Slots :
          Runnable(st, u) => ScanDistance(current, t) =< ScanDistance(current, u)

\* Mutant: the task that is switched away from stays RUNNING.
StaysRunning(st) == st

\* What becomes of the state of the task that is switched away from.
SwitchedOut(st) == IF st = "RUNNING" THEN "READY" ELSE st

\* sched_schedule called with the task states st: switch to the next
\* runnable task.  Without one the code spins for ever, and so this formula
\* has no step.
sched_schedule(st) ==
    \E next \in Slots :
        /\ IsNext(st, next)
        /\ current' = next
        /\ state' = IF next = current
                    THEN st
                    ELSE [st EXCEPT ![current] = SwitchedOut(@),
                                    ![next] = "RUNNING"]

-----------------------------------------------------------------------------
(* Threads                                                                  *)

\* s is the slot sched_create_thread takes: the first unused one.
FirstUnused(s) ==
    /\ state[s] = "UNUSED"
    /\ \A u \in Slots : state[u] = "UNUSED" => s =< u

\* Mutant: the pid counter is not advanced.
SamePid == next_pid

\* The value g_next_pid++ leaves behind.
AdvancedPid == next_pid + 1

\* sched_create_thread in slot s, on a table entry that the caller finds
\* READY.  The capability table of the thread is IpcCaps's.
sched_create_thread(s) ==
    /\ next_pid < PID_LIMIT
    /\ FirstUnused(s)
    /\ id' = [id EXCEPT ![s] = next_pid]
    /\ next_pid' = AdvancedPid

\* The new thread joins the round robin, to start at its entry function.
Enlist(s) ==
    /\ state' = [state EXCEPT ![s] = "READY"]
    /\ cont' = [cont EXCEPT ![s] = UserCode]

\* sched_get_thread_by_id finds slot s.
IsThread(s, pid) == state[s] # "UNUSED" /\ id[s] = pid

\* The running task executes code of its own, not kmain.
InUserCode ==
    /\ ~panicked
    /\ current # Idle
    /\ cont[current] = UserCode

\* os_spawn_task, with a free slot.
os_spawn_task ==
    /\ InUserCode
    /\ \E s \in Slots : sched_create_thread(s) /\ Enlist(s)
    /\ UNCHANGED <<current, idlePc, watchdogVars>>

sched_yield ==
    /\ InUserCode
    /\ sched_schedule(state)
    /\ UNCHANGED <<id, cont, next_pid, idlePc, watchdogVars>>

sched_block ==
    /\ InUserCode
    /\ sched_schedule([state EXCEPT ![current] = "BLOCKED"])
    /\ UNCHANGED <<id, cont, next_pid, idlePc, watchdogVars>>

\* Called for a thread that sits in sched_block.
sched_unblock(s) ==
    /\ InUserCode
    /\ cont[s] = UserCode
    /\ state[s] = "BLOCKED"
    /\ state' = [state EXCEPT ![s] = "READY"]
    /\ UNCHANGED <<id, cont, current, next_pid, idlePc, watchdogVars>>

-----------------------------------------------------------------------------
(* Processes                                                                *)

\* Mutant: an exit wakes nobody.
LeftAsleep(st) == st

\* sched_exit's "wake up parent if waiting", as it treats every other task.
Woken(st) == IF st = "BLOCKED" THEN "READY" ELSE st

\* sys_exit and sched_exit: every blocked task is made ready, not only a
\* parent that waits for this one.
sys_exit ==
    /\ InUserCode
    /\ sched_schedule([s \in Slots |->
                          IF s = current THEN "TERMINATED" ELSE Woken(state[s])])
    /\ UNCHANGED <<id, cont, next_pid, idlePc, watchdogVars>>

\* sys_vfork: the child is created and switched to behind the scheduler's
\* back, and the parent is left blocked.
sys_vfork ==
    /\ InUserCode
    /\ \E child \in Slots :
          /\ sched_create_thread(child)
          /\ cont' = [cont EXCEPT ![child] = UserCode,
                                  ![current] = InVfork(next_pid)]
          /\ state' = [state EXCEPT ![current] = "BLOCKED", ![child] = "RUNNING"]
          /\ current' = child
    /\ UNCHANGED <<idlePc, watchdogVars>>

\* The parent is scheduled again and sys_vfork returns the child's pid.
sys_vfork_return ==
    /\ ~panicked
    /\ cont[current].op = "vfork"
    /\ cont' = [cont EXCEPT ![current] = UserCode]
    /\ UNCHANGED <<state, id, current, next_pid, idlePc, watchdogVars>>

\* Mutant: a thread that is still alive can be reaped.
ReapableAnyway(s) == state[s] \in {"TERMINATED", "READY"}

\* waitpid may reap the thread in slot s.
Reapable(s) == state[s] = "TERMINATED"

\* One turn of the loop in sys_waitpid, entered from user code or resumed.
sys_waitpid(pid) ==
    /\ ~panicked
    /\ current # Idle
    /\ cont[current] \in {UserCode, InWaitpid(pid)}
    /\ \/ /\ \A s \in Slots : ~IsThread(s, pid)
          /\ cont' = [cont EXCEPT ![current] = UserCode]
          /\ UNCHANGED <<state, current>>
       \/ /\ \E s \in Slots :
                /\ IsThread(s, pid)
                /\ Reapable(s)
                /\ state' = [state EXCEPT ![s] = "UNUSED"]
          /\ cont' = [cont EXCEPT ![current] = UserCode]
          /\ UNCHANGED current
       \/ /\ \E s \in Slots : IsThread(s, pid) /\ ~Reapable(s)
          /\ cont' = [cont EXCEPT ![current] = InWaitpid(pid)]
          /\ sched_schedule([state EXCEPT ![current] = "BLOCKED"])
    /\ UNCHANGED <<id, next_pid, idlePc, watchdogVars>>

-----------------------------------------------------------------------------
(* Timer tick and watchdog                                                  *)

\* Mutant: the watchdog tolerates one silent tick more.
ExpiresLate == ~fed /\ ticks > WATCHDOG_TIMEOUT_TICKS

\* Mutant: the watchdog tolerates one silent tick less.
ExpiresEarly == ~fed /\ ticks + 1 >= WATCHDOG_TIMEOUT_TICKS

\* This tick is one silent tick too many.
WatchdogExpired == ~fed /\ ticks + 1 > WATCHDOG_TIMEOUT_TICKS

\* sched_timer_tick, when the task that runs polls the timer and a tick is
\* due.  kernel_panic does not return.
sched_timer_tick ==
    /\ InUserCode
    /\ \/ /\ WatchdogExpired
          /\ panicked' = TRUE
          /\ UNCHANGED <<state, current, fed, ticks>>
       \/ /\ ~WatchdogExpired
          /\ ticks' = IF fed THEN 0 ELSE ticks + 1
          /\ fed' = FALSE
          /\ sched_schedule(state)
          /\ UNCHANGED panicked
    /\ UNCHANGED <<id, cont, next_pid, idlePc>>

\* The CPU is halted for good: a step that changes nothing, for the modules that
\* let the watchdog expire.
kernel_panic == panicked /\ UNCHANGED vars

-----------------------------------------------------------------------------
(* Task 0: the end of kmain                                                 *)

AtIdle(pc) == ~panicked /\ current = Idle /\ idlePc = pc

\* sage_execute_init spawns the supervisor, pid 1.
sage_execute_init ==
    /\ AtIdle("boot")
    /\ \E s \in Slots : sched_create_thread(s) /\ Enlist(s)
    /\ idlePc' = "loop"
    /\ UNCHANGED <<current, watchdogVars>>

\* One turn of the idle loop with no tick due: feed the watchdog, schedule.
kmain_idle ==
    /\ AtIdle("loop")
    /\ fed' = TRUE
    /\ sched_schedule(state)
    /\ UNCHANGED <<id, cont, next_pid, idlePc, ticks, panicked>>

\* The same with a tick due: timer_idle_poll reaches sched_timer_tick, which
\* sees the watchdog just fed and yields.
kmain_idle_tick ==
    /\ AtIdle("loop")
    /\ fed' = FALSE
    /\ ticks' = 0
    /\ sched_schedule(state)
    /\ idlePc' = "resched"
    /\ UNCHANGED <<id, cont, next_pid, panicked>>

\* Back from timer_idle_poll, the loop calls sched_schedule a second time.
kmain_resched ==
    /\ AtIdle("resched")
    /\ sched_schedule(state)
    /\ idlePc' = "loop"
    /\ UNCHANGED <<id, cont, next_pid, watchdogVars>>

-----------------------------------------------------------------------------

kmain == sage_execute_init \/ kmain_idle \/ kmain_idle_tick \/ kmain_resched

\* Everything but vfork, which alone bypasses the round-robin order.
CoreNext ==
    \/ kmain
    \/ os_spawn_task
    \/ sched_yield
    \/ sched_block
    \/ \E s \in Slots : sched_unblock(s)
    \/ sys_exit
    \/ \E pid \in Pids : sys_waitpid(pid)
    \/ sched_timer_tick

Next == CoreNext \/ sys_vfork \/ sys_vfork_return

Spec == Init /\ [][Next]_vars

CoreSpec == Init /\ [][CoreNext]_vars

\* kmain never waits, the timer ticks a hundred times a second and a task that
\* does not give the CPU up polls it (metal_vm.c:1209, virt_keyboard.c:18), and a
\* task that is switched to inside waitpid goes on with its loop.
WaitpidResumes == cont[current].op = "waitpid" /\ \E pid \in Pids : sys_waitpid(pid)

Fairness ==
    /\ WF_vars(kmain)
    /\ WF_vars(sched_timer_tick)
    /\ WF_vars(WaitpidResumes)

FairCoreSpec == CoreSpec /\ Fairness

-----------------------------------------------------------------------------
(* Properties                                                               *)

\* The task table and g_current_task agree: the current task, and no other,
\* is marked RUNNING, whatever mix of yields, blocks, exits, vforks and ticks
\* led here.
OneRunning ==
    /\ state[current] = "RUNNING"
    /\ \A s \in Slots : state[s] = "RUNNING" => s = current

\* sched_get_thread_by_id is unambiguous: two threads of the table never have
\* the same id, and ids stay below the next one to be handed out.
UniqueIds ==
    /\ \A s \in Slots : state[s] # "UNUSED" => id[s] < next_pid
    /\ \A s, t \in Slots :
          state[s] # "UNUSED" /\ state[t] # "UNUSED" /\ id[s] = id[t] => s = t

Alive(pid) == \E s \in Slots : IsThread(s, pid) /\ state[s] # "TERMINATED"

\* waitpid misses no exit: a task that is blocked in it waits for a thread
\* that has not exited yet, however the exit, other waiters on the same pid,
\* reaping and the reuse of the slot were interleaved.
NoLostExit ==
    \A s \in Slots :
        cont[s].op = "waitpid" /\ state[s] = "BLOCKED" => Alive(cont[s].pid)

\* The watchdog does not stop a system whose tasks all keep reaching the
\* scheduler.
NoFalsePanic == ~panicked

\* A runnable task gets the CPU: no interleaving of the others' calls keeps
\* the round-robin scan away from it for ever.
NoStarvation == \A s \in Slots : state[s] = "READY" ~> current = s

\* The stage of each process id, read off the task table.
lifeOf ==
    [p \in Pids |->
        IF \E s \in Slots : IsThread(s, p) /\ state[s] = "TERMINATED" THEN "zombie"
        ELSE IF \E s \in Slots : IsThread(s, p) THEN "alive"
        ELSE IF p >= next_pid THEN "unborn" ELSE "reaped"]

PL == INSTANCE PidLifecycle WITH life <- lifeOf

\* The task table implements the life cycle of process ids.
ImplementsPidLifecycle == PL!LifeSpec
=============================================================================
