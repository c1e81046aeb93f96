--------------------------- MODULE SchedulerProofs ---------------------------
(***************************************************************************)
(* Proofs, for every size of the task table, that the scheduler keeps the   *)
(* task table consistent, that waitpid misses no exit, and that the         *)
(* watchdog is safe with round-robin scheduling.                            *)
(***************************************************************************)
EXTENDS Scheduler, TLAPS

-----------------------------------------------------------------------------
(* The inductive invariant                                                  *)

\* Task 0 is never blocked, never exits and is never recycled.
IdleRunnable == Runnable(state, Idle) /\ cont[Idle] = UserCode

SchedInv == TypeOK /\ IdleRunnable /\ OneRunning /\ UniqueIds /\ NoLostExit

USE DEF Slots, Idle, Pids, NoPid, States, UserCode, InWaitpid, InVfork

\* What sched_schedule does to the states st it is called with: it makes the
\* next task RUNNING, and otherwise only moves tasks between READY and
\* RUNNING.
LEMMA ScheduleEffect ==
    ASSUME NEW st \in [Slots -> States],
           current \in Slots,
           st[current] # "READY",
           \A s \in Slots : st[s] = "RUNNING" => s = current,
           sched_schedule(st)
    PROVE  /\ current' \in Slots
           /\ state' \in [Slots -> States]
           /\ Runnable(st, current')
           /\ state'[current'] = "RUNNING"
           /\ \A s \in Slots : state'[s] = "RUNNING" => s = current'
           /\ \A s \in Slots : Runnable(state', s) <=> Runnable(st, s)
           /\ \A s \in Slots : ~Runnable(st, s) => state'[s] = st[s]
<1>1. PICK next \in Slots :
          /\ Runnable(st, next)
          /\ current' = next
          /\ state' = IF next = current
                      THEN st
                      ELSE [st EXCEPT ![current] = SwitchedOut(@),
                                      ![next] = "RUNNING"]
  BY DEF sched_schedule, IsNext
<1>2. CASE next = current
  BY <1>1, <1>2 DEF Runnable
<1>3. CASE next # current
  BY <1>1, <1>3 DEF Runnable, SwitchedOut
<1>. QED BY <1>2, <1>3

LEMMA InitInv == Init => SchedInv
<1>. SUFFICES ASSUME Init PROVE SchedInv
  OBVIOUS
<1>. USE MaxTasksAssumption, WatchdogAssumption, PidLimitAssumption
<1>1. TypeOK
  <2>1. state \in [Slots -> States] /\ id \in [Slots -> Pids]
    BY DEF Init
  <2>2. cont \in [Slots -> [op : {"user", "waitpid", "vfork"},
                            pid : Pids \cup {NoPid}]]
    BY DEF Init
  <2>3. /\ current \in Slots
        /\ next_pid \in 1 .. PID_LIMIT
        /\ idlePc \in {"boot", "loop", "resched"}
        /\ ticks \in 0 .. WATCHDOG_TIMEOUT_TICKS
    BY DEF Init
  <2>4. fed \in BOOLEAN /\ panicked \in BOOLEAN
    BY Zenon DEF Init
  <2>. QED BY <2>1, <2>2, <2>3, <2>4 DEF TypeOK
<1>2. IdleRunnable
  BY DEF Init, IdleRunnable, Runnable
<1>3. OneRunning /\ UniqueIds /\ NoLostExit
  BY DEF Init, OneRunning, UniqueIds, NoLostExit
<1>. QED BY <1>1, <1>2, <1>3 DEF SchedInv

-----------------------------------------------------------------------------
(* The step                                                                 *)

ContType == [op : {"user", "waitpid", "vfork"}, pid : Pids \cup {NoPid}]

\* The part of the type invariant that is about the task table.
TableType ==
    /\ state \in [Slots -> States]
    /\ id \in [Slots -> Pids]
    /\ cont \in [Slots -> ContType]
    /\ current \in Slots
    /\ next_pid \in 1 .. PID_LIMIT

\* The part that is about the idle loop and the watchdog.
RestType ==
    /\ idlePc \in {"boot", "loop", "resched"}
    /\ fed \in BOOLEAN
    /\ ticks \in 0 .. WATCHDOG_TIMEOUT_TICKS
    /\ panicked \in BOOLEAN

TableInv == TableType /\ IdleRunnable /\ OneRunning /\ UniqueIds /\ NoLostExit

LEMMA InvParts == SchedInv <=> TableInv /\ RestType
BY DEF SchedInv, TableInv, TypeOK, TableType, RestType, ContType

\* An action that ends in sched_schedule(st) preserves the invariant of the
\* table when st satisfies it, RUNNING being left only to the current task.
LEMMA ScheduleKeepsTableInv ==
    ASSUME TableInv,
           NEW st \in [Slots -> States],
           st[current] # "READY",
           \A s \in Slots : st[s] = "RUNNING" => s = current,
           Runnable(st, Idle),
           \A s \in Slots : st[s] = "UNUSED" <=> state[s] = "UNUSED",
           cont' \in [Slots -> ContType],
           cont'[Idle] = UserCode,
           \A s \in Slots : cont'[s].op = "waitpid" /\ st[s] = "BLOCKED"
              => \E t \in Slots : /\ st[t] \notin {"UNUSED", "TERMINATED"}
                                  /\ id[t] = cont'[s].pid,
           sched_schedule(st),
           UNCHANGED <<id, next_pid>>
    PROVE  TableInv'
<1>. current \in Slots
  BY DEF TableInv, TableType
<1>1. /\ current' \in Slots
      /\ state' \in [Slots -> States]
      /\ state'[current'] = "RUNNING"
      /\ \A s \in Slots : state'[s] = "RUNNING" => s = current'
      /\ \A s \in Slots : Runnable(state', s) <=> Runnable(st, s)
      /\ \A s \in Slots : ~Runnable(st, s) => state'[s] = st[s]
  BY ScheduleEffect
<1>2. TableType'
  BY <1>1 DEF TableInv, TableType
<1>3. IdleRunnable'
  BY <1>1, MaxTasksAssumption DEF IdleRunnable, Runnable
<1>4. OneRunning'
  BY <1>1 DEF OneRunning
<1>5. \A s \in Slots : state'[s] = "UNUSED" <=> state[s] = "UNUSED"
  BY <1>1 DEF Runnable
<1>6. UniqueIds'
  BY <1>5 DEF TableInv, UniqueIds
<1>7. NoLostExit'
  <2>. SUFFICES ASSUME NEW s \in Slots, cont'[s].op = "waitpid", state'[s] = "BLOCKED"
                PROVE  Alive(cont[s].pid)'
    BY DEF NoLostExit
  <2>1. st[s] = "BLOCKED"
    BY <1>1 DEF Runnable
  <2>2. PICK t \in Slots : st[t] \notin {"UNUSED", "TERMINATED"} /\ id[t] = cont'[s].pid
    BY <2>1
  <2>3. state'[t] \notin {"UNUSED", "TERMINATED"}
    BY <1>1, <2>2 DEF Runnable
  <2>. QED BY <2>2, <2>3 DEF Alive, IsThread
<1>. QED BY <1>2, <1>3, <1>4, <1>6, <1>7 DEF TableInv

\* sched_create_thread for a thread that joins the round robin.
LEMMA EnlistKeepsTableInv ==
    ASSUME TableInv,
           NEW s \in Slots,
           sched_create_thread(s),
           Enlist(s),
           UNCHANGED current
    PROVE  TableInv'
<1>. USE MaxTasksAssumption, PidLimitAssumption DEF sched_create_thread, Enlist, FirstUnused, AdvancedPid
<1>1. TableType'
  BY DEF TableInv, TableType, ContType
<1>2. s # Idle
  BY DEF TableInv, IdleRunnable, Runnable
<1>3. IdleRunnable'
  BY <1>2 DEF TableInv, TableType, IdleRunnable, Runnable
<1>4. OneRunning'
  BY DEF TableInv, TableType, OneRunning
<1>5. UniqueIds'
  <2>1. \A u \in Slots : state[u] # "UNUSED" => id[u] < next_pid
    BY DEF TableInv, UniqueIds
  <2>2. next_pid \in Nat /\ next_pid' = next_pid + 1 /\ id \in [Slots -> Pids]
    BY DEF TableInv, TableType, Pids
  <2>3. id' = [id EXCEPT ![s] = next_pid] /\ state' = [state EXCEPT ![s] = "READY"]
    OBVIOUS
  <2>4. \A u \in Slots : /\ id'[u] = IF u = s THEN next_pid ELSE id[u]
                         /\ state'[u] = IF u = s THEN "READY" ELSE state[u]
    BY <2>3 DEF TableInv, TableType
  <2>5. \A u \in Slots : state'[u] # "UNUSED" => id'[u] < next_pid'
    BY <2>1, <2>2, <2>4
  <2>6. \A u, v \in Slots :
           state'[u] # "UNUSED" /\ state'[v] # "UNUSED" /\ id'[u] = id'[v] => u = v
    BY <2>1, <2>2, <2>4 DEF TableInv, UniqueIds
  <2>. QED BY <2>5, <2>6 DEF UniqueIds
<1>6. NoLostExit'
  <2>. SUFFICES ASSUME NEW u \in Slots, cont'[u].op = "waitpid", state'[u] = "BLOCKED"
                PROVE  Alive(cont[u].pid)'
    BY DEF NoLostExit
  <2>1. u # s /\ cont[u].op = "waitpid" /\ state[u] = "BLOCKED" /\ cont'[u] = cont[u]
    BY DEF TableInv, TableType
  <2>2. PICK t \in Slots : IsThread(t, cont[u].pid) /\ state[t] # "TERMINATED"
    BY <2>1 DEF TableInv, NoLostExit, Alive
  <2>3. t # s
    BY <2>2 DEF IsThread
  <2>. QED BY <2>1, <2>2, <2>3 DEF Alive, IsThread, TableInv, TableType
<1>. QED BY <1>1, <1>3, <1>4, <1>5, <1>6 DEF TableInv

LEMMA TableStep == TableInv /\ [Next]_vars => TableInv'
<1>. SUFFICES ASSUME TableInv, [Next]_vars PROVE TableInv'
  OBVIOUS
<1>. USE MaxTasksAssumption
<1>. /\ state \in [Slots -> States] /\ id \in [Slots -> Pids]
     /\ cont \in [Slots -> ContType] /\ current \in Slots /\ next_pid \in 1 .. PID_LIMIT
  BY DEF TableInv, TableType
<1>. /\ state[current] = "RUNNING"
     /\ \A s \in Slots : state[s] = "RUNNING" => s = current
  BY DEF TableInv, OneRunning
<1>. Runnable(state, Idle) /\ cont[Idle] = UserCode /\ Idle \in Slots
  BY DEF TableInv, IdleRunnable
<1>0. \A s \in Slots : cont[s].op = "waitpid" /\ state[s] = "BLOCKED"
        => \E t \in Slots : /\ state[t] \notin {"UNUSED", "TERMINATED"}
                            /\ id[t] = cont[s].pid
  BY DEF TableInv, NoLostExit, Alive, IsThread
<1>1. ASSUME sched_schedule(state), UNCHANGED <<id, cont, next_pid>>
      PROVE  TableInv'
  BY <1>0, <1>1, ScheduleKeepsTableInv
<1>2. CASE kmain
  <2>1. CASE sage_execute_init
    BY <2>1, EnlistKeepsTableInv DEF sage_execute_init
  <2>2. CASE kmain_idle \/ kmain_idle_tick \/ kmain_resched
    BY <1>1, <2>2 DEF kmain_idle, kmain_idle_tick, kmain_resched
  <2>. QED BY <1>2, <2>1, <2>2 DEF kmain
<1>3. CASE os_spawn_task
  BY <1>3, EnlistKeepsTableInv DEF os_spawn_task
<1>4. CASE sched_yield
  BY <1>1, <1>4 DEF sched_yield
<1>5. CASE sched_block
  <2>. DEFINE st == [state EXCEPT ![current] = "BLOCKED"]
  <2>1. current # Idle /\ cont[current] = UserCode /\ sched_schedule(st)
        /\ UNCHANGED <<id, cont, next_pid>>
    BY <1>5 DEF sched_block, InUserCode
  <2>2. st \in [Slots -> States] /\ Runnable(st, Idle)
    BY <2>1 DEF Runnable
  <2>3. \A s \in Slots : cont'[s].op = "waitpid" /\ st[s] = "BLOCKED"
          => \E t \in Slots : /\ st[t] \notin {"UNUSED", "TERMINATED"}
                              /\ id[t] = cont'[s].pid
    BY <1>0, <2>1
  <2>4. /\ st[current] # "READY"
        /\ \A s \in Slots : st[s] = "RUNNING" => s = current
        /\ \A s \in Slots : st[s] = "UNUSED" <=> state[s] = "UNUSED"
    OBVIOUS
  <2>. HIDE DEF st
  <2>. QED BY <2>1, <2>2, <2>3, <2>4, ScheduleKeepsTableInv
<1>6. ASSUME NEW s \in Slots, sched_unblock(s)
      PROVE  TableInv'
  <2>. USE <1>6 DEF sched_unblock, InUserCode
  <2>1. TableType' /\ IdleRunnable' /\ OneRunning'
    BY DEF TableType, IdleRunnable, OneRunning, Runnable
  <2>2. UniqueIds'
    BY DEF TableInv, UniqueIds
  <2>3. NoLostExit'
    BY <1>0 DEF NoLostExit, Alive, IsThread
  <2>. QED BY <2>1, <2>2, <2>3 DEF TableInv
<1>7. CASE sys_exit
  <2>. DEFINE st == [s \in Slots |-> IF s = current THEN "TERMINATED" ELSE Woken(state[s])]
  <2>1. current # Idle /\ sched_schedule(st) /\ UNCHANGED <<id, cont, next_pid>>
    BY <1>7 DEF sys_exit, InUserCode
  <2>2. st \in [Slots -> States] /\ Runnable(st, Idle)
    BY <2>1 DEF Runnable, Woken
  <2>3. \A s \in Slots : st[s] # "BLOCKED"
    BY DEF Woken
  <2>4. /\ st[current] # "READY"
        /\ \A s \in Slots : st[s] = "RUNNING" => s = current
        /\ \A s \in Slots : st[s] = "UNUSED" <=> state[s] = "UNUSED"
    BY DEF Woken
  <2>. HIDE DEF st
  <2>. QED BY <2>1, <2>2, <2>3, <2>4, ScheduleKeepsTableInv
<1>8. ASSUME NEW pid \in Pids, sys_waitpid(pid)
      PROVE  TableInv'
  <2>0. current # Idle /\ cont' \in [Slots -> ContType] /\ cont'[Idle] = UserCode
        /\ UNCHANGED <<id, next_pid>>
    <3>1. current # Idle /\ UNCHANGED <<id, next_pid>>
      BY <1>8 DEF sys_waitpid
    <3>2. \/ cont' = [cont EXCEPT ![current] = UserCode]
          \/ cont' = [cont EXCEPT ![current] = InWaitpid(pid)]
      BY <1>8 DEF sys_waitpid
    <3>3. UserCode \in ContType /\ InWaitpid(pid) \in ContType
      BY DEF ContType
    <3>. QED BY <3>1, <3>2, <3>3
  <2>1. CASE /\ \A s \in Slots : ~IsThread(s, pid)
             /\ cont' = [cont EXCEPT ![current] = UserCode]
             /\ UNCHANGED <<state, current>>
    <3>1. TableType' /\ IdleRunnable' /\ OneRunning'
      BY <2>0, <2>1 DEF TableType, IdleRunnable, OneRunning, Runnable
    <3>2. UniqueIds' /\ NoLostExit'
      BY <1>0, <2>0, <2>1 DEF TableInv, UniqueIds, NoLostExit, Alive, IsThread
    <3>. QED BY <3>1, <3>2 DEF TableInv
  <2>2. CASE /\ \E s \in Slots :
                   /\ IsThread(s, pid)
                   /\ Reapable(s)
                   /\ state' = [state EXCEPT ![s] = "UNUSED"]
             /\ cont' = [cont EXCEPT ![current] = UserCode]
             /\ UNCHANGED current
    <3>1. PICK z \in Slots : state[z] = "TERMINATED" /\ state' = [state EXCEPT ![z] = "UNUSED"]
      BY <2>2 DEF Reapable
    <3>2. TableType' /\ IdleRunnable' /\ OneRunning'
      BY <2>0, <2>2, <3>1 DEF TableType, IdleRunnable, OneRunning, Runnable
    <3>3. UniqueIds'
      BY <2>0, <3>1 DEF TableInv, UniqueIds
    <3>4. NoLostExit'
      <4>. SUFFICES ASSUME NEW s \in Slots, cont'[s].op = "waitpid", state'[s] = "BLOCKED"
                    PROVE  Alive(cont[s].pid)'
        BY DEF NoLostExit
      <4>1. cont'[s] = cont[s] /\ state[s] = "BLOCKED"
        BY <2>2, <3>1
      <4>2. PICK t \in Slots : state[t] \notin {"UNUSED", "TERMINATED"} /\ id[t] = cont[s].pid
        BY <1>0, <4>1
      <4>3. state'[t] = state[t] /\ id'[t] = id[t]
        BY <2>0, <3>1, <4>2
      <4>. QED BY <4>1, <4>2, <4>3 DEF Alive, IsThread
    <3>. QED BY <3>2, <3>3, <3>4 DEF TableInv
  <2>3. CASE /\ \E s \in Slots : IsThread(s, pid) /\ ~Reapable(s)
             /\ cont' = [cont EXCEPT ![current] = InWaitpid(pid)]
             /\ sched_schedule([state EXCEPT ![current] = "BLOCKED"])
    <3>. DEFINE st == [state EXCEPT ![current] = "BLOCKED"]
    <3>1. st \in [Slots -> States] /\ Runnable(st, Idle)
      BY <2>0 DEF Runnable
    <3>2. PICK t \in Slots : id[t] = pid /\ st[t] \notin {"UNUSED", "TERMINATED"}
      BY <2>3 DEF IsThread, Reapable
    <3>3. \A s \in Slots : cont'[s].op = "waitpid" /\ st[s] = "BLOCKED"
            => \E u \in Slots : /\ st[u] \notin {"UNUSED", "TERMINATED"}
                                /\ id[u] = cont'[s].pid
      <4>. SUFFICES ASSUME NEW s \in Slots, cont'[s].op = "waitpid", st[s] = "BLOCKED"
                    PROVE  \E u \in Slots : /\ st[u] \notin {"UNUSED", "TERMINATED"}
                                            /\ id[u] = cont'[s].pid
        OBVIOUS
      <4>1. CASE s = current
        BY <2>3, <3>2, <4>1
      <4>2. CASE s # current
        BY <1>0, <2>3, <4>2
      <4>. QED BY <4>1, <4>2
    <3>4. /\ st[current] # "READY"
          /\ \A s \in Slots : st[s] = "RUNNING" => s = current
          /\ \A s \in Slots : st[s] = "UNUSED" <=> state[s] = "UNUSED"
      OBVIOUS
    <3>5. sched_schedule(st)
      BY <2>3
    <3>. HIDE DEF st
    <3>. QED BY <2>0, <3>1, <3>3, <3>4, <3>5, ScheduleKeepsTableInv
  <2>. QED BY <1>8, <2>1, <2>2, <2>3 DEF sys_waitpid
<1>9. CASE sched_timer_tick
  <2>1. CASE UNCHANGED <<state, current, id, cont, next_pid>>
    BY <2>1 DEF TableInv, TableType, IdleRunnable, OneRunning, UniqueIds, NoLostExit,
                Runnable, Alive, IsThread
  <2>2. CASE sched_schedule(state) /\ UNCHANGED <<id, cont, next_pid>>
    BY <1>1, <2>2
  <2>. QED BY <1>9, <2>1, <2>2 DEF sched_timer_tick
<1>10. CASE UNCHANGED vars
  BY <1>10 DEF vars, TableInv, TableType, IdleRunnable, OneRunning, UniqueIds, NoLostExit,
               Runnable, Alive, IsThread
<1>11. CASE sys_vfork
  <2>1. PICK child \in Slots :
          /\ sched_create_thread(child)
          /\ cont' = [cont EXCEPT ![child] = UserCode, ![current] = InVfork(next_pid)]
          /\ state' = [state EXCEPT ![current] = "BLOCKED", ![child] = "RUNNING"]
          /\ current' = child
    BY <1>11 DEF sys_vfork
  <2>. USE <2>1, PidLimitAssumption DEF sched_create_thread, FirstUnused, AdvancedPid
  <2>2. current # Idle /\ child # Idle /\ child # current
    BY <1>11 DEF sys_vfork, InUserCode, Runnable
  <2>3. TableType'
    <3>1. next_pid \in Pids /\ next_pid' \in 1 .. PID_LIMIT
      OBVIOUS
    <3>2. cont' \in [Slots -> ContType]
      BY <3>1 DEF ContType
    <3>3. state' \in [Slots -> States] /\ id' \in [Slots -> Pids] /\ current' \in Slots
      BY <3>1
    <3>. QED BY <3>1, <3>2, <3>3 DEF TableType
  <2>4. IdleRunnable' /\ OneRunning'
    BY <2>2 DEF IdleRunnable, OneRunning, Runnable
  <2>5. UniqueIds'
    <3>1. \A s \in Slots \ {child} : /\ id'[s] = id[s]
                                     /\ state'[s] = "UNUSED" <=> state[s] = "UNUSED"
      BY <2>2
    <3>2. id'[child] = next_pid /\ next_pid' = next_pid + 1
      OBVIOUS
    <3>3. UniqueIds
      BY DEF TableInv
    <3>4. ASSUME NEW s \in Slots, state'[s] # "UNUSED"
          PROVE  id'[s] < next_pid'
      BY <3>1, <3>2, <3>3, <3>4 DEF UniqueIds
    <3>5. ASSUME NEW s \in Slots, NEW t \in Slots,
                 state'[s] # "UNUSED", state'[t] # "UNUSED", id'[s] = id'[t]
          PROVE  s = t
      BY <3>1, <3>2, <3>3, <3>5 DEF UniqueIds
    <3>. QED BY <3>4, <3>5 DEF UniqueIds
  <2>6. NoLostExit'
    <3>. SUFFICES ASSUME NEW s \in Slots, cont'[s].op = "waitpid", state'[s] = "BLOCKED"
                  PROVE  Alive(cont[s].pid)'
      BY DEF NoLostExit
    <3>1. s # child /\ s # current /\ cont'[s] = cont[s] /\ state[s] = "BLOCKED"
      BY <2>2
    <3>2. PICK t \in Slots : state[t] \notin {"UNUSED", "TERMINATED"} /\ id[t] = cont[s].pid
      BY <1>0, <3>1
    <3>3. t # child /\ state'[t] \notin {"UNUSED", "TERMINATED"}
      BY <2>2, <3>2
    <3>. QED BY <3>1, <3>2, <3>3 DEF Alive, IsThread
  <2>. QED BY <2>3, <2>4, <2>5, <2>6 DEF TableInv
<1>12. CASE sys_vfork_return
  <2>1. current # Idle
    BY <1>12 DEF sys_vfork_return
  <2>2. TableType' /\ IdleRunnable' /\ OneRunning'
    BY <1>12, <2>1 DEF sys_vfork_return, TableType, ContType, IdleRunnable, OneRunning, Runnable
  <2>3. UniqueIds' /\ NoLostExit'
    BY <1>0, <1>12 DEF sys_vfork_return, TableInv, UniqueIds, NoLostExit, Alive, IsThread
  <2>. QED BY <2>2, <2>3 DEF TableInv
<1>. QED
  BY <1>2, <1>3, <1>4, <1>5, <1>6, <1>7, <1>8, <1>9, <1>10, <1>11, <1>12
     DEF Next, CoreNext

LEMMA RestStep == SchedInv /\ [Next]_vars => RestType'
<1>. SUFFICES ASSUME TableInv, RestType, [Next]_vars PROVE RestType'
  BY InvParts
<1>1. fed' \in BOOLEAN
  BY DEF RestType, Next, CoreNext, kmain, sage_execute_init, kmain_idle, kmain_idle_tick,
         kmain_resched, os_spawn_task, sched_yield, sched_block, sched_unblock, sys_exit,
         sys_waitpid, sched_timer_tick, sys_vfork, sys_vfork_return,
         watchdogVars, vars
<1>2. panicked' \in BOOLEAN
  BY DEF RestType, Next, CoreNext, kmain, sage_execute_init, kmain_idle, kmain_idle_tick,
         kmain_resched, os_spawn_task, sched_yield, sched_block, sched_unblock, sys_exit,
         sys_waitpid, sched_timer_tick, sys_vfork, sys_vfork_return,
         watchdogVars, vars
<1>3. idlePc' \in {"boot", "loop", "resched"}
  BY DEF RestType, Next, CoreNext, kmain, sage_execute_init, kmain_idle, kmain_idle_tick,
         kmain_resched, os_spawn_task, sched_yield, sched_block, sched_unblock, sys_exit,
         sys_waitpid, sched_timer_tick, sys_vfork, sys_vfork_return,
         watchdogVars, vars
<1>4. ticks' \in 0 .. WATCHDOG_TIMEOUT_TICKS
  <2>1. CASE sched_timer_tick
    BY <2>1, WatchdogAssumption DEF RestType, sched_timer_tick, WatchdogExpired
  <2>2. CASE kmain_idle_tick
    BY <2>2, WatchdogAssumption DEF kmain_idle_tick
  <2>3. CASE UNCHANGED ticks
    BY <2>3 DEF RestType
  <2>. QED
    BY <2>1, <2>2, <2>3 DEF Next, CoreNext, kmain, sage_execute_init, kmain_idle,
       kmain_resched, os_spawn_task, sched_yield, sched_block, sched_unblock, sys_exit,
       sys_waitpid, sys_vfork, sys_vfork_return, watchdogVars, vars
<1>. QED BY <1>1, <1>2, <1>3, <1>4 DEF RestType

LEMMA StepInv == SchedInv /\ [Next]_vars => SchedInv'
<1>1. SchedInv /\ [Next]_vars => TableInv' /\ RestType'
  BY TableStep, RestStep, InvParts
<1>2. TableInv' /\ RestType' => SchedInv'
  BY DEF SchedInv, TableInv, TypeOK, TableType, RestType, ContType
<1>. QED BY <1>1, <1>2

\* The task table stays consistent, with vfork and without: every variable
\* has its type, exactly the current task is RUNNING, ids are unique, and no
\* task blocked in waitpid has missed the exit it waits for.
THEOREM SchedulerInvariant == Spec => []SchedInv
<1>1. Init => SchedInv
  BY InitInv
<1>2. SchedInv /\ [Next]_vars => SchedInv'
  BY StepInv
<1>. QED BY <1>1, <1>2, PTL DEF Spec

\* Every variable of the scheduler keeps its type.
THEOREM TypeCorrect == Spec => []TypeOK
BY SchedulerInvariant, PTL DEF SchedInv

\* The current task, and only it, is RUNNING (sched_schedule, sys_vfork).
THEOREM RunningIsCurrent == Spec => []OneRunning
BY SchedulerInvariant, PTL DEF SchedInv

\* Live ids are unique (sched_create_thread, sys_waitpid).
THEOREM IdsAreUnique == Spec => []UniqueIds
BY SchedulerInvariant, PTL DEF SchedInv

\* A task blocked in sys_waitpid waits for a thread that is still alive.
THEOREM WaitpidMissesNoExit == Spec => []NoLostExit
BY SchedulerInvariant, PTL DEF SchedInv

-----------------------------------------------------------------------------
(* The watchdog under round robin                                           *)

\* With task 0 runnable, the scan moves to a higher slot or back to task 0.
LEMMA ScheduleOrder ==
    ASSUME NEW st, current \in Slots, Runnable(st, Idle), sched_schedule(st)
    PROVE  current' \in Slots /\ (current' = Idle \/ current' > current)
<1>1. PICK next \in Slots : IsNext(st, next) /\ current' = next
  BY DEF sched_schedule
<1>2. ScanDistance(current, next) =< ScanDistance(current, Idle)
  BY <1>1, MaxTasksAssumption DEF IsNext
<1>. QED BY <1>1, <1>2, MaxTasksAssumption DEF ScanDistance

\* Silent ticks are paid for by slots of the task table.  Task 0 feeds the
\* watchdog on every second visit at least, and between two visits the scan
\* only moves up.
Affordable(slot, pc, t) ==
    /\ slot = Idle /\ pc = "resched" => t =< MAX_TASKS - 1
    /\ slot = Idle /\ pc # "resched" => t =< 2 * (MAX_TASKS - 1)
    /\ slot # Idle /\ pc = "resched" => t < slot
    /\ slot # Idle /\ pc # "resched" => t < MAX_TASKS - 1 + slot

TickBound == Affordable(current, idlePc, ticks)

\* A switch from a task to a higher slot, or to task 0, affords what the task
\* afforded, and one tick more.
LEMMA SwitchAffords ==
    ASSUME NEW s \in Slots, s # Idle, NEW u \in Slots, u = Idle \/ u > s,
           NEW pc, NEW t \in Nat, Affordable(s, pc, t)
    PROVE  Affordable(u, pc, t) /\ Affordable(u, pc, t + 1)
BY MaxTasksAssumption DEF Affordable

\* The second call of sched_schedule in the idle loop opens a second round.
LEMMA SecondRoundAffords ==
    ASSUME NEW u \in Slots, NEW t \in Nat, Affordable(Idle, "resched", t)
    PROVE  Affordable(u, "loop", t)
BY MaxTasksAssumption DEF Affordable

LEMMA FreshAffords ==
    ASSUME NEW u \in Slots, NEW pc
    PROVE  Affordable(u, pc, 0)
BY MaxTasksAssumption DEF Affordable

WatchdogInv == ~panicked /\ (~fed => TickBound)

LEMMA WatchdogInit == Init => WatchdogInv
BY FreshAffords, MaxTasksAssumption DEF Init, WatchdogInv, TickBound

LEMMA WatchdogStep ==
    ASSUME 2 * (MAX_TASKS - 1) =< WATCHDOG_TIMEOUT_TICKS,
           SchedInv, WatchdogInv, [CoreNext]_vars
    PROVE  WatchdogInv'
<1>. USE MaxTasksAssumption, WatchdogAssumption
<1>. /\ current \in Slots /\ ticks \in Nat /\ idlePc \in {"boot", "loop", "resched"}
     /\ Runnable(state, Idle) /\ state \in [Slots -> States]
  BY DEF SchedInv, TypeOK, IdleRunnable
<1>0. ~panicked /\ (~fed => TickBound)
  BY DEF WatchdogInv
<1>1. ASSUME current' \in Slots, current' = Idle \/ current' > current, current # Idle,
             UNCHANGED <<idlePc, fed, ticks, panicked>>
      PROVE  WatchdogInv'
  <2>1. TickBound => TickBound'
    BY <1>1, SwitchAffords DEF TickBound
  <2>. QED BY <1>0, <1>1, <2>1 DEF WatchdogInv
<1>2. ASSUME UNCHANGED <<current, idlePc, watchdogVars>>
      PROVE  WatchdogInv'
  BY <1>2 DEF WatchdogInv, TickBound, watchdogVars
<1>3. CASE sage_execute_init
  <2>1. Affordable(Idle, "boot", ticks) => Affordable(Idle, "loop", ticks)
    BY DEF Affordable
  <2>. QED BY <1>0, <1>3, <2>1 DEF sage_execute_init, AtIdle, WatchdogInv, TickBound, watchdogVars
<1>4. CASE kmain_idle
  BY <1>0, <1>4 DEF kmain_idle, WatchdogInv
<1>5. CASE kmain_idle_tick
  <2>1. current' \in Slots
    BY <1>5, ScheduleOrder DEF kmain_idle_tick
  <2>2. TickBound'
    BY <1>5, <2>1, FreshAffords DEF kmain_idle_tick, TickBound
  <2>. QED BY <1>0, <1>5, <2>2 DEF kmain_idle_tick, WatchdogInv
<1>6. CASE kmain_resched
  <2>1. current' \in Slots
    BY <1>6, ScheduleOrder DEF kmain_resched
  <2>2. TickBound => TickBound'
    BY <1>6, <2>1, SecondRoundAffords DEF kmain_resched, AtIdle, TickBound, watchdogVars
  <2>. QED BY <1>0, <1>6, <2>2 DEF kmain_resched, WatchdogInv, watchdogVars
<1>7. CASE os_spawn_task \/ \E s \in Slots : sched_unblock(s)
  BY <1>2, <1>7 DEF os_spawn_task, sched_unblock
<1>8. CASE sched_yield \/ sched_block \/ sys_exit
  <2>1. current # Idle /\ UNCHANGED <<idlePc, watchdogVars>>
    BY <1>8 DEF sched_yield, sched_block, sys_exit, InUserCode
  <2>2. PICK st : sched_schedule(st) /\ Runnable(st, Idle)
    <3>1. Runnable([state EXCEPT ![current] = "BLOCKED"], Idle)
      BY <2>1 DEF Runnable
    <3>2. Runnable([s \in Slots |-> IF s = current THEN "TERMINATED" ELSE Woken(state[s])],
                   Idle)
      BY <2>1 DEF Runnable, Woken
    <3>. QED BY <1>8, <3>1, <3>2 DEF sched_yield, sched_block, sys_exit
  <2>3. current' \in Slots /\ (current' = Idle \/ current' > current)
    BY <2>2, ScheduleOrder
  <2>. QED BY <1>1, <2>1, <2>3 DEF watchdogVars
<1>9. ASSUME NEW pid \in Pids, sys_waitpid(pid)
      PROVE  WatchdogInv'
  <2>1. current # Idle /\ UNCHANGED <<idlePc, watchdogVars>>
    BY <1>9 DEF sys_waitpid
  <2>2. CASE UNCHANGED current
    BY <1>2, <2>1, <2>2
  <2>3. CASE sched_schedule([state EXCEPT ![current] = "BLOCKED"])
    <3>1. Runnable([state EXCEPT ![current] = "BLOCKED"], Idle)
      BY <2>1 DEF Runnable
    <3>2. current' \in Slots /\ (current' = Idle \/ current' > current)
      BY <2>3, <3>1, ScheduleOrder
    <3>. QED BY <1>1, <2>1, <3>2 DEF watchdogVars
  <2>. QED BY <1>9, <2>2, <2>3 DEF sys_waitpid
<1>10. CASE sched_timer_tick
  <2>1. current # Idle /\ UNCHANGED idlePc
    BY <1>10 DEF sched_timer_tick, InUserCode
  <2>2. ~WatchdogExpired
    <3>1. ASSUME Affordable(current, idlePc, ticks)
          PROVE  ~(ticks + 1 > WATCHDOG_TIMEOUT_TICKS)
      BY <2>1, <3>1 DEF Affordable
    <3>. QED BY <1>0, <3>1 DEF WatchdogExpired, TickBound
  <2>3. /\ ticks' = IF fed THEN 0 ELSE ticks + 1
        /\ ~fed'
        /\ ~panicked'
        /\ sched_schedule(state)
    BY <1>0, <1>10, <2>2 DEF sched_timer_tick
  <2>4. current' \in Slots /\ (current' = Idle \/ current' > current)
    BY <2>3, ScheduleOrder
  <2>5. TickBound'
    <3>1. CASE fed
      BY <2>3, <2>4, <3>1, FreshAffords DEF TickBound
    <3>2. CASE ~fed
      BY <1>0, <2>1, <2>3, <2>4, <3>2, SwitchAffords DEF TickBound
    <3>. QED BY <3>1, <3>2
  <2>. QED BY <2>3, <2>5 DEF WatchdogInv
<1>11. CASE UNCHANGED vars
  BY <1>2, <1>11 DEF vars, watchdogVars
<1>. QED
  BY <1>3, <1>4, <1>5, <1>6, <1>7, <1>8, <1>9, <1>10, <1>11 DEF CoreNext, kmain

\* With a watchdog that tolerates two silent ticks for every slot but task
\* 0's, sched_timer_tick never panics a system whose tasks are switched in
\* round-robin order.  The code's 128 slots and 500 ticks satisfy this.
THEOREM WatchdogIsSafe ==
    ASSUME 2 * (MAX_TASKS - 1) =< WATCHDOG_TIMEOUT_TICKS
    PROVE  CoreSpec => []NoFalsePanic
<1>1. Init => SchedInv /\ WatchdogInv
  BY InitInv, WatchdogInit
<1>2. [CoreNext]_vars => [Next]_vars
  BY DEF Next
<1>3. SchedInv /\ WatchdogInv /\ [CoreNext]_vars => (SchedInv /\ WatchdogInv)'
  BY <1>2, StepInv, WatchdogStep
<1>4. WatchdogInv => NoFalsePanic
  BY DEF WatchdogInv, NoFalsePanic
<1>. QED BY <1>1, <1>3, <1>4, PTL DEF CoreSpec

=============================================================================
