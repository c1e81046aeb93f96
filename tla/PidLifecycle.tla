---------------------------- MODULE PidLifecycle ----------------------------
(***************************************************************************)
(* What the task table promises the callers of sched_create_thread, exit    *)
(* and waitpid about a process id: ids are handed out in order, each one    *)
(* once, a thread leaves the table only after it has exited, and a thread   *)
(* that has left never comes back.                                          *)
(***************************************************************************)
EXTENDS Integers

CONSTANT PID_LIMIT

VARIABLE life   \* life[p] is the stage of process id p

ThePids == 0 .. PID_LIMIT - 1

\* Process id 0 is the boot context.
LifeInit == life = [p \in ThePids |-> IF p = 0 THEN "alive" ELSE "unborn"]

\* The stages follow each other, and no other change is made.
Follows == {<<"unborn", "alive">>, <<"alive", "zombie">>, <<"zombie", "reaped">>}

\* Process id p is created, exits or is reaped: ids are created in order, and the
\* boot context never exits.
Advance(p) ==
    /\ <<life[p], life'[p]>> \in Follows
    /\ life[p] = "unborn" => \A q \in ThePids : q < p => life[q] # "unborn"
    /\ life[p] = "alive" => p # 0
    /\ life' = [life EXCEPT ![p] = life'[p]]

LifeNext == \E p \in ThePids : Advance(p)

LifeSpec == LifeInit /\ [][LifeNext]_life
=============================================================================
