------------------------------- MODULE EventLog -------------------------------
(***************************************************************************)
(* What the telemetry subsystem promises: it keeps the most recent events,  *)
(* at most Capacity of them, and a dump shows those of them that match its  *)
(* filter, oldest first.                                                    *)
(***************************************************************************)
EXTENDS Naturals, Sequences

CONSTANTS Capacity, Cpus, Events, NONE

VARIABLES recent,  \* the events kept, oldest first
          shown    \* per CPU: the filter of its last dump and what it has shown

\* The last n elements of s.
LastOf(s, n) == IF Len(s) =< n THEN s ELSE SubSeq(s, Len(s) - n + 1, Len(s))

Init ==
    /\ recent = <<>>
    /\ shown = [c \in Cpus |-> [filter |-> NONE, entries |-> <<>>]]

Log(e) ==
    /\ recent' = LastOf(Append(recent, e), Capacity)
    /\ UNCHANGED shown

Clear ==
    /\ recent' = <<>>
    /\ UNCHANGED shown

Dump(c, filter) ==
    /\ LET Matches(e) == filter \in {NONE, e}
       IN  shown' = [shown EXCEPT ![c] = [filter  |-> filter,
                                          entries |-> SelectSeq(recent, Matches)]]
    /\ UNCHANGED recent

Next ==
    \/ \E e \in Events : Log(e)
    \/ Clear
    \/ \E c \in Cpus, filter \in Events \cup {NONE} : Dump(c, filter)

Spec == Init /\ [][Next]_<<recent, shown>>
=============================================================================
