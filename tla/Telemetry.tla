------------------------------ MODULE Telemetry ------------------------------
(***************************************************************************)
(* The trace ring of core/telemetry.c, used by several CPUs under           *)
(* g_trace_lock.                                                            *)
(*                                                                         *)
(* A CPU that spins has done nothing yet, so a call begins with the         *)
(* test-and-set that succeeds.  An entry is its event; the time, CPU, task  *)
(* and arguments are written with it and read with it.  The text printed is *)
(* the sequence of entries shown.                                           *)
(***************************************************************************)
EXTENDS Naturals, Sequences

CONSTANTS TELEMETRY_BUFFER_SIZE,
          Cpus,
          Events,     \* trace_event_t without TRACE_NONE
          NONE,       \* TRACE_NONE: no filter
          LOG_LIMIT   \* bound on the number of events logged between two clears

ASSUME TelemetryAssumption ==
    /\ TELEMETRY_BUFFER_SIZE \in Nat \ {0}
    /\ LOG_LIMIT \in Nat
    /\ NONE \notin Events

VARIABLES g_trace_buffer, g_trace_head, g_trace_count, g_trace_lock,
          pc,     \* per CPU: where it is in telemetry.c
          arg,    \* per CPU: the event to log or the filter of the dump
          i,      \* per CPU: the loop counter of the dump
          out,    \* per CPU: what the running dump has printed
          shown,  \* per CPU: the filter of its last complete dump and its output
          log     \* history: the events logged since the last clear

ring == <<g_trace_buffer, g_trace_head, g_trace_count>>
vars == <<ring, g_trace_lock, pc, arg, i, out, shown, log>>

Slots == 0 .. TELEMETRY_BUFFER_SIZE - 1

Shown == [filter : Events \cup {NONE}, entries : Seq(Events)]

TypeOK ==
    /\ g_trace_buffer \in [Slots -> Events \cup {NONE}]
    /\ g_trace_head \in Slots
    /\ g_trace_count \in 0 .. TELEMETRY_BUFFER_SIZE
    /\ g_trace_lock \in BOOLEAN
    /\ pc \in [Cpus -> {"idle", "fill", "advance", "unlock", "dump", "clear"}]
    /\ arg \in [Cpus -> Events \cup {NONE}]
    /\ i \in [Cpus -> 0 .. TELEMETRY_BUFFER_SIZE]
    /\ out \in [Cpus -> Seq(Events)]
    /\ shown \in [Cpus -> Shown]
    /\ log \in Seq(Events)

\* After telemetry_init.
Init ==
    /\ g_trace_buffer = [k \in Slots |-> NONE]
    /\ g_trace_head = 0
    /\ g_trace_count = 0
    /\ g_trace_lock = FALSE
    /\ pc = [c \in Cpus |-> "idle"]
    /\ arg = [c \in Cpus |-> NONE]
    /\ i = [c \in Cpus |-> 0]
    /\ out = [c \in Cpus |-> <<>>]
    /\ shown = [c \in Cpus |-> [filter |-> NONE, entries |-> <<>>]]
    /\ log = <<>>

------------------------------------------------------------------------------

\* Mutant: the lock is set without looking at it.
trace_spin_lock_blind(c, next) ==
    /\ pc[c] = "idle"
    /\ g_trace_lock' = TRUE
    /\ pc' = [pc EXCEPT ![c] = next]

trace_spin_lock(c, next) ==
    /\ pc[c] = "idle"
    /\ ~g_trace_lock
    /\ g_trace_lock' = TRUE
    /\ pc' = [pc EXCEPT ![c] = next]

\* The local variables of the call end with it.
trace_spin_unlock(c) ==
    /\ pc[c] = "unlock"
    /\ g_trace_lock' = FALSE
    /\ pc' = [pc EXCEPT ![c] = "idle"]
    /\ arg' = [arg EXCEPT ![c] = NONE]
    /\ i' = [i EXCEPT ![c] = 0]
    /\ out' = [out EXCEPT ![c] = <<>>]
    /\ UNCHANGED <<ring, shown, log>>

(* trace_log *)

BeginLog(c, e) ==
    /\ Len(log) < LOG_LIMIT
    /\ trace_spin_lock(c, "fill")
    /\ arg' = [arg EXCEPT ![c] = e]
    /\ UNCHANGED <<ring, i, out, shown, log>>

Fill(c) ==
    /\ pc[c] = "fill"
    /\ g_trace_buffer' =
          [g_trace_buffer EXCEPT ![g_trace_head % TELEMETRY_BUFFER_SIZE] = arg[c]]
    /\ log' = Append(log, arg[c])
    /\ pc' = [pc EXCEPT ![c] = "advance"]
    /\ UNCHANGED <<g_trace_head, g_trace_count, g_trace_lock, arg, i, out, shown>>

NextHead(h) == (h + 1) % TELEMETRY_BUFFER_SIZE

NextCount(n) == IF n < TELEMETRY_BUFFER_SIZE THEN n + 1 ELSE n

Advance(c) ==
    /\ pc[c] = "advance"
    /\ g_trace_head' = NextHead(g_trace_head)
    /\ g_trace_count' = NextCount(g_trace_count)
    /\ pc' = [pc EXCEPT ![c] = "unlock"]
    /\ UNCHANGED <<g_trace_buffer, g_trace_lock, arg, i, out, shown, log>>

(* trace_dump_filtered *)

BeginDump(c, filter) ==
    /\ trace_spin_lock(c, "dump")
    /\ arg' = [arg EXCEPT ![c] = filter]
    /\ UNCHANGED <<ring, i, out, shown, log>>

Start(h, n) == IF n < TELEMETRY_BUFFER_SIZE THEN 0 ELSE h

\* The slot of the k-th oldest entry.
SlotOf(h, n, k) == (Start(h, n) + k) % TELEMETRY_BUFFER_SIZE

\* Mutant: the filter is not looked at.
SkippedNever(filter, e) == FALSE

Skipped(filter, e) == filter # NONE /\ e # filter

DumpEntry(c) ==
    /\ pc[c] = "dump"
    /\ i[c] < g_trace_count
    /\ LET e == g_trace_buffer[SlotOf(g_trace_head, g_trace_count, i[c])]
       IN  out' = IF Skipped(arg[c], e) THEN out
                  ELSE [out EXCEPT ![c] = Append(@, e)]
    /\ i' = [i EXCEPT ![c] = @ + 1]
    /\ UNCHANGED <<ring, g_trace_lock, pc, arg, shown, log>>

EndDump(c) ==
    /\ pc[c] = "dump"
    /\ i[c] >= g_trace_count
    /\ shown' = [shown EXCEPT ![c] = [filter |-> arg[c], entries |-> out[c]]]
    /\ pc' = [pc EXCEPT ![c] = "unlock"]
    /\ UNCHANGED <<ring, g_trace_lock, arg, i, out, log>>

(* trace_clear *)

BeginClear(c) ==
    /\ trace_spin_lock(c, "clear")
    /\ UNCHANGED <<ring, arg, i, out, shown, log>>

Clear(c) ==
    /\ pc[c] = "clear"
    /\ g_trace_head' = 0
    /\ g_trace_count' = 0
    /\ log' = <<>>
    /\ pc' = [pc EXCEPT ![c] = "unlock"]
    /\ UNCHANGED <<g_trace_buffer, g_trace_lock, arg, i, out, shown>>

Step(c) ==
    \/ \E e \in Events : BeginLog(c, e)
    \/ Fill(c)
    \/ Advance(c)
    \/ \E filter \in Events \cup {NONE} : BeginDump(c, filter)
    \/ DumpEntry(c)
    \/ EndDump(c)
    \/ BeginClear(c)
    \/ Clear(c)
    \/ trace_spin_unlock(c)

Next == \E c \in Cpus : Step(c)

Spec == Init /\ [][Next]_vars

------------------------------------------------------------------------------
(* Properties                                                               *)

\* An entry has been written and the head not yet moved past it.
Pending == \E c \in Cpus : pc[c] = "advance"

HeadNow == IF Pending THEN NextHead(g_trace_head) ELSE g_trace_head
CountNow == IF Pending THEN NextCount(g_trace_count) ELSE g_trace_count

\* However many CPUs log, dump and clear, and however often the head has gone
\* round the buffer, the ring holds the last events logged, oldest at Start.
RingHoldsTail ==
    /\ CountNow = IF Len(log) < TELEMETRY_BUFFER_SIZE THEN Len(log) ELSE TELEMETRY_BUFFER_SIZE
    /\ \A k \in 0 .. CountNow - 1 :
          g_trace_buffer[SlotOf(HeadNow, CountNow, k)] = log[Len(log) - CountNow + k + 1]

Recent == [k \in 1 .. CountNow |-> g_trace_buffer[SlotOf(HeadNow, CountNow, k - 1)]]

Abstract == INSTANCE EventLog WITH Capacity <- TELEMETRY_BUFFER_SIZE, recent <- Recent

\* The ring implements the log of recent events: what a dump prints, over all
\* its steps, is what the log held at one moment.
ImplementsEventLog == Abstract!Spec
=============================================================================
