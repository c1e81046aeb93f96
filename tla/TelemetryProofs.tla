--------------------------- MODULE TelemetryProofs ---------------------------
(***************************************************************************)
(* Proofs about the trace ring, for every size of the buffer, every set of  *)
(* CPUs and every set of events.                                            *)
(*                                                                         *)
(* The inductive invariant is that of a ring (Ring), stated of a buffer, a  *)
(* head, a count and the history, together with mutual exclusion.  Ring     *)
(* adds to RingHoldsTail that the head equals the count until the ring is   *)
(* full for the first time: without it nothing says where the next entry    *)
(* goes.                                                                    *)
(***************************************************************************)
EXTENDS Telemetry, TLAPS

N == TELEMETRY_BUFFER_SIZE

Ring(buf, h, n, lg) ==
    /\ n = IF Len(lg) < N THEN Len(lg) ELSE N
    /\ n < N => h = n
    /\ \A k \in 0 .. n - 1 : buf[SlotOf(h, n, k)] = lg[Len(lg) - n + k + 1]

Mutex ==
    /\ \A c, d \in Cpus : pc[c] # "idle" /\ pc[d] # "idle" => c = d
    /\ (\E c \in Cpus : pc[c] # "idle") => g_trace_lock

Inv ==
    /\ TypeOK
    /\ Mutex
    /\ \A c \in Cpus : pc[c] = "fill" => arg[c] \in Events
    /\ Ring(g_trace_buffer, HeadNow, CountNow, log)

------------------------------------------------------------------------------
(* Arithmetic of the ring                                                   *)

\* The remainder of a number below twice the size.
LEMMA ModSmall ==
    ASSUME NEW a \in Nat, a < 2 * N
    PROVE  a % N = IF a < N THEN a ELSE a - N
BY TelemetryAssumption DEF N

\* The head stays inside the buffer.
LEMMA NextHeadIs ==
    ASSUME NEW h \in Slots
    PROVE  NextHead(h) = IF h + 1 < N THEN h + 1 ELSE 0
<1>1. h \in Nat /\ h < N /\ N \in Nat
  BY TelemetryAssumption DEF Slots, N
<1> DEFINE a == h + 1
<1>2. a \in Nat /\ a < 2 * N
  BY <1>1
<1>3. NextHead(h) = a % N
  BY DEF NextHead, N
<1> HIDE DEF a
<1>4. NextHead(h) = IF a < N THEN a ELSE a - N
  BY <1>2, <1>3, ModSmall
<1> QED
  BY <1>1, <1>4 DEF a

\* Where the k-th oldest entry is.
LEMMA SlotIs ==
    ASSUME NEW h \in Slots, NEW n \in 0 .. N, NEW k \in 0 .. N - 1
    PROVE  SlotOf(h, n, k) = IF n < N THEN k ELSE IF h + k < N THEN h + k ELSE h + k - N
<1>1. h \in Nat /\ h < N /\ N \in Nat \ {0} /\ k \in Nat /\ k < N /\ n \in Nat
  BY TelemetryAssumption DEF Slots, N
<1>2. CASE n < N
  <2>1. k % N = k
    BY <1>1, ModSmall
  <2> QED
    BY <1>1, <1>2, <2>1 DEF SlotOf, Start, N
<1>3. CASE ~(n < N)
  <2> DEFINE a == h + k
  <2>1. a \in Nat /\ a < 2 * N
    BY <1>1
  <2>2. Start(h, n) = h
    BY <1>3 DEF Start, N
  <2>3. SlotOf(h, n, k) = a % N
    BY <2>2 DEF SlotOf, N
  <2> HIDE DEF a
  <2>4. SlotOf(h, n, k) = IF a < N THEN a ELSE a - N
    BY <2>1, <2>3, ModSmall
  <2> QED
    BY <1>1, <1>3, <2>4 DEF a
<1> QED
  BY <1>2, <1>3

\* Logging an event: the ring that held the tail of the history holds the tail
\* of the longer one.
LEMMA RingLogs ==
    ASSUME NEW buf \in [Slots -> Events \cup {NONE}], NEW h \in Slots, NEW n \in 0 .. N,
           NEW lg \in Seq(Events), Ring(buf, h, n, lg), NEW e \in Events
    PROVE  Ring([buf EXCEPT ![h % N] = e], NextHead(h), NextCount(n), Append(lg, e))
<1> DEFINE b == [buf EXCEPT ![h % N] = e]
           h2 == NextHead(h)
           n2 == NextCount(n)
           lg2 == Append(lg, e)
           L == Len(lg)
<1>1. /\ h \in Nat /\ h < N /\ N \in Nat /\ N > 0 /\ n \in Nat /\ n =< N /\ L \in Nat
      /\ Len(lg2) = L + 1
      /\ \A j \in 1 .. L : lg2[j] = lg[j]
      /\ lg2[L + 1] = e
  BY TelemetryAssumption DEF Slots, N
<1>2. h % N = h
  BY <1>1, ModSmall
<1>3. \A s \in Slots : b[s] = IF s = h THEN e ELSE buf[s]
  BY <1>2
<1>4. h2 = (IF h + 1 < N THEN h + 1 ELSE 0) /\ h2 \in Slots /\ h2 \in Nat
  BY <1>1, NextHeadIs DEF Slots, N
<1>5. n2 = (IF n < N THEN n + 1 ELSE N) /\ n2 \in 0 .. N
  BY <1>1 DEF NextCount, N
<1>6. /\ n = IF L < N THEN L ELSE N
      /\ n < N => h = n
      /\ \A k \in 0 .. n - 1 : buf[SlotOf(h, n, k)] = lg[L - n + k + 1]
  BY DEF Ring
<1> HIDE DEF b, h2, n2, lg2, L
<1>7. n2 = IF L + 1 < N THEN L + 1 ELSE N
  BY <1>1, <1>5, <1>6
<1>8. n2 < N => h2 = n2
  BY <1>1, <1>4, <1>5, <1>6
<1>9. ASSUME NEW k \in 0 .. n2 - 1
      PROVE  b[SlotOf(h2, n2, k)] = lg2[L + 1 - n2 + k + 1]
  <2>1. k \in Nat /\ k < N /\ k < n2 /\ n2 \in Nat /\ k \in 0 .. N - 1
    BY <1>1, <1>5
  <2>2. SlotOf(h2, n2, k) = IF n2 < N THEN k ELSE IF h2 + k < N THEN h2 + k ELSE h2 + k - N
    BY <1>4, <1>5, <2>1, SlotIs
  <2>3. CASE n < N
    <3>1. n = L /\ h = n /\ n2 = L + 1 /\ h = L
      BY <1>1, <1>5, <1>6, <2>3
    <3>2. SlotOf(h2, n2, k) = k
      BY <1>1, <1>4, <2>1, <2>2, <3>1
    <3>3. L + 1 - n2 + k + 1 = k + 1 /\ k \in Slots
      BY <1>1, <2>1, <3>1 DEF Slots, N
    <3>4. CASE k = L
      BY <1>1, <1>3, <3>1, <3>2, <3>3, <3>4
    <3>5. CASE k # L
      <4>1. k \in 0 .. n - 1 /\ k + 1 \in 1 .. L /\ k # h
        BY <1>1, <2>1, <3>1, <3>5
      <4>2. SlotOf(h, n, k) = k
        BY <1>1, <2>1, <2>3, SlotIs
      <4>3. L - n + k + 1 = k + 1
        BY <1>1, <2>1, <3>1
      <4>4. buf[k] = lg[k + 1]
        BY <1>6, <4>1, <4>2, <4>3
      <4> QED
        BY <1>1, <1>3, <3>2, <3>3, <4>1, <4>4
    <3> QED
      BY <3>4, <3>5
  <2>4. CASE ~(n < N)
    <3>1. n = N /\ n2 = N /\ L >= N
      BY <1>1, <1>5, <1>6, <2>4
    <3>2. CASE k = N - 1
      <4>1. SlotOf(h2, n2, k) = h
        BY <1>1, <1>4, <2>1, <2>2, <3>1, <3>2
      <4>2. L + 1 - n2 + k + 1 = L + 1
        BY <1>1, <3>1, <3>2
      <4> QED
        BY <1>1, <1>3, <4>1, <4>2
    <3>3. CASE k # N - 1
      <4>1. k + 1 \in 0 .. n - 1 /\ k + 1 \in 0 .. N - 1
        BY <1>1, <2>1, <3>1, <3>3
      <4>2. SlotOf(h, n, k + 1) = IF h + (k + 1) < N THEN h + (k + 1) ELSE h + (k + 1) - N
        <5>1. SlotOf(h, n, k + 1) =
                 IF n < N THEN k + 1
                 ELSE IF h + (k + 1) < N THEN h + (k + 1) ELSE h + (k + 1) - N
          BY <4>1, SlotIs
        <5> QED
          BY <2>4, <5>1
      <4>3. SlotOf(h2, n2, k) = SlotOf(h, n, k + 1)
        BY <1>1, <1>4, <2>1, <2>2, <3>1, <3>3, <4>2
      <4>4. SlotOf(h2, n2, k) \in Slots /\ SlotOf(h2, n2, k) # h
        BY <1>1, <2>1, <3>1, <3>3, <4>2, <4>3 DEF Slots, N
      <4>5. b[SlotOf(h2, n2, k)] = buf[SlotOf(h, n, k + 1)]
        BY <1>3, <4>3, <4>4
      <4>6. buf[SlotOf(h, n, k + 1)] = lg[L - n + (k + 1) + 1]
        BY <1>6, <4>1
      <4>7. L - n + (k + 1) + 1 = L + 1 - n2 + k + 1 /\ L + 1 - n2 + k + 1 \in 1 .. L
        BY <1>1, <2>1, <3>1, <3>3
      <4> QED
        BY <1>1, <4>5, <4>6, <4>7
    <3> QED
      BY <3>2, <3>3
  <2> QED
    BY <2>3, <2>4
<1>10. Ring(b, h2, n2, lg2)
  BY <1>1, <1>7, <1>8, <1>9 DEF Ring
<1> QED
  BY <1>10 DEF b, h2, n2, lg2

\* The entries that a dump visits are events.
LEMMA EntriesAreEvents ==
    ASSUME NEW buf \in [Slots -> Events \cup {NONE}], NEW h \in Slots, NEW n \in 0 .. N,
           NEW lg \in Seq(Events), Ring(buf, h, n, lg), NEW k \in 0 .. n - 1
    PROVE  buf[SlotOf(h, n, k)] \in Events
<1>1. Len(lg) \in Nat /\ n \in Nat /\ N \in Nat /\ k \in Nat /\ k < n
  BY TelemetryAssumption DEF N
<1>2. n = IF Len(lg) < N THEN Len(lg) ELSE N
  BY DEF Ring
<1>3. Len(lg) - n + k + 1 \in 1 .. Len(lg)
  BY <1>1, <1>2
<1>4. lg[Len(lg) - n + k + 1] \in Events
  BY <1>3
<1>5. buf[SlotOf(h, n, k)] = lg[Len(lg) - n + k + 1]
  BY DEF Ring
<1> QED
  BY <1>4, <1>5

------------------------------------------------------------------------------
(* The invariant                                                            *)

\* The empty ring holds the empty history.
LEMMA RingEmpty ==
    ASSUME NEW buf
    PROVE  Ring(buf, 0, 0, <<>>)
BY TelemetryAssumption DEF Ring, N

\* The state that telemetry_init leaves is in order.
LEMMA InitInv == Init => Inv
<1> SUFFICES ASSUME Init PROVE Inv
  OBVIOUS
<1>1. ~Pending
  BY DEF Init, Pending
<1>2. HeadNow = 0 /\ CountNow = 0
  BY <1>1 DEF Init, HeadNow, CountNow
<1>3. Ring(g_trace_buffer, HeadNow, CountNow, log)
  BY <1>2, RingEmpty DEF Init
<1>4. TypeOK
  <2>1. 0 \in Slots /\ 0 \in 0 .. TELEMETRY_BUFFER_SIZE
    BY TelemetryAssumption DEF Slots
  <2>2. out \in [Cpus -> Seq(Events)] /\ shown \in [Cpus -> Shown] /\ log \in Seq(Events)
    BY DEF Init, Shown
  <2> QED
    BY <2>1, <2>2 DEF Init, TypeOK
<1>5. Mutex /\ \A c \in Cpus : pc[c] = "fill" => arg[c] \in Events
  BY DEF Init, Mutex
<1> QED
  BY <1>3, <1>4, <1>5 DEF Inv

\* What the head and the count become lies in their ranges.
LEMMA AdvanceInRange ==
    ASSUME NEW h \in Slots, NEW n \in 0 .. N
    PROVE  NextHead(h) \in Slots /\ NextCount(n) \in 0 .. N
<1>1. h \in Nat /\ h < N /\ N \in Nat \ {0}
  BY TelemetryAssumption DEF Slots, N
<1>2. NextHead(h) = IF h + 1 < N THEN h + 1 ELSE 0
  BY NextHeadIs
<1>3. NextHead(h) \in Slots
  BY <1>1, <1>2 DEF Slots, N
<1>4. NextCount(n) \in 0 .. N
  BY <1>1 DEF NextCount, N
<1> QED
  BY <1>3, <1>4

\* Every step of a call keeps the invariant.
LEMMA StepInv == Inv /\ [Next]_vars => Inv'
<1> SUFFICES ASSUME Inv, [Next]_vars PROVE Inv'
  OBVIOUS
<1>t. /\ g_trace_buffer \in [Slots -> Events \cup {NONE}]
      /\ g_trace_head \in Slots
      /\ g_trace_count \in 0 .. N
      /\ g_trace_lock \in BOOLEAN
      /\ pc \in [Cpus -> {"idle", "fill", "advance", "unlock", "dump", "clear"}]
      /\ arg \in [Cpus -> Events \cup {NONE}]
      /\ i \in [Cpus -> 0 .. N]
      /\ out \in [Cpus -> Seq(Events)]
      /\ shown \in [Cpus -> Shown]
      /\ log \in Seq(Events)
  BY DEF Inv, TypeOK, N
<1>m. \A c, d \in Cpus : pc[c] # "idle" /\ pc[d] # "idle" => c = d
  BY DEF Inv, Mutex
<1>l. (\E c \in Cpus : pc[c] # "idle") => g_trace_lock
  BY DEF Inv, Mutex
<1>a. \A c \in Cpus : pc[c] = "fill" => arg[c] \in Events
  BY DEF Inv
<1>r. Ring(g_trace_buffer, HeadNow, CountNow, log)
  BY DEF Inv
<1>begin. ASSUME NEW c \in Cpus, NEW next \in {"fill", "dump", "clear"},
                 trace_spin_lock(c, next), UNCHANGED ring, UNCHANGED log
          PROVE  Mutex' /\ Ring(g_trace_buffer, HeadNow, CountNow, log)'
  <2>1. \A d \in Cpus : pc[d] = "idle"
    BY <1>begin, <1>l DEF trace_spin_lock
  <2>2. pc' = [pc EXCEPT ![c] = next] /\ g_trace_lock'
    BY <1>begin DEF trace_spin_lock
  <2>3. \A d \in Cpus : pc'[d] # "idle" => d = c
    BY <1>t, <2>1, <2>2
  <2>4. Mutex'
    BY <2>2, <2>3 DEF Mutex
  <2>5. ~Pending /\ ~Pending'
    BY <1>t, <2>1, <2>2 DEF Pending
  <2>6. HeadNow' = HeadNow /\ CountNow' = CountNow
    BY <1>begin, <2>5 DEF HeadNow, CountNow, ring
  <2> QED
    BY <1>begin, <1>r, <2>4, <2>6 DEF ring
<1>move. ASSUME NEW c \in Cpus, pc[c] # "idle", NEW x, pc' = [pc EXCEPT ![c] = x],
                g_trace_lock' = g_trace_lock
         PROVE  Mutex' /\ \A d \in Cpus \ {c} : pc'[d] = "idle" /\ pc[d] = "idle"
  <2>1. \A d \in Cpus \ {c} : pc'[d] = "idle" /\ pc[d] = "idle"
    BY <1>move, <1>t, <1>m
  <2>2. g_trace_lock
    BY <1>move, <1>l
  <2> QED
    BY <1>move, <2>1, <2>2 DEF Mutex
<1>1. ASSUME NEW c \in Cpus, NEW e \in Events, BeginLog(c, e) PROVE Inv'
  <2>1. /\ trace_spin_lock(c, "fill")
        /\ arg' = [arg EXCEPT ![c] = e]
        /\ UNCHANGED <<ring, i, out, shown, log>>
    BY <1>1 DEF BeginLog
  <2>2. Mutex' /\ Ring(g_trace_buffer, HeadNow, CountNow, log)'
    BY <1>begin, <2>1
  <2>3. TypeOK'
    BY <1>t, <2>1 DEF trace_spin_lock, TypeOK, ring, N
  <2>4. \A d \in Cpus : pc'[d] = "fill" => arg'[d] \in Events
    BY <1>t, <1>a, <2>1 DEF trace_spin_lock
  <2> QED
    BY <2>2, <2>3, <2>4 DEF Inv
<1>2. ASSUME NEW c \in Cpus, Fill(c) PROVE Inv'
  <2>1. /\ pc[c] = "fill"
        /\ g_trace_buffer' = [g_trace_buffer EXCEPT ![g_trace_head % N] = arg[c]]
        /\ log' = Append(log, arg[c])
        /\ pc' = [pc EXCEPT ![c] = "advance"]
        /\ UNCHANGED <<g_trace_head, g_trace_count, g_trace_lock, arg, i, out, shown>>
    BY <1>2 DEF Fill, N
  <2>2. Mutex' /\ \A d \in Cpus \ {c} : pc'[d] = "idle" /\ pc[d] = "idle"
    BY <1>move, <2>1
  <2>3. ~Pending /\ Pending'
    BY <1>t, <2>1, <2>2 DEF Pending
  <2>4. HeadNow = g_trace_head /\ CountNow = g_trace_count
    BY <2>3 DEF HeadNow, CountNow
  <2>5. HeadNow' = NextHead(g_trace_head) /\ CountNow' = NextCount(g_trace_count)
    BY <2>1, <2>3 DEF HeadNow, CountNow
  <2>6. arg[c] \in Events
    BY <1>a, <2>1
  <2>7. Ring(g_trace_buffer, g_trace_head, g_trace_count, log)
    BY <1>r, <2>4
  <2>8. Ring([g_trace_buffer EXCEPT ![g_trace_head % N] = arg[c]], NextHead(g_trace_head),
             NextCount(g_trace_count), Append(log, arg[c]))
    BY <1>t, <2>6, <2>7, RingLogs
  <2>9. Ring(g_trace_buffer, HeadNow, CountNow, log)'
    BY <2>1, <2>5, <2>8
  <2>10. g_trace_buffer' \in [Slots -> Events \cup {NONE}] /\ log' \in Seq(Events)
    <3>1. g_trace_buffer' \in [Slots -> Events \cup {NONE}]
      BY <1>t, <2>1
    <3>2. Append(log, arg[c]) \in Seq(Events)
      BY <1>t, <2>6
    <3> QED
      BY <2>1, <3>1, <3>2
  <2>11. pc' \in [Cpus -> {"idle", "fill", "advance", "unlock", "dump", "clear"}]
    BY <1>t, <2>1
  <2>12. TypeOK'
    BY <1>t, <2>1, <2>10, <2>11 DEF TypeOK, N
  <2>13. \A d \in Cpus : pc'[d] = "fill" => arg'[d] \in Events
    BY <1>t, <2>1, <2>2
  <2> QED
    BY <2>2, <2>9, <2>12, <2>13 DEF Inv
<1>3. ASSUME NEW c \in Cpus, Advance(c) PROVE Inv'
  <2>1. /\ pc[c] = "advance"
        /\ g_trace_head' = NextHead(g_trace_head)
        /\ g_trace_count' = NextCount(g_trace_count)
        /\ pc' = [pc EXCEPT ![c] = "unlock"]
        /\ UNCHANGED <<g_trace_buffer, g_trace_lock, arg, i, out, shown, log>>
    BY <1>3 DEF Advance
  <2>2. Mutex' /\ \A d \in Cpus \ {c} : pc'[d] = "idle" /\ pc[d] = "idle"
    BY <1>move, <2>1
  <2>3. Pending /\ ~Pending'
    BY <1>t, <2>1, <2>2 DEF Pending
  <2>4. HeadNow' = HeadNow /\ CountNow' = CountNow
    BY <2>1, <2>3 DEF HeadNow, CountNow
  <2>5. Ring(g_trace_buffer, HeadNow, CountNow, log)'
    BY <1>r, <2>1, <2>4
  <2>6. g_trace_head' \in Slots /\ g_trace_count' \in 0 .. N
    BY <1>t, <2>1, AdvanceInRange
  <2>7. TypeOK'
    BY <1>t, <2>1, <2>6 DEF TypeOK, N
  <2>8. \A d \in Cpus : pc'[d] = "fill" => arg'[d] \in Events
    BY <1>t, <2>1, <2>2
  <2> QED
    BY <2>2, <2>5, <2>7, <2>8 DEF Inv
<1>4. ASSUME NEW c \in Cpus, NEW filter \in Events \cup {NONE}, BeginDump(c, filter) PROVE Inv'
  <2>1. /\ trace_spin_lock(c, "dump")
        /\ arg' = [arg EXCEPT ![c] = filter]
        /\ UNCHANGED <<ring, i, out, shown, log>>
    BY <1>4 DEF BeginDump
  <2>2. Mutex' /\ Ring(g_trace_buffer, HeadNow, CountNow, log)'
    BY <1>begin, <2>1
  <2>3. TypeOK'
    BY <1>t, <2>1 DEF trace_spin_lock, TypeOK, ring, N
  <2>4. \A d \in Cpus : pc'[d] = "fill" => arg'[d] \in Events
    BY <1>t, <1>a, <2>1 DEF trace_spin_lock
  <2> QED
    BY <2>2, <2>3, <2>4 DEF Inv
<1>5. ASSUME NEW c \in Cpus, DumpEntry(c) PROVE Inv'
  <2> DEFINE e == g_trace_buffer[SlotOf(g_trace_head, g_trace_count, i[c])]
  <2>1. /\ pc[c] = "dump"
        /\ i[c] < g_trace_count
        /\ out' = IF Skipped(arg[c], e) THEN out
                  ELSE [out EXCEPT ![c] = Append(@, e)]
        /\ i' = [i EXCEPT ![c] = @ + 1]
        /\ UNCHANGED <<ring, g_trace_lock, pc, arg, shown, log>>
    BY <1>5 DEF DumpEntry
  <2>2. ~Pending /\ ~Pending'
    BY <1>t, <1>m, <2>1 DEF Pending
  <2>3. HeadNow = g_trace_head /\ CountNow = g_trace_count
    BY <2>2 DEF HeadNow, CountNow
  <2>4. HeadNow' = HeadNow /\ CountNow' = CountNow
    BY <2>1, <2>2 DEF HeadNow, CountNow, ring
  <2>5. Ring(g_trace_buffer, HeadNow, CountNow, log)'
    BY <1>r, <2>1, <2>4 DEF ring
  <2>6. i[c] \in 0 .. g_trace_count - 1 /\ i[c] + 1 \in 0 .. N
    BY <1>t, <2>1, TelemetryAssumption DEF N
  <2>7. e \in Events
    <3>1. Ring(g_trace_buffer, g_trace_head, g_trace_count, log)
      BY <1>r, <2>3
    <3> QED
      BY <1>t, <2>6, <3>1, EntriesAreEvents
  <2> HIDE DEF e
  <2>8. out' \in [Cpus -> Seq(Events)]
    <3>1. out[c] \in Seq(Events)
      BY <1>t
    <3>2. Append(out[c], e) \in Seq(Events)
      BY <2>7, <3>1
    <3> QED
      BY <1>t, <2>1, <3>2
  <2>9. i' \in [Cpus -> 0 .. N]
    BY <1>t, <2>1, <2>6
  <2>10. TypeOK'
    BY <1>t, <2>1, <2>8, <2>9 DEF TypeOK, ring, N
  <2>11. Mutex'
    BY <1>m, <1>l, <2>1 DEF Mutex
  <2> QED
    BY <1>a, <2>1, <2>5, <2>10, <2>11 DEF Inv
<1>6. ASSUME NEW c \in Cpus, EndDump(c) PROVE Inv'
  <2>1. /\ pc[c] = "dump"
        /\ shown' = [shown EXCEPT ![c] = [filter |-> arg[c], entries |-> out[c]]]
        /\ pc' = [pc EXCEPT ![c] = "unlock"]
        /\ UNCHANGED <<ring, g_trace_lock, arg, i, out, log>>
    BY <1>6 DEF EndDump
  <2>2. Mutex' /\ \A d \in Cpus \ {c} : pc'[d] = "idle" /\ pc[d] = "idle"
    BY <1>move, <2>1
  <2>3. ~Pending /\ ~Pending'
    BY <1>t, <2>1, <2>2 DEF Pending
  <2>4. HeadNow' = HeadNow /\ CountNow' = CountNow
    BY <2>1, <2>3 DEF HeadNow, CountNow, ring
  <2>5. Ring(g_trace_buffer, HeadNow, CountNow, log)'
    BY <1>r, <2>1, <2>4 DEF ring
  <2>6. TypeOK'
    <3>1. [filter |-> arg[c], entries |-> out[c]] \in Shown
      BY <1>t DEF Shown
    <3> QED
      BY <1>t, <2>1, <3>1 DEF TypeOK, ring, N
  <2>7. \A d \in Cpus : pc'[d] = "fill" => arg'[d] \in Events
    BY <1>t, <2>1, <2>2
  <2> QED
    BY <2>2, <2>5, <2>6, <2>7 DEF Inv
<1>7. ASSUME NEW c \in Cpus, BeginClear(c) PROVE Inv'
  <2>1. trace_spin_lock(c, "clear") /\ UNCHANGED <<ring, arg, i, out, shown, log>>
    BY <1>7 DEF BeginClear
  <2>2. Mutex' /\ Ring(g_trace_buffer, HeadNow, CountNow, log)'
    BY <1>begin, <2>1
  <2>3. TypeOK'
    BY <1>t, <2>1 DEF trace_spin_lock, TypeOK, ring, N
  <2>4. \A d \in Cpus : pc'[d] = "fill" => arg'[d] \in Events
    BY <1>t, <1>a, <2>1 DEF trace_spin_lock
  <2> QED
    BY <2>2, <2>3, <2>4 DEF Inv
<1>8. ASSUME NEW c \in Cpus, Clear(c) PROVE Inv'
  <2>1. /\ pc[c] = "clear"
        /\ g_trace_head' = 0
        /\ g_trace_count' = 0
        /\ log' = <<>>
        /\ pc' = [pc EXCEPT ![c] = "unlock"]
        /\ UNCHANGED <<g_trace_buffer, g_trace_lock, arg, i, out, shown>>
    BY <1>8 DEF Clear
  <2>2. Mutex' /\ \A d \in Cpus \ {c} : pc'[d] = "idle" /\ pc[d] = "idle"
    BY <1>move, <2>1
  <2>3. ~Pending'
    BY <1>t, <2>1, <2>2 DEF Pending
  <2>4. HeadNow' = 0 /\ CountNow' = 0
    BY <2>1, <2>3 DEF HeadNow, CountNow
  <2>5. Ring(g_trace_buffer, HeadNow, CountNow, log)'
    BY <2>1, <2>4, RingEmpty
  <2>6. 0 \in Slots /\ 0 \in 0 .. N
    BY TelemetryAssumption DEF Slots, N
  <2>7. TypeOK'
    BY <1>t, <2>1, <2>6 DEF TypeOK, N
  <2>8. \A d \in Cpus : pc'[d] = "fill" => arg'[d] \in Events
    BY <1>t, <2>1, <2>2
  <2> QED
    BY <2>2, <2>5, <2>7, <2>8 DEF Inv
<1>9. ASSUME NEW c \in Cpus, trace_spin_unlock(c) PROVE Inv'
  <2>1. /\ pc[c] = "unlock"
        /\ g_trace_lock' = FALSE
        /\ pc' = [pc EXCEPT ![c] = "idle"]
        /\ arg' = [arg EXCEPT ![c] = NONE]
        /\ i' = [i EXCEPT ![c] = 0]
        /\ out' = [out EXCEPT ![c] = <<>>]
        /\ UNCHANGED <<ring, shown, log>>
    BY <1>9 DEF trace_spin_unlock
  <2>2. \A d \in Cpus : pc'[d] = "idle"
    BY <1>t, <1>m, <2>1
  <2>3. ~Pending /\ ~Pending'
    BY <1>t, <1>m, <2>1, <2>2 DEF Pending
  <2>4. HeadNow' = HeadNow /\ CountNow' = CountNow
    BY <2>1, <2>3 DEF HeadNow, CountNow, ring
  <2>5. Ring(g_trace_buffer, HeadNow, CountNow, log)'
    BY <1>r, <2>1, <2>4 DEF ring
  <2>6. 0 \in 0 .. N
    BY TelemetryAssumption DEF N
  <2>7. TypeOK'
    <3>1. out' \in [Cpus -> Seq(Events)]
      BY <1>t, <2>1
    <3>2. i' \in [Cpus -> 0 .. N]
      BY <1>t, <2>1, <2>6
    <3> QED
      BY <1>t, <2>1, <3>1, <3>2 DEF TypeOK, ring, N
  <2>8. Mutex' /\ \A d \in Cpus : pc'[d] = "fill" => arg'[d] \in Events
    BY <2>2 DEF Mutex
  <2> QED
    BY <2>5, <2>7, <2>8 DEF Inv
<1>10. CASE UNCHANGED vars
  <2>1. Pending' <=> Pending
    BY <1>10 DEF vars, Pending
  <2>2. HeadNow' = HeadNow /\ CountNow' = CountNow
    BY <1>10, <2>1 DEF vars, ring, HeadNow, CountNow
  <2>3. TypeOK' /\ Mutex'
    BY <1>10, <1>t, <1>m, <1>l DEF vars, ring, TypeOK, Mutex, N
  <2> QED
    BY <1>10, <1>a, <1>r, <2>2, <2>3 DEF vars, ring, Inv
<1> QED
  BY <1>1, <1>2, <1>3, <1>4, <1>5, <1>6, <1>7, <1>8, <1>9, <1>10 DEF Next, Step

------------------------------------------------------------------------------
(* Theorems                                                                 *)

\* The invariant holds in every reachable state.
THEOREM RingInvariant == Spec => []Inv
<1>1. Init => Inv
  BY InitInv
<1>2. Inv /\ [Next]_vars => Inv'
  BY StepInv
<1> QED
  BY <1>1, <1>2, PTL DEF Spec

\* Head, count and all local variables of the calls stay in range.
THEOREM RingTypeCorrect == Spec => []TypeOK
<1>1. Inv => TypeOK
  BY DEF Inv
<1> QED
  BY <1>1, RingInvariant, PTL

\* The ring holds the last events logged, for any buffer and any CPUs.
THEOREM RingHoldsLastEvents == Spec => []RingHoldsTail
<1>1. Inv => RingHoldsTail
  BY DEF Inv, Ring, RingHoldsTail, N
<1> QED
  BY <1>1, RingInvariant, PTL
=============================================================================
