--------------------------- MODULE VirtioBlkProofs ---------------------------
(***************************************************************************)
(* Proof that the block driver is synchronous as long as no read times out, *)
(* for every disk, every set of buffers and every width of the ring         *)
(* indices.                                                                 *)
(*                                                                         *)
(* The inductive invariant follows the one request through the queue: not   *)
(* yet published, available, fetched, completed.  In each place it says how *)
(* the four indices are related; they differ by one at most, and so never   *)
(* alias although they wrap.                                                *)
(***************************************************************************)
EXTENDS VirtioBlk, TLAPS

QueueEmpty == used = last_used_idx /\ avail = last_used_idx /\ seen = last_used_idx /\ jobs = <<>>

HeaderSet == req.type = call.type /\ req.sector = call.sector
DescriptorSet == desc.type = call.type /\ desc.buf = call.buf

Available ==
    /\ avail = Inc(last_used_idx) /\ seen = last_used_idx /\ used = last_used_idx
    /\ jobs = <<>>

InDevice ==
    /\ avail = Inc(last_used_idx) /\ seen = avail /\ used = last_used_idx
    /\ jobs = <<call>>

Done ==
    /\ avail = Inc(last_used_idx) /\ seen = avail /\ used = avail
    /\ jobs = <<>>
    /\ blk_status = "OK" => buf[call.buf] = disk[call.sector]

Follows ==
    /\ pc \in {"idle", "describe", "publish"} => QueueEmpty
    /\ pc = "idle" /\ ok => buf[call.buf] = disk[call.sector]
    /\ pc # "idle" => HeaderSet
    /\ pc \in {"publish", "poll", "collect"} => DescriptorSet
    /\ pc = "poll" => Available \/ InDevice \/ Done
    /\ pc = "collect" => Done

Inv == TypeOK /\ (timeouts = 0 => Follows)

------------------------------------------------------------------------------

\* An index and its successor differ, also where the index wraps.
LEMMA IncDiffers ==
    ASSUME NEW n \in Indices
    PROVE  Inc(n) \in Indices /\ Inc(n) # n
<1>1. n \in Nat /\ n < IDX_MOD /\ IDX_MOD \in Nat /\ IDX_MOD > 1
  BY VirtioAssumption DEF Indices
<1> DEFINE a == n + 1
<1>2. CASE a < IDX_MOD
  <2>1. a % IDX_MOD = a
    BY <1>1, <1>2
  <2> QED
    BY <1>1, <1>2, <2>1 DEF Inc, Indices
<1>3. CASE ~(a < IDX_MOD)
  <2>1. a = IDX_MOD
    BY <1>1, <1>3
  <2>2. IDX_MOD % IDX_MOD = 0
    BY <1>1
  <2>3. Inc(n) = 0
    BY <2>1, <2>2 DEF Inc
  <2> QED
    BY <1>1, <2>1, <2>3 DEF Indices
<1> QED
  BY <1>2, <1>3

\* After ata_init the invariant holds.
LEMMA InitInv == Init => Inv
<1> SUFFICES ASSUME Init PROVE Inv
  OBVIOUS
<1>1. 0 \in Indices
  BY VirtioAssumption DEF Indices
<1>4. jobs \in Seq(Job)
  BY DEF Init
<1>2. call \in Request
  BY DEF Init, Request, Types
<1>3. QueueEmpty /\ pc = "idle" /\ ~ok
  BY DEF Init, QueueEmpty
<1> QED
  BY <1>1, <1>2, <1>3, <1>4 DEF Init, Inv, TypeOK, Follows, Types, Status

\* Every step of driver and device keeps the invariant.
LEMMA StepInv == Inv /\ [Next]_vars => Inv'
<1> SUFFICES ASSUME Inv, [Next]_vars PROVE Inv'
  OBVIOUS
<1>t. /\ disk \in [Sectors -> Data]
      /\ buf \in [Buffers -> Data]
      /\ req \in [type : Types, sector : Sectors]
      /\ blk_status \in Status
      /\ desc \in [buf : Buffers, type : Types]
      /\ avail \in Indices /\ used \in Indices /\ last_used_idx \in Indices /\ seen \in Indices
      /\ pc \in {"idle", "describe", "publish", "poll", "collect"}
      /\ call \in Request
      /\ ok \in BOOLEAN
      /\ timeouts \in Nat
      /\ jobs \in Seq(Job)
  BY DEF Inv, TypeOK
<1>c. call.type \in Types /\ call.sector \in Sectors /\ call.buf \in Buffers
  BY <1>t DEF Request
<1>f. timeouts = 0 => Follows
  BY DEF Inv
<1>i. /\ Inc(last_used_idx) \in Indices /\ Inc(last_used_idx) # last_used_idx
      /\ Inc(used) \in Indices /\ Inc(avail) \in Indices /\ Inc(seen) \in Indices
  BY <1>t, IncDiffers
<1>1. ASSUME NEW c \in Request, NEW data \in Data, Begin(c, data) PROVE Inv'
  <2>1. c.buf \in Buffers
    BY DEF Request
  <2>2. TypeOK'
    <3>1. req' \in [type : Types, sector : Sectors]
      BY <1>1 DEF Begin, Request
    <3> QED
      BY <1>1, <1>t, <2>1, <3>1 DEF Begin, TypeOK, deviceVars, Status
  <2>3. ASSUME timeouts' = 0 PROVE Follows'
    <3>1. QueueEmpty
      BY <1>1, <1>f, <2>3 DEF Begin, Follows
    <3>2. QueueEmpty' /\ HeaderSet' /\ pc' = "describe"
      BY <1>1, <3>1 DEF Begin, QueueEmpty, HeaderSet, deviceVars
    <3> QED
      BY <3>2 DEF Follows
  <2> QED
    BY <2>2, <2>3 DEF Inv
<1>2. ASSUME Describe PROVE Inv'
  <2>1. TypeOK'
    BY <1>2, <1>t, <1>c DEF Describe, Described, TypeOK, deviceVars
  <2>2. ASSUME timeouts' = 0 PROVE Follows'
    <3>1. QueueEmpty /\ HeaderSet
      BY <1>2, <1>f, <2>2 DEF Describe, Follows
    <3>2. QueueEmpty' /\ HeaderSet' /\ DescriptorSet' /\ pc' = "publish"
      BY <1>2, <3>1 DEF Describe, Described, QueueEmpty, HeaderSet, DescriptorSet, deviceVars
    <3> QED
      BY <3>2 DEF Follows
  <2> QED
    BY <2>1, <2>2 DEF Inv
<1>3. ASSUME Publish PROVE Inv'
  <2>1. TypeOK'
    BY <1>3, <1>t, <1>i DEF Publish, Published, TypeOK, deviceVars
  <2>2. ASSUME timeouts' = 0 PROVE Follows'
    <3>1. QueueEmpty /\ HeaderSet /\ DescriptorSet
      BY <1>3, <1>f, <2>2 DEF Publish, Follows
    <3>2. Available' /\ HeaderSet' /\ DescriptorSet' /\ pc' = "poll"
      BY <1>3, <3>1
         DEF Publish, Published, QueueEmpty, HeaderSet, DescriptorSet, Available, deviceVars
    <3> QED
      BY <3>2 DEF Follows
  <2> QED
    BY <2>1, <2>2 DEF Inv
<1>4. ASSUME Leave PROVE Inv'
  <2>1. TypeOK'
    BY <1>4, <1>t DEF Leave, TypeOK, deviceVars
  <2>2. ASSUME timeouts' = 0 PROVE Follows'
    <3>1. HeaderSet /\ DescriptorSet /\ (Available \/ InDevice \/ Done)
      BY <1>4, <1>f, <2>2 DEF Leave, Follows
    <3>2. Done
      BY <1>4, <3>1 DEF Leave, Completed, Available, InDevice
    <3>3. Done' /\ HeaderSet' /\ DescriptorSet' /\ pc' = "collect"
      BY <1>4, <3>1, <3>2 DEF Leave, HeaderSet, DescriptorSet, Done, deviceVars
    <3> QED
      BY <3>3 DEF Follows
  <2> QED
    BY <2>1, <2>2 DEF Inv
<1>5. ASSUME Collect PROVE Inv'
  <2>1. TypeOK'
    BY <1>5, <1>t DEF Collect, TypeOK, deviceVars
  <2>2. ASSUME timeouts' = 0 PROVE Follows'
    <3>1. Done
      BY <1>5, <1>f, <2>2 DEF Collect, Follows
    <3>2. QueueEmpty' /\ pc' = "idle"
      BY <1>5, <3>1 DEF Collect, Done, QueueEmpty, deviceVars
    <3>3. ok' => buf'[call'.buf] = disk'[call'.sector]
      BY <1>5, <3>1 DEF Collect, Done, deviceVars
    <3> QED
      BY <3>2, <3>3 DEF Follows
  <2> QED
    BY <2>1, <2>2 DEF Inv
<1>6. ASSUME TimeOut PROVE Inv'
  <2>1. timeouts' \in Nat /\ timeouts' # 0
    BY <1>6, <1>t DEF TimeOut
  <2>2. TypeOK'
    BY <1>6, <1>t, <2>1 DEF TimeOut, TypeOK, deviceVars
  <2> QED
    BY <2>1, <2>2 DEF Inv
<1>7. ASSUME Fetch PROVE Inv'
  <2>1. TypeOK'
    <3>1. Fetched \in Job
      BY <1>t DEF Fetched, Job, Request
    <3>2. Append(jobs, Fetched) \in Seq(Job)
      BY <1>t, <3>1
    <3> QED
      BY <1>7, <1>t, <1>i, <3>2 DEF Fetch, TypeOK, driverVars
  <2>2. ASSUME timeouts' = 0 PROVE Follows'
    <3>1. Follows /\ seen # avail
      BY <1>7, <1>f, <2>2 DEF Fetch, driverVars
    <3>2. pc = "poll" /\ Available /\ HeaderSet /\ DescriptorSet
      BY <1>t, <3>1 DEF Follows, QueueEmpty, InDevice, Done
    <3>3. Fetched = call
      BY <1>t, <3>2 DEF Fetched, HeaderSet, DescriptorSet, Request
    <3>4. Append(jobs, Fetched) = <<call>>
      BY <3>2, <3>3 DEF Available
    <3>5. InDevice' /\ HeaderSet' /\ DescriptorSet' /\ pc' = "poll"
      BY <1>7, <3>2, <3>4 DEF Fetch, Available, InDevice, HeaderSet, DescriptorSet, driverVars
    <3> QED
      BY <3>5 DEF Follows
  <2> QED
    BY <2>1, <2>2 DEF Inv
<1>8. ASSUME NEW status \in {"OK", "ERROR"}, Complete(status) PROVE Inv'
  <2>1. /\ disk' = IF status = "OK" /\ jobs[1].type = "OUT"
                   THEN [disk EXCEPT ![jobs[1].sector] = buf[jobs[1].buf]] ELSE disk
        /\ buf' = IF status = "OK" /\ jobs[1].type = "IN"
                  THEN [buf EXCEPT ![jobs[1].buf] = disk[jobs[1].sector]] ELSE buf
        /\ blk_status' = status
        /\ used' = Inc(used)
        /\ jobs' = Tail(jobs)
        /\ UNCHANGED <<req, desc, avail, last_used_idx, pc, call, ok, timeouts, seen>>
    BY <1>8 DEF Complete
  <2> DEFINE j == jobs[1]
  <2>2. jobs # <<>> /\ j \in Job /\ Tail(jobs) \in Seq(Job)
    BY <1>8, <1>t DEF Complete
  <2>3. j.type # "NONE" => j.sector \in Sectors /\ j.buf \in Buffers
    BY <2>2 DEF Job, Request, NoJob
  <2>4. disk' \in [Sectors -> Data] /\ buf' \in [Buffers -> Data]
    BY <1>t, <2>1, <2>3
  <2>5. TypeOK'
    BY <1>t, <1>i, <2>1, <2>2, <2>4 DEF TypeOK, Status
  <2>6. ASSUME timeouts' = 0 PROVE Follows'
    <3>1. Follows
      BY <1>f, <2>1, <2>6
    <3>2. pc = "poll" /\ InDevice /\ HeaderSet /\ DescriptorSet
      BY <1>t, <2>2, <3>1 DEF Follows, QueueEmpty, Available, Done
    <3>3. j = call /\ Tail(jobs) = <<>>
      BY <3>2 DEF InDevice
    <3>4. status = "OK" => buf'[call.buf] = disk'[call.sector]
      BY <1>t, <1>c, <2>1, <3>3 DEF Types
    <3>5. Done'
      BY <2>1, <3>2, <3>3, <3>4 DEF InDevice, Done
    <3>6. HeaderSet' /\ DescriptorSet' /\ pc' = "poll"
      BY <2>1, <3>2 DEF HeaderSet, DescriptorSet
    <3> QED
      BY <3>5, <3>6 DEF Follows
  <2> QED
    BY <2>5, <2>6 DEF Inv
<1>9. CASE UNCHANGED vars
  BY <1>9, <1>t, <1>f
     DEF vars, driverVars, deviceVars, Inv, TypeOK, Follows, QueueEmpty, HeaderSet, DescriptorSet,
         Available, InDevice, Done
<1> QED
  BY <1>1, <1>2, <1>3, <1>4, <1>5, <1>6, <1>7, <1>8, <1>9 DEF Next, Driver, Device

------------------------------------------------------------------------------
(* Theorems                                                                 *)

\* The invariant holds in every reachable state.
THEOREM QueueInvariant == Spec => []Inv
<1>1. Init => Inv
  BY InitInv
<1>2. Inv /\ [Next]_vars => Inv'
  BY StepInv
<1> QED
  BY <1>1, <1>2, PTL DEF Spec

\* The indices stay in range and the device only sees requests of the driver.
THEOREM QueueTypeCorrect == Spec => []TypeOK
<1>1. Inv => TypeOK
  BY DEF Inv
<1> QED
  BY <1>1, QueueInvariant, PTL

\* Without timeouts a successful call has moved its data.
THEOREM CallsAreSynchronous == Spec => []ReturnedInSync
<1>1. Inv => ReturnedInSync
  BY DEF Inv, Follows, ReturnedInSync
<1> QED
  BY <1>1, QueueInvariant, PTL

\* Without timeouts the device touches no memory and no sector but those of
\* the call in progress.
THEOREM DeviceServesTheCall == Spec => OnlyTheCall
<1>1. Inv /\ [Next]_vars => [timeouts = 0 => ForTheCall]_vars
  <2> SUFFICES ASSUME Inv, Next, timeouts = 0 PROVE ForTheCall
    BY DEF vars
  <2>1. /\ TypeOK /\ Follows
    BY DEF Inv
  <2>2. ASSUME NEW c \in Request, NEW data \in Data, Begin(c, data) PROVE ForTheCall
    BY <2>1, <2>2 DEF Begin, ForTheCall, deviceVars, TypeOK
  <2>3. ASSUME Driver \/ TimeOut \/ Fetch PROVE ForTheCall
    BY <2>3 DEF Driver, Describe, Publish, Leave, Collect, TimeOut, Fetch, ForTheCall, deviceVars
  <2>4. ASSUME NEW status \in {"OK", "ERROR"}, Complete(status) PROVE ForTheCall
    <3>1. jobs # <<>>
      BY <2>4 DEF Complete
    <3>2. pc = "poll" /\ jobs[1] = call
      BY <2>1, <3>1 DEF Follows, QueueEmpty, Available, InDevice, Done, TypeOK
    <3>3. /\ disk' = IF status = "OK" /\ call.type = "OUT"
                     THEN [disk EXCEPT ![call.sector] = buf[call.buf]] ELSE disk
          /\ buf' = IF status = "OK" /\ call.type = "IN"
                    THEN [buf EXCEPT ![call.buf] = disk[call.sector]] ELSE buf
      BY <2>4, <3>2 DEF Complete
    <3> QED
      BY <2>1, <3>2, <3>3 DEF ForTheCall, TypeOK
  <2> QED
    BY <2>2, <2>3, <2>4 DEF Next, Device
<1> QED
  BY <1>1, QueueInvariant, PTL DEF Spec, OnlyTheCall
=============================================================================
