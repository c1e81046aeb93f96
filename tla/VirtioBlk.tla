------------------------------ MODULE VirtioBlk ------------------------------
(***************************************************************************)
(* The block driver of core/virtio.c and the device behind its queue.       *)
(*                                                                         *)
(* The driver has one request header, one status byte and one chain of      *)
(* three descriptors, and so one request at a time.  Kernel code does not   *)
(* yield while it polls, but the device runs beside it: a call is a         *)
(* sequence of steps.  The device is external and modelled by what the      *)
(* driver relies on: it fetches an available chain, reading header and      *)
(* descriptors at that moment, moves the data, writes the status and        *)
(* advances the used index.  A sector's content is one value.               *)
(***************************************************************************)
EXTENDS Naturals, Sequences

CONSTANTS Sectors, Data,
          Buffers,        \* the memory that callers pass
          IDX_MOD,        \* number of values of the 16-bit ring indices
          TIMEOUT_LIMIT   \* bound on the number of reads that time out

ASSUME VirtioAssumption ==
    /\ IDX_MOD \in Nat \ {0, 1}
    /\ TIMEOUT_LIMIT \in Nat

VARIABLES disk,           \* per sector: its content
          buf,            \* per buffer: its content
          req,            \* the request header: type and sector
          blk_status,
          desc,           \* descriptor 1: the buffer and its direction
          avail, used,    \* avail->idx and used->idx
          last_used_idx,
          pc,             \* where the driver is
          call,           \* the call in progress, or the last one
          ok,             \* what the last call returned
          timeouts,       \* history: reads that timed out
          seen,           \* device: available chains fetched, modulo IDX_MOD
          jobs            \* device: the requests fetched and not completed

driverVars == <<req, blk_status, desc, avail, last_used_idx, pc, call, ok, timeouts>>
deviceVars == <<disk, used, seen, jobs>>
vars == <<driverVars, deviceVars, buf>>

Indices == 0 .. IDX_MOD - 1
Types == {"IN", "OUT"}
Request == [type : Types, sector : Sectors, buf : Buffers]
NoJob == [type |-> "NONE"]
Job == Request \cup {NoJob}
Status == {"PENDING", "OK", "ERROR"}

TypeOK ==
    /\ disk \in [Sectors -> Data]
    /\ buf \in [Buffers -> Data]
    /\ req \in [type : Types, sector : Sectors]
    /\ blk_status \in Status
    /\ desc \in [buf : Buffers, type : Types]
    /\ avail \in Indices /\ used \in Indices /\ last_used_idx \in Indices /\ seen \in Indices
    /\ pc \in {"idle", "describe", "publish", "poll", "collect"}
    /\ call \in Request
    /\ ok \in BOOLEAN
    /\ timeouts \in Nat
    /\ jobs \in Seq(Job)

\* After ata_init.
Init ==
    /\ disk \in [Sectors -> Data]
    /\ buf \in [Buffers -> Data]
    /\ req \in [type : {"IN"}, sector : Sectors]
    /\ blk_status = "PENDING"
    /\ desc \in [buf : Buffers, type : {"IN"}]
    /\ call = [type |-> "IN", sector |-> req.sector, buf |-> desc.buf]
    /\ avail = 0 /\ used = 0 /\ last_used_idx = 0 /\ seen = 0
    /\ pc = "idle"
    /\ ok = FALSE
    /\ timeouts = 0
    /\ jobs = <<>>

\* The step of a 16-bit ring index.
Inc(n) == (n + 1) % IDX_MOD

------------------------------------------------------------------------------
(* The driver: ata_read_sector and ata_write_sector                         *)

\* The caller has put data into the buffer of a write.
Begin(c, data) ==
    /\ pc = "idle"
    /\ call' = c
    /\ buf' = IF c.type = "OUT" THEN [buf EXCEPT ![c.buf] = data] ELSE buf
    /\ req' = [type |-> c.type, sector |-> c.sector]
    /\ blk_status' = "PENDING"
    /\ pc' = "describe"
    /\ UNCHANGED <<desc, avail, last_used_idx, ok, timeouts, deviceVars>>

\* Mutant: the descriptor of the previous request is used.
DescribedNot(c) == desc

Described(c) == [buf |-> c.buf, type |-> c.type]

Describe ==
    /\ pc = "describe"
    /\ desc' = Described(call)
    /\ pc' = "publish"
    /\ UNCHANGED <<req, blk_status, avail, last_used_idx, call, ok, timeouts, deviceVars, buf>>

\* Mutant: the index is not advanced.
PublishedNot(n) == n

Published(n) == Inc(n)

Publish ==
    /\ pc = "publish"
    /\ avail' = Published(avail)
    /\ pc' = "poll"
    /\ UNCHANGED <<req, blk_status, desc, last_used_idx, call, ok, timeouts, deviceVars, buf>>

\* Mutant: the driver does not wait.
CompletedAlways == TRUE

\* The polling loop ends.
Completed == used # last_used_idx

Leave ==
    /\ pc = "poll"
    /\ Completed
    /\ pc' = "collect"
    /\ UNCHANGED <<req, blk_status, desc, avail, last_used_idx, call, ok, timeouts, deviceVars, buf>>

\* The used index is read again.
Collect ==
    /\ pc = "collect"
    /\ last_used_idx' = used
    /\ ok' = (blk_status = "OK")
    /\ pc' = "idle"
    /\ UNCHANGED <<req, blk_status, desc, avail, call, timeouts, deviceVars, buf>>

\* ata_read_sector gives up; the chain stays in the queue.
TimeOut ==
    /\ pc = "poll"
    /\ call.type = "IN"
    /\ ~Completed
    /\ timeouts < TIMEOUT_LIMIT
    /\ timeouts' = timeouts + 1
    /\ ok' = FALSE
    /\ pc' = "idle"
    /\ UNCHANGED <<req, blk_status, desc, avail, last_used_idx, call, deviceVars, buf>>

Driver == Describe \/ Publish \/ Leave \/ Collect

------------------------------------------------------------------------------
(* The device                                                               *)

\* A header and a descriptor of two requests that do not fit each other make a
\* job that moves no data.
Fetched ==
    IF req.type = desc.type
    THEN [type |-> req.type, sector |-> req.sector, buf |-> desc.buf]
    ELSE NoJob

Fetch ==
    /\ seen # avail
    /\ seen' = Inc(seen)
    /\ jobs' = Append(jobs, Fetched)
    /\ UNCHANGED <<driverVars, disk, used, buf>>

Complete(status) ==
    /\ jobs # <<>>
    /\ LET j == jobs[1] IN
          /\ buf' = IF status = "OK" /\ j.type = "IN"
                    THEN [buf EXCEPT ![j.buf] = disk[j.sector]] ELSE buf
          /\ disk' = IF status = "OK" /\ j.type = "OUT"
                     THEN [disk EXCEPT ![j.sector] = buf[j.buf]] ELSE disk
    /\ blk_status' = status
    /\ used' = Inc(used)
    /\ jobs' = Tail(jobs)
    /\ UNCHANGED <<req, desc, avail, last_used_idx, pc, call, ok, timeouts, seen>>

Device == Fetch \/ \E status \in {"OK", "ERROR"} : Complete(status)

------------------------------------------------------------------------------

Next ==
    \/ \E c \in Request, data \in Data : Begin(c, data)
    \/ Driver
    \/ TimeOut
    \/ Device

Spec == Init /\ [][Next]_vars

\* The polling CPU runs and the device works off its queue.
FairSpec == Spec /\ WF_vars(Driver) /\ WF_vars(Device)

------------------------------------------------------------------------------
(* Properties                                                               *)

\* As long as no read has timed out, a call that has returned success has moved
\* the data: buffer and sector agree, whatever the device did meanwhile.
ReturnedInSync ==
    timeouts = 0 /\ pc = "idle" /\ ok => buf[call.buf] = disk[call.sector]

\* A sector changes only while a write to it is being polled, and a buffer only
\* while a read into it is or when a caller fills it.
ForTheCall ==
    /\ \A s \in Sectors :
          disk'[s] # disk[s] => pc = "poll" /\ call.type = "OUT" /\ call.sector = s
    /\ \A b \in Buffers :
          buf'[b] # buf[b] => \/ pc = "idle" /\ call'.buf = b
                              \/ pc = "poll" /\ call.type = "IN" /\ call.buf = b

\* As long as no read has timed out, the device works only for the call in
\* progress.
OnlyTheCall == [][timeouts = 0 => ForTheCall]_vars

\* Every call returns, also those after a read that timed out, as long as the
\* device completes what it fetches; ata_write_sector has no timeout.
EveryCallReturns == pc = "poll" ~> pc = "idle"
=============================================================================
