------------------------------- MODULE IpcCaps -------------------------------
(***************************************************************************)
(* The capabilities of core/ipc.c: the tables of g_thread_ipc_ext, the      *)
(* pools of endpoints and ports, and the system calls that create, copy,    *)
(* narrow, register and look up capabilities, with the creation and the     *)
(* end of the tasks that hold them.                                         *)
(*                                                                         *)
(* The kernel is cooperative and none of these calls yields, so each is one *)
(* action.  A failing call changes nothing and is shown where its cause is  *)
(* part of this state.  sys_ipc_send, _call, _object_destroy, _cap_revoke,  *)
(* _object_pause, _object_drain and _object_resume have no action: they     *)
(* change state only for a capability with SEND, CALL or REVOKE or for a    *)
(* paused object, and sys_ipc_endpoint_create, which should give out the    *)
(* first two rights, overwrites the capability that has them (proved as     *)
(* NothingIsEverSent in IpcCapsProofs).  The walk of names is the business  *)
(* of IpcNamespace: here a name is a model value with a parent.             *)
(***************************************************************************)
EXTENDS Naturals

CONSTANTS MAX_TASKS,             \* length of g_tasks
          SCHED_MAX_THREADS,     \* length of g_thread_ipc_ext
          IPC_CAP_MAX_PER_TASK,  \* length of a capability table
          IPC_MAX_ENDPOINTS,
          IPC_MAX_PORTS,
          PID_LIMIT,             \* bound on the process ids given out
          REF_LIMIT,             \* bound on the reference counts
          Names,                 \* service names
          ParentName,            \* per name: its prefix, or NULL
          Masks,                 \* the sets of rights callers narrow to
          NULL

ASSUME SizeAssumption ==
    /\ MAX_TASKS \in Nat \ {0}
    /\ SCHED_MAX_THREADS \in Nat \ {0}
    /\ IPC_CAP_MAX_PER_TASK \in Nat \ {0}
    /\ IPC_MAX_ENDPOINTS \in Nat
    /\ IPC_MAX_PORTS \in Nat
    /\ PID_LIMIT \in Nat
    /\ REF_LIMIT \in Nat

ASSUME NameAssumption ==
    /\ NULL \notin Names
    /\ ParentName \in [Names -> Names \cup {NULL}]

VARIABLES task,      \* per slot of g_tasks: its id and its stage of life
          next_pid,  \* g_next_pid
          caps,      \* per table of g_thread_ipc_ext: its slots
          ep,        \* per endpoint: its state
          port,      \* per port: its state
          reg        \* per name: the owner's id and handle, or NULL

vars == <<task, next_pid, caps, ep, port, reg>>

Slots == 0 .. MAX_TASKS - 1
Tables == 0 .. SCHED_MAX_THREADS - 1
Handles == 0 .. IPC_CAP_MAX_PER_TASK - 1
Rights == {"SEND", "RECV", "CALL", "MAP", "DUP", "REVOKE", "VFS_READ", "VFS_WRITE"}
ObjTypes == {"NONE", "ENDPOINT", "PORT", "DIR"}

Capability == [type : ObjTypes, id : Nat, rights : SUBSET Rights, ref : Nat]
NoCap == [type |-> "NONE", id |-> 0, rights |-> {}, ref |-> 0]

\* ipc_cap_is_valid
Valid(c) == c.type # "NONE" /\ c.ref > 0

\* What sched_ipc_init_thread puts into a table.
InitTable ==
    [h \in Handles |->
        IF h = 0 THEN [type |-> "DIR", id |-> 0, rights |-> {"VFS_READ", "VFS_WRITE"}, ref |-> 1]
                 ELSE NoCap]

\* The registration that an entry made on the way to a longer name holds.
Zero == [owner |-> 0, handle |-> 0]

Tasks == [id : Nat, stage : {"unused", "live", "dead"}]

TypeOK ==
    /\ task \in [Slots -> Tasks]
    /\ next_pid \in Nat
    /\ caps \in [Tables -> [Handles -> Capability]]
    /\ ep \in [0 .. IPC_MAX_ENDPOINTS - 1 -> {"ACTIVE", "DEAD"}]
    /\ port \in [0 .. IPC_MAX_PORTS - 1 -> {"ACTIVE", "DEAD"}]
    /\ reg \in [Names -> [owner : Nat, handle : Handles] \cup {NULL}]

\* After the boot: ipc_subsystem_init has cleared all tables, that of the idle
\* task included, and sage_execute_init has created the first task.
Init ==
    /\ task = [s \in Slots |->
                  IF s = 0 THEN [id |-> 0, stage |-> "live"]
                  ELSE IF s = 1 THEN [id |-> 1, stage |-> "live"]
                  ELSE [id |-> 0, stage |-> "unused"]]
    /\ next_pid = 2
    /\ caps = [i \in Tables |-> IF i = 1 % SCHED_MAX_THREADS THEN InitTable
                                ELSE [h \in Handles |-> NoCap]]
    /\ ep = [e \in 0 .. IPC_MAX_ENDPOINTS - 1 |-> "DEAD"]
    /\ port = [p \in 0 .. IPC_MAX_PORTS - 1 |-> "DEAD"]
    /\ reg = [n \in Names |-> NULL]

\* thread_ipc_ext: the table of a task is found by its id.
TableOf(id) == id % SCHED_MAX_THREADS

\* The tasks that make system calls; slot 0 is the idle task.
Callers == {s \in Slots \ {0} : task[s].stage = "live"}

------------------------------------------------------------------------------
(* The life of tasks                                                        *)

FirstUnused(s) ==
    /\ task[s].stage = "unused"
    /\ \A r \in 0 .. s - 1 : task[r].stage # "unused"

\* sched_create_thread; n_os_spawn_task then copies the table of the parent
\* over that of the child.
sched_create_thread(parent, inherits) ==
    /\ next_pid < PID_LIMIT
    /\ \E s \in Slots :
          /\ FirstUnused(s)
          /\ task' = [task EXCEPT ![s] = [id |-> next_pid, stage |-> "live"]]
    /\ next_pid' = next_pid + 1
    /\ LET i == TableOf(next_pid)
           fresh == [caps EXCEPT ![i] = InitTable]
       IN  caps' = IF inherits THEN [fresh EXCEPT ![i] = fresh[TableOf(task[parent].id)]]
                               ELSE fresh
    /\ UNCHANGED <<ep, port, reg>>

\* sys_exit leaves the table of the task as it is.
sys_exit(s) ==
    /\ task' = [task EXCEPT ![s].stage = "dead"]
    /\ UNCHANGED <<next_pid, caps, ep, port, reg>>

\* sys_waitpid clears the table of a task that has ended and frees its slot.
\* sched_ipc_cleanup_thread destroys the object of a last reference only for a
\* capability with REVOKE, which no task holds (NothingIsEverSent).
sys_waitpid(s) ==
    /\ task[s].stage = "dead"
    /\ task' = [task EXCEPT ![s].stage = "unused"]
    /\ caps' = [caps EXCEPT ![TableOf(task[s].id)] = [h \in Handles |-> NoCap]]
    /\ UNCHANGED <<next_pid, ep, port, reg>>

------------------------------------------------------------------------------
(* Creating objects                                                         *)

\* Mutant: a capability narrowed to nothing is taken for a free slot.
AllocSlotNoRights(tab, h) ==
    /\ tab[h].rights = {}
    /\ \A k \in 0 .. h - 1 : tab[k].rights # {}

\* ipc_cap_alloc_slot: the first free slot, which it does not reserve.
AllocSlot(tab, h) ==
    /\ tab[h].type = "NONE"
    /\ \A k \in 0 .. h - 1 : tab[k].type # "NONE"

TableFull(tab) == \A h \in Handles : tab[h].type # "NONE"

\* ipc_alloc_endpoint and ipc_alloc_port: the first object that is not in use.
\* A second call before the first object becomes active returns it again, since
\* it takes a CONSTRUCTED object for a free one.
AllocObject(pool, o) ==
    /\ pool[o] = "DEAD"
    /\ \A q \in DOMAIN pool : q < o => pool[q] # "DEAD"

SendCap(e) ==
    [type |-> "ENDPOINT", id |-> e, rights |-> {"SEND", "CALL", "DUP"}, ref |-> 1]

\* Mutant: the capability names the object after the one allocated.
RecvCapNext(e) ==
    [type |-> "ENDPOINT", id |-> e + 1, rights |-> {"RECV", "DUP"}, ref |-> 1]

RecvCap(e) ==
    [type |-> "ENDPOINT", id |-> e, rights |-> {"RECV", "DUP"}, ref |-> 1]

PortCap(p) ==
    [type |-> "PORT", id |-> p, rights |-> {"SEND", "RECV", "DUP"}, ref |-> 1]

sys_ipc_endpoint_create(s) ==
    LET i == TableOf(task[s].id) IN
    \/ \E send, recv \in DOMAIN ep, send_handle, recv_handle \in Handles :
          /\ AllocObject(ep, send) /\ AllocObject(ep, recv)
          /\ AllocSlot(caps[i], send_handle) /\ AllocSlot(caps[i], recv_handle)
          /\ ep' = [ep EXCEPT ![send] = "ACTIVE", ![recv] = "ACTIVE"]
          /\ caps' = [caps EXCEPT ![i][send_handle] = SendCap(send),
                                  ![i][recv_handle] = RecvCap(recv)]
          /\ UNCHANGED <<task, next_pid, port, reg>>
    \/ /\ TableFull(caps[i]) \/ \A e \in DOMAIN ep : ep[e] # "DEAD"
       /\ UNCHANGED vars

sys_ipc_port_create(s) ==
    LET i == TableOf(task[s].id) IN
    \/ \E p \in DOMAIN port, h \in Handles :
          /\ AllocObject(port, p)
          /\ AllocSlot(caps[i], h)
          /\ port' = [port EXCEPT ![p] = "ACTIVE"]
          /\ caps' = [caps EXCEPT ![i][h] = PortCap(p)]
          /\ UNCHANGED <<task, next_pid, ep, reg>>
    \/ /\ TableFull(caps[i]) \/ \A p \in DOMAIN port : port[p] # "DEAD"
       /\ UNCHANGED vars

------------------------------------------------------------------------------
(* Copying and narrowing capabilities                                       *)

sys_ipc_cap_dup(s, handle) ==
    LET i == TableOf(task[s].id)
        src == caps[i][handle]
    IN  /\ Valid(src)
        /\ "DUP" \in src.rights
        /\ src.ref < REF_LIMIT
        /\ \E h \in Handles :
              /\ AllocSlot(caps[i], h)
              /\ caps' = [caps EXCEPT ![i][h] = [src EXCEPT !.ref = @ + 1]]
        /\ UNCHANGED <<task, next_pid, ep, port, reg>>

\* Mutant: the mask is added instead of applied.
NarrowedWide(c, mask) == [c EXCEPT !.rights = @ \cup mask]

Narrowed(c, mask) == [c EXCEPT !.rights = @ \cap mask]

\* No capability is IMMUTABLE: nothing grants that right, so the call's refusal
\* of such a one is left out.
sys_ipc_cap_narrow(s, handle, mask) ==
    LET i == TableOf(task[s].id) IN
    /\ Valid(caps[i][handle])
    /\ caps' = [caps EXCEPT ![i][handle] = Narrowed(@, mask)]
    /\ UNCHANGED <<task, next_pid, ep, port, reg>>

------------------------------------------------------------------------------
(* The namespace                                                            *)

sys_ipc_ns_register(s, name, handle) ==
    /\ Valid(caps[TableOf(task[s].id)][handle])
    /\ reg' = [n \in Names |->
                  IF n = name THEN [owner |-> task[s].id, handle |-> handle]
                  ELSE IF n = ParentName[name] /\ reg[n] = NULL THEN Zero
                  ELSE reg[n]]
    /\ UNCHANGED <<task, next_pid, caps, ep, port>>

\* The tables that a lookup may read: that of the owner while its slot is not
\* reused.  Later sched_get_thread_by_id returns NULL, and the index is
\* whatever the word at its id field holds.
OwnerTables(id) ==
    IF \E s \in Slots : task[s].id = id /\ task[s].stage # "unused"
    THEN {TableOf(id)}
    ELSE Tables

Derived(src) ==
    [type |-> src.type, id |-> src.id, rights |-> src.rights \ {"REVOKE", "DUP"},
     ref |-> src.ref + 1]

sys_ipc_ns_lookup(s, name) ==
    LET i == TableOf(task[s].id) IN
    /\ reg[name] # NULL
    /\ \E h \in Handles, k \in OwnerTables(reg[name].owner) :
          /\ AllocSlot(caps[i], h)
          /\ caps[k][reg[name].handle].ref < REF_LIMIT
          /\ caps' = [caps EXCEPT ![i][h] = Derived(caps[k][reg[name].handle])]
    /\ UNCHANGED <<task, next_pid, ep, port, reg>>

------------------------------------------------------------------------------
(* What the remaining calls ask of a capability before they change anything *)

\* sys_ipc_send
MaySend(c) == Valid(c) /\ "SEND" \in c.rights /\ c.type = "ENDPOINT"

\* sys_ipc_call
MayCall(c) == Valid(c) /\ "CALL" \in c.rights /\ c.type = "ENDPOINT"

\* sys_ipc_object_destroy, _cap_revoke, _object_pause and _object_drain
MayRevoke(c) == Valid(c) /\ "REVOKE" \in c.rights

\* sys_ipc_object_resume
MayResume(c) == Valid(c) /\ c.type = "ENDPOINT" /\ ep[c.id] = "PAUSED"

------------------------------------------------------------------------------

CallerStep(s) ==
    \/ \E inherits \in BOOLEAN : sched_create_thread(s, inherits)
    \/ sys_exit(s)
    \/ sys_ipc_endpoint_create(s)
    \/ sys_ipc_port_create(s)
    \/ \E h \in Handles : sys_ipc_cap_dup(s, h)
    \/ \E h \in Handles, mask \in Masks : sys_ipc_cap_narrow(s, h, mask)
    \/ \E n \in Names, h \in Handles : sys_ipc_ns_register(s, n, h)
    \/ \E n \in Names : sys_ipc_ns_lookup(s, n)

Next ==
    \/ \E s \in Callers : CallerStep(s)
    \/ \E s \in Slots : sys_waitpid(s)

Spec == Init /\ [][Next]_vars

------------------------------------------------------------------------------
(* Properties                                                               *)

\* The rights of the capabilities on such an object that the creating calls leave.
Granted(type) ==
    CASE type = "ENDPOINT" -> {"RECV", "DUP"}
      [] type = "PORT" -> {"SEND", "RECV", "DUP"}
      [] type = "DIR" -> {"VFS_READ", "VFS_WRITE"}
      [] OTHER -> {}

\* However capabilities are copied, inherited, looked up and narrowed, none
\* carries a right that the kernel did not create it with.
NoAmplification ==
    \A i \in Tables, h \in Handles : caps[i][h].rights \subseteq Granted(caps[i][h].type)

\* A capability never dangles: its object is inside its pool and active, also
\* for copies made after the task that created the object has ended.
NamesActiveObject ==
    \A i \in Tables, h \in Handles :
       LET c == caps[i][h] IN
          /\ c.type = "ENDPOINT" => c.id \in DOMAIN ep /\ ep[c.id] = "ACTIVE"
          /\ c.type = "PORT" => c.id \in DOMAIN port /\ port[c.id] = "ACTIVE"

\* A system call never replaces a capability that a table holds, it can only
\* narrow it; only the creation and the reaping of a task clear a table.
OnlyNarrowed ==
    [][next_pid' = next_pid /\ (\A s \in Slots : task[s].stage = "dead" => task'[s].stage = "dead") =>
          \A i \in Tables, h \in Handles :
             Valid(caps[i][h]) =>
                /\ caps'[i][h].type = caps[i][h].type
                /\ caps'[i][h].id = caps[i][h].id
                /\ caps'[i][h].rights \subseteq caps[i][h].rights]_vars
=============================================================================
