---------------------------- MODULE IpcCapsProofs ----------------------------
(***************************************************************************)
(* Proofs about the capabilities of IpcCaps, for every size of the tables   *)
(* and pools and every number of tasks.                                     *)
(*                                                                         *)
(* The inductive invariant says of each slot of each table that it holds a  *)
(* capability with no more rights than the kernel creates one with, on an   *)
(* object that is active.  It is stated of one capability and the two       *)
(* pools, so that each way of making a capability is one lemma.             *)
(***************************************************************************)
EXTENDS IpcCaps, TLAPS

CapOK(c, e, p) ==
    /\ c \in Capability
    /\ c.rights \subseteq Granted(c.type)
    /\ c.type = "ENDPOINT" => c.id \in DOMAIN e /\ e[c.id] = "ACTIVE"
    /\ c.type = "PORT" => c.id \in DOMAIN p /\ p[c.id] = "ACTIVE"

TableOK(tab, e, p) == tab \in [Handles -> Capability] /\ \A h \in Handles : CapOK(tab[h], e, p)

Inv ==
    /\ TypeOK
    /\ \A i \in Tables : TableOK(caps[i], ep, port)

------------------------------------------------------------------------------
(* The ways of making a capability                                          *)

\* An empty slot is in order.
LEMMA NoCapOK ==
    ASSUME NEW e, NEW p
    PROVE  CapOK(NoCap, e, p)
BY DEF CapOK, NoCap, Capability, ObjTypes, Rights, Granted

\* The table of a new task is in order.
LEMMA InitTableOK ==
    ASSUME NEW e, NEW p
    PROVE  TableOK(InitTable, e, p)
<1> DEFINE d == [type |-> "DIR", id |-> 0, rights |-> {"VFS_READ", "VFS_WRITE"}, ref |-> 1]
<1>1. CapOK(d, e, p)
  BY DEF CapOK, Capability, ObjTypes, Rights, Granted
<1>2. CapOK(NoCap, e, p)
  BY NoCapOK
<1>3. \A h \in Handles : CapOK(InitTable[h], e, p)
  BY <1>1, <1>2 DEF InitTable
<1>4. InitTable \in [Handles -> Capability]
  BY <1>1, <1>2 DEF InitTable, CapOK
<1> QED
  BY <1>3, <1>4 DEF TableOK

\* An empty table is in order.
LEMMA EmptyTableOK ==
    ASSUME NEW e, NEW p
    PROVE  TableOK([h \in Handles |-> NoCap], e, p)
BY NoCapOK DEF TableOK, CapOK

\* What sys_ipc_cap_narrow leaves.
LEMMA NarrowedOK ==
    ASSUME NEW e, NEW p, NEW c, CapOK(c, e, p), NEW mask
    PROVE  CapOK(Narrowed(c, mask), e, p)
BY DEF CapOK, Narrowed, Capability, Granted

\* What sys_ipc_cap_dup copies.
LEMMA CopiedOK ==
    ASSUME NEW e, NEW p, NEW c, CapOK(c, e, p)
    PROVE  CapOK([c EXCEPT !.ref = @ + 1], e, p)
BY DEF CapOK, Capability, Granted

\* What sys_ipc_ns_lookup copies.
LEMMA DerivedOK ==
    ASSUME NEW e, NEW p, NEW c, CapOK(c, e, p)
    PROVE  CapOK(Derived(c), e, p)
<1>1. c \in Capability /\ c.rights \subseteq Granted(c.type)
  BY DEF CapOK
<1>2. /\ c.type \in ObjTypes /\ c.id \in Nat /\ c.ref \in Nat
      /\ c.rights \ {"REVOKE", "DUP"} \in SUBSET Rights
  BY <1>1 DEF Capability
<1>3. Derived(c) = [type |-> c.type, id |-> c.id, rights |-> c.rights \ {"REVOKE", "DUP"},
                    ref |-> c.ref + 1]
  BY DEF Derived
<1>4. /\ Derived(c) \in Capability
      /\ Derived(c).type = c.type
      /\ Derived(c).id = c.id
  BY <1>2, <1>3 DEF Capability
<1>5. Derived(c).rights \subseteq Granted(Derived(c).type)
  BY <1>1, <1>3
<1> QED
  BY <1>4, <1>5 DEF CapOK

\* A table in order stays so when one slot gets a capability in order.
LEMMA SlotOK ==
    ASSUME NEW e, NEW p, NEW tab, TableOK(tab, e, p), NEW h \in Handles,
           NEW c, CapOK(c, e, p)
    PROVE  TableOK([tab EXCEPT ![h] = c], e, p)
BY DEF TableOK, CapOK

\* The two calls of ipc_cap_alloc_slot return the same handle.
LEMMA SameSlot ==
    ASSUME NEW tab, NEW h \in Handles, NEW k \in Handles, AllocSlot(tab, h), AllocSlot(tab, k)
    PROVE  h = k
  BY SizeAssumption DEF AllocSlot, Handles

\* The table that a task id selects exists.
LEMMA TableInRange ==
    ASSUME NEW id \in Nat
    PROVE  TableOf(id) \in Tables
BY SizeAssumption DEF TableOf, Tables

------------------------------------------------------------------------------
(* The invariant                                                            *)

\* The state after the boot is in order.
LEMMA InitInv == Init => Inv
<1> SUFFICES ASSUME Init PROVE Inv
  OBVIOUS
<1>1. \A i \in Tables : TableOK(caps[i], ep, port)
  BY InitTableOK, EmptyTableOK DEF Init
<1>2. caps \in [Tables -> [Handles -> Capability]]
  <2>1. \A i \in Tables : caps[i] \in [Handles -> Capability]
    BY <1>1 DEF TableOK
  <2> QED
    BY <2>1 DEF Init
<1>3. task \in [Slots -> Tasks]
  BY DEF Init, Tasks
<1> QED
  BY <1>1, <1>2, <1>3 DEF Inv, TypeOK, Init

\* Every system call, creation and reaping of a task keeps the invariant.
LEMMA StepInv == Inv /\ [Next]_vars => Inv'
<1> SUFFICES ASSUME Inv, [Next]_vars PROVE Inv'
  OBVIOUS
<1>t. /\ task \in [Slots -> Tasks]
      /\ next_pid \in Nat
      /\ caps \in [Tables -> [Handles -> Capability]]
      /\ ep \in [0 .. IPC_MAX_ENDPOINTS - 1 -> {"ACTIVE", "DEAD"}]
      /\ port \in [0 .. IPC_MAX_PORTS - 1 -> {"ACTIVE", "DEAD"}]
      /\ reg \in [Names -> [owner : Nat, handle : Handles] \cup {NULL}]
  BY DEF Inv, TypeOK
<1>ok. \A i \in Tables : TableOK(caps[i], ep, port)
  BY DEF Inv
<1>cap. \A i \in Tables, h \in Handles : CapOK(caps[i][h], ep, port)
  BY <1>ok DEF TableOK
<1>tab. \A s \in Slots : TableOf(task[s].id) \in Tables
  BY <1>t, TableInRange DEF Tasks
<1>own. \A n \in Names : reg[n] # NULL => reg[n].owner \in Nat /\ reg[n].handle \in Handles
  BY <1>t
<1>1. ASSUME NEW s \in Callers, NEW inherits \in BOOLEAN, sched_create_thread(s, inherits)
      PROVE  Inv'
  <2> DEFINE i == TableOf(next_pid)
             fresh == [caps EXCEPT ![i] = InitTable]
  <2>1. i \in Tables
    BY <1>t, TableInRange
  <2>2. /\ fresh \in [Tables -> [Handles -> Capability]]
        /\ \A k \in Tables : TableOK(fresh[k], ep, port)
    <3>1. TableOK(InitTable, ep, port)
      BY InitTableOK
    <3>2. \A k \in Tables : TableOK(fresh[k], ep, port)
      BY <1>t, <1>ok, <2>1, <3>1
    <3>3. InitTable \in [Handles -> Capability]
      BY <3>1 DEF TableOK
    <3> QED
      BY <1>t, <3>2, <3>3
  <2>3. TableOf(task[s].id) \in Tables
    BY <1>tab DEF Callers
  <2>4. caps' = [fresh EXCEPT ![i] = fresh[TableOf(task[s].id)]] \/ caps' = fresh
    BY <1>1 DEF sched_create_thread
  <2>5. UNCHANGED <<ep, port, reg>>
    BY <1>1 DEF sched_create_thread
  <2>6. /\ caps' \in [Tables -> [Handles -> Capability]]
        /\ \A k \in Tables : TableOK(caps'[k], ep, port)
    <3> HIDE DEF i, fresh
    <3>1. TableOK(fresh[TableOf(task[s].id)], ep, port)
      BY <2>2, <2>3
    <3>2. fresh[TableOf(task[s].id)] \in [Handles -> Capability]
      BY <2>2, <2>3
    <3>3. CASE caps' = fresh
      BY <2>2, <3>3
    <3>4. CASE caps' = [fresh EXCEPT ![i] = fresh[TableOf(task[s].id)]]
      <4> DEFINE tab == fresh[TableOf(task[s].id)]
      <4> HIDE DEF tab
      <4>1. caps' = [fresh EXCEPT ![i] = tab] /\ TableOK(tab, ep, port) /\ tab \in [Handles -> Capability]
        BY <3>1, <3>2, <3>4 DEF tab
      <4> QED
        BY <2>1, <2>2, <4>1
    <3> QED
      BY <2>4, <3>3, <3>4
  <2>7. task' \in [Slots -> Tasks] /\ next_pid' \in Nat
    BY <1>1, <1>t DEF sched_create_thread, Tasks
  <2> QED
    BY <1>t, <2>5, <2>6, <2>7 DEF Inv, TypeOK
<1>2. ASSUME NEW s \in Callers, sys_exit(s) PROVE Inv'
  <2>1. task' \in [Slots -> Tasks]
    BY <1>2, <1>t DEF sys_exit, Tasks, Callers
  <2> QED
    BY <1>2, <1>t, <1>ok, <2>1 DEF sys_exit, Inv, TypeOK
<1>3. ASSUME NEW s \in Callers, sys_ipc_endpoint_create(s) PROVE Inv'
  <2> DEFINE i == TableOf(task[s].id)
  <2>1. i \in Tables
    BY <1>tab DEF Callers
  <2>2. CASE UNCHANGED vars
    BY <2>2, <1>t, <1>ok DEF Inv, TypeOK, vars
  <2>3. ASSUME NEW send \in DOMAIN ep, NEW e \in DOMAIN ep, NEW hs \in Handles, NEW h \in Handles,
               AllocSlot(caps[i], hs), AllocSlot(caps[i], h),
               ep' = [ep EXCEPT ![send] = "ACTIVE", ![e] = "ACTIVE"],
               caps' = [caps EXCEPT ![i][hs] = SendCap(send), ![i][h] = RecvCap(e)],
               UNCHANGED <<task, next_pid, port, reg>>
        PROVE  Inv'
    <3>1. ep' \in [0 .. IPC_MAX_ENDPOINTS - 1 -> {"ACTIVE", "DEAD"}]
      BY <1>t, <2>3
    <3>2. CapOK(RecvCap(e), ep', port)
      BY <1>t, <2>3 DEF CapOK, RecvCap, Capability, ObjTypes, Rights, Granted
    <3>h. hs = h
      BY <2>3, SameSlot
    <3>3. \A k \in Tables, j \in Handles : CapOK(caps[k][j], ep', port)
      BY <1>t, <1>cap, <2>3 DEF CapOK
    <3>4. \A k \in Tables : TableOK(caps[k], ep', port)
      BY <3>3, <1>t DEF TableOK
    <3>5. TableOK([caps[i] EXCEPT ![h] = RecvCap(e)], ep', port)
      BY <2>1, <3>2, <3>4, SlotOK
    <3>6. caps' = [caps EXCEPT ![i] = [caps[i] EXCEPT ![h] = RecvCap(e)]]
      BY <2>3, <1>t, <2>1, <3>h
    <3> HIDE DEF i
    <3>7. /\ caps' \in [Tables -> [Handles -> Capability]]
          /\ \A k \in Tables : TableOK(caps'[k], ep', port)
      <4> DEFINE tab == [caps[i] EXCEPT ![h] = RecvCap(e)]
      <4> HIDE DEF tab
      <4>1. caps' = [caps EXCEPT ![i] = tab] /\ TableOK(tab, ep', port)
        BY <3>5, <3>6 DEF tab
      <4>2. tab \in [Handles -> Capability]
        BY <4>1 DEF TableOK
      <4> QED
        BY <1>t, <2>1, <3>4, <4>1, <4>2
    <3> QED
      BY <1>t, <2>3, <3>1, <3>7 DEF Inv, TypeOK
  <2> QED
    BY <1>3, <2>2, <2>3 DEF sys_ipc_endpoint_create
<1>4. ASSUME NEW s \in Callers, sys_ipc_port_create(s) PROVE Inv'
  <2> DEFINE i == TableOf(task[s].id)
  <2>1. i \in Tables
    BY <1>tab DEF Callers
  <2>2. CASE UNCHANGED vars
    BY <2>2, <1>t, <1>ok DEF Inv, TypeOK, vars
  <2>3. ASSUME NEW q \in DOMAIN port, NEW h \in Handles,
               port' = [port EXCEPT ![q] = "ACTIVE"],
               caps' = [caps EXCEPT ![i][h] = PortCap(q)],
               UNCHANGED <<task, next_pid, ep, reg>>
        PROVE  Inv'
    <3>1. port' \in [0 .. IPC_MAX_PORTS - 1 -> {"ACTIVE", "DEAD"}]
      BY <1>t, <2>3
    <3>2. CapOK(PortCap(q), ep, port')
      BY <1>t, <2>3 DEF CapOK, PortCap, Capability, ObjTypes, Rights, Granted
    <3>3. \A k \in Tables, j \in Handles : CapOK(caps[k][j], ep, port')
      BY <1>t, <1>cap, <2>3 DEF CapOK
    <3>4. \A k \in Tables : TableOK(caps[k], ep, port')
      BY <3>3, <1>t DEF TableOK
    <3>5. TableOK([caps[i] EXCEPT ![h] = PortCap(q)], ep, port')
      BY <2>1, <3>2, <3>4, SlotOK
    <3>6. caps' = [caps EXCEPT ![i] = [caps[i] EXCEPT ![h] = PortCap(q)]]
      BY <2>3, <1>t, <2>1
    <3> HIDE DEF i
    <3>7. /\ caps' \in [Tables -> [Handles -> Capability]]
          /\ \A k \in Tables : TableOK(caps'[k], ep, port')
      <4> DEFINE tab == [caps[i] EXCEPT ![h] = PortCap(q)]
      <4> HIDE DEF tab
      <4>1. caps' = [caps EXCEPT ![i] = tab] /\ TableOK(tab, ep, port')
        BY <3>5, <3>6 DEF tab
      <4>2. tab \in [Handles -> Capability]
        BY <4>1 DEF TableOK
      <4> QED
        BY <1>t, <2>1, <3>4, <4>1, <4>2
    <3> QED
      BY <1>t, <2>3, <3>1, <3>7 DEF Inv, TypeOK
  <2> QED
    BY <1>4, <2>2, <2>3 DEF sys_ipc_port_create
<1>5. ASSUME NEW i \in Tables, NEW h \in Handles, NEW c, CapOK(c, ep, port),
             caps' = [caps EXCEPT ![i][h] = c],
             UNCHANGED <<task, next_pid, ep, port, reg>>
      PROVE  Inv'
  <2>1. TableOK([caps[i] EXCEPT ![h] = c], ep, port)
    BY <1>5, <1>ok, SlotOK
  <2>2. caps' = [caps EXCEPT ![i] = [caps[i] EXCEPT ![h] = c]]
    BY <1>5, <1>t
  <2>3. /\ caps' \in [Tables -> [Handles -> Capability]]
        /\ \A k \in Tables : TableOK(caps'[k], ep, port)
    <3> DEFINE tab == [caps[i] EXCEPT ![h] = c]
    <3> HIDE DEF tab
    <3>1. caps' = [caps EXCEPT ![i] = tab] /\ TableOK(tab, ep, port)
      BY <2>1, <2>2 DEF tab
    <3>2. tab \in [Handles -> Capability]
      BY <3>1 DEF TableOK
    <3> QED
      BY <1>t, <1>ok, <1>5, <3>1, <3>2
  <2> QED
    BY <1>t, <1>5, <2>3 DEF Inv, TypeOK
<1>6. ASSUME NEW s \in Callers, NEW handle \in Handles, sys_ipc_cap_dup(s, handle)
      PROVE  Inv'
  <2> DEFINE i == TableOf(task[s].id)
             c == [caps[i][handle] EXCEPT !.ref = @ + 1]
  <2>1. i \in Tables
    BY <1>tab DEF Callers
  <2>2. CapOK(c, ep, port)
    BY <1>cap, <2>1, CopiedOK
  <2>3. PICK h \in Handles : caps' = [caps EXCEPT ![i][h] = c]
    BY <1>6 DEF sys_ipc_cap_dup
  <2>4. UNCHANGED <<task, next_pid, ep, port, reg>>
    BY <1>6 DEF sys_ipc_cap_dup
  <2> HIDE DEF i, c
  <2> QED
    BY <1>5, <2>1, <2>2, <2>3, <2>4
<1>7. ASSUME NEW s \in Callers, NEW handle \in Handles, NEW mask \in Masks,
             sys_ipc_cap_narrow(s, handle, mask)
      PROVE  Inv'
  <2> DEFINE i == TableOf(task[s].id)
             c == Narrowed(caps[i][handle], mask)
  <2>1. i \in Tables
    BY <1>tab DEF Callers
  <2>2. CapOK(c, ep, port)
    BY <1>cap, <2>1, NarrowedOK
  <2>3. caps' = [caps EXCEPT ![i][handle] = c]
    BY <1>7, <1>t, <2>1 DEF sys_ipc_cap_narrow
  <2>4. UNCHANGED <<task, next_pid, ep, port, reg>>
    BY <1>7 DEF sys_ipc_cap_narrow
  <2> HIDE DEF i, c
  <2> QED
    BY <1>5, <2>1, <2>2, <2>3, <2>4
<1>8. ASSUME NEW s \in Callers, NEW name \in Names, NEW handle \in Handles,
             sys_ipc_ns_register(s, name, handle)
      PROVE  Inv'
  <2>1. task[s].id \in Nat
    BY <1>t DEF Callers, Tasks
  <2>2. Zero \in [owner : Nat, handle : Handles]
    BY SizeAssumption DEF Zero, Handles
  <2>3. reg' \in [Names -> [owner : Nat, handle : Handles] \cup {NULL}]
    BY <1>8, <1>t, <2>1, <2>2 DEF sys_ipc_ns_register
  <2> QED
    BY <1>8, <1>t, <1>ok, <2>3 DEF sys_ipc_ns_register, Inv, TypeOK
<1>9. ASSUME NEW s \in Callers, NEW name \in Names, sys_ipc_ns_lookup(s, name)
      PROVE  Inv'
  <2> DEFINE i == TableOf(task[s].id)
  <2>1. i \in Tables
    BY <1>tab DEF Callers
  <2>2. PICK h \in Handles, k \in OwnerTables(reg[name].owner) :
           caps' = [caps EXCEPT ![i][h] = Derived(caps[k][reg[name].handle])]
    BY <1>9 DEF sys_ipc_ns_lookup
  <2>3. reg[name].owner \in Nat /\ reg[name].handle \in Handles
    BY <1>9, <1>own DEF sys_ipc_ns_lookup
  <2>4. k \in Tables
    BY <2>3, TableInRange DEF OwnerTables
  <2>5. CapOK(Derived(caps[k][reg[name].handle]), ep, port)
    BY <1>cap, <2>3, <2>4, DerivedOK
  <2>6. UNCHANGED <<task, next_pid, ep, port, reg>>
    BY <1>9 DEF sys_ipc_ns_lookup
  <2> HIDE DEF i
  <2> QED
    BY <1>5, <2>1, <2>2, <2>5, <2>6
<1>10. ASSUME NEW s \in Slots, sys_waitpid(s) PROVE Inv'
  <2> DEFINE i == TableOf(task[s].id)
  <2>1. i \in Tables
    BY <1>tab
  <2>2. caps' = [caps EXCEPT ![i] = [h \in Handles |-> NoCap]]
    BY <1>10 DEF sys_waitpid
  <2>3. /\ caps' \in [Tables -> [Handles -> Capability]]
        /\ \A k \in Tables : TableOK(caps'[k], ep, port)
    <3> DEFINE tab == [h \in Handles |-> NoCap]
    <3>1. TableOK(tab, ep, port)
      BY EmptyTableOK
    <3>2. tab \in [Handles -> Capability]
      BY <3>1 DEF TableOK
    <3> HIDE DEF i, tab
    <3> QED
      BY <1>t, <1>ok, <2>1, <2>2, <3>1, <3>2 DEF tab
  <2>4. task' \in [Slots -> Tasks]
    BY <1>10, <1>t DEF sys_waitpid, Tasks
  <2>5. UNCHANGED <<next_pid, ep, port, reg>>
    BY <1>10 DEF sys_waitpid
  <2> QED
    BY <1>t, <2>3, <2>4, <2>5 DEF Inv, TypeOK
<1>11. CASE UNCHANGED vars
  BY <1>11, <1>t, <1>ok DEF Inv, TypeOK, vars
<1> QED
  BY <1>1, <1>2, <1>3, <1>4, <1>6, <1>7, <1>8, <1>9, <1>10, <1>11 DEF Next, CallerStep

\* The calls that the model has no action for return at their checks, for every
\* capability of every table.
LEMMA CallsReturnEarly ==
    Inv => \A i \in Tables, h \in Handles :
              ~(\/ MaySend(caps[i][h]) \/ MayCall(caps[i][h])
                \/ MayRevoke(caps[i][h]) \/ MayResume(caps[i][h]))
<1> SUFFICES ASSUME Inv, NEW i \in Tables, NEW h \in Handles
             PROVE  ~(\/ MaySend(caps[i][h]) \/ MayCall(caps[i][h])
                      \/ MayRevoke(caps[i][h]) \/ MayResume(caps[i][h]))
  OBVIOUS
<1>1. CapOK(caps[i][h], ep, port)
  BY DEF Inv, TableOK
<1>2. caps[i][h].type \in ObjTypes /\ caps[i][h].rights \subseteq Granted(caps[i][h].type)
  BY <1>1 DEF CapOK, Capability
<1>3. ~MaySend(caps[i][h]) /\ ~MayCall(caps[i][h])
  BY <1>2 DEF MaySend, MayCall, Granted
<1>4. ~MayRevoke(caps[i][h])
  BY <1>2 DEF MayRevoke, Granted, ObjTypes
<1>5. ~MayResume(caps[i][h])
  BY <1>1 DEF CapOK, MayResume
<1> QED
  BY <1>3, <1>4, <1>5

------------------------------------------------------------------------------
(* Theorems                                                                 *)

\* The invariant holds in every reachable state.
THEOREM CapsInvariant == Spec => []Inv
<1>1. Init => Inv
  BY InitInv
<1>2. Inv /\ [Next]_vars => Inv'
  BY StepInv
<1> QED
  BY <1>1, <1>2, PTL DEF Spec

\* The tables, pools and registrations have their types.
THEOREM CapsTypeCorrect == Spec => []TypeOK
<1>1. Inv => TypeOK
  BY DEF Inv
<1> QED
  BY <1>1, CapsInvariant, PTL

\* Copying, inheriting, looking up and narrowing never add a right.
THEOREM RightsNeverGrow == Spec => []NoAmplification
<1>1. Inv => NoAmplification
  BY DEF Inv, TableOK, CapOK, NoAmplification
<1> QED
  BY <1>1, CapsInvariant, PTL

\* Every capability is on an active object of its pool.
THEOREM CapabilitiesAreLive == Spec => []NamesActiveObject
<1>1. Inv => NamesActiveObject
  BY DEF Inv, TableOK, CapOK, NamesActiveObject
<1> QED
  BY <1>1, CapsInvariant, PTL

\* The slot that ipc_cap_alloc_slot returns for the sending end of an endpoint is
\* returned for the receiving end again, and what is stored for the first is
\* lost: no task ever holds a capability to send, call, destroy, revoke, pause or
\* drain with, and no object is ever paused.  What sys_ipc_endpoint_create stores
\* in out_send does not do what its name says.
THEOREM NothingIsEverSent ==
    Spec => [](\A i \in Tables, h \in Handles :
                  ~(\/ MaySend(caps[i][h]) \/ MayCall(caps[i][h])
                    \/ MayRevoke(caps[i][h]) \/ MayResume(caps[i][h])))
  BY CapsInvariant, CallsReturnEarly, PTL
=============================================================================
