# TLA+ specifications of the SageOS kernel

SageOS is a small, cooperative, single-address-space kernel (C, under
`src/sageos_build/kernel`) that runs SageLang scripts. These modules model the
parts of it that keep state and can go wrong over several steps; TLC checks them
on small instances and TLAPS proves the central properties for all sizes.

Paths below are relative to `src/sageos_build/kernel` unless they start with
`sage_lang/`, which is `src/sageos_build/sage_lang`, or `docs/`.

## The system and its modules

One CPU runs one task at a time; a task gives the CPU up only inside
`sched_schedule`. So a call that does not yield is one action, and what
interleaves is: tasks at scheduling points, the block device beside the driver,
CPUs around the trace lock, a machine that stops between two sector writes, and a
garbage collector inside any allocation.

| Part | Code | Module | Proofs |
|---|---|---|---|
| task table, switch, vfork, waitpid, exit, watchdog, idle loop | core/scheduler.c, core/syscall.c, core/virt_main.c | `Scheduler` | `SchedulerProofs` |
| ... as a life cycle of process ids | (abstract) | `PidLifecycle` | |
| programs in memory: execve, vfork child, the saved copy | fs/elf.c, core/syscall.c | `Process` (extends `Scheduler`) | |
| kernel heap | core/sagelang/sage_alloc.c | `SageAlloc` | `SageAllocProofs` |
| trace ring, several CPUs | core/telemetry.c | `Telemetry` | `TelemetryProofs` |
| ... as a log of the recent events | (abstract) | `EventLog` | |
| block driver and device | core/virtio.c | `VirtioBlk` | `VirtioBlkProofs` |
| FAT32 reads, writes, crashes | fs/fat32.c | `Fat32` | `Fat32Proofs` |
| IPC names | core/ipc.c | `IpcNamespace` | |
| IPC capabilities and objects | core/ipc.c, core/scheduler_ipc_ext.c | `IpcCaps` | `IpcCapsProofs` |
| bytecode interpreter of the kernel and its collector | core/sagelang/metal_vm.c | `MetalVm` | `MetalVmProofs` |
| tracing collector of the script interpreter | sage_lang/core/src/c/gc.c, env.c | `SageGc` | `SageGcProofs` |
| script interpreter, its root stacks, the lock | sage_lang/core/src/c/interpreter.c, core/sagelang/sageos_bridge.c | `SageInterp` (extends `SageGc`) | |

`MCFat32`, `MCIpcCaps`, `MCMetalVm`, `MCSageInterp` only give constants that a `.cfg` cannot
write (tuples, functions) and symmetry sets.

How the parts meet: `Process` extends `Scheduler`, and every one of its steps is a
step of the task table together with what happens to the programs; `IpcCaps` has
the task table's creation, exit and reaping again, reduced to what the capability
tables see; `Fat32` uses sector transfers that `VirtioBlk` shows to move what they
say; `SageInterp` extends `SageGc` and is shown to implement it: the collector alone
is specified under an interpreter that may do anything between collections
(`Mutate`), and is proved there.

### State and actions

**Scheduler.** `state`, `id`, `cont` are the fields of `g_tasks`; `cont` is the
kernel code a suspended task continues in (its loop in `sys_waitpid`, its wait in
`sys_vfork`, or its own program). `current` is `g_current_task`. `fed` and `ticks`
are the watchdog's comparison of counters and its silent ticks. One action for each
of `os_spawn_task`, `sched_yield`, `sched_block`, `sched_unblock`, `sys_vfork`,
`sys_exit`, `sys_waitpid`, a due tick (`sched_timer_tick`), and each turn of the
idle loop in `kmain`. `sched_schedule` is an operator on the table, since it is the
tail of most of them; a waiter that is switched to runs on to its next decision
within the same step.

**Process.** Programs lie on top of each other, so one place of memory is modelled,
with the owner of its contents. `span` is what `elf_base` and `elf_size` of a task
say about the program it executes: nothing, all of it, or something else.
`sys_execve` first copies the parent's span when the caller is a vfork child and no
copy exists, then records the span of the new file, and only then does `elf_exec`
accept the file (`Enter`) or reject it, possibly with a segment already loaded
(`Reject`); the span stays in both cases. `execelf`, the shell's command, calls
`elf_exec` alone. `sys_exit` writes the copy back to the parent's span (`Restore`,
`PutBack`). `spoiled` records that the code itself has lost a program: another
task's exit woke the vfork parent, a child was loaded over a parent of which there
is no whole copy (no room for it, no span recorded, the span of a rejected file),
or a file failed half way. The properties speak of behaviours before that.

**SageAlloc.** The free list is a sequence of blocks, in list order; `live` the
blocks handed out; `bump` the bump pointer. `sage_malloc` takes the first fit,
splits it if the rest can hold a block, or bumps. Sums of sizes wrap at `SIZE_MOD`
(`Wrap`), and `SizesAssumption` keeps requests so far below it that none does: the
code checks neither the rounding in `sage_malloc_tagged` nor the product in
`sage_calloc_tagged`, so requests within a few bytes of 2^64 are outside of what is shown.
`sage_free` inserts in address order and absorbs both neighbours; `sage_realloc`
stays in place or moves; `sage_arena_reset` empties.

**Telemetry.** Each call of a CPU is several steps (take the lock, fill the slot,
advance; a dump walks the ring entry by entry). `log` is a history of what has been
logged since the last clear.

**VirtioBlk.** A call is: header, descriptors, publish, poll, collect. The device
(external) fetches a published chain at any later moment, reading header and
descriptors as they are then, and completes in order.

**Fat32.** A write is a sequence of steps, each with at most one sector write:
extend the chain link by link (two FAT writes per link), copy sector by sector,
rewrite the directory entry. `Crash` ends it anywhere. `torn` records a crash
between the two FAT writes of one link. Init is every consistent layout of the
files. Three things are assumed of the volume: every entry of the FAT has its
cluster (a FAT whose last sector has entries behind the last cluster would let
fs/fat32.c:168 allocate one of those); no write ends beyond 2^32, where the size
would be cut (fs/fat32.c:793); and there are two FATs, as `mkfs.fat` makes them
(scripts/gen_virt_disk.sh), so that what is written to cluster 0 lands in the copy
that nobody reads. A write that finds no free cluster returns before it copies
anything, with what it has linked so far left in the chain (`NoneFree`).

**IpcNamespace.** The trie in the fixed pool of entries; `ipc_ns_insert` is one
action that descends and creates, and may run out of entries half way.

**IpcCaps.** A capability is type, object, rights; a table is a function of handles.
One action per system call that can change something. `sys_ipc_endpoint_create`
makes the object and handle to send and the object and handle to receive as the
code does, each found in the state before the other is entered, which is why the
two coincide. `sys_ipc_cap_narrow` refuses an IMMUTABLE capability, and none is.

**MetalVm.** `stack`/`sp`, `frames`, `scopes`/`depth`, and the pools: which slots are
in use, which lie below `array_count` or `dict_count` (`taken`), and the contents of
each. The program is any sequence of instructions. A collection happens inside an
allocation that finds its pool full, with the roots the code marks at that moment.
Two interpreters outlive a run of their program. Functions of `g_vfs_vm` are called
once its main has ended without an error; after a query (`vfs_stat`, `vfs_readdir`,
`vfs_read`) the file system sets the counts back, `vfs_reset`. The main of
`g_sage_shell_vm` is run again by every `sageshell`, with an empty stack and the
global scope but the frames that the last run has left, `stale` of them
(`sage_shell_run`). Three histories bound what the properties promise: `dipped`
(the program popped below its own frame), `uneven` (it left a scope open, or
returned into a frame of an earlier run) and `loose` (a native or a slice held an
object outside the roots while a collection ran, or counts were set back below an
object that a variable still holds).

**SageGc.** A node is an object or an environment, `holds` and `scope` what it
refers to. `color`, `marked` and `phase` are the collector's; gray objects stand for
the mark stack, drained in any order. `gc_begin_cycle`, a round of `gc_mark_step`,
`gc_remark` and the sweep are actions, although nothing runs between them today.

**SageInterp.** A call of `eval_expr` or `interpret` in progress is a frame: its
form, its place in it, the values in its locals, its environment and the one it
made. A form (`Binary`, `Method`, `For`, `Try`, ...) is the list of the steps that
matter to the collector in the order of the code, so that the order of evaluating,
pushing, binding and popping is read off the source; one action per kind of step
interprets them. What a form takes off the root stacks at its end is the number
that the code names there (`Pops`, `CallPops`, `PopEnvs`), and not what it pushed,
for every way out: the normal end, an exception from a step, an early return for an
operand of the wrong kind (`Checks`). Which values are on the root stack of a task
is the variable `temps`, independent of what the frames hold: whether the two fit
is the question.
Natives that make objects pin the collector while they do (value.c), and so are one
step. `loose` records that a collection has run while a frame held a value where the
code does not root it, or that a push was dropped at the limit.

## Runs

Type invariants that are proved (`SageAlloc`, `Telemetry`, `VirtioBlk`, `IpcCaps`,
`MetalVm`, `SageGc`) are not checked again by a run.

Each run asks one question; `PROJECT.json` lists its properties, and each property
has a mutant of the code under which TLC refutes it.

| Run | Instance | What it shows |
|---|---|---|
| `sched_fair` | 4 tasks, 5 pids, watchdog 6 = 2*(MAX_TASKS-1) | with fairness, a READY task is switched to, and the smallest timeout the theorem allows never panics |
| `process` | 4 tasks, 5 pids, watchdog 1 | table invariants, no lost exit, refinement of `PidLifecycle`, the right program in memory |
| `process_vfork` | 4 tasks, 4 pids | *violated*: an unrelated exit wakes the vfork parent |
| `heap` | 240 bytes, requests 0, 1, 20, 50, sizes modulo 1024 | list sorted and merged, no overlap, no lost byte, whole again when all is freed |
| `telemetry` | ring of 2, 2 CPUs, 2 events, 5 logged | the ring holds the tail of the log; refinement of `EventLog` |
| `virtio` | 2 sectors, 2 values, 2 buffers, indices modulo 4, one timeout | success means the data moved; the device touches nothing else; every call returns |
| `ipc_namespace` | 5 entries, names of up to 3 of 2 segments, 2 services | the trie is a tree, a name finds what was registered last |
| `ipc_caps` | 3 task slots, 2 tables, 2 handles, 4 pids, 2 names | no right is gained, nothing dangles, a capability changes only by being narrowed |
| `fat32` | 2 files, 4 data clusters of 2 sectors of 2 bytes, 2 writes | chains stay apart, other bytes untouched, written is read back, through crashes |
| `fat32_growth` | the same, paths as the VFS passes them | *violated*: an extended file keeps its old size |
| `metal_vm` | stack 3, 2 frames, 3 scopes, one array, one dictionary | reachable objects stay, a return restores operands and scope, also in calls after main and in a second run of it |
| `sage_interp` | 2 objects, 3 environments, 2 tasks, root stacks of 4, 5 frames, 3 nested forms | what the calls in progress hold survives every collection; collections free exactly the garbage; whatever way a form is left, the root stacks are as high as the calls in progress account for; the interpreter implements `GcSpec` |

The bounds are the smallest at which the cases meet: four tasks are the idle task,
a parent, its vfork child and a stranger that exits; three requests that do not
divide each other split, merge and exhaust a 240-byte arena; a ring of two wraps
and is overwritten within five events; four indices wrap while one chain is in the
queue; four data clusters let a file grow over a hole left by the other, and fill
the disk; a pool of one object is full at the second allocation; a container and an
element in three nested forms are enough for a value to be held by one call while
another collects. `Explored` names the forms tried at each depth: every form at the
outermost, those that hold a value over a call or raise and return further in.
The second depth has the super call, whose surplus of pops would go unnoticed on an
empty stack.

`PID_LIMIT`, `LOG_LIMIT`, `REF_LIMIT`, `TIMEOUT_LIMIT`, `WRITES`, `ENVS`,
`FRAME_LIMIT`, `FORM_LIMIT` cap counters and are guards of the actions they bound.
`Unspoiled`, `Untorn` and `Telling` (`MetalVm`, `SageInterp`) stop the exploration
behind the first event after which the code promises nothing (each is a history
variable, and each such event is listed under *Observations*). In `metal_vm` they
also keep the pools empty after an error and with frames of an earlier run, and
without dictionaries in the shell and in the third scope: combinations that only
the theorems cover. Deadlock checking is
off where the bounded counters end every behaviour, and in `metal_vm`, where an
interpreter `g_vfs_vm` whose main has failed is never called again.

### Fairness

Only two liveness properties are claimed. `NoStarvation` assumes that the idle loop
of `kmain` keeps running when switched to (it never waits), that ticks come due and
a task that does not give the CPU up polls for them, and that a waiter in
`sys_waitpid` goes on when it is scheduled. The timer runs at 100 Hz; the polling is
done by the instruction loop of the bytecode interpreter
(core/sagelang/metal_vm.c:1209), by waiting for a key (core/virt_keyboard.c:18) and
by `timer_delay_ms`. `sched_yield` does not poll, and a machine-code program that
neither yields nor calls one of these keeps the CPU: for it nothing is claimed.
`EveryCallReturns` assumes
that the polling driver runs and that the device works off what it has fetched;
nothing is assumed about how fast, so reads may time out first.

## Proofs

All theorems hold for every value of the constants that the named assumptions
allow. Each module of proofs states an inductive invariant, one lemma that the
initial states satisfy it, one that every step preserves it (a case for every
action, a step for every conjunct it can disturb), and the theorems as
consequences.

* `SchedulerProofs` - `SchedInv`: types, the idle task is runnable, exactly the
  current task RUNNING, live ids distinct and below `next_pid`, and a task blocked
  in waitpid waits for a live task. Runnability of the idle task is what makes
  `sched_schedule` total. For the watchdog, `WatchdogInv`: since the last feeding
  every tick has switched to a different slot in cyclic order, so the number of
  silent ticks is bounded by the distance walked; under
  `2*(MAX_TASKS-1) <= WATCHDOG_TIMEOUT_TICKS` it cannot fire.
* `SageAllocProofs` - `HeapInv`: the list is sorted with a gap between neighbours,
  everything is aligned, free and live blocks are apart, and together cover the
  arena up to the bump pointer. The gap is what makes absorbing two neighbours
  enough; coverage is what turns "all freed" into one block.
* `TelemetryProofs` - mutual exclusion, and `Ring` at the head and count as they
  will be when the pending entry is in: entry k of the ring is entry k of the tail
  of the log.
* `VirtioBlkProofs` - as long as nothing timed out, where the driver is determines
  where the one request is: not published, available, in the device, or done.
* `IpcCapsProofs` - every capability in every table has at most the rights its
  type is created with and names an active object. That the two handles of a new
  endpoint are one (`SameSlot`) makes the capability to receive the only one, and
  so no table ever has one to send (`NothingIsEverSent`): send and call, revoke and
  destroy, pause, drain and resume return early (`CallsReturnEarly`).
* `Fat32Proofs` - `Consistent` (no cluster has two predecessors, links lead to
  allocated clusters except the one being appended) unless `torn`, and `Progress`
  (what holds at each step of a write), over any number of writes and crashes.
* `MetalVmProofs` - the type invariant; for `LiveObjectsKept`: what is reachable
  from stack and scopes is in use and below the counts, which the collector
  re-establishes because its marks are the least closed set over the roots, and
  `vfs_reset` because it gives up only what no variable holds unless `loose`; and a
  chain invariant that gives every frame of this run the operands and the depth its
  caller had. Frames below `stale` are left out of it: their operands are gone.
* `SageGcProofs` - `Inv`: marks are clear between collections; within one, the roots
  have been seen, marked environments and black objects refer only to what has been
  seen, and every closed set that contains the roots contains what has been seen.
  With no gray object left the nodes seen are closed, hence exactly the reachable
  ones. The last conjunct is what makes the sweep exact and not only safe.

Leaves of `MetalVmProofs` name Zenon wherever it suffices: tlapm's translation for the
SMT solver slows down over a module of that length. Every proof module passes from
an empty cache also with all timeouts cut to 0.4 of their value (`--stretch 0.4`).

Only model-checked: the liveness properties, the three refinements, `IpcNamespace`
(its walk is a fold over a name), `OnlyNarrowed`, `ReadBack`, `ReadsFile` and
`InPlace` of `Fat32` (what a chain contains is defined by recursion along it), and
the properties of `Process` and of `SageInterp` but `SweptExactly`.

## Observations

Where the code and what is said about it differ. The first two are runs.

* `sched_exit` makes every BLOCKED task READY (core/scheduler.c:222) and
  `sys_vfork` does not look again: the parent runs beside its child, on the same
  program (`process_vfork`; docs/specs/syscall_abi.md:40).
* `fat32_update_directory_entry` compares the whole path with names in the root
  directory and VFS paths start with a slash, so the size never grows
  (`fat32_growth`; include/vfs.h:88).
* A read that times out leaves its chain in the queue (core/virtio.c:270); the late
  completion ends the next call, which returns success before its own request is
  done. `timeouts = 0` in the properties of `VirtioBlk` is this; include/ata.h:13
  calls the interface synchronous.
* Repeated vfork can keep the CPU from the idle loop until the watchdog panics
  (core/syscall.c:567), while a deadlock of all tasks leaves the idle loop feeding
  it (core/virt_main.c:219).
* `sys_execve` without room for the copy overwrites the parent (fs/elf.c:137); a
  file that fails half way leaves half a program (fs/elf.c:50, 66); a rejected file
  leaves its own span with the caller (fs/elf.c:154), of which the next copy is
  taken; `execelf` records no span (shell/shell.c:791), so that no copy is taken;
  the heap behind a program is not saved (fs/elf.c:138, against the comment in 134).
* The heap never joins the last free block with the space above the bump pointer
  (core/sagelang/sage_alloc.c:84).
* IPC: tables are indexed by id modulo 64 while there are 128 tasks
  (include/scheduler_ipc_ext.h:51); the root of the namespace is an entry like any
  other, so copies of the first segment alias it (core/ipc.c:336); copying counts
  references and nothing uncounts them (core/ipc.c:791); looking up a prefix that
  nobody registered yields a handle on an empty slot (core/ipc.c:633).
* Creating an endpoint overwrites the capability to send with the one to receive
  (core/ipc.c:395): both handles are searched for before either is entered. By
  `NothingIsEverSent` nobody can ever send, whereas include/ipc.h:259 hands out
  `out_send_cap` and docs/architecture/ipc.md:239 sends over a new channel, which is
  made by the same function (core/ipc.c:603).
* MetalVM: the compiler emits a POP after JUMP_IF_FALSE and SET_GLOBAL because the
  host VM peeks there (sage_lang/core/src/vm/bytecode.c:548, vm.c:715), while
  metal_vm.c pops (938, 771): one POP too many, `dipped`. Objects held by natives
  (fs/vfs.c:183, shell/sage_shell_entry.c:806) and the operand of OP_SLICE
  (metal_vm.c:973) are not roots, `loose`. METAL_ENV_DEPTH (32) is below
  METAL_CALL_STACK (128), so calls beyond the limit share a scope, `uneven`. A run of
  SageShell that is stopped inside a function leaves `frame_count` as it is
  (shell/sage_shell_entry.c:1083), and the end of the next main returns into that
  function. After a query the counts are set back whatever the script has kept
  (fs/vfs.c:589), and a kept object is handed out a second time, `loose`.
* Two FAT writes append a cluster, the link first (fs/fat32.c); a crash between
  them leaves a chain into a free cluster, `torn`.
* Script interpreter, all under `loose`: the collection at every 100th statement
  (sage_lang/core/src/c/interpreter.c:3313) and the native `gc_collect` ignore the pin
  count, so an array, dictionary or tuple literal whose elements call functions
  (2466-2512) is collected while it is built; the result of a block is not a root
  while its deferred statements run (3426); the message of an exception and the
  dictionaries of enums and traits are not roots while the next object is allocated
  (3733, 3633-3663); a push beyond 1024 values or 256 environments is dropped
  silently (44, 72) while the pops that follow are not.
* The lock of the interpreter is not counted: a nested release gives it away
  (core/sagelang/sageos_bridge.c:210), and the one error jump buffer belongs to
  whichever script started last (223).

## Not modelled, and why

* **VFS switch, bridge script, file descriptors** (fs/vfs.c, fs/vfs_bridge.sage,
  core/syscall.c): a path goes to a C backend or to a script, and the two fall back
  on each other; what an operation does then depends on the script, which is
  compiled from a file that the kernel only carries as bytecode. Per-task
  descriptor tables are arrays of independent entries without sharing (vfork copies
  them). The part that interacts, allocation by natives, is in `MetalVm`.
* **Btrfs, swap, partition probing, long file names**: read the disk and keep
  nothing.
* **ATA PIO, console, keyboard, framebuffer, network ports**: device protocols in
  which the interesting half is the device.
* **Page allocator, `brk`, `dmesg`**: a bitmap, a bounds check and a character
  ring, each changed in one place by calls that do not yield.
* **Shell commands, scripts, C library shim, marshalling of IPC arguments**: parsing,
  printing and calls of the parts above. What outlives a command of the shell, the
  program that `execelf` loads and the interpreter `g_sage_shell_vm`, is in
  `Process` and `MetalVm`.
* **IPC messages behind the checks**: unreachable, by `NothingIsEverSent`; receivers
  and acceptors only ever block.
* **In the script interpreter**: the jump out of it on an error, which leaves pins and
  root stacks as they are; the resumption of generators; a second catch clause;
  imports, gas and the profiler; async calls, whose threads the kernel's port refuses
  to create (core/sagelang/libsage_port.c:243); the reference-counting modes of gc.c,
  which only a script's `gc_set_arc` or `gc_set_orc` turns on.
* **Lexer, parser, module loader, values and natives of SageLang**: parsing and pure
  functions on data, without state that two steps share.
* **SageLang's compilers, host VM, linter, formatter, language server, GPU and ML
  back ends**: not part of the kernel; they run on a host.
