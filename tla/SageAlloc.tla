------------------------------ MODULE SageAlloc ------------------------------
(***************************************************************************)
(* The kernel heap of core/sagelang/sage_alloc.c: a static arena, a bump    *)
(* pointer, and an explicit free list that sage_free keeps in address order *)
(* and coalesces.                                                           *)
(*                                                                         *)
(* An address is an offset into sage_heap, a size a number of bytes.  A     *)
(* call holds g_alloc_lock from start to end and never yields while it does *)
(* (the kernel is cooperative), so a call is one action.  The contents of   *)
(* blocks and the per-tag statistics, which no decision reads, are left     *)
(* out.  Callers free what they were given and once (the contract of C).    *)
(***************************************************************************)
EXTENDS Integers, Sequences

CONSTANTS SAGE_ARENA_SIZE,  \* length of sage_heap
          SIZE_MOD,         \* number of values of size_t
          Sizes             \* the sizes callers ask for

ASSUME ArenaAssumption == SAGE_ARENA_SIZE \in Nat \ {0}

\* Neither a request nor the arena is so large that adding a header and the
\* rounding wraps.  sage_malloc_tagged does not check that, nor does
\* sage_calloc_tagged check its product: nothing is said of such requests.
ASSUME SizesAssumption ==
    /\ SIZE_MOD \in Nat
    /\ SAGE_ARENA_SIZE + 15 < SIZE_MOD
    /\ \A n \in Sizes : n \in Nat /\ n + 31 < SIZE_MOD

VARIABLES bump,  \* sage_bump
          free,  \* g_free_list, the blocks in the order of their next pointers
          live   \* the blocks callers hold: address, header and wanted size

vars == <<bump, free, live>>

ALLOC_HEADER_SIZE == 16
ALIGNMENT == 16
FREE_BLOCK_SIZE == 16   \* sizeof(FreeBlock)

\* The sum of two size_t values; under SizesAssumption none wraps.
Wrap(n) == IF n >= SIZE_MOD THEN n - SIZE_MOD ELSE n

ALIGN(size) == (Wrap(size + (ALIGNMENT - 1)) \div ALIGNMENT) * ALIGNMENT

Needed(size) == ALIGN(Wrap(size + ALLOC_HEADER_SIZE))

\* The pointer surgery on the list, as functions on sequences.
RemoveAt(f, i) == [j \in 1 .. Len(f) - 1 |-> IF j < i THEN f[j] ELSE f[j + 1]]
InsertAt(f, i, x) ==
    [j \in 1 .. Len(f) + 1 |-> IF j < i THEN f[j] ELSE IF j = i THEN x ELSE f[j - 1]]

FreeBlock == [addr : Nat, size : Nat]
LiveBlock == [addr : Nat, user : Nat, want : Nat]

\* What sage_free computes from the header of a block.
TotalSize(b) == ALIGN(Wrap(b.user + ALLOC_HEADER_SIZE))

TypeOK ==
    /\ bump \in 0 .. SAGE_ARENA_SIZE
    /\ free \in Seq(FreeBlock)
    /\ live \subseteq LiveBlock

Init ==
    /\ bump = 0
    /\ free = <<>>
    /\ live = {}

------------------------------------------------------------------------------
(* sage_malloc_tagged                                                       *)

\* The scan of the free list stops at its i-th block.
FirstFit(needed, i) ==
    /\ free[i].size >= needed
    /\ \A j \in 1 .. i - 1 : free[j].size < needed

NoFit(needed) == \A i \in 1 .. Len(free) : free[i].size < needed

\* A block is split when the rest can hold a free block of its own.
Splits(size, needed) == size >= needed + FREE_BLOCK_SIZE + ALIGNMENT

\* Mutant: an unsplit block stays on the free list.
CarveKeeps(f, i, needed) ==
    IF Splits(f[i].size, needed)
    THEN [f EXCEPT ![i] = [addr |-> f[i].addr + needed, size |-> f[i].size - needed]]
    ELSE f

Carve(f, i, needed) ==
    IF Splits(f[i].size, needed)
    THEN [f EXCEPT ![i] = [addr |-> f[i].addr + needed, size |-> f[i].size - needed]]
    ELSE RemoveAt(f, i)

\* Mutant: the header records the needed size even when the block is larger.
CarvedShort(f, i, size) ==
    [addr |-> f[i].addr, user |-> Needed(size) - ALLOC_HEADER_SIZE, want |-> size]

Carved(f, i, size) ==
    [addr |-> f[i].addr,
     user |-> (IF Splits(f[i].size, Needed(size)) THEN Needed(size) ELSE f[i].size)
                 - ALLOC_HEADER_SIZE,
     want |-> size]

Bumped(size) ==
    [addr |-> bump, user |-> Needed(size) - ALLOC_HEADER_SIZE, want |-> size]

OutOfMemory(size) ==
    /\ NoFit(Needed(size))
    /\ bump + Needed(size) > SAGE_ARENA_SIZE

sage_malloc(size) ==
    \/ /\ size = 0 \/ OutOfMemory(size)
       /\ UNCHANGED vars
    \/ /\ size # 0
       /\ \E i \in 1 .. Len(free) :
             /\ FirstFit(Needed(size), i)
             /\ free' = Carve(free, i, Needed(size))
             /\ live' = live \cup {Carved(free, i, size)}
       /\ UNCHANGED bump
    \/ /\ size # 0
       /\ NoFit(Needed(size))
       /\ ~OutOfMemory(size)
       /\ bump' = bump + Needed(size)
       /\ live' = live \cup {Bumped(size)}
       /\ UNCHANGED free

------------------------------------------------------------------------------
(* sage_free                                                                *)

AsFree(b) == [addr |-> b.addr, size |-> TotalSize(b)]

\* The insertion walk passes the first k blocks.
InsertsAfter(f, addr, k) ==
    /\ \A j \in 1 .. k : f[j].addr < addr
    /\ k < Len(f) => f[k + 1].addr >= addr

\* Block i absorbs its successor when the two touch.
Absorb(f, i) ==
    IF /\ i \in 1 .. Len(f) - 1
       /\ f[i].addr + f[i].size = f[i + 1].addr
    THEN RemoveAt([f EXCEPT ![i] = [addr |-> f[i].addr, size |-> f[i].size + f[i + 1].size]],
                  i + 1)
    ELSE f

\* Mutant: the block is not merged with its predecessor.
ReleasedNextOnly(f, b, k) == Absorb(InsertAt(f, k + 1, AsFree(b)), k + 1)

\* Mutant: the block is not merged with its successor.
ReleasedPrevOnly(f, b, k) == Absorb(InsertAt(f, k + 1, AsFree(b)), k)

\* The free list after the block is linked in behind k blocks, coalesced with
\* its successor and then with its predecessor.
Released(f, b, k) == Absorb(Absorb(InsertAt(f, k + 1, AsFree(b)), k + 1), k)

sage_free(b) ==
    /\ \E k \in 0 .. Len(free) :
          /\ InsertsAfter(free, b.addr, k)
          /\ free' = Released(free, b, k)
    /\ live' = live \ {b}
    /\ UNCHANGED bump

------------------------------------------------------------------------------
(* sage_realloc and sage_arena_reset                                        *)

\* sage_malloc_tagged, then the copy, then sage_free of the old block.
Move(b, size) ==
    \/ /\ OutOfMemory(size)
       /\ UNCHANGED vars
    \/ /\ \E i \in 1 .. Len(free) :
             /\ FirstFit(Needed(size), i)
             /\ LET rest == Carve(free, i, Needed(size)) IN
                   \E k \in 0 .. Len(rest) :
                      /\ InsertsAfter(rest, b.addr, k)
                      /\ free' = Released(rest, b, k)
             /\ live' = (live \cup {Carved(free, i, size)}) \ {b}
       /\ UNCHANGED bump
    \/ /\ NoFit(Needed(size))
       /\ ~OutOfMemory(size)
       /\ \E k \in 0 .. Len(free) :
             /\ InsertsAfter(free, b.addr, k)
             /\ free' = Released(free, b, k)
       /\ bump' = bump + Needed(size)
       /\ live' = (live \cup {Bumped(size)}) \ {b}

\* Mutant: any size is taken to fit in place.
FitsAnyway(b, size) == TRUE

FitsInPlace(b, size) == size =< b.user

sage_realloc(b, size) ==
    \/ /\ size = 0
       /\ sage_free(b)
    \/ /\ size # 0
       /\ FitsInPlace(b, size)
       /\ live' = (live \ {b}) \cup {[b EXCEPT !.want = size]}
       /\ UNCHANGED <<bump, free>>
    \/ /\ size # 0
       /\ ~FitsInPlace(b, size)
       /\ Move(b, size)

\* The pointers handed out before are dead from here on.
sage_arena_reset ==
    /\ bump' = 0
    /\ free' = <<>>
    /\ live' = {}

------------------------------------------------------------------------------

Next ==
    \/ \E size \in Sizes : sage_malloc(size)
    \/ \E b \in live : sage_free(b)
    \/ \E b \in live, size \in Sizes : sage_realloc(b, size)
    \/ sage_arena_reset

Spec == Init /\ [][Next]_vars

------------------------------------------------------------------------------
(* Properties                                                               *)

FreeEnd(i) == free[i].addr + free[i].size
LiveEnd(b) == b.addr + b.user + ALLOC_HEADER_SIZE

\* The free list is in address order, its blocks are disjoint and no two of
\* them touch: sage_free has merged all it could, at both ends, whatever the
\* order of the calls.
Coalesced ==
    \A i, j \in 1 .. Len(free) : i < j => FreeEnd(i) < free[j].addr

\* No two callers hold overlapping memory and no block in use is on the free
\* list, through splits, merges and moves.
NoOverlap ==
    /\ \A b, c \in live : b # c => LiveEnd(b) =< c.addr \/ LiveEnd(c) =< b.addr
    /\ \A b \in live, i \in 1 .. Len(free) :
          LiveEnd(b) =< free[i].addr \/ FreeEnd(i) =< b.addr

\* No memory is lost: each unit of the arena below the bump pointer is in a
\* block that is held or free.  Splitting, granting a block whole and merging
\* account for every byte.
NoLeak ==
    \A u \in 0 .. SAGE_ARENA_SIZE :
       u < bump /\ u % ALIGNMENT = 0 =>
          \/ \E b \in live : b.addr =< u /\ u < LiveEnd(b)
          \/ \E i \in 1 .. Len(free) : free[i].addr =< u /\ u < FreeEnd(i)

\* A caller may write as many bytes as it last asked for: the block has room
\* for them behind its header and ends inside the arena.
BigEnough ==
    \A b \in live : b.want =< b.user /\ LiveEnd(b) =< bump

\* Once every block has been freed the free list is one block again.
FreedIsWhole ==
    live = {} /\ bump > 0 => free = <<[addr |-> 0, size |-> bump]>>
==============================================================================
