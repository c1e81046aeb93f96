---------------------------- MODULE IpcNamespace ----------------------------
(***************************************************************************)
(* The service namespace of core/ipc.c: ipc_ns_insert and ipc_ns_find over  *)
(* the pool g_ns_entries.                                                   *)
(*                                                                         *)
(* A name is the sequence of its dot-separated segments.  An entry is its   *)
(* index in the pool.  The chain that starts at an entry's child and        *)
(* follows sibling is kept as a sequence: ipc_ns_insert sets the sibling of *)
(* an entry once, when the entry becomes the first of its chain.  What is   *)
(* registered (a handle and its owner's task id) is one value.              *)
(***************************************************************************)
EXTENDS Naturals, Sequences, FiniteSetsExt

CONSTANTS IPC_MAX_NS_ENTRIES,
          Segments,     \* the segments of names
          MaxSegments,  \* bound on the number of segments of a name
          Services,     \* the values registered
          Zero,         \* handle 0 of task 0: what memset leaves in an entry
          NULL

ASSUME NamespaceAssumption ==
    /\ IPC_MAX_NS_ENTRIES \in Nat \ {0}
    /\ MaxSegments \in Nat
    /\ Zero \notin Services
    /\ NULL \notin Services \cup {Zero} \cup Segments

Entries == 0 .. IPC_MAX_NS_ENTRIES - 1
Names == UNION {[1 .. n -> Segments] : n \in 0 .. MaxSegments}

VARIABLES rooted,  \* g_namespace.root # NULL (it is then g_ns_entries[0])
          count,   \* g_namespace.count
          seg,     \* per entry: name
          svc,     \* per entry: cap_handle and owner_task_id
          kids,    \* per entry: the chain of its children
          bound    \* history: what was last registered, by plain name

vars == <<rooted, count, seg, svc, kids, bound>>

TypeOK ==
    /\ rooted \in BOOLEAN
    /\ count \in 0 .. IPC_MAX_NS_ENTRIES
    /\ seg \in [Entries -> Segments \cup {NULL}]
    /\ svc \in [Entries -> Services \cup {Zero}]
    /\ \A e \in Entries : kids[e] \in Seq(Entries)
    /\ \A n \in DOMAIN bound : n \in Names /\ bound[n] \in Services

Init ==
    /\ rooted = FALSE
    /\ count = 0
    /\ seg = [e \in Entries |-> NULL]
    /\ svc = [e \in Entries |-> Zero]
    /\ kids = [e \in Entries |-> <<>>]
    /\ bound = <<>>

------------------------------------------------------------------------------
(* The walk of a name                                                       *)

\* The first child of e whose name is s, or NULL.
Child(t, e, s) ==
    LET ks == {k \in 1 .. Len(t.kids[e]) : t.seg[t.kids[e][k]] = s}
    IN  IF ks = {} THEN NULL ELSE t.kids[e][Min(ks)]

Trie == [count |-> count, seg |-> seg, svc |-> svc, kids |-> kids]

\* ipc_ns_find: the entry a name leads to, or NULL.
ipc_ns_find(t, name) ==
    IF ~rooted THEN NULL
    ELSE LET entry[k \in 0 .. Len(name)] ==
                IF k = 0 THEN 0
                ELSE LET e == entry[k - 1]
                     IN  IF e = NULL THEN NULL ELSE Child(t, e, name[k])
         IN  entry[Len(name)]

\* Mutant: the new entry does not keep its siblings.
NewEntryAlone(t, cur, s) ==
    [count |-> t.count + 1,
     seg   |-> [t.seg EXCEPT ![t.count] = s],
     svc   |-> [t.svc EXCEPT ![t.count] = Zero],
     kids  |-> [[t.kids EXCEPT ![t.count] = <<>>] EXCEPT ![cur] = <<t.count>>]]

\* The next entry of the pool is cleared, named s and put in front of the
\* children of cur.  For the first name ever registered the next entry is the
\* root itself, which so becomes its own child.
NewEntry(t, cur, s) ==
    [count |-> t.count + 1,
     seg   |-> [t.seg EXCEPT ![t.count] = s],
     svc   |-> [t.svc EXCEPT ![t.count] = Zero],
     kids  |-> [[t.kids EXCEPT ![t.count] = <<>>] EXCEPT ![cur] = <<t.count>> \o @]]

\* Mutant: the check for a full pool is off by one.
DescendOver(w, s) ==
    IF w.cur = NULL THEN w
    ELSE LET c == Child(w.trie, w.cur, s)
         IN  IF c # NULL THEN [w EXCEPT !.cur = c]
             ELSE IF w.trie.count > IPC_MAX_NS_ENTRIES THEN [w EXCEPT !.cur = NULL]
             ELSE [trie |-> NewEntry(w.trie, w.cur, s), cur |-> w.trie.count]

\* Mutant: the walk does not step into the entry it has made.
DescendStays(w, s) ==
    IF w.cur = NULL THEN w
    ELSE LET c == Child(w.trie, w.cur, s)
         IN  IF c # NULL THEN [w EXCEPT !.cur = c]
             ELSE IF w.trie.count >= IPC_MAX_NS_ENTRIES THEN [w EXCEPT !.cur = NULL]
             ELSE [trie |-> NewEntry(w.trie, w.cur, s), cur |-> w.cur]

\* One round of the loop of ipc_ns_insert; cur = NULL after a return of -1.
Descend(w, s) ==
    IF w.cur = NULL THEN w
    ELSE LET c == Child(w.trie, w.cur, s)
         IN  IF c # NULL THEN [w EXCEPT !.cur = c]
             ELSE IF w.trie.count >= IPC_MAX_NS_ENTRIES THEN [w EXCEPT !.cur = NULL]
             ELSE [trie |-> NewEntry(w.trie, w.cur, s), cur |-> w.trie.count]

\* The first segment ever registered names the root, which is its own child:
\* copies of it in front of a name lead nowhere else.
Plain(first, name) ==
    LET rest == {k \in 1 .. Len(name) : name[k] # first}
    IN  IF rest = {} THEN <<>>
        ELSE SubSeq(name, Min(rest), Len(name))

\* A value registered under the empty name is cleared when the root is named.
Bind(n, v) ==
    [m \in {n} \cup (IF count = 0 THEN {} ELSE DOMAIN bound) |->
        IF m = n THEN v ELSE bound[m]]

\* ipc_ns_insert: the value is stored at the end of the walk; a walk that runs
\* out of entries keeps those it has made.
ipc_ns_insert(name, v) ==
    LET walk[k \in 0 .. Len(name)] ==
           IF k = 0 THEN [trie |-> Trie, cur |-> 0] ELSE Descend(walk[k - 1], name[k])
        w == walk[Len(name)]
    IN  /\ rooted' = TRUE
        /\ count' = w.trie.count
        /\ seg' = w.trie.seg
        /\ kids' = w.trie.kids
        /\ IF w.cur = NULL
           THEN svc' = w.trie.svc /\ UNCHANGED bound
           ELSE /\ svc' = [w.trie.svc EXCEPT ![w.cur] = v]
                /\ bound' = Bind(Plain(seg'[0], name), v)

Next == \E name \in Names, v \in Services : ipc_ns_insert(name, v)

Spec == Init /\ [][Next]_vars

------------------------------------------------------------------------------
(* Properties                                                               *)

\* What a lookup of the name finds: NULL for ENOENT.
Found(name) ==
    LET e == ipc_ns_find(Trie, name) IN IF e = NULL THEN NULL ELSE svc[e]

Chain(e) == {kids[e][k] : k \in 1 .. Len(kids[e])}

\* Every entry taken from the pool hangs below exactly one parent, the root
\* below itself: no registration, complete or cut short by a full pool, loses
\* entries or shares them.
OneParent ==
    \A e \in 0 .. count - 1 :
       \E p \in 0 .. count - 1 :
          /\ e \in Chain(p)
          /\ \A q \in Entries : e \in Chain(q) => q = p

\* A name finds what was last registered under it, up to copies of the first
\* segment in front; a name that only leads to others finds the zero value.
LastRegistered ==
    \A name \in Names :
       LET n == Plain(seg[0], name) IN
          /\ n \in DOMAIN bound => Found(name) = bound[n]
          /\ n \notin DOMAIN bound => Found(name) \in {NULL, Zero}
=============================================================================
