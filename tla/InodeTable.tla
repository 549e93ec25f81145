----------------------------- MODULE InodeTable -----------------------------
(***************************************************************************)
(* The inode table of src/src/inode.rs: the map from FUSE inode numbers to *)
(* MTP objects, with its two secondary indexes, and the FUSE operations of *)
(* src/src/fs.rs that change it.  Every operation runs under the `inner`   *)
(* mutex, so an operation is one step, except sync_children, whose loop    *)
(* over the listing is taken child by child (no other operation runs in    *)
(* between).                                                               *)
(*                                                                         *)
(* A HashMap is a total function with None (or 0) for an absent key, and a *)
(* children Vec is the number of times each inode occurs in it.  The size  *)
(* and times of an entry are data that travel with its handle.             *)
(***************************************************************************)
EXTENDS Naturals, Sequences

CONSTANTS Names,         \* file names
          Handles,       \* MTP object handles (and storage ids)
          None,          \* an absent entry
          MaxInode,      \* bound: inode numbers that are handed out
          MaxGeneration, \* bound: reconnects and re-keyings
          MaxListing     \* bound: objects in one directory listing

Inodes == 1 .. MaxInode

Root == 1

Kinds == {"root", "storage", "dir", "file"}

Entry == [parent : Inodes, name : Names \cup {None}, kind : Kinds,
          handle : Handles \cup {None}, gen : Nat]

(* One object of a directory listing (ChildInfo). *)
Child == [name : Names, kind : {"dir", "file"}, handle : Handles]

Tables == [entries : [Inodes -> Entry \cup {None}],
           names   : [Inodes -> [Names -> Inodes \cup {0}]],
           kids    : [Inodes -> [Inodes -> Nat]]]

ASSUME BoundsAssumption ==
  /\ MaxInode \in Nat \ {0}
  /\ MaxGeneration \in Nat
  /\ MaxListing \in Nat

ASSUME NoneAssumption ==
  /\ None \notin Names
  /\ None \notin Handles
  /\ None \notin Entry
  /\ None \notin [dir : Inodes, listing : Seq(Child), todo : Seq(Child)]

VARIABLES table,      \* entries, name_index and children_index
          next,       \* next_inode
          generation, \* the link generation
          sync        \* the running sync_children call, or None

vars == <<table, next, generation, sync>>
-----------------------------------------------------------------------------
Live(t, i) == t.entries[i] # None

IsDir(e) == e.kind # "file"

Lookup(t, p, n) == t.names[p][n]

Children(t, p) == {c \in Inodes : t.kids[p][c] > 0}

(* S is closed under the parent links that a walk up the tree follows. *)
ParentClosed(t, S) ==
  \A x \in S : Live(t, x) => t.entries[x].parent \in S

(* The inodes a walk up from i visits, i included. *)
Ancestors(t, i) ==
  LET closed == {S \in SUBSET Inodes : i \in S /\ ParentClosed(t, S)} IN
  {a \in Inodes : \A S \in closed : a \in S}

(* find_storage_index succeeds: the walk up meets a storage.  An entry     *)
(* whose ancestor was removed is an orphan and is refused.                 *)
Attached(t, i) ==
  \E a \in Ancestors(t, i) : Live(t, a) /\ t.entries[a].kind = "storage"

(* The live storages and folders whose listing can be asked for. *)
Folders(t) ==
  {p \in Inodes : /\ Live(t, p)
                  /\ t.entries[p].kind \in {"storage", "dir"}
                  /\ Attached(t, p)}

(* Root and storage entries carry no session-scoped handle. *)
IsFresh(t, g, i) ==
  /\ Live(t, i)
  /\ t.entries[i].kind \in {"dir", "file"} => t.entries[i].gen = g
-----------------------------------------------------------------------------
RemoveKeepsName(t, i) ==
  IF ~Live(t, i) THEN t
  ELSE [t EXCEPT !.entries[i] = None,
                 !.kids[t.entries[i].parent][i] = 0,
                 !.kids[i] = [c \in Inodes |-> 0]]

(* remove: the entry, its name and its place among its siblings go; its    *)
(* own children list goes, the children themselves stay as orphans.        *)
Remove(t, i) ==
  IF ~Live(t, i) THEN t
  ELSE LET e == t.entries[i] IN
       [entries |-> [t.entries EXCEPT ![i] = None],
        names   |-> [t.names EXCEPT ![e.parent][e.name] = 0],
        kids    |-> [[t.kids EXCEPT ![e.parent][i] = 0]
                       EXCEPT ![i] = [c \in Inodes |-> 0]]]

(* A name holds one entry: whatever else sits at (p, n) is dropped. *)
EvictName(t, p, n, keep) ==
  IF Lookup(t, p, n) \in {0, keep} THEN t ELSE Remove(t, Lookup(t, p, n))

Insert(t, i, e) ==
  LET u == EvictName(t, e.parent, e.name, i) IN
  [entries |-> [u.entries EXCEPT ![i] = e],
   names   |-> [u.names EXCEPT ![e.parent][e.name] = i],
   kids    |-> [u.kids EXCEPT ![e.parent][i] = @ + 1]]

RenameUnlistsLast(t, i, p, n) ==
  LET u == EvictName(t, p, n, i)
      e == u.entries[i] IN
  [entries |-> [u.entries EXCEPT ![i] = [e EXCEPT !.parent = p, !.name = n]],
   names   |-> [[u.names EXCEPT ![e.parent][e.name] = 0] EXCEPT ![p][n] = i],
   kids    |-> [[u.kids EXCEPT ![p][i] = @ + 1] EXCEPT ![e.parent][i] = 0]]

(* rename: whatever holds the destination is replaced. *)
RenameTable(t, i, p, n) ==
  LET u == EvictName(t, p, n, i)
      e == u.entries[i] IN
  [entries |-> [u.entries EXCEPT ![i] = [e EXCEPT !.parent = p, !.name = n]],
   names   |-> [[u.names EXCEPT ![e.parent][e.name] = 0] EXCEPT ![p][n] = i],
   kids    |-> [[u.kids EXCEPT ![e.parent][i] = 0] EXCEPT ![p][i] = @ + 1]]

SameName(t, ino, c) == ino # 0

NeverSame(t, ino, c) == FALSE

(* The name is still there under the same kind: its inode is reused. *)
SameObject(t, ino, c) ==
  /\ ino # 0
  /\ Live(t, ino)
  /\ IsDir(t.entries[ino]) <=> (c.kind = "dir")

Patch(t, ino, c, g) ==
  [t EXCEPT !.entries[ino] =
     [t.entries[ino] EXCEPT !.kind = c.kind, !.handle = c.handle, !.gen = g]]

NewEntry(p, n, k, h, g) ==
  [parent |-> p, name |-> n, kind |-> k, handle |-> h, gen |-> g]

(* remove of every inode in S, in any order. *)
RemoveAll(t, S) ==
  [entries |-> [i \in Inodes |-> IF i \in S THEN None ELSE t.entries[i]],
   names   |-> [p \in Inodes |-> [n \in Names |->
                  IF \E i \in S : Live(t, i) /\ t.entries[i].parent = p
                                             /\ t.entries[i].name = n
                  THEN 0 ELSE t.names[p][n]]],
   kids    |-> [p \in Inodes |-> [c \in Inodes |->
                  IF p \in S \/ (c \in S /\ Live(t, c)
                                         /\ t.entries[c].parent = p)
                  THEN 0 ELSE t.kids[p][c]]]]

Reported(l, n) == \E k \in 1 .. Len(l) : l[k].name = n

PruneNothing(t, p, l) == {}

(* The listed children whose name the device no longer reports. *)
Gone(t, p, l) ==
  {i \in Children(t, p) : Live(t, i) /\ ~Reported(l, t.entries[i].name)}
-----------------------------------------------------------------------------
FirstIsRoot == 1

FirstInode == 2

(* InodeTable::new: the root only, its own parent. *)
Init ==
  /\ table = [entries |-> [i \in Inodes |->
                IF i = Root THEN NewEntry(Root, None, "root", None, 0)
                            ELSE None],
              names |-> [p \in Inodes |-> [n \in Names |-> 0]],
              kids  |-> [p \in Inodes |-> [c \in Inodes |-> 0]]]
  /\ next = FirstInode
  /\ generation = 0
  /\ sync = None

AllocSame == next <= MaxInode /\ next' = next

Alloc == next <= MaxInode /\ next' = next + 1

(* MtpFs::init registers the storages before anything else happens. *)
AddStorage(n, h) ==
  /\ sync = None
  /\ \A i \in Inodes : Live(table, i) => table.entries[i].kind \in {"root", "storage"}
  /\ Alloc
  /\ table' = Insert(table, next, NewEntry(Root, n, "storage", h, generation))
  /\ UNCHANGED <<generation, sync>>

(* create and mkdir: the parent is a live storage or folder under one. *)
AddObject ==
  /\ sync = None
  /\ Alloc
  /\ \E p \in Folders(table), n \in Names, k \in {"dir", "file"}, h \in Handles :
        table' = Insert(table, next, NewEntry(p, n, k, h, generation))
  /\ UNCHANGED <<generation, sync>>

(* unlink and rmdir, once the device deleted the object. *)
RemoveObject(p, n) ==
  LET i == Lookup(table, p, n) IN
  /\ sync = None
  /\ i # 0
  /\ table.entries[i].kind \in {"file", "dir"}
  /\ Attached(table, i)
  /\ table' = Remove(table, i)
  /\ UNCHANGED <<next, generation, sync>>

(* The kernel resolves both names first and refuses to move a directory    *)
(* below itself or onto one of its own ancestors.                          *)
KernelAllowsRename(t, i, p, n) ==
  /\ i \notin Ancestors(t, p)
  /\ Lookup(t, p, n) \notin Ancestors(t, i)

(* rename(2), once the device renamed and moved the object. *)
Rename(p, n, p2, n2) ==
  LET i == Lookup(table, p, n) IN
  /\ sync = None
  /\ i # 0
  /\ table.entries[i].kind \in {"file", "dir"}
  /\ p # p2 => Live(table, p2) /\ table.entries[p2].kind \in {"storage", "dir"}
  /\ <<p, n>> # <<p2, n2>>
  /\ Attached(table, i)
  /\ KernelAllowsRename(table, i, p2, n2)
  /\ table' = RenameTable(table, i, p2, n2)
  /\ UNCHANGED <<next, generation, sync>>

(* ensure_fresh found the object again under its path. *)
SetHandle(i, h) ==
  /\ sync = None
  /\ Live(table, i) /\ table.entries[i].kind \in {"file", "dir"}
  /\ ~IsFresh(table, generation, i)
  /\ Attached(table, i)
  /\ table' = [table EXCEPT !.entries[i] =
                 [table.entries[i] EXCEPT !.handle = h, !.gen = generation]]
  /\ UNCHANGED <<next, generation, sync>>

(* The last step of a flush: the inode now names the uploaded object. *)
FlushHandle(i, h) ==
  /\ sync = None
  /\ IsFresh(table, generation, i) /\ table.entries[i].kind = "file"
  /\ Attached(table, i)
  /\ table' = [table EXCEPT !.entries[i] = [table.entries[i] EXCEPT !.handle = h]]
  /\ UNCHANGED <<next, generation, sync>>

(* A stale handle or a reconnect: bump_generation; the reconnect also      *)
(* re-points the storage inodes, the ones listed under the root.           *)
BumpGeneration(f) ==
  /\ sync = None
  /\ generation < MaxGeneration
  /\ generation' = generation + 1
  /\ table' = [table EXCEPT !.entries =
       [i \in Inodes |->
          IF /\ i \in Children(table, Root)
             /\ Live(table, i)
             /\ table.entries[i].kind = "storage"
          THEN [table.entries[i] EXCEPT !.handle = f[i]]
          ELSE table.entries[i]]]
  /\ UNCHANGED <<next, sync>>

Listings == UNION {[1 .. k -> Child] : k \in 0 .. MaxListing}

(* list_into_table hands the device's listing of p to sync_children. *)
SyncBegin ==
  /\ sync = None
  /\ \E p \in Folders(table), l \in Listings :
        /\ next + Len(l) <= MaxInode + 1
        /\ sync' = [dir |-> p, listing |-> l, todo |-> l]
  /\ UNCHANGED <<table, next, generation>>

(* One turn of the loop: patch the entry in place, replace one whose kind  *)
(* flipped, or add a new one.                                              *)
SyncChild ==
  /\ sync # None
  /\ sync.todo # <<>>
  /\ LET c   == Head(sync.todo)
         ino == Lookup(table, sync.dir, c.name) IN
     \/ /\ SameObject(table, ino, c)
        /\ table' = Patch(table, ino, c, generation)
        /\ next' = next
     \/ /\ ~SameObject(table, ino, c)
        /\ Alloc
        /\ table' = Insert(IF ino # 0 THEN Remove(table, ino) ELSE table, next,
                      NewEntry(sync.dir, c.name, c.kind, c.handle, generation))
  /\ sync' = [sync EXCEPT !.todo = Tail(sync.todo)]
  /\ UNCHANGED generation

(* The loop is over: children the device no longer reports are removed. *)
SyncPrune ==
  /\ sync # None
  /\ sync.todo = <<>>
  /\ table' = RemoveAll(table, Gone(table, sync.dir, sync.listing))
  /\ sync' = None
  /\ UNCHANGED <<next, generation>>

Next ==
  \/ \E n \in Names, h \in Handles : AddStorage(n, h)
  \/ AddObject
  \/ \E p \in Inodes, n \in Names : RemoveObject(p, n)
  \/ \E p, p2 \in Inodes, n, n2 \in Names : Rename(p, n, p2, n2)
  \/ \E i \in Inodes, h \in Handles : SetHandle(i, h)
  \/ \E i \in Inodes, h \in Handles : FlushHandle(i, h)
  \/ \E f \in [Children(table, Root) -> Handles] : BumpGeneration(f)
  \/ SyncBegin
  \/ SyncChild
  \/ SyncPrune

Spec == Init /\ [][Next]_vars

(* flush_safe when its delete or its rename fails after the upload landed: *)
(* it writes the temp name into the entry and leaves both indexes alone.   *)
FlushTempName(i, n, h) ==
  /\ sync = None
  /\ IsFresh(table, generation, i) /\ table.entries[i].kind = "file"
  /\ Attached(table, i)
  /\ n # table.entries[i].name
  /\ table' = [table EXCEPT !.entries[i] =
                 [table.entries[i] EXCEPT !.handle = h, !.name = n]]
  /\ UNCHANGED <<next, generation, sync>>

NextWithFlush ==
  Next \/ \E i \in Inodes, n \in Names, h \in Handles : FlushTempName(i, n, h)

(* The same table, with every write flush_safe makes to it. *)
FlushSpec == Init /\ [][NextWithFlush]_vars
-----------------------------------------------------------------------------
(* Types of the table, the counters and the running sync_children call. *)
TypeOK ==
  /\ table \in Tables
  /\ next \in Nat /\ next >= 2
  /\ generation \in Nat
  /\ sync \in [dir : Inodes, listing : Seq(Child), todo : Seq(Child)] \cup {None}

(* No two entries share a name and no name points at an entry that is gone *)
(* or lives elsewhere.  A dangling name makes FUSE lookup panic on the     *)
(* missing entry.                                                          *)
NamesSound(t) ==
  \A p \in Inodes, n \in Names :
     Lookup(t, p, n) # 0 =>
        /\ Lookup(t, p, n) # Root
        /\ Live(t, Lookup(t, p, n))
        /\ t.entries[Lookup(t, p, n)].parent = p
        /\ t.entries[Lookup(t, p, n)].name = n

NamesComplete(t) ==
  \A i \in Inodes \ {Root} :
     Live(t, i) => /\ t.entries[i].name \in Names
                   /\ Lookup(t, t.entries[i].parent, t.entries[i].name) = i

(* Every live entry is found by its parent and name, and every name leads  *)
(* to the live entry that carries it.                                      *)
NameIndexExact == NamesSound(table) /\ NamesComplete(table)

KidsSound(t) ==
  \A p, c \in Inodes :
     t.kids[p][c] # 0 => /\ t.kids[p][c] = 1
                         /\ c # Root
                         /\ Live(t, c)
                         /\ t.entries[c].parent = p

KidsComplete(t) ==
  \A c \in Inodes \ {Root} :
     Live(t, c) /\ Live(t, t.entries[c].parent) => t.kids[t.entries[c].parent][c] = 1

(* A directory listing shows each child of a live directory exactly once   *)
(* and nothing else, whatever was evicted, orphaned or moved before.       *)
ChildrenExact == KidsSound(table) /\ KidsComplete(table)

(* No set of entries is closed under the parent link: a cycle would make   *)
(* find_storage_index and ensure_fresh loop forever holding the lock.      *)
Acyclic(t) ==
  \A S \in SUBSET (Inodes \ {Root}) :
     (\A x \in S : Live(t, x) /\ t.entries[x].parent \in S) => S = {}

ParentWalkTerminates == Acyclic(table)

(* An inode number is never given to a second object, and a number never   *)
(* turns from a file into a directory or back: the kernel caches it.       *)
NumbersAreForever ==
  [][\A i \in Inodes :
        /\ i < next /\ ~Live(table, i) => ~Live(table', i)
        /\ Live(table, i) /\ Live(table', i) =>
              table.entries[i].kind = table'.entries[i].kind]_vars

(* While a listing is applied, a child it still reports under the same     *)
(* name and kind keeps its inode number, name and parent.                  *)
ReportedKeepsNumber ==
  [][sync # None =>
       \A i \in Inodes :
          /\ Live(table, i) /\ table.entries[i].parent = sync.dir
          /\ i # Root
          /\ Reported(sync.listing, table.entries[i].name)
          /\ \A k \in 1 .. Len(sync.listing) :
                sync.listing[k].name = table.entries[i].name =>
                   sync.listing[k].kind = table.entries[i].kind
          => /\ Live(table', i)
             /\ table'.entries[i].parent = table.entries[i].parent
             /\ table'.entries[i].name = table.entries[i].name]_vars

(* What name n of a directory is to be once listing l has been applied in  *)
(* generation g: the last child reported under it, or nothing.             *)
Settled(t, g, p, l, n) ==
  IF Reported(l, n)
  THEN LET last == CHOOSE k \in 1 .. Len(l) :
                      /\ l[k].name = n
                      /\ \A j \in k + 1 .. Len(l) : l[j].name # n
           i == Lookup(t, p, n) IN
       /\ i # 0
       /\ t.kids[p][i] = 1
       /\ t.entries[i].kind = l[last].kind
       /\ t.entries[i].handle = l[last].handle
       /\ IsFresh(t, g, i)
  ELSE Lookup(t, p, n) = 0

(* When a listing has been applied, the directory holds exactly the names  *)
(* the device reported, each fresh and with the last handle reported.      *)
ListingApplied ==
  [][sync # None /\ sync' = None =>
       \A n \in Names : Settled(table', generation, sync.dir, sync.listing, n)]_vars

(* What the index checks of the fuzz target say of every live entry: it    *)
(* can be looked up by name (checked here with flush_safe's writes too).   *)
EveryEntryCanBeLookedUp == NamesComplete(table)
=============================================================================
