# mtp-mount in TLA+

Specifications of mtp-mount, a FUSE file system over MTP devices, with the TLC
runs that check them on small instances and the TLAPS proofs that hold for every
instance. Paths below are relative to the repository's `src/src/`.

## The system

One process mounts one device (`main.rs`), or a daemon mounts every device that
is plugged in (`bin/mtp-mountd.rs`). A mount consists of:

| Part | State | Operations | What makes it correct |
|---|---|---|---|
| inode table (`inode.rs`) | entries, name index, children index, next number, link generation | add, remove, rename, `sync_children`, `set_handle`, `bump_generation` | both indexes agree with the entries; parent links reach the root; numbers are never reused or changed by a re-listing |
| directories (`fs.rs`) | `dirs_loaded`, the children of each directory | `lookup`, `opendir`, `readdir`, `create`, `mkdir`, `unlink`, `rmdir`, `rename` | the table follows the device through lost replies and retries; a call touches only its own object; a stream shows every entry once |
| event loop (`fs.rs`) | the session's epoch | `event_loop`, `handle_event` | device-side changes show; the loop of an old session does no harm |
| link recovery (`fs.rs`, `reconnect.rs`, `device.rs`) | session, generation, retry budgets, backoff schedule | `with_recovery`, `reconnect`, `adopt`, `ensure_fresh`, `give_up` | no handle of a dead session is used in the next; retries and waits are bounded |
| write spool (`buffer.rs`, `fs.rs`) | a spool per descriptor: file, length, dirty flag | `write`, `setattr`, `getattr`, `release` | a spool holds what was written; a close stores it |
| flush (`fs.rs`) | the upload under way | `flush_to_mtp`, `flush_safe`, `flush_unsafe`, `purge_leftover` | acknowledged data stays on the device; success is real; no other file is touched |
| whole-object reads (`sparse_cache.rs`, `fill.rs`, `fs.rs`) | the inode's cache and its fill state, the fillers, the tracker | `read`, `ensure_full_fill_running`, `fill_from_stream`, `stop_and_wait` | one transfer per cache; every reader is woken; no transfer is dropped in flight; caches are reclaimed |
| ranged reads (`fs.rs`, `sparse_cache.rs`, `ranges.rs`) | a sparse spool file and its populated ranges | `read`, `write_at`, `missing`, `insert` | no hole is served as data; reads end |
| daemon (`daemon/*.rs`, `shutdown.rs`) | map of mounts, command channel, watcher threads, the kernel's mount table, the mount root | `mount`, `unmount`, `unmount_all`, the sweep | map, mount table and mount root agree; devices that are plugged in are mounted, dead mounts go |
| dry run (`daemon/dryrun.rs`) | keys that arrived, totals | `arrived`, `left`, `summary` | it foretells what the daemon would do and calls out what would leak |
| sizes, spool directory, hints, errors | none | pure functions, probing, wording | not modelled (see below) |

**Who runs when.** fuser dispatches all callbacks of a mount on one thread.
`inner`, a standard mutex, guards the table, the spools and the map of caches.
The FUSE thread holds it across device calls, reconnects included, except while
it waits for a whole-object fill. Fillers and the event loop are tokio tasks and
take the same mutex, blocking their worker. The session serves one transfer at a
time. Teardown runs on another thread: in the daemon while the FUSE thread may
still be in a callback, in the binary after it was joined. The supervisor
handles one command at a time; the USB watch, one watcher thread per mount and
the signal handler feed its channel.

**What is hard.** A filler sets its fill state, then tells the tracker, then
takes `inner`, and others act in between. A disconnect may come before or after
a device call took effect. A device may renumber its objects, and a new session
gives old numbers to other objects. An event or a command may be handled long
after what it reports. A listing is read in pages while it changes. The daemon
may be killed at any step. `PROJECT.json` lists each hazard at its line with the
properties that would catch it.

## Modules

| Module | Models | Uses | Checked by |
|---|---|---|---|
| `InodeTable` | `inode.rs` and the handlers that change the table | | `MCInodeTable`, `InodeTableProofs` |
| `Namespace` | directory calls, listings, streams, events, recovery | `Backoff` | `MCNamespace`, `NamespaceProofs` |
| `Backoff` | `reconnect.rs`, as operators | | through `Namespace` |
| `FileIO` | one file's spools and read cache as its descriptors see them | | `MCFileIO`, `FileIOProofs` |
| `Overwrite` | abstract: what replacing a file's content promises | | through `Flush` |
| `Flush` | overwriting one file, with recovery | implements `Overwrite` | `MCFlush`, `FlushProofs` |
| `FullFill` | whole-object reads, fillers, tracker, events, teardown | | `MCFullFill`, `FullFillProofs` |
| `RangeSet` | `ranges.rs`, as operators | | through `RangedRead` |
| `RangedRead` | ranged reads | `RangeSet` | `MCRangedRead`, `RangedReadProofs` |
| `Supervisor` | the daemon | | `MCSupervisor`, `SupervisorProofs` |
| `DryRun` | the dry run beside the daemon | `Supervisor` | `MCDryRun`, `DryRunProofs` |

Definitions keep the source's names where they can; `PROJECT.json` maps each one
to its lines. In each module a few definitions such as `PruneNothing` or
`StartsAlways` stand right before the one they vary: they are plausible bugs that
no specification uses, kept to show that each property notices one.

### InodeTable

`table` holds the three maps, absent keys as `None` or 0; a children vector is
how often each inode occurs in it. Every handler runs under `inner`, so it is
one step. `sync_children` is taken turn by turn (`SyncBegin`, `SyncChild`,
`SyncPrune`) because its loop calls `remove` and `add_object`, and a listing may
repeat a name; nothing else runs meanwhile. `create`/`mkdir`, `unlink`/`rmdir`
and `rename` are modelled from the moment the device has carried them out; the
device's half is `Namespace`. `KernelAllowsRename` is the kernel's own check,
without which `rename` could close a cycle. `Attached` is what makes the handlers
refuse orphans: `remove` leaves the children of a removed directory in the table.

### Namespace and Backoff

`op` is the FUSE call under way: `resolve` (`ensure_fresh`), `call` (the request)
or `wait` (a pause of `reconnect`), with `with_recovery`'s two budgets. A request
is carried out, answered with a stale handle, cut before or after it took effect
(`Breaks`), or answered with another error on a live session (`Refuses`).
`with_recovery` hands such an error to the caller without asking what became of
the request, and it may have been carried out (`Perhaps`): mtp-rs may time out
waiting for the reply, and `create` may fail in its SendObject with the object
made by its SendObjectInfo. `rename` is one or two requests; `Second` starts the
other one's own `with_recovery`. `Adopt` gives every object an arbitrary new
handle, empties `dirs_loaded` and starts a loop; an event the old loop has taken
but not handled moves to `late`. `next_event` needs no lock and `handle_event`
does, so taking and handling an event are two steps, the second between calls.
`kids` keeps the order of the children vector, on which `readdir` pages.
`there`, `calm` and `suspect` are history. `there` and `calm` say what a reader of
a directory may rely on; a rename onto an entry whose object is gone drops that
entry and moves the positions behind it, so `calm` counts it as an entry that went
(`Evicts`). `suspect` holds the directories whose listing went wrong in one of the
three ways listed as observations below: a request that took effect and yet
answered with an error, after which the code leaves table and `dirs_loaded` as
they are (`Altered`: the directories it changed; a rename that fails between its
two requests is `Torn`); an event that finds its object's handle only on an entry
of an older session or in a suspect directory (`Misled`); and the retried half of a
torn rename (`Spoiled`: the directories it names and the one whose object it hit,
since entries of a suspect directory may share a handle). A request that failed
without effect makes nothing suspect, and suspicion ends with the next listing of
the directory.

`Backoff` is the iterator of `reconnect.rs` in quarters of a second. A reconnect
takes its pauses one at a time, and after each the device is back or is not.

### FileIO

Contents are byte sequences. A spool has the backing file, the length the buffer
believes in and the dirty flag. Handlers hold `inner` from first to last, so each
is a step, except that a read waits for a whole-object fill without `inner` and
the fill goes on after it. `fill` is the cache's fill state, `ending` when that is
set but the filler's task has yet to drop a cache nobody has open (`FillTail`).
`drop_read_cache_if_unused` leaves a cache that is being filled in place
(`Dropped`), so it outlives the last close and a reopen joins it; an event about
the object takes it out of the map at any time, and so its filler is one of
`orphans`, whose task may still drop the cache that came after. What else needs
the session waits for a fill to end (`SessionFree`). A failing flush may have lost
the object. The inside of a flush or a fetch, and the retry of a fill that lost
its link, is left to the modules about them. `log` (the writes since the spool was
opened) and `since` (the contents the object has had in the present period of
being open or being filled) are history. `leaked` is the descriptor that a `create` without a spool leaves in
`fh_to_inode`.

### Overwrite and Flush

`Overwrite` has the content of the last successful close, the one a close under
way is storing, and the set of contents the device holds whole. Work in between
may add and drop objects, but on a device that renames (`Safe`) either the
acknowledged or the new content is there at every moment.

In `Flush` the folder is a storage root with the file and a bystander. Objects
have a handle, a name and a content; `Partial` is what a cut upload leaves.
`entry` has the entry's `name` and, separately, the `key` it is indexed under,
since `flush_safe` changes the one without the other. `Adopt` renumbers all
objects arbitrarily. The descriptor's data is one value: a write replaces it. The
refinement maps `acked` to `file`, the data of a running flush to `pending`, and
the whole contents on the device that are not the bystander's to `stored`.

### FullFill

`reader` is the FUSE thread in the loop of `read`; its program counter names the
place between two shared accesses. `filler[k].pc` runs through `stream`,
`cancel`, `ended` (fill state set), `tail` (tracker told) and `off`. `inner` is
held across steps only while the reader is `opening` or `recovering`. A worker
blocked on `inner` is counted by `Blocked`, and a task moves only when a worker
is free. A chunk's write to the spool file may
fail (`FillChunk`): the filler then stores nothing more but drains the stream to
its end, and `bad` makes the fill a failed one though the stream had the right
length. A failed fill is `lost` or `failed`, as `FillFailure::is_link_lost`
tells them apart.

### RangeSet and RangedRead

`Insert` and `Missing` fold over the ranges in the order of the Rust loops
(`Absorb` and `Scan` are one turn), with `U64Max` as the largest offset; `Place`
is what the binary search of a sorted vector finds. `RangedRead` keeps the offsets really written
(`held`) beside the ranges the cache believes in.

### Supervisor and DryRun

A mount is numbered; `mounts` is the supervisor's map and `kernel[k]` the stack
of mounts at a path. `mount` and `unmount` are taken in two steps each, so that
a kill may fall between them. `Resets`, `Touched` and `Failures` switch on
sessions that die without an unplug, users that touch a dead mount, and mounts
the kernel refuses. `LeftAs` gives the keys a departure may be reported under:
the arrival's, or also the USB form, when the report lacks the serial. `DeadMountGoes`
speaks of devices that left; a session that was reset while its device stays
plugged in is told to nobody until someone touches the mount.

`DryRun` extends it with a second process that sees every cable and derives the
same keys (both go through `DeviceFacts`), whether or not the daemon is up.

## Runs

| Run | Bounds | Shows |
|---|---|---|
| `InodeTable` | 2 names, 2 handles, 5 inodes, 1 generation bump, listings of 2 | indexes exact, no cycle, numbers stable, a listing is applied exactly |
| `Namespace` | 2 directories, 2 names, up to 2 objects, 3 turns, 2 attempts, 1 stale retry, requests that fail with and without effect, a window of 5 s, replies of 3 entries | listings follow the device's events, the table follows the device, calls touch their object only, streams show every lasting entry once, reconnects keep their window |
| `FileIO` | 2 descriptors, 2 bytes, contents of up to 3, writes and fetches up to offset 2, 2 writes or device-side changes together, writes of 1 byte, limit 2, 1 orphaned filler where a fill starts | spools are exact, closes store them, the cache is recent, also when a fill outlives the last close |
| `Flush` | 2 contents, 1 descriptor, 2 disconnects, 3 attempts, 1 renumbering, refusals, device renames | implements `Overwrite`; the bystander survives, no second copy, a cut upload is tried again |
| `FlushUnsafe` | 2 contents, 1 descriptor, 2 disconnects, 2 attempts, no rename, 2 renumberings, remounts, fair | implements `Overwrite` without `Safe`, every close answered; the bystander survives |
| `FullFill` | 2 units, streams of 1–3, failing writes to the spool file, 2 descriptors, 2 caches, 3 fillers, no disconnect | one owned transfer per cache, complete means all, `stop_and_wait` returning true leaves no transfer, the cache stays while open |
| `FullFillLive` | 1 unit, 1 descriptor, 3 caches, 2 fillers, 1 disconnect, events, fair | fills stay exclusive and owned with the cache dropped under a running filler; reads are answered, stops end, caches are reclaimed |
| `FillUntracked` | 1 unit, 1 descriptor, 3 fillers, 1 disconnect | a disagreement, see below |
| `RangedRead` | 4 bytes, chunks of 2, 1 byte of overshoot, offsets 0–8, fair | no hole is served, nothing is fetched twice, reads end; `insert` and `missing` are exact, also at the largest offset |
| `Supervisor` | 2 devices plugged once, 1 kill, 1 signal, resets, refusals, fair | map, mount table and root agree and a stop leaves nothing; live mounts stay, dead ones go, watchers end |
| `DryRun` | 1 device plugged 3 times, departures under either key, 1 kill, fair, nobody touches a dead mount | the dry run foretells the mounts and calls out leaks; where it calls out none, a device that comes back is mounted again |
| `SupervisorStaleGiveUp` | 1 device plugged twice, users touch dead mounts, fair | a disagreement, see below |

Kept beside them and passing: `FlushLive` (two descriptors and one content on a
device that renames, fair: every close is answered) and `NamespaceLive` (every
call is answered). The type invariants no run checks are theorems.

**Why the bounds are enough.** Five inodes give a root, a storage, and three
objects, which is what a rename onto an existing entry with a child needs. Three
turns are a rename, a disconnect in it and a change on the device meanwhile, or a
stream, a creation and a removal while it runs; two directories let an event
invalidate the wrong one. Two attempts leave one retry, and a window of 20
quarters reaches the backoff's cap and its clipped last pause. Two bytes and two
writes give the overlap, the gap and the empty write past the end; a limit of
two makes a file of three bytes unreadable; two steps shared by writes and the
device give a change between a fill and the reopen that joins it, with a close
that stores a write as the other. Two units and streams of one to three
give the short, exact and long stream. Three fillers allow an old filler's tail,
a new fill and one more; three caches, one dropped under its filler, its
successor and that one's. Four workers are more than the tasks that can
block at once, since with fewer the code can wedge (`FillWedged`): what the runs show
of reads and stops they show for a runtime with workers enough. Two disconnects exhaust a budget of two attempts and
not one of three. Two renumberings exhaust the stale budget. Six mounts are two
devices in each of three lives of the daemon. Nine offsets hold the ranges that
reads of four bytes leave and, at the other end, the additions that overflow.
Names, handles, bytes, descriptors and contents that are only compared are
symmetric; no run with fairness uses symmetry.

**Fairness.** `FullFill`: the FUSE thread, a filler that can run, and
`stop_and_wait` go on (weak); a task that waits for `inner` gets it in the end
(strong: the mutex is released again and again but is not handed over in
order). Device calls return, since mtp-rs times out on each transfer. Nothing is
assumed of users, events, disconnects, reconnection or of the stop's timeout.
`Flush`, `Namespace`: each step of a flush or call returns, and the pauses of a
reconnect end. `Supervisor`: its threads run and a service manager starts the
daemon. `DryRun` (`DryFairSpec`): the same, and its own thread runs.
`RangedRead`: the device answers.

**Deadlock** is checked except where the system may really stop: in the
`Supervisor` and `DryRun` configurations the daemon blocks on its channel when
nothing is plugged in, in `FlushUnsafe` and `FlushUnsafeCut` the file may be gone
for good, in `Namespace` and `FileIO` the mount may have been given up or the
bounded users may be done.

### Disagreements

Two runs refute what a comment says; `PROJECT.json` quotes it.

| Run | What the code does |
|---|---|
| `FillUntracked` | `finished` drops a retry's tracker entry with its predecessor's; `stop_and_wait` returns true while a transfer runs |
| `SupervisorStaleGiveUp` | a late give-up takes down the mount of the device that came back |

More configurations are kept as observations. TLC finds each property violated;
they mark the edge of what the passing runs claim.

| Configuration | Property | What the code does |
|---|---|---|
| `FlushTempName` | `EveryEntryCanBeLookedUp` | `flush_safe` renames the entry without its indexes, also when only the rename's reply was lost; it can no longer be looked up by name |
| `FlushPurged` | `AckedIsStored` | after a remount, a retry purges, by name, data an earlier close acknowledged |
| `FlushStaleDelete` | `StaleHandleRecovered` | a renumbered object is not re-resolved in a safe flush; the file moves to its temp name |
| `FlushUnsafeCut` | `CutUploadIsRetried` | without rename, the retry of a cut upload cannot succeed: its first step looks up the object it deleted |
| `FillDroppedByTail` | `RunningFillIsJoinable` | an old filler's tail drops the cache of a running fill, so a reopen downloads again |
| `FillWedged` | `NeverWedged` | on a one-worker runtime, the FUSE thread and an event handler wait for each other for ever |
| `NamespaceStale` | `NoStaleListing` | with no request refused, so that none of the next row's traces hides them: an event whose handle an entry of an older session still carries invalidates that entry's directory and not the one that changed; a rename torn between its two requests leaves a listing wrong until it is read again |
| `NamespaceFailed` | `NoStaleListing` | a request that was carried out but answered with an error (a timeout, an upload whose second half fails) changes neither the table nor `dirs_loaded`: the loaded listing stays wrong until the directory is listed again |
| `NamespaceStray` | `MovesOnlyItsObject` | the move of a rename, retried, resolves the old name, under which another object may have appeared |
| `NamespaceReaddir` | `StreamCompleteAnyway` | `readdir` pages by position: an entry that goes between two pages hides another |
| `NamespaceWindow` | `CallWithinWindow` | every attempt's reconnect gets a whole window |
| `FileIOLeak` | `ReopenRereads` | a `create` whose spool cannot be opened leaves its descriptor in `fh_to_inode`, and neither a close nor the end of a fill ever drops the cache of that inode again |
| `FileIOOverwritten` | `CacheCurrent` | a descriptor that stays open goes on reading the bytes another one's close has replaced |
| `FileIOStat` | `StatSeesWriter` | `getattr` takes the size from whichever descriptor the map yields first |
| `FileIOTruncate` | `SpoolIsStored` | a truncation or a failed write opens a clean spool: reads see it, the close uploads nothing |
| `SupervisorSameKey` | `LiveMountStays` | unplugging the ignored one of two devices with the same serial unmounts the other |
| `DryRunFalseAlarm` | `ProblemIsLeak` | a departure that finds nothing mounted, of which the dry run says "nothing leaks", makes the summary say that the daemon would leak a mount |

## Proofs

Every theorem holds for all values of the constants that meet the module's own
assumptions (`BoundsAssumption`, `FlushAssumption`, `NamespaceAssumption` and so
on, which TLC evaluates in each run); six have a further hypothesis, and where a
configuration shows why it is needed, the table names it. Each property is taken from an
inductive invariant of the form `Init => IInv`, `IInv /\ [Next]_vars => IInv'`,
`IInv => Inv`, with one step or one lemma per action.

| Module | Theorem | Property | Hypothesis |
|---|---|---|---|
| `InodeTableProofs` | `NameIndexCorrect`, `ChildrenCorrect`, `WalkTerminates` | `NameIndexExact`, `ChildrenExact`, `ParentWalkTerminates` | |
| | `NumbersStay`, `ReportedChildrenStay`, `ListingIsApplied` | `NumbersAreForever`, `ReportedKeepsNumber`, `ListingApplied` | |
| `NamespaceProofs` | `ListingsAreCurrent`, `StreamsAreComplete`, `WindowIsKept` | `ListingCurrent`, `StreamComplete`, `WindowKept` | |
| | `TableFollows`, `TouchesItsObject` | `TableFollowsDevice`, `TouchesOnlyItsObject` | |
| `FileIOProofs` | `SpoolIsExact`, `CloseStoresAll`, `CacheIsRecent` | `SpoolExact`, `CloseStores`, `CacheRecent` | |
| `FlushProofs` | `BystanderIsSafe`, `UploadedAtMostOnce` | `BystanderSurvives`, `UploadedOnce` | |
| | `FlushImplementsOverwrite` | `ImplementsOverwrite` | no remount on a device that renames (`FlushPurged`) |
| | `CutUploadRetried` | `CutUploadIsRetried` | the device renames (`FlushUnsafeCut`) |
| `FullFillProofs` | `FillSlotCorrect`, `CompleteFillHasAll`, `CacheIsKept` | `FillSlotOwned`, `CompleteMeansAll`, `CacheKeptWhileOpen` | |
| | `NoTransferIsDropped` | `NoTransferDropped` | no link is lost (`FillUntracked`) |
| `SupervisorProofs` | `MountRootCorrect` | `MountRootExact` | |
| | `LiveMountsStay` | `LiveMountStays` | a key per device (`SupervisorSameKey`) |
| `DryRunProofs` | `DryRunForetells` | `Foretells` | a key per device, nobody touches a dead mount, none is refused |
| | `LeaksAreCalledOut` | `LeakIsCalledOut` | a key per device, sessions end with their cable |
| `RangedReadProofs` | `CacheIsExact`, `RangesAreExact`, `ServedBytesAreReal` | `CacheExact`, `RangesExact`, `ServedIsReal` | |

Each of these modules also proves `TypeCorrect`, its type invariant
(`DryRunProofs` uses that of `SupervisorProofs`).

**InodeTable.** The theorems cover `Spec`; `FlushSpec` adds the write that
`FlushTempName` shows to break the name index. The inductive invariant is `IInv`:

- `Indexed`: the name index and the children index are sound and complete, and
  the root is its own live parent. None of the four parts is inductive by itself:
  that `remove` clears the right name needs the name index to be exact, and that
  it unlists the entry everywhere needs the children index to be sound.
- `Acyclic`: no set of entries without the root is closed under the parent link.
  Stated over sets it needs no induction: a cycle after a rename contains the
  moved entry, so its new ancestors contain it, which the kernel's check excludes.
- `Numbered`: entries and their parents lie below `next`. A new number is then
  no entry's and no orphan's parent, so inserting it adds no child by accident
  and closes no cycle.

Each table operator has a lemma (`RemoveIndexed`, `EvictIndexed`,
`InsertIndexed`, `RenameIndexed`, `RemoveAllIndexed`; `SameShape` for what only
touches handles). The action properties need `SInv`, which adds `Ranked` (the root
and the storages, and they alone, have the root for a parent, so no handler reaches
them) and `Syncing`: a running `sync_children` has applied the first `j` children of
its listing, the last of a repeated name being the one shown (`Applied`). With it
`PruneSettles` shows that the final prune leaves the listing and nothing else.
`StepCarries` says once, for all actions, that a step carries entries over
(`Carried`) or allocates the number that was next (`Allocated`).

**Namespace.** `Sound` is what the types rest on: handles and paths name one object
each, the names of a directory's entries differ, and a call is about an entry the
table keeps meanwhile. On it stand four invariants.

- `Window`: the pauses taken and those left add up to the window.
- `Aimed`: a handle of the present session reaches its entry's own object or none,
  and no two entries share one, outside suspect directories. A directory that a
  failing request changed becomes suspect, and one it did not touch is as it was
  (`AimedRefuses`, `CurrentRefuses`). An object whose rename
  was answered half has its new name already (`Expected`). This is what makes a
  retried removal or rename safe: after a reconnect the handle is either refreshed
  by path or not trusted.
- `Current`: while the session and its loop live, an object that a loaded directory
  does not show, and an entry whose object is gone, are those of an event still to
  be handled (`Pending`). `ListingCurrent` is the case that nothing is pending.
- `Streaming`: while no entry goes, what was read is a prefix of what the directory
  shows now, however often that is listed again or added to.

`TableFollows` and `TouchesItsObject` follow from `Aimed` step by step. The
operators have lemmas of their own: `RetainExact`, `OrdersExact` and `SyncedExact`
(a re-listing keeps the known names in order and appends the new ones),
`TableRenameExact`, `SetHandleExact`, `Paged` (a reply continues the stream),
`DelayExact` (a pause fits in the window).

The proof showed where an earlier form of the properties held only within the
bounds of the run: a rename that evicts an entry whose object is gone
moves positions under a reader; entries of a suspect directory may share a handle,
so an event or a request that finds one of them may concern another directory. The
histories `calm` and `suspect` now account for them.

**FileIO.** What a sequence of writes amounts to, `Replay`, is a fold. `Exact` says
the same of a file without recursion, by what each byte is: as long as the farthest
write (`Longest`), and each byte from the last write over it (`LastAt`);
`ExactIsReplay` connects the two, `PutExact` and `SkipExact` extend it by a write.
`Spooled` has it for every descriptor, with the length right unless a write failed
and the buffer dirty once one succeeded, from which `CloseStoresAll` follows.
`Recent` adds to `CacheRecent` that a file neither open nor being filled has no
cache, and that during a period of being either the present content counts among
those in `since`. A period does not end when the last close leaves a fill running,
nor when a reopen joins it; it ends with the close or the filler's task that
leaves the file unused, and either drops the cache then.

**Flush.** `Sound` is `Typed`, `Handles` (the cached handle, while it is fresh,
belongs to the file or to nothing, and the upload's to the upload under the temp
name) and `Bystanders`. `AckedKept` says where the promised content is: the
acknowledged one out of reach of the purge until an upload has landed, the new one
under its temp name afterwards. It makes every step of a flush a step of
`Overwrite` or a stutter (`OverwriteInit`, `OverwriteStep`). `Once` says that a
content about to be uploaded is not on the device and, on a retry, only where the
purge removes it; without rename `Alone` says that nothing but the bystander is
there when an upload starts. `Paid` says that each attempt but the first was paid
for by a disconnect, and `Present` that the file is under its own name before an
upload has landed; together they leave a failing close no way but a refusal or an
exhausted budget.

**FullFill.** `Slot` adds to `FillSlotOwned` that a reader about to start a transfer
has claimed the fill state and no filler transfers into that cache; this is what
holds between its setting of the state and its download. `Bytes` adds that a
transfer that has gone well so far has stored all it has read. `Tracked` says that
the tracker has an entry for every transfer and every download being opened, which
is so only while no second fill of a cache can start before the first one's tail.

**Supervisor.** `Phase` says, for each place the supervisor can be at, which keys
agree in the map, the mount table and the mount root: all but the one being mounted
or unmounted. With the daemon down it only says that every mount a crash left lies
under a directory, where the sweep finds it. `LiveMountsStay` rests on `Kept`: every
command waiting in a channel has an origin (`Origins`), every mount is filed under
its device's key (`Attached`), and a device plugged in once has one arrival waiting
or one mount, never two (`Once`), so no departure or give-up in flight can be meant
for a live mount.

**DryRun.** Daemon and dry run see the same cables but each reads its own channels
when it gets to it, so `Forecast` compares what either will have come to once its
channels are empty: a key is or will be open to the dry run (`Opens`), the daemon
still has a departure to read (`LeftWaits`) or an arrival that no departure follows
(`Comes`). `Cables` says that what is plugged in is what opens, `Departs` that a
mount whose key does not open has its departure to come, `Serves` that a device
that is plugged in is mounted for good or its arrival comes, and `CalledOut` that
the mount of a dead session has its departure to come, or some departure does not
match its arrival (`Tidy` fails) and will be called out. `Serves` needs
`Undisturbed`: the give-up of a touched dead mount and a refused mount are hidden
from the dry run. Each hypothesis but one was seen to be needed, by turning its
switch in `DryRun.cfg` (`Touched`, `Failures`, `Resets`, and with two devices a
shared `Key` or a `LeftAs` with the other one's key): TLC then finds the property
violated. The exception is `LeakIsCalledOut` with two devices that arrive under one key:
the proof excludes it, TLC found no violation.

**RangedRead.** `insert` and `missing` are loops over the ranges, so their results
are stated turn by turn. Induction is a lemma about sets of numbers
(`InductionTo`, from the well-foundedness of the naturals): the turns after which
the loop's invariant holds are a set that contains 0 and, with each `k`, `k + 1`.
`FoldExists` shows by it that the recursive function inside a fold exists, and
`MergeRuns` and `GapsRuns` take a fold apart into its turns. `Merged` is the
invariant of `insert`'s loop (what is kept lies apart from the merged range, and
with it makes up the ranges seen and the new one), `Scanned` that of `missing`'s
(the gaps found are those below the cursor, and once the loop has stopped no range
begins between the cursor and the end). `InsertExact` and `MissingExact` follow for
every set of ranges in normal form. With them `Inv`, which is the types and
`CacheExact`, is inductive: `write_at` inserts what it has written and refuses what
lies past `total_size`; a reply is sent only when `missing` is empty.

**Model-checked only.**

- All liveness: `ReadAnswered`, `StopEnds`, `CacheReclaimed`, `ReadEnds`,
  `DeadMountGoes`, `WatcherEnds`, `GoodIsMounted`, and that every close is answered
  (the liveness half of `ImplementsAnsweredOverwrite`; its safety half is
  `FlushImplementsOverwrite`). Fairness and ENABLED are beyond the prover.

## Not modelled

- Times, modes and error numbers; `statfs`, which adds up what the device reports.
- The read-only flag, whose handlers answer `EROFS` before anything else.
- Several storages: their mapping in `adopt`, and moves between them.
- The second unmount of a mount that was taken down: a detached thread reaps the
  session (`umount_and_join`), whose own unmount, by path and in the fuser library,
  the code's comment calls a no-op on a mount already detached
  (`daemon/supervisor.rs:331-335`).
- A lazy unmount that fails and a mount root that cannot be created: the code
  logs and goes on.
- String handling (`daemon/paths.rs`, `size.rs`), environment and file-system
  probing (`spool.rs`), wording (`hints.rs`, `error.rs`, the dry run's report),
  argument parsing.

## Plan

Every invariant and action property of the runs is proved. What is left:

1. `LeakIsCalledOut` for devices that share a key, where the daemon ignores the
   second one: a daemon that is killed and restarted may mount either.
2. `InodeTable`, `Namespace` and `FileIO` each model the FUSE handlers from their
   own side; a refinement that takes one handler through all three would say that
   they agree.
