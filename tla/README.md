# fio-xfs in TLA+

TLA+ models of fio-xfs, a userspace reader and writer of XFS filesystems, with
TLC runs on small instances and TLAPS proofs for every instance. Paths below are
relative to the repository; code is under `src/src/`.

## The system

fio-xfs opens an XFS image through a `BlockDevice`, reads it, and can write to
it without a kernel. There are no threads: a `Volume` is read through `&self`
and written through `&mut self`, so calls do not overlap. What is hard is

- **state in two places.** Inodes and file contents go to the device when they
  are written; directories and the allocation groups' records wait in memory
  until `flush`. Link counts are on the device at once, names are not;
- **failure in the middle.** A call may run out of blocks or inodes after it has
  taken some; a flush may fail after it has laid out some directories, or rebuilt
  some groups, and may be called again;
- **a computation that feeds on itself.** A rebuild takes the blocks of a group's
  trees from the free space those very trees describe;
- **a log someone else wrote.** Records are in flight together and the machine may
  stop at any block; the log must still be read right;
- **trees someone else damaged.** Walks and lookups must end on directory cycles,
  on symbolic links that lead to each other and on blocks that point in a circle;
- **layouts with many edges.** Trees, directories and archives are built whole, and
  every boundary (a block just full, a hash on both sides of one, a length that counts
  its own digits) must come out so that this reader, and another, finds everything.

### Inventory

| Component | Source | State it keeps | Operations | What makes it correct |
|---|---|---|---|---|
| Allocation group | `alloc.rs` | `free`, `free_total`, `reserve`, `old_tree_blocks`, `chunks`, `rmap`, `dirty` | `load`, `alloc`, `alloc_block_except`, `alloc_chunk`, `take`, `free_extent`, `rmap_add`, `rmap_remove`, `alloc_inode`, `free_inode`, `rebuild` | every block has one owner, none is lost, counts and reverse mappings are exact, a rebuild ends and its image says what memory says |
| B+tree images | `btree.rs` | none | `level_sizes`, `blocks_for`, `build_ag`, `build_bmap` | the size foretold is the size built; the records read back; keys lead to every record |
| Write side | `write.rs` | the groups loaded, `dirs`, `new_chunks`, superblock counters | `write`, `mkdir`, `mkdir_all`, `symlink`, `mknod`, `link`, `unlink`, `rmdir`, `chmod`, `chown`, `set_time`, `flush` | names, inodes, link counts and blocks agree; a failed call changes nothing a reader sees; after a flush the device is consistent |
| Log | `log.rs` | none (reads a ring of blocks) | `Log::open`, `state` | a log with changes in it is never called clean; the head is where the log ends |
| Volume | `volume.rs` | superblock, log state, the writer | `open`, `open_norecovery`, `resolve`, `walk`, `walk_each`, `fork_map`, `dir_entries`, `read_inode_range`, `symlink_target`, `xattrs_inode` | only a volume that is clean is written; a path leads where it says; a walk gives each name once and ends; what was stored is what is read |
| Export | `export.rs` | `seen`, directories whose mode is due | `pack_tar`, `extract` | hard links survive, directories are closed last |
| Tar stream | `tar.rs` | bytes owed, padding owed | `begin`, `data`, `append`, `finish` | a reader of tar finds every entry with all it had |
| Superblock | `sb.rs` | none | `parse`, `check_writable`, number conversions | a number leads to its block or inode, or is refused |
| Extent map, directory, attributes, inode | `bmap.rs`, `dir.rs`, `attr.rs`, `inode.rs` | none | parsing | decoding inverts encoding; reads end on damaged blocks |
| Directory layout | `dirwrite.rs` | none | `layout` | what is laid out reads back as the same names; the index finds each |
| Checksums, bytes, errors, devices, command line | `crc.rs`, `bytes.rs`, `error.rs`, `device.rs`, `bin/fio_xfs.rs` | none, or a file | I/O | |

How they interact: a `Volume` call resolves a path (`volume.rs`), which reads
directories from the writer's `dirs` where they have changed and from the device
(`dir.rs`, `bmap.rs`, `inode.rs`) where not. A writing call (`write.rs`) takes
inodes and blocks from the groups (`alloc.rs`), writes contents and inodes to
the device and puts the changed list of names into `dirs`. `flush` lays out each
list (`dirwrite.rs`), rebuilds each dirty group (`alloc.rs`, `btree.rs`), writes the
images, then the superblock's counters, then flushes the device. `Volume::open`
asks `log.rs` whether the log is clean and refuses to go on if not. `export.rs`
goes over what `walk_each` collects.

The hazards, each at its line and with the properties that would catch it, are
listed in `PROJECT.json`.

## Modules

| Module | Models | Kind |
|---|---|---|
| `Extents` | the free map: `take`, `alloc`'s choice, `alloc_aligned`, `carve`'s choice, `free_extent` | operators |
| `Rmaps` | reverse mappings: `merges_with`, `merged_rmap`, `rmap_remove` | operators |
| `Btrees` | `level_sizes`, `blocks_for` | operators |
| `Ag` | an allocation group and its caller; extends the three above | state machine |
| `BlockPool` | what a group promises: a pool of blocks | abstract specification |
| `Writer` | the write side over several groups | state machine |
| `FileTree` | what a written volume promises: a tree of names and contents | abstract specification |
| `LogHead` | the ring of log blocks, the kernel that writes it (external), `find_head`, `state` | state machine and operators |
| `Session` | `open`, `open_norecovery` and the gate before the first write; composes `LogHead` and `Superblock` | state machine |
| `PathResolve` | `resolve`, with the meaning of a path as reference definition | state machine |
| `Export` | `walk_each`, `pack_into`, `extract` | state machine |
| `TreeImage` | `build_ag`, `build_bmap` and the walks `walk_tree`, `fork_map`; the AGFL ring; extends `Btrees` | operators |
| `DirLayout` | `layout`, `write_dir`'s extents, `dir_entries`; extends `TreeImage` | operators |
| `FileMap` | `write_mapped`, `read_mapped`, `read_inode_range`, `symlink`, `symlink_target` | operators |
| `AttrFork` | `xattrs_inode`, `parse_block`, remote values, ACLs | operators |
| `Superblock` | `parse`, `check_writable`, block, inode and byte numbers; packed times, extents and device numbers | operators |
| `TarStream` | `tar.rs`, and a reader of tar (external) | operators |
| `Formats` | one thing stored and read back, through the six above | state machine |
| `ExtentsProofs` | recursion and induction for all the other proofs; theorems on the free map | proofs |
| `AgProofs`, `AgRmapProofs` | theorems on `Ag`; on reverse mappings; the second extends the first | proofs |
| `LogProofs` | theorems on `LogHead` and `Session` | proofs |
| `WriterProofs` | theorems on `Writer`: blocks, contents and groups, then names, and its refinement | proofs |
| `PathProofs`, `ExportProofs` | theorems on `PathResolve` and on `Export` | proofs |
| `FormatsProofs` | theorems on the trees and free lists of `Formats` | proofs |
| `MCAg`, `MCWriter`, `MCLogHead`, `MCPathResolve`, `MCExport`, `MCFormats` | instances for TLC | |

`PROJECT.json` maps each definition to its lines.

### Ag

The variables are the fields of `struct Ag`, and next to them what its caller
holds: `taken`, runs it has allocated and not yet mapped, and `forks`, extents
that inodes map. Each call is one action. `rebuild` is the exception: its loops
(freeing the old trees block by block, the turns of the sizing loop, the turns of
`carve`) are one step each, its locals are the record `rb`, and no call comes in
between. That makes its failures in the middle visible: an error leaves `free`,
`rmap` and `old_tree_blocks` as the last turn made them, and the caller may go on.
`disk` is what the last rebuild laid out; `Reload` starts a session from it.

Records are sets or functions instead of `BTreeMap`s and `Vec`s; a chunk's bitmaps
are sets of bits. The sum of extent lengths (`FreeCount`) is written as the number of
blocks covered, which is the same since `load` has checked that extents do not
overlap. Left out: byte formats, the unwritten flag of a mapping, and `merges_with`'s
check for a length that overflows 32 bits (a group has fewer blocks than that).

### Writer

`inode` and `held` are the device: inodes, and which contents each block was last
written with. `free`, `chunks`, `ifree`, `dirty` are the groups in memory, `dirs` the
lists of names in memory; `hdr`, `dag` and `sbc` are each group as last rebuilt, each
group on the device, and the superblock's counters. A call is one action with all
its outcomes for lack of space; `flush` is a step per directory, per group rebuilt and
per group written.

A device read or write may fail in any of it, `MaxFaults` times in a behaviour.
`CreateFails`, `ReplaceFails`, `LinkFails`, `RemoveFails`, `write_dir_fails` and
`FlushWriteFails` have one
disjunct for each place in the call where the error leaves something different
behind, in the order of the code, and `store_data_fails`, `link_blocks_fails`, `Stranded` and
`PartFreed` list what is left where blocks are taken or given back extent by extent. A group
can fail to be read there (`load_ag`): `alloc_blocks` then forgets the blocks it took from the
groups before it, and `free_fork` stops after the extents it has freed. A group that has
changed is in memory and cannot fail so, nor can one the same call has looked at; any
other can. That allows a little more than the code does: a group which an earlier call
loaded and did not change would not be read again. `failed` is the history of what an error cost:

- `"leak"`: blocks or an inode that nobody has, a chunk that is in memory and was never
  written, a link counted too many. The volume can be used on, and what the invariants
  say then is that nothing is shared and no name is without its inode;
- `"yes"`: more than that, namely a flush that failed; blocks that are free in memory
  while an inode on the device maps them (an error in or after `free_fork` in `write_file`, or
  in `destroy`); an inode destroyed, or counted one lower, whose name stays, because the directory could
  not be read again (`unlink`, `rmdir`). From there only flushes are followed, to see what they write down
  (`writer_lost_names`, `writer_retry`, `writer_freed`).

What it abstracts: a group is the pool of `BlockPool`, so its trees are not seen
and which blocks it grants is a `CHOOSE`; the reserve is a constant per group; a chunk
is one block; a directory takes a run of blocks for each of two sizes (`DirShort`,
`DirBlock`); the blocks of a fork's own B+tree are a parameter. Mode and owner are one
value, `perms`, which `chmod`, `chown` and `write_with` set. Times, generation numbers
and extended attributes are left out.

### LogHead

`ring` holds the basic blocks, each with its cycle number and what the search reads
of a header or of an operation. `find_cycle_start`, `find_cycle`, `back_up_to_record`,
`find_head`, `header_before` and `state` are the functions of `log.rs`. The kernel is
external: it puts up to `MaxIclogs` records in flight, writes their blocks in any
order, finishes them in order, moves the tail, unmounts and mounts. Every reachable
ring is one a power cut can leave, so the invariants hold of a crash at any block.
What the kernel does to recover from the crash is not modelled.

`Session` adds a user of the library: at any point where the kernel stops, cleanly or
not, a volume is opened with `open` or `open_norecovery` over one of several
superblocks (with and without features the writer knows, with an internal log, one on a device of its
own, one of no blocks or one that ends outside the filesystem), calls are made that write, flushes, and it is closed again. The log's state is
found once, at `Open`, and used at every `writer` after.

### PathResolve and Export

`PathResolve` is the loop of `resolve`, one component a step, against `Meaning`, which
resolves each link where it stands by recursion. `Export` is the loop of `walk_each`
one name a step (the recursion is the stack of open levels), then the loop of
`pack_into` or of `extract` one entry a step, then `extract`'s loop over directory
modes. Trees may be damaged. Contents, attributes, owners and times are left out.

### Formats and the modules under it

A behaviour of `Formats` takes one input, lays it out (`Store`), perhaps damages one
pointer or count of the image (`Damage`), and reads it back: in one step where the code
reads in one call (`StartRead`), a block a step where it walks (`ReadBlock`). What this code
writes is laid out by its own functions; attribute forks, free lists and files with holes
and unwritten blocks, which only the kernel writes, by external definitions.

- `TreeImage`: records are ranges of keys; a block is its level, entries and siblings. A
  walk is its stack, the blocks read and the records found, as in `walk_tree` and `fork_map`.
  `TreeFinds` searches down wherever a node's range holds the key, as the kernel does in
  trees of overlapping records.
- `DirLayout`: a name is its length, its hash and what it leads to. Entry sizes, the fit of
  each form, positions of the index, the free-space index and the cut into extents are the
  code's arithmetic with block and header sizes as parameters. Hashes are arbitrary, so
  equal ones are covered, and the lookup through the index, which this library never does,
  is the kernel's and part of the property.
- `FileMap`: bytes are numbers, blocks hold two. A link's block holds a header and says
  where its bytes belong.
- `AttrFork`: leaves of attributes under nodes, values in the leaf or in blocks of their own.
- `Superblock`: features are sets, sizes their logarithms. Shifts have the width of the code's
  words, with and without overflow checks (a debug and a release build).
- `TarStream`: a stream has a cell for each byte, so lengths and padding are exact, while a
  header or record is one value in its first cell. Sizes of the format are parameters.

## Runs

Passing runs:

| Run | Bounds | Checks |
|---|---|---|
| `ag` | two groups of 17 blocks, all five trees, up to 5 calls, 1 run held, 4 extents mapped, 4 turns of the sizing loop | `TypeOK`; `FreeMapOK`, `TotalExact`: the free map is well formed and counted; `NoSharing`, `NoLeak`: each block has one owner, and has one if no rebuild failed; `NoCorruption`: the group never finds its own books wrong; `RmapExact`: mappings give each block's owner and place; `CleanIsOnDisk`: a group that is not dirty is on disk as in memory; `TreesFit`: trees have the size their records need; `PoolSpec`: the group implements `BlockPool`; `RebuildEnds` |
| `writer` | two groups of 6 and 3 blocks, 2 inodes a chunk, 6 inodes allowed, 3 names, files of 1 and 2 blocks, 2 modes, up to 4 calls, 1 device error, unreadable group or failing rebuild | `TypeOK`; `BlocksOwned`, `NamesRight`, `DataIntact`: blocks, names, link counts and contents agree through every failed call; `FlushUnseen`: a flush changes nothing a reader sees; `FlushedIsConsistent`: what a flush leaves is a consistent filesystem; `FilesSpec`: until an error costs more than lost space, the volume implements `FileTree` |
| `log` | rings of 7 and 13 blocks, records of 2 or 3 blocks, 2 in flight, 3 written from each of 23 clean logs | `TypeOK`; `HeadExact`, `HeadOrRefusal`; `DirtyNeverClean`; `UnmountedIsClean`; `DirtyRangeCovers`; `NeverWrittenUnready`: no write reaches a volume whose log has changes or that has features the writer does not know |
| `resolve` | 5 inodes, two links with every target of up to 2 components, none included, every path of up to 3, 2 links allowed | `ResolvesMeaning`; `LookupEnds` |
| `export` | every tree of three directories and two other inodes with up to two names each | `WalkExact`; `CopyFaithful`; `LockedFromInside`; `Ends` |
| `formats` | trees of up to 14 records with 2 or 3 to a block; rings of 3 and 4; directories of up to 40 names in blocks of 48 bytes; files of 3 and 4 blocks; links of up to 12 bytes; up to 5 attributes; superblocks of 1 to 3 groups with any one field wrong; archives of two entries in blocks of 16 bytes | `TreeReadsBack`, `DirReadsBack`, `ContentsReadBack`, `TarReadsBack`: what is stored is what is read; `TreeFinds`, `DirIndexSound`: a search by key or hash finds every record or name; `DamageFoundOut`: one wrong pointer or count does not give a wrong map; `NumbersExact`; `ReadsEnd` |

Why the bounds are enough for the interesting cases. In `ag` the second group is
cut into short extents by its files, so that with some sizes the loop
does not settle, with others it does on a later turn, and some rebuilds find no
room; an extent may join neighbours on both sides, be split by a partial take, and
belong to mappings that were merged. Five calls allow take, map, rebuild, release,
rebuild. In `writer` a file's contents may fill a group and spill into the next, the
volume and the inodes run out, a directory needs a second run of blocks, and a
directory's number is used again. In `log` a ring of 13 blocks is twice what
can be in flight and one more, as the code's logs are; the ring of 7 is shorter than
that, which is where the binary search can be misled. The starts put the head at, before
and behind the end of the ring, in the first pass over zeroes and in later ones.
In `formats` trees have up to four levels,
directories take each of their four forms with up to three levels of index and more than one block of free
index, directory blocks are cut in their middle by extents, and PAX records have lengths on
either side of 99 and 100.
Every mutant in `PROJECT.json` (one per property, each a plausible slip in one
definition) is caught within these bounds.

Runs that end in a violation, each a place where the code and what the repository
says about it disagree (`PROJECT.json`, findings):

| Run | What it shows |
|---|---|
| `ag_sizes_settle` | the size a rebuild needs can alternate between two values, so the sizes never hold and it gives up after 32 turns (`alloc.rs:654`); the group is small and has no reverse mappings |
| `ag_flush_after_error` | a rebuild that finds no room has forgotten the old trees' blocks and keeps what it carved; a later rebuild that succeeds writes a group with blocks that are nobody's (`alloc.rs:660`) |
| `writer_lost_names` | a flush that fails drops the lists of names it had not written: earlier writes are no longer seen (`write.rs:1056`) |
| `writer_retry` | a flush that fails after rebuilding a group has cleared its mark; the next flush succeeds without writing it (`write.rs:1067`) |
| `writer_freed` | `write_dir` frees a directory's blocks before it finds new ones; when there are none the next successful flush writes down as free blocks the inode on the device still maps (`write.rs:672`); a device error after `free_fork` in `write_file` (`write.rs:782`) or in `destroy` has the same effect |
| `export_links` | a special file with two names is remembered under the first, which is not exported, and linked to under the second (`export.rs:112`, `export.rs:193`) |

`HeadExact` has two conditions, both about the code and not the model: the log is
at least twice `total_rec_bbs`, and the newest finished record and what is in flight
fit in `total_rec_bbs`. Without the second the search may refuse (`HeadOrRefusal`), without the
first it may find a wrong head; it never takes a dirty log for a clean one in either
case (`DirtyNeverClean`).

Smaller things met on the way, none of them a run:

- `unlink` of one of several names writes the lowered count before it reads the directory
  (`write.rs:990-997`). If that fails the name stays, and the inode has one name more than it counts: a
  second name unlinked later may then destroy an inode that is still named;
- with `imax_pct` used up, `alloc_ino` gives up at the first group without a free inode,
  though a later one may have some (`write.rs:578`);
- `parse` shifts by the superblock's logarithms before it has compared them with anything
  (`sb.rs:219-231`): one as large as its word stops a build with overflow checks, and is taken
  modulo the word's width in another. `NumbersExact` leaves such superblocks out;
- `parse` does not compare the number of groups with the number of blocks, so `ag_len` may
  subtract below zero in a superblock that has too many groups (`sb.rs:346-350`), and
  `fsb_to_byte` takes the numbers of blocks past the end of a short last group;
- `read_blocks` checks the first and the last block of a run; a run over the end of a group
  whose length is not a power of two is not noticed (`volume.rs:192-200`). Extents do not
  cross groups, so none is read;
- an empty AGFL and a full one have the same first and last, and only the count tells them
  apart (`alloc.rs:383`), as in the kernel;
- the extents of an attribute fork's B+tree are not counted (`volume.rs:255`), so a leaf that
  says it holds fewer than it does goes unnoticed there.

### Fairness

`RebuildEnds`, `LookupEnds`, `ReadsEnd` and `Ends` assume weak fairness of the steps of a call that
is under way. A call waits for nothing but its device and nothing else runs
meanwhile, so it goes on as long as it is polled. No fairness is assumed of callers:
nobody has to make a call. `CHECK_DEADLOCK` is off where behaviours end, at
the bound on calls or records or at the end of the one call modelled.

## Proofs

Each part of the argument is a module of its own and extends those it needs. All theorems hold for every value of the constants that the named assumptions allow.

### Recursion, and the free map (`ExtentsProofs`)

- `TakeTakes`, `FreeFrees`: `take` removes exactly the run it is given,
  `free_extent` accepts a run exactly when it lies in the group and is wholly in use,
  and adds exactly it, joined to its neighbours; both keep the map well formed;
- `TakeCounts`, `FreeCounts`: and the number of free blocks changes by the run's length;

The module also has the tool the other proofs need for recursion. The prover takes nothing for granted
of a recursive function: that there is one which satisfies its equation must be shown. The lemma `Recursion`
does that once, for every functional that looks only below along a relation without endless descent, and is used for `blocks_for`,
for the meaning of a path and for the sums in an image of a tree. It is proved by taking the least argument that has no
function fitting up to it; no library theorem with an operator for a parameter is needed.

### An allocation group (`AgProofs`)

- `TypeCorrect`: `Spec => []TypeOK`; `FreeMapCorrect`: `Spec => []FreeMapOK`;
- `SharesNone`: `Spec => []NoSharing`; `LosesNone`: `Spec => []NoLeak`;
  `CountsExactly`: `Spec => []TotalExact`;
- `IsAPool`: `Spec => PoolSpec`, the group implements `BlockPool`;
- `TreesKeepFitting`: `Spec /\ TreesFit => []TreesFit`.

The first two are proved together. `FreeMapOK` alone is not inductive: a turn of
the sizing loop puts back the map saved in `rb.base`, and `Reload` takes the map from
`disk`. The inductive invariant is `Inv == TypeOK /\ MapsOK`, where `MapsOK` says that
the map in memory, the one saved by a rebuild and the one on disk are all well formed.
It is regrouped into `Parts` (the group, the rebuild's locals, the caller, the image,
the history), as most actions touch one or two; there is one lemma per action, and
`StepInv` puts them together.

`NoSharing`, `NoLeak` and `TotalExact` need each other: a run that `free_extent` refuses
may leave the map short of an extent, so the total is right only if nothing free is ever
freed again, which is `NoSharing`. They are inductive together with `RbStages` (the saved
map covers what is free now and what has been carved since; what is carved and what is left
to carve add up to what the trees need), `CleanBlocks` (a group that is not dirty has the
blocks its image says, for `Reload`) and `ChunksThere` (no chunk is all holes): that is `PoolInv`.
The refinement maps the pool's three sets to the free blocks, to what callers and chunks
have, and to the trees' blocks with those a rebuild has in hand; each step is a
grant, a release, a move between the pool and its own blocks, or none of it.
`TreesKeepFitting` starts from a state that fits because a kernel's trees may be less
full than this code's.

### Reverse mappings (`AgRmapProofs`)

- `MergeSaysTheSame`, `MergeTwice`: `merged_rmap` changes no block's owner or place, and
  merging again changes nothing; `RemoveTakesOut`: `rmap_remove` of blocks the owner has
  finds every piece and leaves exactly the other mappings;
- `MapsExactly`: `Spec => []RmapExact`; `NeverCorrupt`: `Spec => []NoCorruption`;
  `CleanOnDisk`: `Spec => []CleanIsOnDisk`.

`RmapExact` speaks of groups between calls of which no rebuild has failed, but calls go on after a
failed one and must not find the books corrupt. So `RmapInv` tells apart the mappings of the
trees' blocks and all others. The others are exact in every state. Those of the trees
are exact between calls until a rebuild fails; after that all that is left, and all that is
needed, is that none is of a block that is free or held by a caller (`TreesOut`), since
such a block may get another owner.

### The log (`LogProofs`)

- `LogTyped`: `Spec => []TypeOK`; `HeadRight`: `Spec => []HeadExact`; `HeadNeverWrong`:
  `Spec => []HeadOrRefusal`;
- `ChangesSeen`, `UnmountSeen`, `RangeCovers`: in every log of at least `2 * total_rec_bbs`
  blocks, `DirtyNeverClean`, `UnmountedIsClean` and `DirtyRangeCovers`;
- `NothingUnready`: `SessionSpec => []NeverWrittenUnready`, with such a log.

`LogInv` is the shape of a ring with records in flight: they follow one another from `Oldest`
to `next`; a block has the cycle of its newest position, or the one before if that is
still out; what has arrived of a record is as it was stamped; and the last finished record is
whole, with no header inside it. From it the head is found in four steps, which are `find_head`'s:
the binary search lands somewhere in the part that may have holes (`SearchFinds`: on some
boundary between the two cycles); the look back over `total_rec_bbs` blocks then finds the
first block that is out, with a case each for the hole lying before the end of the ring,
behind it, and in the first cycle over zeroes; the header before it is that of the newest
record with all blocks before the hole; and that record ends there, or is the one that is torn.
Twice `total_rec_bbs` is what keeps the two ends of the part with holes from meeting: a
shorter log can send the binary search to the wrong side, which the ring of 7 in run `log`
shows. With the code's numbers (8 records of up to 256 KiB) that is a log of
4 MiB. `DirtyNeverClean` is checked by TLC on the shorter ring too, but proved
only for the long ones.

The search is a recursive function. `SearchExists` constructs it, by induction over the
distance of its two ends with the library's theorem on sets, and the lemmas after it only
use its defining equation.

`OpenInv` carries the result into sessions: what `log::state` found at `open` stays true while
the volume is open, as nobody writes the log meanwhile (lemma `KernelOnly` makes what is proved of
`Spec` usable in `SessionSpec`), and a volume is marked written only
if `writer` found it ready.

### The write side of a volume (`WriterProofs`)

- `TypeCorrect`, `BlocksAreOwned`, `DataStaysIntact`, `NamesStayRight`, `FlushLeavesConsistent`:
  `Spec` implies `[]` of `TypeOK`, `BlocksOwned`, `DataIntact`, `NamesRight` and `FlushedIsConsistent`;
- `FlushesAreUnseen`: `Spec => FlushUnseen`, no step of a flush changes what a reader sees;
- `FilesRefined`: `Spec => FilesSpec`, the volume implements `FileTree`.

They hold for any number of groups, of any size, any names, contents, calls and faults, from
any volume that a kernel keeps. `Invariant` is what they rest on, `Spec => []IInv`, and `IInv` has as many
layers as `failed` has values:

- always: `TypeOK`, and `FlushPart`, what a flush has in hand at each stage;
- until an error costs more than space, `Sound`: no block has two owners; what an inode says is stored is there;
  no inode in use is on offer; `NamesKept`, every name is for an inode in use of its kind, and no
  inode has more names than it counts; `ListsKept`, a directory whose list is not in memory has the right
  link count on the device; `GroupsKept`, a group that is not dirty is as its last rebuild
  saw it, and as the device has it unless that write is still to come. After a flush that succeeded
  `Flushed` too: nothing is dirty, no list is held and the superblock has the sums;
- until an error costs anything, `Whole`: each block has an owner, each inode in use has
  exactly its names, and no directory is below itself (`Rooted`).

`NamesRight` is not inductive: it speaks of the names a reader reaches from the root. After an error
there may be directories out of reach, whose inodes and blocks must not be given to anyone. So `NamesKept` speaks of
all directories in use, in reach or not, and `Rooted` gives back that in a volume without
errors all of them are in reach: the directories out of reach would be a set in which each has
its parent, which is what `Rooted` rules out. `BlocksOwned` needs the names as well: `destroy` gives
back the blocks of what a name stands for, so that must be in use, of the kind the name says, and not
named elsewhere when its count falls to nothing.

Every call is brought down to a few shapes. For the blocks, one inode gets and gives back
blocks of the free ones, and writes to no other's (`Effect`, `Moves`, `Marks`); for the names, a list gets one
more, loses one, or is only written down (`Added`, `Dropped`). The soundness of each shape is a
lemma, and each action, with all its failures, is shown to have one. The step lemma
`NextStep` also says what readers see of the step (`Seen`): nothing, one inode changed, one name more or one
less. The last two theorems follow from that: `ReachedMore` and `ReachedLess` show what the one name does to
the directories in reach, and `TouchMaps`, `GainMaps` and `LoseMaps` map the shapes to `Rewrite`, `Add` and `Remove`
of `FileTree`.

The directories in reach (`LiveDirs`) are the least set that has the root and is closed under
naming, which is what looking up paths name by name visits; a set and not a recursion, so that it can
be reasoned about.

### Paths (`PathProofs`)

- `ResolvesWhatIsMeant`: `Spec => []ResolvesMeaning`, for every tree, every path and every limit on links.

`Meaning` is recursive in two ways: it resolves the way round a link, with one link less, and then what is
left of the path with the links which that way round has left. So what it looks at depends on what it has found. `Less` is the order along
which it goes down (fewer links left, or as many and a shorter path), and `AnswersAre` is what keeps it going down:
an answer never has more links left than the question had. With that `Recursion` gives `MeaningIs`, its
equation. What the proof turns on is `InParts`: a path in two parts means what the second part means from where the first
leads, with the links that the first leaves. The code does not resolve a link and then go on; it puts the link's
target in front of what is left and forgets that it did so. `InParts` says that this is the same.
`MeaningInv` then is: what is left of the queue means, from where the call stands and with the links it has left,
what the whole path meant. Each step of the loop is one unfolding of `Meaning`, and the step through a link one use of `InParts`.

### Export (`ExportProofs`)

- `WalkIsExact`: `Spec => []WalkExact`; `CopyIsFaithful`: `Spec => []CopyFaithful`;
  `LocksFromInside`: `Spec => []LockedFromInside`.

They hold for trees of any size and shape, also those in which a directory is its own descendant. `Lead`, where a path
leads, is recursive; `Trail` says the same without recursion (the inodes on the way), and the proofs
use trails. The walk's invariant `WalkInv` has two halves. While the walk goes on, `Walks`: the stack's levels lie below one another
and no directory is open twice, and every path of the tree either has been walked or is still to come from one of the open
levels (`Pending`), never both; all that was walked sorts before all that is to come. When the stack is empty nothing is
to come, so everything has been walked. The hard part is the tree that is refused: a directory met again must be reachable by
two paths that `WalkExact` counts, which are those no longer than there are directories. A walked path is
that short because the directories on it are all different; the second path to a directory
is either the new one, or in a cycle the empty one or one of those open on the stack.

`CopyInv` relates what was written to the first `pos` entries walked, in both directions: each of them is written or its
kind is left out, and each entry written is one of them (`Lawful`), in their order. What `seen` remembers of a shared inode
is the path of an entry dealt with, that path has the contents unless its kind is left out, and every later
entry of the inode is a link to it. An inode that `seen` does not keep has one path only, since one of two paths has two names (`LinksTwo`),
as the link count of a sound volume says. `NoLinkOut` adds that `extract`, which ends at the first link it cannot make,
has made none for what it leaves out. `LockInv` needs only the order: directories made are in the order walked and taken from the back, so
those whose mode is set sort after all those still open, and a path sorts after what it lies below.

### Trees and free lists (`FormatsProofs`)

- `TreesReadBack`: `Spec => []TreeReadsBack`; `DamageIsFoundOut`: `Spec => []DamageFoundOut`;
  `SearchesFind`: `Spec => []TreeFinds`.

They hold for trees of any number of records, any size of nodes and of the root, and so
any number of levels, and for rings of any size.

`build_ag` and `build_bmap` are recursive over levels, and a level is made of the one below by cutting it into
runs of nearly equal length. What is left of that is a `Shape`: for each level, how many blocks it has, where it cuts the
level below (`c`), and with which leaf each of its blocks ends (`p`), and the address of each block (`at`). `ShapeExists`
and `HoldsBuilt` show that every built tree has a shape and holds, block by block, what it says. The walks keep a stack
of addresses and know nothing of shapes. `Follows` is their invariant: for some leaf boundary, the blocks read are exactly
those that begin before it, each once; the records found are exactly those before it; and the stack
holds, from the top down, blocks of which each begins where the one above it ends. A leaf on top moves the
boundary (`LeafVisit`), a node is replaced by its children in reverse (`NodeVisit`). At the empty stack the boundary is
the last leaf, so all blocks were read once and all records found in order; `finish`'s sort then changes
nothing, since records already rise (`FinishSorts`). For the ring, `Around` is the list from `first` on as a function of its
own, and `RoundsOnly` shows it to be what the loop reads.

A damaged tree has no shape that the walk could follow. What every one of the mistakes leaves is `Sound`: blocks lie at their own addresses, pointers lead to
blocks, and no two leaves hold the same record. `LooseWalk` follows from that alone: no block is read twice, as the code
refuses to, and so no record is found twice. A data fork's records are counted by the inode, so a walk that
found as many has found all, and sorted they are the ones stored; an attribute fork has no such count to
compare, which is why there only the second half holds. `DamageKeeps` shows for each mistake that the image stays
`Sound`; `DamageInv` is both invariants with what an image that nothing was done to still is.

A search is a function over the blocks that is defined by itself. `FindingExists` makes it one level at a time,
since pointers lead down (`StepsDown`). What guides it are keys: on every level entries begin in rising order
(`EntriesMount`, `LevelsMount`), because no block is empty and a block's low key is that of its first item, and an entry's
high key is at least that of every item of its block, the last one or not (`KeysAre`). So an item whose span holds
a key is met in its block and the block's entry in the block above (`ItemMeets`), and by
induction over the levels the way to a record that covers the key is open from the root down (`FindsFrom`). That blocks are
linked in order comes from the same rising keys, and that they are half full from what rounding up says of the
number of blocks: one less could not hold the items (`RoomIs`), so shares that differ by one are at least half a block (`HalfFull`).

### Assumptions

TLC evaluates them in the runs of `MCAg`, `MCLogHead`, `MCWriter`, `MCPathResolve`, `MCExport` and `MCFormats`:

- `SizesAssumption`: sizes are natural numbers, a node holds at least two keys, inode
  numbers are not the numbers of special owners;
- `BoundsAssumption`: what callers ask for;
- `ImagesAssumption`: a session starts from a group as a kernel keeps it: well-formed free map, one
  owner for each block, and with reverse mappings, exact and merged ones (`KernelKeeps`);
- `LogAssumption`: a log is longer than a record, a record has at least two blocks, and a log
  starts from an unmounted state in its first cycle (at an even position, as
  unmount records have two blocks) or any later one;
- `WriterAssumption`: the volume has at least one group, groups share no block, a chunk has inodes,
  and sizes and bounds are natural numbers;
- `VolumesAssumption`: a session starts from a volume as a kernel keeps it: one owner for each
  block, right link counts, a name for each inode in use and no directory below itself;
- `ResolveAssumption`: the root is a directory, every directory has a name `..`, names lead to inodes, and a
  link's target is any path, also a relative one that splits to nothing, as `.` does;
- `ExportAssumption`: there are finitely many inodes, a directory has finitely many names and each leads to an inode.
  Nothing is said of loops or of directories named twice;
- `FormatsAssumption`: records are in the order of their keys, extents do not overlap, a node has room for two children, a
  group's tree is no larger or higher than `walk_tree` reads (a natural number of blocks), and a free list fits in its ring.

### What is only model-checked

Liveness is out of the prover's reach. `DirtyNeverClean` in logs shorter than
twice `total_rec_bbs`. Of the invariants of `Formats`, `DirReadsBack`, `DirIndexSound`, `ContentsReadBack`, `TarReadsBack` and `NumbersExact`:
what they say is about what is computed over a whole image in one step, by recursive functions over its
entries and bytes, and each needs an induction of its own over that data.
That a flush in `Writer` runs to its end is assumed as fairness and not proved of the code.

## Not modelled

- Byte offsets of fields, magic numbers and text: what a field holds is modelled, not where it
  lies. Of `inode.rs` only times and device numbers are modelled.
- Extended attributes are read and never written by this code; where a file has them, `write`
  keeps the fork as it is (`Writer` has it as `attr`).
- Times, apart from their packing; generation numbers; the realtime device, which is refused.
- `crc.rs`: bit arithmetic over long buffers.
- `device.rs`, `bin/fio_xfs.rs`: I/O. What a device can do to the rest is in `Writer`
  (a write fails) and `LogHead` (blocks arrive in any order).

## Plan

1. *Done:* `Ag` with `BlockPool`, `Writer` with `FileTree` and device errors in every call,
   `LogHead` with `Session`, `Export`, `PathResolve`; the layouts and parsers in `Formats`. Every
   safety invariant, every action property and the refinements of `Ag`, `Writer`, `PathResolve` and `Export` are proved; the
   invariants of `LogHead` and `Session` are proved for logs of the length the search is made for; of `Formats`, what is
   said of trees and free lists, intact and damaged, and of searching them.
2. Theorems that remain: directories, contents and archives in `Formats`.
3. How much growth of the trees the reserve of `load` covers, over record counts alone: the
   small groups of `ag` show what happens when it does not.
4. Calls after a failed flush in `Writer`, once the code says what they should find.
