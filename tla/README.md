# A TLA+ model of OCIStore

OCIStore is a daemonless OCI image store and command line program built on
containerd's libraries. This directory models the parts of it that keep state,
model-checks them with TLC on small instances, and proves with TLAPS what
matters most for every value of the constants: of the files database, concurrent
extractions, the flattening of layers, the range requests, the extraction of a layer, the
content store and the snapshots. Every safety invariant and action property that a
passing run checks is also proved; liveness is model-checked.

Line numbers refer to the sources of the repository. `PROJECT.json` maps every
definition to the code it stands for.

## 1. Inventory

| Component | Code | State | Operations |
|---|---|---|---|
| Files database | `pkg/filedb` | two bolt indexes: digest to absolute paths, root to (relative path, digest) | RecordAll, RemoveRoot, PathsForChecksum, RootExists, Open |
| Extractor | `pkg/extractor` | the destination tree, the layer context (seen paths, whiteouts, pending opaques, hard links), the files database | ExtractImage: plain and delta layers, cached copies, range downloads, deferred links |
| Range resolver, table of contents | `pkg/ocistore/common.go`, `pkg/chunked` | none | FetchRange, GetToCLocation, FetchToC, ParseAnnotations, ParseFooterFrame, ParseTOC |
| OCI store | `pkg/ocistore` | images, content and leases (metadata database), snapshots (overlay snapshotter) | Pull, Import, ImportFile, SingleImportFile, Unpack, Mount, Umount, Commit, Delete, RunGarbageCollector, label and list operations |
| Overlay snapshotter, unpacker | containerd, external | snapshots with parents | Prepare, View, Commit, Remove, Stat |
| Command line | `cmd`, `main.go` | none | one operation per process, then the garbage collector |
| Logger | `pkg/logger` | none | output only |

How they interact:

- `ocistore extract` runs one `ExtractImage` per process. Processes share the
  file system and `files.db`; bolt's file lock, taken by `filedb.Open` and never
  released before the process ends, is the only thing that orders them.
- The extractor asks the database for paths that hold a digest, copies from
  them, fetches the rest by byte ranges, and records each chunked layer.
- The extractor reads a layer's table of contents through the range resolver and
  falls back to the whole layer where it gets none.
- The other commands open the store. The metadata database's file lock makes
  them run one after the other, but each is a sequence of steps on two stores
  (images, snapshots) with no transaction over both. A library caller may run
  several operations of one store at the same time.
- After each command the garbage collector runs (cmd/root.go:85-101). It removes the
  content blobs that no image and no lease leads to through labels; every operation
  holds a lease for the blobs it touches. The snapshotter is used directly, not
  through the metadata store, so leases, labels and the collector have no effect on
  snapshots.

What is hard about each part, and what makes it right:

- *Files database*: two indexes that must stay in step although deletion finds
  its keys through one of them only; digest buckets collected while other roots
  still use them. Right means: the indexes hold the same facts, no bucket is
  orphaned, and forgetting a root forgets exactly the paths below it.
- *Extraction*: cached paths are read long before they are used; an extraction
  fails or is killed between two recorded layers; several wait for the database;
  users delete files. Right means: a recorded path holds its digest's content or
  nothing, failures forget what they recorded, successes stay, a success is
  complete, and every extraction ends.
- *Flattening*: layers are applied top down although they are defined bottom up,
  entries come in any order, links are deferred. Right means: the tree is the one
  the OCI image specification defines, valid images never fail, no file is
  written twice.
- *Range requests*: merging and counting offsets; registries that ignore ranges,
  footers and annotations that are broken or disagree, 64-bit offsets. Right means:
  every file is read from its own bytes, none is left out, little is downloaded for
  nothing, and what cannot be trusted ends in the fallback.
- *Store*: failures and kills between the steps of unpack, commit and delete,
  partial chains left behind, references that move, archives with several images.
  Right means: a chain ID names the layers below it, a success is one, deletion stays
  within its chain and leaves nothing removable behind.
- *Content and leases*: a collector that runs at any time, blobs that no image refers
  to yet, leases that killed calls leave behind, two callers on one reference. Right
  means: a stored image has all of its content, nothing else stays for ever, and a
  pull ends.

`PROJECT.json` lists the hazards at their lines with the properties that guard
them.

## 2. Modules

| Module | Models | Uses |
|---|---|---|
| `ExtractionIndex` | abstract promise of the files database: per digest, where its content is; forgetting a root forgets what is below it | |
| `FileDB` | `pkg/filedb`, one action per transaction; its refinement of `ExtractionIndex` | `ExtractionIndex` |
| `Extraction` | `ExtractImage` processes over one database and disk | `FileDB` |
| `LayerFlatten` | how one extraction turns layers into a tree; the bottom-up reference | |
| `RangeGroups` | `groupMissingFiles` and `fetchAndApplyBlobRanges`; the abstract specification of `DeltaLayer` | |
| `TableOfContents` | `pkg/chunked` and the answers to range requests, as operators | |
| `DeltaLayer` | one layer of a delta extraction, from its footer to its last file; its refinement of `RangeGroups` | `RangeGroups`, `TableOfContents` |
| `Snapshotter` | the overlay snapshotter's operations (external) | |
| `Store` | the commands on images and snapshots | `Snapshotter` |
| `Contents` | the same operations on content blobs, with leases, the collector and concurrent callers | |
| `FileDBProofs`, `ExtractionProofs`, `LayerFlattenProofs`, `RangeGroupsProofs`, `DeltaLayerProofs`, `ContentsProofs`, `StoreProofs` | the theorems about the module each is named after | TLAPS |
| `StoreWalkProofs` | more theorems about `Store`: what deletions and imports take away | `StoreProofs` |

`Store` and `Contents` look at the same operations from two sides that do not meet in
the code: snapshots live outside the metadata store, blobs and leases inside it. What
both have is the images; `Store` takes from `Contents` that a stored image is complete
(`ImageComplete`, proved).

Each `MC...` module extends one of them and only defines values for its
constants. Operators named `...Mut` are wrong variants of the operator they stand
before; nothing uses them in a run. They record which mistake a property catches.

### FileDB

`checksums` holds the `<<digest, path>>` keys of the first index, `digestBkts` the
digests that have a bucket, `rootBkts` and `relPaths` the second index. Buckets are
kept apart from their keys because an empty bucket is observable: it decides
`RootExists`, and an orphaned digest bucket would be a leak. `RecordAll` and
`RemoveRoot` are each one bolt transaction and so one action. A batch is a function
from relative paths to digests: what a call records per path.

`Next` takes any batch at any time, as the package's API does. `ExtractorNext` only
takes batches of paths not recorded yet, as the extractor makes them; that
`Extraction` is such a caller is the checked property `UsesDBOnce`. The refinement
mapping reads `tracked` from the root buckets and `paths` from the first index; the
second index, which is how the code finds what to delete, is not visible in the
abstract specification.

### Extraction

A process goes through `open` (wait for the lock, refuse a tracked root), `layer`
(choose plain or chunked application), `fetch`, `copy` (cached files, then record),
back to `layer`, and ends `done`, `failed` or `unclean` (its `RemoveRoot` went through,
or failed as well, extractor.go:194), `refused` or `crashed`. The lock is held until
`Exit`. `hits` are the paths read from the database when the table of contents was
processed; they are used two steps later, and `UserDelete` may come between. A layer is a
digest per path.

The disk has a content at each absolute path, and `same` says which paths are hard links
to one file. Files are written in two ways, and the code is not the same for both:
`decompressFile` and `archive.Apply` remove what is at the path and write a new file
(`Create`), `reflinkOrCopy` truncates what is there (chunked_extraction.go:365), so all
links to it show the new content (`Overwrite`). A copy reads what its source holds *at
that moment*, and it may fail before or after the target was truncated (`CopyFails`). Hard
links of the image are made at the end (`Finish`), and stay for later extractions.
`missing` and `hits` are emptied file by file in the loops' order: a fetched file, its
duplicates, then each cached file from one path after the other. `kept` is a history
variable: all that a process recorded.

Not in this module: whiteouts, and which links an image has (`LayerFlatten`; `Finish` makes
any), byte ranges (`RangeGroups`), metadata and permissions of files, symbolic links.

### LayerFlatten

One extraction without failures of its environment. `todo` is the set of entries of
the layer being applied; taking them out in any order covers both tar order and the
unstable sort of `processTOC` (toc_process.go:99). Plain layers are written entry by
entry (`ApplyEntry`), chunked ones are sorted into lists first (`AcceptEntry`) and
then extracted, directories before files (`Extract`). The error paths are those of
the file system: a parent that is a file, a missing parent, a directory that is not
empty. `Flattened` is the reference: bottom up, from the OCI specification's rules for
whiteouts, opaque directories and replaced directories, and independent of the
algorithm's state. A file is identified by the layer and path its content comes from.

### RangeGroups

`GroupFile` is one turn of the loop over the missing files; then each group is
requested and read file by file. `counted` is the code's `currentStreamPos`, `stream`
the position the response really is at. The two are separate variables, and
`ReadsOwnBytes` compares what was really read.

### TableOfContents and DeltaLayer

A layer blob is what its parts say and what it is: the location its last bytes give,
the location its manifest annotates, and the table really in it. They
are independent of each other in the inputs. `Answers` is what may come back for a
range request: the range, cut at the layer's end; an error; or the whole layer, where
the registry ignores the Range header or the header is malformed (common.go:159 prints
whatever the 64-bit arithmetic gives). No code looks at which of them it got.
`DeltaLayer` starts with `FindTOC` and `FetchToC`, each of which ends in the fallback
(`"plain"`) if it fails, and then takes `RangeGroups`' own steps with the registry's
answers. Each request is honoured or ignored by itself; `honoured` remembers the last one.
`RangesExact` says that this implements `RangeGroups`, where every answer starts at the
byte asked for. Although the status of a response is never checked, it holds of registries
that go on honouring ranges once they did (`SteadySpec`): one that ignores them from the
start fails to show a footer or a table, because a frame header comes before the table.
It does not hold of others (`LayerUnsteady`).

### Store and Snapshotter

An image is the sequence of its layers; the chain ID of an image is that sequence and
a committed snapshot's key is one. A command starts in `idle`, records its arguments
and local variables in `cmd`, and goes through its steps by `pc`. Every step has a
failing alternative, and `Kill` may end the command before any of them. `ChainSound`
is not built in: `Commit` computes the name of the new snapshot from the image the
*reference* leads to, and its parent from what was mounted.

An archive is a sequence of images. `ImportFile` and `SingleImportFile` store them one
by one (`StoreImage`), unpack them one by one, collecting errors (`UnpackNext`), and
the second then deletes all but the first (`DeleteExtra`, and the walk it shares with
`Delete`); if one of these deletions fails it deletes the first as well. `DeleteExtra`
gets an image by its name, as the code does, so what it deletes is what the store has
under that name by then. An archive may name an image more than once.

### Contents

A manifest is the set of its layers; its blob refers to config and layers once it is
labelled, which a pull does before it fetches them, an import after, and a commit in
the same write. `held[c]` is the lease of c's call: every blob written, or found, in
the call is added to it (`Store`). `Return` releases it, or leaves it to expire, as
`Kill` does. `CollectGarbage` keeps what stored images and leases lead to. `Pull` has
the code's loop between Create and Update (pull.go:230-249); `Import` and `Commit` try
each once. A commit holds what it writes and not the layers of its base image, which it
has read the manifest of: other calls may replace or delete that image at any time.

## 3. Runs

| Run | Kind | What it shows |
|---|---|---|
| `FileDB` | pass, 3 364 states | any calls of the package on two disjoint roots, paths recorded again under another digest included: nothing a root lists is lost, no bucket is orphaned |
| `Extraction` | pass, 1 028 528 states | two delta extractions, two roots, failures, failed rollbacks, kills, a file users delete, destinations without hard links (`FairCleanSpec`): failures are forgotten, successes stay and are complete, the cache does not lie, the database they share stays the abstract index, and every extraction ends |
| `ExtractionLinked` | violation of `CacheSound` | a copy into one of two hard links that an untracked extraction left changes a recorded file |
| `ExtractionStale` | violation of `ReadableHitCopied` | the last cached path decides; a readable one does not help |
| `LayerFlatten` | pass, 647 131 states | all supported two-layer images over four paths and three-layer images: result, no failure, nothing written twice |
| `FlattenReplaced` | violation of `NeverFails` | a file that replaces a non-empty directory |
| `DeltaLayer` | pass, 116 268 states | all lists of up to four ranges in a sound layer; two files in layers with odd footers and annotations; registries that honour ranges never, or from some request on |
| `LayerUnsteady` | violation of `ReadsOwnBytes` | the request for files is answered with the whole layer, after those for footer and table were honoured: a file is read from the first byte |
| `Store` | pass, 1 456 286 states | all command sequences with failures and kills on two references and chains of up to two layers, with archives of two images |
| `StoreRetag` | violation of `ChainSound` | a reference that moves between mount and commit |
| `Contents` | pass, 315 151 states | two concurrent callers, the collector, kills and expiring leases, where no base image is replaced or deleted while it is committed on: stored images stay complete, nothing leaks, pulls end |
| `ContentsBase` | violation of `ImageComplete` | a base image is deleted and collected while it is committed on |

The violating runs are behaviours of the code that disagree with a comment, a flag's
help or the README; the findings in `PROJECT.json` quote them. Two of them describe
ordinary use: replacing a directory by a file in a Containerfile (`FlattenReplaced`)
and pulling a newer version of a mounted tag (`StoreRetag`).

More disagreements were met that have no run of their own:

- With `DeltaRoot` = `PlainRoot` = `{r1}`, `CacheSound` is violated by an extraction with
  `--delta=false` into a tracked destination: it replaces recorded files and never opens
  the database (extractor.go:184).
- With an archive that names its first image again, `SingleKeepsFirst` is violated: the
  surplus image is deleted by name, which takes the kept one away, and the call reports it
  as imported (import.go:232, 304-311).
- `ImportFile` logs the error of `importFile` and returns nil (import.go:195), so an
  import with `--unpack` whose unpack failed succeeds. `ReportedUnpacked` therefore leaves
  imports out.
- `ParseTOC` never compares a table with the annotated checksum, which tocutil.go:160-161
  says it is there for: the location it is given is the footer's, whose digest is empty
  (common.go:209). No step depends on the checksum, so the model has none.

### Bounds, and why they are enough

- `FileDB`: two roots, two relative paths, two digests. Every conflict between recording
  and removing involves one digest shared by two roots, or one path under two digests.
  What only holds of the extractor's calls (`IndexesAgree`, `ImplementsIndex`) is checked
  with the extractions that make them, as `IndexesInStep` and `KeepsIndex` of
  `Extraction`. The theorems have no bounds.
- `Extraction`: two processes, two destinations, two paths, two digests, images of one
  and two layers, with and without table of contents. A process runs once, so a failure
  or a kill can be followed by one other extraction, into the same or another
  destination. Users may delete the file at one path (`OneFile`), in `ExtractionStale`
  any file. The run takes `FairCleanSpec` for all properties; only two of them need
  clean destinations, and the others are proved of `Spec`. Two processes are enough for
  a holder and one that waits; two layers for a failure after a recorded layer.
  `ExtractionLinked` has a third path, of which two are links.
- `LayerFlatten`: four paths, three deep; every set of entries a builder can put into a
  layer, in all pairs of layers; three layers where the middle one and the top one
  have at most two entries. Depth three separates parent from ancestor; three
  layers separate "the layer below" from "all layers below".
- `DeltaLayer`: layers of 13 bytes, with eight bytes of files, a table of two and a
  footer of two; `Word` = 32, so that offsets and lengths past the layer, past an int64
  and past a uint64 are all there; `MaxTOCSize` = 8 below what a footer may claim.
  File offsets 0..6, sizes 1..2, threshold 2, up to four files: gaps below, at and
  above the threshold, contained, equal and overlapping ranges. Layers without a table,
  also shorter than a footer, have none or a lying one. The theorems have no bounds.
- `Store`: two references, one mount key, two layers, `MaxLayers` = 2, at most two
  unpack keys leaked by kills (`Unique`). A base and a derived image share a layer;
  the mount key can be used any number of times; archives hold an image and one built
  on it, under either reference. The references are symmetric, and so are the unpack
  keys. `StoreProofs` has no bounds.
- `Contents`: two callers, so every step of one comes between any two of the other; a
  base image, which may be pulled and imported, and a reference only commits write, so
  that a base is deleted and pulled again under the image built on it. Of the four
  properties only `ImageComplete` needs `BasesStaySpec`; `TypeOK` and `NothingLeaks` are
  proved of `Spec`. At most one set
  of leases is left behind at a time, and those expire together. `ContentsProofs` has
  no bounds on callers, references and layers.

### Fairness

- `EveryoneEnds` of `Extraction` assumes weak fairness of each process's own steps: the
  scheduler runs a ready process, calls to the network and the disk return, and
  `bolt.Open` polls for the file lock, so a waiter gets it once it stays free. Weak
  fairness is enough because a lock is released once per process and each process runs
  once. No fairness is assumed of starting, killing or of users.
- `PullEnds` of `Contents` assumes weak fairness of each caller's own steps, and nothing
  of starting calls, failures, the collector, kills and expiry. It needs its premise:
  a caller that deletes the image again and again between Create and Update keeps a
  pull in its loop.
- `FairCleanSpec` and `FairBasesStaySpec` add that fairness to the assumptions below. A
  step that an assumption excludes is not taken, and neither is the behaviour in which its
  process would be held back before it for ever: nobody is given such a destination, and
  nobody replaces such a base image.

### What is assumed

- `RootsDisjoint`: destinations are not inside one another. Without it `ReverseCovered`
  is false: record the same file for the roots `/a` and `/a/b`, remove the root `/a`, and
  the key that `/a/b` still lists is gone (filedb.go:173). The command line does not
  refuse such destinations.
- In `Extraction`: an image is a sequence of layers that give paths a digest or nothing
  (`ImageAssumption`), the destinations are among the roots (`RootsAssumption`), there is
  something to extract (`JobAssumption`); the markers for no digest and no process are
  not digests or processes (`NoDigestAssumption`, `NobodyAssumption`).
- `Apart` (`ExtractionProofs`): `RootsDisjoint`, and nobody extracts with `--delta=false`
  into a destination of delta extractions, which writes below a tracked root without
  looking into the database and violates `CacheSound`.
- `CleanSpec` (`Extraction`): when a delta extraction begins, the paths it may write are no
  hard links. Nothing in the code asks for it: `ExtractionLinked` shows what happens
  otherwise, since copies are made in place. Symbolic links left in a destination have the
  same effect and are not modelled. Only `CacheSound` and `SuccessIsComplete` need it.
- In `LayerFlatten`, paths are closed under parents (`PathAssumption`), and an entry of
  a layer has a path below the destination: the root's own entry is left out
  (`ImageAssumption`; extractor.go:293).
- `Supported` images in `LayerFlatten`: `NoDirReplaced` and `LinksStay` exclude two
  shapes that violate the properties. The first is refuted by `FlattenReplaced`; the
  second by a lower layer with a file and a hard link to it and an upper layer that
  replaces the file: links are made after all layers, from what is there then
  (extractor.go:415). `RemovesOnlyBelow` excludes layers that remove what they give,
  `ParentsPresent` layers without entries for their directories. The theorems name these
  conditions, and that a layer gives a path once (`GivenOnce`, `Sane` in the run),
  together as `Valid`; all images of the run are valid.
- `SteadySpec` (`DeltaLayer`): a registry that honoured a range request for a layer honours
  those that follow. A response's status would tell, and the code does not look at it;
  `LayerUnsteady` is what happens otherwise. All theorems about `DeltaLayer` are of
  `SteadySpec`.
- In `DeltaLayer`, the files a table lists lie in the layer before the table
  (`LayersAssumption`). A table that lists
  ranges outside is not refused by the code, which then fails in `decompressFile`.
- `MovingTags = FALSE` in `Store`: no reference moves while a mount is labelled with it
  (refuted without it by `StoreRetag`).
- In `Store`, users pass mount keys, not chain IDs, to `umount` and `commit`
  (`KeysAssumption`); archives have at least one image (`ArchivesAssumption`); and no
  reference is the one that stands for none (`NoImageAssumption`).
- `FirstNamedOnce` (`Store`): no later image of an archive has the first one's name. Only
  `SingleKeepsFirst` needs it, and is violated by archives without it.
- `BasesStaySpec` (`Contents`): no call replaces or deletes a base image while another one
  commits on it. Only `ImageComplete` needs it (refuted without it by `ContentsBase`);
  commit.go:166 leaves open what keeps the base's content.
- In `Contents`, no set of layers is the marker of a reference without an image
  (`NoImageAssumption`). Archives are complete, and no call lasts longer than its lease of
  one hour.

## 4. Proofs

All theorems are for every value of the constants that satisfies the named
assumptions.

| Module | Theorem | Statement | Assumes |
|---|---|---|---|
| `FileDBProofs` | `TypeCorrect` | `Spec => []TypeOK` | |
| | `BucketsFollowKeys` | `Spec => []NoOrphanDigest` | |
| | `ReverseIndexCovered` | `Spec => []ReverseCovered` | `RootsDisjoint` |
| | `IndexesInStep` | `ExtractorSpec => [](TypeOK /\ IndexesAgree)` | `RootsDisjoint` |
| | `FileDBImplementsIndex` | `ExtractorSpec => ImplementsIndex` | `RootsDisjoint` |
| `ExtractionProofs` | `TypeCorrect` | `Spec => []TypeOK` | `RootsAssumption`, `ImageAssumption`, ... |
| | `FailuresAreForgotten` | `Spec => []FailuresForgotten` | the same |
| | `SuccessIsKept` | `Spec => []SuccessKept` | the same |
| | `DatabaseUsedOnce` | `Spec => UsesDBOnce` | the same |
| | `ExtractionsKeepAnIndex` | `Spec => KeepsIndex` | `RootsDisjoint` |
| | `IndexesStayInStep` | `Spec => []IndexesInStep` | the same |
| | `CacheIsSound` | `CleanSpec => []CacheSound` | `Apart` |
| | `SuccessLeavesTheImage` | `CleanSpec => SuccessIsComplete` | `Apart` |
| `LayerFlattenProofs` | `TypeCorrect` | `Spec => []TypeOK` | `PathAssumption`, `ImageAssumption` |
| | `FilesAreWrittenOnce` | `Spec => FilesWrittenOnce` | `FromTrees` |
| | `NothingFails` | `Spec => []NeverFails` | `Valid` |
| | `FlattensCorrectly` | `Spec => []FlattenCorrect` | `Valid` |
| `RangeGroupsProofs` | `TypeCorrect` | `Spec => []TypeOK` | `ThresholdAssumption` |
| | `FilesReadFromOwnBytes` | `Spec => []ReadsOwnBytes` | |
| | `EveryFileRead` | `Spec => []AllRead` | |
| | `GapsAreSmall` | `Spec => []LittleWaste` | |
| `DeltaLayerProofs` | `LayerImplementsRanges` | `SteadySpec => RangesExact` | `WordAssumption`, `LayersAssumption` |
| | `LayerReadsOwnBytes`, `LayerReadsAll` | `SteadySpec => []ReadsOwnBytes`, `[]AllRead` | the same |
| | `LayerWastesLittle` | `SteadySpec => []LittleWaste` | the same |
| | `LayerTypeCorrect` | `SteadySpec => []LayerTypeOK` | the same |
| `ContentsProofs` | `TypeCorrect` | `Spec => []TypeOK` | `InputsAssumption` |
| | `ImagesStayComplete` | `BasesStaySpec => []ImageComplete` | the same |
| | `CollectorLeavesImages` | `Spec => NothingLeaks` | the same |
| `StoreProofs` | `TypeCorrect` | `Spec => []TypeOK` | `~MovingTags`, `KeysAssumption`, `ArchivesAssumption`, ... |
| | `ChainsStaySound` | `Spec => []ChainSound` | the same |
| | `ReportsAreTrue` | `Spec => []ReportedUnpacked` | the same |
| `StoreWalkProofs` | `FirstIsKept` | `Spec => []SingleKeepsFirst` | the same, `FirstNamedOnce` |
| | `DeletionStaysOnChain` | `Spec => DeletesOwnChain` | as for `StoreProofs` |
| | `WalksToTheEnd` | `Spec => NothingLeftBehind` | the same |
| | `LayersSurviveUmount` | `Spec => RemoveActiveKeepsLayers` | the same |

*Files database.* `Facts(root)` are the keys of the first index that the second one
leads to. `FactsAfterRecord` and `FactsAfterRemove` say how a transaction changes them,
`FactsApart` that disjoint roots share none. `IndexesAgree` (the first index is the
union of all facts, untracked roots have none) is inductive together with `TypeOK` for
the extractor's calls: recording a fresh path adds the same pair to both sides,
removing a root takes `Facts(root)` from both, and `FactsApart` keeps the others. It is
*not* an invariant of `Spec`, where a path may be recorded again under another digest
(filedb.go:114); what survives there is `ReverseCovered`, the inclusion that no root's
facts are missing. `StepRefines` then maps each transaction to a step of the index:
because the indexes agree, what `RemoveRoot` finds through the second index is exactly
what lies below the root.

*Extractions.* The lock holder is the only extraction past `open` (`Progress`), and its
destination was untracked when it opened the database; so every record under that
destination is its own, and the paths it gives out next are not among them (`Records`).
That is the discipline the database's theorems need: `DatabaseUsedOnce` maps every step
to a transaction of `FileDB` or to none, and `ExtractionsKeepAnIndex` composes it with
`FileDBImplementsIndex`, as `IndexesStayInStep` does with `IndexesInStep`. `Alone` and
`Witnessed` are what a failed, finished or killed extraction leaves to the next one.
Nothing up to here looks at where files lie. `CacheSound` does: `Placed` says what an
extraction has on disk at each of its steps, and that its paths share no file with
others (`Unshared`), which is where `CleanSpec` enters: its own links come last, so
copies in place write one path only. Its heart is that a cached path, read while the
table of contents was processed and used two steps later, still holds its digest or is
gone: the holder writes below its own destination only, to paths it has not recorded.
`SuccessIsComplete` follows from `Placed` at the last step, because the topmost layer
that has a path is the first one applied.

*Flattening.* Two invariants hold of every image: no path is given out twice (`Once`),
and the layer's entries already handled are hidden (`Handling`). They do not protect a
file from `archive.Apply`, which replaces a directory with all that is below it; that
needs `Guarded`: the directories above a file are seen, removed or yet to come, if layers
are made from directory trees (`FromTrees`: `ParentsPresent`, and no path is given both as
a directory and as a file, which every valid image satisfies). For valid
images `Sound` says what the disk is. An entry *stays* if no layer above touches its path
(`Top`); the filter passes exactly the entries that stay (`KeptStays`, `OmittedGoes`), so a
handled one is on disk, accepted or among the links (`Made`), and nothing else is on disk
(`OnDisk`). `Hiding`, `WhiteoutsFrom` and `SeenFrom` are why: what hides a path is an entry
of a layer above, and each such entry hides. `NeverFails` follows, because the parents of
an entry that stays are directories that stay (`ParentTop`), with nothing below a file
(`NothingBelowTop`). For the result, the reference leaves at a path what the last layer
touching it gives (`AppliedContent`, `AppliedElsewhere`, `Reach`), and there is one such
entry (`OneTop`). `NoDirReplaced` and `LinksStay` enter at `NothingBelowTop` and
`TargetTop`. The reference is a recursive function over the layers: that it exists
(`TreesExist`) and that a value reaches the top (`Reach`) are shown at the least number
for which they would be false, since the provers cannot use the induction theorems.

*Range requests.* `ReadsOwnBytes` speaks of files already read; what keeps it is that
the counted position is the real one (`Reading`), that a group is exactly the bytes of
its files and the small gaps between them (`GroupOK`), and that groups follow one
another (`Consecutive`). The case that needs thought is an overlap: a file that begins
before the group ends is never merged into it, since its gap is negative, so within a
group the position is never past the next file.

*One layer.* `OnlyRanges` (files are only fetched where ranges are honoured, by a
registry that then goes on to honour them) is the invariant. An answer from the layer's
first byte is no footer unless the layer is the footer, and no table, because a header
precedes it; so an ignored range ends in the fallback. Where ranges are honoured the
requests are well formed, because a group lies in its layer (`GroupInLayer`) and a
layer's size is an int64. Each step is then one of `RangeGroups`, and its theorems carry
over. For `LayerTypeOK`, the location of a table is used as it came, so its offset and
length are what a uint64 holds.

*Content.* `ImageComplete` says nothing of calls under way. `CallSafe` says for each
step what the call counts on: blobs its lease holds, blobs reached through the labels of
a manifest it holds, or blobs of the image it commits on. `OthersStaySafe` is the heart:
no other caller's step takes any of them, where `BasesStay` is needed for the last;
`CollectSafe` is that the collector does not either. That nothing leaks does not need
it. `NothingLeaks` needs one fact more, `LeasesEnd`: a caller that is idle holds
nothing.

*Snapshots.* `ChainSound` is not inductive: removing a snapshot keeps it only if no
committed one lies on it, and an unpack keeps it only if the layers below are still
there. The invariant has five parts about the snapshots (`SnapsSafe`: types and unique
keys; chain IDs for exactly the committed ones; what a snapshot lies on exists; chains
are whole; a mount's label names the image below it or a deleted one) and one about the
running command (`StepSafe`: the layers it counted are there, its own snapshot is
still its own, the images it will store are admitted). One lemma for each operation of
the snapshotter (`PrepareSafe`, `CommitSafe`, `RemoveSafe`) keeps the first, one per
action keeps both. `Labels` is where `~MovingTags` enters: without it a commit gives
its snapshot a name that is not its parent's plus one layer.

*Walks.* `StoreWalkProofs` adds `Kept` to that invariant. A deletion's walk is at a layer
of the deleted image that is there, and none of the image's layers above it is left
(`WalkAt`); so each step of it takes a snapshot of the chain, and where it ends the next
one has another snapshot on it. That the first snapshot exists comes from far away:
`isUnpacked` found it under the reference, so the reference must still lead to the image
the command read (`Stored`). `SingleKeepsFirst` rests on what `DeleteExtra` does with
errors: once one deletion has failed, the first image goes too and the command fails
(`Deleting`).

Only model-checked: the liveness properties `EveryoneEnds` of `Extraction` and `PullEnds`
of `Contents`, which are out of the prover's reach. The runs that expect a violation
refute their property by a counterexample and need no proof.

## 5. Not modelled

- `Update`, `Create`, `List`, `Get`, the label operations and `FetchMetadata`: single calls
  without a decision.
- Registry protocol, authentication, TLS, decompression, JSON, file metadata. That
  `decompressFile` does not check a file against its digest.
- In `Extraction`: symbolic links, directories, and empty files, which
  `createStructuralNodes` makes in place (chunked_extraction.go:66); `LayerFlatten` has
  them.
- The files in snapshots: a commit takes the directory of a mounted snapshot
  (commit.go:179), and writes to the mount that come later change a committed layer.
- Filters, platforms and name transformations of pulls and imports: they choose what is
  stored. Archives that lack content.
- Content that a snapshot-removing operation cannot read: `Delete` fails without the
  image's config (`Contents`), and `Store` starts it only with a stored image.
- Concurrent library callers of the snapshot operations: `Store` runs one command at a
  time, as the command line's file lock does.

## 6. Plan

1. (done) Files database, its abstract index and its proofs.
2. (done) Extraction processes; flattening; range requests; store commands.
3. (done) Table of contents, the extraction of a layer and its refinement; content,
   leases and the collector; archives with several images.
4. (done) Theorems about range requests, layers, content and snapshots.
5. (done) Theorems about extractions and their use of the database, flattening, the
   walks of deletions and what the collector leaves.
6. Which conditions of `Valid` the theorems can do without: `GivenOnce` and
   `RemovesOnlyBelow` describe what builders write, but `ParentsPresent` excludes archives
   made by hand.
7. `ChainSound` with moving references, for the chains of images whose reference does not
   move.
8. Extraction with several invocations per process (the unclosed database), and a
   composed view of `Extraction` over `ExtractionIndex` instead of `FileDB`.
