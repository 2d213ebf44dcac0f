# Verification of openKRX

TLA+ models of openKRX, the TLC runs that check them on small instances, and
theorems checked by TLAPS for every value of the constants. The code is the
reference: every definition that models code is mapped to its lines in
`PROJECT.json`.

## 1. Inventory of the system

openKRX reads, checks, extracts, creates and repacks KRX packages, which are ZIP
archives with an XML metadata document. It is two crates. `openkrx-core` is a
library of pure functions over a byte image: it opens no file and keeps nothing
between calls. `openkrx-cli` is the only part that touches a file system. There
is no server, no thread and no lock: concurrency is between processes and
whoever else uses the same directories.

| Component | State it keeps | Operations | What makes it correct |
| --- | --- | --- | --- |
| extraction writer (`openkrx-cli/src/extract/`) | the destination's tree, the marker file, the ledger of what the run created | preflight, open the destination, create the marker, create directories and files, remove the marker, undo | no overwriting; one writer at a time; success only over a whole package; a failure takes back exactly its own work; unfinished output is marked |
| extraction planner (`openkrx-core/src/extract/`) | a list of items and running totals, during one call | classify an entry, split and check its name, count against the ceilings, look for collisions, list the directories | a plan is realisable on every supported file system; a plan is complete; a refusal names the first cause; ceilings are exact |
| single-file placement (`openkrx-cli/src/{output,create,repack,input}.rs`) | one output file, a ledger of one path | check the parent, create exclusively, write, read back, self-check, undo | no overwriting; a failed self-check leaves no file |
| archive inventory (`openkrx-core/src/archive/`) | a parse position, the entries so far, running totals | find the end record, read the central records, agree with the local headers, account for every byte, decode | every byte of the image is owned once; local and central agree; ceilings hold before memory is spent |
| bounded inflate (`archive/inflate.rs`) | bytes in and out of one stream | decode a chunk, enforce size and ratio | no output beyond the ceiling; exact sizes |
| metadata reader (`openkrx-core/src/metadata/`) | a stack of open elements, the model so far | scan an event, open, close, take text | bounded depth and counts; each field once |
| profile validation (`openkrx-core/src/profile/`) | findings | locate the metadata, follow references, report | the verdict follows from the findings; findings are complete |
| package creation (`openkrx-core/src/create/`) | the image being written, offsets | name the entries, write XML, write records | what is written reads back equal |
| package repacking (`openkrx-core/src/repack/`) | a plan over one inventory, applied over another | plan edits, lay out, apply | untouched entries survive; a plan fits the package it was made for |
| exit classification (`openkrx-cli/src/exit/`) | none | code to category to status | total over the published codes |
| command line, rendering, JSON and manifest reading | none | dispatch, print | layout only |
| synthetic packages, fuzz targets, tests, scripts, docs | none | | around the program |

Interactions: the command line reads one input through `input.rs`, the library
turns it into an inventory, the planner turns that into a plan, and the
extraction writer carries the plan out. Creation and repacking hand one byte
image to placement, which reads it back through the library to check it. The
writer and placement share the ledger of `cleanup.rs`.

What is hard here: a file system under several processes with no transaction;
looks that are stale when they are acted on; a failure or a crash between any
two system calls; an undo pass that may fail itself; ceilings on running totals;
refusals that depend on two entries together.

## 2. Modules

| Module | Role |
| --- | --- |
| `Extraction` | several `extract` processes at one destination, one action per system call: `mod.rs`, `preflight.rs`, `writer.rs`, `cleanup.rs`, and the descriptor arm of `resolver.rs` over `unix_fd.rs` |
| `MCExtraction` | the small instances of it |
| `ExclusiveOutput` | the abstract promise: a lock, output that only its holder changes, completion over whole packages, crashes that free nothing |
| `ExtractionRefinement`, `MCExtractionRefinement` | the refinement mapping: the marker is the lock, `ImplementsExclusiveOutput` |
| `Confinement`, `MCConfinement` | one `extract` process among others who rename directories and plant links: both arms of `resolver.rs` on three kinds of platform, walked one component at a time |
| `ConfinementProofs` | confinement beneath the descriptor, confinement by name while others keep away, the accounting of a failed run, and that an undo pass reaches its own, proved |
| `ExtractionProofs` | type correctness, mutual exclusion, that a run touches only what it created, what a run that failed or died leaves behind, the exact ledger and report, whole success, the undo pass that can go on, and that `Extraction` implements `ExclusiveOutput`, proved |
| `ExtractPlan`, `MCExtractPlan` | the planner: one action per turn of its loop or pass over all items |
| `ExtractPlanProofs` | all its properties, proved: exact verdicts, complete plans, sorted parents, realisable plans |
| `Placement`, `MCPlacement` | several `create` and `repack` processes: `create.rs`, `repack.rs`, `output.rs`, `input.rs` |
| `PlacementProofs` | delivery, accounting, no overwriting, ownership of the undo pass and type correctness, proved |
| `Inventory`, `MCInventory` | the archive inventory and the decode loops under it: `archive/{mod,eocd,central,local,inflate}.rs` |
| `InventoryProofs` | type correctness, the exact verdict, the exact cover and its refusals, the ceilings and the second decode, proved |
| `DocumentLemmas` | what the proofs about documents share, for every alphabet and every limit: sequences and running totals, where an element closes and what it is to the grammar, the faults of an event, that a document cut off at the end of its first element says what the whole one says, that a document that was written is read as what it was written from, and that a text the reader accepted is written as it was, proved |
| `Documents` | metadata documents as sequences of events, the values of `metadata/model.rs`, and the grammar as a relation between the two: which value a document has, or which faults show first |
| `MetadataReader`, `MCMetadataReader` | the reader as a program: `metadata/{scanner,reader}.rs`, one action per event; checked against `Documents` |
| `MetadataProofs` | the reader's depth follows the nesting of the document, its type correctness, its exact counts and its exact verdict, proved |
| `Profile` | the structural checks of `profile/`, a function of an inventory |
| `DocumentWriter` | the document of a package, `create/xml.rs`: from a value to the events, and the texts it refuses |
| `Creation` | `create::package()`, a function of a request: the refusals in their order, the document, the entries |
| `Packages`, `MCPackages` | the life of a package: written, found, planned over, exchanged, written again: `repack/` over `Creation` and `Profile` |
| `PackagesProofs` | type correctness of all three over the life of a package, that nothing slips past the checks together, that no root makes a package fail, that what is written is read back, and that a plan is carried out whatever package `apply()` is given, proved |

The modules meet at these points. `Extraction` assumes of a plan
(`PlanAssumption`) what `ExtractPlan` delivers: its directories are exactly the
parents of its files. `Confinement` takes the same calls apart that are single
steps in `Extraction`: there a path is an object, here it is walked to one. Every
failure in `Placement` and `Extraction` goes through
the same ledger, by name in the one and beneath a descriptor in the other.
`MetadataReader` extends `Documents` and is shown to return its `Verdict`;
`Profile` extends `Documents` and takes `Verdict` for what the reader returns.
`Creation` extends `Profile`, for it writes what the profile looks for, and
`DocumentWriter`, which like `MetadataReader` knows documents only; `Packages` extends `Creation` and calls all of it in one state machine. What
`Packages` asks of an archive that is written (`Readable`) is what `Inventory`
accepts: its limits, what the fields of a record hold, no name twice.

### Extraction

`fs` maps each path of a finite tree to what `lstat` would say of it (absent,
file, directory, link), who created it, and whether a run's file is whole. Each
run has a `pc`, a loop position `at`, its `ledger`, the `code` it failed with and
the two counts of its report. `taken` remembers what others
removed of a run's work, its marker included.

The actions follow `run_between` and `commit`. `Plan` to `OpenRoot` are the looks
before the first write; each may refuse and each may fail with `output.io`.
`CreateMarker` is the `O_EXCL` creation. `MakeDirectory` is `mkdirat` and, when
something is there, `AcceptDirectory` is the second look by `resolve`, a system
call of its own. `CreateFile` and `WriteFile` are the two halves of one item, and
`RemoveMarker` the last step. A failure leads to `undo`; `UndoNewest` is one
removal of the pass, `UndoEnds` its report. `Crash` may come before any step.
`ClearMarker` is the deliberate human act the docs ask for, taken only on a
marker no live run holds (`TakeAway` is what it and a stranger do to a path). `StrangerCreates` and `StrangerRemoves` are whoever
else writes in the destination; `Plantable` and `Erasable` bound them.

Every system call may fail for a reason of its own, so failure is a choice in
each action, not a special run. A resolution fails with the code of the first
component that is no directory, as `code` in `resolver.rs` maps `ELOOP`,
`ENOTDIR` and the rest. Only where the destination itself is opened is the code of
a link a choice (`RootCodes`): both flags of `open_root` refuse it, and the kernel
says which.

Abstracted: the bytes of a file (`full` or not), the entry index in a
diagnostic, the figures of a successful report. A removal in the undo pass is one
step from resolving the parent to unlinking: between the two the code holds the
parent's descriptor, and what could change in between is the name itself.

### Confinement

A file, a directory or a link is a node, and a name is an entry of a directory:
`kind`, `entries` and `leads` are the tree. So a directory that others move away is
still the same directory, and what a run holds a descriptor of (`root`) may have
another name by now or none. `pc` is the call under way, in the order of
`run_between` and `commit`, and `at` its position in the loop it belongs to. A
call walks its path component by component: `hand` is the directory it has
reached and `depth` how far it has come. `Walk` is one component, by the kernel or
by `walk` in `unix_fd.rs`; what is done at the end of the path (`Make`, `Unlink`, a
look) is another step, and others may act between any two.

`platform` is the build, `arm` what `Resolver::open` chose. On the descriptor arm
a path starts at `root` and no link is followed (`Follows`); on the portable one it
starts at the directory above the destination, every time anew, and links are
followed, except that a directory found or made is looked at by `symlink_metadata`
(`ReadBack`, with `created` for the directory that is made and not recorded yet).
Linux has either arm, for the probe of `openat2` decides; other Unix systems have
the descriptor arm only; Windows has the portable one and does not open the
destination at all (`OpenNothing`). `Fail` records what the call had created before
it failed, as `DirectoryFailure` carries it.

`Rename` moves a directory, with what is in it, to a free name and `Plant`
makes a link to a directory; renaming one directory away and another into its
place, or a link, is two such moves. The history: `home` is every directory that
has lain in the destination, `touched` every directory the run changed, `made` what
it created. `meddled` says that others moved something since the destination was
opened, or on Windows since it was looked at; `intruded`, that they did so inside
it; `balked`, that a removal failed of itself.

Abstracted: the codes, the bytes, crashes and other runs, which are in
`Extraction`; mounts, which `openat2` alone refuses; links lead to directories.

### ExtractPlan

`entries` is what the inventory accepted, `next` the position of the loop in
`plan()`, `items` and `total` its running state, `directories` its result and
`refusal` the error. `Skip`, `RefuseEntry`, `RefuseTotals` and `PlanEntry` are one
turn of the loop; `RefuseCollision`, `RefuseConflict` and `Deliver` are the passes
of `collisions.rs` once `EntriesEnd` has closed it. `VerdictIsExact` compares this
stepwise decision with `Extractable`, a statement about the package as a whole,
and asks of a refusal that the package read up to the entry it names cannot be
extracted already. `CanBeCarriedOut` carries the plan out on a file system that
compares folded names.

A name is a sequence of components, and what the checks tell apart of a component
is a constant: the class of its first flaw (`Flaw`), its width in bytes (`Width`),
its place in the order of strings (`Rank`) and its folded key (`Key`). Which
characters give which class is left out.

### Placement

A path names a file and a file outlives its name: `name` maps a path to the file
it names and `content` says what is in each file. A run has `pc`, the bytes it
read last (`held`), the image it built (`package`), whether its ledger holds its
path, its code and report, and what its standard output carries. `Read` and
`ReadBack` go through the same `ReadPath`, as both go through `input::read`.
`Build` stands for the library: its outcome is an image that checks clean, one
that does not, or a refusal. `OthersPut` and `OthersTake` are other programs at
the paths, and `interfered` remembers where something was taken away.

### Inventory

`image` is a sequence of cells, counted from 0 as offsets are. A cell is the head
of a record with the fields the reader uses, or a cell of content; a record is as
many cells wide as a constant says, its head and what follows it. The reader goes
by position alone, so whatever cell lies where an offset leads is what it reads.
`phase` names the loop that runs, in the order of `inventory()`: `end`, `records`,
`locals`, `cover`, `decode`, and then `done`, from where `entry_bytes()` may be
called any number of times (`again`). `end`, `records`, `layouts`, `cursor`,
`sizes` and `total` are the loops' own variables, `walked` is the position in the
sorted list of `check_coverage`, `decoded` the counter of `Accounting`, and
`refusal` the error with the number of its entry.

Each turn of a loop is a pair of actions, one that refuses (`RefuseRecord`,
`RefuseLocal`, `RefuseRegion`, `RefuseChunk`, ...) and one that goes on
(`ReadRecord`, `VerifyLocal`, `ClaimRegion`, `AcceptChunk`, ...). The checks of a
turn are an operator that gives the first code they would return (`EndFault`,
`PlaceFault`, `LocalFault`, `ChunkFault`, `FinishFault`), in the code's order.
`VerdictIsExact` compares the whole run with `IsPackage`, which says of an image
at once what a package is.

Abstracted: what flags, methods, extra fields, comments and the bytes of a name
give is the first flaw of a record (`flaw`, `NameFlaw`); CRC-32 is the parity of
the bits of the content; a DEFLATE stream is a head that says how many cells it
takes, what it yields and whether it is sound, and the decoder returns the yield in
pieces of its own choice. The 64-bit additions of offsets, which the code checks
or saturates, cannot overflow on sums of 32-bit fields and are plain sums here.

### Documents and MetadataReader

A document is the sequence of events quick_xml finds in its bytes: elements that
open, with a name, what their namespace is (the target, none, another, an unbound
prefix) and their attributes; ends; spans of text; the constructs that are refused;
and a place where quick_xml itself stops with an error. What quick_xml promises is
an assumption on the inputs: no end comes without its start (`Nested`), and no
value or text is longer unescaped than it was raw (`Attribute`, `TextEvent`).

The parser is a recursive descent, and `stack` holds its calls that have not
returned: `DocumentCall`, `ConsignmentCall`, `SlotsCall` for a header or an
attachment, `ListCall`, `DispatchCall`, `LeafCall`, `SkipCall`, each with the local
variables of its function. `elements`, `depth`, `text` and `pending` are the
scanner's counters, `next` is the event it asks for, `unknown` the parser's count
of elements without a meaning, `outcome` what `parse()` returned. One action is one
event with everything both do about it: what the scanner counts or refuses
(`Refusal`, in the code's order), and which call takes the node. An empty element
is two steps, one to open it and one to close it from `pending`. Every function has
its actions: `OpenRoot`, `OpenBlock`, `OpenLeaf`, `OpenDispatch`, ... where an
element opens below it, `CloseSlot`, `CloseHeader`, ... where its own ends, and
`ScannerRefuses`, `PassOver`, `TakeText`, `EndOfDocument` for what is no element.

`Documents` says the same without the program. `Tree` gives each event its parent
and its part in the grammar; `Meaning` is the value; `FaultsAt` are the faults that
show at an event, of which the reader may report any; `Verdict` is what may be
returned. The two have no definition in common but the names of the elements.

Abstracted: a text is a sequence of pieces and a piece counts as one byte; what the
reader trims is a constant, for `reader.rs:284` calls `str::trim`, which takes any Unicode
space, where the doc at `reader.rs:16` says ASCII whitespace (the runs have the plain
space only); what is an integer or a finite number is a constant. Namespace declarations are
resolved already. `saturating_add` on the counters cannot saturate below the limits.

### Profile, Creation and Packages

An inventory is the sequence of its entries: a name (a text with `/` as a piece),
what it decodes to (a file of a class of bytes, or a document with its `Verdict`),
its compressed length and its checksum. `check()` and `package()` read and change
nothing, so they are functions: `Check` gives the eleven outcomes in the order of
`CheckId::ORDER`, `Package` a refusal or the entries it writes. `Serialised` is the
document event by event, with an event of its own for each character that is
escaped. Several checks that could fail at once are a sequence of sets of codes,
and `FirstOf` is the code that stands first, as the early returns have it.

`Packages` has the variables `inventory` (the package there is, or none), `plan`
(made and not applied yet) and `last` (what the last call returned); `origin` and
`own` are history. `Create`, `Plan` and `Apply` are the three calls. `plan()` and
`apply()` each take an inventory and nothing makes it the same one, so `Exchange`
may put another package there in between. `inventory` is empty or found at the
start: any of some forty packages with one thing out of place, of no more entries
than `archive::inventory()` accepts. What `apply()`
writes may be planned over again, so an edit meets what edits have left.

Abstracted: the bytes of the records and the timestamp; lengths are counted in
pieces, events and units; which file names of one component are unsafe is a
constant, for `ExtractPlan` models those checks; a document does not get shorter by
compression, and its checksum is never compared.

## 3. Runs

| Run | Properties | What it shows |
| --- | --- | --- |
| `extraction_crashes` | `OneWriter`, `MarkedOrReported`, `DoneIsWhole`, `LedgerIsExact`, `NewestIsRemovable`, `EarlyCodesWroteNothing`, `OnlyOwnWork`, `ImplementsExclusiveOutput` | Any two of three packages extracted at once into one destination, two that share a directory and one that has the marker's own name for a directory, from every kind of destination, with a failure or a crash at every step and a stranger planting directories, files and links: the safety of the whole protocol, and that its system calls implement the abstract promise of ExclusiveOutput. |
| `extraction_retry` | `OnlyOwnWork`, `ReportIsExact`, `ReleasesMarker` | The same package extracted twice into an empty destination, scheduled fairly, while a stranger removes what runs have written: whoever marks the destination gives it up unless it crashes or cannot remove something, a report hides nothing the run leaves and adds at most what others removed, and no run changes what is another's although its ledger is not accurate any more. |
| `extraction_leftovers` | `PartialOutputIsMarked` (expected to be violated) | An undo pass that cannot remove a file goes on to remove the marker, so the partial output lies in an unmarked destination. |
| `confinement` | `ConfinedBeneath`, `ConfinedUnlessRaced`, `CreationsAreAccounted`, `UndoReachesItsOwn` | One run on each kind of platform and on both arms of the resolver, while others move directories away from their names, back and into one another and plant links in their place, between any two components of any walk: where the run's creations and removals end up, and that it accounts for all of them. |
| `extract_plan` | `TypeOK`, `VerdictIsExact`, `EveryFileIsPlanned`, `DirectoriesAreTheParents`, `CanBeCarriedOut` | Every package of up to three entries out of nineteen, and of four plain files, planned at every ceiling: a plan is complete, realisable in the order given on a file system that folds names, and delivered exactly when the package as a whole allows it. |
| `extract_plan_skips` | `NoContentIsSkipped` (expected to be violated) | An entry whose attributes say directory, whose name does not end in a separator and which has content is left out of the plan without a refusal. |
| `placement` | `DoneIsDelivered`, `RefusalIsAccounted`, `PipeCarriesPackages`, `NothingIsOverwritten`, `UndoSparesOthers` | Two runs of create and repack with every choice of source and destination, so that they may share a path or one edits what the other is writing, with failures, crashes and other programs that put files there and take them away. |
| `inventory` | `VerdictIsExact`, `EveryByteHasOneOwner`, `RefusedCoverIsFaulty`, `CeilingsHold`, `EntryBytesCannotFail` | Small archives, every image that one change of a cell, an insertion, a removal or a truncation makes of them, two such changes of the smallest, and some crafted ones: what is accepted is exactly a package, each byte has one owner, ceilings are passed by no more than the chunk refused, and a second decode cannot fail. |
| `metadata_reader` | `TypeOK`, `DepthIsNesting`, `CountsAreExact`, `VerdictIsExact` | Two documents and everything one change of their events makes of them, two changes for the smaller: the reader's stack of calls follows the nesting, its running totals are exact and never past a limit, and what it returns is what the grammar gives the document. |
| `metadata_trailing` | `ForbiddenIsRefused` (expected to be violated) | What follows the end of the root element is never looked at: a document type declaration there is accepted. |
| `packages` | `TypeOK`, `WrittenReadsBack`, `RerootingFailsNothing`, `UnfailedIsWhole`, `ApplyIsThePlan`, `NoEditIsIdentity` | Packages written from a hundred requests, or found with one thing out of place, planned over with fifteen edits and written again, again and again, with other packages in between: what is written is read back as it was meant, and a plan is carried out or refused. |
| `packages_kept` | `EveryWordIsKept` (expected to be violated) | An element of the grammar in an attachment that has no use for it is read, dropped and not counted: repacking without an edit loses its text. |

Bounds. Two runs are enough to have one that holds the destination and one that
races it; the properties about others' output and the lock relate two runs. Seven of the
eight paths give a directory inside a directory, a file at each depth and one shared
directory, so parents and children, order of removal, and a directory that one
run creates and the other finds are all met. Two packages that share a directory
and no file let both runs succeed after one another; one package extracted twice
makes them collide. A third package has a directory of the marker's own name, which
only `PreflightNames` keeps from meeting the marker: any two of the three run at
once (`TwoAtOnce` lets a third not start), for what the properties relate is a run
and one other. `Found` starts from each kind of destination (missing, file,
link, directory), with a marker, a directory, a file or a link already in it.
In `extraction_retry` a stranger also removes a directory and a file of the runs,
and creates only where it removes nothing. That is where `ReportIsExact` meets a
path that is gone when the undo pass comes to it: `left_in_place` counts it, though
`architecture.md:643` says the paths counted are still there, so the property allows
what others took and no more, and hides nothing that is left. Nothing else needs a bound: every loop
is over a finite plan and each run ends. Runs end, so deadlock is not checked
(`CHECK_DEADLOCK FALSE` in these configurations): a state in which every run has
ended is the end of the system.

`confinement`: two directories of the plan, one in the other, and a file in the
inner one, so that a walk has an inside. A directory beside the destination has the
name of the planned one, so a call that is led astray finds its path there
too and goes on. Others make two moves, for that is what it takes to put something
else in the place of a directory; they move the destination and the planned
directories, under those names or into one another, and their links lead to the
destination or to the directory beside it. The tree is at first an empty destination, one with a planned
directory in it, one with a link in its place, or a link for the destination. Six
nodes are still to be made: the marker, two directories, a file, two links. Each
arm is met on each platform that has it. The run ends, so deadlock is not checked.

`extract_plan`: three entries are enough for a collision and a bystander, a file
that blocks a directory with another entry before, between or after, and every
ceiling passed by one (`MaxFiles`, `MaxTotal`, `MaxPath`, `MaxComponent`,
`MaxDepth`); four plain files go over `MaxFiles`. `Word`, one more than `MaxTotal`,
makes the sum that wraps reachable. The stock of entries has each kind, each
flaw's path through the checks, a directory bit written by a host the reader does
not know, and spellings that lower-casing alone and only normalising joins; packages
the inventory would refuse are left out. `Wanted`, the entries that are to become
files, is said of their fields and not by `classify()`, so that a misread kind shows. The planner
ends in a state that repeats, so deadlock is checked.

`placement`: two runs, for every property relates a run to one other; two paths,
so that one may be source and the other destination; one foreign file of every
content, at the start or put there later; a parent of each kind. One path may be
erased and the other not, so that the promises that end with an interference are
checked on both. Runs are interchangeable, hence the symmetry; no liveness is
checked with it.

`inventory`: archives of up to four entries, stored and deflated, with and without
a descriptor, with names that fold together and one that is unsafe. Of each, every
image that one change makes of it (a field of a record, a cell replaced, taken out
or put in, the end cut off), and of the smallest ones every image that two changes
make; and some that no such change reaches, with entries inside the directory, in
the content of others or out of order, and with end records in comments. Contents
of up to four units meet ceilings of three for an entry and five in all, a ratio of
two after a grace of two, and a buffer of two, so that each is reached exactly, is
passed by one, and falls inside a chunk as well as on its edge. Three kinds of
record are one or two cells wide, so that an offset may lead into a record. The
reader ends in a state that repeats, so deadlock is checked.

`metadata_reader`: a receipt with every kind of block that is only noted, and a
consignment down to an attachment's number. Of each, every document that one change
makes: an event taken out, an element twice or behind its sibling, another name,
other text, and one of some forty events put in anywhere, forbidden constructs,
broken markup, foreign and unbound names, attributes and entities among them. Of
the smaller one also two changes, the second among a few: an element, an end, a
document type, a text. The limits are what these documents reach exactly and pass
by one: six deep, seventeen elements, eight bytes of text, one attribute, forty
events. The reader ends in a state that repeats, so deadlock is checked.

`packages`: about a hundred requests, each combination of seven headers, thirteen
lists of attachments and seven forms of dispatches that differs from a plain one in
a thing or two; four packages of other content with the same or other checksums;
fifteen edits that remove, replace and add in both numberings, name what is not
there, set and clear fields, or do nothing. Lists of up to four attachments pass
`MaxEntries` and `Word16`; each other limit is met by one file or name and passed
by another, and the document's limits are below what the largest request writes.
`Root` has the two other documented roots, a new one, and one that ends in the
canonical root. The number of calls needs no bound: what edits make of these packages is finite.
A call is always possible, so deadlock is checked.

Fairness. `extraction_retry` assumes weak fairness of each run's next step and
nothing else: a process is scheduled again. No run waits for another, so `Step(r)`
stays enabled until the run ends. Crashes and strangers are never forced, and
fairness never forces a call to succeed, because success and failure are two
outcomes of one action.

Findings. Four runs are expected to fail and show where the code and its
documentation differ. `extraction_leftovers`: the undo pass goes on after a
removal that failed and removes the marker last, so partial output can lie in an
unmarked destination; the run's own exit status and counts are then the only
sign. `extract_plan_skips`: an entry whose attributes say directory but whose name
does not may carry content, and the plan leaves it out although the docs say that
nothing is skipped. `metadata_trailing`: `parse()` returns when the root element ends, so a document
type, a processing instruction or a second root behind it is accepted, although
`metadata/mod.rs:9-13` has them refused and `reader.rs:54` speaks of trailing
miscellany that is read. `packages_kept`: an element the grammar knows, in a header
or an attachment that has no member for it, is read as a leaf and dropped without
being counted as unknown; repacking without an edit then loses its text, although
`repack/mod.rs:21-23` has such content refused "rather than dropped".

Differences that have no run of their own:

- A package that was written and cannot be read back is reported as
  `input.unreadable` or `input.over_limit`, with the status of an input that could
  not be read (`create.rs:117`, `repack.rs:141`), although `create.rs:70` gives these
  codes to a manifest or an attachment. `ReadBack` of `Placement` has it so.
- `left_in_place` also counts paths that were gone before the undo pass reached
  them (`cleanup.rs:154`), although `cleanup.rs:40` says they "are still there".
- `docs/codes.md:157` says of `unclaimed_bytes` that bytes belong to no structure.
  When one entry reaches into the directory and another lies behind it, the walk
  meets a gap between the two and reports it under this code, although the gap is
  the directory's own record. The refusal itself is right, for the first entry is
  misplaced. `RefusedCoverIsFaulty` states what the code does promise.
- `create/mod.rs` has the metadata reader accept what `package()` writes, but
  `package()` knows no `MetadataLimits`: it writes a document with more text than
  they allow. `WrittenReadsBack` therefore excepts the three codes of `TooLarge`.
- `repack/mod.rs:44-46` calls a package it accepts "one openKRX could have written
  itself". A package found with an unsafe file name, or with an entry beyond the
  compression ratio allowed now, is planned over and refused only by `apply()`.
- `profile/references.rs:7-9` says that a reference that needs another root is
  never a failure. One that is written below two known roots, as `OCD/KRX/OCD/x`, is
  missing in a package below `x/` and only unresolved below `KRX/OCD/`.
  `RerootingFailsNothing` therefore excepts the paths of `TwiceRooted`.

## 4. Proofs

`ExtractionProofs` proves, for any number of runs, any packages, any tree of
paths and any file systems to start from, from the named assumptions of
`Extraction` (paths closed under prefixes, plans without the destination itself
and with exactly the parents of their files, a starting file system that is a
tree without objects of a run, a stranger that is no run and does not remove the
destination or the marker):

- `TypeCorrect`: `Spec => []TypeOK`.
- `MutualExclusion`: `Spec => []OneWriter`.

`OneWriter` is not inductive. `IInv` adds: `InLoop`, a run inside a loop's body is
at an item of the loop; `LedgerShape`, nothing is recorded before the marker, the
marker is recorded first and only once; and `Lock`, whoever has something to undo
has its own marker in the destination. `Lock` makes two holders impossible, for
the marker has one creator. It is kept by `CreateMarker` because creation is
exclusive, by `UndoNewest` because the marker is the oldest record and so goes
last, and by every step on another path because `LedgerShape` keeps those paths
apart from the marker. There is one lemma per action or group of actions, and
`NextIInv` puts them together.

The same module proves `TouchesOnlyOwnWork`: `NoReplacement => (Spec =>
OnlyOwnWork)`. `NoReplacement` says that a stranger puts nothing where it may
also remove things. It is needed: the undo pass removes by name, so a file put
in the place of one that was removed would be taken away with it. The invariant
`Own` adds to `IInv` that what a holder's ledger names is the holder's or has
been removed by a stranger, and that a path named twice was removed in between.

It also proves `EarlyRefusalIsClean` and `OutputIsMarked`, that is
`EarlyCodesWroteNothing` and `MarkedOrReported`, without a condition on strangers.
The first covers the run whose package wants the marker's name, early code or not:
`Barred` keeps such a run before its first write, for `PreflightNames` lets it no further.
The invariant `Kept` says of a run that it has nothing in the destination while it
only looks; that an early code goes with an empty ledger and empty counts; that as
long as no removal has failed, what it has there is recorded; and that once it has
ended with something left, its marker stands or a person took it. The third part
carries the fourth: an undo pass ends with an empty ledger, so whatever is left
then was counted, and a crash keeps the marker because `Lock` has it in the
destination as long as there is something to undo. Removals by strangers do not
matter, for they only take away from what the ledger has to cover.

The same module proves, where nobody but the runs removes anything
(`NoRemoval == Erasable = {}`):

- `LedgerMatches`: `LedgerIsExact`.
- `DoneStaysWhole`: `DoneIsWhole`.
- `UndoGoesOn`: `NewestIsRemovable`.
- `ReportMatches`: `ReportIsExact`, where both its bounds are one number.

Whoever removes whatever, `NothingIsHidden` proves the lower bound of `ReportIsExact`:
what a run has in the destination when its undo pass ends was counted, for `Told` says
of a pass under way that what is the run's is recorded still or counted already.

The condition is that of the properties: somebody who takes a run's file away makes
its ledger inexact and its success less than whole. The invariant `WInv` is made of
what was proved before and four parts. `Tree`: what is present has only
directories above it, which needs of `Found` that a tree to start from is closed
upwards. `Stored`: what a run in or past its loops has to have in place, with its
kind. `Counted`: `left` is the number of the run's objects that are not recorded any
more. `Nested`: what is recorded
is there and is what was made, parents come before what is in them, and below a
holder's directory lies nothing of another run. That makes the newest record of an
undo pass removable. Success stays whole because an undo pass removes its own
objects only and no directory that has something in it; the directories of the
package follow from its files and `Tree`.

It also proves `Refinement`: `NoRemoval => (Spec =>
ImplementsExclusiveOutput)`. The mapping is taken part by part (`Holder`, `Stage`,
`Output`, `Complete`, and whether a removal failed), `StepsOfRuns`, `StepsOfUndo`
and `StepsOfOthers` give the abstract step for each kind of change of the parts, and
one lemma per action shows which one it is. `OnlyFilesAreFull` is added to `WInv`,
for completion has to be over exactly the package. `NoRemoval` is needed:
`ExclusiveOutput` freezes the output of a run outside its holder's hands, which a
stranger who removes files does not respect. What others removed is mapped to the runs whose marker they removed
(`Cleared`), which is all `ExclusiveOutput` knows of it. `NobodyAssumption` says that the holder
of a free destination is neither a run nor the stranger.

`ExtractPlanProofs` proves every property of `ExtractPlan`, for any packages, names,
foldings and ceilings (`ComponentAssumption`: no two components have the same place
in the order of strings; `LimitAssumption`: a total within its ceiling fits the word;
`PackageAssumption`: entries have names, and one that ends in a separator no data):
`VerdictsAreExact`, `FilesArePlanned`, `DirectoriesAreParents`, `PlansAreRealisable`
and `TypeCorrect`. `WantedKinds` shows that what `classify()` calls
no directory is what is wanted. `Scanned` says that the items so far are the entries to be planned
up to `next`, in order, under their names, and sound; `Totals`, that the running
counters are the number of these entries and of the bytes in them, counted as sets,
so that no recursive sum has to be reasoned about; `Planned` and `Refused` keep what
the passes and the refusals have found. That a plan's directories are sorted rests on the
order of paths: `LessTransitive` and `LessTotal` show that comparing component by
component is strict and total, and `SortedFacts` that each path then has its own
place among a finite set of them, namely after as many as come before it.
`FoldedPrefix` ties the two passes of `collisions.rs` to the one condition of
`Extractable` that no file folds to a prefix of another. `LeastNumber`
replaces induction: a set of numbers has a least one because their order is well founded. `DirectoriesAreParents` is what `PlanAssumption` of `Extraction` asks of
a plan.

`ConfinementProofs` proves, for any plan, any names, any tree with links to start
from, any number of moves and any number of nodes (`NodeAssumption`: the nodes are
finitely many; `PlanAssumption`: paths are not empty; `ParentsAssumption`: the
directory above a path is planned, and before it, which is what `DirectoriesAreParents`
proves of a plan; `OthersAssumption` and `FoundAssumption`: the constants have their
kinds, and a node not in use has no name and nothing in it):

- `Confined`: `Spec => []ConfinedBeneath`.
- `ConfinedInQuiet`: `Spec => []ConfinedUnlessRaced`.
- `Accounted`: `Spec => []CreationsAreAccounted`.
- `UndoReaches`: `Spec => []UndoReachesItsOwn`.
- `TypeCorrect`: `Spec => []TypeOK`.

For confinement the invariant needs two things more. `Closed`: whatever directory is
named in one of `home` is in `home`, which every step keeps because `Within` adds
what it names, and `WithinClosed` is that lemma. `Held`: once the destination is open, the
descriptor arm has its root and the directory its walk has reached in `home`. A
walk that follows no link goes from a directory to one named in it and so stays in
`home`, wherever others have moved it; and a call changes only the directory it has reached.
For the accounting, `Counted` is the equation that holds all along: what was
created is what is recorded, removed or left, and the directory that waits to be
read back. The marker is the one record that success forgets; no run that forgot it fails.

The other two are about paths, and hold while nobody else has changed a name at or
beneath the destination. `Rooted`: the destination is then still a directory of `home`.
`Walking`: a walk that is under way has reached what the part of its path already
taken leads to from its origin. `Read`: a planned directory that has been read back
leads to a directory. With `ParentsAssumption` a walk then meets no link, because
each directory on its way was made and read back before, and so stays in `home`. For
the undo pass, `Filed` says of every record that its path leads to the directory in
which what was created has its name, that no two records stand for one thing, and
that a directory is recorded before what lies in it; `Whole`, that the ledger has everything
in, or leading to, what the run created; `Blank`, that a node not in use has no
name. The newest record is therefore a thing with nothing in it, and its removal is
not hindered (`Removes`). Where a path leads is unique and inside `home`
(`TrailUnique`, `TrailInside`, both along the trail by `LeastNumber`). A creation
fills a name that was free and a removal takes something empty, through which no other trail
passes (`LeadsRemoved`, `FilingRemoved`), and what others do elsewhere is on none of
the trails (`LeadsUnmoved`, `WholeUnmoved`).

`PlacementProofs` proves all five safety properties of `Placement`, and its
type correctness, for any number
of runs, paths and other files: `SuccessIsDelivered`, `RefusalsAreAccounted`,
`PipesCarryPackages`, `NoOverwriting`, `UndoIsOwn` and `TypeCorrect`. The assumptions are that no
run's file is a foreign one and that commands name paths. None of the properties
is inductive. `Stage` says what a run's place in its program means for its ledger;
`NamedOnce`, that a run's file has no name but the one it recorded; `Placed`, that
where nobody took a file away the recorded name still names the run's own file;
`Checked`, that the file then holds the image that passed the check. `Placed` is
what makes a check and an undo pass by name sound: exclusive creation lets
nobody take a name that is in use, so only a removal by others can part a run
from its file. There is one lemma per action.

`InventoryProofs` proves, for any images, limits, widths and names
(`NameAssumption`, `LimitAssumption`: widths and the buffer are positive;
`ImageAssumption`: images are sequences of cells):

- `VerdictHolds`: `Spec => []VerdictIsExact`.
- `CoverIsExact`: `Spec => []EveryByteHasOneOwner`.
- `CoverRefusalsHold`: `Spec => []RefusedCoverIsFaulty`.
- `CeilingsAreKept`: `Spec => []CeilingsHold`.
- `DecodesAgain`: `Spec => []EntryBytesCannotFail`.
- `TypeCorrect`: `Spec => []TypeOK`.

`Base` is the type invariant with what a phase has not touched yet. `Walk` makes
the cover inductive: every byte before the cursor is in exactly one of the passed
regions, and the passed ones all end at or before the cursor. The next region
starts at the cursor, so it adds the bytes up to its end and shares none. That
regions are taken in the order of their starts is not needed for this: the walk
would be exact in any order it accepts. It is needed for what a refusal says
(`MisplacedIsFaulty`): a gap at the cursor is a byte without an owner only because
every region that is left starts behind it. `Within` adds that regions and the
directory begin inside the image, and `OtherCodes` that no other check uses the
codes of the cover. For the ceilings and the second decode,
`Passed` keeps, of every entry already decoded, that it decodes to what its record
declares and that this is within the ceilings. Ratios grow with what has come out
(`DivMonotone`), so a prefix of an entry that passed has no fault either, wherever
its chunks end (`NoFault`), and a second decode is charged from zero.

For the verdict, `Known` collects what the checks passed so far have established:
`Searched` of the end record, `Listed` of the records of the directory, `Verified` of
each local header and `Totalled` of the bytes decoded. `IsPackage` is about the image
alone, and asks that there be an end record and a directory; `PackageOf` and
`DirectoryAt` show that an image has at most one of each, so that they are the ones
the run has found. One lemma per check then shows that it refuses no package
(`EndRefused`, `DirectoryRefused`, `LocalRefused`, `CoverRefused`, `ContentRefused`), and
`AcceptedIsPackage` that an image that passed all of them is one. The run keeps a total
and the definition sums over the entries: `SumTo` and `SumIs` make the two
equal.

`MetadataProofs` proves, for any documents, alphabet and limits
(`LimitsAssumption`; `NumeralAssumption`: a numeral is a number;
`DocumentAssumption`: documents are sequences of events):

- `CallsFollowNesting`: `Spec => []DepthIsNesting`, an event is taken at the depth
  the document's own nesting gives it, and the innermost call is as deep.
- `RecursionIsBounded`: the calls of the reader never go deeper than `MaxDepth`
  allows, so its recursion is bounded whatever the document.
- `TypeCorrect`: `Spec => []TypeOK`.
- `CountsHold`: `Spec => []CountsAreExact`, the counts of elements, of text and of
  elements without a meaning are those of the part of the document that was read.
- `VerdictsAreExact`: `Spec => []VerdictIsExact`, `parse()` returns what the grammar
  makes of the document, or a code for one of the faults that show first.

`Agreement` is the invariant behind the first two: the scanner's depth is the number of
elements opened and not closed before the next event, one more when an empty
element still has to be closed, and it is also the number of elements the calls on
the stack stand for, a call that skips standing for as many as it has open. `Calls`
says that the document's call is the outermost and only the innermost one skips;
`Within`, that the depth is within the limit. Every event the scanner lets through
changes the level by one or not at all (`LevelStep`), and every outcome of a call
returns, recurses or skips accordingly.

Type correctness needs which function calls which (`Callees`, in `TypedStack`): a value
that is returned is of the type its caller puts it in only because of who the caller is. The
exact counts are those of the grammar's `Tree`, which knows no calls, and the count of
`unknown` elements has to agree with the parts that `Tree` gives. `Placed` ties
the two: the k-th element that is open (`Above`) has in the tree the part that the
k-th call stands for, and one that is being skipped has none in the grammar
(`Matches`). `TreeParts` says what `Tree` gives each event, `PartOfNext` which part
the next one has by the innermost call, `ChargedSteps` what an event adds to the
text; there is then one lemma per action. The invariant is `Standing`. It shows
that for a span of text or an attribute the second refusal, in `charge_text()`, is
never reached: it is reserved at its raw length before it is unescaped, and does not
grow. Only the character of a reference is first counted there.

The verdict compares a stack of half-filled values with a relation on a finished
document, and nothing about the values alone is inductive: what a call holds
depends on which children of its element have been opened, which of those have
been closed, and on no fault having been passed. `Kept` says all four parts.
`Chained`: the elements the calls are in (`Entered`) lie one within the other and are
not closed yet, and every element opened so far is closed or has a call in it.
`Suited`: the part of the k-th of them is the one its call reads. `Filled`: each
call's variables are the values of the closed children of its element (`Done`),
and its flags those of the opened ones (`Kids`): `seen`, a slot filled, a count
read, a list of dispatches. `Clean`: no event that was passed has a fault of `FaultsAt`. The
scanner's refusals are then `EventFaults` of the event it stands at (`ScannedWell`), and those
of a call `PlaceFaults` when it recurses and `ValueFaults` when it returns, with
the order in which the code tests them making no difference to which set is not empty. An element that
closes moves its value from one call to its caller, and one lemma per action shows that this is what
`HeaderAt`, `AttachmentAt`, `DispatchAt` and `Meaning` say of the tree. What stands
behind the root is not read: `Agree` and `Cut` show that the tree of the part up to the end of
the first element has the levels, parents, parts and contents of the whole, which is why `Verdict`
may look at that part only. With that, an acceptance is the `Meaning` of what was read and a
refusal has a code from the first set of faults that is not empty, so the invariant
carries the verdict over the last step; afterwards nothing changes.

`PackagesProofs` proves, for any requests, packages, edits and other roots, and any
limits:

- `TypeCorrect`: `Spec => []TypeOK`.
- `WholeUnlessFailed`: `Spec => []UnfailedIsWhole`.
- `NoRootFails`: `Spec => []RerootingFailsNothing`.
- `WrittenIsReadBack`: `Spec => []WrittenReadsBack`.
- `PlansAreCarriedOut`: `Spec => ApplyIsThePlan`.

The assumptions are on the constants. `InputAssumption`: requests, packages and edits
are values of their types, and a package found has no more entries than
`archive::inventory()` accepts. `ReadAssumption`: a package found is as the library reads
one, with every checksum that of the content, which the decoder compared, and every
document's reading what `metadata::parse()` makes of it. `TextAssumption`: the names the
writer makes up and those a caller gives are UTF-8. `WordsAssumption` and `LayoutAssumption`: the words of the
grammar and of the layout are texts, those of the grammar without a space, and `ID-` is not
`Metalayer` in other letters. `NumbersAssumption`: the numbers a package within the limits can
name are texts, `i64::from_str` reads what `to_string` wrote, and there is no space or
separator in them; a size in kilobytes is written as a number that is finite. `RoomAssumption`: the reader allows six levels of elements and one attribute,
which is all the writer needs; the limits of `MetadataLimits` are 32 and 32.
`UnsafeAssumption`: an unsafe name is refused with a code of the library.
`RootAssumption`: a root ends in a separator and is not the directory the metadata
is in. `CreationAssumption`, `NumeralAssumption`, `LimitsAssumption` and
`FieldAssumption`: limits are numbers, a numeral stands for one, and so on.

`TypeOK` is inductive, and its three parts hold each other up: a package written by
`apply()` is an inventory because the plan was a plan, and a plan is one because the
package it is made from is an inventory. Three chains of lemmas give it. What `Verdict` says of a sequence
of events is a value of `Metadata`, or a set of codes that is not empty, whatever the tree of the
document is. What `Package` writes of a request
has an entry for the marker, one for the document, whose events are those
of `Serialised`, and one for each attachment, and the count is within the
ceiling because `LimitChecks` refused nothing. What `Built` makes of a package that passed
`LayoutFault` and `ReferenceChecks` has, for every attachment that stays, a reference and a
payload to take its parts from, for there are as many references as payloads; and
`place_dispatch()` leaves no reference in it.

The other two are about `check()`, which is a function of an inventory, so they need
only that there is one (`Legible`). `Passes` says what a report without a failure is made
of: one candidate, the marker in its place, a document that is read, and references each of which
is resolved and no two of which are duplicates (`UnfailedPasses`, `PassingReport`).
`WholeUnlessFailed` follows from it check by check. Two references to one
entry come to it by paths that differ, and then one of them at least is a variant.

For `NoRootFails`, `PassesElsewhere` shows that `Passes` is kept when a package is
moved. Names below the canonical root get the other one and all others stay. A name is
a candidate after the move exactly if it was one before, for a root is never the
metadata's own directory. The entry a reference named has a name that moves with
the root or does not move, and is among those tried afterwards, the observed
root first (`ReferencesStay`). Declared paths do not move, so no two become equal
(`DuplicatesStay`). The condition that no path is below two known roots at once is
needed. From `OCD/KRX/OCD/x`, `strip_known_prefix` takes off `OCD/`, and what is left
is the name of an entry as it stands, without any root in front; it no longer is when the package
is below another root, and the reference that passed is missing.

`WrittenIsReadBack` goes through the writer and back. Its invariant is `OwnIsWritten`: what
is called own is `Package(spec)` of some `spec`, a request or the document and the inputs
of a plan. All else is about one such package. Nothing was refused, so every check is clear
(`JudgedClear`), and each of them says something of the value that was written: its texts hold nothing
the reader trims or XML does not carry (`TidyMetadata`), its dispatch lists the attachments
the package has, under their own numbers (`HeldAttachments`), and the entries are within the ceilings
(`WrittenIsReadable`, where the names differ because the numbers in them do).
The document is put together from pieces, and a piece is looked at where it stands in
the whole. `Balanced` pieces close what they open (`LevelWithin`); an element that stands
within another (`In`, `Around`) closes at its own end and has the other for a parent; and then, from the
inside outwards, each piece gets the part and the values its place in the grammar gives it (`LeavesSound`,
`HeaderStands` and so on up to the root). A run of like pieces is one lemma about the
next piece behind what is already there, by a least counterexample (`ListWritten`). It
follows that the tree of a written document has no fault but those of `TooLarge`, and
that its `Meaning` is `MetadataAgain` of the value, which differs from the value at most
in what has no place in a document: a test indicator that is set and not there. That is written
as the value was. The names of the layout then give `Check` one candidate, the
marker, and for every path that is declared the entry at it, so no check fails.

`PlansAreCarriedOut` is about three packages: the one the plan was made from, the one
`apply()` is given, and the one it writes. Its invariant is `PlanInv` (`PlansAreMade`): the package
there is `Genuine`, one `archive::inventory()` has observed, and a plan that is kept is what `plan()`
made of an edit and a genuine package. A package that was written is genuine
because what it was written as is what it is read as (`WrittenIsGenuine`, from `WrittenIsReadBack`'s lemmas).
The lists come from `Built` (`BuiltPlans`): those that stay are numbered in order
(`OrderOf`), so that number `n` comes to stand at `Position(edit, n)` (`PositionIs`), and
what is added behind them. `AppliedCarries`, `CarriedEntries` and
`CarriedReferences` follow each number through `apply()` into the entries and
the references of what is written. Attachments keep their names because the name
of an entry, cut down to its file name and put together again, gives back that file
name (`PayloadFileBack`). They keep their descriptions because the reader and the writer
agree on what a value says. A text the reader has taken from a document has been trimmed and is one run of
characters that XML can carry (`AcceptedSaysOnce`), so it is written as it was and read as it
was written (`StayIsCarried`). That is said of a package whose document is read again at all, not one
beyond the reader's limits. `apply()` compares only the number of entries of the package it is given and their
checksums, so the bytes are promised to be the same only when it is the package of the plan.

Model-checked only: `ReleasesMarker` of `Extraction` (liveness and `ENABLED` are out
of the proof system's reach) and `NoEditIsIdentity` of `Packages`.
The library's induction theorems take an operator as a parameter, which no installed
prover can instantiate. Where a definition goes over numbers or finite sets, least numbers
(`LeastNumber`) and smallest sets (`SmallestSet`) replace them, one property at a time.

## 5. Not modelled, and why

A parent directory of `--out` that is replaced during a run: `Placement` gives the
directory of a path one kind for a whole run, and the code, which creates by name,
promises nothing about one that changes. What a crash of `create` or `repack` before
the self-check leaves is in the model, but no promise of the code is about it.
Mounts are refused by `openat2` alone and left out. Exit classification, argument dispatch, layout of
reports and JSON reading have no state that a run could check: they are tables and
formatting, and the codes they classify are kept in the modules that give them.
Character-level XML scanning and the DEFLATE bit stream are third-party code,
modelled by what the code here asks of them.

## 6. Plan

1. `Extraction` with its runs, refinement and proofs (done; all its safety properties and the
   refinement proved).
2. `ExtractPlan`: the planner, and that a plan satisfies what `Extraction`
   assumes of it (done, proved).
3. `Placement`: `create` and `repack` with `--out` and `--stdout`, the self-check
   that reads back by name, crashes between creation and check, two processes at
   one path (done, proved).
4. `Inventory`: search for the end record, central and local agreement,
   ownership of every byte, ceilings, and the bounded decode loop (done, proved).
5. `Documents` and `MetadataReader`: the grammar, and the reader against it (done,
   proved).
6. `Profile`, `Creation` and `Packages`: the checks, the layout written and read
   back, `apply()` over another inventory (done, proved but for
   `NoEditIsIdentity`).
7. `Confinement`: objects apart from their names, others who rename and plant
   links, both arms of the resolver (done, proved).
8. `Exit`: codes, categories and statuses across the commands.

Abstract specifications worth stating: `ExclusiveOutput` (done), a realisable
plan, an image that is a package (`IsPackage`, done), the value of a
document (`Verdict`, done).

Theorem worth proving next: `NoEditIsIdentity` of `Packages`. For every value of the
constants it needs one more exception than the run's: a document that is written anew can be
beyond the reader's limits though the one it was made from was not (`TooLarge`).
