----------------------------- MODULE ExtractPlan -----------------------------
(***************************************************************************)
(* The extraction planner: openkrx-core/src/extract/ over the kinds that   *)
(* archive/kind.rs reads off an entry.                                     *)
(*                                                                         *)
(* plan() walks the entries in central-directory order, checks each by     *)
(* itself, keeps running totals, and only then looks at the outputs        *)
(* together.  One action is one turn of its loop, or one pass over all     *)
(* items.  A name is a sequence of components; what the checks tell apart  *)
(* of a component is its flaw, its width in bytes, its rank in the sort    *)
(* order, and the key a case-insensitive, normalising file system compares.*)
(***************************************************************************)
EXTENDS Naturals, Sequences, FiniteSets, SequencesExt, FiniteSetsExt

CONSTANTS
    Component,     \* the components names are made of
    Flaw,          \* check_component: the class a component violates, or "none"
    Width,         \* len(): its UTF-8 bytes
    Rank,          \* its place in the order of strings
    Key,           \* fold(): NFC, then lower case
    NotText,       \* a name that is not UTF-8
    MaxFiles, MaxTotal, MaxPath, MaxComponent, MaxDepth,  \* ExtractLimits
    Word,          \* 2^64, the width of total_bytes
    Package        \* the inventories to plan: sequences of entries

Host == {"unix", "fat", "unmapped"}
Mode == {"regular", "directory", "link", "other"}
Flaws == {"none", "empty", "relative", "control", "trailing", "leading",
          "device", "colon", "reserved"}

\* What an accepted inventory holds of an entry.  `slash` is a name that ends
\* in a separator, which the inventory lets through with no data only.
Entry == [host : Host, mode : Mode, slash : BOOLEAN,
          name : Seq(Component) \cup {NotText}, size : Nat]

ASSUME ComponentAssumption ==
    /\ Flaw \in [Component -> Flaws]
    /\ Width \in [Component -> Nat]
    /\ Rank \in [Component -> Nat]
    /\ \A c, d \in Component : Rank[c] = Rank[d] => c = d
    /\ DOMAIN Key = Component

ASSUME LimitAssumption ==
    /\ {MaxFiles, MaxTotal, MaxPath, MaxComponent, MaxDepth, Word} \subseteq Nat
    /\ MaxTotal < Word

ASSUME PackageAssumption ==
    \A package \in Package :
        /\ package \in Seq(Entry)
        /\ \A i \in DOMAIN package :
              /\ package[i].name # <<>>
              /\ package[i].slash => package[i].size = 0

VARIABLES
    entries,      \* the inventory's entries
    next,         \* the next entry of the loop
    items,        \* the plan's items so far
    total,        \* total_bytes
    directories,  \* the plan's directories, once planned
    phase,        \* "entries", "outputs", "planned" or "refused"
    refusal       \* the PlanError, its code and its entry

vars == <<entries, next, items, total, directories, phase, refusal>>

NoRefusal == [code |-> "none", entry |-> 0]

Init ==
    /\ entries \in Package
    /\ next = 1
    /\ items = <<>>
    /\ total = 0
    /\ directories = <<>>
    /\ phase = "entries"
    /\ refusal = NoRefusal

-----------------------------------------------------------------------------
(* One entry by itself.                                                    *)

\* Faulty: the mode is read whatever host has written it.
FaultyKindOf(e) ==
    CASE e.slash \/ e.mode = "directory" -> "directory"
      [] ~e.slash /\ e.mode # "directory" ->
            IF e.host = "unmapped" THEN "unknown"
            ELSE IF e.host = "fat" THEN "regular"
            ELSE IF e.mode = "other" THEN "special" ELSE e.mode

\* classify(): a trailing separator first, then what the host's attributes say.
KindOf(e) ==
    CASE e.slash -> "directory"
      [] ~e.slash /\ e.host = "unmapped" -> "unknown"
      [] ~e.slash /\ e.host = "fat" ->
            IF e.mode = "directory" THEN "directory" ELSE "regular"
      [] ~e.slash /\ e.host = "unix" ->
            IF e.mode = "other" THEN "special" ELSE e.mode

KindFault(e) ==
    CASE KindOf(e) = "link" -> "unsupported.link"
      [] KindOf(e) = "special" -> "unsupported.special_file"
      [] KindOf(e) \in {"regular", "unknown"} ->
            IF e.name = NotText THEN "unsupported.non_utf8_name" ELSE "none"
      [] OTHER -> "none"

\* The bytes of a name, separators included.
PathBytes(name) ==
    FoldSet(LAMBDA i, sum : sum + Width[name[i]], Len(name) - 1, DOMAIN name)

ComponentFault(c) ==
    IF Flaw[c] # "none" THEN "unsafe_path"
    ELSE IF Width[c] > MaxComponent THEN "over_limit.component_bytes" ELSE "none"

\* destination(): the whole name first, then its components in order.
NameFault(name) ==
    LET bad == {i \in DOMAIN name : ComponentFault(name[i]) # "none"}
    IN  CASE PathBytes(name) > MaxPath -> "over_limit.path_bytes"
          [] PathBytes(name) <= MaxPath /\ Len(name) > MaxDepth -> "over_limit.depth"
          [] PathBytes(name) <= MaxPath /\ Len(name) <= MaxDepth ->
                IF bad = {} THEN "none" ELSE ComponentFault(name[Min(bad)])

\* Faulty: the sum wraps before it is compared.
FaultyFits(size) == (total + size) % Word <= MaxTotal

\* checked_add, then the ceiling.
Fits(size) == total + size < Word /\ total + size <= MaxTotal

Refuse(code, i) ==
    /\ phase' = "refused"
    /\ refusal' = [code |-> code, entry |-> i]
    /\ UNCHANGED <<entries, next, items, total, directories>>

-----------------------------------------------------------------------------
(* The outputs together.                                                   *)

Folded(path) == [i \in DOMAIN path |-> Key[path[i]]]

\* The proper prefixes of a path, shortest first, without the empty one.
Parents(path) == {SubSeq(path, 1, n) : n \in 1 .. Len(path) - 1}

\* Faulty: names are compared as they are spelt.
FaultyTwins ==
    {pair \in (DOMAIN items) \X (DOMAIN items) :
        pair[1] < pair[2] /\ items[pair[1]].path = items[pair[2]].path}

\* Pairs of items that fold to one name.
Twins ==
    {pair \in (DOMAIN items) \X (DOMAIN items) :
        /\ pair[1] < pair[2]
        /\ Folded(items[pair[1]].path) = Folded(items[pair[2]].path)}

\* Faulty: only the directory a file lies in is looked up.
FaultyBlockers(j) ==
    {i \in DOMAIN items :
        /\ Len(items[j].path) > 1
        /\ Folded(items[i].path) = Folded(Front(items[j].path))}

\* The items that are a file where item j needs a directory.
Blockers(j) ==
    {i \in DOMAIN items :
        Folded(items[i].path) \in {Folded(p) : p \in Parents(items[j].path)}}

\* check() meets the shortest such prefix first.
FirstBlocker(j) ==
    CHOOSE i \in Blockers(j) :
        \A k \in Blockers(j) : Len(items[i].path) <= Len(items[k].path)

\* Component by component, a proper prefix first: the order of Vec<String>.
Before(p, q) ==
    \/ Len(p) < Len(q) /\ p = SubSeq(q, 1, Len(p))
    \/ \E n \in DOMAIN p \cap DOMAIN q :
          /\ SubSeq(p, 1, n - 1) = SubSeq(q, 1, n - 1)
          /\ Rank[p[n]] < Rank[q[n]]

\* Faulty: ordered by the last component, so a child may come first.
FaultySorted(paths) ==
    SetToSortSeq(paths, LAMBDA p, q : Rank[Last(p)] < Rank[Last(q)])

\* A BTreeSet in its order: the path at k has k - 1 others before it.
Sorted(paths) ==
    [k \in 1 .. Cardinality(paths) |->
        CHOOSE p \in paths : Cardinality({q \in paths : Before(q, p)}) = k - 1]

-----------------------------------------------------------------------------
(* The planner.                                                            *)

\* A directory marker produces no item.
Skip ==
    /\ phase = "entries" /\ next \in DOMAIN entries
    /\ KindOf(entries[next]) = "directory"
    /\ next' = next + 1
    /\ UNCHANGED <<entries, items, total, directories, phase, refusal>>

\* Link, special file, name that is not text, then the name's own faults.
RefuseEntry ==
    /\ phase = "entries" /\ next \in DOMAIN entries
    /\ LET e == entries[next]
       IN  /\ KindOf(e) # "directory"
           /\ IF KindFault(e) # "none" THEN Refuse(KindFault(e), next)
              ELSE NameFault(e.name) # "none" /\ Refuse(NameFault(e.name), next)

Sound(e) ==
    /\ KindOf(e) # "directory" /\ KindFault(e) = "none"
    /\ NameFault(e.name) = "none"

\* Faulty: the ceiling is compared after the fact.
FaultyRoom == Len(items) <= MaxFiles

Room == Len(items) < MaxFiles

RefuseTotals ==
    /\ phase = "entries" /\ next \in DOMAIN entries
    /\ Sound(entries[next])
    /\ \/ ~Room /\ Refuse("over_limit.files", next)
       \/ Room /\ ~Fits(entries[next].size) /\ Refuse("over_limit.total_bytes", next)

PlanEntry ==
    /\ phase = "entries" /\ next \in DOMAIN entries
    /\ Sound(entries[next]) /\ Room /\ Fits(entries[next].size)
    /\ items' = Append(items, [entry |-> next, path |-> entries[next].name])
    /\ total' = total + entries[next].size
    /\ next' = next + 1
    /\ UNCHANGED <<entries, directories, phase, refusal>>

EntriesEnd ==
    /\ phase = "entries" /\ next > Len(entries)
    /\ phase' = "outputs"
    /\ UNCHANGED <<entries, next, items, total, directories, refusal>>

\* The first item that repeats a key; the later of the two is named.
RefuseCollision ==
    /\ phase = "outputs"
    /\ Twins # {}
    /\ LET j == Min({pair[2] : pair \in Twins})
       IN  Refuse("ambiguous.collision", items[j].entry)

\* Faulty: the item the pass is at is named, whichever comes later.
FaultyRefuseConflict ==
    /\ phase = "outputs"
    /\ Twins = {}
    /\ \E j \in DOMAIN items :
          /\ Blockers(j) # {}
          /\ \A i \in 1 .. j - 1 : Blockers(i) = {}
          /\ Refuse("ambiguous.file_directory_conflict", items[j].entry)

\* The first item below another item; again the later of the two is named.
RefuseConflict ==
    /\ phase = "outputs"
    /\ Twins = {}
    /\ \E j \in DOMAIN items :
          /\ Blockers(j) # {}
          /\ \A i \in 1 .. j - 1 : Blockers(i) = {}
          /\ Refuse("ambiguous.file_directory_conflict",
                    Max({items[j].entry, items[FirstBlocker(j)].entry}))

Deliver ==
    /\ phase = "outputs"
    /\ Twins = {} /\ \A j \in DOMAIN items : Blockers(j) = {}
    /\ directories' = Sorted(UNION {Parents(items[i].path) : i \in DOMAIN items})
    /\ phase' = "planned"
    /\ UNCHANGED <<entries, next, items, total, refusal>>

\* The loop and the passes are over.
Decided ==
    /\ phase \in {"planned", "refused"}
    /\ UNCHANGED vars

Next ==
    \/ Skip \/ RefuseEntry \/ RefuseTotals \/ PlanEntry \/ EntriesEnd
    \/ RefuseCollision \/ RefuseConflict \/ Deliver \/ Decided

Spec == Init /\ [][Next]_vars

-----------------------------------------------------------------------------
(* What a plan promises.                                                   *)

\* Every variable holds a value of its kind, and the running totals stay
\* within their ceilings at every step.
TypeOK ==
    /\ entries \in Package
    /\ next \in 1 .. Len(entries) + 1
    /\ items \in Seq([entry : DOMAIN entries, path : Seq(Component) \ {<<>>}])
    /\ Len(items) <= MaxFiles
    /\ total \in 0 .. MaxTotal
    /\ directories \in Seq(Seq(Component) \ {<<>>})
    /\ phase \in {"entries", "outputs", "planned", "refused"}
    /\ refusal.entry \in 0 .. Len(entries)

\* The entries that are to become files: neither does the name end in a
\* separator, nor does a host whose attributes can be read call it a directory.
Wanted(package) ==
    {i \in DOMAIN package :
        /\ ~package[i].slash
        /\ package[i].mode = "directory" => package[i].host = "unmapped"}

\* The bytes they hold, each as its entry and its place in it.
Bytes(package) ==
    UNION {{i} \X (1 .. package[i].size) : i \in Wanted(package)}

\* When a package can be extracted, said of the package as a whole: no two of
\* its files may fold to one path, nor one to a directory of another.
Extractable(package) ==
    /\ \A i \in Wanted(package) : Sound(package[i])
    /\ Cardinality(Wanted(package)) <= MaxFiles
    /\ Cardinality(Bytes(package)) <= MaxTotal
    /\ \A i, j \in Wanted(package) :
          i # j => ~IsPrefix(Folded(package[i].name), Folded(package[j].name))

\* A plan is delivered for extractable packages only, and a refusal blames an
\* entry with which the package, read that far, is already past saving: the
\* first one over a ceiling, the later one of two that cannot both exist
\* (collisions.rs, check; docs/codes.md).
VerdictIsExact ==
    /\ phase = "planned" => Extractable(entries)
    /\ phase = "refused" => ~Extractable(SubSeq(entries, 1, refusal.entry))

\* Every entry that is no directory is planned once, under its own name and in
\* its own place in the order, however many directories lie between.
EveryFileIsPlanned ==
    phase = "planned" =>
        /\ {items[i].entry : i \in DOMAIN items} = Wanted(entries)
        /\ \A i, j \in DOMAIN items : i < j => items[i].entry < items[j].entry
        /\ \A i \in DOMAIN items : items[i].path = entries[items[i].entry].name

\* What the writer relies on: the directories are the proper prefixes of the
\* files, each once, and each after its own parents (ExtractionPlan::directories).
DirectoriesAreTheParents ==
    phase = "planned" =>
        /\ ToSet(directories) = UNION {Parents(items[i].path) : i \in DOMAIN items}
        /\ \A j, k \in DOMAIN directories :
              /\ directories[j] = directories[k] => j = k
              /\ directories[j] \in Parents(directories[k]) => j < k

\* The plan can be carried out on a file system that compares folded names,
\* one directory and one file at a time: nothing stands where a directory must
\* go, every parent is there in time, and no file meets another.
CanBeCarriedOut ==
    phase = "planned" =>
        /\ \A k \in DOMAIN directories :
              /\ \A i \in DOMAIN items :
                    Folded(items[i].path) # Folded(directories[k])
              /\ Len(directories[k]) > 1 =>
                    \E j \in 1 .. k - 1 :
                        Folded(directories[j]) = Folded(Front(directories[k]))
        /\ \A i, j \in DOMAIN items :
              Folded(items[i].path) = Folded(items[j].path) => i = j

\* No entry with content is left out of a plan (extract/mod.rs: "Nothing is
\* skipped").
NoContentIsSkipped ==
    phase = "planned" =>
        \A i \in DOMAIN entries :
            entries[i].size > 0 => \E k \in DOMAIN items : items[k].entry = i
===============================================================================
