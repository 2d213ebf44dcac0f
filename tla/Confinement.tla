----------------------------- MODULE Confinement -----------------------------
(***************************************************************************)
(* Where one `openkrx extract` works while others rename and replace.      *)
(*                                                                         *)
(* Extraction names things by their paths.  Here files and directories     *)
(* are things of their own that names lead to, for others may move a       *)
(* directory away from its name and leave a link there.  Modelled: both    *)
(* arms of resolver.rs on the three kinds of platform, unix_fd.rs, and the *)
(* control of preflight.rs, writer.rs and cleanup.rs around them.  A path  *)
(* is walked one component at a time, by the kernel as by `walk`, and what *)
(* is done at its end is a step of its own.                                *)
(*                                                                         *)
(* Abstracted: the codes, the bytes, crashes and other runs, which are in  *)
(* Extraction; mounts, which only openat2 refuses.                         *)
(***************************************************************************)
EXTENDS Naturals, Sequences, FiniteSets, SequencesExt

CONSTANTS
    Node,         \* files, directories and links, those still to be made included
    None,         \* what an unused name leads to
    Name,         \* components of paths
    Above,        \* the directory the destination is named in
    Destination,  \* its name there
    MarkerName,   \* MARKER_NAME
    Directories,  \* the plan's directories, parents first
    Files,        \* the plan's items
    Found,        \* the trees there may be at first: records [kind, entries, leads]
    Platform,     \* among "linux", "unix" and "windows"
    Loose,        \* the names others move things from and to
    Lures,        \* where their links lead
    MaxMoves      \* a bound on what others do

ASSUME NodeAssumption == IsFiniteSet(Node) /\ None \notin Node /\ Above \in Node

ASSUME PlanAssumption ==
    /\ {Destination, MarkerName} \subseteq Name
    /\ Files \in Seq(Seq(Name) \ {<<>>})
    /\ Directories \in Seq(Seq(Name) \ {<<>>})
    /\ Platform \subseteq {"linux", "unix", "windows"}

\* The plan lists the directory above each path it lists, and before it
\* (ExtractPlan, DirectoriesAreTheParents).
ASSUME ParentsAssumption ==
    /\ \A i \in DOMAIN Directories : Len(Directories[i]) > 1 =>
            \E j \in 1 .. i - 1 : Directories[j] = Front(Directories[i])
    /\ \A i \in DOMAIN Files : Len(Files[i]) > 1 =>
            \E j \in DOMAIN Directories : Directories[j] = Front(Files[i])

ASSUME OthersAssumption == Loose \subseteq Name /\ Lures \subseteq Node

Kinds == {"free", "file", "directory", "link", "gone"}

\* What is still to be made has no name yet, and nothing in it.
ASSUME FoundAssumption ==
    \A tree \in Found :
        /\ tree.kind \in [Node -> Kinds]
        /\ tree.entries \in [Node -> [Name -> Node \cup {None}]]
        /\ tree.leads \in [Node -> Node]
        /\ \A n, d \in Node : \A c \in Name :
                tree.kind[n] = "free" => tree.entries[d][c] # n /\ tree.entries[n][c] = None

VARIABLES
    kind, entries, leads,  \* what is there, what it names, where a link leads
    platform,  \* which build of the resolver runs
    pc,        \* the call under way
    at,        \* the position in the loop it belongs to
    passed,    \* plan_paths: how many components of the item were looked at
    hand,      \* the directory the walk has reached
    depth,     \* how many components it has passed
    arm,       \* Resolver: "none" before it is chosen
    root,      \* the opened destination
    created,   \* whether the directory that is read back was created by this run
    ledger,    \* Ledger::created
    removed, left,  \* Cleanup
    home,      \* history: the directories that have lain in the destination
    made,      \* history: what the run created
    touched,   \* history: the directories it created or removed something in
    meddled,   \* history: others moved something since the resolver was chosen
    intruded,  \* history: in the destination's own tree
    balked,    \* history: a removal failed that could have been made
    moves      \* how much others have done

tree == <<kind, entries, leads>>
counts == <<removed, left>>
past == <<home, made, touched, meddled, intruded, balked, moves>>
vars == <<tree, platform, pc, at, passed, hand, depth, arm, root, created, ledger, counts, past>>

Marker == <<MarkerName>>

Init ==
    /\ \E t \in Found : kind = t.kind /\ entries = t.entries /\ leads = t.leads
    /\ platform \in Platform
    /\ pc = "destination" /\ at = 1 /\ passed = 0 /\ hand = Above /\ depth = 0
    /\ arm = "none" /\ root = Above /\ created = FALSE
    /\ ledger = <<>> /\ removed = 0 /\ left = 0
    /\ home = {} /\ made = {} /\ touched = {} /\ moves = 0
    /\ meddled = FALSE /\ intruded = FALSE /\ balked = FALSE

-----------------------------------------------------------------------------
(* The tree.                                                               *)

KindOf(n) == IF n = None THEN "absent" ELSE kind[n]

\* The directories in H and all that lie in them, by the names in e.
Within(H, k, e) ==
    LET others == {n \in Node : k[n] = "directory"} \ H
        inside(S) == {e[d][c] : d \in S, c \in Name} \cap others
    IN  H \cup {n \in others : \A X \in SUBSET others : inside(H \cup X) \subseteq X => n \in X}

Unnamed(n) == \A d \in Node : \A c \in Name : entries[d][c] # n

-----------------------------------------------------------------------------
(* Walking a path.                                                         *)

\* Faulty: the undo pass goes by name on either arm.
FaultyBeneath == arm = "beneath" /\ pc # "undo"

\* Whether calls go beneath the descriptor; else they go by name.
Beneath == arm = "beneath"

Target ==
    CASE pc \in {"destination", "open"} -> <<>>
      [] pc \in {"marker", "mark", "unmark"} -> Marker
      [] pc = "paths" -> SubSeq(Files[at], 1, passed + 1)
      [] pc \in {"directories", "readback"} -> Directories[at]
      [] pc \in {"files", "write"} -> Files[at]
      [] pc = "undo" -> Last(ledger).path

Way == IF Beneath THEN Target ELSE <<Destination>> \o Target

\* A call acts on the last name of its path; only the second look of the
\* descriptor arm opens that one too.
Walked == IF Beneath /\ pc = "readback" THEN Len(Way) ELSE Len(Way) - 1

Calling ==
    \/ pc \in {"destination", "marker", "open", "mark", "readback", "unmark"}
    \/ pc = "directories" /\ at <= Len(Directories)
    \/ pc \in {"paths", "files"} /\ at <= Len(Files)
    \/ pc = "undo" /\ ledger # <<>>

Here == IF depth > 0 THEN hand ELSE IF Beneath THEN root ELSE Above
There == entries[Here][Way[depth + 1]]
Arrived == Calling /\ depth = Walked

\* Faulty: calls beneath the descriptor follow links too.
FaultyFollows == TRUE

\* O_NOFOLLOW and RESOLVE_NO_SYMLINKS; a call by name follows links.
Follows == ~Beneath

\* Where the next component leads, None when the walk ends there.
Onward ==
    CASE KindOf(There) = "directory" -> There
      [] KindOf(There) = "link" /\ Follows -> leads[There]
      [] OTHER -> None

Walk ==
    /\ Calling /\ depth < Walked
    /\ Onward # None
    /\ hand' = Onward /\ depth' = depth + 1
    /\ UNCHANGED <<tree, platform, pc, at, passed, arm, root, created, ledger, counts, past>>

\* The next call starts from the beginning of its path.
Again == depth' = 0 /\ hand' = Above
Turn(step, i) == pc' = step /\ at' = i /\ passed' = 0 /\ Again

-----------------------------------------------------------------------------
(* Before the first write.                                                 *)

\* Any look may fail or find what it refuses: Cleanup::NONE.
Refuse ==
    /\ pc \in {"destination", "marker", "paths", "open"}
    /\ Turn("refused", 1)
    /\ UNCHANGED <<tree, platform, arm, root, created, ledger, counts, past>>

\* What lies in the destination counts from here, until the destination is
\* opened; and so does what others do.
Settle(d) ==
    /\ home' = Within({d}, kind, entries)
    /\ meddled' = FALSE /\ intruded' = FALSE
    /\ UNCHANGED <<made, touched, balked, moves>>

PreflightDestination ==
    /\ pc = "destination" /\ Arrived
    /\ KindOf(There) = "directory"
    /\ Settle(There)
    /\ Turn("marker", 1)
    /\ UNCHANGED <<tree, platform, arm, root, created, ledger, counts>>

\* Nothing is there, at the end of a path or on the way to it.
Missing == KindOf(There) = "absent" /\ depth <= Walked

PreflightMarker ==
    /\ pc = "marker" /\ Missing
    /\ Turn("paths", 1)
    /\ UNCHANGED <<tree, platform, arm, root, created, ledger, counts, past>>

\* An ancestor is a directory if it is there at all.
PreflightAncestor ==
    /\ pc = "paths" /\ Calling /\ passed + 1 < Len(Files[at])
    /\ Missing \/ (Arrived /\ KindOf(There) = "directory")
    /\ passed' = passed + 1 /\ Again
    /\ UNCHANGED <<tree, platform, pc, at, arm, root, created, ledger, counts, past>>

\* The item is not.
PreflightItem ==
    /\ pc = "paths" /\ Calling /\ passed + 1 = Len(Files[at])
    /\ Missing
    /\ Turn("paths", at + 1)
    /\ UNCHANGED <<tree, platform, arm, root, created, ledger, counts, past>>

PreflightEnds ==
    /\ pc = "paths" /\ ~Calling
    /\ Turn("open", 1)
    /\ UNCHANGED <<tree, platform, arm, root, created, ledger, counts, past>>

\* Faulty: a destination that cannot be opened is written to by name.
FaultyOpenRoot ==
    /\ pc = "open" /\ Arrived /\ platform # "windows"
    /\ arm' = "portable" /\ meddled' = FALSE
    /\ Turn("mark", 1)
    /\ UNCHANGED <<tree, platform, root, created, ledger, counts, home, made, touched,
                   intruded, balked, moves>>

\* O_DIRECTORY | O_NOFOLLOW: a directory, whichever is there now.  On Linux the
\* probe of openat2 then decides the arm; the open itself never does.
OpenRoot ==
    /\ pc = "open" /\ Arrived /\ platform # "windows"
    /\ KindOf(There) = "directory"
    /\ root' = There
    /\ \/ arm' = "beneath"
       \/ arm' = "portable" /\ platform = "linux"
    /\ Settle(There)
    /\ Turn("mark", 1)
    /\ UNCHANGED <<tree, platform, created, ledger, counts>>

\* Windows: one arm, and no look at the destination.
OpenNothing ==
    /\ pc = "open" /\ platform = "windows"
    /\ arm' = "portable"
    /\ Turn("mark", 1)
    /\ UNCHANGED <<tree, platform, root, created, ledger, counts, past>>

-----------------------------------------------------------------------------
(* The writing half.                                                       *)

\* A new thing under the last name of the path, which has to be free.
Make(n, k) ==
    /\ Arrived /\ KindOf(Here) = "directory" /\ There = None
    /\ kind[n] = "free"
    /\ kind' = [kind EXCEPT ![n] = k]
    /\ entries' = [entries EXCEPT ![Here][Way[depth + 1]] = n]
    /\ home' = Within(home, kind', entries')
    /\ made' = made \cup {n}
    /\ touched' = touched \cup {Here}
    /\ UNCHANGED <<leads, meddled, intruded, balked, moves>>

\* The next of the things that are still to be made.
Fresh == {n \in Node : kind[n] = "free" /\ n = CHOOSE m \in Node : kind[m] = "free"}

Record(k) == ledger' = Append(ledger, [path |-> Target, kind |-> k])

CreateMarker ==
    /\ pc = "mark"
    /\ \E n \in Fresh : Make(n, "file")
    /\ Record("file")
    /\ Turn("directories", 1)
    /\ UNCHANGED <<platform, arm, root, created, counts>>

\* By descriptor the new directory is recorded; by name it is read back first.
MakeDirectory ==
    /\ pc = "directories"
    /\ \E n \in Fresh : Make(n, "directory")
    /\ IF Beneath
       THEN Record("directory") /\ Turn("directories", at + 1) /\ UNCHANGED created
       ELSE created' = TRUE /\ Turn("readback", at) /\ UNCHANGED ledger
    /\ UNCHANGED <<platform, arm, root, counts>>

\* EEXIST: something has the name.
FindDirectory ==
    /\ pc = "directories" /\ Arrived /\ There # None
    /\ created' = FALSE
    /\ Turn("readback", at)
    /\ UNCHANGED <<tree, platform, arm, root, ledger, counts, past>>

\* Faulty: what is read back may be a link.
FaultyReadBack ==
    /\ pc = "readback" /\ Arrived
    /\ ~Beneath => KindOf(There) \in {"directory", "link"}
    /\ IF created THEN Record("directory") ELSE UNCHANGED ledger
    /\ created' = FALSE
    /\ Turn("directories", at + 1)
    /\ UNCHANGED <<tree, platform, arm, root, counts, past>>

\* symlink_metadata by name, or the directory opened beneath the descriptor.
ReadBack ==
    /\ pc = "readback" /\ Arrived
    /\ ~Beneath => KindOf(There) = "directory"
    /\ IF created THEN Record("directory") ELSE UNCHANGED ledger
    /\ created' = FALSE
    /\ Turn("directories", at + 1)
    /\ UNCHANGED <<tree, platform, arm, root, counts, past>>

DirectoriesEnd ==
    /\ pc = "directories" /\ ~Calling
    /\ Turn("files", 1)
    /\ UNCHANGED <<tree, platform, arm, root, created, ledger, counts, past>>

CreateFile ==
    /\ pc = "files"
    /\ \E n \in Fresh : Make(n, "file")
    /\ Record("file")
    /\ Turn("write", at)
    /\ UNCHANGED <<platform, arm, root, created, counts>>

\* Through the open handle, wherever the file is by now.
WriteFile ==
    /\ pc = "write"
    /\ Turn("files", at + 1)
    /\ UNCHANGED <<tree, platform, arm, root, created, ledger, counts, past>>

FilesEnd ==
    /\ pc = "files" /\ ~Calling
    /\ Turn("unmark", 1)
    /\ UNCHANGED <<tree, platform, arm, root, created, ledger, counts, past>>

\* What has the last name of the path loses it.
Unlink(kinds) ==
    /\ Arrived
    /\ KindOf(There) \in kinds
    /\ KindOf(There) = "directory" => \A c \in Name : entries[There][c] = None
    /\ entries' = [entries EXCEPT ![Here][Way[depth + 1]] = None]
    /\ kind' = [kind EXCEPT ![There] = "gone"]
    /\ touched' = touched \cup {Here}
    /\ UNCHANGED <<leads, home, made, meddled, intruded, moves>>

\* The marker is the oldest record, and is forgotten.
RemoveMarker ==
    /\ pc = "unmark"
    /\ Unlink({"file", "link"}) /\ UNCHANGED balked
    /\ ledger' = Tail(ledger)
    /\ Turn("done", 1)
    /\ UNCHANGED <<platform, arm, root, created, counts>>

\* Faulty: a directory that is refused after its creation is not recorded.
FaultyFail ==
    /\ pc \in {"mark", "directories", "readback", "files", "write", "unmark"}
    /\ created' = FALSE
    /\ Turn("undo", 1)
    /\ UNCHANGED <<tree, platform, arm, root, ledger, counts, past>>

\* Any call of commit may fail; what it created before it did is recorded.
Fail ==
    /\ pc \in {"mark", "directories", "readback", "files", "write", "unmark"}
    /\ IF created THEN Record("directory") ELSE UNCHANGED ledger
    /\ created' = FALSE
    /\ Turn("undo", 1)
    /\ UNCHANGED <<tree, platform, arm, root, counts, past>>

-----------------------------------------------------------------------------
(* Ledger::undo, newest first.                                             *)

\* unlinkat and remove_file, unlinkat(AT_REMOVEDIR) and remove_dir; the last one
\* takes a link to a directory away on Windows.
Removable ==
    IF Last(ledger).kind = "file" THEN {"file", "link"}
    ELSE {"directory"} \cup (IF platform = "windows" THEN {"link"} ELSE {})

UndoNewest ==
    /\ pc = "undo" /\ ledger # <<>>
    /\ Unlink(Removable) /\ UNCHANGED balked
    /\ removed' = removed + 1
    /\ ledger' = Front(ledger)
    /\ Turn("undo", 1)
    /\ UNCHANGED <<platform, arm, root, created, left>>

\* Whether the call is at a point where it would go on.
Unhindered ==
    \/ depth < Walked /\ Onward # None
    \/ /\ Arrived /\ KindOf(There) \in Removable
       /\ KindOf(There) = "directory" => \A c \in Name : entries[There][c] = None

LeaveInPlace ==
    /\ pc = "undo" /\ ledger # <<>>
    /\ left' = left + 1
    /\ balked' = (balked \/ Unhindered)
    /\ ledger' = Front(ledger)
    /\ Turn("undo", 1)
    /\ UNCHANGED <<tree, platform, arm, root, created, removed, home, made, touched,
                   meddled, intruded, moves>>

UndoEnds ==
    /\ pc = "undo" /\ ledger = <<>>
    /\ Turn("refused", 1)
    /\ UNCHANGED <<tree, platform, arm, root, created, ledger, counts, past>>

-----------------------------------------------------------------------------
(* Whoever else may write where the destination is.                        *)

\* Others act until the run is over.
OthersAct == moves < MaxMoves /\ pc \notin {"done", "refused"}

\* They change names in the directories ds.
Others(ds) ==
    /\ home' = Within(home, kind', entries')
    /\ meddled' = TRUE
    /\ intruded' = (intruded \/ ds \cap home # {})
    /\ moves' = moves + 1
    /\ UNCHANGED <<platform, pc, at, passed, hand, depth, arm, root, created, ledger, counts,
                   made, touched, balked>>

DirectoriesThere == {n \in Node : kind[n] = "directory"}

\* n and the directories in it, level by level.
Subtree(n) ==
    LET level[i \in Nat] ==
            IF i = 0 THEN {n}
            ELSE LET upper == level[i - 1]
                 IN  upper \cup ({entries[d][c] : d \in upper, c \in Name} \cap DirectoriesThere)
    IN  level[Cardinality(DirectoriesThere)]

\* rename(2) to a free name that is not beneath what is renamed.
Rename ==
    /\ OthersAct
    /\ \E d, e \in DirectoriesThere, b, c \in Loose :
        LET n == entries[d][b]
        IN  /\ n # None /\ entries[e][c] = None
            /\ kind[n] = "directory" /\ e # d => e \notin Subtree(n)
            /\ entries' = [entries EXCEPT ![d][b] = None, ![e][c] = n]
            /\ UNCHANGED <<kind, leads>>
            /\ Others({d, e})

\* symlink(2) to a directory.
Plant ==
    /\ OthersAct
    /\ \E d \in DirectoriesThere, c \in Loose, target \in Lures, n \in Fresh :
        /\ kind[target] = "directory"
        /\ entries[d][c] = None
        /\ kind' = [kind EXCEPT ![n] = "link"]
        /\ entries' = [entries EXCEPT ![d][c] = n]
        /\ leads' = [leads EXCEPT ![n] = target]
        /\ Others({d})

Run ==
    \/ Walk \/ Refuse
    \/ PreflightDestination \/ PreflightMarker
    \/ PreflightAncestor \/ PreflightItem \/ PreflightEnds
    \/ OpenRoot \/ OpenNothing
    \/ CreateMarker \/ MakeDirectory \/ FindDirectory \/ ReadBack \/ DirectoriesEnd
    \/ CreateFile \/ WriteFile \/ FilesEnd \/ RemoveMarker \/ Fail
    \/ UndoNewest \/ LeaveInPlace \/ UndoEnds

Next == Run \/ Rename \/ Plant

Spec == Init /\ [][Next]_vars

-----------------------------------------------------------------------------
(* What the resolver promises.                                             *)

Steps == {"destination", "marker", "paths", "open", "mark", "directories",
          "readback", "files", "write", "unmark", "undo", "done", "refused"}

\* Every variable holds a value of its kind.
TypeOK ==
    /\ kind \in [Node -> Kinds]
    /\ entries \in [Node -> [Name -> Node \cup {None}]]
    /\ leads \in [Node -> Node]
    /\ platform \in {"linux", "unix", "windows"}
    /\ pc \in Steps /\ at \in Nat \ {0} /\ passed \in Nat /\ depth \in Nat
    /\ hand \in Node /\ root \in Node
    /\ arm \in {"none", "beneath", "portable"}
    /\ created \in BOOLEAN
    /\ ledger \in Seq([path : Seq(Name) \ {<<>>}, kind : {"file", "directory"}])
    /\ removed \in Nat /\ left \in Nat /\ moves \in Nat
    /\ home \subseteq Node /\ made \subseteq Node /\ touched \subseteq Node
    /\ meddled \in BOOLEAN /\ intruded \in BOOLEAN /\ balked \in BOOLEAN

\* Beneath the descriptor, nothing is created or removed in a directory that
\* has not lain in the opened destination, its undo pass included, whatever
\* others rename and replace at any step (resolver.rs, "is refused at the
\* moment of the operation rather than followed").
ConfinedBeneath == arm = "beneath" => touched \subseteq home

\* By name the same holds as long as others leave alone what the run has
\* settled on: the opened destination, on Windows the one it has looked at.
\* What they did before that is found (resolver.rs, with_kernel_support and
\* portable_directory).
ConfinedUnlessRaced == arm = "portable" /\ ~meddled => touched \subseteq home

\* A failed run accounts for all that it ever created, also for a directory
\* that was replaced before it was read back (resolver.rs, DirectoryFailure).
CreationsAreAccounted ==
    pc = "refused" => removed + left = Cardinality(made)

\* Beneath the descriptor the undo pass reaches what the run created although
\* the destination has lost its name or another has taken it: while nobody
\* changed anything in the destination itself, all is taken back, but for
\* removals that fail of themselves (resolver.rs, Resolver::remove).
UndoReachesItsOwn ==
    pc = "refused" /\ arm = "beneath" /\ ~intruded /\ ~balked =>
        \A n \in made : Unnamed(n)

=============================================================================
