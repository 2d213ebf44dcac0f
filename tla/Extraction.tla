------------------------------ MODULE Extraction ------------------------------
(***************************************************************************)
(* Several `openkrx extract` processes writing into one destination.       *)
(*                                                                         *)
(* crates/openkrx-cli/src/extract/ has no daemon, no lock file protocol    *)
(* and no atomic rename: a run looks at the destination (preflight), then  *)
(* creates a marker, its directories and its files one system call at a    *)
(* time, removes the marker, and on a failure takes back in reverse order  *)
(* what its ledger says it created.  Everything between two system calls   *)
(* may change under it: another run, a person, a crash.                    *)
(*                                                                         *)
(* Modelled: the control of mod.rs, preflight.rs, writer.rs, cleanup.rs,   *)
(* and of the descriptor arm of resolver.rs over unix_fd.rs, the arm every *)
(* Unix build runs.  One action is one system call, or a group of reads    *)
(* whose answers only decide a refusal.  Abstracted: the bytes of a file   *)
(* (empty or short against full), entry indices in a diagnostic, counters  *)
(* of a successful report.                                                 *)
(***************************************************************************)
EXTENDS Naturals, Sequences, FiniteSets, SequencesExt

CONSTANTS
    Run,          \* the extract processes; a retry is another member
    Stranger,     \* whoever else writes at the destination, or wrote there
    Path,         \* every path of the model, as components; <<>> is the destination
    MarkerName,   \* MARKER_NAME, ".openkrx-extract.partial"
    Directories,  \* Directories[r]: the plan's implicit parents, parents first
    Files,        \* Files[r]: the plan's items, in central-directory order
    Found,        \* the file systems a behaviour may start from
    Plantable,    \* what Stranger may create: records [path, kind]
    Erasable      \* the paths Stranger may remove

Marker == <<MarkerName>>

Parent(p) == Front(p)

\* The proper prefixes of a path, the destination included.
Ancestors(p) == {SubSeq(p, 1, n) : n \in 0 .. Len(p) - 1}

Kind == {"absent", "file", "directory", "link"}

\* `by` is the process that created the object; `full` says that a file of a
\* run holds every byte of its entry.
Object == [kind : Kind, by : Run \cup {Stranger}, full : BOOLEAN]

Nothing == [kind |-> "absent", by |-> Stranger, full |-> FALSE]

ASSUME StrangerAssumption == Stranger \notin Run

ASSUME PathAssumption ==
    /\ Path \subseteq Seq(UNION {ToSet(p) : p \in Path})
    /\ IsFiniteSet(Path)
    /\ <<>> \in Path /\ Marker \in Path
    /\ \A p \in Path : Ancestors(p) \subseteq Path

\* What extract::plan hands over: no path is the destination itself, and the
\* directories are exactly the proper prefixes of the items, parents first.
ASSUME PlanAssumption ==
    \A r \in Run :
        /\ Files[r] \in Seq(Path \ {<<>>})
        /\ Directories[r] \in Seq(Path \ {<<>>})
        /\ ToSet(Directories[r]) =
              (UNION {Ancestors(f) : f \in ToSet(Files[r])}) \ {<<>>}
        /\ \A i, j \in DOMAIN Directories[r] :
              Directories[r][i] \in Ancestors(Directories[r][j]) => i < j

\* A file system is a tree, and before any run nothing in it is a run's.
ASSUME FoundAssumption ==
    \A tree \in Found :
        /\ tree \in [Path -> [kind : Kind, by : {Stranger}, full : {FALSE}]]
        /\ \A p \in Path : \A a \in Ancestors(p) :
              tree[p].kind # "absent" => tree[a].kind = "directory"

ASSUME StrangerActsAssumption ==
    /\ Plantable \subseteq [path : Path \ {<<>>}, kind : Kind \ {"absent"}]
    /\ Erasable \subseteq Path \ {<<>>, Marker}

VARIABLES
    fs,       \* what is at every path of the destination
    pc,       \* the next step of each run
    at,       \* how far the loop a run is in has come
    ledger,   \* Ledger::created: what a run created and has not yet undone
    code,     \* the stable code a run failed with, "" before that
    removed,  \* Cleanup::removed
    left,     \* Cleanup::left_in_place
    taken     \* what others removed of a run's work: <<run, path>>

vars == <<fs, pc, at, ledger, code, removed, left, taken>>

\* The phases of a run before it has created anything, in order.
Looking == {"plan", "destination", "marker", "names", "paths", "open", "mark"}
\* The phases of commit, and of the undo pass after it failed.
Writing == {"directories", "recheck", "files", "write", "unmark"}
Ended == {"done", "refused", "crashed"}

\* The destination's own refusals, and the ones a run can meet while it writes.
DestinationCode ==
    [absent |-> "output.destination_missing",
     file   |-> "output.destination_not_a_directory",
     link   |-> "output.destination_symlink"]

\* A component that is no directory, as preflight or the kernel reports it.
ObstacleCode ==
    [absent |-> "output.io",
     file   |-> "output.not_a_directory",
     link   |-> "output.symlink_in_path"]

BeforeWriting ==
    {"extract.refused", "output.exists", "output.partial_marker_present"}
        \cup {DestinationCode[k] : k \in DOMAIN DestinationCode}

Code == {""} \cup BeforeWriting \cup {"archive.refused", "output.io"}
             \cup {ObstacleCode[k] : k \in DOMAIN ObstacleCode}

Record == [path : Path, kind : {"file", "directory", "withdrawn"}]

Init ==
    /\ fs \in Found
    /\ pc = [r \in Run |-> "plan"]
    /\ at = [r \in Run |-> 1]
    /\ ledger = [r \in Run |-> <<>>]
    /\ code = [r \in Run |-> ""]
    /\ removed = [r \in Run |-> 0]
    /\ left = [r \in Run |-> 0]
    /\ taken = {}

-----------------------------------------------------------------------------
(* The file system, as the system calls see it.                            *)

Present(p) == fs[p].kind # "absent"
IsDirectory(p) == fs[p].kind = "directory"
Childless(p) == \A q \in Path : Parent(q) = p /\ q # <<>> => ~Present(q)

\* resolve(): every component from the destination to q is a real directory.
Reaches(q) == \A a \in Ancestors(q) \cup {q} : IsDirectory(a)

\* How resolving q may fail: the first component that is no directory decides
\* the code, and the kernel may have any other reason.
WalkCodes(q) ==
    {"output.io"} \cup
    {ObstacleCode[fs[a].kind] :
        a \in {b \in Ancestors(q) \cup {q} :
                 /\ ~IsDirectory(b)
                 /\ \A c \in Ancestors(b) : IsDirectory(c)}}

Made(r, kind) == [kind |-> kind, by |-> r, full |-> FALSE]

-----------------------------------------------------------------------------
(* How a run's steps end.                                                  *)

Go(r, step) ==
    /\ pc' = [pc EXCEPT ![r] = step]
    /\ UNCHANGED code

\* A refusal before the first write: Cleanup::NONE.
Refuse(r, c) ==
    /\ pc' = [pc EXCEPT ![r] = "refused"]
    /\ code' = [code EXCEPT ![r] = c]

\* Faulty: the `?` of commit reaches the caller and no undo pass runs.
FaultyFail(r, c) ==
    /\ pc' = [pc EXCEPT ![r] = "refused"]
    /\ code' = [code EXCEPT ![r] = c]

\* A failure inside commit: the ledger is undone before the run reports.
Fail(r, c) ==
    /\ pc' = [pc EXCEPT ![r] = "undo"]
    /\ code' = [code EXCEPT ![r] = c]

\* The next item of the loop the run is in.
Advance(r) == at' = [at EXCEPT ![r] = @ + 1]

Restart(r) == at' = [at EXCEPT ![r] = 1]

\* Faulty: a directory is created and not recorded.
FaultyRecordFilesOnly(r, p, kind) ==
    ledger' = IF kind = "directory" THEN ledger
              ELSE [ledger EXCEPT ![r] = Append(@, [path |-> p, kind |-> kind])]

\* Faulty: the newest record goes to the front.
FaultyRecordFirst(r, p, kind) ==
    ledger' = [ledger EXCEPT ![r] = <<[path |-> p, kind |-> kind]>> \o @]

RecordCreation(r, p, kind) ==
    ledger' = [ledger EXCEPT ![r] = Append(@, [path |-> p, kind |-> kind])]

Withdraw(r, i) ==
    ledger' = [ledger EXCEPT ![r][i].kind = "withdrawn"]

counts == <<removed, left>>

-----------------------------------------------------------------------------
(* Before the first write: the plan and the preflight.  Each look at the   *)
(* file system may itself fail, which is output.io.                        *)

\* extract::plan accepts the package or refuses it; the file system plays no
\* part in it.
Plan(r) ==
    /\ pc[r] = "plan"
    /\ Go(r, "destination") \/ Refuse(r, "extract.refused")
    /\ UNCHANGED <<fs, at, ledger, counts, taken>>

PreflightDestination(r) ==
    /\ pc[r] = "destination"
    /\ \/ IsDirectory(<<>>) /\ Go(r, "marker")
       \/ ~IsDirectory(<<>>) /\ Refuse(r, DestinationCode[fs[<<>>].kind])
       \/ Refuse(r, "output.io")
    /\ UNCHANGED <<fs, at, ledger, counts, taken>>

PreflightMarker(r) ==
    /\ pc[r] = "marker"
    /\ \/ ~Present(Marker) /\ Go(r, "names")
       \/ Present(Marker) /\ Refuse(r, "output.partial_marker_present")
       \/ Refuse(r, "output.io")
    /\ UNCHANGED <<fs, at, ledger, counts, taken>>

\* Faulty: only a root file of the marker's name is looked for.
FaultyPreflightNames(r) ==
    /\ pc[r] = "names"
    /\ Go(r, "paths")
    /\ Restart(r)
    /\ UNCHANGED <<fs, ledger, counts, taken>>

\* A root directory of the marker's name is refused for the whole plan first.
PreflightNames(r) ==
    /\ pc[r] = "names"
    /\ \/ Marker \notin ToSet(Directories[r]) /\ Go(r, "paths")
       \/ Marker \in ToSet(Directories[r]) /\ Refuse(r, "output.exists")
    /\ Restart(r)
    /\ UNCHANGED <<fs, ledger, counts, taken>>

\* The ancestors of f that are there and are no directories.  Nothing lies
\* below such a thing, so there is one at most, and the walk stops at it.
Blocked(f) ==
    {a \in Ancestors(f) \ {<<>>} : Present(a) /\ ~IsDirectory(a)}

PreflightPath(r) ==
    /\ pc[r] = "paths"
    /\ at[r] \in DOMAIN Files[r]
    /\ LET f == Files[r][at[r]]
       IN  \/ /\ f # Marker /\ Blocked(f) = {} /\ ~Present(f)
              /\ Go(r, "paths") /\ Advance(r)
           \/ /\ f # Marker
              /\ \E a \in Blocked(f) : Refuse(r, ObstacleCode[fs[a].kind])
              /\ UNCHANGED at
           \/ /\ f = Marker \/ (Blocked(f) = {} /\ Present(f))
              /\ Refuse(r, "output.exists")
              /\ UNCHANGED at
           \/ f # Marker /\ Refuse(r, "output.io") /\ UNCHANGED at
    /\ UNCHANGED <<fs, ledger, counts, taken>>

PreflightEnds(r) ==
    /\ pc[r] = "paths"
    /\ at[r] > Len(Files[r])
    /\ Go(r, "open") /\ Restart(r)
    /\ UNCHANGED <<fs, ledger, counts, taken>>

\* What a destination that was changed answers; of a link the kernel may say
\* first that it is a link, or that it is no directory.
RootCodes ==
    {"output.io"}
        \cup {ObstacleCode[k] : k \in {fs[<<>>].kind} \ {"directory"}}
        \cup {ObstacleCode["file"] : k \in {fs[<<>>].kind} \cap {"link"}}

\* open_root: the last look at the destination itself, and never a fallback.
OpenRoot(r) ==
    /\ pc[r] = "open"
    /\ \/ IsDirectory(<<>>) /\ Go(r, "mark")
       \/ \E c \in RootCodes : Refuse(r, c)
    /\ UNCHANGED <<fs, at, ledger, counts, taken>>

-----------------------------------------------------------------------------
(* The writing half: marker, directories, files, marker removed.           *)

\* Faulty: the marker is opened with O_CREAT and without O_EXCL.
FaultyCreateMarker(r) ==
    /\ pc[r] = "mark"
    /\ \/ /\ fs' = [fs EXCEPT ![Marker] = Made(r, "file")]
          /\ RecordCreation(r, Marker, "file")
          /\ Go(r, "directories")
       \/ /\ Fail(r, "output.io")
          /\ UNCHANGED <<fs, ledger>>
    /\ UNCHANGED <<at, counts, taken>>

\* The marker is created exclusively, so it is also the lock between runs.
CreateMarker(r) ==
    /\ pc[r] = "mark"
    /\ \/ /\ ~Present(Marker)
          /\ fs' = [fs EXCEPT ![Marker] = Made(r, "file")]
          /\ RecordCreation(r, Marker, "file")
          /\ Go(r, "directories")
       \/ /\ \/ Present(Marker) /\ Fail(r, "output.partial_marker_present")
             \/ Fail(r, "output.io")
          /\ UNCHANGED <<fs, ledger>>
    /\ UNCHANGED <<at, counts, taken>>

\* mkdirat beneath the resolved parent.  What is already there is looked at
\* again, by a second system call.
MakeDirectory(r) ==
    /\ pc[r] = "directories"
    /\ at[r] \in DOMAIN Directories[r]
    /\ LET p == Directories[r][at[r]]
       IN  \/ /\ Reaches(Parent(p)) /\ ~Present(p)
              /\ fs' = [fs EXCEPT ![p] = Made(r, "directory")]
              /\ RecordCreation(r, p, "directory")
              /\ Go(r, "directories") /\ Advance(r)
           \/ /\ Reaches(Parent(p)) /\ Present(p)
              /\ Go(r, "recheck")
              /\ UNCHANGED <<fs, at, ledger>>
           \/ /\ \E c \in WalkCodes(Parent(p)) : Fail(r, c)
              /\ UNCHANGED <<fs, at, ledger>>
    /\ UNCHANGED <<counts, taken>>

\* Faulty: a directory found in place is recorded like one just created.
FaultyAcceptDirectory(r) ==
    /\ pc[r] = "recheck"
    /\ LET p == Directories[r][at[r]]
       IN  \/ /\ Reaches(p)
              /\ RecordCreation(r, p, "directory")
              /\ Go(r, "directories") /\ Advance(r)
           \/ /\ \E c \in WalkCodes(p) : Fail(r, c)
              /\ UNCHANGED <<at, ledger>>
    /\ UNCHANGED <<fs, counts, taken>>

\* Already there, and a real directory: neither counted nor recorded.
AcceptDirectory(r) ==
    /\ pc[r] = "recheck"
    /\ LET p == Directories[r][at[r]]
       IN  \/ /\ Reaches(p)
              /\ Go(r, "directories") /\ Advance(r)
           \/ /\ \E c \in WalkCodes(p) : Fail(r, c)
              /\ UNCHANGED at
    /\ UNCHANGED <<fs, ledger, counts, taken>>

DirectoriesEnd(r) ==
    /\ pc[r] = "directories"
    /\ at[r] > Len(Directories[r])
    /\ Go(r, "files") /\ Restart(r)
    /\ UNCHANGED <<fs, ledger, counts, taken>>

\* One item: its bytes are decoded first, then the file is created
\* exclusively beneath the resolved parent and recorded.
CreateFile(r) ==
    /\ pc[r] = "files"
    /\ at[r] \in DOMAIN Files[r]
    /\ LET f == Files[r][at[r]]
       IN  \/ /\ Reaches(Parent(f)) /\ ~Present(f)
              /\ fs' = [fs EXCEPT ![f] = Made(r, "file")]
              /\ RecordCreation(r, f, "file")
              /\ Go(r, "write")
           \/ /\ \E c \in {"archive.refused"} \cup WalkCodes(Parent(f)) : Fail(r, c)
              /\ UNCHANGED <<fs, ledger>>
    /\ UNCHANGED <<at, counts, taken>>

\* Faulty: one write(2), whose short count is not looked at.
FaultyWriteFile(r) ==
    /\ pc[r] = "write"
    /\ \/ /\ \E all \in BOOLEAN :
                fs' = [fs EXCEPT ![Files[r][at[r]]].full = all]
          /\ Go(r, "files") /\ Advance(r)
       \/ /\ Fail(r, "output.io")
          /\ UNCHANGED <<fs, at>>
    /\ UNCHANGED <<ledger, counts, taken>>

\* write_all goes through the open handle: a file someone has unlinked since
\* takes the bytes with it.
WriteFile(r) ==
    /\ pc[r] = "write"
    /\ LET f == Files[r][at[r]]
       IN  \/ /\ fs' = IF fs[f].by = r THEN [fs EXCEPT ![f].full = TRUE] ELSE fs
              /\ Go(r, "files") /\ Advance(r)
           \/ /\ Fail(r, "output.io")
              /\ UNCHANGED <<fs, at>>
    /\ UNCHANGED <<ledger, counts, taken>>

FilesEnd(r) ==
    /\ pc[r] = "files"
    /\ at[r] > Len(Files[r])
    /\ Go(r, "unmark")
    /\ UNCHANGED <<fs, at, ledger, counts, taken>>

\* Faulty: a marker that cannot be removed is no failure.
FaultyRemoveMarker(r) ==
    /\ pc[r] = "unmark"
    /\ \/ fs' = [fs EXCEPT ![Marker] = Nothing]
       \/ UNCHANGED fs
    /\ Withdraw(r, 1)
    /\ Go(r, "done")
    /\ UNCHANGED <<at, counts, taken>>

\* The marker's removal is the last step; its record is withdrawn after it.
RemoveMarker(r) ==
    /\ pc[r] = "unmark"
    /\ \/ /\ Present(Marker) /\ ~IsDirectory(Marker)
          /\ fs' = [fs EXCEPT ![Marker] = Nothing]
          /\ Withdraw(r, 1)
          /\ Go(r, "done")
       \/ /\ Fail(r, "output.io")
          /\ UNCHANGED <<fs, ledger>>
    /\ UNCHANGED <<at, counts, taken>>

-----------------------------------------------------------------------------
(* Ledger::undo: newest first, one removal each, no retry.                 *)

\* unlinkat takes a file or a link, unlinkat(AT_REMOVEDIR) an empty directory.
CanRemove(rec) ==
    /\ Reaches(Parent(rec.path))
    /\ \/ rec.kind = "file" /\ fs[rec.path].kind \in {"file", "link"}
       \/ rec.kind = "directory" /\ IsDirectory(rec.path) /\ Childless(rec.path)

\* Faulty: the undo pass walks the ledger in creation order.
FaultyUndoOldest(r) ==
    /\ pc[r] = "undo"
    /\ ledger[r] # <<>>
    /\ \/ /\ CanRemove(Head(ledger[r]))
          /\ fs' = [fs EXCEPT ![Head(ledger[r]).path] = Nothing]
          /\ removed' = [removed EXCEPT ![r] = @ + 1]
          /\ UNCHANGED left
       \/ /\ left' = [left EXCEPT ![r] = @ + 1]
          /\ UNCHANGED <<fs, removed>>
    /\ ledger' = [ledger EXCEPT ![r] = Tail(@)]
    /\ UNCHANGED <<pc, at, code, taken>>

\* Faulty: a removal that fails is not counted.
FaultyUndoSilently(r) ==
    /\ pc[r] = "undo"
    /\ ledger[r] # <<>>
    /\ \/ /\ CanRemove(Last(ledger[r]))
          /\ fs' = [fs EXCEPT ![Last(ledger[r]).path] = Nothing]
          /\ removed' = [removed EXCEPT ![r] = @ + 1]
       \/ UNCHANGED <<fs, removed>>
    /\ ledger' = [ledger EXCEPT ![r] = Front(@)]
    /\ UNCHANGED <<pc, at, code, left, taken>>

\* A removal that cannot be made is counted, and the pass goes on.
UndoNewest(r) ==
    /\ pc[r] = "undo"
    /\ ledger[r] # <<>>
    /\ \/ /\ CanRemove(Last(ledger[r]))
          /\ fs' = [fs EXCEPT ![Last(ledger[r]).path] = Nothing]
          /\ removed' = [removed EXCEPT ![r] = @ + 1]
          /\ UNCHANGED left
       \/ /\ left' = [left EXCEPT ![r] = @ + 1]
          /\ UNCHANGED <<fs, removed>>
    /\ ledger' = [ledger EXCEPT ![r] = Front(@)]
    /\ UNCHANGED <<pc, at, code, taken>>

UndoEnds(r) ==
    /\ pc[r] = "undo"
    /\ ledger[r] = <<>>
    /\ Go(r, "refused")
    /\ UNCHANGED <<fs, at, ledger, counts, taken>>

-----------------------------------------------------------------------------
(* What happens to a run, and around it.                                   *)

\* A signal, a power loss, a killed process: no undo pass.
Crash(r) ==
    /\ pc[r] \notin Ended
    /\ Go(r, "crashed")
    /\ UNCHANGED <<fs, at, ledger, counts, taken>>

TakeAway(p) ==
    /\ fs' = [fs EXCEPT ![p] = Nothing]
    /\ taken' = taken \cup ({fs[p].by} \cap Run) \X {p}

\* Clearing a marker is a deliberate human act, on one no live run holds.
ClearMarker ==
    /\ Present(Marker) /\ ~IsDirectory(Marker)
    /\ fs[Marker].by \in Run => pc[fs[Marker].by] \in Ended
    /\ TakeAway(Marker)
    /\ UNCHANGED <<pc, at, ledger, code, counts>>

StrangerCreates ==
    /\ \E new \in Plantable :
          /\ ~Present(new.path) /\ IsDirectory(Parent(new.path))
          /\ fs' = [fs EXCEPT ![new.path] = Made(Stranger, new.kind)]
    /\ UNCHANGED <<pc, at, ledger, code, counts, taken>>

StrangerRemoves ==
    /\ \E p \in Erasable :
          /\ Present(p) /\ Childless(p)
          /\ TakeAway(p)
    /\ UNCHANGED <<pc, at, ledger, code, counts>>

Step(r) ==
    \/ Plan(r) \/ PreflightDestination(r) \/ PreflightMarker(r)
    \/ PreflightNames(r) \/ PreflightPath(r) \/ PreflightEnds(r) \/ OpenRoot(r)
    \/ CreateMarker(r) \/ MakeDirectory(r) \/ AcceptDirectory(r)
    \/ DirectoriesEnd(r) \/ CreateFile(r) \/ WriteFile(r) \/ FilesEnd(r)
    \/ RemoveMarker(r) \/ UndoNewest(r) \/ UndoEnds(r)

Next ==
    \/ \E r \in Run : Step(r) \/ Crash(r)
    \/ ClearMarker \/ StrangerCreates \/ StrangerRemoves

Spec == Init /\ [][Next]_vars

\* A run is one thread that no lock and no peer can block: the scheduler
\* alone decides when it goes on, and it does not starve a process.
Fairness == \A r \in Run : WF_vars(Step(r))
FairSpec == Spec /\ Fairness

-----------------------------------------------------------------------------
(* What the runs promise.                                                  *)

\* What of run r is in the destination, its marker included.
Owned(r) == {p \in Path : Present(p) /\ fs[p].by = r}

Recorded(r) == {ledger[r][i].path : i \in DOMAIN ledger[r]}

\* A run works in the destination from its marker's creation until nothing is
\* left in its ledger.
Holding(r) == pc[r] \in Writing \cup {"undo"} /\ ledger[r] # <<>>

\* Every variable holds a value of its kind.
TypeOK ==
    /\ fs \in [Path -> Object]
    /\ pc \in [Run -> Looking \cup Writing \cup {"undo"} \cup Ended]
    /\ at \in [Run -> Nat \ {0}]
    /\ ledger \in [Run -> Seq(Record)]
    /\ code \in [Run -> Code]
    /\ removed \in [Run -> Nat]
    /\ left \in [Run -> Nat]
    /\ taken \subseteq Run \X Path

\* At most one run at a time is between its marker and its end, the undo pass
\* included, however stale the look at the marker was that let it start
\* (preflight::marker is read long before resolver::marker creates).
OneWriter ==
    \A r, s \in Run : Holding(r) /\ Holding(s) => r = s

\* Output of a run that did not succeed never lies in an unmarked
\* destination, unless that run met a removal it could not make or a person
\* cleared the marker: a crash at any step leaves the signal standing that
\* the next run is refused by (mod.rs, MARKER_NAME).
MarkedOrReported ==
    \A r \in Run :
        Owned(r) # {} /\ pc[r] # "done" =>
            Present(Marker) \/ left[r] > 0 \/ <<r, Marker>> \in taken

\* A run that reported success has every planned file in the destination,
\* its own and in full, and it stays so whatever other runs do afterwards,
\* their undo passes included.
DoneIsWhole ==
    \A r \in Run : pc[r] = "done" =>
        /\ \A f \in ToSet(Files[r]) :
              fs[f] = [kind |-> "file", by |-> r, full |-> TRUE]
        /\ \A d \in ToSet(Directories[r]) : IsDirectory(d)
        /\ Marker \notin Owned(r)

\* While no removal has failed, the ledger holds exactly what the run has in
\* the destination: a failure at any point can be undone completely, and
\* nothing that was already there is ever a candidate (writer.rs, write).
LedgerIsExact ==
    \A r \in Run :
        pc[r] \in Writing \cup {"undo"} /\ left[r] = 0 => Recorded(r) = Owned(r)

\* Reverse order makes everything removable: the newest record can be taken
\* back unless someone who is no run put something below it (Ledger::undo).
NewestIsRemovable ==
    \A r \in Run :
        pc[r] = "undo" /\ ledger[r] # <<>> /\ left[r] = 0 =>
            \/ CanRemove(Last(ledger[r]))
            \/ \E p \in Path \ {<<>>} :
                  /\ Parent(p) = Last(ledger[r]).path
                  /\ Present(p) /\ fs[p].by = Stranger

\* A plan that has the marker's own name at the root, as a file or a directory.
Clashes(r) == Marker \in ToSet(Files[r]) \cup ToSet(Directories[r])

\* The codes decided in preflight mean that the run wrote nothing, neither in
\* the destination nor in the counts of its report (codes.md, output.exists);
\* and a run that can only collide with its own marker ends before it writes,
\* wherever in its plan the name is (preflight.rs, plan_paths).
EarlyCodesWroteNothing ==
    \A r \in Run :
        code[r] \in BeforeWriting \/ Clashes(r) =>
            Owned(r) = {} /\ removed[r] = 0 /\ left[r] = 0

\* A step of a run that shows in its own state.
Moves(r) ==
    \/ pc'[r] # pc[r] \/ at'[r] # at[r] \/ ledger'[r] # ledger[r]
    \/ removed'[r] # removed[r] \/ left'[r] # left[r]

\* No step of a run changes, replaces or removes a thing that was there and
\* that this run did not create: no overwriting, and an undo pass that takes
\* back its own work only (cleanup.rs, preflight.rs "No overwrite").
OnlyOwnWork ==
    [][\A r \in Run : Moves(r) =>
          \A p \in Path : fs'[p] # fs[p] =>
              /\ Present(p) => fs[p].by = r
              /\ fs'[p].kind # "absent" => fs'[p].by = r]_vars

\* What others took of run r.
Taken(r) == {p \in Path : <<r, p>> \in taken}

\* The report of a failed run hides nothing and adds little: left_in_place is
\* at least the number of paths of this run that are still there as it ends,
\* and more only by paths that were gone when the pass came to them, which the
\* code counts with the others (Ledger::undo).
ReportIsExact ==
    [][\A r \in Run :
          pc[r] = "undo" /\ pc'[r] = "refused" =>
              /\ Cardinality(Owned(r)) <= left[r]
              /\ left[r] <= Cardinality(Owned(r)) + Cardinality(Taken(r))]_vars

\* A failed run whose files are still there, in part or whole, leaves the
\* destination marked as unfinished (SECURITY.md: a failure "never leaves
\* partial output as a completed run").
PartialOutputIsMarked ==
    \A r \in Run :
        /\ pc[r] = "refused" /\ <<r, Marker>> \notin taken
        /\ Owned(r) \cap ToSet(Files[r]) # {}
        => Present(Marker)

\* A run that has marked the destination gives it up in the end, unless it
\* crashes or cannot remove something: no failure path forgets the marker.
ReleasesMarker ==
    \A r \in Run :
        (Marker \in Owned(r)) ~>
            (Marker \notin Owned(r) \/ pc[r] = "crashed" \/ left[r] > 0)
===============================================================================
