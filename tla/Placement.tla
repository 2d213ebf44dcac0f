------------------------------ MODULE Placement ------------------------------
(***************************************************************************)
(* create and repack: openkrx-cli/src/create.rs, repack.rs, output.rs and  *)
(* input.rs, with the undo pass of extract/cleanup.rs for a named path.    *)
(*                                                                         *)
(* Several processes each build one package in memory, put it at a path or *)
(* on standard output, read the file back by its name and check it.  The   *)
(* paths name files, and a file outlives its name: a process writes to the *)
(* file it created, whatever the path names by then.                       *)
(***************************************************************************)
EXTENDS Naturals, FiniteSets

CONSTANTS
    Process,   \* the runs of create and repack
    Foreign,   \* files that no run created
    Path,
    Erasable,  \* the paths where others may take a file away
    Nobody,    \* what a free path names
    Request,   \* create's source: a manifest and its attachments
    Stdin,
    Stdout,
    Command    \* what a run is asked: its source and its destination

File == Process \cup Foreign

\* What reading a file yields: a proper prefix of an image (or no image at
\* all), a package that checks clean, an image with a failing check, or more
\* than the cap.
Content == {"partial", "package", "unsound", "huge"}

Parents == {"missing", "link", "file", "directory"}

ASSUME CommandAssumption ==
    /\ Command \subseteq [source : Path \cup {Request, Stdin}, out : Path \cup {Stdout}]
    /\ Stdout \notin Path /\ Request \notin Path /\ Stdin \notin Path

ASSUME FileAssumption ==
    /\ Nobody \notin File
    /\ Process \cap Foreign = {}
    /\ Erasable \subseteq Path

VARIABLES
    parent,      \* what the directory of each path is
    name,        \* the file each path names
    content,     \* what is in each file
    command,     \* what each run was asked
    pc,          \* the next step of each run
    held,        \* the bytes a run read last
    package,     \* the bytes a run built
    ledger,      \* whether a run's ledger holds its path
    code,        \* the code a run failed with
    report,      \* its Cleanup: paths removed, paths left in place
    pipe,        \* what a run's standard output carries
    interfered   \* the paths where others took a file away

files == <<parent, name, content, interfered>>
vars == <<parent, name, content, command, pc, held, package, ledger, code,
          report, pipe, interfered>>

InputCodes == {"input.unreadable", "input.over_limit"}
OutputCodes == {"output.destination_missing", "output.destination_symlink",
                "output.destination_not_a_directory", "output.exists", "output.io"}
Code == InputCodes \cup OutputCodes \cup
        {"none", "archive", "request", "internal.self_check_failed"}

Active == {"read", "build", "look", "create", "write", "readback", "check",
           "deliver", "undo"}
Ended == {"done", "refused", "crashed"}

Source(p) == command[p].source
Out(p) == command[p].out

Init ==
    /\ parent \in [Path -> Parents]
    /\ name \in [Path -> Foreign \cup {Nobody}]
    /\ \A q \in Path : parent[q] # "directory" => name[q] = Nobody
    /\ \A q, s \in Path : name[q] = name[s] /\ name[q] # Nobody => q = s
    /\ content \in [File -> Content]
    /\ \A p \in Process : content[p] = "partial"
    /\ command \in [Process -> Command]
    /\ pc = [p \in Process |-> "read"]
    /\ held = [p \in Process |-> "partial"]
    /\ package = [p \in Process |-> "partial"]
    /\ ledger = [p \in Process |-> FALSE]
    /\ code = [p \in Process |-> "none"]
    /\ report = [p \in Process |-> [removed |-> 0, left |-> 0]]
    /\ pipe = [p \in Process |-> "nothing"]
    /\ interfered = {}

-----------------------------------------------------------------------------
(* Reading and building.                                                   *)

Go(p, next) == pc' = [pc EXCEPT ![p] = next] /\ UNCHANGED code

\* Every failure goes by the undo pass, which may have nothing to do.
Refuse(p, failure) ==
    /\ pc' = [pc EXCEPT ![p] = "undo"]
    /\ code' = [code EXCEPT ![p] = failure]

\* input::read by name: what a path names now, under the cap.
ReadPath(p, q, next) ==
    \/ /\ name[q] # Nobody
       /\ IF content[name[q]] = "huge"
          THEN Refuse(p, "input.over_limit") /\ UNCHANGED held
          ELSE Go(p, next) /\ held' = [held EXCEPT ![p] = content[name[q]]]
    \/ Refuse(p, "input.unreadable") /\ UNCHANGED held

\* The package to edit, or a manifest and its attachments.
Read(p) ==
    /\ pc[p] = "read"
    /\ \/ Source(p) \in Path /\ ReadPath(p, Source(p), "build")
       \/ /\ Source(p) \in {Request, Stdin}
          /\ \/ \E c \in Content \ {"huge"} :
                   Go(p, "build") /\ held' = [held EXCEPT ![p] = c]
             \/ \E failure \in InputCodes : Refuse(p, failure) /\ UNCHANGED held
    /\ UNCHANGED <<files, command, package, ledger, report, pipe>>

\* Faulty: standard output is written at once.
FaultyBuild(p) ==
    /\ pc[p] = "build"
    /\ \/ held[p] # "partial" /\ \E image \in {"package", "unsound"} :
             /\ package' = [package EXCEPT ![p] = image]
             /\ held' = [held EXCEPT ![p] = image]
             /\ Go(p, IF Out(p) = Stdout THEN "deliver" ELSE "look")
       \/ /\ \E failure \in InputCodes \cup {"archive", "request"} : Refuse(p, failure)
          /\ UNCHANGED <<package, held>>
    /\ UNCHANGED <<files, command, ledger, report, pipe>>

\* The whole image in memory, or a refusal: of edits that cannot be read, of
\* bytes that are no archive, of what the writer cannot write.  The image may
\* fail its check: that is what the check is for.
Build(p) ==
    /\ pc[p] = "build"
    /\ \/ held[p] # "partial" /\ \E image \in {"package", "unsound"} :
             /\ package' = [package EXCEPT ![p] = image]
             /\ held' = [held EXCEPT ![p] = image]
             /\ Go(p, IF Out(p) = Stdout THEN "check" ELSE "look")
       \/ /\ \E failure \in InputCodes \cup {"archive", "request"} : Refuse(p, failure)
          /\ UNCHANGED <<package, held>>
    /\ UNCHANGED <<files, command, ledger, report, pipe>>

-----------------------------------------------------------------------------
(* Placing.                                                                *)

LookCode(q) ==
    CASE parent[q] = "missing" -> "output.destination_missing"
      [] parent[q] = "link" -> "output.destination_symlink"
      [] parent[q] = "file" -> "output.destination_not_a_directory"
      [] parent[q] = "directory" -> IF name[q] = Nobody THEN "none" ELSE "output.exists"

\* The parent is real and nothing is there, in any form, at the moment of looking.
Look(p) ==
    /\ pc[p] = "look"
    /\ \/ LookCode(Out(p)) = "none" /\ Go(p, "create")
       \/ LookCode(Out(p)) # "none" /\ Refuse(p, LookCode(Out(p)))
       \/ Refuse(p, "output.io")
    /\ UNCHANGED <<files, command, held, package, ledger, report, pipe>>

\* Faulty: the path is recorded before it is known who created what is there.
FaultyCreateNew(p) ==
    /\ pc[p] = "create"
    /\ ledger' = [ledger EXCEPT ![p] = TRUE]
    /\ \/ /\ name[Out(p)] = Nobody
          /\ name' = [name EXCEPT ![Out(p)] = p]
          /\ Go(p, "write")
       \/ /\ name[Out(p)] # Nobody
          /\ Refuse(p, "output.exists") /\ UNCHANGED name
    /\ UNCHANGED <<parent, content, interfered, command, held, package, report, pipe>>

\* Faulty: the look is trusted, and the file takes the place of what is there.
FaultyReplace(p) ==
    /\ pc[p] = "create"
    /\ name' = [name EXCEPT ![Out(p)] = p]
    /\ ledger' = [ledger EXCEPT ![p] = TRUE]
    /\ Go(p, "write")
    /\ UNCHANGED <<parent, content, interfered, command, held, package, report, pipe>>

\* Exclusive creation, and the record of it.
CreateNew(p) ==
    /\ pc[p] = "create"
    /\ \/ /\ name[Out(p)] = Nobody
          /\ name' = [name EXCEPT ![Out(p)] = p]
          /\ ledger' = [ledger EXCEPT ![p] = TRUE]
          /\ Go(p, "write")
       \/ /\ name[Out(p)] # Nobody
          /\ Refuse(p, "output.exists") /\ UNCHANGED <<name, ledger>>
       \/ Refuse(p, "output.io") /\ UNCHANGED <<name, ledger>>
    /\ UNCHANGED <<parent, content, interfered, command, held, package, report, pipe>>

\* To the file that was created, under whatever name it has; a failure or a
\* crash leaves part of it.
Write(p) ==
    /\ pc[p] = "write"
    /\ \/ content' = [content EXCEPT ![p] = package[p]] /\ Go(p, "readback")
       \/ Refuse(p, "output.io") /\ UNCHANGED content
    /\ UNCHANGED <<parent, name, interfered, command, held, package, ledger, report, pipe>>

\* What the path names now, which is what a consumer would open.
ReadBack(p) ==
    /\ pc[p] = "readback"
    /\ ReadPath(p, Out(p), "check")
    /\ UNCHANGED <<files, command, package, ledger, report, pipe>>

\* Faulty: an image that reads is taken for a package, whatever its checks say.
FaultyCheck(p) ==
    /\ pc[p] = "check"
    /\ \/ /\ held[p] # "partial"
          /\ Go(p, IF Out(p) = Stdout THEN "deliver" ELSE "done")
       \/ held[p] = "partial" /\ Refuse(p, "internal.self_check_failed")
    /\ UNCHANGED <<files, command, held, package, ledger, report, pipe>>

\* The self-check, on what was read back or is about to be delivered.
Check(p) ==
    /\ pc[p] = "check"
    /\ \/ /\ held[p] = "package"
          /\ Go(p, IF Out(p) = Stdout THEN "deliver" ELSE "done")
       \/ held[p] # "package" /\ Refuse(p, "internal.self_check_failed")
    /\ UNCHANGED <<files, command, held, package, ledger, report, pipe>>

\* input::payload: a write that fails is not looked at.
Deliver(p) ==
    /\ pc[p] = "deliver"
    /\ \E carried \in {"nothing", "partial", package[p]} :
           pipe' = [pipe EXCEPT ![p] = carried]
    /\ Go(p, "done")
    /\ UNCHANGED <<files, command, held, package, ledger, report>>

\* Faulty: a failed self-check returns without the undo pass.
FaultyUndo(p) ==
    /\ pc[p] = "undo"
    /\ pc' = [pc EXCEPT ![p] = "refused"]
    /\ IF ledger[p] /\ code[p] # "internal.self_check_failed"
       THEN \/ /\ name[Out(p)] # Nobody
               /\ name' = [name EXCEPT ![Out(p)] = Nobody]
               /\ report' = [report EXCEPT ![p].removed = 1]
            \/ report' = [report EXCEPT ![p].left = 1] /\ UNCHANGED name
       ELSE UNCHANGED <<name, report>>
    /\ UNCHANGED <<parent, content, interfered, command, held, package, ledger, code, pipe>>

\* Ledger::undo_by_path removes what the path names, or counts it as left.
Undo(p) ==
    /\ pc[p] = "undo"
    /\ pc' = [pc EXCEPT ![p] = "refused"]
    /\ IF ledger[p]
       THEN \/ /\ name[Out(p)] # Nobody
               /\ name' = [name EXCEPT ![Out(p)] = Nobody]
               /\ report' = [report EXCEPT ![p].removed = 1]
            \/ report' = [report EXCEPT ![p].left = 1] /\ UNCHANGED name
       ELSE UNCHANGED <<name, report>>
    /\ UNCHANGED <<parent, content, interfered, command, held, package, ledger, code, pipe>>

-----------------------------------------------------------------------------
(* Around the runs.                                                        *)

Crash(p) ==
    /\ pc[p] \in Active
    /\ pc' = [pc EXCEPT ![p] = "crashed"]
    /\ UNCHANGED <<files, command, held, package, ledger, code, report, pipe>>

OthersPut(q) ==
    /\ parent[q] = "directory" /\ name[q] = Nobody
    /\ \E f \in Foreign :
          /\ \A s \in Path : name[s] # f
          /\ name' = [name EXCEPT ![q] = f]
    /\ UNCHANGED <<parent, content, interfered, command, pc, held, package, ledger,
                   code, report, pipe>>

OthersTake(q) ==
    /\ q \in Erasable /\ name[q] # Nobody
    /\ name' = [name EXCEPT ![q] = Nobody]
    /\ interfered' = interfered \cup {q}
    /\ UNCHANGED <<parent, content, command, pc, held, package, ledger, code,
                   report, pipe>>

Step(p) ==
    \/ Read(p) \/ Build(p) \/ Look(p) \/ CreateNew(p) \/ Write(p) \/ ReadBack(p)
    \/ Check(p) \/ Deliver(p) \/ Undo(p)

Next ==
    \/ \E p \in Process : Step(p) \/ Crash(p)
    \/ \E q \in Path : OthersPut(q) \/ OthersTake(q)

Spec == Init /\ [][Next]_vars

-----------------------------------------------------------------------------
(* What placing a package promises.                                        *)

\* Every variable holds a value of its kind.
TypeOK ==
    /\ parent \in [Path -> Parents]
    /\ name \in [Path -> File \cup {Nobody}]
    /\ content \in [File -> Content]
    /\ command \in [Process -> Command]
    /\ pc \in [Process -> Active \cup Ended]
    /\ held \in [Process -> Content \ {"huge"}]
    /\ package \in [Process -> {"partial", "package", "unsound"}]
    /\ ledger \in [Process -> BOOLEAN]
    /\ code \in [Process -> Code]
    /\ report \in [Process -> [removed : 0 .. 1, left : 0 .. 1]]
    /\ pipe \in [Process -> {"nothing", "partial", "package", "unsound"}]
    /\ interfered \subseteq Erasable

\* Nothing is ever overwritten (output.rs): a run writes in the file it created
\* only, and takes a path only when it is free.
NothingIsOverwritten ==
    [][ /\ \A f \in File :
              content'[f] # content[f] => f \in Process /\ pc[f] = "write"
        /\ \A q \in Path :
              name'[q] # name[q] => name[q] = Nobody \/ name'[q] = Nobody ]_vars

\* A run that reports success has its own checked package at its path, whoever
\* else wrote there, until someone takes it away (create.rs, place).
DoneIsDelivered ==
    \A p \in Process :
        pc[p] = "done" /\ Out(p) \in Path \ interfered =>
            name[Out(p)] = p /\ content[p] = "package"

\* What a refused run created is gone, unless its report says that it is left
\* (output.rs: "removes it again through the caller's Ledger").
RefusalIsAccounted ==
    \A p \in Process :
        pc[p] = "refused" /\ report[p].left = 0 => \A q \in Path : name[q] # p

\* The undo pass takes away what its own run created and nothing else, where
\* nobody took a file away before (cleanup.rs, Ledger::created).
UndoSparesOthers ==
    [][ \A q \in Path \ interfered' :
            name'[q] # name[q] /\ name'[q] = Nobody =>
                /\ name[q] \in Process
                /\ pc[name[q]] = "undo" /\ pc'[name[q]] = "refused" ]_vars

\* Standard output carries nothing of an image that did not check clean, and
\* nothing at all of a run that was refused (main.rs, refused_writing).
PipeCarriesPackages ==
    \A p \in Process :
        pipe[p] # "nothing" => package[p] = "package" /\ pc[p] = "done"
===============================================================================
