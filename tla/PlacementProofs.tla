--------------------------- MODULE PlacementProofs ---------------------------
(***************************************************************************)
(* Placing a package, for any number of runs, paths and other files: what  *)
(* is reported as done is delivered, what is refused is accounted for, and *)
(* no run takes or changes what is not its own.                            *)
(***************************************************************************)
EXTENDS Placement, TLAPS

\* What the place of a run in its program says of its ledger and its output.
Stage ==
    \A p \in Process :
        /\ pc[p] \in {"read", "build", "look", "create", "deliver"} => ~ledger[p]
        /\ pc[p] \in {"look", "create", "write", "readback"} => Out(p) \in Path
        /\ pc[p] \in {"write", "readback"} => ledger[p]
        /\ pc[p] \in {"check", "done"} /\ Out(p) \in Path => ledger[p]
        /\ pc[p] = "deliver" => Out(p) = Stdout
        /\ ledger[p] => Out(p) \in Path

\* A run's file has no name but the one it recorded.
NamedOnce ==
    \A p \in Process : \A q \in Path : name[q] = p => ledger[p] /\ q = Out(p)

\* Where nobody took a file away, what a run recorded is there until its undo
\* pass is over.
Placed ==
    \A p \in Process :
        ledger[p] /\ pc[p] # "refused" /\ Out(p) \notin interfered =>
            name[Out(p)] = p

\* The file holds the image once it is written, and the check is about the
\* file; what goes to standard output was checked as well.
Checked ==
    \A p \in Process :
        /\ pc[p] \in {"readback", "check", "done"} /\ Out(p) \in Path =>
              content[p] = package[p]
        /\ pc[p] = "check" /\ Out(p) \in Path \ interfered => held[p] = package[p]
        /\ pc[p] = "check" /\ Out(p) = Stdout => held[p] = package[p]
        /\ pc[p] = "deliver" => package[p] = "package"
        /\ pc[p] = "done" /\ Out(p) \in Path \ interfered => package[p] = "package"

IInv ==
    /\ TypeOK /\ Stage /\ NamedOnce /\ Placed /\ Checked
    /\ RefusalIsAccounted /\ PipeCarriesPackages
-----------------------------------------------------------------------------

USE CommandAssumption, FileAssumption DEF Source, Out, File

\* What a run starts from.
LEMMA InitIInv == Init => IInv
PROOF
<1> SUFFICES ASSUME Init PROVE IInv
  OBVIOUS
<1>1. TypeOK
  <2>1. /\ report \in [Process -> [removed : 0 .. 1, left : 0 .. 1]]
        /\ pc \in [Process -> Active \cup Ended] /\ code \in [Process -> Code]
    BY DEF Init, Active, Code
  <2>2. /\ parent \in [Path -> Parents] /\ name \in [Path -> File \cup {Nobody}]
        /\ content \in [File -> Content] /\ command \in [Process -> Command]
        /\ interfered \subseteq Erasable
    BY DEF Init
  <2> QED
    BY <2>1, <2>2 DEF Init, TypeOK, Content
<1>2. Stage /\ NamedOnce /\ Placed /\ Checked
  BY DEF Init, Stage, NamedOnce, Placed, Checked
<1>3. RefusalIsAccounted /\ PipeCarriesPackages
  BY DEF Init, RefusalIsAccounted, PipeCarriesPackages
<1> QED
  BY <1>1, <1>2, <1>3 DEF IInv

\* Reading a source disturbs nothing that was recorded.
LEMMA ReadIInv == ASSUME IInv, NEW r \in Process, Read(r) PROVE IInv'
PROOF
<1> USE DEF IInv, Read, ReadPath, Go, Refuse, files, InputCodes
<1>1. TypeOK'
  <2>1. pc' \in [Process -> Active \cup Ended]
    BY SMTT(60) DEF TypeOK, Active, Ended
  <2>2. code' \in [Process -> Code]
    BY ZenonT(30) DEF TypeOK, Code
  <2>3. report' \in [Process -> [removed : 0 .. 1, left : 0 .. 1]]
    BY DEF TypeOK
  <2>4. /\ parent' \in [Path -> Parents]
        /\ name' \in [Path -> File \cup {Nobody}]
        /\ content' \in [File -> Content]
        /\ command' \in [Process -> Command]
        /\ interfered' \subseteq Erasable
    BY DEF TypeOK, Content
  <2>5. /\ held' \in [Process -> Content \ {"huge"}]
        /\ package' \in [Process -> {"partial", "package", "unsound"}]
        /\ ledger' \in [Process -> BOOLEAN]
        /\ pipe' \in [Process -> {"nothing", "partial", "package", "unsound"}]
    BY SMTT(30) DEF TypeOK, Content
  <2> QED
    BY <2>1, <2>2, <2>3, <2>4, <2>5 DEF TypeOK
<1>2. Stage'
  BY DEF TypeOK, Stage, Active, Ended
<1>3. NamedOnce'
  BY DEF TypeOK, Stage, NamedOnce, Active, Ended
<1>4. Placed'
  BY DEF TypeOK, Stage, NamedOnce, Placed, Active, Ended
<1>5. Checked'
  BY DEF TypeOK, Stage, Placed, Checked, Active, Ended
<1>6. RefusalIsAccounted'
  BY DEF TypeOK, Stage, NamedOnce, RefusalIsAccounted, Active, Ended
<1>7. PipeCarriesPackages'
  BY DEF TypeOK, Stage, Checked, PipeCarriesPackages, Active, Ended
<1> QED
  BY <1>1, <1>2, <1>3, <1>4, <1>5, <1>6, <1>7

\* Building an image puts it in the buffer that is checked.
LEMMA BuildIInv == ASSUME IInv, NEW r \in Process, Build(r) PROVE IInv'
PROOF
<1> USE DEF IInv, Build, Go, Refuse, files, InputCodes
<1>1. TypeOK'
  <2>1. pc' \in [Process -> Active \cup Ended]
    BY SMTT(30) DEF TypeOK, Active, Ended
  <2>2. code' \in [Process -> Code]
    BY DEF TypeOK, Code
  <2>3. report' \in [Process -> [removed : 0 .. 1, left : 0 .. 1]]
    BY DEF TypeOK
  <2>4. /\ parent' \in [Path -> Parents]
        /\ name' \in [Path -> File \cup {Nobody}]
        /\ content' \in [File -> Content]
        /\ command' \in [Process -> Command]
        /\ interfered' \subseteq Erasable
    BY DEF TypeOK, Content
  <2>5. /\ held' \in [Process -> Content \ {"huge"}]
        /\ package' \in [Process -> {"partial", "package", "unsound"}]
        /\ ledger' \in [Process -> BOOLEAN]
        /\ pipe' \in [Process -> {"nothing", "partial", "package", "unsound"}]
    <3>1. held' \in [Process -> Content \ {"huge"}]
      BY DEF TypeOK, Content
    <3>2. package' \in [Process -> {"partial", "package", "unsound"}]
      BY DEF TypeOK
    <3>3. /\ ledger' \in [Process -> BOOLEAN]
          /\ pipe' \in [Process -> {"nothing", "partial", "package", "unsound"}]
      BY DEF TypeOK
    <3> QED
      BY <3>1, <3>2, <3>3
  <2> QED
    BY <2>1, <2>2, <2>3, <2>4, <2>5 DEF TypeOK
<1>2. Stage'
  BY DEF TypeOK, Stage, Active, Ended
<1>3. NamedOnce'
  BY DEF TypeOK, Stage, NamedOnce, Active, Ended
<1>4. Placed'
  BY DEF TypeOK, Stage, NamedOnce, Placed, Active, Ended
<1>5. Checked'
  BY DEF TypeOK, Stage, Placed, Checked, Active, Ended
<1>6. RefusalIsAccounted'
  BY DEF TypeOK, Stage, NamedOnce, RefusalIsAccounted, Active, Ended
<1>7. PipeCarriesPackages'
  BY DEF TypeOK, Stage, Checked, PipeCarriesPackages, Active, Ended
<1> QED
  BY <1>1, <1>2, <1>3, <1>4, <1>5, <1>6, <1>7

\* Looking changes nothing but the run's own place.
LEMMA LookIInv == ASSUME IInv, NEW r \in Process, Look(r) PROVE IInv'
PROOF
<1> USE DEF IInv, Look, LookCode, Parents, OutputCodes, Go, Refuse, files
<1>1. TypeOK'
  <2>1. pc' \in [Process -> Active \cup Ended]
    BY DEF TypeOK, Active, Ended
  <2>2. code' \in [Process -> Code]
    <3>1. LookCode(Out(r)) \in Code
      BY DEF TypeOK, Stage, Code
    <3> HIDE DEF LookCode
    <3> QED
      BY <3>1 DEF TypeOK, Code
  <2>3. report' \in [Process -> [removed : 0 .. 1, left : 0 .. 1]]
    BY DEF TypeOK
  <2>4. /\ parent' \in [Path -> Parents]
        /\ name' \in [Path -> File \cup {Nobody}]
        /\ content' \in [File -> Content]
        /\ command' \in [Process -> Command]
        /\ interfered' \subseteq Erasable
    BY DEF TypeOK, Content
  <2>5. /\ held' \in [Process -> Content \ {"huge"}]
        /\ package' \in [Process -> {"partial", "package", "unsound"}]
        /\ ledger' \in [Process -> BOOLEAN]
        /\ pipe' \in [Process -> {"nothing", "partial", "package", "unsound"}]
    BY DEF TypeOK, Content
  <2> QED
    BY <2>1, <2>2, <2>3, <2>4, <2>5 DEF TypeOK
<1>2. Stage'
  BY DEF TypeOK, Stage, Active, Ended
<1>3. NamedOnce'
  BY DEF TypeOK, Stage, NamedOnce, Active, Ended
<1>4. Placed'
  BY DEF TypeOK, Stage, NamedOnce, Placed, Active, Ended
<1>5. Checked'
  BY DEF TypeOK, Stage, Placed, Checked, Active, Ended
<1>6. RefusalIsAccounted'
  BY DEF TypeOK, Stage, NamedOnce, RefusalIsAccounted, Active, Ended
<1>7. PipeCarriesPackages'
  BY DEF TypeOK, Stage, Checked, PipeCarriesPackages, Active, Ended
<1> QED
  BY <1>1, <1>2, <1>3, <1>4, <1>5, <1>6, <1>7

\* Exclusive creation gives the new file its one name, which nobody else had
\* recorded.
LEMMA CreateNewIInv == ASSUME IInv, NEW r \in Process, CreateNew(r) PROVE IInv'
PROOF
<1> USE DEF IInv, CreateNew, Go, Refuse, OutputCodes
<1>1. TypeOK'
  <2>1. pc' \in [Process -> Active \cup Ended]
    BY SMTT(30) DEF TypeOK, Active, Ended
  <2>2. code' \in [Process -> Code]
    BY DEF TypeOK, Code
  <2>3. report' \in [Process -> [removed : 0 .. 1, left : 0 .. 1]]
    BY DEF TypeOK
  <2>4. /\ parent' \in [Path -> Parents]
        /\ name' \in [Path -> File \cup {Nobody}]
        /\ content' \in [File -> Content]
        /\ command' \in [Process -> Command]
        /\ interfered' \subseteq Erasable
    BY SMTT(30) DEF TypeOK, Content
  <2>5. /\ held' \in [Process -> Content \ {"huge"}]
        /\ package' \in [Process -> {"partial", "package", "unsound"}]
        /\ ledger' \in [Process -> BOOLEAN]
        /\ pipe' \in [Process -> {"nothing", "partial", "package", "unsound"}]
    BY DEF TypeOK, Content
  <2> QED
    BY <2>1, <2>2, <2>3, <2>4, <2>5 DEF TypeOK
<1>2. Stage'
  BY DEF TypeOK, Stage, Active, Ended
<1>3. NamedOnce'
  BY DEF TypeOK, Stage, NamedOnce, Active, Ended
<1>4. Placed'
  BY DEF TypeOK, Stage, NamedOnce, Placed, Active, Ended
<1>5. Checked'
  BY DEF TypeOK, Stage, Placed, Checked, Active, Ended
<1>6. RefusalIsAccounted'
  BY DEF TypeOK, Stage, NamedOnce, RefusalIsAccounted, Active, Ended
<1>7. PipeCarriesPackages'
  BY DEF TypeOK, Stage, Checked, PipeCarriesPackages, Active, Ended
<1> QED
  BY <1>1, <1>2, <1>3, <1>4, <1>5, <1>6, <1>7

\* The image goes to the run's own file.
LEMMA WriteIInv == ASSUME IInv, NEW r \in Process, Write(r) PROVE IInv'
PROOF
<1> USE DEF IInv, Write, Go, Refuse, OutputCodes
<1>1. TypeOK'
  <2>1. pc' \in [Process -> Active \cup Ended]
    BY SMTT(60) DEF TypeOK, Active, Ended
  <2>2. code' \in [Process -> Code]
    BY DEF TypeOK, Code
  <2>3. report' \in [Process -> [removed : 0 .. 1, left : 0 .. 1]]
    BY DEF TypeOK
  <2>4. /\ parent' \in [Path -> Parents]
        /\ name' \in [Path -> File \cup {Nobody}]
        /\ content' \in [File -> Content]
        /\ command' \in [Process -> Command]
        /\ interfered' \subseteq Erasable
    BY DEF TypeOK, Content
  <2>5. /\ held' \in [Process -> Content \ {"huge"}]
        /\ package' \in [Process -> {"partial", "package", "unsound"}]
        /\ ledger' \in [Process -> BOOLEAN]
        /\ pipe' \in [Process -> {"nothing", "partial", "package", "unsound"}]
    BY DEF TypeOK, Content
  <2> QED
    BY <2>1, <2>2, <2>3, <2>4, <2>5 DEF TypeOK
<1>2. Stage'
  BY DEF TypeOK, Stage, Active, Ended
<1>3. NamedOnce'
  BY DEF TypeOK, Stage, NamedOnce, Active, Ended
<1>4. Placed'
  BY DEF TypeOK, Stage, NamedOnce, Placed, Active, Ended
<1>5. Checked'
  BY DEF TypeOK, Stage, Placed, Checked, Active, Ended
<1>6. RefusalIsAccounted'
  BY SMTT(60) DEF TypeOK, Stage, NamedOnce, RefusalIsAccounted, Active, Ended
<1>7. PipeCarriesPackages'
  BY DEF TypeOK, Stage, Checked, PipeCarriesPackages, Active, Ended
<1> QED
  BY <1>1, <1>2, <1>3, <1>4, <1>5, <1>6, <1>7

\* What is read back is the run's own file.
LEMMA ReadBackIInv == ASSUME IInv, NEW r \in Process, ReadBack(r) PROVE IInv'
PROOF
<1> USE DEF IInv, ReadBack, ReadPath, Go, Refuse, files, InputCodes
<1>1. TypeOK'
  <2>1. pc' \in [Process -> Active \cup Ended]
    BY SMTT(30) DEF TypeOK, Active, Ended
  <2>2. code' \in [Process -> Code]
    BY DEF TypeOK, Code
  <2>3. report' \in [Process -> [removed : 0 .. 1, left : 0 .. 1]]
    BY DEF TypeOK
  <2>4. /\ parent' \in [Path -> Parents]
        /\ name' \in [Path -> File \cup {Nobody}]
        /\ content' \in [File -> Content]
        /\ command' \in [Process -> Command]
        /\ interfered' \subseteq Erasable
    BY DEF TypeOK, Content
  <2>5. /\ held' \in [Process -> Content \ {"huge"}]
        /\ package' \in [Process -> {"partial", "package", "unsound"}]
        /\ ledger' \in [Process -> BOOLEAN]
        /\ pipe' \in [Process -> {"nothing", "partial", "package", "unsound"}]
    <3>1. held' \in [Process -> Content \ {"huge"}]
      <4>1. CASE held' = held
        BY <4>1 DEF TypeOK
      <4>2. CASE /\ name[Out(r)] # Nobody /\ content[name[Out(r)]] # "huge"
                 /\ held' = [held EXCEPT ![r] = content[name[Out(r)]]]
        <5>1. name[Out(r)] \in File
          BY <4>2 DEF TypeOK, Stage
        <5>2. content[name[Out(r)]] \in Content
          BY <5>1 DEF TypeOK
        <5> QED
          BY <4>2, <5>2 DEF TypeOK
      <4> QED
        BY <4>1, <4>2
    <3>2. package' \in [Process -> {"partial", "package", "unsound"}]
      BY DEF TypeOK
    <3>3. /\ ledger' \in [Process -> BOOLEAN]
          /\ pipe' \in [Process -> {"nothing", "partial", "package", "unsound"}]
      BY DEF TypeOK
    <3> QED
      BY <3>1, <3>2, <3>3
  <2> QED
    BY <2>1, <2>2, <2>3, <2>4, <2>5 DEF TypeOK
<1>2. Stage'
  BY DEF TypeOK, Stage, Active, Ended
<1>3. NamedOnce'
  BY DEF TypeOK, Stage, NamedOnce, Active, Ended
<1>4. Placed'
  BY DEF TypeOK, Stage, NamedOnce, Placed, Active, Ended
<1>5. Checked'
  BY SMTT(60) DEF TypeOK, Stage, Placed, Checked, Active, Ended
<1>6. RefusalIsAccounted'
  BY DEF TypeOK, Stage, NamedOnce, RefusalIsAccounted, Active, Ended
<1>7. PipeCarriesPackages'
  BY DEF TypeOK, Stage, Checked, PipeCarriesPackages, Active, Ended
<1> QED
  BY <1>1, <1>2, <1>3, <1>4, <1>5, <1>6, <1>7

\* Only a clean image passes.
LEMMA CheckIInv == ASSUME IInv, NEW r \in Process, Check(r) PROVE IInv'
PROOF
<1> USE DEF IInv, Check, Go, Refuse, files
<1>1. TypeOK'
  <2>1. pc' \in [Process -> Active \cup Ended]
    BY DEF TypeOK, Active, Ended
  <2>2. code' \in [Process -> Code]
    BY DEF TypeOK, Code
  <2>3. report' \in [Process -> [removed : 0 .. 1, left : 0 .. 1]]
    BY DEF TypeOK
  <2>4. /\ parent' \in [Path -> Parents]
        /\ name' \in [Path -> File \cup {Nobody}]
        /\ content' \in [File -> Content]
        /\ command' \in [Process -> Command]
        /\ interfered' \subseteq Erasable
    BY DEF TypeOK, Content
  <2>5. /\ held' \in [Process -> Content \ {"huge"}]
        /\ package' \in [Process -> {"partial", "package", "unsound"}]
        /\ ledger' \in [Process -> BOOLEAN]
        /\ pipe' \in [Process -> {"nothing", "partial", "package", "unsound"}]
    BY DEF TypeOK, Content
  <2> QED
    BY <2>1, <2>2, <2>3, <2>4, <2>5 DEF TypeOK
<1>2. Stage'
  BY DEF TypeOK, Stage, Active, Ended
<1>3. NamedOnce'
  BY DEF TypeOK, Stage, NamedOnce, Active, Ended
<1>4. Placed'
  BY DEF TypeOK, Stage, NamedOnce, Placed, Active, Ended
<1>5. Checked'
  BY DEF TypeOK, Stage, Placed, Checked, Active, Ended
<1>6. RefusalIsAccounted'
  BY DEF TypeOK, Stage, NamedOnce, RefusalIsAccounted, Active, Ended
<1>7. PipeCarriesPackages'
  BY DEF TypeOK, Stage, Checked, PipeCarriesPackages, Active, Ended
<1> QED
  BY <1>1, <1>2, <1>3, <1>4, <1>5, <1>6, <1>7

\* Only a checked image is delivered.
LEMMA DeliverIInv == ASSUME IInv, NEW r \in Process, Deliver(r) PROVE IInv'
PROOF
<1> USE DEF IInv, Deliver, Go, files
<1>1. TypeOK'
  <2>1. pc' \in [Process -> Active \cup Ended]
    BY DEF TypeOK, Active, Ended
  <2>2. code' \in [Process -> Code]
    BY DEF TypeOK, Code
  <2>3. report' \in [Process -> [removed : 0 .. 1, left : 0 .. 1]]
    BY DEF TypeOK
  <2>4. /\ parent' \in [Path -> Parents]
        /\ name' \in [Path -> File \cup {Nobody}]
        /\ content' \in [File -> Content]
        /\ command' \in [Process -> Command]
        /\ interfered' \subseteq Erasable
    BY DEF TypeOK, Content
  <2>5. /\ held' \in [Process -> Content \ {"huge"}]
        /\ package' \in [Process -> {"partial", "package", "unsound"}]
        /\ ledger' \in [Process -> BOOLEAN]
        /\ pipe' \in [Process -> {"nothing", "partial", "package", "unsound"}]
    BY SMTT(30) DEF TypeOK, Content
  <2> QED
    BY <2>1, <2>2, <2>3, <2>4, <2>5 DEF TypeOK
<1>2. Stage'
  BY DEF TypeOK, Stage, Active, Ended
<1>3. NamedOnce'
  BY DEF TypeOK, Stage, NamedOnce, Active, Ended
<1>4. Placed'
  BY DEF TypeOK, Stage, NamedOnce, Placed, Active, Ended
<1>5. Checked'
  BY DEF TypeOK, Stage, Placed, Checked, Active, Ended
<1>6. RefusalIsAccounted'
  BY DEF TypeOK, Stage, NamedOnce, RefusalIsAccounted, Active, Ended
<1>7. PipeCarriesPackages'
  BY DEF TypeOK, Stage, Checked, PipeCarriesPackages, Active, Ended
<1> QED
  BY <1>1, <1>2, <1>3, <1>4, <1>5, <1>6, <1>7

\* A run that was not interfered with removes its own file's name.
LEMMA UndoIInv == ASSUME IInv, NEW r \in Process, Undo(r) PROVE IInv'
PROOF
<1> USE DEF IInv, Undo
<1>1. TypeOK'
  <2>1. pc' \in [Process -> Active \cup Ended]
    BY DEF TypeOK, Active, Ended
  <2>2. code' \in [Process -> Code]
    BY DEF TypeOK, Code
  <2>3. report' \in [Process -> [removed : 0 .. 1, left : 0 .. 1]]
    <3>1. \/ report' = report
          \/ \E n \in [removed : 0 .. 1, left : 0 .. 1] :
                report' = [report EXCEPT ![r] = n]
      BY SMTT(30) DEF TypeOK
    <3> QED
      BY <3>1 DEF TypeOK
  <2>4. /\ parent' \in [Path -> Parents]
        /\ name' \in [Path -> File \cup {Nobody}]
        /\ content' \in [File -> Content]
        /\ command' \in [Process -> Command]
        /\ interfered' \subseteq Erasable
    BY DEF TypeOK, Content
  <2>5. /\ held' \in [Process -> Content \ {"huge"}]
        /\ package' \in [Process -> {"partial", "package", "unsound"}]
        /\ ledger' \in [Process -> BOOLEAN]
        /\ pipe' \in [Process -> {"nothing", "partial", "package", "unsound"}]
    BY DEF TypeOK, Content
  <2> QED
    BY <2>1, <2>2, <2>3, <2>4, <2>5 DEF TypeOK
<1>2. Stage'
  BY DEF TypeOK, Stage, Active, Ended
<1>3. NamedOnce'
  BY DEF TypeOK, Stage, NamedOnce, Active, Ended
<1>4. Placed'
  BY DEF TypeOK, Stage, NamedOnce, Placed, Active, Ended
<1>5. Checked'
  BY DEF TypeOK, Stage, Placed, Checked, Active, Ended
<1>6. RefusalIsAccounted'
  BY SMTT(30) DEF TypeOK, Stage, NamedOnce, RefusalIsAccounted, Active, Ended
<1>7. PipeCarriesPackages'
  BY DEF TypeOK, Stage, Checked, PipeCarriesPackages, Active, Ended
<1> QED
  BY <1>1, <1>2, <1>3, <1>4, <1>5, <1>6, <1>7

\* A crash leaves everything where it is.
LEMMA CrashIInv == ASSUME IInv, NEW r \in Process, Crash(r) PROVE IInv'
PROOF
<1> USE DEF IInv, Crash, files, Ended
<1>1. TypeOK'
  <2>1. pc' \in [Process -> Active \cup Ended]
    BY DEF TypeOK, Active, Ended
  <2>2. code' \in [Process -> Code]
    BY DEF TypeOK, Code
  <2>3. report' \in [Process -> [removed : 0 .. 1, left : 0 .. 1]]
    BY DEF TypeOK
  <2>4. /\ parent' \in [Path -> Parents]
        /\ name' \in [Path -> File \cup {Nobody}]
        /\ content' \in [File -> Content]
        /\ command' \in [Process -> Command]
        /\ interfered' \subseteq Erasable
    BY DEF TypeOK, Content
  <2>5. /\ held' \in [Process -> Content \ {"huge"}]
        /\ package' \in [Process -> {"partial", "package", "unsound"}]
        /\ ledger' \in [Process -> BOOLEAN]
        /\ pipe' \in [Process -> {"nothing", "partial", "package", "unsound"}]
    BY DEF TypeOK, Content
  <2> QED
    BY <2>1, <2>2, <2>3, <2>4, <2>5 DEF TypeOK
<1>2. Stage'
  BY DEF TypeOK, Stage, Active, Ended
<1>3. NamedOnce'
  BY DEF TypeOK, Stage, NamedOnce, Active, Ended
<1>4. Placed'
  BY DEF TypeOK, Stage, NamedOnce, Placed, Active, Ended
<1>5. Checked'
  BY DEF TypeOK, Stage, Placed, Checked, Active, Ended
<1>6. RefusalIsAccounted'
  BY DEF TypeOK, Stage, NamedOnce, RefusalIsAccounted, Active, Ended
<1>7. PipeCarriesPackages'
  BY DEF TypeOK, Stage, Checked, PipeCarriesPackages, Active, Ended
<1> QED
  BY <1>1, <1>2, <1>3, <1>4, <1>5, <1>6, <1>7

\* Others take free paths only, or leave a trace of their interference.
LEMMA OthersIInv ==
    ASSUME IInv, NEW q \in Path, OthersPut(q) \/ OthersTake(q) PROVE IInv'
PROOF
<1> USE DEF IInv, OthersPut, OthersTake
<1>1. TypeOK'
  BY DEF TypeOK
<1>2. Stage' /\ NamedOnce'
  BY DEF TypeOK, Stage, NamedOnce
<1>3. Placed'
  BY DEF TypeOK, Stage, Placed
<1>4. Checked'
  BY DEF TypeOK, Stage, Checked
<1>5. RefusalIsAccounted' /\ PipeCarriesPackages'
  BY DEF TypeOK, RefusalIsAccounted, PipeCarriesPackages
<1> QED
  BY <1>1, <1>2, <1>3, <1>4, <1>5

LEMMA NextIInv == IInv /\ [Next]_vars => IInv'
PROOF
<1> SUFFICES ASSUME IInv, [Next]_vars PROVE IInv'
  OBVIOUS
<1>1. CASE UNCHANGED vars
  BY <1>1 DEF vars, files, IInv, TypeOK, Stage, NamedOnce, Placed, Checked,
     RefusalIsAccounted, PipeCarriesPackages
<1>2. ASSUME NEW r \in Process, Step(r) \/ Crash(r) PROVE IInv'
  BY <1>2, ReadIInv, BuildIInv, LookIInv, CreateNewIInv, WriteIInv, ReadBackIInv,
     CheckIInv, DeliverIInv, UndoIInv, CrashIInv DEF Step
<1>3. ASSUME NEW q \in Path, OthersPut(q) \/ OthersTake(q) PROVE IInv'
  BY <1>3, OthersIInv
<1> QED
  BY <1>1, <1>2, <1>3 DEF Next

LEMMA Invariant == Spec => []IInv
PROOF
BY InitIInv, NextIInv, PTL DEF Spec

\* Every variable holds a value of its kind: what a run reads, builds and
\* delivers, and what its report counts.
THEOREM TypeCorrect == Spec => []TypeOK
PROOF
BY Invariant, PTL DEF IInv

\* A run that reports success has its own checked package at its path, until
\* someone takes it away.
THEOREM SuccessIsDelivered == Spec => []DoneIsDelivered
PROOF
<1>1. IInv => DoneIsDelivered
  BY DEF IInv, TypeOK, Stage, Placed, Checked, DoneIsDelivered
<1> QED
  BY <1>1, Invariant, PTL

\* What a refused run created is gone or is reported as left.
THEOREM RefusalsAreAccounted == Spec => []RefusalIsAccounted
PROOF
BY Invariant, PTL DEF IInv

\* Standard output carries checked packages only, and nothing of a refused run.
THEOREM PipesCarryPackages == Spec => []PipeCarriesPackages
PROOF
BY Invariant, PTL DEF IInv

\* No file is written but by the run that created it, and no path is taken that
\* is not free.
THEOREM NoOverwriting == Spec => NothingIsOverwritten
PROOF
<1> DEFINE Kept ==
      /\ \A f \in File : content'[f] # content[f] => f \in Process /\ pc[f] = "write"
      /\ \A q \in Path : name'[q] # name[q] => name[q] = Nobody \/ name'[q] = Nobody
<1>1. IInv /\ [Next]_vars => [Kept]_vars
  <2> SUFFICES ASSUME IInv, Next PROVE Kept
    OBVIOUS
  <2> USE DEF IInv, TypeOK
  <2>1. ASSUME NEW r \in Process, Step(r) \/ Crash(r) PROVE Kept
    BY <2>1 DEF Step, Read, Build, Look, CreateNew, Write, ReadBack, Check, Deliver,
       Undo, Crash, files
  <2>2. ASSUME NEW q \in Path, OthersPut(q) \/ OthersTake(q) PROVE Kept
    BY <2>2 DEF OthersPut, OthersTake
  <2> QED
    BY <2>1, <2>2 DEF Next
<1> QED
  BY <1>1, Invariant, PTL DEF Spec, NothingIsOverwritten

\* Where nobody took a file away, only the undo pass of its own run does.
THEOREM UndoIsOwn == Spec => UndoSparesOthers
PROOF
<1> DEFINE Spared ==
      \A q \in Path \ interfered' :
          name'[q] # name[q] /\ name'[q] = Nobody =>
              /\ name[q] \in Process
              /\ pc[name[q]] = "undo" /\ pc'[name[q]] = "refused"
<1>1. IInv /\ [Next]_vars => [Spared]_vars
  <2> SUFFICES ASSUME IInv, Next PROVE Spared
    OBVIOUS
  <2> USE DEF IInv, TypeOK
  <2>1. ASSUME NEW r \in Process, Undo(r) PROVE Spared
    BY <2>1 DEF Undo, Stage, Placed
  <2>2. ASSUME NEW r \in Process, (Step(r) /\ ~Undo(r)) \/ Crash(r) PROVE Spared
    BY <2>2 DEF Step, Read, Build, Look, CreateNew, Write, ReadBack, Check, Deliver,
       Crash, files
  <2>3. ASSUME NEW q \in Path, OthersPut(q) \/ OthersTake(q) PROVE Spared
    BY <2>3 DEF OthersPut, OthersTake
  <2> QED
    BY <2>1, <2>2, <2>3 DEF Next
<1> QED
  BY <1>1, Invariant, PTL DEF Spec, UndoSparesOthers

===============================================================================
