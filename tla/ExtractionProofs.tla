--------------------------- MODULE ExtractionProofs ---------------------------
(***************************************************************************)
(* Theorems about Extraction, for any number of runs, any packages, any    *)
(* tree of paths and anything found in it.                                 *)
(*                                                                         *)
(* The second half is about a tree from which nobody but the runs removes  *)
(* anything: there the ledger is exact, its newest record can be taken     *)
(* back, the report of a failed run is exact, what a run reported done     *)
(* stays whole, and Extraction implements ExclusiveOutput, step by step.   *)
(***************************************************************************)
EXTENDS ExtractionRefinement, FiniteSetTheorems, TLAPS

-----------------------------------------------------------------------------
(* Sequences.                                                              *)

LEMMA FrontFacts ==
    ASSUME NEW S, NEW s \in Seq(S), s # <<>>
    PROVE  /\ Len(s) \in Nat \ {0}
           /\ Front(s) \in Seq(S)
           /\ Len(Front(s)) = Len(s) - 1
           /\ \A i \in 1 .. Len(s) - 1 : Front(s)[i] = s[i]
           /\ Last(s) = s[Len(s)] /\ Last(s) \in S
<1>1. Len(s) \in Nat \ {0}
  OBVIOUS
<1>2. Front(s) = [i \in 1 .. Len(s) - 1 |-> s[i]]
  BY <1>1 DEF Front
<1>3. Front(s) \in Seq(S) /\ Len(Front(s)) = Len(s) - 1
  BY <1>1, <1>2
<1>4. Last(s) = s[Len(s)] /\ Last(s) \in S
  BY <1>1 DEF Last
<1> QED
  BY <1>1, <1>2, <1>3, <1>4

LEMMA AppendFacts ==
    ASSUME NEW S, NEW s \in Seq(S), NEW e \in S
    PROVE  /\ Append(s, e) \in Seq(S)
           /\ Len(Append(s, e)) = Len(s) + 1
           /\ \A i \in 1 .. Len(s) : Append(s, e)[i] = s[i]
           /\ Append(s, e)[Len(s) + 1] = e
           /\ Append(s, e) # <<>>
OBVIOUS

\* The parent of a path below the destination is a path of the model.
LEMMA ParentIsPath ==
    ASSUME NEW p \in Path, p # <<>>
    PROVE  Parent(p) \in Path
<1>1. p \in Seq(UNION {ToSet(q) : q \in Path})
  BY PathAssumption
<1>2. Len(p) \in Nat \ {0}
  BY <1>1
<1>3. Parent(p) = SubSeq(p, 1, Len(p) - 1)
  BY DEF Parent, Front
<1>4. Len(p) - 1 \in 0 .. Len(p) - 1
  BY <1>2
<1>5. Parent(p) \in Ancestors(p)
  BY <1>3, <1>4 DEF Ancestors
<1> QED
  BY <1>5, PathAssumption

-----------------------------------------------------------------------------
(* The inductive invariant behind mutual exclusion.                        *)

\* A run inside a loop's body is at an item of that loop.
InLoop ==
    \A r \in Run :
        /\ pc[r] = "recheck" => at[r] \in DOMAIN Directories[r]
        /\ pc[r] = "write" => at[r] \in DOMAIN Files[r]

\* Nothing is recorded before the marker, and the marker is recorded first.
LedgerShape ==
    \A r \in Run :
        /\ pc[r] \in Looking => ledger[r] = <<>>
        /\ pc[r] \in Writing => ledger[r] # <<>>
        /\ Holding(r) =>
              /\ ledger[r][1] = [path |-> Marker, kind |-> "file"]
              /\ \A i \in 2 .. Len(ledger[r]) : ledger[r][i].path # Marker

\* Who has something to undo has the marker in the destination.
Lock ==
    \A r \in Run : Holding(r) => fs[Marker].kind = "file" /\ fs[Marker].by = r

IInv == TypeOK /\ InLoop /\ LedgerShape /\ Lock

\* The initial state of every destination satisfies the invariant.
LEMMA InitIInv == Init => IInv
<1> SUFFICES ASSUME Init PROVE IInv
  OBVIOUS
<1>1. fs \in [Path -> Object]
  BY FoundAssumption DEF Init, Object
<1>2. pc \in [Run -> Looking \cup Writing \cup {"undo"} \cup Ended]
  BY DEF Init, Looking
<1>3. /\ at \in [Run -> Nat \ {0}]
      /\ ledger \in [Run -> Seq(Record)]
      /\ removed \in [Run -> Nat] /\ left \in [Run -> Nat]
      /\ taken \subseteq Run \X Path
  <2>1. <<>> \in Seq(Record)
    OBVIOUS
  <2>2. 1 \in Nat \ {0} /\ 0 \in Nat
    OBVIOUS
  <2> QED
    BY <2>1, <2>2 DEF Init
<1>4. code \in [Run -> Code]
  BY DEF Init, Code
<1>5. TypeOK
  BY <1>1, <1>2, <1>3, <1>4 DEF TypeOK
<1>6. InLoop /\ LedgerShape /\ Lock
  BY DEF Init, InLoop, LedgerShape, Lock, Holding, Looking, Writing
<1> QED
  BY <1>5, <1>6 DEF IInv

\* Every code a step sets is one of Code.
LEMMA CodeFacts ==
    /\ {"extract.refused", "output.exists", "output.partial_marker_present",
        "archive.refused", "output.io"} \subseteq Code
    /\ \A o \in Object : o.kind # "directory" =>
          DestinationCode[o.kind] \in Code /\ ObstacleCode[o.kind] \in Code
    /\ TypeOK => \A q \in Path : WalkCodes(q) \subseteq Code
<1>1. {"extract.refused", "output.exists", "output.partial_marker_present",
        "archive.refused", "output.io"} \subseteq Code
  BY DEF Code, BeforeWriting
<1>2. ASSUME NEW o \in Object, o.kind # "directory"
      PROVE  DestinationCode[o.kind] \in Code /\ ObstacleCode[o.kind] \in Code
  <2>1. o.kind \in {"absent", "file", "link"}
    BY <1>2 DEF Object, Kind
  <2> QED
    BY <2>1 DEF Code, BeforeWriting, DestinationCode, ObstacleCode
<1>3. ASSUME TypeOK, NEW q \in Path
      PROVE  WalkCodes(q) \subseteq Code
  <2>1. \A b \in Ancestors(q) \cup {q} : fs[b] \in Object
    BY <1>3, PathAssumption DEF TypeOK
  <2> QED
    BY <1>1, <1>2, <2>1 DEF WalkCodes, IsDirectory
<1> QED
  BY <1>1, <1>2, <1>3

\* The looks a run takes before its first write change nothing but itself.
LEMMA LookingIInv ==
    ASSUME IInv, NEW r \in Run,
           \/ Plan(r) \/ PreflightDestination(r) \/ PreflightMarker(r)
           \/ PreflightNames(r) \/ PreflightPath(r) \/ PreflightEnds(r)
           \/ OpenRoot(r)
    PROVE  IInv'
<1>1. /\ UNCHANGED <<fs, ledger, counts, taken>>
      /\ pc[r] \in Looking
      /\ \E next \in Looking \cup {"refused"} : pc' = [pc EXCEPT ![r] = next]
      /\ at' = at \/ Advance(r) \/ Restart(r)
  BY DEF Plan, PreflightDestination, PreflightMarker, PreflightNames,
         PreflightPath, PreflightEnds, OpenRoot, Go, Refuse, Looking, counts
<1>2. at' \in [Run -> Nat \ {0}]
  <2>1. CASE at' = at
    BY <2>1 DEF IInv, TypeOK
  <2>2. CASE Advance(r)
    BY <2>2 DEF IInv, TypeOK, Advance
  <2>3. CASE Restart(r)
    BY <2>3 DEF IInv, TypeOK, Restart
  <2> QED
    BY <1>1, <2>1, <2>2, <2>3
<1>3. code' \in [Run -> Code]
  <2>1. code' = code \/ \E c \in Code : Refuse(r, c)
    <3>1. <<>> \in Path /\ Marker \in Path
      BY PathAssumption
    <3>2. CASE Plan(r)
      BY <3>2, CodeFacts DEF Plan, Go
    <3>3. CASE PreflightDestination(r)
      BY <3>1, <3>3, CodeFacts DEF PreflightDestination, Go, IsDirectory, IInv, TypeOK
    <3>4. CASE PreflightMarker(r)
      BY <3>4, CodeFacts DEF PreflightMarker, Go
    <3>5. CASE PreflightNames(r)
      BY <3>5, CodeFacts DEF PreflightNames, Go
    <3>6. CASE PreflightPath(r)
      <4>1. Files[r][at[r]] \in Path
        BY <3>6, PlanAssumption DEF PreflightPath
      <4>2. Ancestors(Files[r][at[r]]) \subseteq Path
        BY <4>1, PathAssumption
      <4>3. \A q \in Blocked(Files[r][at[r]]) : ObstacleCode[fs[q].kind] \in Code
        BY <4>2, CodeFacts DEF Blocked, IsDirectory, IInv, TypeOK
      <4> QED
        BY <3>6, <4>3, CodeFacts DEF PreflightPath, Go
    <3>7. CASE PreflightEnds(r)
      BY <3>7 DEF PreflightEnds, Go
    <3>8. CASE OpenRoot(r)
      <4>1. RootCodes \subseteq Code
        <5>1. fs[<<>>] \in Object
          BY <3>1 DEF IInv, TypeOK
        <5>2. \A k \in {fs[<<>>].kind} \ {"directory"} : ObstacleCode[k] \in Code
          BY <5>1, CodeFacts
        <5>3. ObstacleCode["file"] \in Code
          BY DEF ObstacleCode, Code
        <5> QED
          BY <5>2, <5>3, CodeFacts DEF RootCodes
      <4> QED
        BY <3>8, <4>1 DEF OpenRoot, Go
    <3> QED
      BY <3>2, <3>3, <3>4, <3>5, <3>6, <3>7, <3>8
  <2> QED
    BY <2>1 DEF Refuse, IInv, TypeOK
<1>4. TypeOK'
  BY <1>1, <1>2, <1>3 DEF IInv, TypeOK, Looking, Ended, counts
<1>5. \A s \in Run \ {r} : pc'[s] = pc[s] /\ at'[s] = at[s]
  BY <1>1 DEF IInv, TypeOK, Advance, Restart
<1>6. pc'[r] \notin Writing \cup {"undo"} /\ ledger'[r] = <<>>
  BY <1>1 DEF IInv, TypeOK, LedgerShape, Looking, Writing
<1>7. InLoop'
  BY <1>5, <1>6 DEF IInv, InLoop, Writing
<1>8. LedgerShape' /\ Lock'
  BY <1>1, <1>5, <1>6 DEF IInv, LedgerShape, Lock, Holding, Looking, Writing
<1> QED
  BY <1>4, <1>7, <1>8 DEF IInv

-----------------------------------------------------------------------------
(* The steps that create, one at a time.                                   *)

\* Recording a creation keeps the ledger a sequence of records.
LEMMA RecordFacts ==
    ASSUME TypeOK, NEW r \in Run, NEW p \in Path, NEW kind \in {"file", "directory"},
           RecordCreation(r, p, kind)
    PROVE  /\ ledger' \in [Run -> Seq(Record)]
           /\ \A s \in Run \ {r} : ledger'[s] = ledger[s]
           /\ ledger'[r] = Append(ledger[r], [path |-> p, kind |-> kind])
           /\ ledger'[r] # <<>>
           /\ Len(ledger'[r]) = Len(ledger[r]) + 1
           /\ \A i \in 1 .. Len(ledger[r]) : ledger'[r][i] = ledger[r][i]
           /\ ledger'[r][Len(ledger[r]) + 1] = [path |-> p, kind |-> kind]
<1>1. [path |-> p, kind |-> kind] \in Record
  BY DEF Record
<1>2. ledger[r] \in Seq(Record)
  BY DEF TypeOK
<1>3. ledger'[r] = Append(ledger[r], [path |-> p, kind |-> kind])
  BY DEF TypeOK, RecordCreation
<1>4. Append(ledger[r], [path |-> p, kind |-> kind]) \in Seq(Record)
  BY <1>1, <1>2, AppendFacts
<1>5. ledger' \in [Run -> Seq(Record)]
  BY <1>4 DEF TypeOK, RecordCreation
<1>6. \A s \in Run \ {r} : ledger'[s] = ledger[s]
  BY DEF TypeOK, RecordCreation
<1> QED
  BY <1>1, <1>2, <1>3, <1>5, <1>6, AppendFacts

LEMMA CreateMarkerIInv ==
    ASSUME IInv, NEW r \in Run, CreateMarker(r)
    PROVE  IInv'
<1>1. Marker \in Path
  BY PathAssumption
<1>2. pc[r] = "mark" /\ ledger[r] = <<>>
  BY DEF CreateMarker, IInv, LedgerShape, Looking
<1>3. CASE /\ ~Present(Marker)
           /\ fs' = [fs EXCEPT ![Marker] = Made(r, "file")]
           /\ RecordCreation(r, Marker, "file")
           /\ Go(r, "directories")
  <2>1. fs' \in [Path -> Object]
    BY <1>1, <1>3 DEF IInv, TypeOK, Object, Made, Kind
  <2>2. /\ ledger' \in [Run -> Seq(Record)]
        /\ \A s \in Run \ {r} : ledger'[s] = ledger[s] /\ pc'[s] = pc[s]
        /\ Len(ledger'[r]) = 1 /\ ledger'[r] # <<>>
        /\ ledger'[r][1] = [path |-> Marker, kind |-> "file"]
    <3>1. TypeOK /\ Len(ledger[r]) = 0
      BY <1>2 DEF IInv
    <3>2. /\ ledger' \in [Run -> Seq(Record)]
          /\ \A s \in Run \ {r} : ledger'[s] = ledger[s]
          /\ ledger'[r] # <<>>
          /\ Len(ledger'[r]) = Len(ledger[r]) + 1
          /\ ledger'[r][Len(ledger[r]) + 1] = [path |-> Marker, kind |-> "file"]
      BY <1>1, <1>3, <3>1, RecordFacts
    <3>3. \A s \in Run \ {r} : pc'[s] = pc[s]
      BY <1>3 DEF Go, IInv, TypeOK
    <3> QED
      BY <3>1, <3>2, <3>3
  <2>3. TypeOK'
    BY <1>3, <2>1, <2>2 DEF IInv, TypeOK, Go, CreateMarker, counts, Writing
  <2>4. \A s \in Run \ {r} : ~Holding(s)
    BY <1>3 DEF IInv, Lock, Present
  <2>5. pc'[r] = "directories" /\ at' = at
    BY <1>3 DEF IInv, TypeOK, Go, CreateMarker
  <2>6. InLoop'
    BY <2>2, <2>5 DEF IInv, InLoop
  <2>7. LedgerShape'
    BY <2>2, <2>4, <2>5 DEF IInv, LedgerShape, Holding, Looking, Writing
  <2>8. Lock'
    BY <1>1, <1>3, <2>2, <2>4 DEF IInv, TypeOK, Lock, Holding, Made
  <2> QED
    BY <2>3, <2>6, <2>7, <2>8 DEF IInv
<1>4. CASE /\ \E c \in {"output.partial_marker_present", "output.io"} : Fail(r, c)
           /\ UNCHANGED <<fs, ledger>>
  <2>1. TypeOK'
    BY <1>4, CodeFacts DEF IInv, TypeOK, Fail, CreateMarker, counts
  <2>2. /\ pc'[r] = "undo" /\ ledger'[r] = <<>> /\ at' = at
        /\ \A s \in Run \ {r} : pc'[s] = pc[s]
    BY <1>2, <1>4 DEF IInv, TypeOK, Fail, CreateMarker
  <2>3. InLoop' /\ LedgerShape' /\ Lock'
    BY <1>4, <2>2 DEF IInv, InLoop, LedgerShape, Lock, Holding, Looking, Writing
  <2> QED
    BY <2>1, <2>3 DEF IInv
<1> QED
  BY <1>3, <1>4 DEF CreateMarker

\* A directory or a file created by the run that holds the marker.
LEMMA CreationIInv ==
    ASSUME IInv, NEW r \in Run, pc[r] \in {"directories", "files"},
           NEW p \in Path, ~Present(p), NEW kind \in {"file", "directory"},
           fs' = [fs EXCEPT ![p] = Made(r, kind)],
           RecordCreation(r, p, kind)
    PROVE  /\ fs' \in [Path -> Object]
           /\ ledger' \in [Run -> Seq(Record)]
           /\ fs'[Marker] = fs[Marker]
           /\ \A s \in Run \ {r} : ledger'[s] = ledger[s]
           /\ ledger'[r] # <<>> /\ ledger'[r][1] = ledger[r][1]
           /\ \A i \in 2 .. Len(ledger'[r]) : ledger'[r][i].path # Marker
<1>1. Holding(r)
  BY DEF IInv, LedgerShape, Holding, Writing
<1>2. p # Marker
  BY <1>1 DEF IInv, Lock, Present
<1>3. fs' \in [Path -> Object] /\ fs'[Marker] = fs[Marker]
  BY <1>2, PathAssumption DEF IInv, TypeOK, Object, Made, Kind
<1>4. Len(ledger[r]) \in Nat \ {0}
  BY <1>1 DEF IInv, TypeOK, Holding
<1>5. /\ ledger' \in [Run -> Seq(Record)]
      /\ \A s \in Run \ {r} : ledger'[s] = ledger[s]
      /\ ledger'[r] # <<>>
      /\ Len(ledger'[r]) = Len(ledger[r]) + 1
      /\ \A i \in 1 .. Len(ledger[r]) : ledger'[r][i] = ledger[r][i]
      /\ ledger'[r][Len(ledger[r]) + 1] = [path |-> p, kind |-> kind]
  BY RecordFacts DEF IInv
<1>6. \A i \in 2 .. Len(ledger'[r]) : ledger'[r][i].path # Marker
  BY <1>1, <1>2, <1>4, <1>5 DEF IInv, LedgerShape
<1> QED
  BY <1>3, <1>4, <1>5, <1>6

\* The invariant's other parts, for a run that stays in the writing half or
\* goes to its undo pass, whatever it created on the way.
LEMMA WritingIInv ==
    ASSUME IInv, NEW r \in Run, pc[r] \in Writing,
           TypeOK',
           fs'[Marker].kind = fs[Marker].kind, fs'[Marker].by = fs[Marker].by,
           \A s \in Run \ {r} :
               pc'[s] = pc[s] /\ at'[s] = at[s] /\ ledger'[s] = ledger[s],
           pc'[r] \in Writing \cup {"undo"},
           pc'[r] = "recheck" => at'[r] \in DOMAIN Directories[r],
           pc'[r] = "write" => at'[r] \in DOMAIN Files[r],
           ledger'[r] # <<>>, ledger'[r][1] = ledger[r][1],
           \A i \in 2 .. Len(ledger'[r]) : ledger'[r][i].path # Marker
    PROVE  IInv'
<1>1. Holding(r) /\ pc'[r] \notin Looking
  BY DEF IInv, LedgerShape, Holding, Writing, Looking
<1>2. InLoop'
  BY DEF IInv, InLoop
<1>3. LedgerShape'
  BY <1>1 DEF IInv, LedgerShape, Holding
<1>4. Lock'
  BY <1>1 DEF IInv, Lock, Holding
<1> QED
  BY <1>2, <1>3, <1>4 DEF IInv

LEMMA MakeDirectoryIInv ==
    ASSUME IInv, NEW r \in Run, MakeDirectory(r)
    PROVE  IInv'
<1> DEFINE p == Directories[r][at[r]]
<1>1. pc[r] = "directories" /\ at[r] \in DOMAIN Directories[r]
  BY DEF MakeDirectory
<1>2. p \in Path /\ p # <<>> /\ Parent(p) \in Path
  BY <1>1, PlanAssumption, ParentIsPath
<1>3. Holding(r)
  BY <1>1 DEF IInv, LedgerShape, Holding, Writing
<1>4. CASE /\ ~Present(p)
           /\ fs' = [fs EXCEPT ![p] = Made(r, "directory")]
           /\ RecordCreation(r, p, "directory")
           /\ Go(r, "directories") /\ Advance(r)
  <2>1. /\ fs' \in [Path -> Object] /\ ledger' \in [Run -> Seq(Record)]
        /\ fs'[Marker] = fs[Marker]
        /\ \A s \in Run \ {r} : ledger'[s] = ledger[s]
        /\ ledger'[r] # <<>> /\ ledger'[r][1] = ledger[r][1]
        /\ \A i \in 2 .. Len(ledger'[r]) : ledger'[r][i].path # Marker
    BY <1>1, <1>2, <1>4, CreationIInv
  <2>2. at' \in [Run -> Nat \ {0}]
    BY <1>4 DEF IInv, TypeOK, Advance
  <2>3. TypeOK'
    BY <1>4, <2>1, <2>2 DEF IInv, TypeOK, Go, MakeDirectory, counts, Writing
  <2>4. /\ pc'[r] = "directories"
        /\ \A s \in Run \ {r} : pc'[s] = pc[s] /\ at'[s] = at[s]
    BY <1>4 DEF IInv, TypeOK, Go, Advance
  <2> QED
    BY <1>1, <2>1, <2>3, <2>4, WritingIInv DEF Writing
<1>5. CASE Go(r, "recheck") /\ UNCHANGED <<fs, at, ledger>>
  <2>1. TypeOK'
    BY <1>5 DEF IInv, TypeOK, Go, MakeDirectory, counts, Writing
  <2>2. pc'[r] = "recheck" /\ \A s \in Run \ {r} : pc'[s] = pc[s]
    BY <1>5 DEF IInv, TypeOK, Go
  <2> QED
    BY <1>1, <1>3, <1>5, <2>1, <2>2, WritingIInv DEF Writing, IInv, LedgerShape, Holding
<1>6. CASE /\ \E c \in WalkCodes(Parent(p)) : Fail(r, c)
           /\ UNCHANGED <<fs, at, ledger>>
  <2>1. TypeOK'
    BY <1>2, <1>6, CodeFacts DEF IInv, TypeOK, Fail, MakeDirectory, counts
  <2>2. pc'[r] = "undo" /\ \A s \in Run \ {r} : pc'[s] = pc[s]
    BY <1>6 DEF IInv, TypeOK, Fail
  <2> QED
    BY <1>1, <1>3, <1>6, <2>1, <2>2, WritingIInv DEF Writing, IInv, LedgerShape, Holding
<1> QED
  BY <1>4, <1>5, <1>6 DEF MakeDirectory

LEMMA AcceptDirectoryIInv ==
    ASSUME IInv, NEW r \in Run, AcceptDirectory(r)
    PROVE  IInv'
<1> DEFINE p == Directories[r][at[r]]
<1>1. pc[r] = "recheck" /\ at[r] \in DOMAIN Directories[r]
  BY DEF AcceptDirectory, IInv, InLoop
<1>2. p \in Path
  BY <1>1, PlanAssumption
<1>3. Holding(r) /\ UNCHANGED <<fs, ledger, counts, taken>>
  BY <1>1 DEF IInv, LedgerShape, Holding, Writing, AcceptDirectory
<1>4. CASE Go(r, "directories") /\ Advance(r)
  <2>1. at' \in [Run -> Nat \ {0}]
    BY <1>4 DEF IInv, TypeOK, Advance
  <2>2. TypeOK'
    BY <1>3, <1>4, <2>1 DEF IInv, TypeOK, Go, counts, Writing
  <2>3. /\ pc'[r] = "directories"
        /\ \A s \in Run \ {r} : pc'[s] = pc[s] /\ at'[s] = at[s]
    BY <1>4 DEF IInv, TypeOK, Go, Advance
  <2> QED
    BY <1>1, <1>3, <2>2, <2>3, WritingIInv DEF Writing, IInv, LedgerShape, Holding
<1>5. CASE (\E c \in WalkCodes(p) : Fail(r, c)) /\ UNCHANGED at
  <2>1. TypeOK'
    BY <1>2, <1>3, <1>5, CodeFacts DEF IInv, TypeOK, Fail, counts
  <2>2. pc'[r] = "undo" /\ \A s \in Run \ {r} : pc'[s] = pc[s]
    BY <1>5 DEF IInv, TypeOK, Fail
  <2> QED
    BY <1>1, <1>3, <1>5, <2>1, <2>2, WritingIInv DEF Writing, IInv, LedgerShape, Holding
<1> QED
  BY <1>4, <1>5 DEF AcceptDirectory

LEMMA CreateFileIInv ==
    ASSUME IInv, NEW r \in Run, CreateFile(r)
    PROVE  IInv'
<1> DEFINE f == Files[r][at[r]]
<1>1. pc[r] = "files" /\ at[r] \in DOMAIN Files[r] /\ UNCHANGED <<at, counts, taken>>
  BY DEF CreateFile
<1>2. f \in Path /\ f # <<>> /\ Parent(f) \in Path
  BY <1>1, PlanAssumption, ParentIsPath
<1>3. Holding(r)
  BY <1>1 DEF IInv, LedgerShape, Holding, Writing
<1>4. CASE /\ ~Present(f)
           /\ fs' = [fs EXCEPT ![f] = Made(r, "file")]
           /\ RecordCreation(r, f, "file")
           /\ Go(r, "write")
  <2>1. /\ fs' \in [Path -> Object] /\ ledger' \in [Run -> Seq(Record)]
        /\ fs'[Marker] = fs[Marker]
        /\ \A s \in Run \ {r} : ledger'[s] = ledger[s]
        /\ ledger'[r] # <<>> /\ ledger'[r][1] = ledger[r][1]
        /\ \A i \in 2 .. Len(ledger'[r]) : ledger'[r][i].path # Marker
    BY <1>1, <1>2, <1>4, CreationIInv
  <2>2. TypeOK'
    BY <1>1, <1>4, <2>1 DEF IInv, TypeOK, Go, counts, Writing
  <2>3. pc'[r] = "write" /\ \A s \in Run \ {r} : pc'[s] = pc[s]
    BY <1>4 DEF IInv, TypeOK, Go
  <2> QED
    BY <1>1, <2>1, <2>2, <2>3, WritingIInv DEF Writing
<1>5. CASE /\ \E c \in {"archive.refused"} \cup WalkCodes(Parent(f)) : Fail(r, c)
           /\ UNCHANGED <<fs, ledger>>
  <2>1. TypeOK'
    BY <1>1, <1>2, <1>5, CodeFacts DEF IInv, TypeOK, Fail, counts
  <2>2. pc'[r] = "undo" /\ \A s \in Run \ {r} : pc'[s] = pc[s]
    BY <1>5 DEF IInv, TypeOK, Fail
  <2> QED
    BY <1>1, <1>3, <1>5, <2>1, <2>2, WritingIInv DEF Writing, IInv, LedgerShape, Holding
<1> QED
  BY <1>4, <1>5 DEF CreateFile

LEMMA WriteFileIInv ==
    ASSUME IInv, NEW r \in Run, WriteFile(r)
    PROVE  IInv'
<1> DEFINE f == Files[r][at[r]]
<1>1. /\ pc[r] = "write" /\ at[r] \in DOMAIN Files[r]
      /\ UNCHANGED <<ledger, counts, taken>>
  BY DEF WriteFile, IInv, InLoop
<1>2. f \in Path
  BY <1>1, PlanAssumption
<1>3. Holding(r)
  BY <1>1 DEF IInv, LedgerShape, Holding, Writing
<1>4. CASE /\ fs' = IF fs[f].by = r THEN [fs EXCEPT ![f].full = TRUE] ELSE fs
           /\ Go(r, "files") /\ Advance(r)
  <2>1. /\ fs' \in [Path -> Object]
        /\ \A q \in Path : fs'[q].kind = fs[q].kind /\ fs'[q].by = fs[q].by
    BY ZenonT(30), <1>2, <1>4 DEF IInv, TypeOK, Object
  <2>2. at' \in [Run -> Nat \ {0}]
    BY <1>4 DEF IInv, TypeOK, Advance
  <2>3. TypeOK'
    BY <1>1, <1>4, <2>1, <2>2 DEF IInv, TypeOK, Go, counts, Writing
  <2>4. /\ pc'[r] = "files"
        /\ \A s \in Run \ {r} : pc'[s] = pc[s] /\ at'[s] = at[s]
    BY <1>4 DEF IInv, TypeOK, Go, Advance
  <2> QED
    BY <1>1, <1>3, <2>1, <2>3, <2>4, PathAssumption, WritingIInv
       DEF Writing, IInv, LedgerShape, Holding
<1>5. CASE Fail(r, "output.io") /\ UNCHANGED <<fs, at>>
  <2>1. TypeOK'
    BY <1>1, <1>5, CodeFacts DEF IInv, TypeOK, Fail, counts
  <2>2. pc'[r] = "undo" /\ \A s \in Run \ {r} : pc'[s] = pc[s]
    BY <1>5 DEF IInv, TypeOK, Fail
  <2> QED
    BY <1>1, <1>3, <1>5, <2>1, <2>2, WritingIInv DEF Writing, IInv, LedgerShape, Holding
<1> QED
  BY <1>4, <1>5 DEF WriteFile

\* The two loops end.
LEMMA LoopEndIInv ==
    ASSUME IInv, NEW r \in Run, DirectoriesEnd(r) \/ FilesEnd(r)
    PROVE  IInv'
<1>1. /\ UNCHANGED <<fs, ledger, counts, taken>>
      /\ pc[r] \in Writing
      /\ Go(r, "files") \/ Go(r, "unmark")
      /\ at' = at \/ Restart(r)
  BY DEF DirectoriesEnd, FilesEnd, Writing
<1>2. at' \in [Run -> Nat \ {0}]
  <2>1. CASE at' = at
    BY <2>1 DEF IInv, TypeOK
  <2>2. CASE Restart(r)
    BY <2>2 DEF IInv, TypeOK, Restart
  <2> QED
    BY <1>1, <2>1, <2>2
<1>3. TypeOK'
  BY <1>1, <1>2 DEF IInv, TypeOK, Go, counts, Writing
<1>4. /\ pc'[r] \in {"files", "unmark"}
      /\ \A s \in Run \ {r} : pc'[s] = pc[s] /\ at'[s] = at[s]
  BY <1>1 DEF IInv, TypeOK, Go, Restart
<1>5. Holding(r)
  BY <1>1 DEF IInv, LedgerShape, Holding
<1> QED
  BY <1>1, <1>3, <1>4, <1>5, WritingIInv DEF Writing, IInv, LedgerShape, Holding

-----------------------------------------------------------------------------
(* The steps that remove.                                                  *)

\* A step that ends a run, or takes away only what no holder's marker is,
\* leaves the other holders theirs.
LEMMA OthersIInv ==
    ASSUME IInv, NEW r \in Run,
           TypeOK', at' = at,
           \A s \in Run \ {r} : pc'[s] = pc[s] /\ ledger'[s] = ledger[s],
           \A s \in Run \ {r} : Holding(s) =>
               fs'[Marker].kind = "file" /\ fs'[Marker].by = s,
           pc'[r] \in Ended
    PROVE  IInv'
<1>1. ~(Holding(r)') /\ pc'[r] \notin Looking \cup Writing
  BY DEF Holding, Ended, Looking, Writing
<1>2. InLoop'
  BY DEF IInv, InLoop, Ended
<1>3. LedgerShape'
  BY <1>1 DEF IInv, LedgerShape, Holding
<1>4. Lock'
  BY <1>1 DEF IInv, Lock, Holding
<1> QED
  BY <1>2, <1>3, <1>4 DEF IInv

LEMMA RemoveMarkerIInv ==
    ASSUME IInv, NEW r \in Run, RemoveMarker(r)
    PROVE  IInv'
<1>1. pc[r] = "unmark" /\ UNCHANGED <<at, counts, taken>> /\ Marker \in Path
  BY PathAssumption DEF RemoveMarker
<1>2. Holding(r)
  BY <1>1 DEF IInv, LedgerShape, Holding, Writing
<1>3. \A s \in Run \ {r} : ~Holding(s)
  BY <1>2 DEF IInv, Lock
<1>4. CASE /\ fs' = [fs EXCEPT ![Marker] = Nothing]
           /\ Withdraw(r, 1)
           /\ Go(r, "done")
  <2>1. fs' \in [Path -> Object]
    BY <1>4 DEF IInv, TypeOK, Object, Nothing, Kind
  <2>2. ledger[r] \in Seq(Record) /\ 1 \in 1 .. Len(ledger[r])
    BY <1>2 DEF IInv, TypeOK, Holding
  <2>3. [ledger[r][1] EXCEPT !.kind = "withdrawn"] \in Record
    <3>1. ledger[r][1] = [path |-> Marker, kind |-> "file"]
      BY <1>2 DEF IInv, LedgerShape
    <3>2. [ledger[r][1] EXCEPT !.kind = "withdrawn"]
             = [path |-> Marker, kind |-> "withdrawn"]
      BY <3>1
    <3> QED
      BY <1>1, <3>2 DEF Record
  <2>4. [ledger[r] EXCEPT ![1].kind = "withdrawn"] \in Seq(Record)
    <3>1. [ledger[r] EXCEPT ![1].kind = "withdrawn"]
             = [i \in 1 .. Len(ledger[r]) |->
                   IF i = 1 THEN [ledger[r][1] EXCEPT !.kind = "withdrawn"]
                            ELSE ledger[r][i]]
      BY <2>2
    <3> QED
      BY <2>2, <2>3, <3>1
  <2>5. ledger' \in [Run -> Seq(Record)]
    BY <1>4, <2>4 DEF IInv, TypeOK, Withdraw
  <2>6. \A s \in Run \ {r} : pc'[s] = pc[s] /\ ledger'[s] = ledger[s]
    BY <1>4 DEF IInv, TypeOK, Withdraw, Go
  <2>7. TypeOK'
    BY <1>1, <1>4, <2>1, <2>5 DEF IInv, TypeOK, Go, counts, Ended
  <2>8. pc'[r] \in Ended
    BY <1>4 DEF IInv, TypeOK, Go, Ended
  <2> QED
    BY <1>1, <1>3, <2>6, <2>7, <2>8, OthersIInv
<1>5. CASE Fail(r, "output.io") /\ UNCHANGED <<fs, ledger>>
  <2>1. TypeOK'
    BY <1>1, <1>5, CodeFacts DEF IInv, TypeOK, Fail, counts
  <2>2. pc'[r] = "undo" /\ \A s \in Run \ {r} : pc'[s] = pc[s]
    BY <1>5 DEF IInv, TypeOK, Fail
  <2> QED
    BY <1>1, <1>2, <1>5, <2>1, <2>2, WritingIInv DEF Writing, IInv, LedgerShape, Holding
<1> QED
  BY <1>4, <1>5 DEF RemoveMarker

LEMMA UndoNewestIInv ==
    ASSUME IInv, NEW r \in Run, UndoNewest(r)
    PROVE  IInv'
<1> DEFINE newest == Last(ledger[r])
<1>1. /\ pc[r] = "undo" /\ ledger[r] # <<>> /\ ledger[r] \in Seq(Record)
      /\ ledger' = [ledger EXCEPT ![r] = Front(@)]
      /\ UNCHANGED <<pc, at, code, taken>>
  BY DEF UndoNewest, IInv, TypeOK
<1>2. Holding(r)
  BY <1>1 DEF Holding
<1>3. \A s \in Run \ {r} : ~Holding(s)
  BY <1>2 DEF IInv, Lock
<1>4. /\ Len(ledger[r]) \in Nat \ {0}
      /\ Front(ledger[r]) \in Seq(Record)
      /\ Len(Front(ledger[r])) = Len(ledger[r]) - 1
      /\ \A i \in 1 .. Len(ledger[r]) - 1 : Front(ledger[r])[i] = ledger[r][i]
      /\ newest = ledger[r][Len(ledger[r])] /\ newest \in Record
  BY <1>1, FrontFacts
<1>5. /\ ledger' \in [Run -> Seq(Record)]
      /\ ledger'[r] = Front(ledger[r])
      /\ \A s \in Run \ {r} : ledger'[s] = ledger[s]
  BY <1>1, <1>4 DEF IInv, TypeOK
<1>6. newest.path \in Path
  BY <1>4 DEF Record
<1>7. /\ fs' \in [Path -> Object]
      /\ removed' \in [Run -> Nat] /\ left' \in [Run -> Nat]
      /\ fs' = fs \/ fs' = [fs EXCEPT ![newest.path] = Nothing]
  <2>1. CASE /\ fs' = [fs EXCEPT ![newest.path] = Nothing]
             /\ removed' = [removed EXCEPT ![r] = @ + 1]
             /\ UNCHANGED left
    BY <1>6, <2>1 DEF IInv, TypeOK, Object, Nothing, Kind
  <2>2. CASE /\ left' = [left EXCEPT ![r] = @ + 1]
             /\ UNCHANGED <<fs, removed>>
    BY <2>2 DEF IInv, TypeOK
  <2> QED
    BY <2>1, <2>2 DEF UndoNewest
<1>8. TypeOK'
  BY <1>1, <1>5, <1>7 DEF IInv, TypeOK
<1>9. InLoop'
  BY <1>1 DEF IInv, InLoop
<1>10. \A s \in Run \ {r} : ~(Holding(s)')
  BY <1>1, <1>3, <1>5 DEF Holding
<1>11. CASE Len(ledger[r]) = 1
  <2>1. ~(Holding(r)')
    BY <1>4, <1>5, <1>11 DEF Holding
  <2>2. LedgerShape' /\ Lock'
    BY <1>1, <1>3, <1>5, <1>10, <2>1
       DEF IInv, LedgerShape, Lock, Looking, Writing
  <2> QED
    BY <1>8, <1>9, <2>2 DEF IInv
<1>12. CASE Len(ledger[r]) # 1
  <2>1. Len(ledger[r]) - 1 \in Nat \ {0} /\ Len(ledger[r]) \in 2 .. Len(ledger[r])
    <3>1. \A n \in Nat \ {0} : n # 1 => n - 1 \in Nat \ {0} /\ n \in 2 .. n
      OBVIOUS
    <3>2. Len(ledger[r]) \in Nat \ {0}
      BY <1>4
    <3> QED
      BY <1>12, <3>1, <3>2
  <2>2. newest.path # Marker
    BY <1>2, <1>4, <2>1 DEF IInv, LedgerShape
  <2>3. fs'[Marker] = fs[Marker]
    BY <1>7, <2>2, PathAssumption DEF IInv, TypeOK
  <2>4. /\ ledger'[r][1] = ledger[r][1]
        /\ \A i \in 2 .. Len(ledger'[r]) : ledger'[r][i].path # Marker
    <3>1. /\ ledger'[r] = Front(ledger[r])
          /\ Len(ledger'[r]) = Len(ledger[r]) - 1
          /\ \A i \in 1 .. Len(ledger[r]) - 1 : ledger'[r][i] = ledger[r][i]
      BY <1>4, <1>5
    <3>2. 1 \in 1 .. Len(ledger[r]) - 1
      BY <2>1
    <3>3. \A i \in 2 .. Len(ledger[r]) - 1 :
              i \in 1 .. Len(ledger[r]) - 1 /\ i \in 2 .. Len(ledger[r])
      BY <2>1
    <3>4. \A i \in 2 .. Len(ledger[r]) : ledger[r][i].path # Marker
      BY <1>2 DEF IInv, LedgerShape
    <3> QED
      BY <3>1, <3>2, <3>3, <3>4
  <2>5. LedgerShape'
    BY <1>1, <1>2, <1>5, <1>10, <2>4 DEF IInv, LedgerShape, Looking, Writing
  <2>6. Lock'
    BY <1>2, <1>10, <2>3 DEF IInv, Lock
  <2> QED
    BY <1>8, <1>9, <2>5, <2>6 DEF IInv
<1> QED
  BY <1>11, <1>12

LEMMA EndIInv ==
    ASSUME IInv, NEW r \in Run, UndoEnds(r) \/ Crash(r)
    PROVE  IInv'
<1>1. /\ UNCHANGED <<fs, at, ledger, counts, taken>>
      /\ Go(r, "refused") \/ Go(r, "crashed")
  BY DEF UndoEnds, Crash
<1>2. TypeOK'
  BY <1>1 DEF IInv, TypeOK, Go, counts, Ended
<1>3. pc'[r] \in Ended /\ \A s \in Run \ {r} : pc'[s] = pc[s]
  BY <1>1 DEF IInv, TypeOK, Go, Ended
<1> QED
  BY <1>1, <1>2, <1>3, OthersIInv DEF IInv, Lock

\* What a person and a stranger do leaves a live run's marker alone.
LEMMA OutsideIInv ==
    ASSUME IInv, ClearMarker \/ StrangerCreates \/ StrangerRemoves
    PROVE  IInv'
<1>1. UNCHANGED <<pc, at, ledger, code, counts>> /\ Marker \in Path
  BY PathAssumption DEF ClearMarker, StrangerCreates, StrangerRemoves
<1>2. /\ fs' \in [Path -> Object]
      /\ taken' \subseteq Run \X Path
      /\ \A s \in Run : Holding(s) => fs'[Marker] = fs[Marker]
  <2>1. CASE ClearMarker
    <3>1. /\ fs' = [fs EXCEPT ![Marker] = Nothing]
          /\ taken' = taken \cup ({fs[Marker].by} \cap Run) \X {Marker}
          /\ fs[Marker].by \in Run => pc[fs[Marker].by] \in Ended
      BY <2>1 DEF ClearMarker, TakeAway
    <3>2. \A s \in Run : ~Holding(s)
      BY <3>1 DEF IInv, Lock, Holding, Ended, Writing
    <3>3. taken' \subseteq Run \X Path
      BY <1>1, <3>1 DEF IInv, TypeOK
    <3> QED
      BY <3>1, <3>2, <3>3 DEF IInv, TypeOK, Object, Nothing, Kind
  <2>2. CASE StrangerCreates
    <3>1. PICK new \in Plantable :
              ~Present(new.path) /\ fs' = [fs EXCEPT ![new.path] = Made(Stranger, new.kind)]
      BY <2>2 DEF StrangerCreates
    <3>2. new.path \in Path /\ new.kind \in Kind
      BY StrangerActsAssumption
    <3>3. fs' \in [Path -> Object]
      BY <3>1, <3>2 DEF IInv, TypeOK, Object, Made
    <3>4. \A s \in Run : Holding(s) => fs'[Marker] = fs[Marker]
      BY <1>1, <3>1, <3>2 DEF IInv, TypeOK, Lock, Present
    <3> QED
      BY <2>2, <3>3, <3>4 DEF StrangerCreates, IInv, TypeOK
  <2>3. CASE StrangerRemoves
    <3>1. PICK p \in Erasable :
              /\ fs' = [fs EXCEPT ![p] = Nothing]
              /\ taken' = taken \cup ({fs[p].by} \cap Run) \X {p}
      BY <2>3 DEF StrangerRemoves, TakeAway
    <3>2. p \in Path /\ p # Marker
      BY StrangerActsAssumption
    <3>3. taken' \subseteq Run \X Path
      BY <3>1, <3>2 DEF IInv, TypeOK
    <3> QED
      BY <1>1, <3>1, <3>2, <3>3 DEF IInv, TypeOK, Object, Nothing, Kind
  <2> QED
    BY <2>1, <2>2, <2>3
<1>3. TypeOK'
  BY <1>1, <1>2 DEF IInv, TypeOK, counts
<1>4. InLoop' /\ LedgerShape' /\ Lock'
  BY <1>1, <1>2 DEF IInv, InLoop, LedgerShape, Lock, Holding
<1> QED
  BY <1>3, <1>4 DEF IInv

-----------------------------------------------------------------------------
(* The theorems.                                                           *)

\* Every step of the system keeps the invariant.
LEMMA NextIInv == IInv /\ [Next]_vars => IInv'
<1> SUFFICES ASSUME IInv, [Next]_vars PROVE IInv'
  OBVIOUS
<1>1. CASE UNCHANGED vars
  BY <1>1 DEF vars, IInv, TypeOK, InLoop, LedgerShape, Lock, Holding
<1>2. ASSUME NEW r \in Run, Step(r) PROVE IInv'
  BY <1>2, LookingIInv, CreateMarkerIInv, MakeDirectoryIInv, AcceptDirectoryIInv,
     LoopEndIInv, CreateFileIInv, WriteFileIInv, RemoveMarkerIInv,
     UndoNewestIInv, EndIInv DEF Step
<1>3. ASSUME NEW r \in Run, Crash(r) PROVE IInv'
  BY <1>3, EndIInv
<1>4. CASE ClearMarker \/ StrangerCreates \/ StrangerRemoves
  BY <1>4, OutsideIInv
<1> QED
  BY <1>1, <1>2, <1>3, <1>4 DEF Next

THEOREM Invariant == Spec => []IInv
  BY InitIInv, NextIInv, PTL DEF Spec

\* Every variable always holds a value of its kind, and every failure has one
\* of the stable codes.
THEOREM TypeCorrect == Spec => []TypeOK
<1>1. IInv => TypeOK
  BY DEF IInv
<1> QED
  BY <1>1, Invariant, PTL

\* Two runs are never at work in one destination at the same time: with the
\* exclusive creation of the marker, the undo pass in reverse order is what
\* keeps the marker until the last record.
THEOREM MutualExclusion == Spec => []OneWriter
<1>1. IInv => OneWriter
  BY DEF IInv, Lock, OneWriter
<1> QED
  BY <1>1, Invariant, PTL

-----------------------------------------------------------------------------
(* A run touches its own work only: the action property OnlyOwnWork, for   *)
(* every instance in which a stranger does not put a thing of its own      *)
(* where it has removed a run's.  The undo pass removes by path, so the    *)
(* assumption cannot be dropped.                                           *)

NoReplacement == \A new \in Plantable : new.path \notin Erasable

\* What a holder's ledger names is the holder's, or has been removed by
\* someone else; and no path is named twice, unless it was removed between.
Own ==
    \A r \in Run : Holding(r) =>
        /\ \A i \in DOMAIN ledger[r] :
              IF fs[ledger[r][i].path].kind = "absent"
              THEN ledger[r][i].path \in Erasable
              ELSE fs[ledger[r][i].path].by = r
        /\ \A i, j \in DOMAIN ledger[r] :
              i # j /\ ledger[r][i].path = ledger[r][j].path =>
                  ledger[r][i].path \in Erasable

OInv == IInv /\ Own

\* There is one holder, so the part of Own about all others is about none.
LEMMA OneHolder ==
    ASSUME IInv, NEW r \in Run, Holding(r)
    PROVE  \A s \in Run \ {r} : ~Holding(s)
BY DEF IInv, Lock

\* Every record of a ledger is of a path of the model.
LEMMA RecordedPath ==
    ASSUME IInv, NEW r \in Run, NEW i \in DOMAIN ledger[r]
    PROVE  ledger[r][i] \in Record /\ ledger[r][i].path \in Path
<1>1. ledger[r] \in Seq(Record)
  BY DEF IInv, TypeOK
<1>2. ledger[r][i] \in Record
  BY <1>1
<1> QED
  BY <1>2 DEF Record

\* A step after which a run holds only what it held before, over the same
\* objects, keeps Own.
LEMMA SameOwn ==
    ASSUME OInv,
           \A s \in Run : Holding(s)' => Holding(s) /\ ledger'[s] = ledger[s],
           \A q \in Path : fs'[q].kind = fs[q].kind /\ fs'[q].by = fs[q].by
    PROVE  Own'
<1> SUFFICES ASSUME NEW s \in Run, Holding(s)'
             PROVE  /\ \A i \in DOMAIN ledger'[s] :
                          IF fs'[ledger'[s][i].path].kind = "absent"
                          THEN ledger'[s][i].path \in Erasable
                          ELSE fs'[ledger'[s][i].path].by = s
                    /\ \A i, j \in DOMAIN ledger'[s] :
                          i # j /\ ledger'[s][i].path = ledger'[s][j].path =>
                              ledger'[s][i].path \in Erasable
  BY Zenon DEF Own
<1>1. Holding(s) /\ ledger'[s] = ledger[s]
  OBVIOUS
<1>2. \A i \in DOMAIN ledger[s] : ledger[s][i].path \in Path
  BY RecordedPath DEF OInv
<1> QED
  BY <1>1, <1>2 DEF OInv, Own

\* A run that creates where nothing was, and records it, owns it.
LEMMA CreationOwn ==
    ASSUME OInv, NEW r \in Run, NEW p \in Path, NEW kind \in {"file", "directory"},
           Holding(r) \/ (ledger[r] = <<>> /\ \A s \in Run : ~Holding(s)),
           fs[p].kind = "absent", fs' = [fs EXCEPT ![p] = Made(r, kind)],
           RecordCreation(r, p, kind),
           \A s \in Run \ {r} : pc'[s] = pc[s]
    PROVE  Own'
<1>1. IInv /\ TypeOK /\ ledger[r] \in Seq(Record) /\ Len(ledger[r]) \in Nat
  BY DEF OInv, IInv, TypeOK
<1>2. /\ \A s \in Run \ {r} : ledger'[s] = ledger[s]
      /\ Len(ledger'[r]) = Len(ledger[r]) + 1
      /\ ledger' \in [Run -> Seq(Record)]
      /\ \A i \in 1 .. Len(ledger[r]) : ledger'[r][i] = ledger[r][i]
      /\ ledger'[r][Len(ledger[r]) + 1] = [path |-> p, kind |-> kind]
  BY ZenonT(30), <1>1, RecordFacts
<1>3. \A s \in Run \ {r} : ~(Holding(s)')
  BY <1>1, <1>2, OneHolder DEF Holding
<1>4. /\ ledger'[r] \in Seq(Record)
      /\ DOMAIN ledger'[r] = 1 .. Len(ledger[r]) + 1
      /\ DOMAIN ledger[r] = 1 .. Len(ledger[r])
  BY <1>1, <1>2
<1>5. /\ fs'[p].kind # "absent" /\ fs'[p].by = r
      /\ \A q \in Path \ {p} : fs'[q] = fs[q]
  BY <1>1 DEF TypeOK, Made
<1>6. ASSUME NEW i \in 1 .. Len(ledger[r])
      PROVE  /\ ledger'[r][i] = ledger[r][i]
             /\ ledger[r][i].path \in Path
             /\ IF fs[ledger[r][i].path].kind = "absent"
                THEN ledger[r][i].path \in Erasable
                ELSE fs[ledger[r][i].path].by = r
  <2>1. ledger[r][i].path \in Path
    BY <1>1, <1>4, RecordedPath
  <2>2. Holding(r)
    BY <1>1
  <2> QED
    BY <1>2, <1>4, <2>1, <2>2 DEF OInv, Own
<1>7. ledger'[r][Len(ledger[r]) + 1].path = p
  BY <1>2
<1>8. ASSUME NEW i \in DOMAIN ledger'[r]
      PROVE  IF fs'[ledger'[r][i].path].kind = "absent"
             THEN ledger'[r][i].path \in Erasable
             ELSE fs'[ledger'[r][i].path].by = r
  <2>1. CASE i = Len(ledger[r]) + 1
    BY <1>5, <1>7, <2>1
  <2>2. CASE i \in 1 .. Len(ledger[r])
    <3>1. CASE ledger[r][i].path = p
      BY <1>5, <1>6, <2>2, <3>1
    <3>2. CASE ledger[r][i].path # p
      BY <1>5, <1>6, <2>2, <3>2
    <3> QED
      BY <3>1, <3>2
  <2>3. \A k \in 1 .. Len(ledger[r]) + 1 :
            k \in 1 .. Len(ledger[r]) \/ k = Len(ledger[r]) + 1
    BY <1>1
  <2>4. i \in 1 .. Len(ledger[r]) + 1
    BY <1>4
  <2> QED
    BY Zenon, <2>1, <2>2, <2>3, <2>4
<1>9. ASSUME NEW i \in DOMAIN ledger'[r], NEW j \in DOMAIN ledger'[r], i # j,
             ledger'[r][i].path = ledger'[r][j].path
      PROVE  ledger'[r][i].path \in Erasable
  <2>1. CASE i \in 1 .. Len(ledger[r]) /\ j \in 1 .. Len(ledger[r])
    <3>1. Holding(r)
      BY <1>1, <2>1
    <3> QED
      BY <1>4, <1>6, <1>9, <2>1, <3>1 DEF OInv, Own
  <2>2. CASE i = Len(ledger[r]) + 1
    <3>1. j \in 1 .. Len(ledger[r])
      BY <1>1, <1>4, <1>9, <2>2
    <3> QED
      BY <1>6, <1>7, <1>9, <2>2, <3>1
  <2>3. CASE j = Len(ledger[r]) + 1
    <3>1. i \in 1 .. Len(ledger[r])
      BY <1>1, <1>4, <1>9, <2>3
    <3>2. ledger[r][i].path = p
      BY <1>6, <1>7, <1>9, <2>3, <3>1
    <3>3. ledger[r][i].path \in Erasable
      BY <1>6, <3>1, <3>2
    <3> QED
      BY <1>6, <3>1, <3>3
  <2>4. i \in 1 .. Len(ledger[r]) + 1 /\ j \in 1 .. Len(ledger[r]) + 1
    BY <1>4
  <2>5. \A n \in 1 .. Len(ledger[r]) + 1 :
            n \in 1 .. Len(ledger[r]) \/ n = Len(ledger[r]) + 1
    BY <1>1
  <2> QED
    BY <2>1, <2>2, <2>3, <2>4, <2>5
<1> QED
  <2> SUFFICES ASSUME NEW s \in Run, Holding(s)'
               PROVE  /\ \A i \in DOMAIN ledger'[s] :
                            IF fs'[ledger'[s][i].path].kind = "absent"
                            THEN ledger'[s][i].path \in Erasable
                            ELSE fs'[ledger'[s][i].path].by = s
                      /\ \A i, j \in DOMAIN ledger'[s] :
                            i # j /\ ledger'[s][i].path = ledger'[s][j].path =>
                                ledger'[s][i].path \in Erasable
    BY Zenon DEF Own
  <2>1. s = r
    BY <1>3
  <2> QED
    BY Zenon, <1>8, <1>9, <2>1

\* The undo pass takes the newest record away; the older ones stay as true.
LEMMA UndoOwn ==
    ASSUME OInv, NEW r \in Run, UndoNewest(r)
    PROVE  Own'
<1>1. /\ IInv /\ Holding(r) /\ ledger[r] \in Seq(Record) /\ ledger[r] # <<>>
      /\ ledger' = [ledger EXCEPT ![r] = Front(@)]
      /\ UNCHANGED pc
  BY DEF UndoNewest, OInv, IInv, TypeOK, Holding
<1>2. /\ Len(ledger[r]) \in Nat \ {0}
      /\ Front(ledger[r]) \in Seq(Record)
      /\ Len(Front(ledger[r])) = Len(ledger[r]) - 1
      /\ \A i \in 1 .. Len(ledger[r]) - 1 : Front(ledger[r])[i] = ledger[r][i]
      /\ Last(ledger[r]) = ledger[r][Len(ledger[r])]
  BY <1>1, FrontFacts
<1>3. /\ ledger'[r] = Front(ledger[r])
      /\ \A s \in Run \ {r} : ledger'[s] = ledger[s]
  BY <1>1 DEF IInv, TypeOK
<1>4. \A s \in Run \ {r} : ~(Holding(s)')
  BY <1>1, <1>3, OneHolder DEF Holding
<1>5. /\ DOMAIN ledger'[r] = 1 .. Len(ledger[r]) - 1
      /\ Len(ledger[r]) \in DOMAIN ledger[r]
      /\ DOMAIN ledger'[r] \subseteq DOMAIN ledger[r]
      /\ \A i \in DOMAIN ledger'[r] :
            i # Len(ledger[r]) /\ ledger'[r][i] = ledger[r][i]
  BY <1>1, <1>2, <1>3
<1>6. \A i \in DOMAIN ledger[r] : ledger[r][i].path \in Path
  BY <1>1, RecordedPath
<1>7. \A q \in Path :
          \/ fs'[q] = fs[q]
          \/ q = Last(ledger[r]).path /\ fs'[q].kind = "absent"
  BY <1>1 DEF UndoNewest, IInv, TypeOK, Nothing
<1>8. ASSUME NEW i \in DOMAIN ledger'[r]
      PROVE  IF fs'[ledger'[r][i].path].kind = "absent"
             THEN ledger'[r][i].path \in Erasable
             ELSE fs'[ledger'[r][i].path].by = r
  <2>1. IF fs[ledger[r][i].path].kind = "absent"
        THEN ledger[r][i].path \in Erasable
        ELSE fs[ledger[r][i].path].by = r
    BY <1>1, <1>5 DEF OInv, Own
  <2>2. ledger[r][i].path = Last(ledger[r]).path => ledger[r][i].path \in Erasable
    BY <1>1, <1>2, <1>5 DEF OInv, Own
  <2>3. ledger[r][i].path \in Path /\ ledger'[r][i] = ledger[r][i]
    BY <1>5, <1>6
  <2> QED
    BY <1>7, <2>1, <2>2, <2>3
<1>9. ASSUME NEW i \in DOMAIN ledger'[r], NEW j \in DOMAIN ledger'[r], i # j,
             ledger'[r][i].path = ledger'[r][j].path
      PROVE  ledger'[r][i].path \in Erasable
  BY <1>1, <1>5, <1>9 DEF OInv, Own
<1> QED
  <2> SUFFICES ASSUME NEW s \in Run, Holding(s)'
               PROVE  /\ \A i \in DOMAIN ledger'[s] :
                            IF fs'[ledger'[s][i].path].kind = "absent"
                            THEN ledger'[s][i].path \in Erasable
                            ELSE fs'[ledger'[s][i].path].by = s
                      /\ \A i, j \in DOMAIN ledger'[s] :
                            i # j /\ ledger'[s][i].path = ledger'[s][j].path =>
                                ledger'[s][i].path \in Erasable
    BY Zenon DEF Own
  <2>1. s = r
    BY <1>4
  <2> QED
    BY Zenon, <1>8, <1>9, <2>1

\* The looks before the first write, the accepted directory, the end of a
\* loop and of an undo pass, and a crash change no object and no record.
LEMMA QuietOwn ==
    ASSUME OInv, UNCHANGED <<fs, ledger>>,
           \A s \in Run : pc'[s] \in Writing \cup {"undo"} =>
               pc[s] \in Writing \cup {"undo"} \/ ledger[s] = <<>>
    PROVE  Own'
<1>1. \A s \in Run : Holding(s)' => Holding(s) /\ ledger'[s] = ledger[s]
  BY DEF Holding
<1> QED
  BY <1>1, SameOwn

\* Every step of a run, and its crash, keeps Own.
LEMMA StepOwn ==
    ASSUME OInv, NEW r \in Run, Step(r) \/ Crash(r)
    PROVE  Own'
<1>1. /\ IInv /\ TypeOK /\ pc \in [Run -> Looking \cup Writing \cup {"undo"} \cup Ended]
      /\ LedgerShape /\ Lock
  BY DEF OInv, IInv, TypeOK
<1>2. CASE \/ Plan(r) \/ PreflightDestination(r) \/ PreflightMarker(r)
           \/ PreflightNames(r) \/ PreflightPath(r) \/ PreflightEnds(r)
           \/ OpenRoot(r)
  <2>1. /\ UNCHANGED <<fs, ledger>>
        /\ pc[r] \in Looking
        /\ \E next \in Looking \cup {"refused"} : pc' = [pc EXCEPT ![r] = next]
    BY <1>2 DEF Plan, PreflightDestination, PreflightMarker, PreflightNames,
                PreflightPath, PreflightEnds, OpenRoot, Go, Refuse, Looking
  <2>2. \A s \in Run : pc'[s] \in Writing \cup {"undo"} => pc[s] \in Writing \cup {"undo"}
    BY <1>1, <2>1 DEF Looking, Writing
  <2> QED
    BY <2>1, <2>2, QuietOwn
<1>3. CASE CreateMarker(r)
  <2>1. ledger[r] = <<>> /\ pc[r] = "mark"
    BY <1>1, <1>3 DEF CreateMarker, LedgerShape, Looking
  <2>2. \A s \in Run \ {r} : pc'[s] = pc[s]
    BY <1>1, <1>3 DEF CreateMarker, Go, Fail
  <2>3. CASE UNCHANGED <<fs, ledger>>
    BY <2>1, <2>2, <2>3, QuietOwn
  <2>4. CASE /\ fs[Marker].kind = "absent"
             /\ fs' = [fs EXCEPT ![Marker] = Made(r, "file")]
             /\ RecordCreation(r, Marker, "file")
    <3>1. \A s \in Run : ~Holding(s)
      BY <1>1, <2>4 DEF Lock
    <3> QED
      BY <2>1, <2>2, <2>4, <3>1, CreationOwn, PathAssumption
  <2> QED
    BY <1>3, <2>3, <2>4 DEF CreateMarker, Present
<1>4. CASE MakeDirectory(r) \/ CreateFile(r)
  <2>1. /\ Holding(r)
        /\ pc[r] \in Writing
        /\ \A s \in Run \ {r} : pc'[s] = pc[s]
    BY <1>1, <1>4 DEF MakeDirectory, CreateFile, Go, Fail, LedgerShape, Holding, Writing
  <2>2. CASE UNCHANGED <<fs, ledger>>
    BY <2>1, <2>2, QuietOwn
  <2>3. CASE \E p \in Path, kind \in {"file", "directory"} :
                /\ fs[p].kind = "absent"
                /\ fs' = [fs EXCEPT ![p] = Made(r, kind)]
                /\ RecordCreation(r, p, kind)
    BY <2>1, <2>3, CreationOwn
  <2>4. CASE MakeDirectory(r)
    <3>1. Directories[r][at[r]] \in Path
      BY <2>4, PlanAssumption DEF MakeDirectory
    <3> QED
      BY <2>2, <2>3, <2>4, <3>1 DEF MakeDirectory, Present
  <2>5. CASE CreateFile(r)
    <3>1. Files[r][at[r]] \in Path
      BY <2>5, PlanAssumption DEF CreateFile
    <3> QED
      BY <2>2, <2>3, <2>5, <3>1 DEF CreateFile, Present
  <2> QED
    BY <1>4, <2>4, <2>5
<1>5. CASE AcceptDirectory(r) \/ DirectoriesEnd(r) \/ FilesEnd(r) \/ UndoEnds(r) \/ Crash(r)
  <2>1. UNCHANGED <<fs, ledger>>
    BY <1>5 DEF AcceptDirectory, DirectoriesEnd, FilesEnd, UndoEnds, Crash
  <2>2. \A s \in Run : pc'[s] \in Writing \cup {"undo"} => pc[s] \in Writing \cup {"undo"}
    BY <1>1, <1>5 DEF AcceptDirectory, DirectoriesEnd, FilesEnd, UndoEnds, Crash,
                      Go, Fail, Writing, Ended
  <2> QED
    BY <2>1, <2>2, QuietOwn
<1>6. CASE WriteFile(r)
  <2>1. /\ pc[r] = "write" /\ UNCHANGED ledger
        /\ \A s \in Run \ {r} : pc'[s] = pc[s]
    BY <1>1, <1>6 DEF WriteFile, Go, Fail
  <2>2. \A q \in Path : fs'[q].kind = fs[q].kind /\ fs'[q].by = fs[q].by
    <3>1. CASE UNCHANGED fs
      BY <3>1
    <3>2. CASE fs' = [fs EXCEPT ![Files[r][at[r]]].full = TRUE]
      <4>1. \A q \in Path : fs[q] \in Object
        BY <1>1 DEF TypeOK
      <4>2. \A q \in Path :
                fs'[q] = fs[q] \/ fs'[q] = [fs[q] EXCEPT !.full = TRUE]
        BY <1>1, <3>2 DEF TypeOK
      <4>3. \A o \in Object : LET w == [o EXCEPT !.full = TRUE]
                             IN  w.kind = o.kind /\ w.by = o.by
        BY DEF Object
      <4> QED
        BY <4>1, <4>2, <4>3
    <3> QED
      BY <1>6, <3>1, <3>2 DEF WriteFile
  <2>3. \A s \in Run : Holding(s)' => Holding(s) /\ ledger'[s] = ledger[s]
    BY <2>1 DEF Holding, Writing
  <2> QED
    BY <2>2, <2>3, SameOwn
<1>7. CASE RemoveMarker(r)
  <2>1. /\ Holding(r)
        /\ \A s \in Run \ {r} : pc'[s] = pc[s]
    BY <1>1, <1>7 DEF RemoveMarker, LedgerShape, Holding, Writing, Go, Fail
  <2>2. CASE UNCHANGED <<fs, ledger>>
    BY <2>1, <2>2, QuietOwn DEF Holding
  <2>3. CASE pc' = [pc EXCEPT ![r] = "done"] /\ Withdraw(r, 1)
    <3>1. \A s \in Run \ {r} : ~Holding(s) /\ ledger'[s] = ledger[s]
      BY <1>1, <2>1, <2>3, OneHolder DEF Withdraw, TypeOK
    <3>2. \A s \in Run : ~(Holding(s)')
      BY <1>1, <2>1, <2>3, <3>1 DEF Holding, Writing
    <3> QED
      BY <3>2 DEF Own
  <2> QED
    BY <1>7, <2>2, <2>3 DEF RemoveMarker, Go
<1>8. CASE UndoNewest(r)
  BY <1>8, UndoOwn
<1> QED
  BY <1>2, <1>3, <1>4, <1>5, <1>6, <1>7, <1>8 DEF Step

\* What happens around the runs keeps Own when nothing is put where a run's
\* work was removed.
LEMMA OutsideOwn ==
    ASSUME OInv, NoReplacement, ClearMarker \/ StrangerCreates \/ StrangerRemoves
    PROVE  Own'
<1>1. /\ IInv /\ TypeOK /\ Lock
      /\ UNCHANGED <<pc, ledger>>
  BY DEF OInv, IInv, ClearMarker, StrangerCreates, StrangerRemoves
<1>2. ASSUME NEW s \in Run, Holding(s), NEW i \in DOMAIN ledger[s]
      PROVE  IF fs'[ledger[s][i].path].kind = "absent"
             THEN ledger[s][i].path \in Erasable
             ELSE fs'[ledger[s][i].path].by = s
  <2> DEFINE q == ledger[s][i].path
  <2>1. /\ q \in Path
        /\ IF fs[q].kind = "absent" THEN q \in Erasable ELSE fs[q].by = s
    BY <1>1, <1>2, RecordedPath DEF OInv, Own
  <2>2. CASE ClearMarker
    <3>1. pc[s] \notin Ended /\ fs[Marker].by = s
      BY <1>1, <1>2 DEF Lock, Holding, Writing, Ended
    <3> QED
      BY <2>2, <3>1 DEF ClearMarker, TakeAway
  <2>3. CASE StrangerCreates
    <3>1. PICK new \in Plantable :
              /\ ~Present(new.path)
              /\ fs' = [fs EXCEPT ![new.path] = Made(Stranger, new.kind)]
      BY <2>3 DEF StrangerCreates
    <3>2. q # new.path
      BY <2>1, <3>1 DEF NoReplacement, Present
    <3>3. fs'[q] = fs[q]
      BY <1>1, <2>1, <3>1, <3>2 DEF TypeOK
    <3> QED
      BY <2>1, <3>3
  <2>4. CASE StrangerRemoves
    <3>1. PICK p \in Erasable : fs' = [fs EXCEPT ![p] = Nothing]
      BY <2>4 DEF StrangerRemoves, TakeAway
    <3>2. CASE q = p
      BY <1>1, <2>1, <3>1, <3>2 DEF TypeOK, Nothing
    <3>3. CASE q # p
      BY <1>1, <2>1, <3>1, <3>3 DEF TypeOK
    <3> QED
      BY <3>2, <3>3
  <2> QED
    BY <2>2, <2>3, <2>4
<1>3. \A s \in Run : Holding(s)' = Holding(s)
  BY <1>1 DEF Holding
<1>4. ASSUME NEW s \in Run, Holding(s)
      PROVE  \A i, j \in DOMAIN ledger[s] :
                 i # j /\ ledger[s][i].path = ledger[s][j].path =>
                     ledger[s][i].path \in Erasable
  BY <1>4 DEF OInv, Own
<1> QED
  BY <1>1, <1>2, <1>3, <1>4 DEF Own

\* Own holds before any run has started, and every step keeps it.
LEMMA NextOInv ==
    ASSUME NoReplacement
    PROVE  /\ Init => OInv
           /\ OInv /\ [Next]_vars => OInv'
<1>1. Init => OInv
  BY InitIInv DEF Init, OInv, Own, Holding, Writing
<1>2. ASSUME OInv, [Next]_vars PROVE Own'
  <2>1. CASE UNCHANGED vars
    BY <1>2, <2>1, QuietOwn DEF vars
  <2>2. CASE Next
    BY <1>2, <2>2, StepOwn, OutsideOwn DEF Next
  <2> QED
    BY <1>2, <2>1, <2>2
<1> QED
  BY <1>1, <1>2, NextIInv DEF OInv

\* What one step of run r may do to what is in the destination.
LEMMA StepTouchesOwn ==
    ASSUME OInv, NEW r \in Run, Step(r), NEW p \in Path, fs'[p] # fs[p]
    PROVE  /\ Present(p) => fs[p].by = r
           /\ fs'[p].kind # "absent" => fs'[p].by = r
<1>1. IInv /\ TypeOK /\ Lock /\ LedgerShape
  BY DEF OInv, IInv
<1>2. CASE ~UNCHANGED fs /\ (CreateMarker(r) \/ MakeDirectory(r) \/ CreateFile(r))
  <2>1. PICK q \in Path, kind \in {"file", "directory"} :
            ~Present(q) /\ fs' = [fs EXCEPT ![q] = Made(r, kind)]
    <3>1. CASE CreateMarker(r)
      BY <1>2, <3>1, PathAssumption DEF CreateMarker
    <3>2. CASE MakeDirectory(r)
      <4>1. Directories[r][at[r]] \in Path
        BY <3>2, PlanAssumption DEF MakeDirectory
      <4> QED
        BY <1>2, <3>2, <4>1 DEF MakeDirectory
    <3>3. CASE CreateFile(r)
      <4>1. Files[r][at[r]] \in Path
        BY <3>3, PlanAssumption DEF CreateFile
      <4> QED
        BY <1>2, <3>3, <4>1 DEF CreateFile
    <3> QED
      BY <1>2, <3>1, <3>2, <3>3
  <2>2. p = q
    BY <1>1, <2>1 DEF TypeOK
  <2>3. fs'[p] = Made(r, kind)
    BY <1>1, <2>1, <2>2 DEF TypeOK
  <2> QED
    BY <2>1, <2>2, <2>3 DEF Made
<1>3. CASE ~UNCHANGED fs /\ WriteFile(r)
  <2> DEFINE f == Files[r][at[r]]
  <2>1. fs[f].by = r /\ fs' = [fs EXCEPT ![f].full = TRUE]
    BY <1>3 DEF WriteFile
  <2>2. p = f
    BY <1>1, <2>1 DEF TypeOK
  <2>3. fs[p] \in Object /\ fs'[p] = [fs[p] EXCEPT !.full = TRUE]
    BY <1>1, <2>1, <2>2 DEF TypeOK
  <2>4. fs'[p].by = fs[p].by
    BY <2>3 DEF Object
  <2> QED
    BY <2>1, <2>2, <2>4
<1>4. CASE ~UNCHANGED fs /\ RemoveMarker(r)
  <2>1. fs' = [fs EXCEPT ![Marker] = Nothing] /\ fs[Marker].by = r
    BY <1>1, <1>4 DEF RemoveMarker, LedgerShape, Lock, Holding, Writing
  <2>2. p = Marker
    BY <1>1, <2>1 DEF TypeOK
  <2>3. fs'[p] = Nothing
    BY <1>1, <2>1, <2>2 DEF TypeOK
  <2> QED
    BY <2>1, <2>2, <2>3 DEF Nothing
<1>5. CASE ~UNCHANGED fs /\ UndoNewest(r)
  <2> DEFINE last == Last(ledger[r])
  <2>1. /\ Holding(r) /\ ledger[r] \in Seq(Record) /\ ledger[r] # <<>>
        /\ fs' = [fs EXCEPT ![last.path] = Nothing]
    BY <1>1, <1>5 DEF UndoNewest, Holding, TypeOK
  <2>2. Len(ledger[r]) \in DOMAIN ledger[r] /\ last = ledger[r][Len(ledger[r])]
    <3>1. Len(ledger[r]) \in Nat \ {0} /\ last = ledger[r][Len(ledger[r])]
      BY <2>1, FrontFacts
    <3> QED
      BY <2>1, <3>1
  <2>3. Present(last.path) => fs[last.path].by = r
    BY <2>1, <2>2 DEF OInv, Own, Present
  <2>4. p = last.path
    BY <1>1, <2>1 DEF TypeOK
  <2>5. fs'[p] = Nothing
    BY <1>1, <2>1, <2>4 DEF TypeOK
  <2> QED
    BY <2>3, <2>4, <2>5 DEF Nothing
<1>6. ~UNCHANGED fs
  OBVIOUS
<1> QED
  BY <1>2, <1>3, <1>4, <1>5, <1>6
     DEF Step, Plan, PreflightDestination, PreflightMarker, PreflightNames,
         PreflightPath, PreflightEnds, OpenRoot, AcceptDirectory, DirectoriesEnd,
         FilesEnd, UndoEnds

\* A step of one run shows in no other run's state.
LEMMA StepIsLocal ==
    ASSUME TypeOK, NEW s \in Run, Step(s), NEW r \in Run, r # s
    PROVE  /\ pc'[r] = pc[r] /\ at'[r] = at[r] /\ ledger'[r] = ledger[r]
           /\ removed'[r] = removed[r] /\ left'[r] = left[r]
<1>1. CASE \/ Plan(s) \/ PreflightDestination(s) \/ PreflightMarker(s)
           \/ PreflightNames(s) \/ PreflightPath(s) \/ PreflightEnds(s)
           \/ OpenRoot(s)
  BY <1>1 DEF TypeOK, Plan, PreflightDestination, PreflightMarker, PreflightNames,
              PreflightPath, PreflightEnds, OpenRoot, Go, Refuse, Advance, Restart, counts
<1>2. CASE \/ CreateMarker(s) \/ MakeDirectory(s) \/ CreateFile(s)
  BY <1>2 DEF TypeOK, CreateMarker, MakeDirectory, CreateFile, RecordCreation,
              Go, Fail, Advance, counts
<1>3. CASE \/ AcceptDirectory(s) \/ DirectoriesEnd(s) \/ WriteFile(s) \/ FilesEnd(s)
           \/ RemoveMarker(s) \/ UndoNewest(s) \/ UndoEnds(s)
  BY <1>3 DEF TypeOK, AcceptDirectory, DirectoriesEnd, WriteFile, FilesEnd, RemoveMarker,
              UndoNewest, UndoEnds, Withdraw, Go, Fail, Advance, Restart, counts
<1> QED
  BY <1>1, <1>2, <1>3 DEF Step

\* One step of the whole system, as OnlyOwnWork sees it.
LEMMA NextTouchesOwn ==
    ASSUME OInv, Next, NEW r \in Run, Moves(r), NEW p \in Path, fs'[p] # fs[p]
    PROVE  /\ Present(p) => fs[p].by = r
           /\ fs'[p].kind # "absent" => fs'[p].by = r
<1>1. IInv /\ TypeOK
  BY DEF OInv, IInv
<1>2. ~(ClearMarker \/ StrangerCreates \/ StrangerRemoves)
  BY DEF ClearMarker, StrangerCreates, StrangerRemoves, Moves, counts
<1>3. PICK s \in Run : Step(s) \/ Crash(s)
  BY <1>2 DEF Next
<1>4. ~Crash(s)
  BY DEF Crash
<1>5. s = r
  <2> SUFFICES ASSUME s # r PROVE FALSE
    OBVIOUS
  <2> QED
    BY <1>1, <1>3, <1>4, StepIsLocal DEF Moves
<1> QED
  BY <1>3, <1>4, <1>5, StepTouchesOwn

\* For every instance without replacement: a run changes, replaces and
\* removes nothing that was there and that it did not create itself.
THEOREM TouchesOnlyOwnWork == NoReplacement => (Spec => OnlyOwnWork)
<1> SUFFICES ASSUME NoReplacement PROVE Spec => OnlyOwnWork
  OBVIOUS
<1>1. Init => OInv
  BY NextOInv
<1>2. OInv /\ [Next]_vars => OInv'
  BY NextOInv
<1>3. OInv /\ [Next]_vars =>
        [\A r \in Run : Moves(r) =>
            \A p \in Path : fs'[p] # fs[p] =>
                /\ Present(p) => fs[p].by = r
                /\ fs'[p].kind # "absent" => fs'[p].by = r]_vars
  BY NextTouchesOwn
<1> QED
  BY <1>1, <1>2, <1>3, PTL DEF Spec, OnlyOwnWork

-----------------------------------------------------------------------------
(* What is left of a run.                                                  *)

\* What the model keeps of run r between its steps.  The first two parts are
\* the early refusals; the third says that the undo pass has a record of all
\* that is left; the last, that without one the marker stands.
Kept(r) ==
    /\ pc[r] \in Looking => Owned(r) = {}
    /\ pc[r] \in Looking \cup Writing =>
          code[r] = "" /\ removed[r] = 0 /\ left[r] = 0
    /\ code[r] \in BeforeWriting =>
          Owned(r) = {} /\ ledger[r] = <<>> /\ removed[r] = 0 /\ left[r] = 0
    /\ pc[r] \in Writing \cup {"undo"} /\ left[r] = 0 => Owned(r) \subseteq Recorded(r)
    /\ pc[r] \in {"refused", "crashed"} /\ left[r] = 0 /\ Owned(r) # {} =>
          <<r, Marker>> \in taken \/ Marker \in Owned(r)

PInv == IInv /\ \A r \in Run : Kept(r)

\* A step that shows in no variable of r, and puts nothing of r's there.
Apart(r) ==
    /\ pc'[r] = pc[r] /\ ledger'[r] = ledger[r] /\ code'[r] = code[r]
    /\ removed'[r] = removed[r] /\ left'[r] = left[r]
    /\ taken \subseteq taken'
    /\ Owned(r)' \subseteq Owned(r)
    /\ Marker \in Owned(r) => Marker \in Owned(r)' \/ <<r, Marker>> \in taken'

LEMMA ApartKept ==
    ASSUME NEW r \in Run, Kept(r), Apart(r)
    PROVE  Kept(r)'
<1>1. Recorded(r)' = Recorded(r)
  BY DEF Apart, Recorded
<1> QED
  BY <1>1 DEF Kept, Apart

\* The codes a run has before it fails, and in its marker's loops, are not early.
LEMMA EarlyCodes ==
    /\ BeforeWriting =
          {"extract.refused", "output.exists", "output.partial_marker_present",
           "output.destination_missing", "output.destination_not_a_directory",
           "output.destination_symlink"}
    /\ "" \notin BeforeWriting /\ "output.io" \notin BeforeWriting
<1>1. BeforeWriting =
          {"extract.refused", "output.exists", "output.partial_marker_present",
           "output.destination_missing", "output.destination_not_a_directory",
           "output.destination_symlink"}
  BY DEF BeforeWriting, DestinationCode
<1> QED
  BY <1>1

\* The stable codes of the writing half are none of the early ones.
LEMMA LateCodes ==
    ASSUME TypeOK, NEW q \in Path
    PROVE  ({"archive.refused", "output.io"} \cup WalkCodes(q)) \cap BeforeWriting = {}
<1>1. \A b \in Ancestors(q) \cup {q} : fs[b] \in Object
  BY PathAssumption DEF TypeOK
<1>2. \A o \in Object : o.kind # "directory" =>
          ObstacleCode[o.kind] \in
              {"output.io", "output.not_a_directory", "output.symlink_in_path"}
  BY DEF Object, Kind, ObstacleCode
<1>3. WalkCodes(q) \subseteq
          {"output.io", "output.not_a_directory", "output.symlink_in_path"}
  BY <1>1, <1>2 DEF WalkCodes, IsDirectory
<1> QED
  BY <1>3, EarlyCodes

\* A step of one run is in no way a step of another's.
LEMMA StepApart ==
    ASSUME IInv, NEW r \in Run, Step(r) \/ Crash(r), NEW s \in Run \ {r}
    PROVE  Apart(s)
<1>1. TypeOK /\ Lock /\ LedgerShape /\ TypeOK'
  BY NextIInv DEF IInv, Next
<1>2. /\ pc'[s] = pc[s] /\ ledger'[s] = ledger[s]
      /\ removed'[s] = removed[s] /\ left'[s] = left[s]
  <2>1. CASE Step(r)
    BY <1>1, <2>1, StepIsLocal
  <2>2. CASE Crash(r)
    BY <1>1, <2>2 DEF Crash, Go, TypeOK, counts
  <2> QED
    BY <2>1, <2>2
<1>3. code'[s] = code[s] /\ taken' = taken
  <2>1. CASE \/ Plan(r) \/ PreflightDestination(r) \/ PreflightMarker(r)
             \/ PreflightNames(r) \/ PreflightPath(r) \/ PreflightEnds(r)
             \/ OpenRoot(r)
    BY <1>1, <2>1 DEF TypeOK, Plan, PreflightDestination, PreflightMarker,
       PreflightNames, PreflightPath, PreflightEnds, OpenRoot, Go, Refuse
  <2>2. CASE \/ CreateMarker(r) \/ MakeDirectory(r) \/ AcceptDirectory(r)
             \/ DirectoriesEnd(r) \/ CreateFile(r) \/ WriteFile(r) \/ FilesEnd(r)
    BY <1>1, <2>2 DEF TypeOK, CreateMarker, MakeDirectory, AcceptDirectory,
       DirectoriesEnd, CreateFile, WriteFile, FilesEnd, Go, Fail
  <2>3. CASE RemoveMarker(r) \/ UndoNewest(r) \/ UndoEnds(r) \/ Crash(r)
    BY <1>1, <2>3 DEF TypeOK, RemoveMarker, UndoNewest, UndoEnds, Crash, Go, Fail
  <2> QED
    BY <2>1, <2>2, <2>3 DEF Step
<1>4. CASE UNCHANGED fs
  BY <1>2, <1>3, <1>4 DEF Apart, Owned, Present
<1>5. CASE \E q \in Path, kind \in {"file", "directory"} :
              fs' = [fs EXCEPT ![q] = Made(r, kind)] /\ ~Present(q)
  <2>1. PICK q \in Path, kind \in {"file", "directory"} :
              fs' = [fs EXCEPT ![q] = Made(r, kind)] /\ ~Present(q)
    BY <1>5
  <2>2. \A p \in Path \ {q} : fs'[p] = fs[p]
    BY <1>1, <2>1 DEF TypeOK
  <2>3. fs'[q].by = r
    BY <1>1, <2>1 DEF TypeOK, Made
  <2>4. Owned(s)' = Owned(s)
    BY <2>1, <2>2, <2>3 DEF Owned, Present
  <2> QED
    BY <1>2, <1>3, <2>4 DEF Apart
<1>6. CASE \A q \in Path : fs'[q].kind = fs[q].kind /\ fs'[q].by = fs[q].by
  <2>1. Owned(s)' = Owned(s)
    BY <1>6 DEF Owned, Present
  <2> QED
    BY <1>2, <1>3, <2>1 DEF Apart
<1>7. CASE /\ Holding(r)
           /\ \E q \in Path : fs' = [fs EXCEPT ![q] = Nothing]
  <2>1. PICK q \in Path : fs' = [fs EXCEPT ![q] = Nothing]
    BY <1>7
  <2>2. \A p \in Path \ {q} : fs'[p] = fs[p]
    BY <1>1, <2>1 DEF TypeOK
  <2>3. fs'[q].kind = "absent"
    BY <1>1, <2>1 DEF TypeOK, Nothing
  <2>4. Owned(s)' \subseteq Owned(s)
    BY <2>2, <2>3 DEF Owned, Present
  <2>5. Marker \notin Owned(s)
    BY <1>1, <1>7 DEF Lock, Owned
  <2> QED
    BY <1>2, <1>3, <2>4, <2>5 DEF Apart
<1>8. CASE CreateMarker(r) \/ MakeDirectory(r) \/ CreateFile(r)
  <2>1. CASE CreateMarker(r)
    BY <1>4, <1>5, <2>1, PathAssumption DEF CreateMarker
  <2>2. CASE MakeDirectory(r)
    <3>1. Directories[r][at[r]] \in Path
      BY <2>2, PlanAssumption DEF MakeDirectory
    <3> QED
      BY <1>4, <1>5, <2>2, <3>1 DEF MakeDirectory
  <2>3. CASE CreateFile(r)
    <3>1. Files[r][at[r]] \in Path
      BY <2>3, PlanAssumption DEF CreateFile
    <3> QED
      BY <1>4, <1>5, <2>3, <3>1 DEF CreateFile
  <2> QED
    BY <1>8, <2>1, <2>2, <2>3
<1>9. CASE WriteFile(r)
  <2>1. CASE fs' = [fs EXCEPT ![Files[r][at[r]]].full = TRUE]
    <3>1. \A q \in Path : fs[q] \in Object
      BY <1>1 DEF TypeOK
    <3>2. \A q \in Path : fs'[q] = fs[q] \/ fs'[q] = [fs[q] EXCEPT !.full = TRUE]
      BY <1>1, <2>1 DEF TypeOK
    <3>3. \A o \in Object : LET w == [o EXCEPT !.full = TRUE]
                           IN  w.kind = o.kind /\ w.by = o.by
      BY DEF Object
    <3> QED
      BY <1>6, <3>1, <3>2, <3>3
  <2> QED
    BY <1>4, <1>9, <2>1 DEF WriteFile
<1>10. CASE RemoveMarker(r)
  <2>1. Holding(r)
    BY <1>1, <1>10 DEF RemoveMarker, LedgerShape, Holding, Writing
  <2> QED
    BY <1>4, <1>7, <1>10, <2>1, PathAssumption DEF RemoveMarker
<1>11. CASE UndoNewest(r)
  <2>1. Holding(r) /\ ledger[r] \in Seq(Record) /\ ledger[r] # <<>>
    BY <1>1, <1>11 DEF UndoNewest, Holding, TypeOK
  <2>2. Last(ledger[r]).path \in Path
    <3>1. Last(ledger[r]) \in Record
      BY <2>1, FrontFacts
    <3> QED
      BY <3>1 DEF Record
  <2> QED
    BY <1>4, <1>7, <1>11, <2>1, <2>2 DEF UndoNewest
<1>12. CASE \/ Plan(r) \/ PreflightDestination(r) \/ PreflightMarker(r)
            \/ PreflightNames(r) \/ PreflightPath(r) \/ PreflightEnds(r)
            \/ OpenRoot(r) \/ AcceptDirectory(r) \/ DirectoriesEnd(r)
            \/ FilesEnd(r) \/ UndoEnds(r) \/ Crash(r)
  <2>1. UNCHANGED fs
    BY <1>12 DEF Plan, PreflightDestination, PreflightMarker, PreflightNames,
       PreflightPath, PreflightEnds, OpenRoot, AcceptDirectory, DirectoriesEnd,
       FilesEnd, UndoEnds, Crash
  <2> QED
    BY <1>4, <2>1
<1> QED
  BY <1>8, <1>9, <1>10, <1>11, <1>12 DEF Step

\* What a person and a stranger do puts nothing of a run's there; a marker
\* goes only by being cleared.
LEMMA OutsideApart ==
    ASSUME IInv, ClearMarker \/ StrangerCreates \/ StrangerRemoves, NEW s \in Run
    PROVE  Apart(s)
<1>1. TypeOK /\ UNCHANGED <<pc, ledger, code, counts>> /\ Marker \in Path
  BY PathAssumption DEF IInv, ClearMarker, StrangerCreates, StrangerRemoves
<1>2. CASE ClearMarker
  <2>1. /\ fs' = [fs EXCEPT ![Marker] = Nothing]
        /\ taken' = taken \cup ({fs[Marker].by} \cap Run) \X {Marker}
    BY <1>2 DEF ClearMarker, TakeAway
  <2>2. /\ \A p \in Path \ {Marker} : fs'[p] = fs[p]
        /\ fs'[Marker].kind = "absent"
    BY <1>1, <2>1 DEF TypeOK, Nothing
  <2>3. Owned(s)' \subseteq Owned(s) /\ (Marker \in Owned(s) => <<s, Marker>> \in taken')
    BY <2>1, <2>2 DEF Owned, Present
  <2> QED
    BY <1>1, <2>1, <2>3 DEF Apart, counts
<1>3. CASE StrangerCreates
  <2>1. PICK new \in Plantable :
            ~Present(new.path) /\ fs' = [fs EXCEPT ![new.path] = Made(Stranger, new.kind)]
    BY <1>3 DEF StrangerCreates
  <2>2. new.path \in Path
    BY StrangerActsAssumption
  <2>3. /\ \A p \in Path \ {new.path} : fs'[p] = fs[p]
        /\ fs'[new.path].by = Stranger
    BY <1>1, <2>1, <2>2 DEF TypeOK, Made
  <2>4. Owned(s)' = Owned(s)
    BY <2>1, <2>2, <2>3, StrangerAssumption DEF Owned, Present
  <2> QED
    BY <1>1, <1>3, <2>4 DEF Apart, counts, StrangerCreates
<1>4. CASE StrangerRemoves
  <2>1. PICK q \in Erasable : fs' = [fs EXCEPT ![q] = Nothing] /\ taken \subseteq taken'
    BY <1>4 DEF StrangerRemoves, TakeAway
  <2>2. q \in Path /\ q # Marker
    BY StrangerActsAssumption
  <2>3. /\ \A p \in Path \ {q} : fs'[p] = fs[p]
        /\ fs'[q].kind = "absent"
    BY <1>1, <2>1, <2>2 DEF TypeOK, Nothing
  <2>4. Owned(s)' \subseteq Owned(s) /\ (Marker \in Owned(s) => Marker \in Owned(s)')
    BY <1>1, <2>2, <2>3 DEF Owned, Present
  <2> QED
    BY <1>1, <1>4, <2>1, <2>4 DEF Apart, counts, StrangerRemoves
<1> QED
  BY <1>2, <1>3, <1>4

-----------------------------------------------------------------------------
(* The run's own steps.                                                    *)

\* The looks before the first write.
LEMMA LookingKept ==
    ASSUME IInv, NEW r \in Run, Kept(r),
           \/ Plan(r) \/ PreflightDestination(r) \/ PreflightMarker(r)
           \/ PreflightNames(r) \/ PreflightPath(r) \/ PreflightEnds(r)
           \/ OpenRoot(r)
    PROVE  Kept(r)'
<1>1. TypeOK /\ LedgerShape
  BY DEF IInv
<1>2. /\ UNCHANGED <<fs, ledger, counts>> /\ pc[r] \in Looking
      /\ \/ pc'[r] \in Looking /\ UNCHANGED code
         \/ pc'[r] = "refused"
  BY <1>1 DEF TypeOK, Plan, PreflightDestination, PreflightMarker, PreflightNames,
     PreflightPath, PreflightEnds, OpenRoot, Go, Refuse, Looking
<1>3. Owned(r) = {} /\ ledger[r] = <<>> /\ removed[r] = 0 /\ left[r] = 0
  BY <1>1, <1>2 DEF Kept, LedgerShape
<1>4. Owned(r)' = {} /\ ledger'[r] = <<>> /\ removed'[r] = 0 /\ left'[r] = 0
  BY <1>2, <1>3 DEF Owned, Present, counts
<1>5. pc'[r] \in Looking \cup Writing => code'[r] = ""
  BY <1>2 DEF Kept, Looking, Writing
<1> QED
  BY <1>2, <1>4, <1>5 DEF Kept

\* A step of the writing half that touches no object, or makes one full.
LEMMA WritingKept ==
    ASSUME IInv, NEW r \in Run, Kept(r), pc[r] \in Writing,
           UNCHANGED <<ledger, counts>>,
           \A q \in Path : fs'[q].kind = fs[q].kind /\ fs'[q].by = fs[q].by,
           \/ pc'[r] \in Writing /\ UNCHANGED code
           \/ pc'[r] = "undo" /\ code'[r] \notin BeforeWriting
    PROVE  Kept(r)'
<1>1. Owned(r)' = Owned(r) /\ Recorded(r)' = Recorded(r)
  BY DEF Owned, Present, Recorded
<1>2. code[r] = "" /\ removed'[r] = 0 /\ left'[r] = 0 /\ left[r] = 0
  BY DEF Kept, counts
<1>3. "" \notin BeforeWriting
  BY EarlyCodes
<1>4. pc'[r] \notin Looking \cup {"refused", "crashed"}
  BY DEF Looking, Writing
<1> QED
  BY <1>1, <1>2, <1>3, <1>4 DEF Kept, Writing

\* What is created is recorded in the same step.
LEMMA CreationKept ==
    ASSUME IInv, NEW r \in Run, Kept(r), pc[r] \in Writing \cup {"mark"},
           NEW p \in Path, NEW kind \in {"file", "directory"},
           fs' = [fs EXCEPT ![p] = Made(r, kind)], RecordCreation(r, p, kind),
           UNCHANGED <<code, counts>>, pc'[r] \in Writing
    PROVE  Kept(r)'
<1>1. TypeOK /\ LedgerShape /\ ledger[r] \in Seq(Record)
  BY DEF IInv, TypeOK
<1>2. Owned(r) \subseteq Recorded(r)
  BY DEF Kept, Looking
<1>3. /\ Len(ledger'[r]) = Len(ledger[r]) + 1
      /\ \A i \in 1 .. Len(ledger[r]) : ledger'[r][i] = ledger[r][i]
      /\ ledger'[r][Len(ledger[r]) + 1] = [path |-> p, kind |-> kind]
      /\ ledger' \in [Run -> Seq(Record)]
  BY <1>1, RecordFacts
<1>4. /\ DOMAIN ledger'[r] = 1 .. Len(ledger[r]) + 1
      /\ DOMAIN ledger[r] = 1 .. Len(ledger[r]) /\ Len(ledger[r]) \in Nat
  BY <1>1, <1>3
<1>5. Recorded(r) \subseteq Recorded(r)'
  BY <1>3, <1>4 DEF Recorded
<1>6. p \in Recorded(r)'
  <2>1. Len(ledger[r]) + 1 \in DOMAIN ledger'[r]
    BY <1>4
  <2>2. ledger'[r][Len(ledger[r]) + 1].path = p
    BY <1>3
  <2> QED
    BY <2>1, <2>2 DEF Recorded
<1>7. Owned(r)' \subseteq Owned(r) \cup {p}
  BY <1>1 DEF TypeOK, Owned, Present
<1>8. code'[r] = "" /\ removed'[r] = 0 /\ left'[r] = 0
  BY DEF Kept, Looking, counts
<1>9. "" \notin BeforeWriting
  BY EarlyCodes
<1>10. pc'[r] \notin Looking \cup {"refused", "crashed"}
  BY DEF Looking, Writing
<1> QED
  BY <1>2, <1>5, <1>6, <1>7, <1>8, <1>9, <1>10 DEF Kept

LEMMA CreatingKept ==
    ASSUME IInv, NEW r \in Run, Kept(r),
           CreateMarker(r) \/ MakeDirectory(r) \/ CreateFile(r)
    PROVE  Kept(r)'
<1>1. TypeOK /\ LedgerShape
  BY DEF IInv
<1>2. CASE CreateMarker(r)
  <2>1. pc[r] = "mark" /\ UNCHANGED counts /\ Marker \in Path
    BY <1>2, PathAssumption DEF CreateMarker
  <2>2. CASE /\ fs' = [fs EXCEPT ![Marker] = Made(r, "file")]
             /\ RecordCreation(r, Marker, "file") /\ Go(r, "directories")
    BY <1>1, <2>1, <2>2, CreationKept DEF Go, Writing, TypeOK
  <2>3. CASE UNCHANGED <<fs, ledger>> /\ pc' = [pc EXCEPT ![r] = "undo"]
    <3>1. Owned(r) = {} /\ ledger[r] = <<>> /\ removed[r] = 0 /\ left[r] = 0
      BY <1>1, <2>1 DEF Kept, LedgerShape, Looking
    <3>2. Owned(r)' = {} /\ ledger'[r] = <<>> /\ removed'[r] = 0 /\ left'[r] = 0
      BY <2>1, <2>3, <3>1 DEF Owned, Present, counts
    <3>3. pc'[r] = "undo"
      BY <1>1, <2>3 DEF TypeOK
    <3> QED
      BY <3>2, <3>3 DEF Kept, Looking, Writing
  <2> QED
    BY <1>2, <2>2, <2>3 DEF CreateMarker, Fail
<1>3. CASE MakeDirectory(r)
  <2> DEFINE p == Directories[r][at[r]]
  <2>1. pc[r] \in Writing /\ UNCHANGED counts /\ at[r] \in DOMAIN Directories[r]
    BY <1>3 DEF MakeDirectory, Writing
  <2>2. p \in Path /\ p # <<>>
    BY <2>1, PlanAssumption
  <2>3. Parent(p) \in Path
    BY <2>2, ParentIsPath
  <2>4. CASE /\ fs' = [fs EXCEPT ![p] = Made(r, "directory")]
             /\ RecordCreation(r, p, "directory") /\ Go(r, "directories")
    BY <1>1, <2>1, <2>2, <2>4, CreationKept DEF Go, Writing, TypeOK
  <2>5. CASE /\ UNCHANGED <<fs, ledger>>
             /\ \/ Go(r, "recheck")
                \/ \E c \in WalkCodes(Parent(p)) : Fail(r, c)
    <3>1. \/ pc'[r] = "recheck" /\ UNCHANGED code
          \/ pc'[r] = "undo" /\ code'[r] \in WalkCodes(Parent(p))
      BY <1>1, <2>5 DEF Go, Fail, TypeOK
    <3>2. WalkCodes(Parent(p)) \cap BeforeWriting = {}
      BY <1>1, <2>3, LateCodes
    <3> QED
      BY <2>1, <2>5, <3>1, <3>2, WritingKept DEF Writing
  <2> QED
    BY <1>3, <2>4, <2>5 DEF MakeDirectory
<1>4. CASE CreateFile(r)
  <2> DEFINE f == Files[r][at[r]]
  <2>1. pc[r] \in Writing /\ UNCHANGED counts /\ at[r] \in DOMAIN Files[r]
    BY <1>4 DEF CreateFile, Writing
  <2>2. f \in Path /\ f # <<>>
    BY <2>1, PlanAssumption
  <2>3. Parent(f) \in Path
    BY <2>2, ParentIsPath
  <2>4. CASE /\ fs' = [fs EXCEPT ![f] = Made(r, "file")]
             /\ RecordCreation(r, f, "file") /\ Go(r, "write")
    BY <1>1, <2>1, <2>2, <2>4, CreationKept DEF Go, Writing, TypeOK
  <2>5. CASE /\ UNCHANGED <<fs, ledger>>
             /\ \E c \in {"archive.refused"} \cup WalkCodes(Parent(f)) : Fail(r, c)
    <3>1. pc'[r] = "undo" /\ code'[r] \in {"archive.refused"} \cup WalkCodes(Parent(f))
      BY <1>1, <2>5 DEF Fail, TypeOK
    <3>2. ({"archive.refused", "output.io"} \cup WalkCodes(Parent(f))) \cap BeforeWriting = {}
      BY <1>1, <2>3, LateCodes
    <3> QED
      BY <2>1, <2>5, <3>1, <3>2, WritingKept
  <2> QED
    BY <1>4, <2>4, <2>5 DEF CreateFile
<1> QED
  BY <1>2, <1>3, <1>4

LEMMA GoingOnKept ==
    ASSUME IInv, NEW r \in Run, Kept(r),
           AcceptDirectory(r) \/ DirectoriesEnd(r) \/ WriteFile(r) \/ FilesEnd(r)
    PROVE  Kept(r)'
<1>1. TypeOK /\ InLoop /\ pc[r] \in Writing /\ UNCHANGED <<ledger, counts>>
  BY DEF IInv, AcceptDirectory, DirectoriesEnd, WriteFile, FilesEnd, Writing
<1>2. "output.io" \notin BeforeWriting
  BY EarlyCodes
<1>3. \/ pc'[r] \in Writing /\ UNCHANGED code
      \/ pc'[r] = "undo" /\ code'[r] \notin BeforeWriting
  <2>1. CASE DirectoriesEnd(r) \/ FilesEnd(r) \/ WriteFile(r)
    BY <1>1, <1>2, <2>1 DEF DirectoriesEnd, FilesEnd, WriteFile, Go, Fail, TypeOK, Writing
  <2>2. CASE AcceptDirectory(r)
    <3>1. at[r] \in DOMAIN Directories[r]
      BY <1>1, <2>2 DEF AcceptDirectory, InLoop
    <3>2. WalkCodes(Directories[r][at[r]]) \cap BeforeWriting = {}
      <4>1. Directories[r][at[r]] \in Path
        BY <3>1, PlanAssumption
      <4> QED
        BY <1>1, <4>1, LateCodes
    <3> QED
      BY <1>1, <2>2, <3>2 DEF AcceptDirectory, Go, Fail, TypeOK, Writing
  <2> QED
    BY <2>1, <2>2
<1>4. \A q \in Path : fs'[q].kind = fs[q].kind /\ fs'[q].by = fs[q].by
  <2>1. CASE UNCHANGED fs
    BY <2>1
  <2>2. CASE fs' = [fs EXCEPT ![Files[r][at[r]]].full = TRUE]
    <3>1. \A q \in Path : fs[q] \in Object
      BY <1>1 DEF TypeOK
    <3>2. \A q \in Path : fs'[q] = fs[q] \/ fs'[q] = [fs[q] EXCEPT !.full = TRUE]
      BY <1>1, <2>2 DEF TypeOK
    <3>3. \A o \in Object : LET w == [o EXCEPT !.full = TRUE]
                           IN  w.kind = o.kind /\ w.by = o.by
      BY DEF Object
    <3> QED
      BY <3>1, <3>2, <3>3
  <2> QED
    BY <2>1, <2>2 DEF AcceptDirectory, DirectoriesEnd, WriteFile, FilesEnd
<1> QED
  BY <1>1, <1>3, <1>4, WritingKept

LEMMA RemoveMarkerKept ==
    ASSUME IInv, NEW r \in Run, Kept(r), RemoveMarker(r)
    PROVE  Kept(r)'
<1>1. TypeOK /\ pc[r] \in Writing /\ UNCHANGED counts
  BY DEF IInv, RemoveMarker, Writing
<1>2. {"", "output.io"} \cap BeforeWriting = {}
  BY EarlyCodes
<1>3. CASE Go(r, "done")
  <2>1. pc'[r] = "done" /\ code'[r] = ""
    BY <1>1, <1>3 DEF Go, TypeOK, Kept
  <2> QED
    BY <1>2, <2>1 DEF Kept, Looking, Writing
<1>4. CASE Fail(r, "output.io") /\ UNCHANGED <<fs, ledger>>
  <2>1. pc'[r] = "undo" /\ code'[r] = "output.io"
    BY <1>1, <1>4 DEF Fail, TypeOK
  <2> QED
    BY <1>1, <1>2, <1>4, <2>1, WritingKept
<1> QED
  BY <1>3, <1>4 DEF RemoveMarker

LEMMA UndoNewestKept ==
    ASSUME IInv, NEW r \in Run, Kept(r), UndoNewest(r)
    PROVE  Kept(r)'
<1> DEFINE newest == Last(ledger[r])
<1>1. /\ TypeOK /\ pc[r] = "undo" /\ pc'[r] = "undo" /\ code'[r] = code[r]
      /\ ledger[r] \in Seq(Record) /\ ledger[r] # <<>>
  BY DEF UndoNewest, IInv, TypeOK
<1>2. code'[r] \notin BeforeWriting
  BY <1>1 DEF Kept
<1>3. ASSUME left'[r] = 0 PROVE Owned(r)' \subseteq Recorded(r)'
  <2>1. fs' = [fs EXCEPT ![newest.path] = Nothing] /\ left' = left
    <3>1. left' # [left EXCEPT ![r] = @ + 1]
      BY <1>1, <1>3 DEF TypeOK
    <3> QED
      BY <3>1 DEF UndoNewest
  <2>2. Owned(r) \subseteq Recorded(r)
    BY <1>1, <1>3, <2>1 DEF Kept
  <2>3. /\ Len(ledger[r]) \in Nat \ {0}
        /\ Front(ledger[r]) \in Seq(Record)
        /\ Len(Front(ledger[r])) = Len(ledger[r]) - 1
        /\ \A i \in 1 .. Len(ledger[r]) - 1 : Front(ledger[r])[i] = ledger[r][i]
        /\ newest = ledger[r][Len(ledger[r])]
    BY <1>1, FrontFacts
  <2>4. ledger'[r] = Front(ledger[r])
    BY <1>1 DEF UndoNewest, TypeOK
  <2>5. Recorded(r) \subseteq Recorded(r)' \cup {newest.path}
    <3>1. DOMAIN ledger'[r] = 1 .. Len(ledger[r]) - 1
      BY <2>3, <2>4
    <3>2. \A i \in DOMAIN ledger[r] :
              \/ i = Len(ledger[r])
              \/ i \in DOMAIN ledger'[r] /\ ledger'[r][i] = ledger[r][i]
      <4>1. DOMAIN ledger[r] = 1 .. Len(ledger[r])
        BY <1>1
      <4>2. \A i \in 1 .. Len(ledger[r]) :
                i = Len(ledger[r]) \/ i \in 1 .. Len(ledger[r]) - 1
        BY <2>3
      <4> QED
        BY <2>3, <2>4, <3>1, <4>1, <4>2
    <3> QED
      BY <2>3, <3>2 DEF Recorded
  <2>6. newest.path \in Path
    <3>1. newest \in Record
      BY <1>1, FrontFacts
    <3> QED
      BY <3>1 DEF Record
  <2>7. /\ \A q \in Path \ {newest.path} : fs'[q] = fs[q]
        /\ fs'[newest.path].kind = "absent"
    BY <1>1, <2>1, <2>6 DEF TypeOK, Nothing
  <2>8. Owned(r)' \subseteq Owned(r) \ {newest.path}
    BY <2>7 DEF Owned, Present
  <2> QED
    BY <2>2, <2>5, <2>8
<1> QED
  BY <1>1, <1>2, <1>3 DEF Kept, Looking, Writing

LEMMA EndKept ==
    ASSUME IInv, NEW r \in Run, Kept(r), UndoEnds(r) \/ Crash(r)
    PROVE  Kept(r)'
<1>1. /\ TypeOK /\ Lock /\ LedgerShape
      /\ UNCHANGED <<fs, ledger, counts, taken, code>>
  BY DEF IInv, UndoEnds, Crash, Go
<1>2. Owned(r)' = Owned(r)
  BY <1>1 DEF Owned, Present
<1>3. pc'[r] \in {"refused", "crashed"}
  BY <1>1 DEF UndoEnds, Crash, Go, TypeOK
<1>4. pc[r] \in Looking \cup Writing \cup {"undo"}
  BY <1>1 DEF UndoEnds, Crash, TypeOK
<1>5. ASSUME left[r] = 0, Owned(r) # {} PROVE Marker \in Owned(r)
  <2>1. Owned(r) \subseteq Recorded(r) /\ pc[r] \notin Looking
    BY <1>4, <1>5 DEF Kept
  <2>2. ledger[r] # <<>>
    BY <1>5, <2>1 DEF Recorded
  <2>3. Holding(r)
    BY <1>4, <2>1, <2>2 DEF Holding
  <2> QED
    BY <1>1, <2>3, PathAssumption DEF Lock, Owned, Present
<1> QED
  BY <1>1, <1>2, <1>3, <1>5 DEF Kept, Looking, Writing, counts

-----------------------------------------------------------------------------
(* The theorems.                                                           *)

LEMMA NextPInv ==
    /\ Init => PInv
    /\ PInv /\ [Next]_vars => PInv'
<1>1. ASSUME Init PROVE PInv
  <2>1. IInv
    BY <1>1, InitIInv
  <2>2. ASSUME NEW r \in Run PROVE Kept(r)
    <3>1. \A p \in Path : fs[p].by = Stranger
      BY <1>1, FoundAssumption DEF Init
    <3>2. Owned(r) = {}
      BY <3>1, StrangerAssumption DEF Owned
    <3>3. /\ pc[r] = "plan" /\ code[r] = "" /\ ledger[r] = <<>>
          /\ removed[r] = 0 /\ left[r] = 0
      BY <1>1 DEF Init
    <3> QED
      BY <3>2, <3>3 DEF Kept, Looking, Writing
  <2> QED
    BY <2>1, <2>2 DEF PInv
<1>2. ASSUME PInv, [Next]_vars PROVE PInv'
  <2>1. IInv'
    BY <1>2, NextIInv DEF PInv
  <2>2. ASSUME NEW s \in Run PROVE Kept(s)'
    <3>1. IInv /\ Kept(s)
      BY <1>2 DEF PInv
    <3>2. CASE UNCHANGED vars
      <4>1. Apart(s)
        BY <3>2 DEF vars, Apart, Owned, Present
      <4> QED
        BY <3>1, <4>1, ApartKept
    <3>3. ASSUME NEW r \in Run, Step(r) \/ Crash(r) PROVE Kept(s)'
      <4>1. CASE r # s
        BY <3>1, <3>3, <4>1, StepApart, ApartKept
      <4>2. CASE r = s
        BY <3>1, <3>3, <4>2, LookingKept, CreatingKept, GoingOnKept,
           RemoveMarkerKept, UndoNewestKept, EndKept DEF Step
      <4> QED
        BY <4>1, <4>2
    <3>4. CASE ClearMarker \/ StrangerCreates \/ StrangerRemoves
      BY <3>1, <3>4, OutsideApart, ApartKept
    <3> QED
      BY <1>2, <3>2, <3>3, <3>4 DEF Next
  <2> QED
    BY <2>1, <2>2 DEF PInv
<1> QED
  BY <1>1, <1>2

LEMMA PromisesHold == Spec => []PInv
  BY NextPInv, PTL DEF Spec

\* A run whose plan has the marker's name at the root gets no further than the
\* looks at its paths, and its own file of that name is still ahead of it there.
Barred(r) ==
    Clashes(r) =>
        /\ pc[r] \in (Looking \ {"open", "mark"}) \cup {"refused", "crashed"}
        /\ pc[r] = "paths" =>
              /\ Marker \notin ToSet(Directories[r])
              /\ \A i \in DOMAIN Files[r] : i < at[r] => Files[r][i] # Marker
        /\ Owned(r) = {} /\ removed[r] = 0 /\ left[r] = 0

\* The run's own steps: the looks refuse it one by one, or it dies.
LEMMA BarredStays ==
    ASSUME TypeOK, NEW r \in Run, Barred(r), Clashes(r), Step(r) \/ Crash(r)
    PROVE  Barred(r)'
<1>1. /\ pc[r] \in {"plan", "destination", "marker", "names", "paths"}
      /\ Owned(r) = {} /\ removed[r] = 0 /\ left[r] = 0
  BY DEF Barred, Looking, Step, Crash, Ended, UndoNewest, UndoEnds, Plan,
         PreflightDestination, PreflightMarker, PreflightNames, PreflightPath,
         PreflightEnds, OpenRoot, CreateMarker, MakeDirectory, AcceptDirectory,
         DirectoriesEnd, CreateFile, WriteFile, FilesEnd, RemoveMarker
<1>2. \/ Plan(r) \/ PreflightDestination(r) \/ PreflightMarker(r)
      \/ PreflightNames(r) \/ PreflightPath(r) \/ PreflightEnds(r) \/ Crash(r)
  BY <1>1 DEF Step, UndoNewest, UndoEnds, OpenRoot, CreateMarker, MakeDirectory,
     AcceptDirectory, DirectoriesEnd, CreateFile, WriteFile, FilesEnd, RemoveMarker
<1>3. Owned(r)' = {} /\ removed'[r] = 0 /\ left'[r] = 0
  <2>1. UNCHANGED <<fs, counts>>
    BY <1>2 DEF Plan, PreflightDestination, PreflightMarker, PreflightNames,
       PreflightPath, PreflightEnds, Crash
  <2> QED
    BY <1>1, <2>1 DEF Owned, Present, counts
<1>4. CASE Plan(r) \/ PreflightDestination(r) \/ PreflightMarker(r) \/ Crash(r)
  <2>1. pc'[r] \in {"destination", "marker", "names", "refused", "crashed"}
    BY <1>4 DEF TypeOK, Plan, PreflightDestination, PreflightMarker, Crash, Go, Refuse
  <2> QED
    BY <1>3, <2>1 DEF Barred, Looking
<1>5. CASE PreflightNames(r)
  <2>1. at'[r] = 1
    BY <1>5 DEF PreflightNames, Restart, TypeOK
  <2>2. \A i \in DOMAIN Files[r] : ~(i < 1)
    BY PlanAssumption
  <2>3. \/ pc'[r] = "paths" /\ Marker \notin ToSet(Directories[r])
        \/ pc'[r] = "refused"
    BY <1>5 DEF PreflightNames, Go, Refuse, TypeOK
  <2> QED
    BY <1>3, <2>1, <2>2, <2>3 DEF Barred, Looking
<1>6. CASE PreflightPath(r)
  <2>1. /\ Marker \notin ToSet(Directories[r])
        /\ \A i \in DOMAIN Files[r] : i < at[r] => Files[r][i] # Marker
    BY <1>6 DEF Barred, PreflightPath
  <2>2. CASE pc'[r] = "refused"
    BY <1>3, <2>2 DEF Barred
  <2>3. CASE Files[r][at[r]] # Marker /\ Go(r, "paths") /\ Advance(r)
    <3>1. pc'[r] = "paths" /\ at'[r] = at[r] + 1 /\ at[r] \in Nat
      BY <2>3 DEF Go, Advance, TypeOK
    <3>2. \A i \in DOMAIN Files[r] : i < at'[r] => i < at[r] \/ i = at[r]
      BY <3>1, PlanAssumption
    <3>3. \A i \in DOMAIN Files[r] : i < at'[r] => Files[r][i] # Marker
      BY <2>1, <2>3, <3>2
    <3> QED
      BY <1>3, <2>1, <3>1, <3>3 DEF Barred, Looking
  <2> QED
    BY <1>6, <2>2, <2>3 DEF PreflightPath, Refuse, TypeOK
<1>7. ~PreflightEnds(r)
  <2> SUFFICES ASSUME PreflightEnds(r) PROVE FALSE
    OBVIOUS
  <2>1. pc[r] = "paths" /\ at[r] > Len(Files[r]) /\ at[r] \in Nat
    BY DEF PreflightEnds, TypeOK
  <2>2. \A i \in DOMAIN Files[r] : i < at[r]
    BY <2>1, PlanAssumption
  <2> QED
    BY <2>1, <2>2 DEF Barred, Clashes, ToSet
<1> QED
  BY <1>2, <1>4, <1>5, <1>6, <1>7

BInv == PInv /\ \A r \in Run : Barred(r)

LEMMA NextBInv ==
    /\ Init => BInv
    /\ BInv /\ [Next]_vars => BInv'
<1>1. ASSUME Init PROVE BInv
  <2>1. PInv
    BY <1>1, NextPInv
  <2>2. ASSUME NEW r \in Run PROVE Barred(r)
    <3>1. pc[r] = "plan" /\ removed[r] = 0 /\ left[r] = 0
      BY <1>1 DEF Init
    <3>2. Owned(r) = {}
      BY <2>1, <3>1 DEF PInv, Kept, Looking
    <3> QED
      BY <3>1, <3>2 DEF Barred, Looking
  <2> QED
    BY <2>1, <2>2 DEF BInv
<1>2. ASSUME BInv, [Next]_vars PROVE BInv'
  <2>1. PInv' /\ IInv /\ TypeOK
    BY <1>2, NextPInv DEF BInv, PInv, IInv
  <2>2. ASSUME NEW s \in Run PROVE Barred(s)'
    <3>1. Barred(s)
      BY <1>2 DEF BInv
    <3>2. CASE ~Clashes(s)
      BY <3>2 DEF Barred, Clashes
    <3>3. ASSUME Clashes(s), Step(s) \/ Crash(s) PROVE Barred(s)'
      BY <2>1, <3>1, <3>3, BarredStays
    <3>4. ASSUME Apart(s), at'[s] = at[s] PROVE Barred(s)'
      BY <3>1, <3>4 DEF Barred, Clashes, Apart
    <3>5. CASE UNCHANGED vars
      <4>1. Apart(s) /\ at'[s] = at[s]
        BY <3>5 DEF vars, Apart, Owned, Present
      <4> QED
        BY <3>4, <4>1
    <3>6. ASSUME NEW r \in Run, Step(r) \/ Crash(r), r # s PROVE Barred(s)'
      <4>1. at'[s] = at[s]
        BY <2>1, <3>6, StepIsLocal DEF Crash
      <4> QED
        BY <2>1, <3>4, <3>6, <4>1, StepApart
    <3>7. CASE ClearMarker \/ StrangerCreates \/ StrangerRemoves
      <4>1. at'[s] = at[s]
        BY <3>7 DEF ClearMarker, StrangerCreates, StrangerRemoves
      <4> QED
        BY <2>1, <3>4, <3>7, <4>1, OutsideApart
    <3> QED
      BY <1>2, <3>2, <3>3, <3>5, <3>6, <3>7 DEF Next
  <2> QED
    BY <2>1, <2>2 DEF BInv
<1> QED
  BY <1>1, <1>2

\* What of a run is there and no longer recorded has been counted.
Told(r) ==
    pc[r] = "undo" => Cardinality(Owned(r) \ Recorded(r)) <= left[r]

\* A smaller remainder, or one path more than before, has no more members.
LEMMA Remainders ==
    ASSUME NEW S \in SUBSET Path, NEW T, NEW p
    PROVE  /\ Cardinality(S) \in Nat
           /\ T \subseteq S => Cardinality(T) <= Cardinality(S)
           /\ T \subseteq S \cup {p} => Cardinality(T) <= Cardinality(S) + 1
<1>1. IsFiniteSet(S) /\ Cardinality(S) \in Nat
  BY PathAssumption, FS_Subset, FS_CardinalityType
<1>2. IsFiniteSet(S \cup {p}) /\ Cardinality(S \cup {p}) <= Cardinality(S) + 1
  BY <1>1, FS_AddElement, FS_CardinalityType
<1>3. ASSUME T \subseteq S PROVE Cardinality(T) <= Cardinality(S)
  BY <1>1, <1>3, FS_Subset
<1>4. ASSUME T \subseteq S \cup {p} PROVE Cardinality(T) <= Cardinality(S) + 1
  <2>1. IsFiniteSet(T) /\ Cardinality(T) <= Cardinality(S \cup {p})
    BY <1>2, <1>4, FS_Subset
  <2>2. Cardinality(T) \in Nat /\ Cardinality(S \cup {p}) \in Nat
    BY <1>2, <2>1, FS_CardinalityType
  <2> QED
    BY <1>1, <1>2, <2>1, <2>2
<1> QED
  BY <1>1, <1>3, <1>4

LEMMA UndoNewestTold ==
    ASSUME IInv, NEW r \in Run, Told(r), UndoNewest(r)
    PROVE  Told(r)'
<1> DEFINE newest == Last(ledger[r])
           rest == Owned(r) \ Recorded(r)
<1>1. /\ TypeOK /\ pc[r] = "undo" /\ ledger[r] \in Seq(Record) /\ ledger[r] # <<>>
      /\ left[r] \in Nat /\ Cardinality(rest) <= left[r]
  BY DEF UndoNewest, IInv, TypeOK, Told
<1>2. Recorded(r) \subseteq Recorded(r)' \cup {newest.path}
  <2>1. /\ Len(ledger[r]) \in Nat \ {0}
        /\ Front(ledger[r]) \in Seq(Record)
        /\ Len(Front(ledger[r])) = Len(ledger[r]) - 1
        /\ \A i \in 1 .. Len(ledger[r]) - 1 : Front(ledger[r])[i] = ledger[r][i]
        /\ newest = ledger[r][Len(ledger[r])]
    BY <1>1, FrontFacts
  <2>2. ledger'[r] = Front(ledger[r])
    BY <1>1 DEF UndoNewest, TypeOK
  <2>3. DOMAIN ledger'[r] = 1 .. Len(ledger[r]) - 1
    BY <2>1, <2>2
  <2>4. \A i \in DOMAIN ledger[r] :
            \/ i = Len(ledger[r])
            \/ i \in DOMAIN ledger'[r] /\ ledger'[r][i] = ledger[r][i]
    <3>1. DOMAIN ledger[r] = 1 .. Len(ledger[r])
      BY <1>1
    <3>2. \A i \in 1 .. Len(ledger[r]) :
              i = Len(ledger[r]) \/ i \in 1 .. Len(ledger[r]) - 1
      BY <2>1
    <3> QED
      BY <2>1, <2>2, <2>3, <3>1, <3>2
  <2> QED
    BY <2>1, <2>4 DEF Recorded
<1>3. newest.path \in Path
  <2>1. newest \in Record
    BY <1>1, FrontFacts
  <2> QED
    BY <2>1 DEF Record
<1>4. rest \in SUBSET Path
  BY DEF Owned
<1>5. CASE fs' = [fs EXCEPT ![newest.path] = Nothing] /\ UNCHANGED left
  <2>1. /\ \A q \in Path \ {newest.path} : fs'[q] = fs[q]
        /\ fs'[newest.path].kind = "absent"
    BY <1>1, <1>3, <1>5 DEF TypeOK, Nothing
  <2>2. Owned(r)' \subseteq Owned(r) \ {newest.path}
    BY <2>1 DEF Owned, Present
  <2>3. Owned(r)' \ Recorded(r)' \subseteq rest
    BY <1>2, <2>2
  <2>4. Cardinality(Owned(r)' \ Recorded(r)') <= Cardinality(rest)
    BY <1>4, <2>3, Remainders
  <2>5. Cardinality(rest) \in Nat /\ Cardinality(Owned(r)' \ Recorded(r)') \in Nat
    BY <1>4, <2>3, Remainders
  <2> QED
    BY <1>1, <1>5, <2>4, <2>5 DEF Told
<1>6. CASE left' = [left EXCEPT ![r] = @ + 1] /\ UNCHANGED fs
  <2>1. Owned(r)' = Owned(r) /\ left'[r] = left[r] + 1
    BY <1>1, <1>6 DEF Owned, Present, TypeOK
  <2>2. Owned(r)' \ Recorded(r)' \subseteq rest \cup {newest.path}
    BY <1>2, <2>1
  <2>3. Cardinality(Owned(r)' \ Recorded(r)') <= Cardinality(rest) + 1
    BY <1>4, <2>2, Remainders
  <2>4. Cardinality(rest) \in Nat /\ Cardinality(Owned(r)' \ Recorded(r)') \in Nat
    <3>1. Owned(r)' \ Recorded(r)' \in SUBSET Path
      BY DEF Owned
    <3> QED
      BY <1>4, <3>1, Remainders
  <2> QED
    BY <1>1, <2>1, <2>3, <2>4 DEF Told
<1> QED
  BY <1>5, <1>6 DEF UndoNewest

HInv == PInv /\ \A r \in Run : Told(r)

LEMMA NextHInv ==
    /\ Init => HInv
    /\ HInv /\ [Next]_vars => HInv'
<1>1. ASSUME Init PROVE HInv
  <2>1. PInv /\ \A r \in Run : pc[r] = "plan"
    BY <1>1, NextPInv DEF Init
  <2> QED
    BY <2>1 DEF HInv, Told
<1>2. ASSUME HInv, [Next]_vars PROVE HInv'
  <2>1. PInv' /\ IInv /\ TypeOK /\ TypeOK'
    BY <1>2, NextPInv DEF HInv, PInv, IInv
  <2>2. ASSUME NEW s \in Run PROVE Told(s)'
    <3>1. Told(s)
      BY <1>2 DEF HInv
    <3>2. ASSUME Apart(s) PROVE Told(s)'
      <4>1. Recorded(s)' = Recorded(s) /\ Owned(s)' \subseteq Owned(s)
        BY <3>2 DEF Apart, Recorded
      <4>2. Owned(s) \ Recorded(s) \in SUBSET Path
        BY DEF Owned
      <4>3. Owned(s)' \ Recorded(s)' \subseteq Owned(s) \ Recorded(s)
        BY <4>1
      <4>4. Owned(s)' \ Recorded(s)' \in SUBSET Path
        BY <4>2, <4>3
      <4>5. /\ Cardinality(Owned(s) \ Recorded(s)) \in Nat
            /\ Cardinality(Owned(s)' \ Recorded(s)') \in Nat
            /\ Cardinality(Owned(s)' \ Recorded(s)') <= Cardinality(Owned(s) \ Recorded(s))
        BY <4>2, <4>3, <4>4, Remainders
      <4>6. left'[s] = left[s] /\ pc'[s] = pc[s] /\ left[s] \in Nat
        BY <2>1, <3>2 DEF Apart, TypeOK
      <4> QED
        BY <3>1, <4>5, <4>6 DEF Told
    <3>3. CASE UNCHANGED vars
      <4>1. Apart(s)
        BY <3>3 DEF vars, Apart, Owned, Present
      <4> QED
        BY <3>2, <4>1
    <3>4. ASSUME NEW r \in Run, Step(r) \/ Crash(r), r # s PROVE Told(s)'
      BY <2>1, <3>2, <3>4, StepApart
    <3>5. CASE ClearMarker \/ StrangerCreates \/ StrangerRemoves
      BY <2>1, <3>2, <3>5, OutsideApart
    <3>6. CASE Step(s) \/ Crash(s)
      <4>1. CASE left'[s] = 0
        <5>1. pc'[s] = "undo" => Owned(s)' \subseteq Recorded(s)'
          BY <2>1, <4>1 DEF PInv, Kept
        <5>2. pc'[s] = "undo" => Owned(s)' \ Recorded(s)' = {}
          BY <5>1
        <5> QED
          BY <4>1, <5>2, FS_EmptySet DEF Told
      <4>2. CASE pc[s] # "undo" /\ left'[s] # 0
        <5>1. pc'[s] # "undo"
          BY <1>2, <2>1, <3>6, <4>2 DEF HInv, PInv, Kept, TypeOK, Step, Crash, Go, Fail,
             Refuse, Looking, Writing, Plan, PreflightDestination, PreflightMarker,
             PreflightNames, PreflightPath, PreflightEnds, OpenRoot, CreateMarker,
             MakeDirectory, AcceptDirectory, DirectoriesEnd, CreateFile, WriteFile,
             FilesEnd, RemoveMarker, UndoNewest, UndoEnds, counts
        <5> QED
          BY <5>1 DEF Told
      <4>3. CASE pc[s] = "undo"
        <5>1. UndoNewest(s) \/ UndoEnds(s) \/ Crash(s)
          BY <3>6, <4>3 DEF Step, Plan, PreflightDestination, PreflightMarker,
             PreflightNames, PreflightPath, PreflightEnds, OpenRoot, CreateMarker,
             MakeDirectory, AcceptDirectory, DirectoriesEnd, CreateFile, WriteFile,
             FilesEnd, RemoveMarker
        <5>2. CASE UndoNewest(s)
          BY <2>1, <3>1, <5>2, UndoNewestTold
        <5>3. CASE UndoEnds(s) \/ Crash(s)
          BY <2>1, <5>3 DEF UndoEnds, Crash, Go, TypeOK, Told
        <5> QED
          BY <5>1, <5>2, <5>3
      <4> QED
        BY <4>1, <4>2, <4>3
    <3> QED
      BY <1>2, <3>3, <3>4, <3>5, <3>6 DEF Next
  <2> QED
    BY <2>1, <2>2 DEF HInv
<1> QED
  BY <1>1, <1>2

\* A run that reports a failure never leaves more in the destination than it
\* says, whatever crashes, failing removals, other runs and strangers who take
\* its output away do: the first half of ReportIsExact, for every instance.
THEOREM NothingIsHidden ==
    Spec => [][\A r \in Run : pc[r] = "undo" /\ pc'[r] = "refused" =>
                  Cardinality(Owned(r)) <= left[r]]_vars
<1>1. ASSUME HInv, Next, NEW r \in Run, pc[r] = "undo", pc'[r] = "refused"
      PROVE  Cardinality(Owned(r)) <= left[r]
  <2>1. TypeOK /\ IInv /\ Told(r)
    BY <1>1 DEF HInv, PInv, IInv
  <2>2. PICK s \in Run : Step(s) \/ Crash(s)
    BY <1>1 DEF Next, ClearMarker, StrangerCreates, StrangerRemoves
  <2>3. s = r
    <3> SUFFICES ASSUME s # r PROVE FALSE
      OBVIOUS
    <3>1. pc'[r] = pc[r]
      BY <2>1, <2>2, StepApart DEF Apart
    <3> QED
      BY <1>1, <3>1
  <2>4. ledger[r] = <<>>
    BY <1>1, <2>1, <2>2, <2>3
       DEF Step, Plan, PreflightDestination, PreflightMarker, PreflightNames,
           PreflightPath, PreflightEnds, OpenRoot, CreateMarker, MakeDirectory,
           AcceptDirectory, DirectoriesEnd, CreateFile, WriteFile, FilesEnd,
           RemoveMarker, UndoNewest, UndoEnds, Crash, Go, TypeOK
  <2>5. Owned(r) \ Recorded(r) = Owned(r)
    BY <2>4 DEF Recorded
  <2> QED
    BY <1>1, <2>1, <2>5 DEF Told
<1>2. HInv /\ [Next]_vars =>
        [\A r \in Run : pc[r] = "undo" /\ pc'[r] = "refused" =>
            Cardinality(Owned(r)) <= left[r]]_vars
  BY <1>1
<1> QED
  BY <1>2, NextHInv, PTL DEF Spec

\* A code that is decided before the first write tells the caller that the
\* run wrote nothing, the one of a lost race for the marker included; and a
\* run that would collide with its own marker never writes.
THEOREM EarlyRefusalIsClean == Spec => []EarlyCodesWroteNothing
<1>1. BInv => EarlyCodesWroteNothing
  BY DEF BInv, PInv, Kept, Barred, EarlyCodesWroteNothing
<1> QED
  BY <1>1, NextBInv, PTL DEF Spec

\* Output of a run that did not succeed is marked as unfinished, or reported
\* as left behind, or somebody cleared the marker: at every step, through
\* crashes and other runs' undo passes, and whatever strangers do.
THEOREM OutputIsMarked == Spec => []MarkedOrReported
<1>1. ASSUME PInv PROVE MarkedOrReported
  <2> SUFFICES ASSUME NEW r \in Run, Owned(r) # {}, pc[r] # "done",
                      ~(left[r] > 0), <<r, Marker>> \notin taken
               PROVE  Present(Marker)
    BY DEF MarkedOrReported
  <2>1. Kept(r) /\ TypeOK /\ Lock
    BY <1>1 DEF PInv, IInv
  <2>2. left[r] = 0
    BY <2>1 DEF TypeOK
  <2>3. CASE pc[r] \in {"refused", "crashed"}
    BY <2>1, <2>2, <2>3 DEF Kept, Owned
  <2>4. CASE pc[r] \in Writing \cup {"undo"}
    <3>1. Recorded(r) # {}
      BY <2>1, <2>2, <2>4 DEF Kept
    <3>2. ledger[r] # <<>>
      BY <3>1 DEF Recorded
    <3> QED
      BY <2>1, <2>4, <3>2 DEF Holding, Lock, Present
  <2>5. pc[r] \notin Looking
    BY <2>1 DEF Kept
  <2>6. pc[r] \in Looking \cup Writing \cup {"undo"} \cup {"done", "refused", "crashed"}
    BY <2>1 DEF TypeOK, Ended
  <2> QED
    BY <2>3, <2>4, <2>5, <2>6
<1> QED
  BY <1>1, PromisesHold, PTL

-----------------------------------------------------------------------------
(* Where nobody else removes anything.                                     *)

NoRemoval == Erasable = {}

-----------------------------------------------------------------------------
(* Paths.                                                                  *)

LEMMA PathFacts ==
    ASSUME NEW p \in Path
    PROVE  /\ \E S : p \in Seq(S)
           /\ Len(p) \in Nat
           /\ p # <<>> => Len(p) \in Nat \ {0} /\ Parent(p) = SubSeq(p, 1, Len(p) - 1)
           /\ Ancestors(p) \subseteq Path
<1>1. p \in Seq(UNION {ToSet(q) : q \in Path}) /\ Ancestors(p) \subseteq Path
  BY PathAssumption
<1>2. Len(p) \in Nat /\ (p # <<>> => Len(p) # 0)
  BY <1>1
<1>3. Parent(p) = SubSeq(p, 1, Len(p) - 1)
  BY DEF Parent, Front
<1> QED
  BY <1>1, <1>2, <1>3

\* A prefix of a prefix is a prefix.
LEMMA PrefixOfPrefix ==
    ASSUME NEW S, NEW p \in Seq(S), NEW m \in 0 .. Len(p), NEW n \in 0 .. m
    PROVE  /\ SubSeq(p, 1, m) \in Seq(S) /\ Len(SubSeq(p, 1, m)) = m
           /\ SubSeq(SubSeq(p, 1, m), 1, n) = SubSeq(p, 1, n)
<1>1. SubSeq(p, 1, m) = [i \in 1 .. m |-> p[i]]
  OBVIOUS
<1>2. SubSeq(p, 1, m) \in Seq(S) /\ Len(SubSeq(p, 1, m)) = m
  BY <1>1
<1>3. SubSeq(SubSeq(p, 1, m), 1, n) = [i \in 1 .. n |-> SubSeq(p, 1, m)[i]]
  BY <1>2
<1>4. SubSeq(p, 1, n) = [i \in 1 .. n |-> p[i]]
  OBVIOUS
<1>5. \A i \in 1 .. n : SubSeq(p, 1, m)[i] = p[i]
  BY <1>1
<1> QED
  BY <1>2, <1>3, <1>4, <1>5

\* What is above a path is its parent and what is above that.
LEMMA AncestorsOfParent ==
    ASSUME NEW p \in Path, p # <<>>
    PROVE  /\ Ancestors(p) = Ancestors(Parent(p)) \cup {Parent(p)}
           /\ Parent(p) \in Path
<1>1. PICK S : p \in Seq(S)
  BY PathFacts
<1>2. Len(p) \in Nat \ {0} /\ Parent(p) = SubSeq(p, 1, Len(p) - 1)
  BY PathFacts
<1>3. Len(p) - 1 \in 0 .. Len(p)
  BY <1>2
<1>4. /\ Len(Parent(p)) = Len(p) - 1
      /\ \A n \in 0 .. Len(p) - 1 : SubSeq(Parent(p), 1, n) = SubSeq(p, 1, n)
  <2> DEFINE m == Len(p) - 1
  <2>1. m \in 0 .. Len(p) /\ m \in 0 .. m
    BY <1>2
  <2>2. \A n \in 0 .. m : SubSeq(SubSeq(p, 1, m), 1, n) = SubSeq(p, 1, n)
    BY <1>1, <2>1, PrefixOfPrefix
  <2>3. Len(SubSeq(p, 1, m)) = m
    BY <1>1, <2>1, PrefixOfPrefix
  <2> QED
    BY <1>2, <2>2, <2>3
<1>5. 0 .. Len(p) - 1 = (0 .. Len(Parent(p)) - 1) \cup {Len(p) - 1}
  BY <1>2, <1>4
<1>6. \A n \in 0 .. Len(Parent(p)) - 1 : SubSeq(Parent(p), 1, n) = SubSeq(p, 1, n)
  BY <1>4, <1>5
<1> QED
  BY ZenonT(30), <1>2, <1>5, <1>6, ParentIsPath DEF Ancestors

\* Between a path and one above it lies a child of the upper one.
LEMMA ChildBetween ==
    ASSUME NEW q \in Path, NEW a \in Ancestors(q)
    PROVE  /\ \E c \in Ancestors(q) \cup {q} : c \in Path /\ c # <<>> /\ Parent(c) = a
           /\ a # q
<1>1. PICK S : q \in Seq(S)
  BY PathFacts
<1>2. PICK n \in 0 .. Len(q) - 1 : a = SubSeq(q, 1, n)
  BY DEF Ancestors
<1>3. Len(q) \in Nat /\ Ancestors(q) \subseteq Path
  BY PathFacts
<1>4. n \in Nat /\ n + 1 \in 0 .. Len(q) /\ n \in 0 .. n + 1 /\ n \in 0 .. Len(q)
  BY <1>2, <1>3
<1> DEFINE c == SubSeq(q, 1, n + 1)
<1>5. c \in Seq(S) /\ Len(c) = n + 1 /\ SubSeq(c, 1, n) = a
  BY <1>1, <1>2, <1>4, PrefixOfPrefix
<1>6. Len(a) = n
  BY <1>1, <1>2, <1>4, PrefixOfPrefix
<1>7. c \in Ancestors(q) \cup {q}
  <2>1. CASE n + 1 = Len(q)
    <3>1. c = q
      BY <1>1, <2>1
    <3> QED
      BY <3>1
  <2>2. CASE n + 1 # Len(q)
    <3>1. n + 1 \in 0 .. Len(q) - 1
      BY <1>3, <1>4, <2>2
    <3> QED
      BY <3>1 DEF Ancestors
  <2> QED
    BY <2>1, <2>2
<1>8. c # <<>>
  BY <1>4, <1>5
<1>9. c \in Path
  BY <1>3, <1>7
<1>10. Parent(c) = a
  <2>1. Parent(c) = SubSeq(c, 1, Len(c) - 1)
    BY <1>8, <1>9, PathFacts
  <2>2. Len(c) - 1 = n
    BY <1>4, <1>5
  <2> QED
    BY <1>5, <2>1, <2>2
<1>11. a # q
  BY <1>2, <1>3, <1>6
<1> QED
  BY <1>7, <1>8, <1>9, <1>10, <1>11

\* The marker lies directly in the destination.
LEMMA MarkerFacts == Marker \in Path /\ Marker # <<>> /\ Ancestors(Marker) = {<<>>}
<1>1. Marker \in Path /\ Marker # <<>> /\ Len(Marker) = 1
  BY PathAssumption DEF Marker
<1>2. 0 .. Len(Marker) - 1 = {0}
  BY <1>1
<1>3. SubSeq(Marker, 1, 0) = <<>>
  BY DEF Marker
<1>4. Ancestors(Marker) = {SubSeq(Marker, 1, n) : n \in {0}}
  BY <1>2 DEF Ancestors
<1> QED
  BY <1>1, <1>3, <1>4

-----------------------------------------------------------------------------
(* The invariant.                                                          *)

\* What is there lies in directories only.
Tree == \A p \in Path : Present(p) => \A a \in Ancestors(p) : IsDirectory(a)

\* The destination is nobody's, and there for whoever is about to mark it.
Rooted ==
    /\ fs[<<>>].by = Stranger
    /\ \A r \in Run : pc[r] = "mark" => IsDirectory(<<>>)

IsWhole(r, f) ==
    f # Marker /\ fs[f] = [kind |-> "file", by |-> r, full |-> TRUE]

\* How much of its plan a run has stored.
Stored(r) ==
    /\ pc[r] \in {"files", "write"} =>
          \A i \in DOMAIN Files[r] : i < at[r] => IsWhole(r, Files[r][i])
    /\ pc[r] = "write" =>
          Files[r][at[r]] # Marker /\ fs[Files[r][at[r]]] = Made(r, "file")
    /\ pc[r] \in {"unmark", "done"} =>
          \A i \in DOMAIN Files[r] : IsWhole(r, Files[r][i])
    /\ pc[r] = "done" => Marker \notin Owned(r)

\* What the undo pass could not remove is counted.
Counted(r) == pc[r] = "undo" => Cardinality(Owned(r) \ Recorded(r)) = left[r]

\* A record tells what was created, parents come first, and below what a
\* holder created there is nothing of another run.
Nested(r) ==
    Holding(r) =>
        /\ \A i \in DOMAIN ledger[r] :
              /\ ledger[r][i].kind \in {"file", "directory"}
              /\ fs[ledger[r][i].path].kind = ledger[r][i].kind
        /\ \A i, j \in DOMAIN ledger[r] :
              ledger[r][j].path \in Ancestors(ledger[r][i].path) => j < i
        /\ \A q \in Path \ {<<>>} :
              Present(q) /\ Parent(q) \in Owned(r) => fs[q].by \in {r, Stranger}

\* What is known before the parts that need NoRemoval are.
Basis == PInv /\ OInv /\ Tree /\ Rooted

WInv == Basis /\ \A r \in Run : Stored(r) /\ Counted(r) /\ Nested(r)

\* Without removals by others, a holder's records are of its own objects.
LEMMA RecordedIsOwned ==
    ASSUME NoRemoval, OInv, NEW r \in Run, Holding(r)
    PROVE  /\ \A i \in DOMAIN ledger[r] : ledger[r][i].path \in Owned(r)
           /\ \A i, j \in DOMAIN ledger[r] :
                 ledger[r][i].path = ledger[r][j].path => i = j
<1>1. \A i \in DOMAIN ledger[r] :
          IF fs[ledger[r][i].path].kind = "absent"
          THEN ledger[r][i].path \in Erasable
          ELSE fs[ledger[r][i].path].by = r
  BY DEF OInv, Own
<1>2. \A i, j \in DOMAIN ledger[r] :
          i # j /\ ledger[r][i].path = ledger[r][j].path =>
              ledger[r][i].path \in Erasable
  BY DEF OInv, Own
<1>3. \A i \in DOMAIN ledger[r] : ledger[r][i].path \in Path
  BY RecordedPath DEF OInv
<1>4. Erasable = {}
  BY DEF NoRemoval
<1>5. \A i \in DOMAIN ledger[r] : ledger[r][i].path \in Owned(r)
  BY <1>1, <1>3, <1>4 DEF Owned, Present
<1>6. \A i, j \in DOMAIN ledger[r] :
          ledger[r][i].path = ledger[r][j].path => i = j
  BY <1>2, <1>4
<1> QED
  BY <1>5, <1>6

-----------------------------------------------------------------------------
(* The tree.                                                               *)

\* Three kinds of steps on the file system: none or the bytes of a file only,
\* a creation in a directory, a removal of what has nothing below it.
SameShape == \A q \in Path : fs'[q].kind = fs[q].kind /\ fs'[q].by = fs[q].by

Creates(who, p, kind) ==
    /\ ~Present(p) /\ p # <<>> /\ IsDirectory(Parent(p))
    /\ kind \in Kind \ {"absent"}
    /\ fs' = [fs EXCEPT ![p] = Made(who, kind)]

Removes(p) ==
    /\ p # <<>>
    /\ ~IsDirectory(p) \/ Childless(p)
    /\ fs' = [fs EXCEPT ![p] = Nothing]

LEMMA AbsentBelow ==
    ASSUME Tree, NEW p \in Path, ~IsDirectory(p) \/ Childless(p),
           NEW q \in Path, p \in Ancestors(q)
    PROVE  ~Present(q)
<1> SUFFICES ASSUME Present(q) PROVE FALSE
  OBVIOUS
<1>1. IsDirectory(p)
  BY DEF Tree
<1>2. PICK c \in Ancestors(q) \cup {q} : c \in Path /\ c # <<>> /\ Parent(c) = p
  BY ChildBetween
<1>3. Present(c)
  BY <1>2 DEF Tree, IsDirectory, Present
<1> QED
  BY <1>1, <1>2, <1>3 DEF Childless

LEMMA ShapeTree ==
    ASSUME TypeOK, Tree, SameShape
    PROVE  Tree'
BY PathAssumption DEF Tree, SameShape, Present, IsDirectory

LEMMA CreatesTree ==
    ASSUME TypeOK, Tree, NEW p \in Path, NEW who, NEW kind, Creates(who, p, kind)
    PROVE  Tree'
<1>1. \A q \in Path \ {p} : fs'[q] = fs[q]
  BY DEF Creates, TypeOK
<1>2. fs'[p] = Made(who, kind)
  BY DEF Creates, TypeOK
<1>3. Parent(p) \in Path /\ Ancestors(p) = Ancestors(Parent(p)) \cup {Parent(p)}
  BY AncestorsOfParent DEF Creates
<1>4. \A a \in Ancestors(p) : IsDirectory(a) /\ a \in Path /\ a # p
  <2>1. Present(Parent(p)) /\ IsDirectory(Parent(p))
    BY DEF Creates, Present, IsDirectory
  <2>2. \A a \in Ancestors(p) : IsDirectory(a)
    BY <1>3, <2>1 DEF Tree
  <2> QED
    BY <2>2, PathFacts, ChildBetween
<1>5. \A q \in Path : p \in Ancestors(q) => ~Present(q)
  BY AbsentBelow DEF Creates, IsDirectory, Present
<1> SUFFICES ASSUME NEW q \in Path, Present(q)', NEW a \in Ancestors(q)
             PROVE  IsDirectory(a)'
  BY DEF Tree
<1>6. CASE q = p
  BY <1>1, <1>4, <1>6 DEF IsDirectory
<1>7. CASE q # p
  <2>1. Present(q)
    BY <1>1, <1>7 DEF Present
  <2>2. IsDirectory(a) /\ a # p /\ a \in Path
    BY <1>5, <2>1, PathFacts DEF Tree
  <2> QED
    BY <1>1, <2>2 DEF IsDirectory
<1> QED
  BY <1>6, <1>7

LEMMA RemovesTree ==
    ASSUME TypeOK, Tree, NEW p \in Path, Removes(p)
    PROVE  Tree'
<1>1. \A q \in Path \ {p} : fs'[q] = fs[q]
  BY DEF Removes, TypeOK
<1>2. fs'[p].kind = "absent"
  BY DEF Removes, TypeOK, Nothing
<1> SUFFICES ASSUME NEW q \in Path, Present(q)', NEW a \in Ancestors(q)
             PROVE  IsDirectory(a)'
  BY DEF Tree
<1>3. q # p /\ Present(q)
  BY <1>1, <1>2 DEF Present
<1>4. a # p /\ a \in Path /\ IsDirectory(a)
  BY <1>3, AbsentBelow, PathFacts DEF Removes, Tree
<1> QED
  BY <1>1, <1>4 DEF IsDirectory

\* Every step is of one of the three kinds.
LEMMA StepShape ==
    ASSUME NoRemoval, Basis, NEW r \in Run, Step(r) \/ Crash(r)
    PROVE  \/ SameShape
           \/ \E p \in Path, kind \in {"file", "directory"} :
                 /\ Creates(r, p, kind) /\ RecordCreation(r, p, kind)
                 /\ pc[r] \in Writing \cup {"mark"}
                 /\ pc'[r] \in Writing /\ UNCHANGED <<code, counts>>
           \/ \E p \in Path : Removes(p) /\ Holding(r)
<1>1. /\ TypeOK /\ Lock /\ LedgerShape /\ Tree /\ Rooted /\ OInv
      /\ pc \in [Run -> Looking \cup Writing \cup {"undo"} \cup Ended]
  BY DEF Basis, OInv, IInv, TypeOK
<1>2. CASE UNCHANGED fs
  BY <1>2 DEF SameShape
<1>3. CASE CreateMarker(r)
  <2>1. CASE /\ ~Present(Marker)
             /\ fs' = [fs EXCEPT ![Marker] = Made(r, "file")]
             /\ RecordCreation(r, Marker, "file")
             /\ Go(r, "directories")
    <3>1. IsDirectory(<<>>) /\ pc[r] = "mark" /\ UNCHANGED <<code, counts>>
      BY <1>1, <1>3, <2>1 DEF CreateMarker, Rooted, Go
    <3>2. pc'[r] \in Writing
      BY <1>1, <2>1 DEF Go, Writing
    <3>3. Parent(Marker) = <<>>
      <4>1. Parent(Marker) \in Ancestors(Marker)
        BY MarkerFacts, AncestorsOfParent
      <4> QED
        BY <4>1, MarkerFacts
    <3>4. Creates(r, Marker, "file")
      BY <2>1, <3>1, <3>3, MarkerFacts DEF Creates, Kind
    <3> QED
      BY <2>1, <3>1, <3>2, <3>4, MarkerFacts
  <2> QED
    BY <1>2, <1>3, <2>1 DEF CreateMarker
<1>4. CASE MakeDirectory(r)
  <2> DEFINE p == Directories[r][at[r]]
  <2>1. p \in Path /\ p # <<>> /\ pc[r] \in Writing
    BY <1>4, PlanAssumption DEF MakeDirectory, Writing
  <2>2. CASE /\ Reaches(Parent(p)) /\ ~Present(p)
             /\ fs' = [fs EXCEPT ![p] = Made(r, "directory")]
             /\ RecordCreation(r, p, "directory")
             /\ Go(r, "directories")
    <3>1. Creates(r, p, "directory")
      BY <2>1, <2>2 DEF Creates, Kind, Reaches
    <3>2. pc'[r] \in Writing /\ UNCHANGED <<code, counts>>
      BY <1>1, <1>4, <2>2 DEF Go, Writing, MakeDirectory
    <3> QED
      BY <2>1, <2>2, <3>1, <3>2
  <2> QED
    BY <1>2, <1>4, <2>2 DEF MakeDirectory
<1>5. CASE CreateFile(r)
  <2> DEFINE f == Files[r][at[r]]
  <2>1. f \in Path /\ f # <<>> /\ pc[r] \in Writing
    BY <1>5, PlanAssumption DEF CreateFile, Writing
  <2>2. CASE /\ Reaches(Parent(f)) /\ ~Present(f)
             /\ fs' = [fs EXCEPT ![f] = Made(r, "file")]
             /\ RecordCreation(r, f, "file")
             /\ Go(r, "write")
    <3>1. Creates(r, f, "file")
      BY <2>1, <2>2 DEF Creates, Kind, Reaches
    <3>2. pc'[r] \in Writing /\ UNCHANGED <<code, counts>>
      BY <1>1, <1>5, <2>2 DEF Go, Writing, CreateFile
    <3> QED
      BY <2>1, <2>2, <3>1, <3>2
  <2> QED
    BY <1>2, <1>5, <2>2 DEF CreateFile
<1>6. CASE WriteFile(r)
  <2>1. CASE fs' = [fs EXCEPT ![Files[r][at[r]]].full = TRUE]
    <3>1. \A q \in Path : fs[q] \in Object
      BY <1>1 DEF TypeOK
    <3>2. \A q \in Path : fs'[q] = fs[q] \/ fs'[q] = [fs[q] EXCEPT !.full = TRUE]
      BY <1>1, <2>1 DEF TypeOK
    <3>3. \A o \in Object : LET w == [o EXCEPT !.full = TRUE]
                           IN  w.kind = o.kind /\ w.by = o.by
      BY DEF Object
    <3> QED
      BY <3>1, <3>2, <3>3 DEF SameShape
  <2> QED
    BY <1>2, <1>6, <2>1 DEF WriteFile
<1>7. CASE RemoveMarker(r)
  <2>1. Holding(r)
    BY <1>1, <1>7 DEF RemoveMarker, LedgerShape, Holding, Writing
  <2>2. UNCHANGED fs \/ Removes(Marker)
    BY <1>7, MarkerFacts DEF RemoveMarker, Removes
  <2> QED
    BY <1>2, <2>1, <2>2, MarkerFacts
<1>8. CASE UndoNewest(r)
  <2>1. Holding(r) /\ ledger[r] \in Seq(Record) /\ ledger[r] # <<>>
    BY <1>1, <1>8 DEF UndoNewest, Holding, TypeOK
  <2>2. /\ Last(ledger[r]) \in Record
        /\ Len(ledger[r]) \in DOMAIN ledger[r]
        /\ Last(ledger[r]) = ledger[r][Len(ledger[r])]
    <3>1. Last(ledger[r]) \in Record /\ Last(ledger[r]) = ledger[r][Len(ledger[r])]
      BY <2>1, FrontFacts
    <3>2. Len(ledger[r]) \in Nat \ {0}
      BY <2>1, FrontFacts
    <3> QED
      BY <2>1, <3>1, <3>2
  <2>3. Last(ledger[r]).path \in Owned(r)
    BY <1>1, <2>1, <2>2, RecordedIsOwned
  <2>4. Last(ledger[r]).path # <<>>
    BY <1>1, <2>3, StrangerAssumption DEF Rooted, Owned
  <2>5. ASSUME CanRemove(Last(ledger[r])),
               fs' = [fs EXCEPT ![Last(ledger[r]).path] = Nothing]
        PROVE  Removes(Last(ledger[r]).path)
    BY <2>4, <2>5 DEF CanRemove, Removes, IsDirectory
  <2>6. Last(ledger[r]).path \in Path
    BY <2>3 DEF Owned
  <2> QED
    BY <1>2, <1>8, <2>1, <2>5, <2>6 DEF UndoNewest
<1>9. CASE \/ Plan(r) \/ PreflightDestination(r) \/ PreflightMarker(r)
           \/ PreflightNames(r) \/ PreflightPath(r) \/ PreflightEnds(r)
           \/ OpenRoot(r) \/ AcceptDirectory(r) \/ DirectoriesEnd(r)
           \/ FilesEnd(r) \/ UndoEnds(r) \/ Crash(r)
  <2>1. UNCHANGED fs
    BY <1>9 DEF Plan, PreflightDestination, PreflightMarker, PreflightNames,
       PreflightPath, PreflightEnds, OpenRoot, AcceptDirectory, DirectoriesEnd,
       FilesEnd, UndoEnds, Crash
  <2> QED
    BY <1>2, <2>1
<1> QED
  BY <1>3, <1>4, <1>5, <1>6, <1>7, <1>8, <1>9 DEF Step

LEMMA OutsideShape ==
    ASSUME NoRemoval, TypeOK, Tree, ClearMarker \/ StrangerCreates \/ StrangerRemoves
    PROVE  \/ Removes(Marker)
           \/ \E p \in Path, kind \in Kind : Creates(Stranger, p, kind)
<1>1. CASE ClearMarker
  BY <1>1, MarkerFacts DEF ClearMarker, TakeAway, Removes
<1>2. CASE StrangerCreates
  BY <1>2, StrangerActsAssumption DEF StrangerCreates, Creates
<1>3. ~StrangerRemoves
  BY DEF StrangerRemoves, NoRemoval
<1> QED
  BY <1>1, <1>2, <1>3

\* The tree and its root, over every step.
LEMMA NextBasis ==
    ASSUME NoRemoval
    PROVE  /\ Init => Basis
           /\ Basis /\ [Next]_vars => Basis'
<1>1. NoReplacement
  BY DEF NoReplacement, NoRemoval
<1>2. ASSUME Init PROVE Basis
  <2>1. PInv /\ OInv
    BY <1>1, <1>2, NextPInv, NextOInv
  <2>2. Tree
    BY <1>2, FoundAssumption DEF Init, Tree, Present, IsDirectory
  <2>3. Rooted
    BY <1>2, FoundAssumption, PathAssumption DEF Init, Rooted
  <2> QED
    BY <2>1, <2>2, <2>3 DEF Basis
<1>3. ASSUME Basis, [Next]_vars PROVE Basis'
  <2>1. PInv' /\ OInv'
    BY <1>1, <1>3, NextPInv, NextOInv DEF Basis
  <2>2. TypeOK /\ Tree /\ Rooted /\ <<>> \in Path
    BY <1>3, PathAssumption DEF Basis, OInv, IInv
  <2>3. \/ SameShape
        \/ \E q \in Path, who \in Run \cup {Stranger}, kind \in Kind : Creates(who, q, kind)
        \/ \E q \in Path : Removes(q)
    <3>1. CASE UNCHANGED vars
      BY <3>1 DEF vars, SameShape
    <3>2. ASSUME NEW r \in Run, Step(r) \/ Crash(r) 
          PROVE  \/ SameShape
                 \/ \E q \in Path, who \in Run \cup {Stranger}, kind \in Kind :
                       Creates(who, q, kind)
                 \/ \E q \in Path : Removes(q)
      BY <1>3, <3>2, StepShape DEF Kind
    <3>3. CASE ClearMarker \/ StrangerCreates \/ StrangerRemoves
      BY <2>2, <3>3, OutsideShape, MarkerFacts
    <3> QED
      BY <1>3, <3>1, <3>2, <3>3 DEF Next
  <2>4. Tree'
    BY <2>2, <2>3, ShapeTree, CreatesTree, RemovesTree
  <2>5. fs'[<<>>].kind = fs[<<>>].kind /\ fs'[<<>>].by = fs[<<>>].by
    BY <2>2, <2>3 DEF SameShape, Creates, Removes, TypeOK
  <2>6. ASSUME NEW s \in Run, pc'[s] = "mark" PROVE IsDirectory(<<>>)
    <3>1. CASE pc[s] = "mark"
      BY <2>2, <3>1 DEF Rooted
    <3>2. CASE pc[s] # "mark"
      <4>1. PICK r \in Run : Step(r)
        <5>1. ~UNCHANGED pc
          BY <2>6, <3>2
        <5>2. \A r \in Run : ~Crash(r)
          BY <2>2, <2>6, <3>2 DEF Crash, Go, TypeOK
        <5> QED
          BY <1>3, <5>1, <5>2
             DEF Next, vars, ClearMarker, StrangerCreates, StrangerRemoves
      <4>2. CASE r # s
        BY <2>2, <2>6, <3>2, <4>1, <4>2, StepIsLocal
      <4>3. CASE r = s
        <5>1. CASE OpenRoot(s)
          BY <2>2, <2>6, <5>1 DEF OpenRoot, Go, Refuse, TypeOK
        <5>2. CASE \/ Plan(s) \/ PreflightDestination(s) \/ PreflightMarker(s)
                   \/ PreflightNames(s) \/ PreflightPath(s) \/ PreflightEnds(s)
          BY <2>2, <2>6, <5>2 DEF Plan, PreflightDestination, PreflightMarker,
             PreflightNames, PreflightPath, PreflightEnds, Go, Refuse, TypeOK
        <5>3. CASE \/ CreateMarker(s) \/ MakeDirectory(s) \/ AcceptDirectory(s)
                   \/ DirectoriesEnd(s) \/ CreateFile(s) \/ WriteFile(s)
          BY <2>2, <2>6, <5>3 DEF CreateMarker, MakeDirectory, AcceptDirectory,
             DirectoriesEnd, CreateFile, WriteFile, Go, Fail, TypeOK
        <5>4. CASE FilesEnd(s) \/ RemoveMarker(s) \/ UndoNewest(s) \/ UndoEnds(s)
          BY <2>2, <2>6, <3>2, <5>4 DEF FilesEnd, RemoveMarker, UndoNewest, UndoEnds,
             Go, Fail, TypeOK
        <5> QED
          BY <4>1, <4>3, <5>1, <5>2, <5>3, <5>4 DEF Step
      <4> QED
        BY <4>2, <4>3
    <3> QED
      BY <3>1, <3>2
  <2>7. Rooted'
    BY <2>2, <2>5, <2>6 DEF Rooted, IsDirectory
  <2> QED
    BY <2>1, <2>4, <2>7 DEF Basis
<1> QED
  BY <1>2, <1>3

-----------------------------------------------------------------------------
(* The steps of others.                                                    *)

\* A step that is none of r's leaves what r has in the destination as it was,
\* a finished run's marker excepted, and puts only strangers' things beside
\* a holder's.
Beside(r) ==
    /\ Apart(r) /\ at'[r] = at[r]
    /\ \A p \in Owned(r) : p # Marker \/ pc[r] \notin Ended => fs'[p] = fs[p]
    /\ Holding(r) => \A q \in Path : Present(q)' => fs'[q] = fs[q] \/ fs'[q].by = Stranger

LEMMA StepBeside ==
    ASSUME NoRemoval, Basis, NEW r \in Run, Step(r) \/ Crash(r), NEW s \in Run \ {r}
    PROVE  Beside(s)
<1>1. TypeOK /\ IInv /\ OInv /\ Lock
  BY DEF Basis, OInv, IInv
<1>2. Apart(s)
  BY <1>1, StepApart
<1>3. at'[s] = at[s]
  BY <1>1, StepIsLocal DEF Crash
<1>4. \A p \in Owned(s) : fs'[p] = fs[p]
  <2>1. CASE Step(r)
    BY <1>1, <2>1, StepTouchesOwn DEF Owned
  <2>2. CASE Crash(r)
    BY <2>2 DEF Crash
  <2> QED
    BY <2>1, <2>2
<1>5. ASSUME Holding(s), NEW q \in Path, Present(q)'
      PROVE  fs'[q] = fs[q]
  <2>1. ~Holding(r) /\ LedgerShape /\ fs[Marker].kind # "absent"
    BY <1>1, <1>5, OneHolder DEF Lock, IInv
  <2>2. pc[r] \notin Writing
    BY <2>1 DEF LedgerShape, Holding
  <2>3. UNCHANGED fs
    BY <2>1, <2>2 DEF Holding, Present, Step, Crash, Plan, PreflightDestination,
       PreflightMarker, PreflightNames, PreflightPath, PreflightEnds, OpenRoot,
       CreateMarker, MakeDirectory, AcceptDirectory, DirectoriesEnd, CreateFile,
       WriteFile, FilesEnd, RemoveMarker, UndoNewest, UndoEnds, Writing
  <2> QED
    BY <2>3
<1> QED
  BY <1>2, <1>3, <1>4, <1>5 DEF Beside

LEMMA OutsideBeside ==
    ASSUME NoRemoval, Basis, ClearMarker \/ StrangerCreates \/ StrangerRemoves,
           NEW s \in Run
    PROVE  Beside(s)
<1>1. TypeOK /\ IInv /\ Marker \in Path /\ Apart(s) /\ at' = at /\ ~StrangerRemoves
  BY OutsideApart, PathAssumption
     DEF Basis, OInv, IInv, NoRemoval, ClearMarker, StrangerCreates, StrangerRemoves
<1>2. CASE ClearMarker
  <2>1. /\ fs' = [fs EXCEPT ![Marker] = Nothing]
        /\ fs[Marker].by = s => pc[s] \in Ended
    BY <1>2 DEF ClearMarker, TakeAway
  <2>2. /\ \A p \in Path \ {Marker} : fs'[p] = fs[p]
        /\ fs'[Marker].by = Stranger
    BY <1>1, <2>1 DEF TypeOK, Nothing
  <2> QED
    BY <1>1, <2>1, <2>2 DEF Beside, Owned
<1>3. CASE StrangerCreates
  <2>1. PICK new \in Plantable :
            ~Present(new.path) /\ fs' = [fs EXCEPT ![new.path] = Made(Stranger, new.kind)]
    BY <1>3 DEF StrangerCreates
  <2>2. new.path \in Path
    BY StrangerActsAssumption
  <2>3. /\ \A p \in Path \ {new.path} : fs'[p] = fs[p]
        /\ fs'[new.path].by = Stranger
    BY <1>1, <2>1, <2>2 DEF TypeOK, Made
  <2> QED
    BY <1>1, <2>1, <2>3 DEF Beside, Owned
<1> QED
  BY <1>1, <1>2, <1>3

LEMMA BesideWhole ==
    ASSUME NoRemoval, Basis, NEW r \in Run, Beside(r), Stored(r), Counted(r), Nested(r)
    PROVE  Stored(r)' /\ Counted(r)' /\ Nested(r)'
<1>1. /\ pc'[r] = pc[r] /\ at'[r] = at[r] /\ ledger'[r] = ledger[r] /\ left'[r] = left[r]
      /\ Owned(r)' \subseteq Owned(r)
      /\ OInv
      /\ \A p \in Owned(r) : p # Marker \/ pc[r] \notin Ended => fs'[p] = fs[p]
  BY DEF Beside, Apart, Basis
<1>2. ASSUME NEW f \in Path, f # Marker, Present(f), fs[f].by = r
      PROVE  fs'[f] = fs[f]
  BY <1>1, <1>2 DEF Owned
<1>3. Stored(r)'
  <2>1. \A i \in DOMAIN Files[r] : IsWhole(r, Files[r][i]) => IsWhole(r, Files[r][i])'
    <3>1. \A i \in DOMAIN Files[r] : Files[r][i] \in Path
      BY PlanAssumption
    <3> QED
      BY <1>2, <3>1 DEF IsWhole, Present
  <2>2. pc[r] = "write" => Files[r][at[r]] \in Path
    BY <1>1, PlanAssumption DEF OInv, IInv, InLoop
  <2>3. pc[r] = "write" => fs'[Files[r][at[r]]] = fs[Files[r][at[r]]]
    BY <1>2, <2>2 DEF Stored, Made, Present
  <2> QED
    BY <1>1, <2>1, <2>3 DEF Stored
<1>4. ASSUME pc[r] \notin Ended PROVE Owned(r)' = Owned(r)
  BY <1>1, <1>4 DEF Owned, Present
<1>5. Counted(r)'
  <2>1. Recorded(r)' = Recorded(r)
    BY <1>1 DEF Recorded
  <2> QED
    BY <1>1, <1>4, <2>1 DEF Counted, Ended
<1>6. Nested(r)'
  <2> SUFFICES ASSUME Holding(r)' PROVE Nested(r)'
    BY DEF Nested
  <2>1. Holding(r) /\ pc[r] \notin Ended
    BY <1>1 DEF Holding, Writing, Ended
  <2>2. \A i \in DOMAIN ledger[r] :
            ledger[r][i].path \in Owned(r)
              /\ fs'[ledger[r][i].path] = fs[ledger[r][i].path]
    BY <1>1, <2>1, RecordedIsOwned
  <2>3. ASSUME NEW q \in Path \ {<<>>}, Present(q)', Parent(q) \in Owned(r)'
        PROVE  fs'[q].by \in {r, Stranger}
    <3>1. fs'[q] = fs[q] \/ fs'[q].by = Stranger
      BY <2>1, <2>3 DEF Beside
    <3>2. CASE fs'[q] = fs[q]
      BY <1>1, <2>1, <2>3, <3>2 DEF Nested, Present
    <3> QED
      BY <3>1, <3>2
  <2> QED
    BY <1>1, <2>1, <2>2, <2>3 DEF Nested
<1> QED
  BY <1>3, <1>5, <1>6

-----------------------------------------------------------------------------
(* The run's own steps.                                                    *)

\* A step after which the run holds no more, over the same objects.
LEMMA SameNested ==
    ASSUME NoRemoval, Basis, NEW r \in Run, Nested(r), SameShape,
           Holding(r)' => Holding(r) /\ ledger'[r] = ledger[r]
    PROVE  Nested(r)'
<1> SUFFICES ASSUME Holding(r)' PROVE Nested(r)'
  BY DEF Nested
<1>1. Holding(r) /\ ledger'[r] = ledger[r] /\ OInv
  BY DEF Basis
<1>2. \A i \in DOMAIN ledger[r] : ledger[r][i].path \in Path
  BY <1>1, RecordedIsOwned DEF Owned
<1>3. Owned(r)' = Owned(r)
  BY DEF SameShape, Owned, Present
<1> QED
  BY <1>1, <1>2, <1>3 DEF Nested, SameShape, Present

\* When a run fails, all it has is recorded and nothing is counted.
LEMMA FreshCount ==
    ASSUME PInv', NEW r \in Run, left'[r] = 0
    PROVE  Counted(r)'
<1> SUFFICES ASSUME pc'[r] = "undo"
             PROVE  Cardinality(Owned(r)' \ Recorded(r)') = left'[r]
  BY DEF Counted
<1>1. Owned(r)' \subseteq Recorded(r)'
  BY DEF PInv, Kept
<1>2. Owned(r)' \ Recorded(r)' = {}
  BY <1>1
<1> QED
  BY <1>2, FS_EmptySet

\* What is created goes last in the ledger, below what is recorded, and has
\* nothing below it.
LEMMA CreationNested ==
    ASSUME NoRemoval, Basis, NEW r \in Run, Nested(r),
           pc[r] \in Writing \cup {"mark"},
           NEW p \in Path, NEW kind \in {"file", "directory"},
           Creates(r, p, kind), RecordCreation(r, p, kind)
    PROVE  Nested(r)'
<1>1. TypeOK /\ LedgerShape /\ Tree /\ OInv /\ Kept(r) /\ ledger[r] \in Seq(Record)
  BY DEF Basis, PInv, IInv, TypeOK
<1>2. /\ Len(ledger'[r]) = Len(ledger[r]) + 1
      /\ \A i \in 1 .. Len(ledger[r]) : ledger'[r][i] = ledger[r][i]
      /\ ledger'[r][Len(ledger[r]) + 1] = [path |-> p, kind |-> kind]
      /\ ledger' \in [Run -> Seq(Record)]
  BY <1>1, RecordFacts
<1> DEFINE n == Len(ledger[r])
           new == n + 1
<1>3. /\ DOMAIN ledger'[r] = 1 .. new /\ DOMAIN ledger[r] = 1 .. n /\ n \in Nat
      /\ \A i \in 1 .. new : i \in 1 .. n \/ i = new
  BY <1>1, <1>2
<1>4. /\ \A q \in Path \ {p} : fs'[q] = fs[q]
      /\ fs'[p] = Made(r, kind) /\ ~Present(p)
  BY <1>1 DEF Creates, TypeOK
<1>5. \A q \in Path : p \in Ancestors(q) => ~Present(q)
  BY <1>1, <1>4, AbsentBelow DEF IsDirectory, Present
<1>6. Holding(r) \/ (n = 0 /\ Owned(r) = {})
  <2>1. CASE pc[r] = "mark"
    <3>1. ledger[r] = <<>> /\ Owned(r) = {}
      BY <1>1, <2>1 DEF LedgerShape, Kept, Looking
    <3> QED
      BY <3>1
  <2>2. CASE pc[r] # "mark"
    BY <1>1, <2>2 DEF LedgerShape, Holding
  <2> QED
    BY <2>1, <2>2
<1>7. ASSUME NEW i \in 1 .. n
      PROVE  /\ Holding(r) /\ i \in DOMAIN ledger[r] /\ i < new
             /\ ledger'[r][i] = ledger[r][i]
             /\ ledger[r][i].path \in Owned(r)
             /\ ledger[r][i].path \in Path \ {p}
  <2>1. Holding(r) /\ i \in DOMAIN ledger[r] /\ i < new
    BY <1>3, <1>6
  <2>2. ledger[r][i].path \in Owned(r)
    BY <1>1, <2>1, RecordedIsOwned
  <2> QED
    BY <1>2, <1>4, <2>1, <2>2 DEF Owned
<1>8. ASSUME NEW i \in DOMAIN ledger'[r]
      PROVE  /\ ledger'[r][i].kind \in {"file", "directory"}
             /\ fs'[ledger'[r][i].path].kind = ledger'[r][i].kind
  <2>1. CASE i \in 1 .. n
    BY <1>4, <1>7, <2>1 DEF Nested
  <2>2. CASE i = new
    BY <1>2, <1>4, <2>2 DEF Made
  <2> QED
    BY <1>3, <2>1, <2>2
<1>9. ASSUME NEW i \in DOMAIN ledger'[r], NEW j \in DOMAIN ledger'[r],
             ledger'[r][j].path \in Ancestors(ledger'[r][i].path)
      PROVE  j < i
  <2>1. CASE i \in 1 .. n /\ j \in 1 .. n
    BY <1>7, <1>9, <2>1 DEF Nested
  <2>2. CASE i = new /\ j \in 1 .. n
    BY <1>7, <2>2
  <2>3. CASE i \in 1 .. n /\ j = new
    <3>1. p \in Ancestors(ledger[r][i].path) /\ Present(ledger[r][i].path)
      BY <1>2, <1>7, <1>9, <2>3 DEF Owned
    <3> QED
      BY <1>5, <1>7, <2>3, <3>1
  <2>4. CASE i = new /\ j = new
    <3>1. p \in Ancestors(p)
      BY <1>2, <1>9, <2>4
    <3> QED
      BY <3>1, ChildBetween
  <2> QED
    BY <1>3, <2>1, <2>2, <2>3, <2>4
<1>10. ASSUME NEW q \in Path \ {<<>>}, Present(q)', Parent(q) \in Owned(r)'
       PROVE  fs'[q].by \in {r, Stranger}
  <2>1. CASE q = p
    BY <1>4, <2>1 DEF Made
  <2>2. CASE q # p
    <3>1. Present(q) /\ fs'[q] = fs[q]
      BY <1>4, <1>10, <2>2 DEF Present
    <3>2. Parent(q) \in Ancestors(q)
      BY AncestorsOfParent
    <3>3. Parent(q) # p
      BY <1>5, <3>1, <3>2
    <3>4. Parent(q) \in Owned(r)
      BY <1>4, <1>10, <3>3 DEF Owned, Present
    <3> QED
      BY <1>6, <3>1, <3>4 DEF Nested
  <2> QED
    BY <2>1, <2>2
<1> QED
  BY <1>8, <1>9, <1>10 DEF Nested

LEMMA LookingWhole ==
    ASSUME Basis, NEW r \in Run,
           \/ Plan(r) \/ PreflightDestination(r) \/ PreflightMarker(r)
           \/ PreflightNames(r) \/ PreflightPath(r) \/ PreflightEnds(r)
           \/ OpenRoot(r)
    PROVE  Stored(r)' /\ Counted(r)' /\ Nested(r)'
<1>1. pc'[r] \in Looking \cup {"refused"}
  BY DEF Basis, OInv, IInv, TypeOK, Plan, PreflightDestination, PreflightMarker,
     PreflightNames, PreflightPath, PreflightEnds, OpenRoot, Go, Refuse, Looking
<1> QED
  BY <1>1 DEF Stored, Counted, Nested, Holding, Looking, Writing

\* The parts about records and counts, for every step of the writing half.
LEMMA WritingWhole ==
    ASSUME NoRemoval, Basis, Basis', NEW r \in Run, Nested(r),
           pc[r] \in Writing \cup {"mark"}, Step(r)
    PROVE  Counted(r)' /\ Nested(r)'
<1>1. TypeOK /\ LedgerShape /\ Kept(r)
  BY DEF Basis, PInv, IInv
<1>2. left'[r] = 0
  <2>1. UNCHANGED counts
    BY DEF Step, Plan, PreflightDestination, PreflightMarker, PreflightNames,
       PreflightPath, PreflightEnds, OpenRoot, CreateMarker, MakeDirectory,
       AcceptDirectory, DirectoriesEnd, CreateFile, WriteFile, FilesEnd,
       RemoveMarker, UndoNewest, UndoEnds, Writing
  <2> QED
    BY <1>1, <2>1 DEF Kept, Looking, counts
<1>3. Counted(r)'
  BY <1>2, FreshCount DEF Basis
<1>4. \/ RemoveMarker(r) /\ pc'[r] = "done"
      \/ SameShape /\ UNCHANGED ledger
      \/ \E p \in Path, kind \in {"file", "directory"} :
            Creates(r, p, kind) /\ RecordCreation(r, p, kind)
  <2>1. \/ CreateMarker(r) \/ MakeDirectory(r) \/ CreateFile(r) \/ AcceptDirectory(r)
        \/ DirectoriesEnd(r) \/ WriteFile(r) \/ FilesEnd(r) \/ RemoveMarker(r)
    BY DEF Step, Plan, PreflightDestination, PreflightMarker, PreflightNames,
       PreflightPath, PreflightEnds, OpenRoot, UndoNewest, UndoEnds, Writing
  <2>2. CASE RemoveMarker(r)
    <3>1. CASE Go(r, "done")
      BY <1>1, <2>2, <3>1 DEF Go, TypeOK
    <3> QED
      BY <2>2, <3>1 DEF RemoveMarker, SameShape
  <2>3. CASE UNCHANGED <<fs, ledger>>
    BY <2>3 DEF SameShape
  <2>4. CASE CreateMarker(r) \/ MakeDirectory(r) \/ CreateFile(r)
    <3>1. \/ UNCHANGED <<fs, ledger>>
          \/ \E q \in Path : ~Present(q) /\ fs'[q].kind # "absent"
      <4>1. CASE CreateMarker(r)
        BY <1>1, <4>1, MarkerFacts DEF CreateMarker, TypeOK, Made
      <4>2. CASE MakeDirectory(r)
        <5>1. Directories[r][at[r]] \in Path
          BY <4>2, PlanAssumption DEF MakeDirectory
        <5> QED
          BY <1>1, <4>2, <5>1 DEF MakeDirectory, TypeOK, Made
      <4>3. CASE CreateFile(r)
        <5>1. Files[r][at[r]] \in Path
          BY <4>3, PlanAssumption DEF CreateFile
        <5> QED
          BY <1>1, <4>3, <5>1 DEF CreateFile, TypeOK, Made
      <4> QED
        BY <2>4, <4>1, <4>2, <4>3
    <3>2. CASE \E q \in Path : ~Present(q) /\ fs'[q].kind # "absent"
      <4>1. ~SameShape
        BY <3>2 DEF SameShape, Present
      <4>2. ASSUME NEW q \in Path, Removes(q) PROVE FALSE
        <5>1. \A x \in Path : fs'[x].kind # "absent" => fs[x].kind # "absent"
          BY <1>1, <4>2 DEF Removes, TypeOK, Nothing
        <5> QED
          BY <3>2, <5>1 DEF Present
      <4> QED
        BY <4>1, <4>2, StepShape
    <3> QED
      BY <2>3, <3>1, <3>2
  <2>5. CASE WriteFile(r)
    <3>1. UNCHANGED ledger
      BY <2>5 DEF WriteFile
    <3>2. SameShape
      <4>1. CASE fs' = [fs EXCEPT ![Files[r][at[r]]].full = TRUE]
        <5>1. \A q \in Path : fs[q] \in Object
          BY <1>1 DEF TypeOK
        <5>2. \A q \in Path : fs'[q] = fs[q] \/ fs'[q] = [fs[q] EXCEPT !.full = TRUE]
          BY <1>1, <4>1 DEF TypeOK
        <5>3. \A o \in Object : LET w == [o EXCEPT !.full = TRUE]
                               IN  w.kind = o.kind /\ w.by = o.by
          BY DEF Object
        <5> QED
          BY <5>1, <5>2, <5>3 DEF SameShape
      <4>2. CASE UNCHANGED fs
        BY <4>2 DEF SameShape
      <4> QED
        BY <2>5, <4>1, <4>2 DEF WriteFile
    <3> QED
      BY <3>1, <3>2
  <2>6. CASE AcceptDirectory(r) \/ DirectoriesEnd(r) \/ FilesEnd(r)
    BY <2>3, <2>6 DEF AcceptDirectory, DirectoriesEnd, FilesEnd
  <2> QED
    BY <2>1, <2>2, <2>4, <2>5, <2>6
<1>5. Nested(r)'
  <2>1. CASE pc'[r] = "done"
    BY <2>1 DEF Nested, Holding, Writing
  <2>2. CASE SameShape /\ UNCHANGED ledger
    <3>1. Holding(r)' => Holding(r)
      BY <1>1, <2>2 DEF Holding, LedgerShape, Looking
    <3> QED
      BY <2>2, <3>1, SameNested
  <2>3. CASE \E p \in Path, kind \in {"file", "directory"} :
                Creates(r, p, kind) /\ RecordCreation(r, p, kind)
    BY <2>3, CreationNested
  <2> QED
    BY <1>4, <2>1, <2>2, <2>3
<1> QED
  BY <1>3, <1>5

\* What the writing half has stored, step by step.
LEMMA WritingStored ==
    ASSUME NoRemoval, Basis, NEW r \in Run, Stored(r),
           pc[r] \in Writing \cup {"mark"}, Step(r)
    PROVE  Stored(r)'
<1>1. TypeOK /\ InLoop /\ Lock /\ LedgerShape
  BY DEF Basis, PInv, IInv
<1>2. \/ CreateMarker(r) \/ MakeDirectory(r) \/ AcceptDirectory(r) \/ DirectoriesEnd(r)
      \/ CreateFile(r) \/ WriteFile(r) \/ FilesEnd(r) \/ RemoveMarker(r)
  BY DEF Step, Plan, PreflightDestination, PreflightMarker, PreflightNames,
     PreflightPath, PreflightEnds, OpenRoot, UndoNewest, UndoEnds, Writing
<1>3. \A i \in DOMAIN Files[r] : Files[r][i] \in Path /\ i \in 1 .. Len(Files[r])
  BY PlanAssumption
<1>4. CASE pc'[r] \in {"directories", "recheck", "undo"}
  BY <1>4 DEF Stored
<1>5. CASE CreateMarker(r) \/ MakeDirectory(r) \/ AcceptDirectory(r)
  BY <1>1, <1>4, <1>5 DEF CreateMarker, MakeDirectory, AcceptDirectory, Go, Fail, TypeOK
<1>6. CASE DirectoriesEnd(r)
  <2>1. pc'[r] = "files" /\ at'[r] = 1
    BY <1>1, <1>6 DEF DirectoriesEnd, Go, Restart, TypeOK
  <2>2. \A i \in DOMAIN Files[r] : ~(i < 1)
    BY <1>3
  <2> QED
    BY <2>1, <2>2 DEF Stored
<1>7. CASE CreateFile(r)
  <2> DEFINE f == Files[r][at[r]]
  <2>1. pc[r] = "files" /\ at[r] \in DOMAIN Files[r] /\ at'[r] = at[r] /\ f \in Path
    BY <1>3, <1>7 DEF CreateFile
  <2>2. CASE ~Present(f) /\ fs' = [fs EXCEPT ![f] = Made(r, "file")] /\ Go(r, "write")
    <3>1. pc'[r] = "write"
      BY <1>1, <2>2 DEF Go, TypeOK
    <3>2. f # Marker
      <4>1. Holding(r)
        BY <1>1, <2>1 DEF LedgerShape, Holding, Writing
      <4> QED
        BY <1>1, <2>2, <4>1 DEF Lock, Present
    <3>3. fs'[f] = Made(r, "file") /\ \A q \in Path \ {f} : fs'[q] = fs[q]
      BY <1>1, <2>1, <2>2 DEF TypeOK
    <3>4. ASSUME NEW i \in DOMAIN Files[r], i < at[r]
          PROVE  IsWhole(r, Files[r][i])'
      <4>1. IsWhole(r, Files[r][i])
        BY <2>1, <3>4 DEF Stored
      <4>2. Files[r][i] # f
        BY <2>2, <4>1 DEF IsWhole, Present
      <4> QED
        BY <1>3, <3>3, <4>1, <4>2 DEF IsWhole
    <3> QED
      BY <2>1, <3>1, <3>2, <3>3, <3>4 DEF Stored
  <2>3. CASE \E c : Fail(r, c)
    BY <1>1, <1>4, <2>3 DEF Fail, TypeOK
  <2> QED
    BY <1>7, <2>2, <2>3 DEF CreateFile
<1>8. CASE WriteFile(r)
  <2> DEFINE f == Files[r][at[r]]
  <2>1. pc[r] = "write" /\ at[r] \in DOMAIN Files[r] /\ f \in Path
    BY <1>1, <1>3, <1>8 DEF WriteFile, InLoop
  <2>2. f # Marker /\ fs[f] = [kind |-> "file", by |-> r, full |-> FALSE]
    BY <2>1 DEF Stored, Made
  <2>3. CASE /\ fs' = IF fs[f].by = r THEN [fs EXCEPT ![f].full = TRUE] ELSE fs
             /\ Go(r, "files") /\ Advance(r)
    <3>1. pc'[r] = "files" /\ at'[r] = at[r] + 1 /\ at[r] \in Nat
      BY <1>1, <2>3 DEF Go, Advance, TypeOK
    <3>2. /\ fs'[f] = [fs[f] EXCEPT !.full = TRUE]
          /\ \A q \in Path \ {f} : fs'[q] = fs[q]
      BY <1>1, <2>1, <2>2, <2>3 DEF TypeOK
    <3>3. fs'[f] = [kind |-> "file", by |-> r, full |-> TRUE]
      <4>1. \A o \in Object : \A t :
                [o EXCEPT !.full = t] = [kind |-> o.kind, by |-> o.by, full |-> t]
        BY DEF Object
      <4>2. fs[f] \in Object /\ fs[f].kind = "file" /\ fs[f].by = r
        BY <1>1, <2>1, <2>2 DEF TypeOK
      <4> QED
        BY <3>2, <4>1, <4>2
    <3>4. ASSUME NEW i \in DOMAIN Files[r], i < at[r] + 1
          PROVE  IsWhole(r, Files[r][i])'
      <4>1. CASE i = at[r]
        BY <2>2, <3>3, <4>1 DEF IsWhole
      <4>2. CASE i < at[r]
        <5>1. IsWhole(r, Files[r][i])
          BY <2>1, <4>2 DEF Stored
        <5> QED
          BY <1>3, <2>2, <3>2, <5>1 DEF IsWhole
      <4> QED
        BY <1>3, <3>1, <3>4, <4>1, <4>2
    <3> QED
      BY <3>1, <3>4 DEF Stored
  <2>4. CASE Fail(r, "output.io")
    BY <1>1, <1>4, <2>4 DEF Fail, TypeOK
  <2> QED
    BY <1>8, <2>3, <2>4 DEF WriteFile
<1>9. CASE FilesEnd(r)
  <2>1. /\ pc[r] = "files" /\ pc'[r] = "unmark" /\ at[r] > Len(Files[r]) /\ fs' = fs
        /\ at[r] \in Nat /\ Len(Files[r]) \in Nat
    BY <1>1, <1>9, PlanAssumption DEF FilesEnd, Go, TypeOK
  <2>2. \A i \in DOMAIN Files[r] : i < at[r]
    BY <1>3, <2>1
  <2> QED
    BY <2>1, <2>2 DEF Stored, IsWhole
<1>10. CASE RemoveMarker(r)
  <2>1. CASE fs' = [fs EXCEPT ![Marker] = Nothing] /\ Go(r, "done")
    <3>1. pc[r] = "unmark" /\ pc'[r] = "done"
      BY <1>1, <1>10, <2>1 DEF RemoveMarker, Go, TypeOK
    <3>2. fs'[Marker].kind = "absent" /\ \A q \in Path \ {Marker} : fs'[q] = fs[q]
      BY <1>1, <2>1, MarkerFacts DEF TypeOK, Nothing
    <3>3. \A i \in DOMAIN Files[r] : IsWhole(r, Files[r][i])'
      BY <1>3, <3>1, <3>2 DEF Stored, IsWhole
    <3> QED
      BY <3>1, <3>2, <3>3 DEF Stored, Owned, Present
  <2>2. CASE Fail(r, "output.io")
    BY <1>1, <1>4, <2>2 DEF Fail, TypeOK
  <2> QED
    BY <1>10, <2>1, <2>2 DEF RemoveMarker
<1> QED
  BY <1>2, <1>5, <1>6, <1>7, <1>8, <1>9, <1>10

\* One step of the undo pass: the newest record goes, and what stays is told.
LEMMA UndoWhole ==
    ASSUME NoRemoval, Basis, NEW r \in Run, Counted(r), Nested(r), UndoNewest(r)
    PROVE  Stored(r)' /\ Counted(r)' /\ Nested(r)'
<1> DEFINE n == Len(ledger[r])
           newest == Last(ledger[r])
<1>1. /\ TypeOK /\ OInv /\ pc[r] = "undo" /\ pc'[r] = "undo" /\ Holding(r)
      /\ ledger[r] \in Seq(Record) /\ ledger[r] # <<>>
  BY DEF Basis, UndoNewest, OInv, IInv, TypeOK, Holding
<1>2. /\ n \in Nat \ {0} /\ newest = ledger[r][n]
      /\ Front(ledger[r]) \in Seq(Record) /\ Len(Front(ledger[r])) = n - 1
      /\ \A i \in 1 .. n - 1 : Front(ledger[r])[i] = ledger[r][i]
  BY <1>1, FrontFacts
<1>3. ledger'[r] = Front(ledger[r])
  BY <1>1 DEF UndoNewest, TypeOK
<1>4. /\ DOMAIN ledger[r] = 1 .. n /\ DOMAIN ledger'[r] = 1 .. n - 1
      /\ n \in 1 .. n
      /\ \A i \in 1 .. n - 1 : i \in 1 .. n /\ i # n /\ ledger'[r][i] = ledger[r][i]
      /\ \A i \in 1 .. n : i = n \/ i \in 1 .. n - 1
  BY <1>1, <1>2, <1>3
<1>5. /\ \A i \in 1 .. n : ledger[r][i].path \in Owned(r)
      /\ \A i \in 1 .. n - 1 : ledger[r][i].path # newest.path
  <2>1. /\ \A i \in DOMAIN ledger[r] : ledger[r][i].path \in Owned(r)
        /\ \A i, j \in DOMAIN ledger[r] :
              ledger[r][i].path = ledger[r][j].path => i = j
    BY <1>1, RecordedIsOwned
  <2> QED
    BY <1>2, <1>4, <2>1
<1>6. newest.path \in Owned(r) /\ newest.path \in Path
  BY <1>2, <1>4, <1>5 DEF Owned
<1>7. Recorded(r)' = Recorded(r) \ {newest.path}
  <2>1. Recorded(r)' = {ledger[r][i].path : i \in 1 .. n - 1}
    BY <1>4 DEF Recorded
  <2>2. Recorded(r) = {ledger[r][i].path : i \in 1 .. n}
    BY <1>4 DEF Recorded
  <2>3. \A x : x \in Recorded(r) <=> x \in Recorded(r)' \/ x = newest.path
    BY <1>2, <1>4, <2>1, <2>2
  <2>4. newest.path \notin Recorded(r)'
    BY <1>5, <2>1
  <2> QED
    BY <2>3, <2>4
<1>8. /\ \A q \in Path \ {newest.path} : fs'[q] = fs[q]
      /\ \/ /\ fs'[newest.path].kind = "absent" /\ left'[r] = left[r]
         \/ /\ fs'[newest.path] = fs[newest.path] /\ left'[r] = left[r] + 1
  BY <1>1, <1>6 DEF UndoNewest, TypeOK, Nothing
<1>9. IsFiniteSet(Owned(r)) /\ Cardinality(Owned(r) \ Recorded(r)) = left[r]
      /\ IsFiniteSet(Owned(r) \ Recorded(r))
  <2>1. Owned(r) \in SUBSET Path /\ Owned(r) \ Recorded(r) \in SUBSET Path
    BY DEF Owned
  <2>2. IsFiniteSet(Path)
    BY PathAssumption
  <2>3. IsFiniteSet(Owned(r)) /\ IsFiniteSet(Owned(r) \ Recorded(r))
    BY <2>1, <2>2, FS_Subset
  <2> QED
    BY <1>1, <2>3 DEF Counted
<1>10. newest.path \in Recorded(r)
  BY <1>2, <1>4 DEF Recorded
<1>11. Cardinality(Owned(r)' \ Recorded(r)') = left'[r]
  <2>1. CASE fs'[newest.path].kind = "absent" /\ left'[r] = left[r]
    <3>1. Owned(r)' = Owned(r) \ {newest.path}
      BY <1>6, <1>8, <2>1 DEF Owned, Present
    <3>2. Owned(r)' \ Recorded(r)' = Owned(r) \ Recorded(r)
      BY <1>7, <1>10, <3>1
    <3> QED
      BY <1>9, <2>1, <3>2
  <2>2. CASE fs'[newest.path] = fs[newest.path] /\ left'[r] = left[r] + 1
    <3>1. Owned(r)' = Owned(r)
      BY <1>6, <1>8, <2>2 DEF Owned, Present
    <3>2. Owned(r)' \ Recorded(r)' = (Owned(r) \ Recorded(r)) \cup {newest.path}
      BY <1>6, <1>7, <3>1
    <3>3. newest.path \notin Owned(r) \ Recorded(r)
      BY <1>10
    <3>4. Cardinality((Owned(r) \ Recorded(r)) \cup {newest.path})
              = Cardinality(Owned(r) \ Recorded(r)) + 1
      BY <1>9, <3>3, FS_AddElement
    <3> QED
      BY <1>9, <2>2, <3>2, <3>4
  <2> QED
    BY <1>8, <2>1, <2>2
<1>12. Nested(r)'
  <2>1. \A i \in 1 .. n - 1 :
            /\ ledger'[r][i] = ledger[r][i]
            /\ fs'[ledger[r][i].path] = fs[ledger[r][i].path]
    BY <1>4, <1>5, <1>8 DEF Owned
  <2>2. ASSUME NEW q \in Path \ {<<>>}, Present(q)', Parent(q) \in Owned(r)'
        PROVE  fs'[q].by \in {r, Stranger}
    <3>1. fs'[q] = fs[q]
      BY <1>8, <2>2 DEF Present
    <3>2. Parent(q) \in Owned(r)
      BY <1>6, <1>8, <2>2 DEF Owned, Present
    <3> QED
      BY <1>1, <2>2, <3>1, <3>2 DEF Nested, Present
  <2>3. \A i \in 1 .. n - 1 :
            /\ ledger'[r][i].kind \in {"file", "directory"}
            /\ fs'[ledger'[r][i].path].kind = ledger'[r][i].kind
    BY ZenonT(30), <1>1, <1>4, <2>1 DEF Nested
  <2>4. \A i, j \in 1 .. n - 1 :
            ledger'[r][j].path \in Ancestors(ledger'[r][i].path) => j < i
    BY <1>1, <1>4, <2>1 DEF Nested
  <2> QED
    BY <1>4, <2>2, <2>3, <2>4 DEF Nested
<1>13. Stored(r)'
  BY <1>1 DEF Stored
<1> QED
  BY <1>11, <1>12, <1>13 DEF Counted

LEMMA NextWInv ==
    ASSUME NoRemoval
    PROVE  /\ Init => WInv
           /\ WInv /\ [Next]_vars => WInv'
<1>1. Init => WInv
  <2> SUFFICES ASSUME Init PROVE WInv
    OBVIOUS
  <2>1. Basis
    BY NextBasis
  <2>2. \A r \in Run : pc[r] = "plan"
    BY DEF Init
  <2> QED
    BY <2>1, <2>2 DEF WInv, Stored, Counted, Nested, Holding, Writing
<1>2. ASSUME WInv, [Next]_vars PROVE WInv'
  <2>1. Basis /\ Basis'
    BY <1>2, NextBasis DEF WInv
  <2>2. ASSUME NEW s \in Run PROVE Stored(s)' /\ Counted(s)' /\ Nested(s)'
    <3>1. Stored(s) /\ Counted(s) /\ Nested(s)
      BY <1>2 DEF WInv
    <3>2. CASE UNCHANGED vars
      <4>1. Beside(s)
        BY <3>2 DEF vars, Beside, Apart, Owned, Present
      <4> QED
        BY <2>1, <3>1, <4>1, BesideWhole
    <3>3. ASSUME NEW r \in Run, Step(r) \/ Crash(r), r # s
          PROVE  Stored(s)' /\ Counted(s)' /\ Nested(s)'
      BY <2>1, <3>1, <3>3, StepBeside, BesideWhole
    <3>4. CASE ClearMarker \/ StrangerCreates \/ StrangerRemoves
      BY <2>1, <3>1, <3>4, OutsideBeside, BesideWhole
    <3>5. CASE Crash(s) \/ UndoEnds(s)
      <4>1. pc'[s] \in {"crashed", "refused"}
        BY <2>1, <3>5 DEF Basis, OInv, IInv, TypeOK, Crash, UndoEnds, Go
      <4> QED
        BY <4>1 DEF Stored, Counted, Nested, Holding, Writing
    <3>6. CASE Step(s)
      <4>1. CASE pc[s] \in Writing \cup {"mark"}
        BY <2>1, <3>1, <3>6, <4>1, WritingWhole, WritingStored
      <4>2. CASE pc[s] \notin Writing \cup {"mark"}
        <5>1. \/ Plan(s) \/ PreflightDestination(s) \/ PreflightMarker(s)
              \/ PreflightNames(s) \/ PreflightPath(s) \/ PreflightEnds(s)
              \/ OpenRoot(s) \/ UndoNewest(s) \/ UndoEnds(s)
          BY <3>6, <4>2 DEF Step, CreateMarker, MakeDirectory, AcceptDirectory,
             DirectoriesEnd, CreateFile, WriteFile, FilesEnd, RemoveMarker, Writing
        <5> QED
          BY <2>1, <3>1, <3>5, <5>1, LookingWhole, UndoWhole
      <4> QED
        BY <4>1, <4>2
    <3> QED
      BY <1>2, <3>2, <3>3, <3>4, <3>5, <3>6 DEF Next
  <2> QED
    BY <2>1, <2>2 DEF WInv
<1> QED
  BY <1>1, <1>2

-----------------------------------------------------------------------------
(* The theorems.                                                           *)

\* While no removal has failed, the ledger holds what the run has in the
\* destination, no more and no less, from the marker to the last undo.
THEOREM LedgerMatches == NoRemoval => (Spec => []LedgerIsExact)
<1> SUFFICES ASSUME NoRemoval PROVE Spec => []LedgerIsExact
  OBVIOUS
<1>1. ASSUME WInv PROVE LedgerIsExact
  <2> SUFFICES ASSUME NEW r \in Run, pc[r] \in Writing \cup {"undo"}, left[r] = 0
               PROVE  Recorded(r) = Owned(r)
    BY DEF LedgerIsExact
  <2>1. OInv /\ Owned(r) \subseteq Recorded(r)
    BY <1>1 DEF WInv, Basis, PInv, Kept
  <2>2. CASE ledger[r] = <<>>
    <3>1. Recorded(r) = {}
      BY <2>2 DEF Recorded
    <3> QED
      BY <2>1, <3>1
  <2>3. CASE Holding(r)
    BY <2>1, <2>3, RecordedIsOwned DEF Recorded
  <2> QED
    BY <2>2, <2>3 DEF Holding
<1> QED
  BY <1>1, NextWInv, PTL DEF Spec

\* A run that reported success keeps every planned file, its own and in full,
\* in directories that are still there.
THEOREM DoneStaysWhole == NoRemoval => (Spec => []DoneIsWhole)
<1> SUFFICES ASSUME NoRemoval PROVE Spec => []DoneIsWhole
  OBVIOUS
<1>1. ASSUME WInv PROVE DoneIsWhole
  <2> SUFFICES ASSUME NEW r \in Run, pc[r] = "done"
               PROVE  /\ \A f \in ToSet(Files[r]) :
                            fs[f] = [kind |-> "file", by |-> r, full |-> TRUE]
                      /\ \A d \in ToSet(Directories[r]) : IsDirectory(d)
                      /\ Marker \notin Owned(r)
    BY DEF DoneIsWhole
  <2>1. Stored(r) /\ Tree
    BY <1>1 DEF WInv, Basis
  <2>2. \A f \in ToSet(Files[r]) :
            fs[f] = [kind |-> "file", by |-> r, full |-> TRUE]
    BY <2>1 DEF Stored, IsWhole, ToSet
  <2>3. ToSet(Files[r]) \subseteq Path
    BY PlanAssumption DEF ToSet
  <2>4. \A d \in ToSet(Directories[r]) : \E f \in ToSet(Files[r]) : d \in Ancestors(f)
    BY PlanAssumption
  <2>5. \A d \in ToSet(Directories[r]) : IsDirectory(d)
    BY <2>1, <2>2, <2>3, <2>4 DEF Tree, Present
  <2> QED
    BY <2>1, <2>2, <2>5 DEF Stored
<1> QED
  BY <1>1, NextWInv, PTL DEF Spec

\* The undo pass can always go on with the newest record, until a stranger
\* puts something below it.
THEOREM UndoGoesOn == NoRemoval => (Spec => []NewestIsRemovable)
<1> SUFFICES ASSUME NoRemoval PROVE Spec => []NewestIsRemovable
  OBVIOUS
<1>1. ASSUME WInv PROVE NewestIsRemovable
  <2> SUFFICES ASSUME NEW r \in Run, pc[r] = "undo", ledger[r] # <<>>, left[r] = 0,
                      ~CanRemove(Last(ledger[r]))
               PROVE  \E p \in Path \ {<<>>} :
                          /\ Parent(p) = Last(ledger[r]).path
                          /\ Present(p) /\ fs[p].by = Stranger
    BY DEF NewestIsRemovable
  <2> DEFINE n == Len(ledger[r])
             newest == Last(ledger[r])
  <2>1. /\ TypeOK /\ OInv /\ Tree /\ Rooted /\ Nested(r) /\ Holding(r)
        /\ Owned(r) \subseteq Recorded(r) /\ ledger[r] \in Seq(Record)
    BY <1>1 DEF WInv, Basis, PInv, Kept, OInv, IInv, TypeOK, Holding
  <2>2. /\ n \in Nat \ {0} /\ newest = ledger[r][n]
        /\ DOMAIN ledger[r] = 1 .. n /\ n \in 1 .. n
    <3>1. n \in Nat \ {0} /\ newest = ledger[r][n]
      BY <2>1, FrontFacts
    <3> QED
      BY <2>1, <3>1
  <2>3. newest.path \in Owned(r)
    BY <2>1, <2>2, RecordedIsOwned
  <2>4. newest.path \in Path /\ Present(newest.path) /\ newest.path # <<>>
    BY <2>1, <2>3, StrangerAssumption DEF Owned, Rooted
  <2>5. Reaches(Parent(newest.path))
    <3>1. Ancestors(newest.path) =
              Ancestors(Parent(newest.path)) \cup {Parent(newest.path)}
      BY <2>4, AncestorsOfParent
    <3> QED
      BY <2>1, <2>4, <3>1 DEF Tree, Reaches
  <2>6. fs[newest.path].kind = newest.kind /\ newest.kind \in {"file", "directory"}
    BY <2>1, <2>2 DEF Nested
  <2>7. ~Childless(newest.path)
    BY <2>5, <2>6 DEF CanRemove, IsDirectory
  <2>8. PICK q \in Path : Parent(q) = newest.path /\ q # <<>> /\ Present(q)
    BY <2>7 DEF Childless
  <2>9. fs[q].by \in {r, Stranger}
    BY <2>1, <2>3, <2>8 DEF Nested
  <2>10. fs[q].by # r
    <3> SUFFICES ASSUME fs[q].by = r PROVE FALSE
      OBVIOUS
    <3>1. PICK i \in DOMAIN ledger[r] : ledger[r][i].path = q
      BY <2>1, <2>8 DEF Owned, Recorded
    <3>2. newest.path \in Ancestors(q)
      BY <2>8, AncestorsOfParent
    <3>3. n < i
      BY <2>1, <2>2, <3>1, <3>2 DEF Nested
    <3> QED
      BY <2>2, <3>1, <3>3
  <2> QED
    BY <2>8, <2>9, <2>10
<1> QED
  BY <1>1, NextWInv, PTL DEF Spec

\* What a failed run says it left in place is the number of its paths that
\* are still there.
THEOREM ReportMatches == NoRemoval => (Spec => ReportIsExact)
<1> SUFFICES ASSUME NoRemoval PROVE Spec => ReportIsExact
  OBVIOUS
<1>1. ASSUME WInv, Next, NEW r \in Run, pc[r] = "undo", pc'[r] = "refused"
      PROVE  left[r] = Cardinality(Owned(r))
  <2>1. TypeOK /\ IInv /\ Counted(r)
    BY <1>1 DEF WInv, Basis, PInv, IInv
  <2>2. PICK s \in Run : Step(s) \/ Crash(s)
    BY <1>1 DEF Next, ClearMarker, StrangerCreates, StrangerRemoves
  <2>3. s = r
    <3> SUFFICES ASSUME s # r PROVE FALSE
      OBVIOUS
    <3>1. pc'[r] = pc[r]
      BY <2>1, <2>2, StepApart DEF Apart
    <3> QED
      BY <1>1, <3>1
  <2>4. UndoEnds(r)
    <3>1. ~Crash(r) /\ ~UndoNewest(r)
      BY <1>1, <2>1 DEF Crash, Go, UndoNewest, TypeOK
    <3> QED
      BY <1>1, <2>2, <2>3, <3>1
         DEF Step, Plan, PreflightDestination, PreflightMarker, PreflightNames,
             PreflightPath, PreflightEnds, OpenRoot, CreateMarker, MakeDirectory,
             AcceptDirectory, DirectoriesEnd, CreateFile, WriteFile, FilesEnd, RemoveMarker
  <2>5. Recorded(r) = {}
    BY <2>4 DEF UndoEnds, Recorded
  <2>6. Owned(r) \ Recorded(r) = Owned(r)
    BY <2>5
  <2> QED
    BY <1>1, <2>1, <2>6 DEF Counted
<1>2. ASSUME NEW r \in Run PROVE Cardinality(Taken(r)) \in Nat
  <2>1. IsFiniteSet(Taken(r))
    BY PathAssumption, FS_Subset DEF Taken
  <2> QED
    BY <2>1, FS_CardinalityType
<1>3. ASSUME WInv, Next, NEW r \in Run, pc[r] = "undo", pc'[r] = "refused"
      PROVE  /\ Cardinality(Owned(r)) <= left[r]
             /\ left[r] <= Cardinality(Owned(r)) + Cardinality(Taken(r))
  <2>1. left[r] \in Nat
    BY <1>3 DEF WInv, Basis, OInv, IInv, TypeOK
  <2> QED
    BY <1>1, <1>2, <1>3, <2>1
<1>4. WInv /\ [Next]_vars =>
        [\A r \in Run : pc[r] = "undo" /\ pc'[r] = "refused" =>
            /\ Cardinality(Owned(r)) <= left[r]
            /\ left[r] <= Cardinality(Owned(r)) + Cardinality(Taken(r))]_vars
  BY <1>3
<1> QED
  BY <1>4, NextWInv, PTL DEF Spec, ReportIsExact

-----------------------------------------------------------------------------
(* The refinement mapping, part by part.                                   *)

Holder == IF Present(Marker) THEN fs[Marker].by ELSE Nobody
Output(r) == Owned(r) \ {Marker}
Complete(r) == {p \in Output(r) : fs[p].full}

\* Nothing of a run is complete but files of its package.
OnlyFilesAreFull ==
    \A r \in Run : \A p \in Path : fs[p].by = r /\ fs[p].full => p \in ToSet(Files[r])

RInv == WInv /\ OnlyFilesAreFull

LEMMA StageFacts ==
    ASSUME NEW r \in Run,
           pc[r] \in Looking \cup Writing \cup {"undo"} \cup Ended
    PROVE  /\ pc[r] \in Looking => Stage(r) = "outside"
           /\ pc[r] \in Writing => Stage(r) = "writing"
           /\ pc[r] = "undo" => Stage(r) = "withdrawing"
           /\ pc[r] = "refused" => Stage(r) = "withdrawn"
           /\ pc[r] = "done" => Stage(r) = "complete"
           /\ pc[r] = "crashed" => Stage(r) = "crashed"
BY DEF Stage, Looking, Writing, Ended

LEMMA NextStageFacts ==
    ASSUME NEW r \in Run,
           pc'[r] \in Looking \cup Writing \cup {"undo"} \cup Ended
    PROVE  /\ pc'[r] \in Looking => Stage(r)' = "outside"
           /\ pc'[r] \in Writing => Stage(r)' = "writing"
           /\ pc'[r] = "undo" => Stage(r)' = "withdrawing"
           /\ pc'[r] = "refused" => Stage(r)' = "withdrawn"
           /\ pc'[r] = "done" => Stage(r)' = "complete"
           /\ pc'[r] = "crashed" => Stage(r)' = "crashed"
BY DEF Stage, Looking, Writing, Ended

\* The abstract variables after a step, from the parts of the mapping.
SameStages == \A s \in Run : Stage(s)' = Stage(s)
SameOutput == \A s \in Run : Output(s)' = Output(s) /\ Complete(s)' = Complete(s)
SameFailures == left' = left

LEMMA StepsOfRuns ==
    ASSUME NEW r \in Run
    PROVE  /\ Stage(r) = "outside" /\ Holder = Nobody /\ Holder' = r
              /\ Stage(r)' = "writing" /\ (\A s \in Run \ {r} : Stage(s)' = Stage(s))
              /\ SameOutput /\ SameFailures /\ taken' = taken
                 => Exclusive!Enter(r)
           /\ Stage(r) = "outside" /\ Holder' = Holder
              /\ Stage(r)' \in {"withdrawing", "withdrawn"}
              /\ (\A s \in Run \ {r} : Stage(s)' = Stage(s))
              /\ SameOutput /\ SameFailures /\ taken' = taken
                 => Exclusive!StayOut(r)
           /\ Holder = r /\ Holder' = r /\ Stage(r) = "writing"
              /\ Output(r) \subseteq Output(r)' /\ Complete(r) \subseteq Complete(r)'
              /\ (\A s \in Run \ {r} :
                    Output(s)' = Output(s) /\ Complete(s)' = Complete(s))
              /\ SameStages /\ SameFailures /\ taken' = taken
                 => Exclusive!Write(r)
           /\ Holder = r /\ Stage(r) = "writing" /\ Complete(r) = ToSet(Files[r])
              /\ Holder' = Nobody /\ Stage(r)' = "complete"
              /\ (\A s \in Run \ {r} : Stage(s)' = Stage(s))
              /\ SameOutput /\ SameFailures /\ taken' = taken
                 => Exclusive!Complete(r)
           /\ Holder = r /\ Stage(r) = "writing" /\ Holder' = r
              /\ Stage(r)' = "withdrawing"
              /\ (\A s \in Run \ {r} : Stage(s)' = Stage(s))
              /\ SameOutput /\ SameFailures /\ taken' = taken
                 => Exclusive!GiveUp(r)
  BY DEF Holder, Cleared, Output, Complete, SameStages, SameOutput, SameFailures,
         Exclusive!Enter, Exclusive!StayOut, Exclusive!Write, Exclusive!Complete,
         Exclusive!GiveUp, Exclusive!output, Exclusive!OnlyOutputOf

LEMMA StepsOfUndo ==
    ASSUME NEW r \in Run
    PROVE  /\ Holder = r /\ Holder' = r /\ Stage(r) = "withdrawing"
              /\ Output(r)' \subseteq Output(r) /\ Complete(r)' \subseteq Complete(r)
              /\ (\A s \in Run \ {r} :
                    Output(s)' = Output(s) /\ Complete(s)' = Complete(s))
              /\ SameStages /\ SameFailures /\ taken' = taken
                 => Exclusive!TakeBack(r)
           /\ Holder = r /\ Holder' = r /\ Stage(r) = "withdrawing"
              /\ left'[r] > 0 /\ (\A s \in Run \ {r} : left'[s] = left[s])
              /\ SameStages /\ SameOutput /\ taken' = taken
                 => Exclusive!FailToTakeBack(r)
           /\ Holder = r /\ Stage(r) = "withdrawing"
              /\ (Output(r) = {} \/ left[r] > 0) /\ Holder' = Nobody
              /\ SameStages /\ SameOutput /\ SameFailures /\ taken' = taken
                 => Exclusive!Release(r)
           /\ Stage(r) = "withdrawing" /\ (Holder # r \/ left[r] > 0) /\ Holder' = Holder
              /\ Stage(r)' = "withdrawn"
              /\ (\A s \in Run \ {r} : Stage(s)' = Stage(s))
              /\ SameOutput /\ SameFailures /\ taken' = taken
                 => Exclusive!Withdraw(r)
           /\ Stage(r) \notin {"complete", "withdrawn", "crashed"} /\ Holder' = Holder
              /\ Stage(r)' = "crashed"
              /\ (\A s \in Run \ {r} : Stage(s)' = Stage(s))
              /\ SameOutput /\ SameFailures /\ taken' = taken
                 => Exclusive!Crash(r)
  BY DEF Holder, Cleared, Output, Complete, SameStages, SameOutput, SameFailures,
         Exclusive!TakeBack, Exclusive!FailToTakeBack, Exclusive!Release,
         Exclusive!Withdraw, Exclusive!Crash, Exclusive!Finished,
         Exclusive!output, Exclusive!OnlyOutputOf

LEMMA StepsOfOthers ==
    /\ Holder # Nobody /\ Holder' = Nobody
       /\ (Holder \in Run => Stage(Holder) \in {"complete", "withdrawn", "crashed"})
       /\ taken' = taken \cup ({Holder} \cap Run) \X {Marker}
       /\ SameStages /\ SameOutput /\ SameFailures
          => Exclusive!Clear
    /\ Holder = Nobody /\ Holder' \notin Run
       /\ SameStages /\ SameOutput /\ SameFailures /\ taken' = taken
          => Exclusive!Occupy
    /\ Holder' = Holder /\ SameStages /\ SameOutput /\ SameFailures /\ taken' = taken
          => UNCHANGED Exclusive!vars
  BY DEF Holder, Cleared, Output, Complete, SameStages, SameOutput, SameFailures,
         Exclusive!Clear, Exclusive!Occupy, Exclusive!Finished, Exclusive!vars,
         Exclusive!output

-----------------------------------------------------------------------------
(* Complete files, and what a step leaves alone.                           *)

LEMMA WriteFacts ==
    ASSUME TypeOK, NEW f \in Path, fs' = [fs EXCEPT ![f].full = TRUE]
    PROVE  /\ \A q \in Path \ {f} : fs'[q] = fs[q]
           /\ fs'[f].kind = fs[f].kind /\ fs'[f].by = fs[f].by /\ fs'[f].full
<1>1. fs'[f] = [fs[f] EXCEPT !.full = TRUE] /\ \A q \in Path \ {f} : fs'[q] = fs[q]
  BY DEF TypeOK
<1>2. \A o \in Object : LET w == [o EXCEPT !.full = TRUE]
                      IN  w.kind = o.kind /\ w.by = o.by /\ w.full
  BY DEF Object
<1>3. fs[f] \in Object
  BY DEF TypeOK
<1> QED
  BY <1>1, <1>2, <1>3

LEMMA NextFull ==
    ASSUME NoRemoval, Basis, OnlyFilesAreFull, [Next]_vars
    PROVE  OnlyFilesAreFull'
<1>1. TypeOK /\ InLoop /\ Tree
  BY DEF Basis, OInv, IInv
<1>2. CASE \A q \in Path : fs'[q] = fs[q] \/ ~fs'[q].full
  BY <1>2 DEF OnlyFilesAreFull
<1>3. CASE UNCHANGED vars
  BY <1>2, <1>3 DEF vars
<1>4. ASSUME NEW who, NEW q \in Path, NEW kind, fs' = [fs EXCEPT ![q] = Made(who, kind)]
      PROVE  OnlyFilesAreFull'
  BY <1>1, <1>2, <1>4 DEF TypeOK, Made
<1>5. ASSUME NEW q \in Path, fs' = [fs EXCEPT ![q] = Nothing]
      PROVE  OnlyFilesAreFull'
  BY <1>1, <1>2, <1>5 DEF TypeOK, Nothing
<1>6. ASSUME NEW r \in Run, WriteFile(r) PROVE OnlyFilesAreFull'
  <2> DEFINE f == Files[r][at[r]]
  <2>1. f \in Path /\ f \in ToSet(Files[r])
    BY <1>1, <1>6, PlanAssumption DEF WriteFile, InLoop, ToSet
  <2>2. CASE UNCHANGED fs
    BY <1>2, <2>2
  <2>3. CASE fs[f].by = r /\ fs' = [fs EXCEPT ![f].full = TRUE]
    <3>1. \A q \in Path \ {f} : fs'[q] = fs[q]
      BY <1>1, <2>1, <2>3, WriteFacts
    <3>2. fs'[f].by = r
      BY <1>1, <2>1, <2>3, WriteFacts
    <3> QED
      BY <2>1, <3>1, <3>2 DEF OnlyFilesAreFull
  <2> QED
    BY <1>6, <2>2, <2>3 DEF WriteFile
<1>7. ASSUME NEW r \in Run, Step(r) \/ Crash(r), ~WriteFile(r)
      PROVE  OnlyFilesAreFull'
  <2>1. CASE UNCHANGED fs
    BY <1>2, <2>1
  <2>2. CASE CreateMarker(r) \/ RemoveMarker(r)
    BY <1>4, <1>5, <2>1, <2>2, MarkerFacts DEF CreateMarker, RemoveMarker
  <2>3. CASE MakeDirectory(r)
    <3>1. Directories[r][at[r]] \in Path
      BY <2>3, PlanAssumption DEF MakeDirectory
    <3> QED
      BY <1>4, <2>1, <2>3, <3>1 DEF MakeDirectory
  <2>4. CASE CreateFile(r)
    <3>1. Files[r][at[r]] \in Path
      BY <2>4, PlanAssumption DEF CreateFile
    <3> QED
      BY <1>4, <2>1, <2>4, <3>1 DEF CreateFile
  <2>5. CASE UndoNewest(r)
    <3>1. ledger[r] \in Seq(Record) /\ ledger[r] # <<>>
      BY <1>1, <2>5 DEF UndoNewest, TypeOK
    <3>2. Last(ledger[r]) \in Record
      BY <3>1, FrontFacts
    <3>3. Last(ledger[r]).path \in Path
      BY <3>2 DEF Record
    <3> QED
      BY <1>5, <2>1, <2>5, <3>3 DEF UndoNewest
  <2>6. CASE \/ Plan(r) \/ PreflightDestination(r) \/ PreflightMarker(r)
             \/ PreflightNames(r) \/ PreflightPath(r) \/ PreflightEnds(r)
             \/ OpenRoot(r) \/ AcceptDirectory(r) \/ DirectoriesEnd(r)
             \/ FilesEnd(r) \/ UndoEnds(r) \/ Crash(r)
    <3>1. UNCHANGED fs
      BY <2>6 DEF Plan, PreflightDestination, PreflightMarker, PreflightNames,
         PreflightPath, PreflightEnds, OpenRoot, AcceptDirectory, DirectoriesEnd,
         FilesEnd, UndoEnds, Crash
    <3> QED
      BY <2>1, <3>1
  <2> QED
    BY <1>7, <2>2, <2>3, <2>4, <2>5, <2>6 DEF Step
<1>8. CASE ClearMarker \/ StrangerCreates \/ StrangerRemoves
  <2>1. CASE Removes(Marker)
    BY <1>5, <2>1, MarkerFacts DEF Removes
  <2>2. CASE \E q \in Path, kind \in Kind : Creates(Stranger, q, kind)
    BY <1>4, <2>2 DEF Creates
  <2> QED
    BY <1>1, <1>8, <2>1, <2>2, OutsideShape
<1> QED
  BY <1>3, <1>6, <1>7, <1>8 DEF Next

\* What the mapping shows of a run that takes no part in a step.
LEMMA OthersStay ==
    ASSUME NoRemoval, Basis, NEW s \in Run, Beside(s)
    PROVE  /\ Stage(s)' = Stage(s) /\ left'[s] = left[s]
           /\ Output(s)' = Output(s) /\ Complete(s)' = Complete(s)
<1>1. /\ pc'[s] = pc[s] /\ left'[s] = left[s]
      /\ Owned(s)' \subseteq Owned(s)
      /\ \A p \in Owned(s) : p # Marker => fs'[p] = fs[p]
  BY DEF Beside, Apart
<1>2. Stage(s)' = Stage(s)
  BY <1>1 DEF Stage
<1>3. Output(s)' = Output(s)
  BY <1>1 DEF Output, Owned, Present
<1>4. \A p \in Output(s) : fs'[p] = fs[p]
  BY <1>1 DEF Output
<1> QED
  BY <1>1, <1>2, <1>3, <1>4 DEF Complete

\* A step that leaves the file system alone.
LEMMA SameFiles ==
    ASSUME UNCHANGED fs
    PROVE  Holder' = Holder /\ SameOutput
BY DEF Holder, SameOutput, Output, Complete, Owned, Present

LEMMA SameLeft ==
    ASSUME TypeOK, TypeOK', \A s \in Run : left'[s] = left[s]
    PROVE  SameFailures
BY DEF TypeOK, SameFailures

Simulated == Exclusive!Next \/ UNCHANGED Exclusive!vars

\* A holder's steps that change nothing in the destination.
LEMMA QuietSimulated ==
    ASSUME RInv, NEW r \in Run, Holding(r), pc[r] \in Writing,
           UNCHANGED <<fs, left, taken>>, pc'[r] \in Writing \cup {"undo"},
           \A s \in Run \ {r} : Stage(s)' = Stage(s)
    PROVE  Simulated
<1>1. TypeOK /\ Lock /\ Holder = r
  BY DEF RInv, WInv, Basis, OInv, IInv, Lock, Holder, Present
<1>2. Holder' = Holder /\ SameOutput /\ SameFailures
  BY SameFiles DEF SameFailures
<1>3. Stage(r) = "writing"
  BY StageFacts
<1>4. CASE pc'[r] \in Writing
  <2>1. SameStages
    BY <1>3, <1>4, NextStageFacts DEF SameStages
  <2> QED
    BY <1>2, <2>1, StepsOfOthers DEF Simulated
<1>5. CASE pc'[r] = "undo"
  <2>1. Stage(r)' = "withdrawing"
    BY <1>5, NextStageFacts
  <2>2. Exclusive!GiveUp(r)
    BY <1>1, <1>2, <1>3, <2>1, StepsOfRuns
  <2> QED
    BY <2>2 DEF Simulated, Exclusive!Next
<1> QED
  BY <1>4, <1>5

-----------------------------------------------------------------------------
(* The steps of a run.                                                     *)

LEMMA LookingSimulated ==
    ASSUME RInv, NEW r \in Run, \A s \in Run \ {r} : Stage(s)' = Stage(s),
           \/ Plan(r) \/ PreflightDestination(r) \/ PreflightMarker(r)
           \/ PreflightNames(r) \/ PreflightPath(r) \/ PreflightEnds(r)
           \/ OpenRoot(r)
    PROVE  Simulated
<1>1. TypeOK
  BY DEF RInv, WInv, Basis, OInv, IInv
<1>2. /\ UNCHANGED <<fs, left, taken>>
      /\ pc[r] \in Looking /\ pc'[r] \in Looking \cup {"refused"}
  BY <1>1 DEF TypeOK, Plan, PreflightDestination, PreflightMarker, PreflightNames,
     PreflightPath, PreflightEnds, OpenRoot, Go, Refuse, Looking, counts
<1>3. Holder' = Holder /\ SameOutput /\ SameFailures
  BY <1>2, SameFiles DEF SameFailures
<1>4. Stage(r) = "outside"
  BY <1>2, StageFacts
<1>5. CASE pc'[r] \in Looking
  <2>1. SameStages
    BY <1>4, <1>5, NextStageFacts DEF SameStages
  <2> QED
    BY <1>2, <1>3, <2>1, StepsOfOthers DEF Simulated
<1>6. CASE pc'[r] = "refused"
  <2>1. Stage(r)' = "withdrawn"
    BY <1>6, NextStageFacts DEF Ended
  <2>2. Exclusive!StayOut(r)
    BY <1>2, <1>3, <1>4, <2>1, StepsOfRuns
  <2> QED
    BY <2>2 DEF Simulated, Exclusive!Next
<1> QED
  BY <1>2, <1>5, <1>6

LEMMA CreateMarkerSimulated ==
    ASSUME RInv, NEW r \in Run, CreateMarker(r),
           \A s \in Run \ {r} : /\ Stage(s)' = Stage(s)
                                /\ Output(s)' = Output(s) /\ Complete(s)' = Complete(s)
    PROVE  Simulated
<1>1. TypeOK /\ Marker \in Path
  BY PathAssumption DEF RInv, WInv, Basis, OInv, IInv
<1>2. pc[r] = "mark" /\ UNCHANGED <<left, taken>> /\ SameFailures
  BY DEF CreateMarker, counts, SameFailures
<1>3. Stage(r) = "outside"
  BY <1>2, StageFacts DEF Looking
<1>4. CASE /\ ~Present(Marker)
           /\ fs' = [fs EXCEPT ![Marker] = Made(r, "file")]
           /\ Go(r, "directories")
  <2>1. /\ \A q \in Path \ {Marker} : fs'[q] = fs[q]
        /\ fs'[Marker].kind = "file" /\ fs'[Marker].by = r
    BY <1>1, <1>4 DEF TypeOK, Made
  <2>2. Holder = Nobody /\ Holder' = r
    BY <1>4, <2>1 DEF Holder, Present
  <2>3. Output(r)' = Output(r)
    BY <2>1 DEF Output, Owned, Present
  <2>4. Complete(r)' = Complete(r)
    BY <2>1, <2>3 DEF Complete, Output, Owned
  <2>5. SameOutput
    BY <2>3, <2>4 DEF SameOutput
  <2>6. Stage(r)' = "writing"
    <3>1. pc'[r] = "directories"
      BY <1>1, <1>4 DEF Go, TypeOK
    <3> QED
      BY <3>1, NextStageFacts DEF Writing
  <2>7. Exclusive!Enter(r)
    BY <1>2, <1>3, <2>2, <2>5, <2>6, StepsOfRuns
  <2> QED
    BY <2>7 DEF Simulated, Exclusive!Next
<1>5. CASE UNCHANGED fs /\ (\E c : Fail(r, c))
  <2>1. pc'[r] = "undo"
    BY <1>1, <1>5 DEF Fail, TypeOK
  <2>2. Stage(r)' = "withdrawing"
    BY <2>1, NextStageFacts
  <2>3. Exclusive!StayOut(r)
    BY <1>2, <1>3, <1>5, <2>2, SameFiles, StepsOfRuns
  <2> QED
    BY <2>3 DEF Simulated, Exclusive!Next
<1> QED
  BY <1>4, <1>5 DEF CreateMarker

\* A step by which a holder adds to its output.
LEMMA WriteSimulated ==
    ASSUME RInv, NEW r \in Run, Holding(r), pc[r] \in Writing, pc'[r] \in Writing,
           UNCHANGED <<left, taken>>,
           fs'[Marker].kind = fs[Marker].kind, fs'[Marker].by = fs[Marker].by,
           \A q \in Path : Present(q) =>
               /\ fs'[q].kind = fs[q].kind /\ fs'[q].by = fs[q].by
               /\ fs[q].full => fs'[q].full,
           \A s \in Run \ {r} : /\ Stage(s)' = Stage(s)
                                /\ Output(s)' = Output(s) /\ Complete(s)' = Complete(s)
    PROVE  Simulated
<1>1. Lock
  BY DEF RInv, WInv, Basis, OInv, IInv
<1>2. Holder = r /\ Holder' = r
  BY <1>1 DEF Lock, Holder, Present
<1>3. Output(r) \subseteq Output(r)'
  BY DEF Output, Owned, Present
<1>4. Complete(r) \subseteq Complete(r)'
  BY <1>3 DEF Complete, Output, Owned
<1>5. Stage(r) = "writing" /\ SameStages /\ SameFailures
  BY StageFacts, NextStageFacts DEF SameStages, SameFailures
<1>6. Exclusive!Write(r)
  BY <1>2, <1>3, <1>4, <1>5, StepsOfRuns
<1> QED
  BY <1>6 DEF Simulated, Exclusive!Next

LEMMA WritingSimulated ==
    ASSUME RInv, NEW r \in Run,
           \/ MakeDirectory(r) \/ AcceptDirectory(r) \/ DirectoriesEnd(r)
           \/ CreateFile(r) \/ WriteFile(r) \/ FilesEnd(r),
           \A s \in Run \ {r} : /\ Stage(s)' = Stage(s)
                                /\ Output(s)' = Output(s) /\ Complete(s)' = Complete(s)
    PROVE  Simulated
<1>1. TypeOK /\ InLoop /\ Lock /\ LedgerShape
  BY DEF RInv, WInv, Basis, OInv, IInv
<1>2. /\ pc[r] \in Writing /\ pc'[r] \in Writing \cup {"undo"}
      /\ UNCHANGED <<left, taken>>
  BY <1>1 DEF MakeDirectory, AcceptDirectory, DirectoriesEnd, CreateFile, WriteFile,
     FilesEnd, Go, Fail, TypeOK, Writing, counts
<1>3. Holding(r) /\ Present(Marker)
  BY <1>1, <1>2 DEF LedgerShape, Holding, Lock, Present
<1>4. CASE UNCHANGED fs
  BY <1>2, <1>3, <1>4, QuietSimulated
<1>5. ASSUME NEW q \in Path, NEW kind, ~Present(q),
             fs' = [fs EXCEPT ![q] = Made(r, kind)], pc'[r] \in Writing
      PROVE  Simulated
  <2>1. \A x \in Path : Present(x) => fs'[x] = fs[x]
    BY <1>1, <1>5 DEF TypeOK
  <2>2. fs'[Marker] = fs[Marker]
    BY <1>3, <2>1, MarkerFacts
  <2> QED
    BY <1>2, <1>3, <1>5, <2>1, <2>2, WriteSimulated
<1>6. CASE MakeDirectory(r)
  <2>1. Directories[r][at[r]] \in Path
    BY <1>6, PlanAssumption DEF MakeDirectory
  <2>2. Go(r, "directories") => pc'[r] \in Writing
    BY <1>1 DEF Go, TypeOK, Writing
  <2> QED
    BY <1>4, <1>5, <1>6, <2>1, <2>2 DEF MakeDirectory
<1>7. CASE CreateFile(r)
  <2>1. Files[r][at[r]] \in Path
    BY <1>7, PlanAssumption DEF CreateFile
  <2>2. Go(r, "write") => pc'[r] \in Writing
    BY <1>1 DEF Go, TypeOK, Writing
  <2> QED
    BY <1>4, <1>5, <1>7, <2>1, <2>2 DEF CreateFile
<1>8. CASE WriteFile(r)
  <2> DEFINE f == Files[r][at[r]]
  <2>1. f \in Path
    BY <1>1, <1>8, PlanAssumption DEF WriteFile, InLoop
  <2>2. CASE fs' = [fs EXCEPT ![f].full = TRUE] /\ Go(r, "files")
    <3>1. pc'[r] \in Writing
      BY <1>1, <2>2 DEF Go, TypeOK, Writing
    <3>2. \A q \in Path : /\ fs'[q].kind = fs[q].kind /\ fs'[q].by = fs[q].by
                          /\ fs[q].full => fs'[q].full
      BY <1>1, <2>1, <2>2, WriteFacts
    <3> QED
      BY <1>2, <1>3, <3>1, <3>2, MarkerFacts, WriteSimulated
  <2> QED
    BY <1>4, <1>8, <2>2 DEF WriteFile
<1>9. CASE AcceptDirectory(r) \/ DirectoriesEnd(r) \/ FilesEnd(r)
  BY <1>4, <1>9 DEF AcceptDirectory, DirectoriesEnd, FilesEnd
<1> QED
  BY <1>6, <1>7, <1>8, <1>9

LEMMA RemoveMarkerSimulated ==
    ASSUME RInv, NEW r \in Run, RemoveMarker(r),
           \A s \in Run \ {r} : /\ Stage(s)' = Stage(s)
                                /\ Output(s)' = Output(s) /\ Complete(s)' = Complete(s)
    PROVE  Simulated
<1>1. /\ TypeOK /\ Lock /\ LedgerShape /\ Stored(r) /\ OnlyFilesAreFull
      /\ Marker \in Path
  BY PathAssumption DEF RInv, WInv, Basis, OInv, IInv
<1>2. pc[r] = "unmark" /\ pc[r] \in Writing /\ UNCHANGED <<left, taken>>
  BY DEF RemoveMarker, Writing, counts
<1>3. Holding(r)
  BY <1>1, <1>2 DEF LedgerShape, Holding
<1>4. CASE UNCHANGED fs
  <2>1. pc'[r] = "undo"
    <3>1. CASE fs' = [fs EXCEPT ![Marker] = Nothing]
      <4>1. fs'[Marker].kind = "absent"
        BY <1>1, <3>1 DEF TypeOK, Nothing
      <4> QED
        BY <1>1, <1>3, <1>4, <4>1 DEF Lock
    <3>2. CASE Fail(r, "output.io")
      BY <1>1, <3>2 DEF Fail, TypeOK
    <3> QED
      BY <3>1, <3>2 DEF RemoveMarker
  <2> QED
    BY <1>2, <1>3, <1>4, <2>1, QuietSimulated
<1>5. CASE fs' = [fs EXCEPT ![Marker] = Nothing] /\ Go(r, "done")
  <2>1. /\ \A q \in Path \ {Marker} : fs'[q] = fs[q]
        /\ fs'[Marker].kind = "absent"
    BY <1>1, <1>5 DEF TypeOK, Nothing
  <2>2. Holder = r /\ Holder' = Nobody
    BY <1>1, <1>3, <2>1 DEF Holder, Present, Lock
  <2>3. Output(r)' = Output(r)
    BY <2>1 DEF Output, Owned, Present
  <2>4. Complete(r)' = Complete(r)
    BY <2>1, <2>3 DEF Complete, Output, Owned
  <2>5. SameOutput /\ SameFailures
    BY <1>2, <2>3, <2>4 DEF SameOutput, SameFailures
  <2>6. Stage(r) = "writing" /\ Stage(r)' = "complete"
    <3>1. pc'[r] = "done"
      BY <1>1, <1>5 DEF Go, TypeOK
    <3> QED
      BY <1>2, <3>1, StageFacts, NextStageFacts DEF Ended
  <2>7. Complete(r) = ToSet(Files[r])
    <3>1. ASSUME NEW p \in Complete(r) PROVE p \in ToSet(Files[r])
      BY <1>1, <3>1 DEF Complete, Output, Owned, OnlyFilesAreFull
    <3>2. ASSUME NEW p \in ToSet(Files[r]) PROVE p \in Complete(r)
      <4>1. PICK i \in DOMAIN Files[r] : p = Files[r][i]
        BY <3>2 DEF ToSet
      <4>2. p \in Path
        BY <4>1, PlanAssumption
      <4>3. p # Marker /\ fs[p] = [kind |-> "file", by |-> r, full |-> TRUE]
        BY <1>1, <1>2, <4>1 DEF Stored, IsWhole
      <4>4. fs[p].kind = "file" /\ fs[p].by = r /\ fs[p].full
        BY <4>3
      <4> QED
        BY <4>2, <4>3, <4>4 DEF Complete, Output, Owned, Present
    <3> QED
      BY <3>1, <3>2
  <2>8. Exclusive!Complete(r)
    BY <1>2, <2>2, <2>5, <2>6, <2>7, StepsOfRuns
  <2> QED
    BY <2>8 DEF Simulated, Exclusive!Next
<1> QED
  BY <1>4, <1>5 DEF RemoveMarker

LEMMA UndoNewestSimulated ==
    ASSUME NoRemoval, RInv, RInv', NEW r \in Run, UndoNewest(r),
           \A s \in Run \ {r} : /\ Stage(s)' = Stage(s) /\ left'[s] = left[s]
                                /\ Output(s)' = Output(s) /\ Complete(s)' = Complete(s)
    PROVE  Simulated
<1> DEFINE n == Len(ledger[r])
           newest == Last(ledger[r])
<1>1. /\ TypeOK /\ TypeOK' /\ Lock /\ LedgerShape /\ OInv /\ Kept(r)
      /\ pc[r] = "undo" /\ pc' = pc /\ taken' = taken
      /\ Holding(r) /\ ledger[r] \in Seq(Record) /\ ledger[r] # <<>>
      /\ Marker \in Path
  BY PathAssumption
     DEF RInv, WInv, Basis, PInv, OInv, IInv, UndoNewest, TypeOK, Holding
<1>2. Holder = r /\ Stage(r) = "withdrawing" /\ SameStages
  BY <1>1, StageFacts DEF Lock, Holder, Present, SameStages, Stage
<1>3. n \in Nat \ {0} /\ newest = ledger[r][n] /\ newest \in Record
  BY <1>1, FrontFacts
<1>4. newest.path \in Path
  BY <1>3 DEF Record
<1>5. CASE left' = [left EXCEPT ![r] = @ + 1] /\ UNCHANGED fs
  <2>1. left'[r] > 0
    BY <1>1, <1>5 DEF TypeOK
  <2>2. Exclusive!FailToTakeBack(r)
    BY <1>1, <1>2, <1>5, <2>1, SameFiles, StepsOfUndo
  <2> QED
    BY <2>2 DEF Simulated, Exclusive!Next
<1>6. CASE fs' = [fs EXCEPT ![newest.path] = Nothing] /\ UNCHANGED left
  <2>1. /\ \A q \in Path \ {newest.path} : fs'[q] = fs[q]
        /\ fs'[newest.path].kind = "absent"
    BY <1>1, <1>4, <1>6 DEF TypeOK, Nothing
  <2>2. SameFailures
    BY <1>6 DEF SameFailures
  <2>3. Output(r)' \subseteq Output(r)
    BY <2>1 DEF Output, Owned, Present
  <2>4. Complete(r)' \subseteq Complete(r)
    BY <2>1, <2>3 DEF Complete, Output, Owned, Present
  <2>5. CASE newest.path # Marker
    <3>1. Holder' = r
      BY <1>1, <1>2, <2>1, <2>5 DEF Holder, Present, Lock
    <3>2. Exclusive!TakeBack(r)
      BY <1>1, <1>2, <2>2, <2>3, <2>4, <3>1, StepsOfUndo
    <3> QED
      BY <3>2 DEF Simulated, Exclusive!Next
  <2>6. CASE newest.path = Marker
    <3>1. Holder' = Nobody
      BY <2>1, <2>6 DEF Holder, Present
    <3>2. Output(r)' = Output(r)
      BY <2>1, <2>6 DEF Output, Owned, Present
    <3>3. Complete(r)' = Complete(r)
      BY <2>1, <2>6, <3>2 DEF Complete, Output, Owned
    <3>4. SameOutput
      BY <3>2, <3>3 DEF SameOutput
    <3>5. Output(r) = {} \/ left[r] > 0
      <4> SUFFICES ASSUME left[r] = 0 PROVE Output(r) = {}
        BY <1>1 DEF TypeOK
      <4>1. Owned(r) \subseteq Recorded(r)
        BY <1>1 DEF Kept
      <4>2. n = 1
        <5>1. n \notin 2 .. n
          BY <1>1, <1>3, <2>6 DEF LedgerShape
        <5>2. \A k \in Nat \ {0} : k \notin 2 .. k => k = 1
          OBVIOUS
        <5> QED
          BY <1>3, <5>1, <5>2
      <4>3. Recorded(r) = {Marker}
        <5>1. DOMAIN ledger[r] = {1}
          BY <1>1, <4>2
        <5> QED
          BY <1>3, <2>6, <4>2, <5>1 DEF Recorded
      <4> QED
        BY <4>1, <4>3 DEF Output
    <3>6. Exclusive!Release(r)
      BY <1>1, <1>2, <2>2, <3>1, <3>4, <3>5, StepsOfUndo
    <3> QED
      BY <3>6 DEF Simulated, Exclusive!Next
  <2> QED
    BY <2>5, <2>6
<1> QED
  BY <1>5, <1>6 DEF UndoNewest

LEMMA EndSimulated ==
    ASSUME RInv, NEW r \in Run, UndoEnds(r) \/ Crash(r),
           \A s \in Run \ {r} : Stage(s)' = Stage(s)
    PROVE  Simulated
<1>1. /\ TypeOK /\ Kept(r) /\ UNCHANGED <<fs, left, taken>>
      /\ Marker \in Path
  BY PathAssumption
     DEF RInv, WInv, Basis, PInv, OInv, IInv, UndoEnds, Crash, counts
<1>2. Holder' = Holder /\ SameOutput /\ SameFailures
  BY <1>1, SameFiles DEF SameFailures
<1>3. CASE UndoEnds(r)
  <2>1. pc[r] = "undo" /\ pc'[r] = "refused" /\ ledger[r] = <<>>
    BY <1>1, <1>3 DEF UndoEnds, Go, TypeOK
  <2>2. Stage(r) = "withdrawing" /\ Stage(r)' = "withdrawn"
    BY <2>1, StageFacts, NextStageFacts DEF Ended
  <2>3. Holder # r \/ left[r] > 0
    <3> SUFFICES ASSUME left[r] = 0 PROVE Holder # r
      BY <1>1 DEF TypeOK
    <3>1. Owned(r) \subseteq Recorded(r)
      BY <1>1, <2>1 DEF Kept
    <3>2. Recorded(r) = {}
      BY <2>1 DEF Recorded
    <3> QED
      BY <1>1, <3>1, <3>2, NobodyAssumption DEF Holder, Owned
  <2>4. Exclusive!Withdraw(r)
    BY <1>1, <1>2, <2>2, <2>3, StepsOfUndo
  <2> QED
    BY <2>4 DEF Simulated, Exclusive!Next
<1>4. CASE Crash(r)
  <2>1. pc[r] \notin Ended /\ pc'[r] = "crashed"
    BY <1>1, <1>4 DEF Crash, Go, TypeOK
  <2>2. Stage(r)' = "crashed"
    BY <2>1, NextStageFacts DEF Ended
  <2>3. Stage(r) \in {"outside", "writing", "withdrawing"}
    BY <1>1, <2>1, StageFacts DEF TypeOK
  <2>4. Exclusive!Crash(r)
    BY <1>1, <1>2, <2>2, <2>3, StepsOfUndo
  <2> QED
    BY <2>4 DEF Simulated, Exclusive!Next
<1> QED
  BY <1>3, <1>4

\* What a person and a stranger do.
LEMMA OutsideSimulated ==
    ASSUME NoRemoval, RInv, ClearMarker \/ StrangerCreates \/ StrangerRemoves
    PROVE  Simulated
<1>1. /\ TypeOK /\ Basis /\ Marker \in Path
      /\ UNCHANGED <<pc, left>> /\ ~StrangerRemoves
  BY PathAssumption
     DEF RInv, WInv, Basis, OInv, IInv, NoRemoval, ClearMarker, StrangerCreates,
         StrangerRemoves, counts
<1>2. ASSUME NEW s \in Run
      PROVE  Stage(s)' = Stage(s) /\ Output(s)' = Output(s) /\ Complete(s)' = Complete(s)
  BY <1>1, OutsideBeside, OthersStay
<1>3. SameStages /\ SameOutput /\ SameFailures
  BY <1>1, <1>2 DEF SameStages, SameOutput, SameFailures
<1>4. CASE ClearMarker
  <2>1. /\ Present(Marker) /\ fs' = [fs EXCEPT ![Marker] = Nothing]
        /\ taken' = taken \cup ({fs[Marker].by} \cap Run) \X {Marker}
        /\ fs[Marker].by \in Run => pc[fs[Marker].by] \in Ended
    BY <1>4 DEF ClearMarker, TakeAway
  <2>2. fs'[Marker].kind = "absent" /\ fs[Marker].by \in Run \cup {Stranger}
    BY <1>1, <2>1 DEF TypeOK, Nothing, Object
  <2>3. Holder = fs[Marker].by /\ Holder # Nobody /\ Holder' = Nobody
    BY <2>1, <2>2, NobodyAssumption DEF Holder, Present
  <2>4. Holder \in Run => Stage(Holder) \in {"complete", "withdrawn", "crashed"}
    <3> SUFFICES ASSUME Holder \in Run
                 PROVE  Stage(Holder) \in {"complete", "withdrawn", "crashed"}
      OBVIOUS
    <3>1. pc[Holder] \in Ended
      BY <2>1, <2>3
    <3> QED
      BY <3>1, StageFacts DEF Ended
  <2>5. Exclusive!Clear
    BY <1>3, <2>1, <2>3, <2>4, StepsOfOthers
  <2> QED
    BY <2>5 DEF Simulated, Exclusive!Next
<1>5. CASE StrangerCreates
  <2>1. PICK new \in Plantable :
            ~Present(new.path) /\ fs' = [fs EXCEPT ![new.path] = Made(Stranger, new.kind)]
    BY <1>5 DEF StrangerCreates
  <2>2. new.path \in Path /\ taken' = taken
    BY <1>5, StrangerActsAssumption DEF StrangerCreates
  <2>3. CASE new.path = Marker
    <3>1. Holder = Nobody
      BY <2>1, <2>3 DEF Holder
    <3>2. fs'[Marker].by = Stranger
      BY <1>1, <2>1, <2>3 DEF TypeOK, Made
    <3>3. Holder' \notin Run
      BY <3>2, NobodyAssumption, StrangerAssumption DEF Holder
    <3>4. Exclusive!Occupy
      BY <1>3, <2>2, <3>1, <3>3, StepsOfOthers
    <3> QED
      BY <3>4 DEF Simulated, Exclusive!Next
  <2>4. CASE new.path # Marker
    <3>1. fs'[Marker] = fs[Marker]
      BY <1>1, <2>1, <2>2, <2>4 DEF TypeOK
    <3>2. Holder' = Holder
      BY <3>1 DEF Holder, Present
    <3> QED
      BY <1>3, <2>2, <3>2, StepsOfOthers DEF Simulated
  <2> QED
    BY <2>3, <2>4
<1> QED
  BY <1>1, <1>4, <1>5

-----------------------------------------------------------------------------
(* The theorem.                                                            *)

LEMMA InitSimulated == Init => Exclusive!Init
<1> SUFFICES ASSUME Init PROVE Exclusive!Init
  OBVIOUS
<1>1. /\ \A p \in Path : fs[p].by = Stranger
      /\ \A r \in Run : pc[r] = "plan" /\ left[r] = 0
      /\ taken = {} /\ Marker \in Path
  BY FoundAssumption, PathAssumption DEF Init
<1>2. \A r \in Run : Owned(r) = {}
  BY <1>1, StrangerAssumption DEF Owned
<1>3. \A r \in Run : Stage(r) = "outside"
  BY <1>1, StageFacts DEF Looking
<1>4. (IF Present(Marker) THEN fs[Marker].by ELSE Nobody) \notin Run
  BY <1>1, StrangerAssumption, NobodyAssumption
<1>5. [r \in Run |-> Stage(r)] = [r \in Run |-> "outside"]
  BY <1>3
<1>6. \A r \in Run : Owned(r) \ {Marker} = {}
  BY <1>2
<1>7. [r \in Run |-> Owned(r) \ {Marker}] = [r \in Run |-> {}]
  BY <1>6
<1>8. \A r \in Run : {p \in Owned(r) \ {Marker} : fs[p].full} = {}
  BY <1>6
<1>9. [r \in Run |-> {p \in Owned(r) \ {Marker} : fs[p].full}] = [r \in Run |-> {}]
  BY <1>8
<1>10. \A r \in Run : (left[r] > 0) = FALSE
  BY <1>1
<1>11. [r \in Run |-> left[r] > 0] = [r \in Run |-> FALSE]
  BY <1>10, Zenon
<1>12. Cleared = {}
  BY <1>1 DEF Cleared
<1> QED
  BY <1>4, <1>5, <1>7, <1>9, <1>11, <1>12, Zenon DEF Exclusive!Init

LEMMA NextSimulated ==
    ASSUME NoRemoval
    PROVE  /\ Init => RInv
           /\ RInv /\ [Next]_vars => RInv'
           /\ RInv /\ [Next]_vars => [Exclusive!Next]_(Exclusive!vars)
<1>1. Init => RInv
  <2>1. ASSUME Init PROVE \A p \in Path : fs[p].by = Stranger
    BY <2>1, FoundAssumption DEF Init
  <2> QED
    BY <2>1, NextWInv, StrangerAssumption DEF RInv, OnlyFilesAreFull
<1>2. RInv /\ [Next]_vars => RInv'
  BY NextWInv, NextFull DEF RInv, WInv
<1>3. ASSUME RInv, [Next]_vars PROVE Simulated
  <2>1. RInv' /\ Basis /\ TypeOK
    BY <1>2, <1>3 DEF RInv, WInv, Basis, OInv, IInv
  <2>2. CASE UNCHANGED vars
    <3>1. SameStages /\ SameFailures /\ taken' = taken /\ UNCHANGED fs
      BY <2>2 DEF vars, SameStages, SameFailures, Stage
    <3> QED
      BY <3>1, SameFiles, StepsOfOthers DEF Simulated
  <2>3. ASSUME NEW r \in Run, Step(r) \/ Crash(r) PROVE Simulated
    <3>1. \A s \in Run \ {r} : /\ Stage(s)' = Stage(s) /\ left'[s] = left[s]
                              /\ Output(s)' = Output(s) /\ Complete(s)' = Complete(s)
      BY <1>3, <2>1, <2>3, StepBeside, OthersStay
    <3> QED
      BY <1>3, <2>1, <2>3, <3>1, LookingSimulated, CreateMarkerSimulated,
         WritingSimulated, RemoveMarkerSimulated, UndoNewestSimulated, EndSimulated
         DEF Step
  <2>4. CASE ClearMarker \/ StrangerCreates \/ StrangerRemoves
    BY <1>3, <2>4, OutsideSimulated
  <2> QED
    BY <1>3, <2>2, <2>3, <2>4 DEF Next
<1> QED
  BY <1>1, <1>2, <1>3 DEF Simulated

\* Every behaviour of the processes is one of ExclusiveOutput: the marker
\* file is a lock, output is frozen outside it, success means a whole package.
THEOREM Refinement == NoRemoval => (Spec => ImplementsExclusiveOutput)
<1> SUFFICES ASSUME NoRemoval PROVE Spec => ImplementsExclusiveOutput
  OBVIOUS
<1>1. Init => RInv /\ Exclusive!Init
  BY InitSimulated, NextSimulated
<1>2. RInv /\ [Next]_vars => RInv' /\ [Exclusive!Next]_(Exclusive!vars)
  BY NextSimulated
<1> QED
  BY <1>1, <1>2, PTL DEF Spec, ImplementsExclusiveOutput, Exclusive!Spec
===============================================================================
