-------------------------- MODULE ConfinementProofs --------------------------
(***************************************************************************)
(* What Confinement promises of every plan, every tree and every number    *)
(* of moves by others: where calls beneath the descriptor end up, and      *)
(* where calls by name do while others keep away; that a failed run        *)
(* accounts for what it created; and that its undo pass finds it.          *)
(***************************************************************************)
EXTENDS Confinement, FiniteSetTheorems, SequenceTheorems, TLAPS

\* A set of numbers has a least one.
LEMMA LeastNumber ==
    ASSUME NEW T, T \subseteq Nat, T # {}
    PROVE  \E m \in T : \A n \in T : m <= n
<1>1. PICK R : /\ IsWellFoundedOn(R, Nat)
               /\ \A m, n \in Nat : n < m => <<n, m>> \in R
    <2> WITNESS OpToRel(<, Nat)
    <2>1. IsWellFoundedOn(OpToRel(<, Nat), Nat)
        BY NatLessThanWellFounded
    <2>2. ASSUME NEW m \in Nat, NEW n \in Nat, n < m PROVE <<n, m>> \in OpToRel(<, Nat)
        <3>1. <<n, m>> \in {p \in Nat \X Nat : p[1] < p[2]}
            BY <2>2
        <3> QED BY <3>1, Zenon DEF OpToRel
    <2> QED BY <2>1, <2>2, Zenon
<1>2. PICK m \in T : \A n \in T : <<n, m>> \notin R
    BY <1>1, WFMin
<1>3. \A n \in T : ~(n < m)
    BY <1>1, <1>2
<1> QED BY <1>2, <1>3

USE DEF Kinds, Steps

\* The calls before the resolver is chosen.
Looking == {"destination", "marker", "paths", "open"}

\* The positions of the loops.
InLoop ==
    /\ pc = "paths" /\ at <= Len(Files) => passed < Len(Files[at])
    /\ pc = "readback" => at <= Len(Directories)
    /\ created => pc = "readback"

\* Nothing has been done yet.
Clean ==
    pc \in Looking =>
        arm = "none" /\ touched = {} /\ made = {}
        /\ ledger = <<>> /\ removed = 0 /\ left = 0

\* What lies in a directory of H lies in H.
Closed(H, k, e) ==
    \A d \in H : \A c \in Name :
        e[d][c] \in Node /\ k[e[d][c]] = "directory" => e[d][c] \in H

\* Beneath the descriptor a walk stays in the destination.
Held ==
    arm = "beneath" =>
        root \in home /\ touched \subseteq home /\ (depth > 0 => hand \in home)

\* A directory that is not recorded yet.
Pending == IF created THEN 1 ELSE 0

\* Every creation is recorded, taken back, left, or about to be read back; and
\* the marker is recorded while the run goes on.
Opened == Steps \ (Looking \cup {"mark", "undo", "done", "refused"})
Counted ==
    /\ made \subseteq {n \in Node : kind[n] # "free"}
    /\ pc # "done" => Cardinality(made) = Len(ledger) + removed + left + Pending
    /\ pc = "refused" => ledger = <<>>
    /\ pc \in Opened => ledger # <<>>

Base == TypeOK /\ InLoop /\ Clean

IInv == Base /\ Closed(home, kind, entries) /\ Held /\ Counted

-----------------------------------------------------------------------------
(* Directories and paths.                                                  *)

\* What Front takes off.
LEMMA Shorter ==
    ASSUME NEW S, NEW s \in Seq(S), s # <<>>
    PROVE  Front(s) \in Seq(S) /\ Len(Front(s)) = Len(s) - 1
<1>1. Len(s) \in Nat \ {0}  OBVIOUS
<1>2. Front(s) = [i \in 1 .. Len(s) - 1 |-> s[i]]  BY <1>1 DEF Front
<1> QED  BY <1>1, <1>2

\* What Within gives contains what it is given and is closed.
LEMMA PendingTyped ==
    /\ Pending \in Nat
    /\ created = FALSE => Pending = 0
    /\ created = TRUE => Pending = 1
BY DEF Pending

LEMMA WithinClosed ==
    ASSUME NEW H \in SUBSET Node, NEW k, NEW e
    PROVE  /\ H \subseteq Within(H, k, e)
           /\ Within(H, k, e) \subseteq Node
           /\ Closed(Within(H, k, e), k, e)
<1> DEFINE others == {n \in Node : k[n] = "directory"} \ H
           inside(S) == {e[d][c] : d \in S, c \in Name} \cap others
           W == H \cup {n \in others : \A X \in SUBSET others : inside(H \cup X) \subseteq X => n \in X}
<1>1. Within(H, k, e) = W  BY DEF Within
<1>2. ASSUME NEW d \in W, NEW c \in Name, e[d][c] \in Node, k[e[d][c]] = "directory",
             e[d][c] \notin H
      PROVE  e[d][c] \in W
  <2>1. e[d][c] \in others  BY <1>2
  <2>2. ASSUME NEW X \in SUBSET others, inside(H \cup X) \subseteq X
        PROVE  e[d][c] \in X
    <3>1. d \in H \cup X  BY <2>2, <1>2
    <3>2. e[d][c] \in inside(H \cup X)  BY <3>1, <2>1
    <3> QED  BY <3>2, <2>2
  <2> QED  BY <2>1, <2>2
<1>3. Closed(W, k, e)  BY <1>2 DEF Closed
<1> QED  BY <1>1, <1>3

\* The path of a call is a path, and not the empty one where it is recorded.
LEMMA TargetTyped ==
    ASSUME TypeOK, InLoop, Calling
    PROVE  /\ Target \in Seq(Name)
           /\ pc \notin {"destination", "open"} => Target # <<>>
<1> USE PlanAssumption DEF TypeOK, InLoop, Calling, Target, Marker
<1>1. CASE pc \in {"destination", "open"}  BY SMTT(30), <1>1
<1>2. CASE pc \in {"marker", "mark", "unmark"}  BY SMTT(30), <1>2
<1>3. CASE pc = "paths"
  <2>1. Files[at] \in Seq(Name) /\ passed + 1 \in 1 .. Len(Files[at])  BY <1>3
  <2>2. SubSeq(Files[at], 1, passed + 1) \in Seq(Name)
        /\ Len(SubSeq(Files[at], 1, passed + 1)) = passed + 1
    BY <2>1, SubSeqProperties
  <2> QED  BY SMTT(30), <1>3, <2>2, <2>1
<1>4. CASE pc \in {"directories", "readback"}  BY SMTT(30), <1>4
<1>5. CASE pc = "files"  BY <1>5
<1>6. CASE pc = "undo"
  <2>1. Len(ledger) \in DOMAIN ledger  BY <1>6
  <2> DEFINE R == [path : Seq(Name) \ {<<>>}, kind : {"file", "directory"}]
  <2>0. ledger \in Seq(R)  OBVIOUS
  <2> HIDE DEF R
  <2>2. Last(ledger) \in R  BY ONLY <2>0, <2>1 DEF Last
  <2> USE DEF R
  <2>3. Last(ledger).path \in Seq(Name) \ {<<>>}  BY <2>2
  <2> QED  BY <1>6, <2>3
<1> QED  BY <1>1, <1>2, <1>3, <1>4, <1>5, <1>6

\* The directory a call is in and the next name of its path.
LEMMA HereTyped ==
    ASSUME TypeOK, InLoop, Clean, Calling, depth <= Walked
    PROVE  /\ Here \in Node
           /\ depth < Len(Way) => Way[depth + 1] \in Name /\ There \in Node \cup {None}
           /\ depth = Walked /\ ~(Beneath /\ pc = "readback") => depth < Len(Way)
           /\ depth < Walked => depth < Len(Way)
<1>1. Target \in Seq(Name)  BY TargetTyped
<1>2. Way \in Seq(Name)
  BY <1>1, PlanAssumption DEF Way
<1>3. Here \in Node  BY NodeAssumption DEF Here, TypeOK
<1>4. depth < Len(Way) => Way[depth + 1] \in Name  BY <1>2 DEF TypeOK
<1>5. depth < Len(Way) => There \in Node \cup {None}  BY <1>3, <1>4 DEF There, TypeOK
<1>6. Walked <= Len(Way) /\ (~(Beneath /\ pc = "readback") => Walked = Len(Way) - 1)
  <2>1. Len(Way) \in Nat  BY <1>2
  <2> QED  BY <2>1 DEF Walked, Beneath
<1>7. Len(Way) \in Nat /\ depth \in Nat  BY <1>2 DEF TypeOK
<1>8. depth = Walked /\ ~(Beneath /\ pc = "readback") => depth < Len(Way)
  BY <1>6, <1>7 DEF Beneath
<1>9. depth < Walked => depth < Len(Way)
  <2>1. Walked \in Nat \cup {-1}  BY <1>7 DEF Walked, Beneath
  <2> QED  BY <2>1, <1>6, <1>7
<1> QED  BY <1>3, <1>4, <1>5, <1>8, <1>9

\* Beneath the descriptor a call is in the destination.
LEMMA HereHeld ==
    ASSUME Held, arm = "beneath"
    PROVE  Here \in home
BY DEF Held, Here, Beneath

-----------------------------------------------------------------------------
(* What a creation and a removal do to the tree.                           *)

LEMMA Making ==
    ASSUME IInv, NEW n \in Fresh, NEW k \in {"file", "directory"}, Make(n, k)
    PROVE  /\ kind' \in [Node -> Kinds]
           /\ entries' \in [Node -> [Name -> Node \cup {None}]]
           /\ leads' = leads
           /\ home' \subseteq Node /\ home \subseteq home'
           /\ Closed(home, kind, entries)'
           /\ made' \subseteq {m \in Node : kind'[m] # "free"}
           /\ Cardinality(made') = Cardinality(made) + 1
           /\ touched' \subseteq Node
           /\ arm = "beneath" => touched' \subseteq home'
           /\ UNCHANGED <<meddled, intruded, balked, moves>>
<1> USE DEF IInv, Base
<1>1. n \in Node /\ kind[n] = "free"  BY DEF Fresh
<1>2. /\ Arrived
      /\ kind' = [kind EXCEPT ![n] = k]
      /\ entries' = [entries EXCEPT ![Here][Way[depth + 1]] = n]
      /\ home' = Within(home, kind', entries')
      /\ made' = made \cup {n}
      /\ touched' = touched \cup {Here}
      /\ UNCHANGED <<leads, meddled, intruded, balked, moves>>
  BY DEF Make
<1>3. kind' \in [Node -> Kinds]  BY <1>1, <1>2 DEF TypeOK
<1>4. entries' \in [Node -> [Name -> Node \cup {None}]]  BY <1>1, <1>2 DEF TypeOK
<1>5. home \in SUBSET Node  BY DEF TypeOK
<1>6. home' \subseteq Node /\ home \subseteq home' /\ Closed(home', kind', entries')
  BY <1>2, <1>5, WithinClosed
<1>7. Closed(home, kind, entries)'  BY <1>6 DEF Closed
<1>8. made' \subseteq {m \in Node : kind'[m] # "free"}
  BY <1>1, <1>2, <1>3 DEF Counted, TypeOK
<1>9. Cardinality(made') = Cardinality(made) + 1
  <2>1. IsFiniteSet(made)  BY NodeAssumption, FS_Subset DEF TypeOK
  <2>2. n \notin made  BY <1>1 DEF Counted
  <2> QED  BY <2>1, <2>2, <1>2, FS_AddElement
<1>10. Here \in Node
  BY <1>2, HereTyped DEF Arrived, TypeOK
<1>11. arm = "beneath" => touched' \subseteq home'
  BY <1>2, <1>6, HereHeld DEF Held
<1> QED  BY <1>2, <1>3, <1>4, <1>6, <1>7, <1>8, <1>9, <1>10, <1>11 DEF TypeOK

LEMMA Unlinking ==
    ASSUME IInv, NEW kinds, Unlink(kinds)
    PROVE  /\ kind' \in [Node -> Kinds]
           /\ entries' \in [Node -> [Name -> Node \cup {None}]]
           /\ Closed(home, kind, entries)'
           /\ made \subseteq {m \in Node : kind'[m] # "free"}
           /\ touched' \subseteq Node
           /\ arm = "beneath" => touched' \subseteq home
           /\ UNCHANGED <<leads, home, made, meddled, intruded, moves>>
<1> USE DEF IInv, Base
<1>1. /\ Arrived
      /\ entries' = [entries EXCEPT ![Here][Way[depth + 1]] = None]
      /\ kind' = [kind EXCEPT ![There] = "gone"]
      /\ touched' = touched \cup {Here}
      /\ UNCHANGED <<leads, home, made, meddled, intruded, moves>>
  BY DEF Unlink
<1>2. kind' \in [Node -> Kinds]  BY <1>1 DEF TypeOK
<1>3. entries' \in [Node -> [Name -> Node \cup {None}]]  BY <1>1 DEF TypeOK
<1>4. Closed(home, kind, entries)'
  <2>1. ASSUME NEW d \in home, NEW c \in Name,
               entries'[d][c] \in Node, kind'[entries'[d][c]] = "directory"
        PROVE  entries'[d][c] \in home
    <3>1. d \in Node  BY DEF TypeOK
    <3>2. entries'[d][c] = entries[d][c]
      BY <1>1, <2>1, <3>1, NodeAssumption DEF TypeOK
    <3>3. kind[entries[d][c]] = "directory"
      BY <1>1, <2>1, <3>2 DEF TypeOK
    <3> QED  BY <2>1, <3>2, <3>3 DEF Closed
  <2> QED  BY <1>1, <2>1 DEF Closed
<1>5. made \subseteq {m \in Node : kind'[m] # "free"}
  BY <1>1, <1>2 DEF Counted, TypeOK
<1>6. Here \in Node
  BY <1>1, HereTyped DEF Arrived, TypeOK
<1>7. arm = "beneath" => touched' \subseteq home
  BY <1>1, HereHeld DEF Held
<1> QED  BY <1>1, <1>2, <1>3, <1>4, <1>5, <1>6, <1>7 DEF TypeOK

-----------------------------------------------------------------------------
(* One lemma for each kind of step.                                        *)

LEMMA InitIInv ==
    ASSUME Init
    PROVE  IInv
<1>1. PICK t \in Found : kind = t.kind /\ entries = t.entries /\ leads = t.leads
  BY DEF Init
<1>2. /\ kind \in [Node -> Kinds]
      /\ entries \in [Node -> [Name -> Node \cup {None}]]
      /\ leads \in [Node -> Node]
  BY <1>1, FoundAssumption
<1>3. platform \in {"linux", "unix", "windows"} /\ ledger = <<>>
      /\ meddled \in BOOLEAN /\ intruded \in BOOLEAN /\ balked \in BOOLEAN
  BY PlanAssumption DEF Init
<1>4. pc \in Steps  BY DEF Init
<1>5. created \in BOOLEAN  BY DEF Init
<1>6. arm \in {"none", "beneath", "portable"}  BY DEF Init
<1>7. /\ at \in Nat \ {0} /\ passed \in Nat /\ depth \in Nat
      /\ removed \in Nat /\ left \in Nat /\ moves \in Nat
      /\ hand \in Node /\ root \in Node
  BY NodeAssumption DEF Init
<1>8. home \subseteq Node /\ made \subseteq Node /\ touched \subseteq Node
  BY DEF Init
<1>9. TypeOK  BY <1>2, <1>3, <1>7, <1>8, <1>4, <1>5, <1>6 DEF TypeOK
<1>10. Cardinality(made) = 0  BY FS_EmptySet DEF Init
<1> QED
  BY <1>9, <1>10 DEF Init, IInv, Base, InLoop, Clean, Closed, Held, Counted, Pending, Looking, Opened

\* A step of a walk.
LEMMA WalkIInv ==
    ASSUME IInv, Walk
    PROVE  IInv'
<1> USE DEF IInv, Base
<1>1. /\ Calling /\ depth < Walked
      /\ Onward # None
      /\ hand' = Onward /\ depth' = depth + 1
      /\ UNCHANGED <<kind, entries, leads, platform, pc, at, passed, arm, root, created,
                     ledger, removed, left, home, made, touched, meddled, intruded,
                     balked, moves>>
  BY DEF Walk, tree, counts, past
<1>2. depth \in Nat  BY DEF TypeOK
<1>3. Way[depth + 1] \in Name /\ There \in Node \cup {None} /\ Here \in Node
  <2>1. Walked \in Int
    <3>1. Target \in Seq(Name)  BY <1>1, TargetTyped
    <3>2. Way \in Seq(Name)  BY <3>1, PlanAssumption DEF Way
    <3> QED  BY <3>2 DEF Walked, Beneath
  <2> QED  BY <1>1, <1>2, <2>1, HereTyped
<1>4. Onward \in Node
  BY <1>1, <1>3 DEF Onward, KindOf, TypeOK
<1>5. TypeOK'  BY <1>1, <1>2, <1>4 DEF TypeOK
<1>6. InLoop' /\ Clean' /\ Counted'  BY <1>1 DEF InLoop, Clean, Counted, Pending
<1>7. Closed(home, kind, entries)'  BY <1>1 DEF Closed
<1>8. Held'
  <2>1. SUFFICES ASSUME arm = "beneath" PROVE Onward \in home
    BY <1>1 DEF Held
  <2>2. Onward = There /\ kind[There] = "directory" /\ There \in Node
    BY <1>1, <1>3, <2>1 DEF Onward, Follows, Beneath, KindOf
  <2>3. Here \in home  BY <2>1, HereHeld
  <2> QED  BY <1>3, <2>2, <2>3 DEF Closed, There
<1> QED  BY <1>5, <1>6, <1>7, <1>8

\* The next call begins, and nothing else has changed.
LEMMA TurnIInv ==
    ASSUME IInv,
           \/ Refuse \/ PreflightMarker \/ PreflightItem \/ PreflightEnds \/ OpenNothing
           \/ FindDirectory \/ DirectoriesEnd \/ WriteFile \/ FilesEnd \/ UndoEnds
    PROVE  IInv'
<1> USE DEF IInv, Base
<1>1. /\ depth' = 0 /\ hand' = Above /\ passed' = 0
      /\ UNCHANGED <<kind, entries, leads, platform, root,
                     ledger, removed, left, home, made, touched, meddled, intruded,
                     balked, moves>>
  BY DEF Refuse, PreflightMarker, PreflightItem, PreflightEnds, OpenNothing,
         FindDirectory, DirectoriesEnd, WriteFile, FilesEnd, UndoEnds, Turn, Again,
         tree, counts, past
<1>2. pc' \in Steps /\ at' \in Nat \ {0}
  BY DEF Refuse, PreflightMarker, PreflightItem, PreflightEnds, OpenNothing,
         FindDirectory, DirectoriesEnd, WriteFile, FilesEnd, UndoEnds, Turn, TypeOK
<1>3. /\ pc' = "paths" /\ at' <= Len(Files) => passed' < Len(Files[at'])
  BY <1>1, <1>2, PlanAssumption
<1>4. /\ pc' = "readback" => at' <= Len(Directories)
      /\ created' = FALSE
      /\ pc' \in Looking => pc \in Looking /\ arm' = arm
      /\ pc' = "refused" => ledger = <<>>
      /\ arm' = "beneath" => arm = "beneath"
      /\ arm' \in {"none", "beneath", "portable"}
      /\ pc # "done" /\ (pc' \in Opened => pc \in Opened)
  BY DEF Refuse, PreflightMarker, PreflightItem, PreflightEnds, OpenNothing,
         FindDirectory, DirectoriesEnd, WriteFile, FilesEnd, UndoEnds, Turn, TypeOK,
         InLoop, Clean, Looking, Arrived, Calling, Opened
<1>5. created = FALSE
  BY DEF Refuse, PreflightMarker, PreflightItem, PreflightEnds, OpenNothing,
         FindDirectory, DirectoriesEnd, WriteFile, FilesEnd, UndoEnds, InLoop, TypeOK
<1>6. TypeOK'  BY <1>1, <1>2, <1>4, NodeAssumption DEF TypeOK
<1>7. InLoop' /\ Clean' /\ Counted'
  BY <1>1, <1>3, <1>4, <1>5 DEF InLoop, Clean, Counted, Pending
<1>8. Closed(home, kind, entries)' /\ Held'  BY <1>1, <1>4 DEF Closed, Held
<1> QED  BY <1>6, <1>7, <1>8

\* The next ancestor of an item.
LEMMA AncestorIInv ==
    ASSUME IInv, PreflightAncestor
    PROVE  IInv'
<1> USE DEF IInv, Base
<1>1. /\ pc = "paths" /\ passed + 1 < Len(Files[at])
      /\ passed' = passed + 1 /\ depth' = 0 /\ hand' = Above
      /\ UNCHANGED <<kind, entries, leads, platform, pc, at, arm, root, created,
                     ledger, removed, left, home, made, touched, meddled, intruded,
                     balked, moves>>
  BY DEF PreflightAncestor, Again, tree, counts, past
<1>2. TypeOK'  BY <1>1, NodeAssumption DEF TypeOK
<1>3. InLoop' /\ Clean' /\ Counted'  BY <1>1 DEF InLoop, Clean, Counted, Pending
<1>4. Closed(home, kind, entries)' /\ Held'  BY <1>1 DEF Closed, Held
<1> QED  BY <1>2, <1>3, <1>4

\* The destination is looked at, or opened.
LEMMA SettleIInv ==
    ASSUME IInv, PreflightDestination \/ OpenRoot
    PROVE  IInv'
<1> USE DEF IInv, Base
<1>1. /\ pc \in {"destination", "open"} /\ Arrived
      /\ KindOf(There) = "directory"
      /\ Settle(There)
      /\ pc' \in {"marker", "mark"} /\ at' = 1 /\ passed' = 0
      /\ depth' = 0 /\ hand' = Above
      /\ UNCHANGED <<kind, entries, leads, platform, created, ledger, removed, left>>
  BY DEF PreflightDestination, OpenRoot, Turn, Again, tree, counts
<1>2. /\ home' = Within({There}, kind, entries)
      /\ meddled' = FALSE /\ intruded' = FALSE
      /\ UNCHANGED <<made, touched, balked, moves>>
  BY <1>1 DEF Settle
<1>3. \/ pc' = "marker" /\ arm' = arm /\ root' = root
      \/ pc' = "mark" /\ root' = There /\ arm' \in {"beneath", "portable"}
  <2>1. CASE PreflightDestination  BY <2>1 DEF PreflightDestination, Turn, tree, counts
  <2>2. CASE OpenRoot  BY <2>2 DEF OpenRoot, Turn
  <2> QED  BY <2>1, <2>2
<1>4. There \in Node
  <2>1. There \in Node \cup {None}  BY <1>1, HereTyped DEF Arrived, TypeOK
  <2> QED  BY <1>1, <2>1 DEF KindOf
<1>5. /\ {There} \subseteq home' /\ home' \subseteq Node
      /\ Closed(home', kind, entries)
  <2> DEFINE D == {There}
  <2>1. D \in SUBSET Node /\ home' = Within(D, kind, entries)  BY <1>2, <1>4
  <2> HIDE DEF D
  <2>2. D \subseteq home' /\ home' \subseteq Node /\ Closed(home', kind, entries)
    BY ONLY <2>1, WithinClosed
  <2> QED  BY <2>2 DEF D
<1>6. TypeOK'
  <2>1. meddled' \in BOOLEAN /\ intruded' \in BOOLEAN /\ balked' \in BOOLEAN
    BY <1>2 DEF TypeOK
  <2>2. pc' \in Steps /\ at' \in Nat \ {0} /\ passed' \in Nat /\ depth' \in Nat
        /\ hand' \in Node
    BY <1>1, NodeAssumption
  <2>3. root' \in Node /\ arm' \in {"none", "beneath", "portable"}
    BY <1>3, <1>4 DEF TypeOK
  <2> QED  BY <1>1, <1>2, <1>5, <2>1, <2>2, <2>3 DEF TypeOK
<1>7. pc \in Looking  BY <1>1 DEF Looking
<1>8. InLoop' /\ Clean' /\ Counted'
  BY <1>1, <1>2, <1>3, <1>7 DEF InLoop, Clean, Counted, Pending, Looking, Opened
<1>9. Closed(home, kind, entries)'  BY <1>1, <1>5 DEF Closed
<1>10. Held'  BY <1>1, <1>2, <1>3, <1>5, <1>7 DEF Held, Clean
<1> QED  BY <1>6, <1>8, <1>9, <1>10

\* Where there is something to write, there is a place for it.
LEMMA Written ==
    ASSUME IInv, CreateMarker \/ MakeDirectory \/ CreateFile
    PROVE  /\ pc \notin Looking /\ pc \notin {"refused", "done"} /\ created = FALSE
           /\ \E n \in Fresh : \E k \in {"file", "directory"} : Make(n, k)
           /\ Target \in Seq(Name) \ {<<>>}
<1> USE DEF IInv, Base
<1>1. pc \in {"mark", "directories", "files"}
  BY DEF CreateMarker, MakeDirectory, CreateFile
<1>2. PICK n \in Fresh, k \in {"file", "directory"} : Make(n, k)
  BY DEF CreateMarker, MakeDirectory, CreateFile
<1>3. Calling  BY <1>2 DEF Make, Arrived
<1>4. Target \in Seq(Name) \ {<<>>}  BY <1>1, <1>3, TargetTyped
<1> QED  BY <1>1, <1>2, <1>4 DEF InLoop, Looking, TypeOK

\* Something is created.
LEMMA MakeIInv ==
    ASSUME IInv, CreateMarker \/ MakeDirectory \/ CreateFile
    PROVE  IInv'
<1> USE DEF IInv, Base
<1>1. /\ pc \notin Looking /\ pc \notin {"refused", "done"} /\ created = FALSE
      /\ Target \in Seq(Name) \ {<<>>}
  BY Written
<1>2. PICK n \in Fresh, k \in {"file", "directory"} : Make(n, k)
  BY Written
<1>3. /\ kind' \in [Node -> Kinds]
      /\ entries' \in [Node -> [Name -> Node \cup {None}]]
      /\ leads' = leads
      /\ home' \subseteq Node /\ home \subseteq home'
      /\ Closed(home, kind, entries)'
      /\ made' \subseteq {m \in Node : kind'[m] # "free"}
      /\ Cardinality(made') = Cardinality(made) + 1
      /\ touched' \subseteq Node
      /\ arm = "beneath" => touched' \subseteq home'
      /\ UNCHANGED <<meddled, intruded, balked, moves>>
  BY <1>2, Making
<1>4. /\ depth' = 0 /\ hand' = Above /\ passed' = 0
      /\ UNCHANGED <<platform, arm, root, removed, left>>
  BY DEF CreateMarker, MakeDirectory, CreateFile, Turn, Again, counts
<1>5. /\ pc' \in {"directories", "readback", "write"}
      /\ at' \in Nat \ {0}
      /\ pc' = "readback" => at' <= Len(Directories)
  <2>1. CASE CreateMarker  BY <2>1 DEF CreateMarker, Turn
  <2>2. CASE MakeDirectory
    BY <2>2, <1>2 DEF MakeDirectory, Make, Arrived, Calling, Turn, TypeOK
  <2>3. CASE CreateFile  BY <2>3 DEF CreateFile, Turn, TypeOK
  <2> QED  BY <2>1, <2>2, <2>3
<1>6. \/ /\ \E j \in {"file", "directory"} : Record(j)
         /\ created' = FALSE
      \/ ledger' = ledger /\ created' = TRUE /\ pc' = "readback"
  <2>1. CASE CreateMarker  BY <2>1, <1>1 DEF CreateMarker
  <2>2. CASE MakeDirectory  BY <2>2, <1>1 DEF MakeDirectory, Turn
  <2>3. CASE CreateFile  BY <2>3, <1>1 DEF CreateFile
  <2> QED  BY <2>1, <2>2, <2>3
<1> DEFINE R == [path : Seq(Name) \ {<<>>}, kind : {"file", "directory"}]
<1>7. /\ ledger' \in Seq(R)
      /\ Len(ledger') + Pending' = Len(ledger) + 1
  <2>1. CASE ledger' = ledger /\ created' = TRUE
    <3>1. Pending' = 1  BY <2>1 DEF Pending
    <3> QED  BY <2>1, <3>1 DEF TypeOK
  <2>2. ASSUME NEW j \in {"file", "directory"}, Record(j), created' = FALSE
        PROVE  ledger' \in Seq(R) /\ Len(ledger') + Pending' = Len(ledger) + 1
    <3> DEFINE r == [path |-> Target, kind |-> j]
    <3>1. ledger \in Seq(R)  BY DEF TypeOK
    <3>2. r \in R  BY <1>1
    <3>3. ledger' = Append(ledger, r)  BY <2>2 DEF Record
    <3>4. Pending' = 0  BY <2>2 DEF Pending
    <3> HIDE DEF R, r
    <3>5. ledger' \in Seq(R) /\ Len(ledger') = Len(ledger) + 1  BY <3>1, <3>2, <3>3
    <3>6. Len(ledger) \in Nat  BY <3>1
    <3> QED  BY ONLY <3>4, <3>5, <3>6
  <2> QED  BY <1>6, <2>1, <2>2
<1>14. created' \in BOOLEAN /\ (created' => pc' = "readback")
  BY <1>6
<1>8. TypeOK'
  <2>1. /\ pc' \in Steps /\ passed' \in Nat /\ depth' \in Nat /\ hand' \in Node
    BY <1>4, <1>5, NodeAssumption
  <2>2. /\ meddled' \in BOOLEAN /\ intruded' \in BOOLEAN /\ balked' \in BOOLEAN
    BY <1>3 DEF TypeOK
  <2> QED  BY <1>3, <1>4, <1>5, <1>7, <1>14, <2>1, <2>2 DEF TypeOK
<1>9. InLoop'  BY <1>5, <1>14 DEF InLoop
<1>10. Clean'  BY <1>5 DEF Clean, Looking
<1>11. Counted'
  <2>1. Len(ledger) \in Nat /\ Len(ledger') \in Nat /\ removed \in Nat /\ left \in Nat
    BY <1>7 DEF TypeOK
  <2>2. Cardinality(made) = Len(ledger) + removed + left
    BY <1>1, <2>1, PendingTyped DEF Counted
  <2>4. Pending' \in Nat  BY DEF Pending
  <2>3. Cardinality(made')
        = Len(ledger') + removed' + left' + Pending'
    <3>1. Cardinality(made') = Cardinality(made) + 1  BY <1>3
    <3>2. removed' = removed /\ left' = left  BY <1>4
    <3>3. Len(ledger') + Pending' = Len(ledger) + 1  BY <1>7
    <3> QED  BY ONLY <3>1, <3>2, <3>3, <2>1, <2>2, <2>4
  <2>5. ledger' # <<>>
    <3>1. CASE ledger' = ledger /\ created' = TRUE /\ pc' = "readback"
      <4>1. pc = "directories"
        BY <3>1 DEF CreateMarker, MakeDirectory, CreateFile, Turn
      <4> QED  BY <3>1, <4>1 DEF Counted, Opened, Looking
    <3>2. CASE created' = FALSE
      <4>1. Len(ledger') = Len(ledger) + 1  BY <3>2, <1>7, <2>1 DEF Pending
      <4> QED  BY <2>1, <4>1
    <3> QED  BY <1>6, <3>1, <3>2
  <2> QED  BY <1>3, <1>5, <2>3, <2>5 DEF Counted
<1>12. Held'  BY <1>3, <1>4 DEF Held
<1> QED  BY <1>3, <1>8, <1>9, <1>10, <1>11, <1>12

\* What was created is recorded, whatever comes next.
LEMMA RecordIInv ==
    ASSUME IInv, ReadBack \/ Fail
    PROVE  IInv'
<1> USE DEF IInv, Base
<1> DEFINE R == [path : Seq(Name) \ {<<>>}, kind : {"file", "directory"}]
<1>1. /\ depth' = 0 /\ hand' = Above /\ passed' = 0 /\ created' = FALSE
      /\ UNCHANGED <<kind, entries, leads, platform, arm, root, removed, left, home, made,
                     touched, meddled, intruded, balked, moves>>
  BY DEF ReadBack, Fail, Turn, Again, tree, counts, past
<1>2. pc' \in {"directories", "undo"} /\ at' \in Nat \ {0}
  BY DEF ReadBack, Fail, Turn, TypeOK
<1>3. /\ pc \notin Looking /\ pc # "done"
      /\ pc' = "directories" => pc \in Opened
  BY DEF ReadBack, Fail, Looking, Opened, Turn
<1>4. /\ created = TRUE => Record("directory")
      /\ created = FALSE => ledger' = ledger
  BY DEF ReadBack, Fail
<1>5. ledger \in Seq(R) /\ Pending' = 0 /\ Len(ledger) \in Nat
  BY <1>1 DEF TypeOK, Pending
<1>6. ledger' \in Seq(R) /\ Len(ledger') = Len(ledger) + Pending
  <2>1. CASE created = TRUE
    <3> DEFINE r == [path |-> Target, kind |-> "directory"]
    <3>1. pc = "readback" /\ Calling  BY <2>1 DEF InLoop, Calling
    <3>2. Target \in Seq(Name) \ {<<>>}  BY <3>1, TargetTyped
    <3>3. r \in R  BY <3>2
    <3>4. ledger' = Append(ledger, r)  BY <2>1, <1>4 DEF Record
    <3>5. Pending = 1  BY <2>1, PendingTyped
    <3> HIDE DEF r, R
    <3> QED  BY <1>5, <3>3, <3>4, <3>5
  <2>2. CASE created = FALSE
    BY <1>4, <1>5, <2>2, PendingTyped
  <2> QED  BY <2>1, <2>2 DEF TypeOK
<1>7. TypeOK'
  <2>1. pc' \in Steps /\ passed' \in Nat /\ depth' \in Nat /\ hand' \in Node
        /\ created' \in BOOLEAN
    BY <1>1, <1>2, NodeAssumption
  <2>2. meddled' \in BOOLEAN /\ intruded' \in BOOLEAN /\ balked' \in BOOLEAN
    BY <1>1 DEF TypeOK
  <2> QED  BY <1>1, <1>2, <1>6, <2>1, <2>2 DEF TypeOK
<1>8. InLoop' /\ Clean'  BY <1>1, <1>2 DEF InLoop, Clean, Looking
<1>9. Counted'
  <2>1. Len(ledger) \in Nat /\ Len(ledger') \in Nat /\ removed \in Nat /\ left \in Nat
        /\ Pending \in Nat
    BY <1>5, <1>6, PendingTyped DEF TypeOK
  <2>2. Cardinality(made) = Len(ledger) + removed + left + Pending  BY <1>3 DEF Counted
  <2>3. Cardinality(made') = Len(ledger') + removed' + left' + Pending'
    BY <1>1, <1>5, <1>6, <2>1, <2>2
  <2>4. pc' = "directories" => ledger' # <<>>
    <3>1. pc' = "directories" => Len(ledger) > 0  BY <1>3, <1>5 DEF Counted
    <3> QED  BY <1>6, <2>1, <3>1
  <2> QED  BY <1>1, <1>2, <2>3, <2>4 DEF Counted, Opened
<1>10. Closed(home, kind, entries)' /\ Held'  BY <1>1 DEF Closed, Held
<1> QED  BY <1>7, <1>8, <1>9, <1>10

\* The marker is removed at the end, or the undo pass removes its newest record.
LEMMA UnlinkIInv ==
    ASSUME IInv, RemoveMarker \/ UndoNewest \/ LeaveInPlace
    PROVE  IInv'
<1> USE DEF IInv, Base
<1> DEFINE R == [path : Seq(Name) \ {<<>>}, kind : {"file", "directory"}]
<1>1. /\ depth' = 0 /\ hand' = Above /\ passed' = 0
      /\ at' = 1 /\ pc' \in {"done", "undo"}
      /\ pc \in {"unmark", "undo"}
      /\ UNCHANGED <<platform, arm, root, created>>
  BY DEF RemoveMarker, UndoNewest, LeaveInPlace, Turn, Again, tree, counts
<1>2. /\ kind' \in [Node -> Kinds]
      /\ entries' \in [Node -> [Name -> Node \cup {None}]]
      /\ Closed(home, kind, entries)'
      /\ made \subseteq {m \in Node : kind'[m] # "free"}
      /\ touched' \subseteq Node
      /\ arm = "beneath" => touched' \subseteq home
      /\ UNCHANGED <<leads, home, made, meddled, intruded, moves>>
  <2>1. CASE RemoveMarker
    <3>1. Unlink({"file", "link"})  BY <2>1 DEF RemoveMarker
    <3> QED  BY <3>1, Unlinking
  <2>2. CASE UndoNewest
    <3>1. Unlink(Removable)  BY <2>2 DEF UndoNewest
    <3> QED  BY <3>1, Unlinking
  <2>3. CASE LeaveInPlace
    <3>1. UNCHANGED <<kind, entries, leads, home, made, touched, meddled, intruded, moves>>
      BY <2>3 DEF LeaveInPlace, tree
    <3> QED  BY <3>1 DEF TypeOK, Closed, Held, Counted
  <2> QED  BY <2>1, <2>2, <2>3
<1>3. balked' \in BOOLEAN
  <2>1. CASE RemoveMarker  BY <2>1 DEF RemoveMarker, TypeOK
  <2>2. CASE UndoNewest  BY <2>2 DEF UndoNewest, TypeOK
  <2>3. CASE LeaveInPlace  BY <2>3, Zenon DEF LeaveInPlace
  <2> QED  BY <2>1, <2>2, <2>3
<1>4. /\ ledger' \in Seq(R) /\ removed' \in Nat /\ left' \in Nat
      /\ pc' # "done" =>
            Len(ledger') + removed' + left' = Len(ledger) + removed + left
  <2>1. ledger \in Seq(R) /\ removed \in Nat /\ left \in Nat  BY DEF TypeOK
  <2>2. CASE RemoveMarker
    <3>1. ledger # <<>> /\ ledger' = Tail(ledger) /\ pc' = "done"
          /\ UNCHANGED <<removed, left>>
      BY <2>2 DEF RemoveMarker, counts, Turn, Counted, Opened, Looking
    <3> HIDE DEF R
    <3>2. ledger' \in Seq(R)  BY <2>1, <3>1
    <3> QED  BY <2>1, <3>1, <3>2
  <2>3. CASE UndoNewest \/ LeaveInPlace
    <3> HIDE DEF R
    <3>1. ledger # <<>> /\ ledger' = Front(ledger)
      BY <2>3 DEF UndoNewest, LeaveInPlace
    <3>2. Len(ledger) \in Nat \ {0}  BY <2>1, <3>1
    <3>3. ledger' \in Seq(R) /\ Len(ledger') = Len(ledger) - 1
      BY <2>1, <3>1, Shorter
    <3>4. \/ removed' = removed + 1 /\ left' = left
          \/ removed' = removed /\ left' = left + 1
      BY <2>3 DEF UndoNewest, LeaveInPlace
    <3> QED  BY <2>1, <3>2, <3>3, <3>4
  <2> QED  BY <2>2, <2>3
<1>5. created = FALSE /\ Pending = 0 /\ Pending' = 0
  BY <1>1 DEF InLoop, TypeOK, Pending
<1>6. TypeOK'
  <2>1. pc' \in Steps /\ passed' \in Nat /\ depth' \in Nat /\ hand' \in Node
        /\ at' \in Nat \ {0}
    BY <1>1, NodeAssumption
  <2>2. meddled' \in BOOLEAN /\ intruded' \in BOOLEAN /\ created' \in BOOLEAN
    BY <1>1, <1>2 DEF TypeOK
  <2> QED  BY <1>1, <1>2, <1>3, <1>4, <2>1, <2>2 DEF TypeOK
<1>7. InLoop' /\ Clean'  BY <1>1, <1>5 DEF InLoop, Clean, Looking
<1>8. Counted'
  <2>1. Cardinality(made) = Len(ledger) + removed + left + Pending
    BY <1>1 DEF Counted
  <2>2. Len(ledger) \in Nat /\ removed \in Nat /\ left \in Nat /\ Len(ledger') \in Nat
    BY <1>4 DEF TypeOK
  <2>3. pc' # "done" => Cardinality(made') = Len(ledger') + removed' + left' + Pending'
    BY <1>2, <1>4, <1>5, <2>1, <2>2
  <2> QED  BY <1>1, <1>2, <2>3 DEF Counted, Opened
<1>9. Held'  BY <1>1, <1>2 DEF Held
<1> QED  BY <1>2, <1>6, <1>7, <1>8, <1>9

\* Others rename a directory or plant a link.
LEMMA OthersIInv ==
    ASSUME IInv, Rename \/ Plant
    PROVE  IInv'
<1> USE DEF IInv, Base
<1>1. /\ kind' \in [Node -> Kinds]
      /\ entries' \in [Node -> [Name -> Node \cup {None}]]
      /\ leads' \in [Node -> Node]
      /\ \A m \in Node : kind[m] # "free" => kind'[m] # "free"
      /\ \E ds : Others(ds)
  <2>1. CASE Rename
    <3>1. PICK d \in DirectoriesThere, e \in DirectoriesThere, b \in Loose, c \in Loose :
            /\ entries[d][b] # None
            /\ entries' = [entries EXCEPT ![d][b] = None, ![e][c] = entries[d][b]]
            /\ UNCHANGED <<kind, leads>>
            /\ Others({d, e})
      BY ZenonT(30), <2>1 DEF Rename
    <3>2. entries[d][b] \in Node
      BY <3>1, OthersAssumption DEF TypeOK, DirectoriesThere
    <3>3. entries' \in [Node -> [Name -> Node \cup {None}]]
      BY <3>1, <3>2 DEF TypeOK
    <3> QED  BY <3>1, <3>3 DEF TypeOK
  <2>2. CASE Plant
    <3>1. PICK d \in DirectoriesThere, c \in Loose, target \in Lures, n \in Fresh :
            /\ kind' = [kind EXCEPT ![n] = "link"]
            /\ entries' = [entries EXCEPT ![d][c] = n]
            /\ leads' = [leads EXCEPT ![n] = target]
            /\ Others({d})
      BY <2>2 DEF Plant
    <3>2. n \in Node /\ target \in Node  BY OthersAssumption DEF Fresh
    <3> QED  BY <3>1, <3>2 DEF TypeOK
  <2> QED  BY <2>1, <2>2
<1>2. PICK ds : Others(ds)  BY <1>1
<1>3. /\ home' = Within(home, kind', entries')
      /\ moves' = moves + 1
      /\ UNCHANGED <<platform, pc, at, passed, hand, depth, arm, root, created, ledger,
                     removed, left, made, touched, balked>>
  BY <1>2 DEF Others, counts
<1>4. meddled' \in BOOLEAN /\ intruded' \in BOOLEAN
  BY <1>2, Zenon DEF Others
<1>5. home \in SUBSET Node  BY DEF TypeOK
<1>6. home \subseteq home' /\ home' \subseteq Node /\ Closed(home', kind', entries')
  BY <1>3, <1>5, WithinClosed
<1>7. TypeOK'
  <2>1. created' \in BOOLEAN /\ balked' \in BOOLEAN  BY <1>3 DEF TypeOK
  <2> QED  BY <1>1, <1>3, <1>4, <1>6, <2>1 DEF TypeOK
<1>8. InLoop' /\ Clean'  BY <1>3 DEF InLoop, Clean
<1>9. Counted'  BY <1>1, <1>3 DEF Counted, Pending, TypeOK
<1>10. Closed(home, kind, entries)'  BY <1>6 DEF Closed
<1>11. Held'  BY <1>3, <1>6 DEF Held
<1> QED  BY <1>7, <1>8, <1>9, <1>10, <1>11

-----------------------------------------------------------------------------
(* The theorems.                                                           *)

LEMMA NextIInv ==
    ASSUME IInv, [Next]_vars
    PROVE  IInv'
<1>1. CASE Next
  BY <1>1, WalkIInv, TurnIInv, AncestorIInv, SettleIInv, MakeIInv, RecordIInv, UnlinkIInv,
     OthersIInv
  DEF Next, Run
<1>2. CASE UNCHANGED vars
  BY <1>2 DEF vars, tree, counts, past, IInv, Base, TypeOK, InLoop, Clean, Closed, Held,
              Counted, Pending
<1> QED  BY <1>1, <1>2

LEMMA Invariance == Spec => []IInv
<1>1. Init => IInv  BY InitIInv
<1>2. IInv /\ [Next]_vars => IInv'  BY NextIInv
<1> QED  BY <1>1, <1>2, PTL DEF Spec

\* Every variable holds a value of its kind, for every plan, tree, platform and
\* number of moves.
THEOREM TypeCorrect == Spec => []TypeOK
<1>1. IInv => TypeOK  BY DEF IInv, Base
<1> QED  BY <1>1, Invariance, PTL

\* Beneath the descriptor nothing is created or removed outside the directory
\* that was opened, its undo pass included, whatever others rename and plant and
\* whenever they do (resolver.rs and unix_fd.rs).
THEOREM Confined == Spec => []ConfinedBeneath
<1>1. IInv => ConfinedBeneath  BY DEF IInv, Held, ConfinedBeneath
<1> QED  BY <1>1, Invariance, PTL

\* A failed run's counts add up to what it created, by name and beneath the
\* descriptor, also when what it made was replaced before it was read back
\* (resolver.rs, DirectoryFailure, and cleanup.rs).
THEOREM Accounted == Spec => []CreationsAreAccounted
<1>1. IInv => CreationsAreAccounted
  <2>1. SUFFICES ASSUME IInv, pc = "refused" PROVE removed + left = Cardinality(made)
    BY DEF CreationsAreAccounted
  <2>2. ledger = <<>> /\ Len(ledger) = 0  BY <2>1 DEF IInv, Counted
  <2>3. Pending = 0  BY <2>1, PendingTyped DEF IInv, Base, InLoop, TypeOK
  <2>4. removed \in Nat /\ left \in Nat  BY <2>1 DEF IInv, Base, TypeOK
  <2> QED  BY <2>1, <2>2, <2>3, <2>4 DEF IInv, Counted
<1> QED  BY <1>1, Invariance, PTL

-----------------------------------------------------------------------------
(* Paths and where they lead.                                              *)

\* w are the directories that the path p leads through from o, all of them
\* directories.
Trail(w, p, o, k, e) ==
    /\ w \in [0 .. Len(p) -> Node]
    /\ w[0] = o
    /\ \A i \in 0 .. Len(p) : k[w[i]] = "directory"
    /\ \A i \in 1 .. Len(p) : w[i] = e[w[i - 1]][p[i]]

Leads(p, n, o, k, e) == \E w : Trail(w, p, o, k, e) /\ w[Len(p)] = n

\* What holds of the first directory of a trail and of each after one it holds
\* of holds of all.
LEMMA AlongTrail ==
    ASSUME NEW p \in Seq(Name), NEW w \in [0 .. Len(p) -> Node], NEW G,
           w[0] \in G,
           \A i \in 1 .. Len(p) : w[i - 1] \in G => w[i] \in G
    PROVE  \A i \in 0 .. Len(p) : w[i] \in G
<1> DEFINE T == {i \in 0 .. Len(p) : w[i] \notin G}
<1>1. Len(p) \in Nat  OBVIOUS
<1>2. SUFFICES ASSUME T # {} PROVE FALSE  OBVIOUS
<1>3. T \subseteq Nat  BY <1>1
<1> HIDE DEF T
<1>4. PICK i \in T : \A j \in T : i <= j  BY <1>2, <1>3, LeastNumber
<1> USE DEF T
<1>5. i \in 1 .. Len(p)  BY <1>1, <1>4
<1>6. i - 1 \in 0 .. Len(p) /\ i - 1 \notin T  BY <1>1, <1>4, <1>5
<1> QED  BY <1>4, <1>5, <1>6

\* A path leads to one directory at most.
LEMMA TrailUnique ==
    ASSUME NEW p \in Seq(Name), NEW o, NEW k, NEW e, NEW w, NEW v,
           Trail(w, p, o, k, e), Trail(v, p, o, k, e)
    PROVE  \A i \in 0 .. Len(p) : w[i] = v[i]
<1> DEFINE T == {i \in 0 .. Len(p) : w[i] # v[i]}
<1>1. Len(p) \in Nat  OBVIOUS
<1>2. SUFFICES ASSUME T # {} PROVE FALSE  OBVIOUS
<1>3. T \subseteq Nat  BY <1>1
<1> HIDE DEF T
<1>4. PICK i \in T : \A j \in T : i <= j  BY <1>2, <1>3, LeastNumber
<1> USE DEF T
<1>5. i \in 1 .. Len(p)  BY <1>1, <1>4 DEF Trail
<1>6. i - 1 \in 0 .. Len(p) /\ i - 1 \notin T  BY <1>1, <1>4, <1>5
<1> QED  BY <1>4, <1>5, <1>6 DEF Trail

LEMMA LeadsUnique ==
    ASSUME NEW p \in Seq(Name), NEW o, NEW k, NEW e, NEW n, NEW m,
           Leads(p, n, o, k, e), Leads(p, m, o, k, e)
    PROVE  n = m
<1>1. PICK w : Trail(w, p, o, k, e) /\ w[Len(p)] = n  BY DEF Leads
<1>2. PICK v : Trail(v, p, o, k, e) /\ v[Len(p)] = m  BY DEF Leads
<1>3. Len(p) \in 0 .. Len(p)  OBVIOUS
<1> QED  BY <1>1, <1>2, <1>3, TrailUnique

\* It stays in what is closed.
LEMMA TrailInside ==
    ASSUME NEW p \in Seq(Name), NEW k, NEW e, NEW H, NEW o \in H, NEW w,
           Closed(H, k, e), Trail(w, p, o, k, e)
    PROVE  \A i \in 0 .. Len(p) : w[i] \in H
<1>1. w \in [0 .. Len(p) -> Node] /\ w[0] \in H  BY DEF Trail
<1>2. ASSUME NEW i \in 1 .. Len(p), w[i - 1] \in H PROVE w[i] \in H
  <2>1. i \in 0 .. Len(p) /\ p[i] \in Name  OBVIOUS
  <2>2. w[i] = e[w[i - 1]][p[i]] /\ w[i] \in Node /\ k[w[i]] = "directory"
    BY <1>1, <2>1 DEF Trail
  <2> QED  BY <1>2, <2>1, <2>2 DEF Closed
<1> QED  BY <1>1, <1>2, AlongTrail

LEMMA LeadsInside ==
    ASSUME NEW p \in Seq(Name), NEW k, NEW e, NEW H, NEW o \in H, NEW n,
           Closed(H, k, e), Leads(p, n, o, k, e)
    PROVE  n \in H
<1>1. PICK w : Trail(w, p, o, k, e) /\ w[Len(p)] = n  BY DEF Leads
<1>2. Len(p) \in 0 .. Len(p)  OBVIOUS
<1> QED  BY <1>1, <1>2, TrailInside

\* The empty path leads to its origin.
LEMMA LeadsNowhere ==
    ASSUME NEW o \in Node, NEW k, NEW e, k[o] = "directory"
    PROVE  Leads(<<>>, o, o, k, e)
<1> DEFINE w == [i \in 0 .. 0 |-> o]
<1>1. Len(<<>>) = 0  OBVIOUS
<1>2. Trail(w, <<>>, o, k, e)  BY <1>1 DEF Trail
<1>3. w[Len(<<>>)] = o  BY <1>1
<1> QED  BY <1>2, <1>3 DEF Leads

LEMMA LeadsTyped ==
    ASSUME NEW p \in Seq(Name), NEW o, NEW k, NEW e, NEW n, Leads(p, n, o, k, e)
    PROVE  n \in Node /\ k[n] = "directory"
<1>1. PICK w : Trail(w, p, o, k, e) /\ w[Len(p)] = n  BY DEF Leads
<1>2. Len(p) \in 0 .. Len(p)  OBVIOUS
<1> QED  BY <1>1, <1>2 DEF Trail

\* One more directory on the path.
LEMMA LeadsOn ==
    ASSUME NEW p \in Seq(Name), NEW o, NEW k, NEW e, NEW n, NEW j \in 0 .. Len(p) - 1,
           Leads(SubSeq(p, 1, j), n, o, k, e),
           e[n][p[j + 1]] \in Node, k[e[n][p[j + 1]]] = "directory"
    PROVE  Leads(SubSeq(p, 1, j + 1), e[n][p[j + 1]], o, k, e)
<1> DEFINE q == SubSeq(p, 1, j)
           r == SubSeq(p, 1, j + 1)
           m == e[n][p[j + 1]]
<1>1. Len(p) \in Nat /\ j \in Nat /\ j + 1 \in 1 .. Len(p)  OBVIOUS
<1>2. q \in Seq(Name) /\ Len(q) = j /\ \A i \in 1 .. j : q[i] = p[i]
  BY <1>1, SubSeqProperties
<1>3. r \in Seq(Name) /\ Len(r) = j + 1 /\ \A i \in 1 .. j + 1 : r[i] = p[i]
  BY <1>1, SubSeqProperties
<1>4. PICK w : Trail(w, q, o, k, e) /\ w[Len(q)] = n  BY DEF Leads
<1> HIDE DEF q, r
<1> DEFINE v == [i \in 0 .. j + 1 |-> IF i = j + 1 THEN m ELSE w[i]]
<1>5. w \in [0 .. j -> Node] /\ w[0] = o /\ w[j] = n  BY <1>2, <1>4 DEF Trail
<1>6. \A i \in 0 .. j : k[w[i]] = "directory"  BY <1>2, <1>4 DEF Trail
<1>7. \A i \in 1 .. j : w[i] = e[w[i - 1]][p[i]]  BY <1>2, <1>4 DEF Trail
<1>8. v \in [0 .. j + 1 -> Node] /\ v[0] = o /\ v[j + 1] = m  BY <1>1, <1>5
<1>9. \A i \in 0 .. j + 1 : k[v[i]] = "directory"
  <2>1. TAKE i \in 0 .. j + 1
  <2>2. CASE i = j + 1  BY <1>8, <2>2
  <2>3. CASE i # j + 1
    <3>1. i \in 0 .. j /\ v[i] = w[i]  BY <1>1, <2>3
    <3> QED  BY <3>1, <1>6
  <2> QED  BY <2>2, <2>3
<1>10. \A i \in 1 .. j + 1 : v[i] = e[v[i - 1]][r[i]]
  <2>1. TAKE i \in 1 .. j + 1
  <2>2. i - 1 \in 0 .. j + 1 /\ v[i - 1] = w[i - 1] /\ r[i] = p[i]  BY <1>1, <1>3
  <2>3. CASE i = j + 1
    <3>1. i - 1 = j  BY <1>1, <2>3
    <3>2. v[i] = m /\ w[i - 1] = n  BY <1>5, <1>8, <2>3, <3>1
    <3> QED  BY <2>2, <2>3, <3>2
  <2>4. CASE i # j + 1
    <3>1. i \in 1 .. j /\ v[i] = w[i]  BY <1>1, <2>4
    <3> QED  BY <3>1, <2>2, <1>7
  <2> QED  BY <2>3, <2>4
<1> HIDE DEF v, m
<1>11. Trail(v, r, o, k, e)  BY <1>3, <1>8, <1>9, <1>10 DEF Trail
<1>12. Leads(r, m, o, k, e)  BY <1>3, <1>8, <1>11 DEF Leads
<1> QED  BY <1>12 DEF r, m

\* The start of a path leads to where the next of its names is.
LEMMA LeadsPart ==
    ASSUME NEW p \in Seq(Name), NEW o, NEW k, NEW e, NEW n,
           NEW j \in 0 .. Len(p) - 1, NEW d,
           Leads(p, n, o, k, e), Leads(SubSeq(p, 1, j), d, o, k, e)
    PROVE  e[d][p[j + 1]] \in Node /\ k[e[d][p[j + 1]]] = "directory"
<1> DEFINE q == SubSeq(p, 1, j)
<1>1. Len(p) \in Nat /\ j \in Nat /\ j + 1 \in 1 .. Len(p)  OBVIOUS
<1>2. q \in Seq(Name) /\ Len(q) = j /\ \A i \in 1 .. j : q[i] = p[i]
  BY <1>1, SubSeqProperties
<1>3. PICK w : Trail(w, p, o, k, e) /\ w[Len(p)] = n  BY DEF Leads
<1>4. PICK v : Trail(v, q, o, k, e) /\ v[Len(q)] = d  BY DEF Leads
<1> HIDE DEF q
<1> DEFINE u == [i \in 0 .. j |-> w[i]]
<1>5. Trail(u, q, o, k, e)
  <2>1. w \in [0 .. Len(p) -> Node] /\ w[0] = o  BY <1>3 DEF Trail
  <2>2. u \in [0 .. j -> Node] /\ u[0] = o  BY <1>1, <2>1
  <2>3. \A i \in 0 .. j : k[u[i]] = "directory"
    BY <1>1, <1>3 DEF Trail
  <2>4. \A i \in 1 .. j : u[i] = e[u[i - 1]][q[i]]
    <3>1. TAKE i \in 1 .. j
    <3>2. i \in 1 .. Len(p) /\ i - 1 \in 0 .. j /\ i \in 0 .. j /\ q[i] = p[i]
      BY <1>1, <1>2
    <3>3. w[i] = e[w[i - 1]][p[i]]  BY <1>3, <3>2 DEF Trail
    <3> QED  BY <3>2, <3>3
  <2> HIDE DEF u
  <2> QED  BY <1>2, <2>2, <2>3, <2>4 DEF Trail
<1>6. u[j] = d
  <2>1. j \in 0 .. Len(q)  BY <1>1, <1>2
  <2> HIDE DEF u
  <2>2. u[j] = v[j]  BY <1>2, <1>4, <1>5, <2>1, TrailUnique
  <2> QED  BY <2>2, <1>2, <1>4
<1>7. w[j] = d  BY <1>1, <1>6
<1>8. w[j + 1] = e[d][p[j + 1]]
  <2>1. w[j + 1] = e[w[j + 1 - 1]][p[j + 1]]  BY <1>1, <1>3 DEF Trail
  <2>2. j + 1 - 1 = j  BY <1>1
  <2> QED  BY <2>1, <2>2, <1>7
<1>9. j + 1 \in 0 .. Len(p)  BY <1>1
<1> QED  BY <1>3, <1>8, <1>9 DEF Trail

\* What happens elsewhere changes no trail.
LEMMA LeadsKept ==
    ASSUME NEW p \in Seq(Name), NEW o, NEW k, NEW e, NEW k2, NEW e2, NEW w,
           Trail(w, p, o, k, e),
           \A i \in 0 .. Len(p) : k2[w[i]] = k[w[i]],
           \A i \in 1 .. Len(p) : e2[w[i - 1]][p[i]] = e[w[i - 1]][p[i]]
    PROVE  Leads(p, w[Len(p)], o, k2, e2)
<1>1. Trail(w, p, o, k2, e2)  BY DEF Trail
<1> QED  BY <1>1 DEF Leads

\* The names along a trail and after it are in use.
LEMMA TrailUsed ==
    ASSUME NEW p \in Seq(Name), NEW o, NEW k, NEW e, NEW w, NEW c \in Name,
           Trail(w, p, o, k, e), e[w[Len(p)]][c] \in Node
    PROVE  \A i \in 0 .. Len(p) : \E b \in Name : e[w[i]][b] \in Node
<1>1. TAKE i \in 0 .. Len(p)
<1>2. CASE i = Len(p)  BY <1>2
<1>3. CASE i # Len(p)
  <2>1. i + 1 \in 1 .. Len(p) /\ i + 1 \in 0 .. Len(p) /\ i + 1 - 1 = i /\ p[i + 1] \in Name  BY <1>3
  <2>2. w[i + 1] \in Node  BY <2>1 DEF Trail
  <2>3. w[i + 1] = e[w[i + 1 - 1]][p[i + 1]]  BY <2>1 DEF Trail
  <2>4. e[w[i]][p[i + 1]] \in Node  BY <2>1, <2>2, <2>3
  <2> QED  BY <2>1, <2>4
<1> QED  BY <1>2, <1>3

-----------------------------------------------------------------------------
(* What a log of creations says of a tree.                                 *)

\* What a log of creations says: each path leads to a directory, D[i], that has
\* the last name of it, and under that name lies what was created.
Records == [path : Seq(Name) \ {<<>>}, kind : {"file", "directory"}]
Slot(L, i) == Last(L[i].path)
Spot(D, L, e, i) == e[D[i]][Slot(L, i)]

Filing(D, L, o, k, e) ==
    /\ D \in [1 .. Len(L) -> Node]
    /\ \A i \in 1 .. Len(L) : Leads(Front(L[i].path), D[i], o, k, e)
    /\ \A i \in 1 .. Len(L) : Spot(D, L, e, i) \in Node /\ k[Spot(D, L, e, i)] = L[i].kind
    /\ \A i, j \in 1 .. Len(L) : Spot(D, L, e, i) = Spot(D, L, e, j) => i = j
    /\ \A i, j \in 1 .. Len(L) : D[j] = Spot(D, L, e, i) => i < j

\* And that it says all: it names all that was created, and whatever is named
\* in or leads to that is in the log.
Whole(D, L, k, e, M, H) ==
    /\ \A i \in 1 .. Len(L) : Spot(D, L, e, i) \in M
    /\ \A x \in M : \A c \in Name :
          e[x][c] # None => \E i \in 1 .. Len(L) : D[i] = x /\ Slot(L, i) = c
    /\ \A x \in M : \A d \in Node : \A c \in Name :
          e[d][c] = x => \E i \in 1 .. Len(L) : D[i] = d /\ Slot(L, i) = c
    /\ \A x \in M : k[x] = "directory" => x \in H

\* The parts of a record.
LEMMA RecordParts ==
    ASSUME NEW L \in Seq(Records), NEW i \in 1 .. Len(L)
    PROVE  /\ Front(L[i].path) \in Seq(Name) /\ Slot(L, i) \in Name
           /\ L[i].kind \in {"file", "directory"}
<1>1. L[i] \in Records  OBVIOUS
<1>2. L[i].path \in Seq(Name) /\ L[i].path # <<>> /\ L[i].kind \in {"file", "directory"}
  BY <1>1 DEF Records
<1> DEFINE p == L[i].path
<1>3. Front(p) \in Seq(Name)
  <2> HIDE DEF p
  <2>1. p \in Seq(Name) /\ p # <<>>  BY <1>2 DEF p
  <2> QED  BY ONLY <2>1, Shorter
<1>4. p[Len(p)] \in Name
  <2> HIDE DEF p
  <2>1. p \in Seq(Name) /\ p # <<>>  BY <1>2 DEF p
  <2> QED  BY <2>1
<1> QED  BY <1>2, <1>3, <1>4 DEF Slot, Last

\* The tree is one.
TreeTyped(k, e) ==
    k \in [Node -> Kinds] /\ e \in [Node -> [Name -> Node \cup {None}]]

\* A free name of d is given to something new.
Grown(k, e, d, c, n, kd, k2, e2) ==
    /\ d \in Node /\ c \in Name /\ n \in Node
    /\ k[d] = "directory" /\ k[n] = "free" /\ e[d][c] = None
    /\ k2 = [k EXCEPT ![n] = kd]
    /\ e2 = [e EXCEPT ![d][c] = n]

\* What was led to before is still led to.
LEMMA LeadsGrown ==
    ASSUME NEW p \in Seq(Name), NEW o, NEW m, NEW k, NEW e, TreeTyped(k, e),
           Leads(p, m, o, k, e),
           NEW d, NEW c, NEW n, NEW kd, NEW k2, NEW e2, Grown(k, e, d, c, n, kd, k2, e2)
    PROVE  Leads(p, m, o, k2, e2)
<1> USE DEF Grown, TreeTyped
<1>0. None \notin Node  BY NodeAssumption
<1>1. PICK w : Trail(w, p, o, k, e) /\ w[Len(p)] = m  BY DEF Leads
<1>2. \A i \in 0 .. Len(p) : w[i] \in Node /\ k[w[i]] = "directory"
  BY <1>1 DEF Trail
<1>3. \A i \in 0 .. Len(p) : k2[w[i]] = k[w[i]]  BY <1>2
<1>4. \A i \in 1 .. Len(p) : e2[w[i - 1]][p[i]] = e[w[i - 1]][p[i]]
  <2>1. TAKE i \in 1 .. Len(p)
  <2>2. i \in 0 .. Len(p) /\ i - 1 \in 0 .. Len(p) /\ p[i] \in Name  OBVIOUS
  <2>3. w[i] = e[w[i - 1]][p[i]] /\ w[i] \in Node /\ w[i - 1] \in Node
    BY <1>1, <1>2, <2>2 DEF Trail
  <2>4. ~(w[i - 1] = d /\ p[i] = c)  BY <2>3, <1>0
  <2> QED  BY <2>2, <2>3, <2>4
<1>5. Leads(p, w[Len(p)], o, k2, e2)
  BY ONLY p \in Seq(Name), <1>1, <1>3, <1>4, LeadsKept
<1> QED  BY <1>1, <1>5

\* What is created is recorded.
LEMMA FilingMore ==
    ASSUME NEW L \in Seq(Records), NEW o, NEW k, NEW e, TreeTyped(k, e),
           NEW D, Filing(D, L, o, k, e),
           NEW d, NEW c, NEW n, NEW kd, NEW k2, NEW e2, Grown(k, e, d, c, n, kd, k2, e2),
           NEW r \in Records, r.kind = kd, Last(r.path) = c,
           Leads(Front(r.path), d, o, k, e)
    PROVE  Filing(Append(D, d), Append(L, r), o, k2, e2)
<1> USE DEF TreeTyped, Grown
<1> DEFINE N == Len(L)
           L2 == Append(L, r)
           D2 == Append(D, d)
<1>1. N \in Nat /\ D \in [1 .. N -> Node]  BY DEF Filing
<1>2. D \in Seq(Node) /\ Len(D) = N
  <2>1. D \in [1 .. N -> Node] /\ N \in Nat  BY <1>1
  <2> QED  BY <2>1
<1>3. /\ L2 \in Seq(Records) /\ Len(L2) = N + 1
      /\ L2[N + 1] = r /\ \A i \in 1 .. N : L2[i] = L[i]
  OBVIOUS
<1>4. /\ D2 \in Seq(Node) /\ Len(D2) = N + 1
      /\ D2[N + 1] = d /\ \A i \in 1 .. N : D2[i] = D[i]
  <2>1. /\ D2 \in Seq(Node) /\ Len(D2) = Len(D) + 1
        /\ D2[Len(D) + 1] = d /\ \A i \in 1 .. Len(D) : D2[i] = D[i]
    BY <1>2
  <2> QED  BY <1>2, <2>1
<1>5. None \notin Node /\ kd \in {"file", "directory"}
  BY NodeAssumption DEF Records
<1>6. ASSUME NEW p \in Seq(Name), NEW m, Leads(p, m, o, k, e)
      PROVE  Leads(p, m, o, k2, e2)
  BY <1>6, LeadsGrown
<1>7. \A i \in 1 .. N : /\ D[i] \in Node /\ k[D[i]] = "directory"
                        /\ Slot(L, i) \in Name
                        /\ Spot(D, L, e, i) \in Node /\ Spot(D, L, e, i) # n
                        /\ k[Spot(D, L, e, i)] = L[i].kind
                        /\ Leads(Front(L[i].path), D[i], o, k2, e2)
  <2>1. TAKE i \in 1 .. N
  <2>2. Front(L[i].path) \in Seq(Name) /\ Slot(L, i) \in Name
        /\ L[i].kind \in {"file", "directory"}
    BY RecordParts
  <2>3. Leads(Front(L[i].path), D[i], o, k, e)
        /\ Spot(D, L, e, i) \in Node /\ k[Spot(D, L, e, i)] = L[i].kind
    BY DEF Filing
  <2>4. D[i] \in Node /\ k[D[i]] = "directory"  BY <2>2, <2>3, LeadsTyped
  <2>5. Leads(Front(L[i].path), D[i], o, k2, e2)  BY <2>2, <2>3, <1>6
  <2> QED  BY <2>2, <2>3, <2>4, <2>5
<1>8. \A i \in 1 .. N : /\ Slot(L2, i) = Slot(L, i)
                        /\ Spot(D2, L2, e2, i) = Spot(D, L, e, i)
  <2>1. TAKE i \in 1 .. N
  <2>2. Slot(L2, i) = Slot(L, i)  BY <1>3 DEF Slot
  <2>3. e[D[i]][Slot(L, i)] \in Node  BY <1>7 DEF Spot
  <2>4. ~(D[i] = d /\ Slot(L, i) = c)  BY <2>3, <1>5
  <2>5. e2[D[i]][Slot(L, i)] = e[D[i]][Slot(L, i)]  BY <2>4, <1>7
  <2> QED  BY <2>2, <2>5, <1>4 DEF Spot
<1>9. Slot(L2, N + 1) = c /\ Spot(D2, L2, e2, N + 1) = n
  BY <1>3, <1>4 DEF Slot, Spot
<1>10. Front(r.path) \in Seq(Name) /\ Leads(Front(r.path), d, o, k2, e2)
  <2> DEFINE p == r.path
  <2>1. p \in Seq(Name) /\ p # <<>>  BY DEF Records
  <2> HIDE DEF p
  <2>2. Front(p) \in Seq(Name)  BY ONLY <2>1, Shorter
  <2> QED  BY <2>2, <1>6 DEF p
<1> HIDE DEF L2, D2
<1>11. ASSUME NEW i \in 1 .. N + 1
       PROVE  /\ Leads(Front(L2[i].path), D2[i], o, k2, e2)
              /\ Spot(D2, L2, e2, i) \in Node /\ k2[Spot(D2, L2, e2, i)] = L2[i].kind
  <2>1. CASE i = N + 1
    BY <2>1, <1>3, <1>4, <1>9, <1>10
  <2>2. CASE i # N + 1
    <3>1. i \in 1 .. N  BY <2>2, <1>1
    <3>2. Leads(Front(L[i].path), D[i], o, k2, e2)  BY <3>1, <1>7
    <3>3. Leads(Front(L2[i].path), D2[i], o, k2, e2)  BY <3>1, <3>2, <1>3, <1>4
    <3>4. Spot(D2, L2, e2, i) = Spot(D, L, e, i) /\ L2[i] = L[i]  BY <3>1, <1>8, <1>3
    <3>5. k2[Spot(D, L, e, i)] = k[Spot(D, L, e, i)]  BY <3>1, <1>7
    <3> QED  BY <3>1, <3>3, <3>4, <3>5, <1>7
  <2> QED  BY <2>1, <2>2
<1>12. ASSUME NEW i \in 1 .. N + 1, NEW j \in 1 .. N + 1,
              Spot(D2, L2, e2, i) = Spot(D2, L2, e2, j)
       PROVE  i = j
  <2>1. CASE i \in 1 .. N /\ j \in 1 .. N
    <3>1. Spot(D, L, e, i) = Spot(D, L, e, j)  BY <2>1, <1>8, <1>12
    <3> QED  BY <2>1, <3>1 DEF Filing
  <2>2. CASE i = N + 1 /\ j \in 1 .. N  BY <2>2, <1>7, <1>8, <1>9, <1>12
  <2>3. CASE j = N + 1 /\ i \in 1 .. N  BY <2>3, <1>7, <1>8, <1>9, <1>12
  <2> QED  BY <2>1, <2>2, <2>3, <1>1
<1>13. ASSUME NEW i \in 1 .. N + 1, NEW j \in 1 .. N + 1, D2[j] = Spot(D2, L2, e2, i)
       PROVE  i < j
  <2>1. CASE i = N + 1
    <3>1. D2[j] = n  BY <2>1, <1>9, <1>13
    <3>2. k[D2[j]] = "directory"
      <4>1. CASE j = N + 1  BY <4>1, <1>4
      <4>2. CASE j # N + 1
        <5>1. j \in 1 .. N  BY <4>2, <1>1
        <5> QED  BY <5>1, <1>4, <1>7
      <4> QED  BY <4>1, <4>2
    <3> QED  BY <3>1, <3>2
  <2>2. CASE i # N + 1 /\ j = N + 1  BY <2>2, <1>1
  <2>3. CASE i # N + 1 /\ j # N + 1
    <3>1. i \in 1 .. N /\ j \in 1 .. N  BY <2>3, <1>1
    <3>2. D[j] = Spot(D, L, e, i)  BY <3>1, <1>4, <1>8, <1>13
    <3> QED  BY <3>1, <3>2 DEF Filing
  <2> QED  BY <2>1, <2>2, <2>3
<1>14. D2 \in [1 .. N + 1 -> Node]  BY <1>4
<1>15. Filing(D2, L2, o, k2, e2)
  BY <1>3, <1>11, <1>12, <1>13, <1>14 DEF Filing
<1> QED  BY <1>15 DEF D2, L2

\* The directories of the records but the newest.
Older(D, L) == [i \in 1 .. Len(L) - 1 |-> D[i]]

\* The newest record is forgotten.
LEMMA FilingLess ==
    ASSUME NEW L \in Seq(Records), L # <<>>, NEW o, NEW k, NEW e, NEW D, Filing(D, L, o, k, e)
    PROVE  /\ Front(L) \in Seq(Records) /\ Len(Front(L)) = Len(L) - 1
           /\ \A i \in 1 .. Len(L) - 1 : Front(L)[i] = L[i]
           /\ Filing(Older(D, L), Front(L), o, k, e)
<1> DEFINE N == Len(L)
           L2 == Front(L)
           D2 == Older(D, L)
<1>1. N \in Nat \ {0} /\ D \in [1 .. N -> Node]  BY DEF Filing
<1>2. L2 \in Seq(Records) /\ Len(L2) = N - 1
  <2> HIDE DEF Records
  <2> QED  BY Shorter
<1>3. \A i \in 1 .. N - 1 : L2[i] = L[i]
  BY <1>1 DEF Front
<1>4. \A i \in 1 .. N - 1 : i \in 1 .. N  BY <1>1
<1>5. D2 \in [1 .. N - 1 -> Node] /\ \A i \in 1 .. N - 1 : D2[i] = D[i]
  BY <1>1, <1>4 DEF Older
<1> HIDE DEF D2, L2
<1>6. \A i \in 1 .. N - 1 : Slot(L2, i) = Slot(L, i) /\ Spot(D2, L2, e, i) = Spot(D, L, e, i)
  BY <1>3, <1>5 DEF Slot, Spot
<1>7. \A i \in 1 .. N - 1 : Leads(Front(L2[i].path), D2[i], o, k, e)
  <2>1. TAKE i \in 1 .. N - 1
  <2>2. Leads(Front(L[i].path), D[i], o, k, e)  BY <1>4 DEF Filing
  <2> QED  BY <2>2, <1>3, <1>5
<1>8. \A i \in 1 .. N - 1 : Spot(D2, L2, e, i) \in Node /\ k[Spot(D2, L2, e, i)] = L2[i].kind
  <2>1. TAKE i \in 1 .. N - 1
  <2>2. Spot(D, L, e, i) \in Node /\ k[Spot(D, L, e, i)] = L[i].kind  BY <1>4 DEF Filing
  <2> QED  BY <2>2, <1>3, <1>6
<1>9. ASSUME NEW i \in 1 .. N - 1, NEW j \in 1 .. N - 1
      PROVE  /\ Spot(D2, L2, e, i) = Spot(D2, L2, e, j) => i = j
             /\ D2[j] = Spot(D2, L2, e, i) => i < j
  <2>2. i \in 1 .. N /\ j \in 1 .. N  BY <1>4
  <2>3. /\ Spot(D, L, e, i) = Spot(D, L, e, j) => i = j
        /\ D[j] = Spot(D, L, e, i) => i < j
    BY <2>2 DEF Filing
  <2> QED  BY <2>3, <1>5, <1>6
<1>10. Filing(D2, L2, o, k, e)  BY <1>2, <1>5, <1>7, <1>8, <1>9 DEF Filing
<1> QED  BY <1>2, <1>3, <1>10 DEF D2, L2

-----------------------------------------------------------------------------
(* What a removal does to paths and the log, and what others do.           *)

\* A name is used in m.
InUse(e, m) == \E b \in Name : e[m][b] \in Node

\* What has the name c in d is removed; a directory is empty then.
Cut(k, e, d, c, k2, e2) ==
    LET s == e[d][c]
    IN  /\ s \in Node
        /\ k[s] = "directory" => \A a \in Name : e[s][a] = None
        /\ k2 = [k EXCEPT ![s] = "gone"]
        /\ e2 = [e EXCEPT ![d][c] = None]

\* A trail does not pass what is removed, and does not end there where a name
\* is used.
LEMMA LeadsRemoved ==
    ASSUME NEW p \in Seq(Name), NEW o, NEW k, NEW e, TreeTyped(k, e),
           NEW m, Leads(p, m, o, k, e), InUse(e, m),
           NEW d \in Node, NEW c \in Name, NEW k2, NEW e2, Cut(k, e, d, c, k2, e2)
    PROVE  Leads(p, m, o, k2, e2) /\ k2[o] = "directory"
<1> DEFINE s == e[d][c]
<1> USE DEF Cut, TreeTyped
<1>1. PICK w : Trail(w, p, o, k, e) /\ w[Len(p)] = m  BY DEF Leads
<1>2. \A i \in 0 .. Len(p) : \E a \in Name : e[w[i]][a] \in Node
  BY <1>1, TrailUsed DEF InUse
<1>3. \A i \in 0 .. Len(p) : w[i] \in Node /\ k[w[i]] = "directory" /\ w[i] # s
  <2>1. TAKE i \in 0 .. Len(p)
  <2>2. w[i] \in Node /\ k[w[i]] = "directory"  BY <1>1 DEF Trail
  <2> QED  BY <2>2, <1>2, NodeAssumption
<1>4. \A i \in 0 .. Len(p) : k2[w[i]] = k[w[i]]  BY <1>3
<1>5. \A i \in 1 .. Len(p) : e2[w[i - 1]][p[i]] = e[w[i - 1]][p[i]]
  <2>1. TAKE i \in 1 .. Len(p)
  <2>2. i \in 0 .. Len(p) /\ i - 1 \in 0 .. Len(p) /\ p[i] \in Name  OBVIOUS
  <2>3. w[i] = e[w[i - 1]][p[i]]  BY <1>1 DEF Trail
  <2>4. w[i] # s /\ w[i - 1] \in Node  BY <2>2, <1>3
  <2>5. ~(w[i - 1] = d /\ p[i] = c)  BY <2>3, <2>4
  <2> QED  BY <2>2, <2>4, <2>5
<1>6. Leads(p, w[Len(p)], o, k2, e2)
  BY ONLY p \in Seq(Name), <1>1, <1>4, <1>5, LeadsKept
<1>7. k2[o] = "directory"
  <2>1. 0 \in 0 .. Len(p) /\ w[0] = o  BY <1>1 DEF Trail
  <2> QED  BY <2>1, <1>3, <1>4
<1> QED  BY <1>1, <1>6, <1>7

CutNewest(D, L, k, e, k2, e2) == Cut(k, e, D[Len(L)], Slot(L, Len(L)), k2, e2)

\* The newest thing is removed and its record forgotten.
LEMMA FilingRemoved ==
    ASSUME NEW L \in Seq(Records), L # <<>>, NEW o, NEW k, NEW e, TreeTyped(k, e),
           NEW D, Filing(D, L, o, k, e),
           NEW k2, NEW e2, CutNewest(D, L, k, e, k2, e2)
    PROVE  /\ Filing(Older(D, L), Front(L), o, k2, e2)
           /\ \A i \in 1 .. Len(L) - 1 :
                 Spot(Older(D, L), Front(L), e2, i) = Spot(D, L, e, i)
           /\ k2[o] = "directory"
<1> DEFINE N == Len(L)
           L2 == Front(L)
           D2 == Older(D, L)
           d == D[N]
           c == Slot(L, N)
           s == e[d][c]
<1>1. N \in Nat \ {0} /\ N \in 1 .. N /\ D \in [1 .. N -> Node]  BY DEF Filing
<1>2. /\ L2 \in Seq(Records) /\ Len(L2) = N - 1
      /\ \A i \in 1 .. N - 1 : L2[i] = L[i]
      /\ Filing(D2, L2, o, k, e)
  BY FilingLess
<1>3. \A i \in 1 .. N - 1 : i \in 1 .. N /\ i # N  BY <1>1
<1>4. D2 \in [1 .. N - 1 -> Node] /\ \A i \in 1 .. N - 1 : D2[i] = D[i]
  BY <1>1, <1>3 DEF Older
<1>5. d \in Node /\ c \in Name /\ Cut(k, e, d, c, k2, e2)
  BY <1>1, RecordParts DEF CutNewest
<1> HIDE DEF d, c
<1>6. ASSUME NEW p \in Seq(Name), NEW m, Leads(p, m, o, k, e), InUse(e, m)
      PROVE  Leads(p, m, o, k2, e2) /\ k2[o] = "directory"
  BY <1>5, <1>6, LeadsRemoved
<1>7. \A i \in 1 .. N : Leads(Front(L[i].path), D[i], o, k2, e2) /\ k2[o] = "directory"
  <2>1. TAKE i \in 1 .. N
  <2>2. Front(L[i].path) \in Seq(Name) /\ Slot(L, i) \in Name  BY RecordParts
  <2>3. Leads(Front(L[i].path), D[i], o, k, e) /\ Spot(D, L, e, i) \in Node
    BY DEF Filing
  <2>4. InUse(e, D[i])  BY <2>2, <2>3 DEF Spot, InUse
  <2> QED  BY <2>2, <2>3, <2>4, <1>6
<1> HIDE DEF D2, L2
<1>8. \A i \in 1 .. N - 1 : /\ Slot(L2, i) = Slot(L, i)
                            /\ Spot(D2, L2, e2, i) = Spot(D, L, e, i)
                            /\ k2[Spot(D, L, e, i)] = k[Spot(D, L, e, i)]
                            /\ Spot(D, L, e, i) \in Node
                            /\ k[Spot(D, L, e, i)] = L2[i].kind
  <2>1. TAKE i \in 1 .. N - 1
  <2>2. i \in 1 .. N /\ i # N  BY <1>3
  <2>3. Slot(L2, i) = Slot(L, i)  BY <1>2 DEF Slot
  <2>4. Slot(L, i) \in Name /\ D[i] \in Node  BY <2>2, RecordParts, <1>1
  <2>5. Spot(D, L, e, i) \in Node /\ k[Spot(D, L, e, i)] = L[i].kind  BY <2>2 DEF Filing
  <2>6. Spot(D, L, e, i) # s  BY <2>2, <1>1 DEF Filing, Spot, d, c
  <2>7. ~(D[i] = d /\ Slot(L, i) = c)  BY <2>6, <1>5 DEF Spot
  <2>8. e2[D[i]][Slot(L, i)] = e[D[i]][Slot(L, i)]  BY <2>4, <2>7, <1>5 DEF Cut, TreeTyped
  <2>9. Spot(D2, L2, e2, i) = Spot(D, L, e, i)  BY <2>3, <2>8, <1>4 DEF Spot
  <2>10. k2[Spot(D, L, e, i)] = k[Spot(D, L, e, i)]  BY <2>5, <2>6, <1>5 DEF Cut, TreeTyped
  <2> QED  BY <2>3, <2>5, <2>9, <2>10, <1>2
<1>9. ASSUME NEW i \in 1 .. N - 1, NEW j \in 1 .. N - 1
      PROVE  /\ Spot(D2, L2, e2, i) = Spot(D2, L2, e2, j) => i = j
             /\ D2[j] = Spot(D2, L2, e2, i) => i < j
  <2>1. i \in 1 .. N /\ j \in 1 .. N  BY <1>3
  <2>2. /\ Spot(D, L, e, i) = Spot(D, L, e, j) => i = j
        /\ D[j] = Spot(D, L, e, i) => i < j
    BY <2>1 DEF Filing
  <2> QED  BY <2>2, <1>4, <1>8
<1>10. \A i \in 1 .. N - 1 : Leads(Front(L2[i].path), D2[i], o, k2, e2)
  <2>1. TAKE i \in 1 .. N - 1
  <2> QED  BY <1>3, <1>7, <1>2, <1>4
<1>11. Filing(D2, L2, o, k2, e2)
  BY <1>2, <1>4, <1>8, <1>9, <1>10 DEF Filing
<1>12. k2[o] = "directory"  BY <1>1, <1>7
<1> QED  BY <1>8, <1>11, <1>12 DEF D2, L2

\* Others act outside of H.
Elsewhere(H, k, e, k2, e2) ==
    /\ \A d \in H : e2[d] = e[d]
    /\ \A n \in Node : k[n] # "free" => k2[n] = k[n]

\* No path changes by that, and no record.
LEMMA LeadsUnmoved ==
    ASSUME NEW p \in Seq(Name), NEW k, NEW e, NEW H, NEW o \in H, NEW m,
           Closed(H, k, e), Leads(p, m, o, k, e),
           NEW k2, NEW e2, Elsewhere(H, k, e, k2, e2)
    PROVE  Leads(p, m, o, k2, e2)
<1> USE DEF Elsewhere
<1>1. PICK w : Trail(w, p, o, k, e) /\ w[Len(p)] = m  BY DEF Leads
<1>2. \A i \in 0 .. Len(p) : w[i] \in H  BY <1>1, TrailInside
<1>3. \A i \in 0 .. Len(p) : k2[w[i]] = k[w[i]]  BY <1>1 DEF Trail
<1>4. \A i \in 1 .. Len(p) : e2[w[i - 1]][p[i]] = e[w[i - 1]][p[i]]
  <2>1. TAKE i \in 1 .. Len(p)
  <2>2. i - 1 \in 0 .. Len(p)  OBVIOUS
  <2> QED  BY <2>2, <1>2
<1>5. Leads(p, w[Len(p)], o, k2, e2)
  BY ONLY p \in Seq(Name), <1>1, <1>3, <1>4, LeadsKept
<1> QED  BY <1>1, <1>5

LEMMA FilingUnmoved ==
    ASSUME NEW L \in Seq(Records), NEW k, NEW e, NEW H, NEW o \in H, NEW D,
           Closed(H, k, e), Filing(D, L, o, k, e),
           NEW k2, NEW e2, Elsewhere(H, k, e, k2, e2)
    PROVE  /\ Filing(D, L, o, k2, e2)
           /\ \A i \in 1 .. Len(L) : D[i] \in H /\ Spot(D, L, e2, i) = Spot(D, L, e, i)
<1>1. \A i \in 1 .. Len(L) : Leads(Front(L[i].path), D[i], o, k2, e2) /\ D[i] \in H
  <2>1. TAKE i \in 1 .. Len(L)
  <2>2. Front(L[i].path) \in Seq(Name)  BY RecordParts
  <2>3. Leads(Front(L[i].path), D[i], o, k, e)  BY DEF Filing
  <2>4. D[i] \in H  BY <2>2, <2>3, LeadsInside
  <2>5. Leads(Front(L[i].path), D[i], o, k2, e2)  BY <2>2, <2>3, LeadsUnmoved
  <2> QED  BY <2>4, <2>5
<1>2. \A i \in 1 .. Len(L) : Spot(D, L, e2, i) = Spot(D, L, e, i)  BY <1>1 DEF Spot, Elsewhere
<1>3. \A i \in 1 .. Len(L) : Spot(D, L, e2, i) \in Node /\ k2[Spot(D, L, e2, i)] = L[i].kind
  <2>1. TAKE i \in 1 .. Len(L)
  <2>2. Spot(D, L, e, i) \in Node /\ k[Spot(D, L, e, i)] = L[i].kind  BY DEF Filing
  <2>3. L[i].kind # "free"
    <3>1. L[i].kind \in {"file", "directory"}  BY RecordParts
    <3> QED  BY <3>1
  <2> QED  BY <2>2, <2>3, <1>2 DEF Elsewhere
<1>4. Filing(D, L, o, k2, e2)
  <2>1. ASSUME NEW i \in 1 .. Len(L), NEW j \in 1 .. Len(L)
        PROVE  /\ Spot(D, L, e2, i) = Spot(D, L, e2, j) => i = j
               /\ D[j] = Spot(D, L, e2, i) => i < j
    BY <1>2 DEF Filing
  <2>2. D \in [1 .. Len(L) -> Node]  BY DEF Filing
  <2> QED  BY <1>1, <1>3, <2>1, <2>2 DEF Filing
<1> QED  BY <1>1, <1>2, <1>4

-----------------------------------------------------------------------------
(* That the log says all.                                                  *)

\* The log still says all when what is new, and was blank, is recorded.
LEMMA WholeMore ==
    ASSUME NEW L \in Seq(Records), NEW o, NEW k, NEW e, TreeTyped(k, e),
           NEW D, Filing(D, L, o, k, e),
           NEW d, NEW c, NEW n, NEW kd, NEW k2, NEW e2, Grown(k, e, d, c, n, kd, k2, e2),
           NEW r \in Records, r.kind = kd, Last(r.path) = c,
           NEW M \in SUBSET Node, NEW H, NEW H2, H \subseteq H2, n \notin M,
           Whole(D, L, k, e, M, H),
           \A x \in Node : \A a \in Name : e[x][a] # n,
           \A a \in Name : e[n][a] = None,
           kd = "directory" => n \in H2
    PROVE  Whole(Append(D, d), Append(L, r), k2, e2, M \cup {n}, H2)
<1> USE DEF TreeTyped, Grown
<1> DEFINE N == Len(L)
           L2 == Append(L, r)
           D2 == Append(D, d)
<1>1. N \in Nat /\ D \in [1 .. N -> Node]  BY DEF Filing
<1>2. D \in Seq(Node) /\ Len(D) = N
  <2>1. D \in [1 .. N -> Node] /\ N \in Nat  BY <1>1
  <2> QED  BY <2>1
<1>3. /\ L2 \in Seq(Records) /\ Len(L2) = N + 1
      /\ L2[N + 1] = r /\ \A i \in 1 .. N : L2[i] = L[i]
  OBVIOUS
<1>4. /\ D2[N + 1] = d /\ \A i \in 1 .. N : D2[i] = D[i]
  <2>1. /\ D2[Len(D) + 1] = d /\ \A i \in 1 .. Len(D) : D2[i] = D[i]
    BY <1>2
  <2> QED  BY <1>2, <2>1
<1>5. \A i \in 1 .. N : i \in 1 .. N + 1 /\ i # N + 1  BY <1>1
<1>6. N + 1 \in 1 .. N + 1  BY <1>1
<1>7. Slot(L2, N + 1) = c /\ \A i \in 1 .. N : Slot(L2, i) = Slot(L, i)
  BY <1>3 DEF Slot
<1> HIDE DEF L2, D2
<1>8. Spot(D2, L2, e2, N + 1) = n  BY <1>4, <1>7 DEF Spot
<1>9. ASSUME NEW i \in 1 .. N PROVE Spot(D2, L2, e2, i) = Spot(D, L, e, i)
  <2>1. Slot(L, i) \in Name /\ D[i] \in Node /\ e[D[i]][Slot(L, i)] \in Node
    BY <1>1, RecordParts DEF Filing, Spot
  <2>2. ~(D[i] = d /\ Slot(L, i) = c)  BY <2>1, NodeAssumption
  <2>3. e2[D[i]][Slot(L, i)] = e[D[i]][Slot(L, i)]  BY <2>1, <2>2
  <2> QED  BY <2>3, <1>4, <1>7 DEF Spot
<1>10. ASSUME NEW i \in 1 .. N + 1 PROVE Spot(D2, L2, e2, i) \in M \cup {n}
  <2>1. CASE i = N + 1  BY <2>1, <1>8
  <2>2. CASE i # N + 1
    <3>1. i \in 1 .. N  BY <2>2, <1>1
    <3>2. Spot(D, L, e, i) \in M  BY <3>1 DEF Whole
    <3> QED  BY <3>1, <3>2, <1>9
  <2> QED  BY <2>1, <2>2
<1>11. ASSUME NEW x \in Node, NEW a \in Name, ~(x = d /\ a = c)
       PROVE  e2[x][a] = e[x][a]
  BY <1>11
<1>12. ASSUME NEW x \in M \cup {n}, NEW a \in Name, e2[x][a] # None
       PROVE  \E i \in 1 .. N + 1 : D2[i] = x /\ Slot(L2, i) = a
  <2>1. CASE x = d /\ a = c  BY <2>1, <1>4, <1>6, <1>7
  <2>2. CASE ~(x = d /\ a = c)
    <3>1. e[x][a] # None  BY <2>2, <1>11, <1>12
    <3>2. x \in M  BY <3>1
    <3>3. PICK i \in 1 .. N : D[i] = x /\ Slot(L, i) = a  BY <3>1, <3>2 DEF Whole
    <3> QED  BY <3>3, <1>4, <1>5, <1>7
  <2> QED  BY <2>1, <2>2
<1>13. ASSUME NEW x \in M \cup {n}, NEW y \in Node, NEW a \in Name, e2[y][a] = x
       PROVE  \E i \in 1 .. N + 1 : D2[i] = y /\ Slot(L2, i) = a
  <2>1. CASE y = d /\ a = c  BY <2>1, <1>4, <1>6, <1>7
  <2>2. CASE ~(y = d /\ a = c)
    <3>1. e[y][a] = x  BY <2>2, <1>11, <1>13
    <3>2. x \in M  BY <3>1
    <3>3. PICK i \in 1 .. N : D[i] = y /\ Slot(L, i) = a  BY <3>1, <3>2 DEF Whole
    <3> QED  BY <3>3, <1>4, <1>5, <1>7
  <2> QED  BY <2>1, <2>2
<1>14. ASSUME NEW x \in M \cup {n}, k2[x] = "directory"
       PROVE  x \in H2
  <2>1. CASE x = n
    <3>1. k2[n] = kd  OBVIOUS
    <3> QED  BY <3>1, <2>1, <1>14
  <2>2. CASE x # n
    <3>1. x \in M /\ k[x] = "directory"  BY <2>2, <1>14
    <3> QED  BY <3>1 DEF Whole
  <2> QED  BY <2>1, <2>2
<1>15. Whole(D2, L2, k2, e2, M \cup {n}, H2)
  <2>1. Len(L2) = N + 1  BY <1>3
  <2>2. \A i \in 1 .. N + 1 : Spot(D2, L2, e2, i) \in M \cup {n}  BY <1>10
  <2>3. \A x \in M \cup {n} : \A a \in Name : e2[x][a] # None =>
            \E i \in 1 .. N + 1 : D2[i] = x /\ Slot(L2, i) = a
    BY <1>12
  <2>4. \A x \in M \cup {n} : \A y \in Node : \A a \in Name : e2[y][a] = x =>
            \E i \in 1 .. N + 1 : D2[i] = y /\ Slot(L2, i) = a
    BY <1>13
  <2>5. \A x \in M \cup {n} : k2[x] = "directory" => x \in H2  BY <1>14
  <2> QED  BY ONLY <2>1, <2>2, <2>3, <2>4, <2>5 DEF Whole
<1> QED  BY <1>15 DEF D2, L2

\* And when the newest thing is removed and its record forgotten.
LEMMA WholeLess ==
    ASSUME NEW L \in Seq(Records), L # <<>>, NEW o, NEW k, NEW e, TreeTyped(k, e),
           NEW D, Filing(D, L, o, k, e),
           NEW k2, NEW e2, CutNewest(D, L, k, e, k2, e2),
           NEW M \in SUBSET Node, NEW H, Whole(D, L, k, e, M, H)
    PROVE  Whole(Older(D, L), Front(L), k2, e2, M, H)
<1>0. \A i \in 1 .. Len(L) - 1 : Spot(Older(D, L), Front(L), e2, i) = Spot(D, L, e, i)
  <2> HIDE DEF Filing
  <2> QED  BY FilingRemoved
<1> DEFINE N == Len(L)
           L2 == Front(L)
           D2 == Older(D, L)
           d == D[N]
           c == Slot(L, N)
<1>1. N \in Nat \ {0} /\ N \in 1 .. N /\ D \in [1 .. N -> Node]  BY DEF Filing
<1>2. /\ L2 \in Seq(Records) /\ Len(L2) = N - 1
      /\ \A i \in 1 .. N - 1 : L2[i] = L[i]
      /\ \A i \in 1 .. N - 1 : Spot(D, L, e, i) = Spot(D2, L2, e2, i)
  BY <1>0, FilingLess
<1>3. \A i \in 1 .. N - 1 : i \in 1 .. N /\ i # N  BY <1>1
<1>4. \A i \in 1 .. N - 1 : D2[i] = D[i]  BY DEF Older
<1>5. \A i \in 1 .. N : i # N => i \in 1 .. N - 1  BY <1>1
<1> HIDE DEF L2, D2
<1>6. \A i \in 1 .. N - 1 : Slot(L2, i) = Slot(L, i)  BY <1>2 DEF Slot
<1>7. d \in Node /\ c \in Name  BY <1>1, RecordParts
<1> HIDE DEF d, c
<1>8. /\ \A y \in Node : \A a \in Name : e2[y][a] = IF y = d /\ a = c THEN None ELSE e[y][a]
      /\ \A y \in Node : k2[y] = "directory" => k[y] = "directory"
  BY <1>7 DEF CutNewest, Cut, TreeTyped, d, c
<1>9. \A i \in 1 .. N - 1 : Spot(D2, L2, e2, i) \in M
  BY <1>2, <1>3 DEF Whole
<1>10. ASSUME NEW x \in M, NEW a \in Name, e2[x][a] # None
       PROVE  \E i \in 1 .. N - 1 : D2[i] = x /\ Slot(L2, i) = a
  <2>1. ~(x = d /\ a = c) /\ e[x][a] # None  BY <1>8, <1>10
  <2>2. PICK i \in 1 .. N : D[i] = x /\ Slot(L, i) = a  BY <2>1 DEF Whole
  <2>3. i # N  BY <2>1, <2>2 DEF d, c
  <2> QED  BY <2>2, <2>3, <1>4, <1>5, <1>6
<1>11. ASSUME NEW x \in M, NEW y \in Node, NEW a \in Name, e2[y][a] = x
       PROVE  \E i \in 1 .. N - 1 : D2[i] = y /\ Slot(L2, i) = a
  <2>1. ~(y = d /\ a = c) /\ e[y][a] = x  BY <1>8, <1>11, NodeAssumption
  <2>2. PICK i \in 1 .. N : D[i] = y /\ Slot(L, i) = a  BY <2>1 DEF Whole
  <2>3. i # N  BY <2>1, <2>2 DEF d, c
  <2> QED  BY <2>2, <2>3, <1>4, <1>5, <1>6
<1>12. \A x \in M : k2[x] = "directory" => x \in H  BY <1>8 DEF Whole
<1>13. Whole(D2, L2, k2, e2, M, H)
  BY <1>2, <1>9, <1>10, <1>11, <1>12 DEF Whole
<1> QED  BY <1>13 DEF D2, L2

\* And when others act elsewhere.
LEMMA WholeUnmoved ==
    ASSUME NEW L \in Seq(Records), NEW k, NEW e, NEW H, NEW H2, H \subseteq H2,
           NEW o \in H, NEW D, Closed(H, k, e), Filing(D, L, o, k, e),
           NEW k2, NEW e2, Elsewhere(H, k, e, k2, e2),
           NEW M \in SUBSET Node, Whole(D, L, k, e, M, H),
           \A x \in M : k[x] # "free",
           \A x \in M : \A c \in Name : e2[x][c] # None => e[x][c] # None,
           \A x \in M : \A d \in Node : \A c \in Name : e2[d][c] = x => e[d][c] = x
    PROVE  Whole(D, L, k2, e2, M, H2)
<1>1. \A i \in 1 .. Len(L) : Spot(D, L, e2, i) = Spot(D, L, e, i)
  BY FilingUnmoved
<1>2. \A i \in 1 .. Len(L) : Spot(D, L, e2, i) \in M  BY <1>1 DEF Whole
<1>3. ASSUME NEW x \in M, NEW c \in Name, e2[x][c] # None
      PROVE  \E i \in 1 .. Len(L) : D[i] = x /\ Slot(L, i) = c
  BY <1>3 DEF Whole
<1>4. ASSUME NEW x \in M, NEW d \in Node, NEW c \in Name, e2[d][c] = x
      PROVE  \E i \in 1 .. Len(L) : D[i] = d /\ Slot(L, i) = c
  <2>1. e[d][c] = x  BY <1>4
  <2> QED  BY <2>1 DEF Whole
<1>5. \A x \in M : k2[x] = "directory" => x \in H2  BY DEF Whole, Elsewhere
<1> QED  BY <1>2, <1>3, <1>4, <1>5 DEF Whole

-----------------------------------------------------------------------------
(* The invariant while all is quiet.                                       *)

\* Where the paths of the plan begin: what was opened, or what has the
\* destination's name.
Origin == IF Beneath THEN root ELSE entries[Above][Destination]

\* Nobody else has acted that matters since the destination was settled on.
Quiet == IF Beneath THEN ~intruded ELSE ~meddled
Settled == arm # "none" \/ (platform = "windows" /\ pc \in {"marker", "paths", "open"})
On == Settled /\ Quiet /\ pc # "done"

Reached(p, n) == Leads(p, n, Origin, kind, entries)

\* The destination is there.
Rooted == On => Origin \in home /\ kind[Origin] = "directory"

\* The walk is where its path leads.
Gone == IF Beneath THEN depth ELSE depth - 1
Walking ==
    On /\ arm # "none" /\ Calling /\ depth > 0 =>
        depth <= Walked /\ Reached(SubSeq(Target, 1, Gone), hand)

\* By name each directory is there that was created, or found and read back.
Past(i) ==
    \/ pc \in {"directories", "readback"} /\ i < at
    \/ pc \in {"files", "write", "unmark"}
Read ==
    On /\ arm = "portable" =>
        \A i \in DOMAIN Directories : Past(i) => \E n \in Node : Reached(Directories[i], n)

\* The ledger, and what is about to be recorded.
Log == IF created THEN Append(ledger, [path |-> Target, kind |-> "directory"]) ELSE ledger

Filed ==
    On /\ arm # "none" =>
        \E D : /\ Filing(D, Log, Origin, kind, entries)
               /\ Beneath /\ ~balked => Whole(D, Log, kind, entries, made, home)

\* What is still to be made has no name, and nothing in it.
Blank ==
    \A n \in Node : kind[n] = "free" => Unnamed(n) /\ \A c \in Name : entries[n][c] = None

\* All of it, with what is known without it.
Ours == Rooted /\ Walking /\ Read /\ Filed
JInv == IInv /\ Ours /\ Blank /\ ConfinedUnlessRaced

LEMMA TreeIs ==
    ASSUME TypeOK PROVE TreeTyped(kind, entries)
BY DEF TypeOK, TreeTyped

\* While the writing half goes on, a call has a path of at least one name.
LEMMA CallPath ==
    ASSUME IInv, arm # "none", Calling
    PROVE  /\ pc \in {"mark", "directories", "readback", "files", "unmark", "undo"}
           /\ Target \in Seq(Name) /\ Target # <<>> /\ Len(Target) \in Nat \ {0}
           /\ Front(Target) = SubSeq(Target, 1, Len(Target) - 1)
           /\ Front(Target) \in Seq(Name) /\ Len(Front(Target)) = Len(Target) - 1
           /\ Beneath => Way = Target
           /\ ~Beneath => /\ Len(Way) = Len(Target) + 1 /\ Way[1] = Destination
                          /\ \A i \in 1 .. Len(Target) : Way[i + 1] = Target[i]
           /\ Walked = IF Beneath THEN IF pc = "readback" THEN Len(Target) ELSE Len(Target) - 1
                       ELSE Len(Target)
<1>1. pc \in {"mark", "directories", "readback", "files", "unmark", "undo"}
  BY DEF IInv, Base, Clean, Looking, Calling
<1>2. Target \in Seq(Name) /\ Target # <<>>  BY <1>1, TargetTyped DEF IInv, Base
<1>3. Len(Target) \in Nat \ {0}
  <2> DEFINE p == Target
  <2> HIDE DEF p
  <2>1. p \in Seq(Name) /\ p # <<>>  BY <1>2 DEF p
  <2>2. Len(p) \in Nat \ {0}  BY <2>1
  <2> QED  BY <2>2 DEF p
<1>4. /\ Front(Target) = SubSeq(Target, 1, Len(Target) - 1)
      /\ Front(Target) \in Seq(Name) /\ Len(Front(Target)) = Len(Target) - 1
  <2> DEFINE p == Target
  <2> HIDE DEF p
  <2>1. p \in Seq(Name) /\ p # <<>>  BY <1>2 DEF p
  <2>2. Front(p) = SubSeq(p, 1, Len(p) - 1)  BY ONLY DEF Front
  <2>3. Front(p) \in Seq(Name) /\ Len(Front(p)) = Len(p) - 1  BY ONLY <2>1, Shorter
  <2> QED  BY <2>2, <2>3 DEF p
<1>5. Beneath => Way = Target  BY DEF Way
<1>6. ~Beneath => /\ Len(Way) = Len(Target) + 1 /\ Way[1] = Destination
                  /\ \A i \in 1 .. Len(Target) : Way[i + 1] = Target[i]
  <2> SUFFICES ASSUME ~Beneath
               PROVE  /\ Len(Way) = Len(Target) + 1 /\ Way[1] = Destination
                      /\ \A i \in 1 .. Len(Target) : Way[i + 1] = Target[i]
    OBVIOUS
  <2> DEFINE p == Target
  <2>1. Way = <<Destination>> \o p  BY DEF Way
  <2> HIDE DEF p
  <2>2. p \in Seq(Name)  BY <1>2 DEF p
  <2>3. Destination \in Name  BY PlanAssumption
  <2>4. /\ Len(<<Destination>> \o p) = Len(p) + 1
        /\ (<<Destination>> \o p)[1] = Destination
        /\ \A i \in 1 .. Len(p) : (<<Destination>> \o p)[i + 1] = p[i]
    BY ONLY <2>2, <2>3
  <2> QED  BY <2>1, <2>4 DEF p
<1>7. Walked = IF Beneath THEN IF pc = "readback" THEN Len(Target) ELSE Len(Target) - 1
               ELSE Len(Target)
  BY <1>3, <1>5, <1>6 DEF Walked
<1> QED  BY <1>1, <1>2, <1>3, <1>4, <1>5, <1>6, <1>7

\* The first names of a path.
LEMMA Parts ==
    ASSUME NEW p \in Seq(Name), p # <<>>
    PROVE  /\ SubSeq(p, 1, 0) = <<>>
           /\ \A j \in 0 .. Len(p) - 1 : SubSeq(Front(p), 1, j) = SubSeq(p, 1, j)
           /\ \A i \in 1 .. Len(p) - 1 : Front(p)[i] = p[i]
           /\ SubSeq(p, 1, Len(p)) = p
<1>1. Len(p) \in Nat \ {0}  OBVIOUS
<1>2. SubSeq(p, 1, 0) = <<>>  OBVIOUS
<1>3. Front(p) = SubSeq(p, 1, Len(p) - 1)  BY DEF Front
<1>4. Front(p) \in Seq(Name) /\ Len(Front(p)) = Len(p) - 1  BY Shorter
<1>5. \A i \in 1 .. Len(p) - 1 : Front(p)[i] = p[i]  BY <1>1, <1>3
<1>6. ASSUME NEW j \in 0 .. Len(p) - 1
      PROVE  SubSeq(Front(p), 1, j) = SubSeq(p, 1, j)
  <2>1. SubSeq(Front(p), 1, j) = [i \in 1 .. j |-> Front(p)[i]]  BY <1>1, <1>4
  <2>2. SubSeq(p, 1, j) = [i \in 1 .. j |-> p[i]]  BY <1>1
  <2>3. \A i \in 1 .. j : Front(p)[i] = p[i]  BY <1>1, <1>5
  <2> QED  BY <2>1, <2>2, <2>3
<1>7. SubSeq(p, 1, Len(p)) = p  OBVIOUS
<1> QED  BY <1>2, <1>5, <1>6, <1>7

-----------------------------------------------------------------------------
(* Where a call is while all is quiet.                                     *)

\* The destination is one of the directories, and the empty path leads to it.
LEMMA OriginReached ==
    ASSUME JInv, On
    PROVE  /\ Origin \in Node /\ Origin \in home /\ kind[Origin] = "directory"
           /\ Reached(<<>>, Origin)
<1>1. Origin \in Node /\ Origin \in home /\ kind[Origin] = "directory"
  BY DEF JInv, Ours, Rooted, IInv, Base, TypeOK
<1>2. Reached(<<>>, Origin)
  <2> DEFINE o == Origin
  <2> HIDE DEF o
  <2>1. o \in Node /\ kind[o] = "directory"  BY <1>1 DEF o
  <2>2. Leads(<<>>, o, o, kind, entries)  BY ONLY <2>1, LeadsNowhere
  <2> QED  BY <2>2 DEF o, Reached
<1> QED  BY <1>1, <1>2


\* By name the way to the last name of a call's path is there.
LEMMA FrontReached ==
    ASSUME JInv, On, arm = "portable", Calling
    PROVE  \E n \in Node : Reached(Front(Target), n)
<1> USE DEF JInv, IInv, Base, Ours
<1>1. /\ pc \in {"mark", "directories", "readback", "files", "unmark", "undo"}
      /\ Target \in Seq(Name) /\ Target # <<>> /\ Len(Target) \in Nat \ {0}
      /\ Front(Target) = SubSeq(Target, 1, Len(Target) - 1)
  BY CallPath
<1>2. CASE Len(Target) = 1
  <2> DEFINE p == Target
  <2> HIDE DEF p
  <2>1. p \in Seq(Name) /\ p # <<>>  BY <1>1 DEF p
  <2>2. SubSeq(p, 1, 0) = <<>>  BY ONLY <2>1, Parts
  <2>3. Front(Target) = <<>>  BY <1>1, <1>2, <2>2 DEF p
  <2> QED  BY <2>3, OriginReached
<1>3. CASE Len(Target) > 1 /\ pc \in {"mark", "unmark"}
  BY <1>3 DEF Target, Marker
<1>4. CASE Len(Target) > 1 /\ pc \in {"directories", "readback"}
  <2>1. at \in DOMAIN Directories /\ Target = Directories[at]
    BY SMTT(30), <1>4, PlanAssumption DEF InLoop, Calling, TypeOK, Target
  <2>2. PICK j \in 1 .. at - 1 : Directories[j] = Front(Target)
    BY <1>4, <2>1, ParentsAssumption
  <2>3. j \in DOMAIN Directories /\ Past(j)
    BY <1>4, <2>1, <2>2, PlanAssumption DEF Past
  <2> QED  BY <2>2, <2>3 DEF Read
<1>5. CASE Len(Target) > 1 /\ pc = "files"
  <2>1. at \in DOMAIN Files /\ Target = Files[at]
    BY <1>5, PlanAssumption DEF Calling, TypeOK, Target
  <2>2. PICK j \in DOMAIN Directories : Directories[j] = Front(Target)
    BY <1>5, <2>1, ParentsAssumption
  <2>3. Past(j)  BY <1>5 DEF Past
  <2> QED  BY <2>2, <2>3 DEF Read
<1>6. CASE pc = "undo"
  <2>1. Log = ledger /\ ledger # <<>> /\ Target = Last(ledger).path
    BY <1>6 DEF InLoop, Log, Calling, Target, TypeOK
  <2>2. PICK D : Filing(D, ledger, Origin, kind, entries)
    BY <2>1 DEF Filed
  <2>3. Len(ledger) \in 1 .. Len(ledger)  BY <2>1 DEF TypeOK
  <2>4. Leads(Front(ledger[Len(ledger)].path), D[Len(ledger)], Origin, kind, entries)
        /\ D[Len(ledger)] \in Node
    BY <2>2, <2>3 DEF Filing
  <2>5. Target = ledger[Len(ledger)].path  BY <2>1 DEF Last
  <2>6. Leads(Front(Target), D[Len(ledger)], Origin, kind, entries)  BY <2>4, <2>5
  <2> QED  BY <2>4, <2>6 DEF Reached
<1>7. Len(Target) = 1 \/ Len(Target) > 1
  <2> DEFINE n == Len(Target)
  <2>1. n \in Nat \ {0}  BY <1>1
  <2> HIDE DEF n
  <2>2. n = 1 \/ n > 1  BY <2>1
  <2> QED  BY <2>2 DEF n
<1> QED  BY <1>1, <1>2, <1>3, <1>4, <1>5, <1>6, <1>7

\* Where a walk is.
LEMMA HereReached ==
    ASSUME JInv, On, arm # "none", Calling, ~Beneath => depth > 0
    PROVE  /\ Gone \in Nat /\ SubSeq(Target, 1, Gone) \in Seq(Name)
           /\ Reached(SubSeq(Target, 1, Gone), Here)
           /\ Here \in Node /\ Here \in home /\ kind[Here] = "directory"
<1> USE DEF JInv, IInv, Base, Ours
<1>1. depth \in Nat /\ Gone \in Nat  BY DEF TypeOK, Gone
<1>2. Target \in Seq(Name) /\ Target # <<>>  BY CallPath
<1>3. Reached(SubSeq(Target, 1, Gone), Here)
  <2>1. CASE depth > 0
    <3>1. Here = hand  BY <2>1 DEF Here
    <3> QED  BY <2>1, <3>1 DEF Walking
  <2>2. CASE depth = 0
    <3>1. Here = Origin /\ Gone = 0  BY <2>2 DEF Here, Origin, Gone
    <3> DEFINE p == Target
    <3> HIDE DEF p
    <3>2. p \in Seq(Name) /\ p # <<>>  BY <1>2 DEF p
    <3>3. SubSeq(p, 1, 0) = <<>>  BY ONLY <3>2, Parts
    <3> QED  BY <3>1, <3>3, OriginReached DEF p
  <2> QED  BY <1>1, <2>1, <2>2
<1> DEFINE q == SubSeq(Target, 1, Gone)
<1>4. q \in Seq(Name)
  <2> DEFINE p == Target
             g == Gone
  <2> HIDE DEF p, g
  <2>1. p \in Seq(Name) /\ g \in Nat  BY <1>1, <1>2 DEF p, g
  <2>2. CASE g <= Len(p)
    <3>1. SubSeq(p, 1, g) \in Seq(Name)  BY <2>1, <2>2, SubSeqProperties
    <3> QED  BY <3>1 DEF p, g
  <2>3. CASE g > Len(p)
    <3>1. depth > 0  BY <2>3, <1>1, <2>1 DEF Gone, g
    <3>2. depth <= Walked  BY <3>1 DEF Walking
    <3>3. FALSE
      BY <1>1, <3>1, <3>2, <2>3, CallPath DEF Gone, g, p
    <3> QED  BY <3>3
  <2> QED  BY <2>1, <2>2, <2>3
<1> HIDE DEF q
<1>5. Here \in Node /\ Here \in home /\ kind[Here] = "directory"
  <2>1. Leads(q, Here, Origin, kind, entries)  BY <1>3 DEF q, Reached
  <2>2. Origin \in home /\ Closed(home, kind, entries)  BY OriginReached
  <2>3. Here \in home  BY <1>4, <2>1, <2>2, LeadsInside
  <2>4. Here \in Node /\ kind[Here] = "directory"  BY <1>4, <2>1, LeadsTyped
  <2> QED  BY <2>3, <2>4
<1> QED  BY <1>1, <1>3, <1>4, <1>5 DEF q

\* And where it has arrived.
LEMMA ArrivedHere ==
    ASSUME JInv, On, arm # "none", Arrived, ~(Beneath /\ pc = "readback")
    PROVE  /\ Here \in Node /\ Here \in home /\ kind[Here] = "directory"
           /\ Reached(Front(Target), Here)
           /\ Way[depth + 1] = Last(Target) /\ Last(Target) \in Name
           /\ There = entries[Here][Last(Target)]
<1> USE DEF JInv, IInv, Base, Ours
<1>1. Calling /\ depth = Walked /\ depth \in Nat  BY DEF Arrived, TypeOK
<1>2. /\ Target \in Seq(Name) /\ Target # <<>> /\ Len(Target) \in Nat \ {0}
      /\ Front(Target) = SubSeq(Target, 1, Len(Target) - 1)
      /\ Beneath => Way = Target
      /\ ~Beneath => \A i \in 1 .. Len(Target) : Way[i + 1] = Target[i]
      /\ Walked = IF Beneath THEN Len(Target) - 1 ELSE Len(Target)
  <2>1. Walked = IF Beneath THEN IF pc = "readback" THEN Len(Target) ELSE Len(Target) - 1
                 ELSE Len(Target)
    BY <1>1, CallPath
  <2>2. Walked = IF Beneath THEN Len(Target) - 1 ELSE Len(Target)  BY <2>1
  <2> QED  BY <1>1, <2>2, CallPath
<1>3. ~Beneath => depth > 0  BY <1>1, <1>2
<1>4. Gone = Len(Target) - 1  BY <1>1, <1>2 DEF Gone
<1>5. Reached(SubSeq(Target, 1, Gone), Here) /\ Here \in Node /\ Here \in home
      /\ kind[Here] = "directory"
  BY <1>1, <1>3, HereReached
<1>6. Reached(Front(Target), Here)  BY <1>2, <1>4, <1>5
<1>7. Way[depth + 1] = Target[Len(Target)]
  <2>1. CASE Beneath
    <3>1. depth + 1 = Len(Target)  BY <1>1, <1>2, <2>1
    <3> QED  BY <1>2, <2>1, <3>1
  <2>2. CASE ~Beneath
    <3>1. depth = Len(Target) /\ Len(Target) \in 1 .. Len(Target)  BY <1>1, <1>2, <2>2
    <3> QED  BY <1>2, <2>2, <3>1
  <2> QED  BY <2>1, <2>2
<1>8. Target[Len(Target)] \in Name
  <2> DEFINE p == Target
  <2> HIDE DEF p
  <2>1. p \in Seq(Name) /\ Len(p) \in Nat \ {0}  BY <1>2 DEF p
  <2>2. p[Len(p)] \in Name  BY ONLY <2>1
  <2> QED  BY <2>2 DEF p
<1>9. Way[depth + 1] = Last(Target) /\ Last(Target) \in Name  BY <1>7, <1>8 DEF Last
<1>10. There = entries[Here][Last(Target)]  BY <1>9 DEF There
<1> QED  BY <1>5, <1>6, <1>9, <1>10

-----------------------------------------------------------------------------
(* Walks, looks and the choice of the resolver.                            *)

\* A step of a walk.
LEMMA WalkOurs ==
    ASSUME JInv, Walk
    PROVE  Ours' /\ Blank' /\ ConfinedUnlessRaced'
<1> USE DEF JInv, IInv, Base, Ours
<1>1. /\ Calling /\ depth < Walked
      /\ Onward # None
      /\ hand' = Onward /\ depth' = depth + 1
      /\ UNCHANGED <<kind, entries, leads, platform, pc, at, passed, arm, root, created,
                     ledger, removed, left, home, made, touched, meddled, intruded,
                     balked, moves>>
  BY DEF Walk, tree, counts, past
<1>2. /\ Target' = Target /\ Origin' = Origin /\ Beneath' = Beneath /\ Log' = Log
      /\ On' = On /\ Walked' = Walked /\ Calling' = Calling
  BY <1>1 DEF Target, Origin, Beneath, Log, On, Settled, Quiet, Walked, Way, Calling
<1>3. Rooted' /\ Read' /\ Filed' /\ Blank' /\ ConfinedUnlessRaced'
  BY <1>1, <1>2 DEF Rooted, Read, Filed, Blank, Unnamed, ConfinedUnlessRaced, Past, Reached
<1>4. Walking'
  <2>1. SUFFICES ASSUME On, arm # "none"
                 PROVE  depth + 1 <= Walked /\ Reached(SubSeq(Target, 1, Gone'), Onward)
    BY <1>1, <1>2 DEF Walking, Reached
  <2>2. /\ Target \in Seq(Name) /\ Target # <<>> /\ Len(Target) \in Nat \ {0}
        /\ Front(Target) \in Seq(Name) /\ Len(Front(Target)) = Len(Target) - 1
        /\ Beneath => Way = Target
        /\ ~Beneath => /\ Way[1] = Destination
                       /\ \A i \in 1 .. Len(Target) : Way[i + 1] = Target[i]
        /\ Walked = IF Beneath THEN IF pc = "readback" THEN Len(Target) ELSE Len(Target) - 1
                    ELSE Len(Target)
    BY <1>1, <2>1, CallPath
  <2>3. depth \in Nat /\ depth + 1 <= Walked  BY <1>1, <2>2 DEF TypeOK
  <2>4. Gone' = IF Beneath THEN depth + 1 ELSE depth  BY <1>1, <1>2, <2>3 DEF Gone
  <2> DEFINE p == Target
             o == Origin
             h == Here
             j == Gone
             g == Gone'
  <2>5. CASE ~Beneath /\ depth = 0
    <3>1. There = Origin  BY <2>2, <2>5 DEF There, Here, Origin
    <3>2. Onward = Origin
      <4>1. Origin \in Node /\ kind[Origin] = "directory"  BY <2>1, OriginReached
      <4> QED  BY <3>1, <4>1, NodeAssumption DEF Onward, KindOf
    <3> HIDE DEF p
    <3>3. p \in Seq(Name) /\ p # <<>>  BY <2>2 DEF p
    <3>4. SubSeq(p, 1, 0) = <<>>  BY ONLY <3>3, Parts
    <3> QED  BY <2>3, <2>4, <2>5, <3>2, <3>4, <2>1, OriginReached DEF p
  <2>6. CASE ~Beneath => depth > 0
    <3>1. Reached(SubSeq(Target, 1, Gone), Here) /\ Gone \in Nat
      BY <1>1, <2>1, <2>6, HereReached
    <3>2. Gone \in 0 .. Len(Target) - 1 /\ Gone' = Gone + 1
      BY <2>2, <2>3, <2>4, <2>6 DEF Gone
    <3>3. There = entries[Here][Target[Gone + 1]]
      <4>1. Way[depth + 1] = Target[Gone + 1]
        <5>1. CASE Beneath  BY <2>2, <5>1 DEF Gone
        <5>2. CASE ~Beneath
          <6>1. Gone + 1 = depth /\ depth \in 1 .. Len(Target)
            BY <2>2, <2>3, <2>6, <5>2 DEF Gone
          <6> QED  BY <2>2, <5>2, <6>1
        <5> QED  BY <5>1, <5>2
      <4> QED  BY <4>1 DEF There
    <3>4. There \in Node /\ kind[There] = "directory"
      <4>1. CASE Beneath
        <5>1. There \in Node \cup {None}
          BY <1>1, <2>2, <2>3, HereTyped
        <5> QED  BY <1>1, <4>1, <5>1 DEF Onward, Follows, KindOf
      <4>2. CASE ~Beneath
        <5>1. arm = "portable"  BY <4>2, <2>1 DEF Beneath, TypeOK
        <5>2. PICK n \in Node : Reached(Front(Target), n)
          BY <1>1, <2>1, <5>1, FrontReached
        <5>3. Gone \in 0 .. Len(Front(Target)) - 1
          BY <2>2, <2>3, <4>2, <2>6 DEF Gone
        <5> HIDE DEF p, o, h, j
        <5>4. p \in Seq(Name) /\ p # <<>> /\ j \in 0 .. Len(p) - 1
          BY <2>2, <3>2 DEF p, j
        <5>5. SubSeq(Front(p), 1, j) = SubSeq(p, 1, j)  BY ONLY <5>4, Parts
        <5>6. Front(p)[j + 1] = p[j + 1]
          <6>1. j + 1 \in 1 .. Len(p) - 1  BY <2>2, <5>3 DEF p, j
          <6> QED  BY ONLY <5>4, <6>1, Parts
        <5>7. Leads(Front(p), n, o, kind, entries)  BY <5>2 DEF p, o, Reached
        <5>8. Leads(SubSeq(Front(p), 1, j), h, o, kind, entries)
          BY <3>1, <5>5 DEF p, o, h, j, Reached
        <5>9. Front(p) \in Seq(Name) /\ j \in 0 .. Len(Front(p)) - 1
          BY <2>2, <5>3 DEF p, j
        <5>10. entries[h][Front(p)[j + 1]] \in Node
               /\ kind[entries[h][Front(p)[j + 1]]] = "directory"
          BY ONLY <5>7, <5>8, <5>9, LeadsPart
        <5> QED  BY <3>3, <5>6, <5>10 DEF p, h, j
      <4> QED  BY <4>1, <4>2
    <3>5. Onward = There  BY <3>4, NodeAssumption DEF Onward, KindOf
    <3> HIDE DEF p, o, h, j
    <3>6. p \in Seq(Name) /\ j \in 0 .. Len(p) - 1
          /\ Leads(SubSeq(p, 1, j), h, o, kind, entries)
          /\ entries[h][p[j + 1]] \in Node /\ kind[entries[h][p[j + 1]]] = "directory"
      BY <2>2, <3>1, <3>2, <3>3, <3>4 DEF p, o, h, j, Reached
    <3>7. Leads(SubSeq(p, 1, j + 1), entries[h][p[j + 1]], o, kind, entries)
      BY ONLY <3>6, LeadsOn
    <3> QED  BY <2>3, <3>2, <3>3, <3>5, <3>7 DEF p, o, h, j, Reached
  <2> QED  BY <2>3, <2>5, <2>6
<1> QED  BY <1>3, <1>4

\* A look, before there is anything to reach by name or beneath.
LEMMA LookOurs ==
    ASSUME JInv, Refuse \/ PreflightMarker \/ PreflightAncestor \/ PreflightItem \/ PreflightEnds
    PROVE  Ours' /\ Blank' /\ ConfinedUnlessRaced'
<1> USE DEF JInv, IInv, Base, Ours
<1>1. /\ pc \in Looking
      /\ UNCHANGED <<kind, entries, platform, arm, root, home, touched, meddled, intruded>>
  BY DEF Refuse, PreflightMarker, PreflightAncestor, PreflightItem, PreflightEnds,
         Looking, tree, past
<1>2. arm = "none" /\ touched = {}  BY <1>1 DEF Clean
<1>3. On' => On
  BY <1>1, <1>2 DEF Refuse, PreflightMarker, PreflightAncestor, PreflightItem, PreflightEnds,
       Turn, On, Settled, Quiet, Beneath
<1>4. Origin' = Origin  BY <1>1 DEF Origin, Beneath
<1>5. Rooted'  BY <1>1, <1>3, <1>4 DEF Rooted
<1>6. Walking' /\ Read' /\ Filed' /\ ConfinedUnlessRaced'
  BY <1>1, <1>2 DEF Walking, Read, Filed, ConfinedUnlessRaced
<1> QED  BY <1>1, <1>5, <1>6 DEF Blank, Unnamed

\* An empty log is kept of an untouched tree.
LEMMA NothingFiled ==
    ASSUME NEW o, NEW k, NEW e, NEW H
    PROVE  Filing(<<>>, <<>>, o, k, e) /\ Whole(<<>>, <<>>, k, e, {}, H)
<1>1. Len(<<>>) = 0  OBVIOUS
<1>2. <<>> \in [1 .. 0 -> Node]  OBVIOUS
<1> QED  BY <1>1, <1>2 DEF Filing, Whole

\* The destination is looked at or opened, or on Windows the writing begins.
LEMMA SettleOurs ==
    ASSUME JInv, PreflightDestination \/ OpenRoot \/ OpenNothing
    PROVE  Ours' /\ Blank' /\ ConfinedUnlessRaced'
<1> USE DEF JInv, IInv, Base, Ours
<1>1. /\ pc \in {"destination", "open"}
      /\ depth' = 0
      /\ UNCHANGED <<kind, entries, platform, created, ledger, made, touched>>
  BY DEF PreflightDestination, OpenRoot, OpenNothing, Settle, Turn, Again, tree, past
<1>2. arm = "none" /\ touched = {} /\ made = {} /\ ledger = <<>> /\ created = FALSE
  BY <1>1 DEF Clean, Looking, InLoop, TypeOK
<1>3. Blank' /\ ConfinedUnlessRaced'
  BY <1>1, <1>2 DEF Blank, Unnamed, ConfinedUnlessRaced
<1>4. Log' = <<>>  BY <1>1, <1>2 DEF Log
<1>5. Filed'
  <2>1. Filing(<<>>, Log', Origin', kind', entries')
        /\ Whole(<<>>, Log', kind', entries', made', home')
    BY <1>1, <1>2, <1>4, NothingFiled
  <2> QED  BY <2>1 DEF Filed
<1>6. Walking'  BY <1>1 DEF Walking
<1>7. Read'
  <2>1. ~(arm' = "portable" /\ \E i \in DOMAIN Directories : Past(i)')
    BY <1>2 DEF PreflightDestination, OpenRoot, OpenNothing, Turn, Past
  <2> QED  BY <2>1 DEF Read
<1>8. Rooted'
  <2>1. CASE PreflightDestination \/ OpenRoot
    <3>1. /\ Arrived /\ KindOf(There) = "directory" /\ Settle(There)
          /\ arm' = "beneath" => root' = There
      BY <2>1, <1>2 DEF PreflightDestination, OpenRoot
    <3>2. There = entries[Above][Destination] /\ There \in Node
      <4>1. Way = <<Destination>> /\ Walked = 0 /\ depth = 0
        <5>1. Target = <<>> /\ ~Beneath  BY <1>1, <1>2 DEF Target, Beneath
        <5>2. <<Destination>> \o <<>> = <<Destination>> /\ Len(<<Destination>>) = 1
          OBVIOUS
        <5> QED  BY <5>1, <5>2, <3>1 DEF Way, Walked, Arrived
      <4>2. There = entries[Above][Destination]  BY <4>1, <1>2 DEF There, Here, Beneath
      <4>3. There \in Node \cup {None}
        BY <4>2, NodeAssumption, PlanAssumption DEF TypeOK
      <4> QED  BY <3>1, <4>2, <4>3 DEF KindOf
    <3>3. Origin' = There  BY <1>1, <3>1, <3>2 DEF Origin, Beneath
    <3>4. There \in home'
      <4> DEFINE D == {There}
      <4>1. D \in SUBSET Node /\ home' = Within(D, kind, entries)  BY <3>1, <3>2 DEF Settle
      <4> HIDE DEF D
      <4>2. D \subseteq home'  BY ONLY <4>1, WithinClosed
      <4> QED  BY <4>2 DEF D
    <3>5. kind[There] = "directory"  BY <3>1, <3>2, NodeAssumption DEF KindOf
    <3> QED  BY <1>1, <3>3, <3>4, <3>5 DEF Rooted
  <2>2. CASE OpenNothing
    <3>1. /\ pc = "open" /\ platform = "windows" /\ arm' = "portable"
          /\ UNCHANGED <<root, home, meddled, intruded>>
      BY <2>2 DEF OpenNothing, past
    <3>2. On' => On  BY <1>2, <3>1 DEF On, Settled, Quiet, Beneath
    <3>3. Origin' = Origin  BY <1>1, <1>2, <3>1 DEF Origin, Beneath
    <3> QED  BY <1>1, <3>1, <3>2, <3>3 DEF Rooted
  <2> QED  BY <2>1, <2>2
<1> QED  BY <1>3, <1>5, <1>6, <1>7, <1>8

-----------------------------------------------------------------------------
(* The writing half.                                                       *)

\* What lies where a call has arrived.
LEMMA ThereTyped ==
    ASSUME JInv, On, arm # "none", Arrived, ~(Beneath /\ pc = "readback")
    PROVE  There \in Node \cup {None}
BY ArrivedHere DEF JInv, IInv, Base, TypeOK

\* The writing half goes on, or back.
LEMMA CalmOurs ==
    ASSUME JInv,
           \/ FindDirectory \/ DirectoriesEnd \/ WriteFile \/ FilesEnd \/ UndoEnds
           \/ ReadBack \/ Fail
    PROVE  Ours' /\ Blank' /\ ConfinedUnlessRaced'
<1> USE DEF JInv, IInv, Base, Ours
<1>1. /\ depth' = 0 /\ created' = FALSE
      /\ pc \notin Looking /\ pc # "done" /\ pc' \notin Looking /\ pc' # "done"
      /\ UNCHANGED <<kind, entries, platform, arm, root, home, made, touched,
                     meddled, intruded, balked>>
  BY DEF FindDirectory, DirectoriesEnd, WriteFile, FilesEnd, UndoEnds, ReadBack, Fail,
         Turn, Again, tree, past, Looking, InLoop, TypeOK
<1>2. Log' = Log
  <2>1. Log' = ledger'  BY <1>1 DEF Log
  <2>2. CASE created = TRUE
    <3>1. ReadBack \/ Fail
      BY <2>2 DEF FindDirectory, DirectoriesEnd, WriteFile, FilesEnd, UndoEnds, InLoop
    <3>2. ledger' = Append(ledger, [path |-> Target, kind |-> "directory"])
      BY <2>2, <3>1 DEF ReadBack, Fail, Record
    <3> QED  BY <2>1, <2>2, <3>2 DEF Log
  <2>3. CASE created = FALSE
    <3>1. ledger' = ledger
      BY <2>3 DEF FindDirectory, DirectoriesEnd, WriteFile, FilesEnd, UndoEnds, ReadBack, Fail
    <3> QED  BY <2>1, <2>3, <3>1 DEF Log
  <2> QED  BY <2>2, <2>3 DEF TypeOK
<1>3. On' = On /\ Origin' = Origin /\ Beneath' = Beneath
  BY <1>1 DEF On, Settled, Quiet, Origin, Beneath, Looking
<1>4. Rooted' /\ Filed' /\ Walking' /\ Blank' /\ ConfinedUnlessRaced'
  BY <1>1, <1>2, <1>3 DEF Rooted, Filed, Walking, Blank, Unnamed, ConfinedUnlessRaced
<1>5. Read'
  <2>1. SUFFICES ASSUME On, arm = "portable", NEW i \in DOMAIN Directories, Past(i)'
                 PROVE  \E n \in Node : Reached(Directories[i], n)
    BY <1>1, <1>3 DEF Read, Reached
  <2>2. CASE Past(i)  BY <2>1, <2>2 DEF Read
  <2>3. CASE ~Past(i)
    <3>0. i \in Nat /\ i \in 1 .. Len(Directories)  BY PlanAssumption
    <3>1. ReadBack /\ i = at
      BY <2>1, <2>3, <3>0 DEF FindDirectory, DirectoriesEnd, WriteFile, FilesEnd, UndoEnds,
         ReadBack, Fail, Turn, Past, Calling, TypeOK
    <3>2. pc = "readback" /\ Arrived /\ ~Beneath /\ KindOf(There) = "directory"
      BY <2>1, <3>1 DEF ReadBack, Beneath
    <3>3. Target = Directories[i]  BY <3>1, <3>2 DEF Target
    <3>4. /\ Reached(Front(Target), Here) /\ There = entries[Here][Last(Target)]
      BY <2>1, <3>2, ArrivedHere
    <3>5. There \in Node /\ kind[There] = "directory"
      <4>1. There \in Node \cup {None}  BY <2>1, <3>2, ThereTyped
      <4> QED  BY <3>2, <4>1 DEF KindOf
    <3> DEFINE p == Target
               o == Origin
               h == Here
               j == Len(p) - 1
    <3>6. /\ p \in Seq(Name) /\ p # <<>> /\ j \in 0 .. Len(p) - 1 /\ Front(p) = SubSeq(p, 1, j)
          /\ j + 1 = Len(p)
      BY <2>1, <3>2, CallPath DEF Arrived
    <3> HIDE DEF p, o, h, j
    <3>7. Leads(SubSeq(p, 1, j), h, o, kind, entries)
      BY <3>4, <3>6 DEF p, o, h, Reached
    <3>8. There = entries[h][p[j + 1]]  BY <3>4, <3>6 DEF p, h, Last
    <3>9. Leads(SubSeq(p, 1, j + 1), entries[h][p[j + 1]], o, kind, entries)
      BY <3>5, <3>6, <3>7, <3>8, LeadsOn
    <3>10. SubSeq(p, 1, j + 1) = p  BY <3>6, Parts
    <3>11. Reached(Directories[i], There)
      BY <3>3, <3>8, <3>9, <3>10 DEF p, o, h, Reached
    <3> QED  BY <3>5, <3>11
  <2> QED  BY <2>2, <2>3
<1> QED  BY <1>4, <1>5

\* Something is created, and named in the log.
LEMMA Growth ==
    ASSUME JInv, CreateMarker \/ MakeDirectory \/ CreateFile
    PROVE  /\ pc \in {"mark", "directories", "files"} /\ created = FALSE /\ Arrived
           /\ Target \in Seq(Name) \ {<<>>}
           /\ \E n \in Fresh, kd \in {"file", "directory"} :
                 Make(n, kd) /\ Log' = Append(ledger, [path |-> Target, kind |-> kd])
<1> USE DEF JInv, IInv, Base
<1>1. pc \in {"mark", "directories", "files"} /\ created = FALSE
      /\ Target \in Seq(Name) \ {<<>>}
  <2>1. created = FALSE /\ Target \in Seq(Name) \ {<<>>}  BY Written
  <2> QED  BY <2>1 DEF CreateMarker, MakeDirectory, CreateFile
<1>2. ASSUME NEW n \in Fresh, NEW kd \in {"file", "directory"}, Make(n, kd),
             \/ Record(kd) /\ created' = FALSE
             \/ /\ kd = "directory" /\ created' = TRUE /\ ledger' = ledger
                /\ pc = "directories" /\ pc' = "readback" /\ at' = at
      PROVE  Log' = Append(ledger, [path |-> Target, kind |-> kd])
  <2>1. CASE Record(kd) /\ created' = FALSE  BY <2>1 DEF Log, Record
  <2>2. CASE kd = "directory" /\ created' = TRUE /\ ledger' = ledger
             /\ pc = "directories" /\ pc' = "readback" /\ at' = at
    <3>1. Target' = Target  BY <2>2 DEF Target
    <3> QED  BY <2>2, <3>1 DEF Log
  <2> QED  BY <1>2, <2>1, <2>2
<1>3. CASE CreateMarker
  <2>1. PICK n \in Fresh : Make(n, "file")  BY <1>3 DEF CreateMarker
  <2>2. Record("file") /\ created' = FALSE  BY <1>1, <1>3 DEF CreateMarker
  <2> QED  BY <1>1, <1>2, <2>1, <2>2 DEF Make
<1>4. CASE MakeDirectory
  <2>1. PICK n \in Fresh : Make(n, "directory")  BY <1>4 DEF MakeDirectory
  <2>2. \/ Record("directory") /\ created' = FALSE
        \/ /\ created' = TRUE /\ ledger' = ledger
           /\ pc = "directories" /\ pc' = "readback" /\ at' = at
    BY <1>1, <1>4 DEF MakeDirectory, Turn
  <2> QED  BY <1>1, <1>2, <2>1, <2>2 DEF Make
<1>5. CASE CreateFile
  <2>1. PICK n \in Fresh : Make(n, "file")  BY <1>5 DEF CreateFile
  <2>2. Record("file") /\ created' = FALSE  BY <1>1, <1>5 DEF CreateFile
  <2> QED  BY <1>1, <1>2, <2>1, <2>2 DEF Make
<1> QED  BY <1>3, <1>4, <1>5

LEMMA MakeOurs ==
    ASSUME JInv, CreateMarker \/ MakeDirectory \/ CreateFile
    PROVE  Ours' /\ Blank' /\ ConfinedUnlessRaced'
<1> USE DEF JInv, IInv, Base, Ours
<1>1. /\ pc \in {"mark", "directories", "files"} /\ created = FALSE /\ Arrived
      /\ Target \in Seq(Name) \ {<<>>}
  BY Growth
<1>2. PICK n \in Fresh, kd \in {"file", "directory"} :
        Make(n, kd) /\ Log' = Append(ledger, [path |-> Target, kind |-> kd])
  BY Growth
<1> DEFINE r == [path |-> Target, kind |-> kd]
<1>3. /\ kind' = [kind EXCEPT ![n] = kd]
      /\ entries' = [entries EXCEPT ![Here][Way[depth + 1]] = n]
      /\ KindOf(Here) = "directory" /\ There = None
      /\ made' = made \cup {n}
      /\ touched' = touched \cup {Here}
      /\ UNCHANGED <<meddled, intruded, balked>>
  BY <1>2 DEF Make
<1>4. n \in Node /\ kind[n] = "free" /\ n \notin made
  BY <1>2 DEF Fresh, Counted
<1>5. /\ home \subseteq home' /\ Closed(home, kind, entries)'
      /\ kind' \in [Node -> Kinds]
      /\ entries' \in [Node -> [Name -> Node \cup {None}]]
  <2> HIDE DEF JInv
  <2> QED  BY <1>2, Making DEF JInv
<1>6. /\ pc' \in {"directories", "readback", "write"} /\ depth' = 0
      /\ UNCHANGED <<platform, arm, root>>
  BY DEF CreateMarker, MakeDirectory, CreateFile, Turn, Again
<1>7. arm # "none" => (On' <=> On)
  BY <1>1, <1>3, <1>6 DEF On, Settled, Quiet, Beneath
<1>8. On' => arm # "none"  BY <1>6 DEF On, Settled
<1>9. Log = ledger /\ ledger \in Seq(Records)  BY <1>1 DEF Log, TypeOK, Records
<1>10. Blank'
  <2>0. Here \in Node /\ Way[depth + 1] \in Name
    <3>1. depth = Walked /\ Calling  BY <1>1 DEF Arrived
    <3>2. Walked \in Nat  BY <3>1 DEF TypeOK
    <3> QED  BY <1>1, <3>1, <3>2, HereTyped DEF Arrived
  <2>1. ASSUME NEW m \in Node, kind'[m] = "free"
        PROVE  Unnamed(m)' /\ \A c \in Name : entries'[m][c] = None
    <3>1. m # n /\ kind[m] = "free"  BY <1>3, <1>4, <2>1 DEF TypeOK
    <3>2. m # Here  BY <1>3, <2>0, <3>1, NodeAssumption DEF KindOf
    <3>3. Unnamed(m) /\ \A c \in Name : entries[m][c] = None  BY <3>1 DEF Blank
    <3>4. \A d \in Node : \A c \in Name : entries'[d][c] # m
      BY <1>3, <3>1, <3>3, <2>0 DEF Unnamed, TypeOK
    <3>5. \A c \in Name : entries'[m][c] = None
      BY <1>3, <3>2, <3>3 DEF TypeOK
    <3> QED  BY <3>4, <3>5 DEF Unnamed
  <2> QED  BY <2>1 DEF Blank
<1>11. ASSUME On, arm # "none"
       PROVE  /\ Here \in Node /\ Here \in home /\ kind[Here] = "directory"
              /\ Reached(Front(Target), Here) /\ Last(Target) \in Name
              /\ Grown(kind, entries, Here, Last(Target), n, kd, kind', entries')
              /\ Origin' = Origin /\ Beneath' = Beneath
  <2>1. /\ Here \in Node /\ Here \in home /\ kind[Here] = "directory"
        /\ Reached(Front(Target), Here)
        /\ Way[depth + 1] = Last(Target) /\ Last(Target) \in Name
        /\ There = entries[Here][Last(Target)]
    BY <1>1, <1>11, ArrivedHere
  <2>2. Grown(kind, entries, Here, Last(Target), n, kd, kind', entries')
    BY <1>3, <1>4, <2>1 DEF Grown
  <2>3. Origin' = Origin
    <3>1. CASE Beneath  BY <3>1, <1>6 DEF Origin, Beneath
    <3>2. CASE ~Beneath
      <4>1. entries[Above][Destination] \in Node
        BY <1>11, <3>2, OriginReached DEF Origin
      <4>2. ~(Above = Here /\ Destination = Last(Target))
        BY <4>1, <2>1, <1>3, NodeAssumption
      <4>3. entries'[Above][Destination] = entries[Above][Destination]
        BY <4>2, <1>3, <2>1, NodeAssumption, PlanAssumption DEF TypeOK
      <4> QED  BY <4>3, <3>2, <1>6 DEF Origin, Beneath
    <3> QED  BY <3>1, <3>2
  <2> QED  BY <2>1, <2>2, <2>3, <1>6 DEF Beneath
<1>12. ConfinedUnlessRaced'
  <2>1. SUFFICES ASSUME arm = "portable", ~meddled PROVE touched \cup {Here} \subseteq home'
    BY <1>3, <1>6 DEF ConfinedUnlessRaced
  <2>2. On  BY <1>1, <2>1 DEF On, Settled, Quiet, Beneath
  <2> QED  BY <1>5, <1>11, <2>1, <2>2 DEF ConfinedUnlessRaced
<1>13. Rooted'
  <2>1. SUFFICES ASSUME On, arm # "none" PROVE Origin' \in home' /\ kind'[Origin'] = "directory"
    BY <1>7, <1>8 DEF Rooted
  <2>2. Origin' = Origin /\ Origin \in Node /\ Origin \in home /\ kind[Origin] = "directory"
    BY <1>11, <2>1, OriginReached
  <2> QED  BY <2>2, <1>3, <1>4, <1>5 DEF TypeOK
<1>14. Walking'  BY <1>6 DEF Walking
<1>15. Read'
  <2>1. SUFFICES ASSUME On, arm = "portable", NEW i \in DOMAIN Directories, Past(i)'
                 PROVE  \E m \in Node : Leads(Directories[i], m, Origin, kind', entries')
    <3>1. On' /\ arm' = "portable" => On /\ arm = "portable" /\ Origin' = Origin
      BY <1>6, <1>7, <1>8, <1>11
    <3> QED  BY <2>1, <3>1 DEF Read, Reached
  <2>2. Past(i)
    <3>1. i \in Nat /\ i >= 1  BY PlanAssumption
    <3>2. ~Beneath  BY <2>1 DEF Beneath
    <3> QED
      BY <2>1, <3>1, <3>2 DEF CreateMarker, MakeDirectory, CreateFile, Turn, Past
  <2>3. PICK m \in Node : Leads(Directories[i], m, Origin, kind, entries)
    BY <2>1, <2>2 DEF Read, Reached
  <2>4. Directories[i] \in Seq(Name)  BY PlanAssumption
  <2>5. TreeTyped(kind, entries)  BY TreeIs
  <2>6. Grown(kind, entries, Here, Last(Target), n, kd, kind', entries')  BY <1>11, <2>1
  <2>7. Leads(Directories[i], m, Origin, kind', entries')
    BY ONLY <2>3, <2>4, <2>5, <2>6, LeadsGrown
  <2> QED  BY <2>7
<1>16. Filed'
  <2>1. SUFFICES ASSUME On, arm # "none"
                 PROVE  \E D : /\ Filing(D, Log', Origin, kind', entries')
                               /\ Beneath /\ ~balked =>
                                    Whole(D, Log', kind', entries', made \cup {n}, home')
    <3>1. On' /\ arm' # "none" =>
             On /\ arm # "none" /\ Origin' = Origin /\ Beneath' = Beneath
      BY <1>6, <1>7, <1>8, <1>11
    <3>2. made' = made \cup {n} /\ balked' = balked  BY <1>3
    <3> QED  BY ONLY <2>1, <3>1, <3>2 DEF Filed
  <2>2. PICK D : /\ Filing(D, ledger, Origin, kind, entries)
                 /\ Beneath /\ ~balked => Whole(D, ledger, kind, entries, made, home)
    BY <1>9, <2>1 DEF Filed
  <2>3. r \in Records /\ r.kind = kd /\ r.path = Target  BY <1>1 DEF Records
  <2>4. Grown(kind, entries, Here, Last(Target), n, kd, kind', entries')
        /\ Leads(Front(r.path), Here, Origin, kind, entries)
        /\ Last(r.path) = Last(Target)
    BY <1>11, <2>1, <2>3 DEF Reached
  <2>5. TreeTyped(kind, entries)  BY TreeIs
  <2> HIDE DEF r
  <2>6. Filing(Append(D, Here), Append(ledger, r), Origin, kind', entries')
    BY ONLY <1>9, <2>2, <2>3, <2>4, <2>5, FilingMore
  <2>7. ASSUME Beneath, ~balked
        PROVE  Whole(Append(D, Here), Append(ledger, r), kind', entries', made \cup {n}, home')
    <3>1. Whole(D, ledger, kind, entries, made, home)  BY <2>2, <2>7
    <3>2. (\A x \in Node : \A a \in Name : entries[x][a] # n)
          /\ \A a \in Name : entries[n][a] = None
      BY <1>4 DEF Blank, Unnamed
    <3>3. kd = "directory" => n \in home'
      <4>1. SUFFICES ASSUME kd = "directory" PROVE n \in home'
        OBVIOUS
      <4>2. Here \in home' /\ Last(Target) \in Name  BY <1>5, <1>11, <2>1
      <4>3. entries'[Here][Last(Target)] = n /\ kind'[n] = "directory"
        BY <2>4, <4>1 DEF Grown, TypeOK
      <4> QED  BY <4>2, <4>3, <1>4, <1>5 DEF Closed
    <3>4. made \in SUBSET Node /\ home \subseteq home'  BY <1>5 DEF TypeOK
    <3> QED
      BY ONLY <1>4, <1>9, <2>2, <2>3, <2>4, <2>5, <3>1, <3>2, <3>3, <3>4, WholeMore
  <2>8. Log' = Append(ledger, r)  BY <1>2 DEF r
  <2> QED  BY <2>6, <2>7, <2>8
<1> QED  BY <1>10, <1>12, <1>13, <1>14, <1>15, <1>16

\* What a removal meets while all is quiet.
LEMMA NewestHere ==
    ASSUME JInv, On, arm # "none", Arrived, pc = "undo",
           NEW D, Filing(D, ledger, Origin, kind, entries)
    PROVE  /\ ledger \in Seq(Records) /\ ledger # <<>> /\ Len(ledger) \in 1 .. Len(ledger)
           /\ Here = D[Len(ledger)] /\ Way[depth + 1] = Slot(ledger, Len(ledger))
           /\ There = Spot(D, ledger, entries, Len(ledger)) /\ There \in Node
           /\ kind[There] = Last(ledger).kind
<1> USE DEF JInv, IInv, Base
<1>1. Calling  BY DEF Arrived
<1>2. ledger \in Seq(Records) /\ ledger # <<>> /\ Target = Last(ledger).path
  BY <1>1 DEF Calling, Target, TypeOK, Records
<1> DEFINE N == Len(ledger)
<1>3. N \in 1 .. N /\ Last(ledger) = ledger[N]  BY <1>2 DEF Last
<1>4. Reached(Front(Target), Here) /\ Way[depth + 1] = Last(Target)
      /\ There = entries[Here][Last(Target)]
  BY ArrivedHere
<1>5. Target = ledger[N].path  BY <1>2, <1>3
<1>6. Leads(Front(ledger[N].path), D[N], Origin, kind, entries)
      /\ Spot(D, ledger, entries, N) \in Node /\ kind[Spot(D, ledger, entries, N)] = ledger[N].kind
  BY <1>3 DEF Filing
<1>7. Front(ledger[N].path) \in Seq(Name)
  <2>1. N \in 1 .. Len(ledger)  BY <1>3
  <2> HIDE DEF N
  <2> QED  BY ONLY <1>2, <2>1, RecordParts
<1>8. Here = D[N]
  <2>1. Leads(Front(ledger[N].path), Here, Origin, kind, entries)
    BY <1>4, <1>5 DEF Reached
  <2> QED  BY ONLY <1>6, <1>7, <2>1, LeadsUnique
<1>9. Way[depth + 1] = Slot(ledger, N)  BY <1>4, <1>5 DEF Slot
<1>10. There = Spot(D, ledger, entries, N)  BY <1>4, <1>5, <1>8 DEF Spot, Slot
<1> QED  BY <1>2, <1>3, <1>6, <1>8, <1>9, <1>10

-----------------------------------------------------------------------------
(* The undo pass.                                                          *)

\* The marker is removed, or the undo pass removes what the newest record names.
LEMMA UnlinkOurs ==
    ASSUME JInv, RemoveMarker \/ UndoNewest
    PROVE  Ours' /\ Blank' /\ ConfinedUnlessRaced'
<1> USE DEF JInv, IInv, Base, Ours
<1>1. /\ Arrived /\ pc \in {"unmark", "undo"} /\ created = FALSE
      /\ (There \in Node /\ kind[There] = "directory") => \A c \in Name : entries[There][c] = None
      /\ entries' = [entries EXCEPT ![Here][Way[depth + 1]] = None]
      /\ kind' = [kind EXCEPT ![There] = "gone"]
      /\ touched' = touched \cup {Here}
      /\ depth' = 0
      /\ UNCHANGED <<platform, arm, root, created, home, made, meddled, intruded, balked>>
  <2>1. PICK kinds : Unlink(kinds)
    BY DEF RemoveMarker, UndoNewest
  <2>2. (There \in Node /\ kind[There] = "directory") => \A c \in Name : entries[There][c] = None
    BY <2>1, NodeAssumption DEF Unlink, KindOf
  <2> QED
    BY <2>1, <2>2 DEF Unlink, RemoveMarker, UndoNewest, Turn, Again, InLoop, TypeOK
<1>2. Here \in Node /\ Way[depth + 1] \in Name
  <2>1. depth = Walked /\ Calling /\ depth \in Nat  BY <1>1 DEF Arrived, TypeOK
  <2> QED  BY <1>1, <2>1, HereTyped
<1>3. Blank'
  <2>1. ASSUME NEW m \in Node, kind'[m] = "free"
        PROVE  Unnamed(m)' /\ \A c \in Name : entries'[m][c] = None
    <3>1. kind[m] = "free"  BY <1>1, <2>1 DEF TypeOK
    <3>2. Unnamed(m) /\ \A c \in Name : entries[m][c] = None  BY <3>1 DEF Blank
    <3>3. \A d \in Node : \A c \in Name : entries'[d][c] \in {entries[d][c], None}
      BY <1>1, <1>2 DEF TypeOK
    <3> QED  BY <2>1, <3>2, <3>3, NodeAssumption DEF Unnamed
  <2> QED  BY <2>1 DEF Blank
<1>4. ConfinedUnlessRaced'
  <2>1. SUFFICES ASSUME arm = "portable", ~meddled PROVE touched \cup {Here} \subseteq home
    BY <1>1 DEF ConfinedUnlessRaced
  <2>2. On  BY <1>1, <2>1 DEF On, Settled, Quiet, Beneath
  <2>3. Here \in home  BY <1>1, <2>1, <2>2, ArrivedHere
  <2> QED  BY <2>1, <2>3 DEF ConfinedUnlessRaced
<1>5. Walking'  BY <1>1 DEF Walking
<1>6. CASE RemoveMarker
  <2>1. pc' = "done"  BY <1>6 DEF RemoveMarker, Turn
  <2>2. ~On'  BY <2>1 DEF On
  <2>3. Rooted' /\ Read' /\ Filed'  BY <2>2 DEF Rooted, Read, Filed
  <2> QED  BY <1>3, <1>4, <1>5, <2>3
<1>7. CASE UndoNewest
  <2>1. /\ pc = "undo" /\ pc' = "undo" /\ ledger # <<>> /\ ledger' = Front(ledger)
    BY <1>7 DEF UndoNewest, Turn
  <2>2. On' => On /\ arm # "none"  BY <1>1, <2>1 DEF On, Settled, Quiet, Beneath
  <2>3. Log = ledger /\ Log' = Front(ledger)  BY <1>1, <2>1 DEF Log
  <2>4. Read'  BY <2>1 DEF Read, Past
  <2>5. Rooted' /\ Filed'
    <3>1. SUFFICES ASSUME On, arm # "none"
                   PROVE  Rooted' /\ Filed'
      BY <2>2 DEF Rooted, Filed
    <3>2. PICK D : /\ Filing(D, ledger, Origin, kind, entries)
                   /\ Beneath /\ ~balked => Whole(D, ledger, kind, entries, made, home)
      BY <2>3, <3>1 DEF Filed
    <3>3. /\ ledger \in Seq(Records)
          /\ Here = D[Len(ledger)] /\ Way[depth + 1] = Slot(ledger, Len(ledger))
          /\ There = Spot(D, ledger, entries, Len(ledger)) /\ There \in Node
      <4> HIDE DEF JInv
      <4> QED  BY <1>1, <2>1, <3>1, <3>2, NewestHere
    <3>4. CutNewest(D, ledger, kind, entries, kind', entries')
      BY <1>1, <3>3 DEF CutNewest, Cut, Spot
    <3>5. TreeTyped(kind, entries)  BY TreeIs
    <3>6. /\ Filing(Older(D, ledger), Front(ledger), Origin, kind', entries')
          /\ kind'[Origin] = "directory"
      BY ONLY <2>1, <3>2, <3>3, <3>4, <3>5, FilingRemoved
    <3>7. Beneath /\ ~balked =>
            Whole(Older(D, ledger), Front(ledger), kind', entries', made, home)
      <4>1. made \in SUBSET Node  BY DEF TypeOK
      <4> QED  BY ONLY <4>1, <2>1, <3>2, <3>3, <3>4, <3>5, WholeLess
    <3>8. Origin \in Node /\ Origin \in home  BY <3>1, OriginReached
    <3>9. Origin # There  BY <1>1, <3>3, <3>6, <3>8 DEF TypeOK
    <3>10. Origin' = Origin
      <4>1. CASE Beneath  BY <4>1, <1>1 DEF Origin, Beneath
      <4>2. CASE ~Beneath
        <5>1. Origin = entries[Above][Destination]  BY <4>2 DEF Origin
        <5>2. ~(Above = Here /\ Destination = Way[depth + 1])
          BY <3>9, <5>1 DEF There
        <5>3. entries'[Above][Destination] = entries[Above][Destination]
          BY <5>2, <1>1, <1>2, NodeAssumption, PlanAssumption DEF TypeOK
        <5> QED  BY <5>1, <5>3, <4>2, <1>1 DEF Origin, Beneath
      <4> QED  BY <4>1, <4>2
    <3>11. Beneath' = Beneath /\ UNCHANGED <<home, made, balked>>  BY <1>1 DEF Beneath
    <3>12. Rooted'  BY <3>6, <3>8, <3>10, <3>11 DEF Rooted
    <3>13. Filed'
      BY ONLY <2>3, <3>6, <3>7, <3>10, <3>11 DEF Filed
    <3> QED  BY <3>12, <3>13
  <2> QED  BY <1>3, <1>4, <1>5, <2>4, <2>5
<1> QED  BY <1>6, <1>7

\* While nobody has acted in the opened destination, a removal can be made.
LEMMA Removes ==
    ASSUME JInv, On, arm = "beneath", pc = "undo", ledger # <<>>,
           NEW D, Filing(D, ledger, Origin, kind, entries),
           Whole(D, ledger, kind, entries, made, home)
    PROVE  Unhindered
<1> USE DEF JInv, IInv, Base, Ours
<1>1. Calling /\ Beneath  BY DEF Calling, Beneath
<1>2. /\ Target \in Seq(Name) /\ Target # <<>> /\ Len(Target) \in Nat \ {0}
      /\ Front(Target) \in Seq(Name) /\ Len(Front(Target)) = Len(Target) - 1
      /\ Way = Target /\ Walked = Len(Target) - 1
  BY <1>1, CallPath
<1>3. depth \in Nat /\ depth <= Walked
  <2>1. depth > 0 => depth <= Walked  BY <1>1 DEF Walking
  <2>2. depth \in Nat  BY DEF TypeOK
  <2> QED  BY <1>2, <2>1, <2>2
<1> DEFINE N == Len(ledger)
<1>4. ledger \in Seq(Records) /\ N \in 1 .. N /\ Last(ledger) = ledger[N]
      /\ Target = ledger[N].path
  BY DEF TypeOK, Records, Last, Target
<1>5. CASE depth < Walked
  <2>1. Reached(SubSeq(Target, 1, Gone), Here) /\ Gone = depth
    BY <1>1, HereReached DEF Gone
  <2>2. Leads(Front(Target), D[N], Origin, kind, entries)
    BY <1>4 DEF Filing
  <2> DEFINE p == Target
             o == Origin
             h == Here
             j == depth
             n == D[N]
  <2>3. There = entries[h][p[j + 1]]  BY <1>2 DEF There
  <2> HIDE DEF p, o, h, j, n
  <2>4. p \in Seq(Name) /\ p # <<>> /\ j \in 0 .. Len(p) - 1 /\ j + 1 \in 1 .. Len(p) - 1
        /\ Front(p) \in Seq(Name) /\ j \in 0 .. Len(Front(p)) - 1
    BY <1>2, <1>3, <1>5 DEF p, j
  <2>5. SubSeq(Front(p), 1, j) = SubSeq(p, 1, j) /\ Front(p)[j + 1] = p[j + 1]
    BY ONLY <2>4, Parts
  <2>6. /\ Leads(Front(p), n, o, kind, entries)
        /\ Leads(SubSeq(Front(p), 1, j), h, o, kind, entries)
    BY <2>1, <2>2, <2>5 DEF p, o, h, j, n, Reached
  <2>7. entries[h][Front(p)[j + 1]] \in Node /\ kind[entries[h][Front(p)[j + 1]]] = "directory"
    BY ONLY <2>4, <2>6, LeadsPart
  <2>8. There \in Node /\ kind[There] = "directory"  BY <2>3, <2>5, <2>7
  <2>9. Onward # None  BY <2>8, NodeAssumption DEF Onward, KindOf
  <2> QED  BY <1>5, <2>9 DEF Unhindered
<1>6. CASE depth = Walked
  <2>1. Arrived  BY <1>1, <1>6 DEF Arrived
  <2>2. /\ There = Spot(D, ledger, entries, N) /\ There \in Node
        /\ kind[There] = Last(ledger).kind
    <3> HIDE DEF JInv
    <3> QED  BY <2>1, NewestHere
  <2>3. KindOf(There) = Last(ledger).kind  BY <2>2, NodeAssumption DEF KindOf
  <2>4. Last(ledger).kind \in {"file", "directory"}
    <3>1. N \in 1 .. Len(ledger)  BY <1>4
    <3> HIDE DEF N
    <3>2. ledger[N].kind \in {"file", "directory"}  BY ONLY <1>4, <3>1, RecordParts
    <3> QED  BY <1>4, <3>2
  <2>5. KindOf(There) \in Removable  BY <2>3, <2>4 DEF Removable
  <2>6. \A c \in Name : entries[There][c] = None
    <3>1. SUFFICES ASSUME NEW c \in Name, entries[There][c] # None PROVE FALSE
      OBVIOUS
    <3>2. There \in made  BY <2>2, <1>4 DEF Whole
    <3>3. PICK i \in 1 .. N : D[i] = There  BY <3>1, <3>2 DEF Whole
    <3>4. N < i  BY <3>3, <2>2, <1>4 DEF Filing
    <3> QED  BY <3>3, <3>4
  <2> QED  BY <2>1, <2>5, <2>6 DEF Unhindered
<1> QED  BY <1>2, <1>3, <1>5, <1>6

\* The undo pass leaves something in place.
LEMMA LeaveOurs ==
    ASSUME JInv, LeaveInPlace
    PROVE  Ours' /\ Blank' /\ ConfinedUnlessRaced'
<1> USE DEF JInv, IInv, Base, Ours
<1>1. /\ pc = "undo" /\ pc' = "undo" /\ ledger # <<>> /\ ledger' = Front(ledger)
      /\ balked' = (balked \/ Unhindered) /\ depth' = 0 /\ created = FALSE
      /\ UNCHANGED <<kind, entries, platform, arm, root, created, home, made, touched,
                     meddled, intruded>>
  BY DEF LeaveInPlace, Turn, Again, tree, InLoop, TypeOK
<1>2. On' = On /\ Origin' = Origin /\ Beneath' = Beneath
      /\ Log = ledger /\ Log' = Front(ledger)
  BY <1>1 DEF On, Settled, Quiet, Origin, Beneath, Log
<1>3. Rooted' /\ Walking' /\ Read' /\ Blank' /\ ConfinedUnlessRaced'
  BY <1>1, <1>2 DEF Rooted, Walking, Read, Past, Blank, Unnamed, ConfinedUnlessRaced
<1>4. Filed'
  <2>1. SUFFICES ASSUME On, arm # "none"
                 PROVE  \E D : /\ Filing(D, Front(ledger), Origin, kind, entries)
                               /\ ~(Beneath /\ ~balked')
    BY <1>1, <1>2, <2>1 DEF Filed
  <2>2. PICK D : /\ Filing(D, ledger, Origin, kind, entries)
                 /\ Beneath /\ ~balked => Whole(D, ledger, kind, entries, made, home)
    BY <1>2, <2>1 DEF Filed
  <2>3. ledger \in Seq(Records)  BY DEF TypeOK, Records
  <2>4. Filing(Older(D, ledger), Front(ledger), Origin, kind, entries)
    BY ONLY <1>1, <2>2, <2>3, FilingLess
  <2>5. ASSUME Beneath, ~balked' PROVE FALSE
    <3>1. ~balked /\ ~Unhindered  BY <1>1, <2>5
    <3>2. Whole(D, ledger, kind, entries, made, home)  BY <2>2, <2>5, <3>1
    <3>3. arm = "beneath"  BY <2>5 DEF Beneath
    <3> HIDE DEF JInv
    <3> QED  BY <1>1, <2>1, <2>2, <3>1, <3>2, <3>3, Removes
  <2> QED  BY <2>4, <2>5
<1> QED  BY <1>3, <1>4

-----------------------------------------------------------------------------
(* Others.                                                                 *)

\* What others do to the tree: names change in directories only, and nothing
\* is moved that had no name in them.
LEMMA OthersDo ==
    ASSUME IInv, Blank, Rename \/ Plant
    PROVE  \E ds \in SUBSET Node :
             /\ Others(ds)
             /\ \A d \in ds : kind[d] = "directory"
             /\ \A d \in Node \ ds : entries'[d] = entries[d]
             /\ \A n \in Node : kind[n] # "free" => kind'[n] = kind[n]
             /\ \A x \in Node : kind[x] # "free" =>
                  \A d \in Node : \A c \in Name : entries'[d][c] = x =>
                    \/ entries[d][c] = x
                    \/ \E d0 \in ds : \E b \in Name : entries[d0][b] = x
             /\ Blank'
<1> USE DEF IInv, Base
<1>1. CASE Rename
  <2>1. PICK d \in DirectoriesThere, e \in DirectoriesThere, b \in Loose, c \in Loose :
          /\ entries[d][b] # None
          /\ entries' = [entries EXCEPT ![d][b] = None, ![e][c] = entries[d][b]]
          /\ UNCHANGED <<kind, leads>>
          /\ Others({d, e})
    BY <1>1 DEF Rename
  <2> DEFINE n == entries[d][b]
  <2>2. /\ d \in Node /\ e \in Node /\ b \in Name /\ c \in Name
        /\ kind[d] = "directory" /\ kind[e] = "directory"
        /\ n \in Node /\ kind[n] # "free"
    BY <2>1, OthersAssumption DEF TypeOK, DirectoriesThere, Blank, Unnamed
  <2>3. \A f \in Node : \A a \in Name :
          entries'[f][a] = IF f = e /\ a = c THEN n
                           ELSE IF f = d /\ a = b THEN None ELSE entries[f][a]
    BY <2>1, <2>2 DEF TypeOK
  <2>4. Blank'
    <3>1. ASSUME NEW m \in Node, kind'[m] = "free"
          PROVE  Unnamed(m)' /\ \A a \in Name : entries'[m][a] = None
      <4>1. kind[m] = "free" /\ m # n /\ m # d /\ m # e  BY <2>1, <2>2, <3>1
      <4>2. Unnamed(m) /\ \A a \in Name : entries[m][a] = None  BY <4>1 DEF Blank
      <4> HIDE DEF n
      <4>3. \A f \in Node : \A a \in Name : entries'[f][a] # m
        BY <2>3, <4>1, <4>2, NodeAssumption DEF Unnamed
      <4>4. \A a \in Name : entries'[m][a] = None  BY <2>3, <4>1, <4>2
      <4> QED  BY <4>3, <4>4 DEF Unnamed
    <3> QED  BY <3>1 DEF Blank
  <2>5. \A f \in Node \ {d, e} : entries'[f] = entries[f]
    BY <2>1, <2>2 DEF TypeOK
  <2>6. \A x \in Node : \A f \in Node : \A a \in Name : entries'[f][a] = x =>
          \/ entries[f][a] = x
          \/ \E d0 \in {d, e} : \E b0 \in Name : entries[d0][b0] = x
    BY <2>2, <2>3, NodeAssumption
  <2> HIDE DEF n
  <2>7. {d, e} \in SUBSET Node /\ \A f \in {d, e} : kind[f] = "directory"  BY <2>2
  <2>8. Others({d, e}) /\ kind' = kind  BY <2>1
  <2> QED  BY ONLY <2>4, <2>5, <2>6, <2>7, <2>8
<1>2. CASE Plant
  <2>1. PICK d \in DirectoriesThere, c \in Loose, target \in Lures, n \in Fresh :
          /\ kind' = [kind EXCEPT ![n] = "link"]
          /\ entries' = [entries EXCEPT ![d][c] = n]
          /\ Others({d})
    BY <1>2 DEF Plant
  <2>2. /\ d \in Node /\ c \in Name /\ kind[d] = "directory"
        /\ n \in Node /\ kind[n] = "free"
    BY <2>1, OthersAssumption DEF DirectoriesThere, Fresh
  <2>3. \A f \in Node : \A a \in Name :
          entries'[f][a] = IF f = d /\ a = c THEN n ELSE entries[f][a]
    BY <2>1, <2>2 DEF TypeOK
  <2>4. \A m \in Node : kind'[m] = IF m = n THEN "link" ELSE kind[m]
    BY <2>1, <2>2 DEF TypeOK
  <2>5. Blank'
    <3>1. ASSUME NEW m \in Node, kind'[m] = "free"
          PROVE  Unnamed(m)' /\ \A a \in Name : entries'[m][a] = None
      <4>1. kind[m] = "free" /\ m # n /\ m # d  BY <2>2, <2>4, <3>1
      <4>2. Unnamed(m) /\ \A a \in Name : entries[m][a] = None  BY <4>1 DEF Blank
      <4>3. \A f \in Node : \A a \in Name : entries'[f][a] # m
        BY <2>3, <4>1, <4>2 DEF Unnamed
      <4>4. \A a \in Name : entries'[m][a] = None  BY <2>3, <4>1, <4>2
      <4> QED  BY <4>3, <4>4 DEF Unnamed
    <3> QED  BY <3>1 DEF Blank
  <2>6. \A f \in Node \ {d} : entries'[f] = entries[f]
    BY <2>1, <2>2 DEF TypeOK
  <2>7. \A x \in Node : kind[x] # "free" =>
          \A f \in Node : \A a \in Name : entries'[f][a] = x => entries[f][a] = x
    BY <2>2, <2>3
  <2>8. \A m \in Node : kind[m] # "free" => kind'[m] = kind[m]  BY <2>2, <2>4
  <2>9. {d} \in SUBSET Node /\ \A f \in {d} : kind[f] = "directory"  BY <2>2
  <2> QED  BY <2>1, <2>5, <2>6, <2>7, <2>8, <2>9
<1> QED  BY <1>1, <1>2

LEMMA OthersOurs ==
    ASSUME JInv, Rename \/ Plant
    PROVE  Ours' /\ Blank' /\ ConfinedUnlessRaced'
<1> USE DEF JInv, IInv, Base, Ours
<1>1. PICK ds \in SUBSET Node :
         /\ Others(ds)
         /\ \A d \in ds : kind[d] = "directory"
         /\ \A d \in Node \ ds : entries'[d] = entries[d]
         /\ \A n \in Node : kind[n] # "free" => kind'[n] = kind[n]
         /\ \A x \in Node : kind[x] # "free" =>
              \A d \in Node : \A c \in Name : entries'[d][c] = x =>
                \/ entries[d][c] = x
                \/ \E d0 \in ds : \E b \in Name : entries[d0][b] = x
         /\ Blank'
  <2> HIDE DEF JInv
  <2>1. IInv /\ Blank  BY DEF JInv
  <2> QED  BY ONLY <2>1, Rename \/ Plant, OthersDo
<1>2. /\ home' = Within(home, kind', entries')
      /\ meddled' = TRUE
      /\ intruded' = (intruded \/ ds \cap home # {})
      /\ UNCHANGED <<platform, pc, at, passed, hand, depth, arm, root, created, ledger,
                     made, touched, balked>>
  BY <1>1 DEF Others
<1>3. ConfinedUnlessRaced' /\ Blank'  BY <1>1, <1>2 DEF ConfinedUnlessRaced
<1>4. Target' = Target /\ Beneath' = Beneath /\ Log' = Log /\ Gone' = Gone
      /\ Calling' = Calling /\ Walked' = Walked
  BY <1>2 DEF Target, Beneath, Log, Gone, Calling, Walked, Way
<1>5. CASE ~On'
  BY <1>3, <1>5 DEF Rooted, Walking, Read, Filed
<1>6. CASE On'
  <2>1. /\ Beneath /\ arm = "beneath" /\ ~intruded /\ ds \cap home = {} /\ On
        /\ Origin = root /\ Origin' = Origin
    BY <1>2, <1>4, <1>6 DEF On, Settled, Quiet, Origin, Beneath
  <2>2. home \subseteq Node  BY DEF TypeOK
  <2>3. Elsewhere(home, kind, entries, kind', entries')
    BY <1>1, <2>1, <2>2 DEF Elsewhere
  <2>4. home \subseteq home'
    <3>1. home \in SUBSET Node  BY <2>2
    <3> QED  BY ONLY <1>2, <3>1, WithinClosed
  <2>5. Origin \in home /\ Origin \in Node /\ kind[Origin] = "directory"
        /\ Closed(home, kind, entries)
    BY <2>1, OriginReached
  <2>6. Rooted'
    <3>1. kind'[Origin] = "directory"  BY <1>1, <2>5
    <3> QED  BY <2>1, <2>4, <2>5, <3>1 DEF Rooted
  <2>7. Read'  BY <2>1, <1>2 DEF Read
  <2>8. Walking'
    <3>1. SUFFICES ASSUME Calling, depth > 0
                   PROVE  depth <= Walked
                          /\ Leads(SubSeq(Target, 1, Gone), hand, Origin, kind', entries')
      BY <1>2, <1>4, <2>1 DEF Walking, Reached
    <3>2. depth <= Walked /\ Leads(SubSeq(Target, 1, Gone), hand, Origin, kind, entries)
      BY <3>1, <2>1 DEF Walking, Reached
    <3>3. SubSeq(Target, 1, Gone) \in Seq(Name)  BY <3>1, <2>1, HereReached
    <3> DEFINE q == SubSeq(Target, 1, Gone)
               o == Origin
    <3> HIDE DEF q, o
    <3>4. /\ q \in Seq(Name) /\ o \in home /\ Closed(home, kind, entries)
          /\ Leads(q, hand, o, kind, entries)
      BY <2>5, <3>2, <3>3 DEF q, o
    <3>5. Leads(q, hand, o, kind', entries')
      BY ONLY <2>3, <3>4, LeadsUnmoved
    <3> QED  BY <3>2, <3>5 DEF q, o
  <2>9. Filed'
    <3>1. PICK D : /\ Filing(D, Log, Origin, kind, entries)
                   /\ Beneath /\ ~balked => Whole(D, Log, kind, entries, made, home)
      BY <2>1 DEF Filed
    <3> DEFINE L == Log
               o == Origin
    <3>2. L \in Seq(Records)
      <4>1. ledger \in Seq(Records)  BY DEF TypeOK, Records
      <4>2. CASE created = TRUE
        <5>1. pc = "readback" /\ Calling  BY <4>2 DEF InLoop, Calling
        <5>2. Target \in Seq(Name) \ {<<>>}  BY <5>1, TargetTyped
        <5> DEFINE r == [path |-> Target, kind |-> "directory"]
        <5>3. r \in Records  BY <5>2 DEF Records
        <5>4. L = Append(ledger, r)  BY <4>2 DEF Log
        <5> HIDE DEF r
        <5> QED  BY ONLY <4>1, <5>3, <5>4
      <4>3. CASE created = FALSE  BY <4>1, <4>3 DEF Log
      <4> QED  BY <4>2, <4>3 DEF TypeOK
    <3> HIDE DEF L, o
    <3>3. /\ o \in home /\ Closed(home, kind, entries) /\ Filing(D, L, o, kind, entries)
      BY <2>5, <3>1 DEF L, o
    <3>4. /\ Filing(D, L, o, kind', entries')
          /\ \A i \in 1 .. Len(L) : D[i] \in home
      BY ONLY <2>3, <3>2, <3>3, FilingUnmoved
    <3>5. ASSUME ~balked PROVE Whole(D, L, kind', entries', made, home')
      <4>1. Whole(D, L, kind, entries, made, home)  BY <2>1, <3>1, <3>5 DEF L
      <4>2. made \in SUBSET Node /\ \A x \in made : kind[x] # "free"
        BY DEF TypeOK, Counted
      <4>3. \A x \in made : \A c \in Name : entries'[x][c] # None => entries[x][c] # None
        <5>1. SUFFICES ASSUME NEW x \in made PROVE x \notin ds
          BY <1>1, <4>2
        <5>2. kind[x] = "directory" => x \in home  BY <4>1 DEF Whole
        <5> QED  BY <1>1, <2>1, <5>2
      <4>4. \A x \in made : \A d \in Node : \A c \in Name :
              entries'[d][c] = x => entries[d][c] = x
        <5>1. SUFFICES ASSUME NEW x \in made, NEW d0 \in ds, NEW b \in Name,
                              entries[d0][b] = x
                       PROVE  FALSE
          BY <1>1, <4>2
        <5>2. d0 \in Node  OBVIOUS
        <5>3. PICK i \in 1 .. Len(L) : D[i] = d0  BY <4>1, <5>1, <5>2 DEF Whole
        <5>4. d0 \in home  BY <3>4, <5>3
        <5> QED  BY <2>1, <5>4
      <4> QED  BY ONLY <2>3, <2>4, <3>2, <3>3, <4>1, <4>2, <4>3, <4>4, WholeUnmoved
    <3>6. Filing(D, Log', Origin', kind', entries')
      BY <1>4, <2>1, <3>4 DEF L, o
    <3>7. Beneath' /\ ~balked' => Whole(D, Log', kind', entries', made', home')
      BY <1>2, <1>4, <3>5 DEF L
    <3> QED  BY <3>6, <3>7 DEF Filed
  <2> QED  BY <1>3, <2>6, <2>7, <2>8, <2>9
<1> QED  BY <1>5, <1>6

-----------------------------------------------------------------------------
(* Together.                                                               *)

LEMMA InitJInv ==
    ASSUME Init
    PROVE  JInv
<1>1. IInv  BY InitIInv
<1>2. ~On  BY DEF Init, On, Settled
<1>3. Blank
  <2>1. PICK t \in Found : kind = t.kind /\ entries = t.entries
    BY DEF Init
  <2>2. \A n, d \in Node : \A c \in Name :
            t.kind[n] = "free" => t.entries[d][c] # n /\ t.entries[n][c] = None
    BY FoundAssumption
  <2> QED  BY <2>1, <2>2, NodeAssumption DEF Blank, Unnamed
<1>4. Ours  BY <1>2 DEF Ours, Rooted, Walking, Read, Filed
<1>5. ConfinedUnlessRaced  BY DEF Init, ConfinedUnlessRaced
<1> QED  BY <1>1, <1>3, <1>4, <1>5 DEF JInv

LEMMA NextJInv ==
    ASSUME JInv, [Next]_vars
    PROVE  JInv'
<1>1. IInv'  BY NextIInv DEF JInv
<1>2. CASE Next
  <2>1. Ours' /\ Blank' /\ ConfinedUnlessRaced'
    BY <1>2, WalkOurs, LookOurs, SettleOurs, CalmOurs, MakeOurs, UnlinkOurs, LeaveOurs,
       OthersOurs
    DEF Next, Run
  <2> QED  BY <1>1, <2>1 DEF JInv
<1>3. CASE UNCHANGED vars
  <2>1. /\ Target' = Target /\ Origin' = Origin /\ Beneath' = Beneath /\ Log' = Log
        /\ On' = On /\ Walked' = Walked /\ Calling' = Calling /\ Gone' = Gone
    BY <1>3 DEF vars, tree, counts, past, Target, Origin, Beneath, Log, On, Settled, Quiet,
       Walked, Way, Calling, Gone
  <2>2. Rooted' /\ Read' /\ Filed' /\ Walking' /\ Blank' /\ ConfinedUnlessRaced'
    BY <1>3, <2>1 DEF vars, tree, counts, past, JInv, Ours, Rooted, Read, Filed, Walking,
       Blank, Unnamed, ConfinedUnlessRaced, Past, Reached
  <2> QED  BY <1>1, <2>2 DEF JInv, Ours
<1> QED  BY <1>2, <1>3

LEMMA QuietInvariance == Spec => []JInv
<1>1. Init => JInv  BY InitJInv
<1>2. JInv /\ [Next]_vars => JInv'  BY NextJInv
<1> QED  BY <1>1, <1>2, PTL DEF Spec

\* By name nothing is created or removed outside the destination either, as
\* long as others leave alone what the run has settled on, whatever was found
\* in the destination at first (resolver.rs, portable_directory).
THEOREM ConfinedInQuiet == Spec => []ConfinedUnlessRaced
<1>1. JInv => ConfinedUnlessRaced  BY DEF JInv
<1> QED  BY <1>1, QuietInvariance, PTL

\* Beneath the descriptor the undo pass finds all that the run created, also
\* when the destination was renamed or replaced, as long as nobody acts in it
\* and no removal fails of itself (resolver.rs, Resolver::remove).
THEOREM UndoReaches == Spec => []UndoReachesItsOwn
<1>1. JInv => UndoReachesItsOwn
  <2>1. SUFFICES ASSUME JInv, pc = "refused", arm = "beneath", ~intruded, ~balked,
                        NEW n \in made
                 PROVE  Unnamed(n)
    BY DEF UndoReachesItsOwn
  <2>2. On /\ Beneath  BY <2>1 DEF On, Settled, Quiet, Beneath
  <2>3. ledger = <<>> /\ created = FALSE
    BY <2>1 DEF JInv, IInv, Base, Counted, InLoop, TypeOK
  <2>4. Log = <<>>  BY <2>3 DEF Log
  <2>5. PICK D : Whole(D, Log, kind, entries, made, home)
    BY <2>1, <2>2 DEF JInv, Ours, Filed
  <2>6. \A d \in Node : \A c \in Name : entries[d][c] = n => \E i \in 1 .. 0 : TRUE
    BY <2>4, <2>5 DEF Whole
  <2> QED  BY <2>6 DEF Unnamed
<1> QED  BY <1>1, QuietInvariance, PTL

=============================================================================
