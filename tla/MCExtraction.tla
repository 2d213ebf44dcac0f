----------------------------- MODULE MCExtraction -----------------------------
(* Small instances of Extraction for TLC.                                  *)
EXTENDS Extraction, TLC

CONSTANTS r1, r2, r3, a, b, x, y

(* One tree for every run: the destination, the marker, a directory with a *)
(* file in it and a directory below it, and a file beside them; and what a *)
(* package may want below the marker's name.                               *)
MCPath == {<<>>, Marker, <<a>>, <<a, x>>, <<a, b>>, <<a, b, x>>, <<y>>, Marker \o <<x>>}

\* The first run's package nests two directories, the second's shares the
\* outer one and collides with no file of the first, and the third's has the
\* marker's name at the root.
MCDirectories == r1 :> << <<a>>, <<a, b>> >> @@ r2 :> << <<a>> >> @@ r3 :> << Marker >>
MCFiles ==
    r1 :> << <<a, b, x>>, <<y>> >> @@ r2 :> << <<a, x>> >> @@ r3 :> << Marker \o <<x>> >>

\* A third run has not started while two have.
TwoAtOnce == Cardinality({r \in Run : pc[r] # "plan"}) <= 2

\* A retry: both runs extract one package.
SameDirectories == [r \in Run |-> << <<a>> >>]
SameFiles == [r \in Run |-> << <<a, x>>, <<y>> >>]

Tree(directories, files, links) ==
    [p \in MCPath |->
        [Nothing EXCEPT !.kind = IF p \in directories THEN "directory"
                                 ELSE IF p \in files THEN "file"
                                 ELSE IF p \in links THEN "link" ELSE "absent"]]

Empty == Tree({<<>>}, {}, {})

\* What a run may find: every form of the destination, and every kind of
\* thing that may already be in it.
MCFound ==
    { Tree({}, {}, {}), Tree({}, {<<>>}, {}), Tree({}, {}, {<<>>}), Empty,
      Tree({<<>>}, {Marker}, {}), Tree({<<>>, <<a>>}, {}, {}),
      Tree({<<>>, <<a>>, <<a, b>>}, {<<a, b, x>>}, {}),
      Tree({<<>>}, {<<a>>}, {}), Tree({<<>>}, {}, {<<a>>}) }

OnlyEmpty == {Empty}

NoPath == {}

\* A foreign directory, file or link where a run is about to create one.
MCPlantable ==
    { [path |-> <<a>>, kind |-> "link"], [path |-> <<a>>, kind |-> "file"],
      [path |-> <<a>>, kind |-> "directory"], [path |-> <<a, x>>, kind |-> "file"] }

MCErasable == {<<a, x>>, <<a>>}

\* What a stranger may create who also erases, elsewhere.
PlantableApart == { [path |-> <<y>>, kind |-> "file"] }
===============================================================================
