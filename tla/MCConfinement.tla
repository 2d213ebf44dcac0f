---- MODULE MCConfinement ----
(* A destination and a directory beside it that has the name of a planned  *)
(* directory, so that a misled call finds its path there too.              *)
EXTENDS Confinement, TLC

CONSTANTS above, dest, beside, inner, link, n1, n2, n3, n4, n5, n6, out, a, f, m

MCNode == {above, dest, beside, inner, link, n1, n2, n3, n4, n5, n6}
MCName == {out, a, f, m}
MCDirectories == <<<<a>>, <<a, a>>>>
MCFiles == <<<<a, a, f>>>>

Empty == [c \in MCName |-> None]

Tree(names) ==
    [kind |-> [n \in MCNode |->
        IF n \in {above, dest, beside, inner} THEN "directory"
        ELSE IF n = link THEN "link" ELSE "free"],
     entries |-> names @@ [n \in MCNode |-> Empty],
     leads |-> [n \in MCNode |-> beside]]

\* An empty destination, one with a planned directory, one with a link for it,
\* and a link for the destination.
MCFound ==
    {Tree(above :> [Empty EXCEPT ![out] = dest, ![a] = beside] @@ beside :> [Empty EXCEPT ![a] = inner]),
     Tree(above :> [Empty EXCEPT ![out] = dest, ![a] = beside] @@ dest :> [Empty EXCEPT ![a] = inner]),
     Tree(above :> [Empty EXCEPT ![out] = dest, ![a] = beside] @@ dest :> [Empty EXCEPT ![a] = link]),
     Tree(above :> [Empty EXCEPT ![out] = link, ![a] = dest])}
====
