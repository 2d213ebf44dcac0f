---------------------------- MODULE MCExtractPlan ----------------------------
(* Every package of up to three entries out of a small stock of them, and  *)
(* of four plain files.                                                    *)
EXTENDS ExtractPlan, TLC

CONSTANTS a, capA, decA, b, flawed, wide

\* One letter in three spellings, of which lower-casing joins two and
\* normalising all three; a plain one, an unsafe one, and one that is too long.
MCFlaw == [c \in Component |-> IF c = flawed THEN "trailing" ELSE "none"]
MCWidth == [c \in Component |-> CASE c = wide -> 3 [] c \in {decA, flawed} -> 2
                                  [] OTHER -> 1]
MCRank == capA :> 1 @@ a :> 2 @@ decA :> 3 @@ b :> 4 @@ flawed :> 5 @@ wide :> 6
MCKey == [c \in Component |-> IF c \in {capA, decA} THEN a ELSE c]

\* The inventory joins what lower-casing joins, and refuses it.
Lower == [c \in Component |-> IF c = capA THEN a ELSE c]

FileNames ==
    { <<a>>, <<decA>>, <<b>>, <<a, b>>, <<decA, b>>, <<capA, wide>>, <<capA, a>>,
      <<a, b, b>>, <<b, a, b>>, <<b, flawed>>, <<b, b, b, b>>, <<b, wide, wide>> }

File(name) ==
    [host |-> "unix", mode |-> "regular", slash |-> FALSE, name |-> name, size |-> 1]

Stock ==
    {File(name) : name \in FileNames} \cup
    { [File(<<b>>) EXCEPT !.host = "unmapped", !.mode = "directory", !.size = 2],
      [File(<<b, a>>) EXCEPT !.host = "fat", !.mode = "link", !.size = 2],
      [File(<<a>>) EXCEPT !.mode = "directory", !.slash = TRUE, !.size = 0],
      [File(<<b, a>>) EXCEPT !.host = "fat", !.mode = "directory"],
      [File(<<b>>) EXCEPT !.mode = "link"],
      [File(<<b>>) EXCEPT !.mode = "other"],
      [File(<<b>>) EXCEPT !.name = NotText] }

Few == {File(name) : name \in {<<a>>, <<b>>, <<a, b>>, <<a, b, b>>, <<a, a, b>>,
                               <<decA, capA, a>>}}

Spelling(e) ==
    <<e.slash, IF e.name = NotText THEN NotText
               ELSE [i \in DOMAIN e.name |-> Lower[e.name[i]]]>>

\* What the inventory accepts: no two names alike but for their case.
MCPackage ==
    {package \in UNION {[1 .. n -> Stock] : n \in 0 .. 3} \cup [1 .. 4 -> Few] :
        \A i, j \in DOMAIN package :
            i # j => Spelling(package[i]) # Spelling(package[j])}
===============================================================================
