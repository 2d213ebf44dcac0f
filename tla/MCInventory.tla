----------------------------- MODULE MCInventory -----------------------------
(* Small packages, everything one change of a cell makes of them, and      *)
(* everything two changes make of the smallest.                            *)
EXTENDS Inventory, SequencesExt, TLC

CONSTANTS a, capA, b, dir, bad

MCName == {a, capA, b, dir, bad}
MCFold == [n \in MCName |-> IF n = capA THEN a ELSE n]
MCNameFlaw == [n \in MCName |-> IF n = bad THEN "parent_component" ELSE "none"]

-----------------------------------------------------------------------------
(* Packages as a writer lays them out.                                     *)

Bit(x) == [kind |-> "data", bit |-> x]
Locator == [kind |-> "locator", bit |-> 0]
Stream(cells, yields) ==
    [kind |-> "stream", cells |-> cells, ends |-> TRUE, yields |-> yields, crc |-> 1]

Stored(name, described, bits) ==
    [name |-> name, method |-> "stored", described |-> described,
     crc |-> Len(SelectSeq(bits, LAMBDA x : x = 1)) % 2, size |-> Len(bits),
     content |-> [i \in DOMAIN bits |-> Bit(bits[i])]]
Deflated(name, described, cells, yields) ==
    [name |-> name, method |-> "deflate", described |-> described,
     crc |-> 1, size |-> yields,
     content |-> [i \in 1 .. cells |-> IF i = 1 THEN Stream(cells, yields) ELSE Bit(0)]]

Local(e) ==
    [kind |-> "local", flaw |-> "none", name |-> e.name, method |-> e.method,
     described |-> e.described, crc |-> e.crc, packed |-> Len(e.content),
     size |-> e.size]
Descriptor(e) ==
    [kind |-> "descriptor", crc |-> e.crc, packed |-> Len(e.content), size |-> e.size]
Central(e, offset) ==
    [kind |-> "central", flaw |-> "none", name |-> e.name, method |-> e.method,
     described |-> e.described, crc |-> e.crc, packed |-> Len(e.content),
     size |-> e.size, at |-> offset]
End(entries, offset, comment) ==
    [kind |-> "end", flaw |-> "none", entries |-> entries,
     bytes |-> entries * CentralWidth, at |-> offset, comment |-> comment]

Block(e) ==
    <<Local(e)>> \o e.content \o (IF e.described THEN <<Descriptor(e)>> ELSE <<>>)
Blocks(es) == FlattenSeq([i \in DOMAIN es |-> Block(es[i])])
Offset(es, i) == Len(Blocks(SubSeq(es, 1, i - 1)))
Directory(es) ==
    FlattenSeq([i \in DOMAIN es |-> <<Central(es[i], Offset(es, i)), Bit(0)>>])
Archive(es) ==
    Blocks(es) \o Directory(es) \o <<End(Len(es), Len(Blocks(es)), 0), Bit(0)>>

-----------------------------------------------------------------------------
(* What one change makes of an image.                                      *)

Variants(c, n) ==
    CASE c.kind = "local" ->
            {[c EXCEPT !.flaw = "extra_field_bytes"], [c EXCEPT !.crc = 1 - c.crc],
             [c EXCEPT !.described = ~c.described], [c EXCEPT !.size = c.size + 1],
             [c EXCEPT !.packed = c.packed + 1], [c EXCEPT !.name = b],
             [c EXCEPT !.crc = 0, !.packed = 0, !.size = 0]}
      [] c.kind = "central" ->
            {[c EXCEPT !.flaw = "encryption"], [c EXCEPT !.crc = 1 - c.crc],
             [c EXCEPT !.described = ~c.described],
             [c EXCEPT !.method = IF c.method = "stored" THEN "deflate" ELSE "stored"]}
            \cup {[c EXCEPT !.name = x] : x \in MCName}
            \cup {[c EXCEPT !.at = p] : p \in 0 .. n}
            \cup {[c EXCEPT !.packed = x] : x \in 0 .. 2}
            \cup {[c EXCEPT !.size = x] : x \in 0 .. 3}
            \cup {[c EXCEPT !.packed = x, !.size = x] : x \in {0, 1, 2, 20}}
      [] c.kind = "end" ->
            {[c EXCEPT !.flaw = "multi_disk"], [c EXCEPT !.comment = 1]}
            \cup {[c EXCEPT !.entries = x] : x \in 0 .. 4}
            \cup {[c EXCEPT !.at = x, !.bytes = (c.at + c.bytes) - x] :
                    x \in 0 .. c.at + c.bytes}
            \cup {[c EXCEPT !.at = x] : x \in 0 .. 2}
      [] c.kind = "descriptor" ->
            {[c EXCEPT !.crc = 1 - c.crc], [c EXCEPT !.packed = c.packed + 1],
             [c EXCEPT !.size = c.size + 1]}
      [] c.kind = "stream" ->
            {[c EXCEPT !.crc = 1 - c.crc], [c EXCEPT !.ends = FALSE]}
            \cup {[c EXCEPT !.cells = x] : x \in 1 .. 3}
            \cup {[c EXCEPT !.yields = x] : x \in 0 .. 4}
      [] OTHER ->
            {[c EXCEPT !.bit = 1 - c.bit], Locator,
             Local(Stored(b, FALSE, <<>>)), End(0, 0, 0)}

Changed(i) ==
    UNION {{[i EXCEPT ![k] = c] : c \in Variants(i[k], Len(i)) \cup {Bit(0)}} :
              k \in DOMAIN i}
    \cup {SubSeq(i, 1, k) : k \in 0 .. Len(i)}
    \cup {RemoveAt(i, k) : k \in DOMAIN i}
    \cup {InsertAt(i, k, c) : k \in 1 .. Len(i) + 1, c \in {Bit(1), Locator}}

-----------------------------------------------------------------------------
(* The images.                                                             *)

Small ==
    { Archive(<<>>),
      Archive(<<Stored(a, FALSE, <<1, 0>>)>>),
      Archive(<<Deflated(a, TRUE, 1, 2)>>),
      Archive(<<Stored(a, FALSE, <<>>), Stored(b, FALSE, <<>>)>>) }

Larger ==
    { Archive(<<Stored(a, FALSE, <<1, 1, 0>>), Deflated(b, FALSE, 1, 2)>>),
      Archive(<<Deflated(b, TRUE, 2, 3), Stored(dir, FALSE, <<>>),
            Stored(a, TRUE, <<1, 0>>)>>),
      Archive(<<Deflated(a, FALSE, 2, 3), Deflated(b, FALSE, 2, 3)>>),
      Archive(<<Deflated(a, FALSE, 1, 3)>>),
      Archive(<<Deflated(a, FALSE, 3, 4)>>),
      Archive(<<Stored(a, FALSE, <<1>>), Stored(capA, FALSE, <<>>)>>),
      Archive(<<Stored(a, FALSE, <<>>), Stored(b, FALSE, <<>>), Stored(dir, FALSE, <<>>),
            Stored(capA, FALSE, <<>>)>>) }

\* The directory out of the entries' order; an entry whose local header lies in
\* a comment of the directory, alone or behind one that reaches into it; one that
\* lies in the content of another; an end record in the comment of another; a
\* comment past its ceiling.
Crafted ==
    LET first == Stored(a, FALSE, <<0>>)
        second == Stored(b, FALSE, <<>>)
        long == Stored(a, FALSE, <<0, 0>>)
    IN  { Blocks(<<first, second>>)
            \o <<Central(second, 2), Bit(0), Central(first, 0), Bit(0),
                 End(2, 3, 0), Bit(0)>>,
          Block(first)
            \o <<Central(first, 0), Local(second), Central(second, 3), Bit(0),
                 End(2, 2, 0), Bit(0)>>,
          <<Local(long), Bit(0), Central(long, 0), Bit(0), Central(second, 5),
            Local(second), End(2, 2, 0), Bit(0)>>,
          <<Local(first), Local(second), Central(first, 0), Bit(0), Central(second, 1),
            Bit(0), End(2, 2, 0), Bit(0)>>,
          <<End(0, 0, 2), Bit(0), End(0, 0, 0), Bit(0)>>,
          <<End(0, 0, 2), Bit(0), Bit(0), Bit(0)>> }

MCImage ==
    LET near == UNION {Changed(i) : i \in Small}
        all == Small \cup Larger \cup Crafted \cup near
                 \cup UNION {Changed(i) : i \in Larger \cup Crafted \cup near}
    IN  all
===============================================================================
