------------------------------ MODULE MCPackages ------------------------------
(* Requests, packages found elsewhere and edits, each one change away from *)
(* a package with two attachments, for Packages.                           *)
EXTENDS Packages

MCPiece == {"NOVA", "NYUGTA", "true", "false", "KRX", "/", "OCD", "Payload", "ID-", "a", "b",
            "CON", "raw", "\\", "&", "^M", "x", " ", "0", "1", "2", "3", "4", "mimetype",
            "Metalayer", "METALAYER", "KULDEMENY_META.xml", "signatures.xml"}
           \cup SourceSystem \cup ConsignmentKind
MCDecimal == [n \in 0 .. 4 |-> <<<<"0", "1", "2", "3", "4">>[n + 1]>>]
MCNumeral == [t \in Range(MCDecimal) |-> CHOOSE n \in 0 .. 4 : MCDecimal[n] = t]
MCFinite == Range(MCDecimal)
MCFold == [p \in MCPiece |-> IF p = "METALAYER" THEN "Metalayer" ELSE p]

MCFile == {"marker", "one", "twin", "none", "wide", "large", "dense"}
MCFileSize == [marker |-> 2, one |-> 3, twin |-> 3, none |-> 0, wide |-> 31, large |-> 115,
               dense |-> 30]
MCPacked == [MCFileSize EXCEPT !.dense = 2]
\* one and twin differ and have one checksum.
MCCrc == [marker |-> 1, one |-> 2, twin |-> 2, none |-> 0, wide |-> 3, large |-> 4, dense |-> 5]
MCUnsafe == [f \in {<<"CON">>} |-> "create.unsafe_name.reserved_device_name"]

-----------------------------------------------------------------------------
H == [version |-> <<"1">>, source_system |-> "NOVA", consignment_id |-> <<"x">>,
      created_at_text |-> <<>>, consignment_kind |-> "NYUGTA", test |-> FALSE,
      test_present |-> FALSE, barcode |-> Absent, reference_id |-> Absent,
      error_code |-> Absent, note |-> Absent]
Headers ==
    {H, [H EXCEPT !.test = TRUE, !.test_present = TRUE], [H EXCEPT !.test_present = TRUE],
     [H EXCEPT !.note = Present(<<"x", "&", "x">>)], [H EXCEPT !.note = Present(<<" ", "x">>)],
     [H EXCEPT !.barcode = Present(<<"^M">>)],
     [H EXCEPT !.error_code = Present([i \in 1 .. 22 |-> "x"])]}
D == [declared_attachment_count |-> Absent, attachments |-> <<>>,
      attachments_present |-> FALSE, handling_instructions_unqualified |-> FALSE]
M == [header |-> H, receipt_present |-> FALSE, openings_present |-> FALSE,
      return_receipt_present |-> FALSE, dispatches |-> <<D>>, unknown_elements |-> 0]

A(name, file) == [file_name |-> name, content |-> FileContent(file), description |-> Absent,
                  quantity |-> Absent, quantity_unit |-> Absent]
One == A(<<"a">>, "one")
Two == [A(<<"b">>, "wide") EXCEPT !.description = Present(<<"x">>), !.quantity = Present(<<"2">>)]
Lists == {<<>>, <<One>>, <<One, Two>>, <<Two, One, A(<<"a">>, "none")>>,
          <<One, One, One, One>>, <<A(<<"a">>, "large")>>, <<A(<<"a">>, "dense")>>,
          <<One, A(<<"b", "b", "b">>, "none"), A(<<"b", "b", "b">>, "none")>>,
          <<A(<<"b">>, "none"), A(<<"CON">>, "one")>>, <<A(<<>>, "one")>>,
          <<A(<<"a", "/", "b">>, "one")>>, <<A(<<"a", " ">>, "one")>>,
          <<A(<<"a", "b", "a", "b">>, "one")>>}

Dispatches(list) ==
    {<<>>, <<D>>, <<[D EXCEPT !.attachments_present = TRUE]>>,
     <<[D EXCEPT !.handling_instructions_unqualified = TRUE]>>, <<D, D>>,
     <<[D EXCEPT !.declared_attachment_count = Present(1)]>>,
     <<[D EXCEPT !.attachments = References(<<One>>)]>>}
Documents_(header, dispatches) == [M EXCEPT !.header = header, !.dispatches = dispatches]
MCRequest ==
    [metadata : {Documents_(h, <<D>>) : h \in Headers}, attachments : {<<>>, <<One, Two>>}]
        \cup UNION {[metadata : {Documents_(H, d) : d \in Dispatches(l)}, attachments : {l}] :
                        l \in Lists}
        \cup [metadata : {[M EXCEPT !.unknown_elements = 1], [M EXCEPT !.receipt_present = TRUE],
                          [M EXCEPT !.openings_present = TRUE],
                          [M EXCEPT !.return_receipt_present = TRUE]},
              attachments : {<<One>>}]

-----------------------------------------------------------------------------
Written(metadata, list) == Entries([metadata |-> metadata, attachments |-> list])
Named(inv, i, name) == [inv EXCEPT ![i].name = name]
Holding(inv, i, content) == [inv EXCEPT ![i] = Entry(@.name, content)]
With(pair) == Holding(pair[1], 2, DocumentContent(pair[2]))
Text_ == Serialised(Derived([metadata |-> M, attachments |-> <<One, Two>>]))
Insert(d, i, s) == SubSeq(d, 1, i - 1) \o s \o SubSeq(d, i, Len(d))
InsideOf(name, s) ==
    Insert(Text_, 1 + Min({i \in DOMAIN Text_ : IsOpen(Text_[i]) /\ Text_[i].name = name}), s)

\* No attachment, and no container for one.
Empty == Serialised([M EXCEPT !.dispatches[1].declared_attachment_count = Present(0)])

\* The document of Base, with references and counts nobody derived.
Listed(a, b, count) ==
    Serialised([M EXCEPT !.dispatches =
        <<[D EXCEPT !.attachments = <<a, b>>, !.attachments_present = TRUE,
                    !.declared_attachment_count = count]>>])
R == References(<<One, Two>>)
Retold ==
    {Listed(R[1], R[2], Absent), Listed(R[1], R[2], Present(1)),
     Listed(R[2], R[1], Present(2)), Listed(R[1], [R[2] EXCEPT !.number = 1], Present(2)),
     Listed([R[1] EXCEPT !.size_text = <<"3">>], R[2], Present(2)),
     Listed(R[1], [R[2] EXCEPT !.file_name = <<"a">>], Present(2)),
     Listed([R[1] EXCEPT !.location = SubSeq(@, 5, Len(@))], R[2], Present(2)),
     Listed([R[1] EXCEPT !.location = SubSeq(@, 5, Len(@))], R[1], Present(2)),
     Listed([R[1] EXCEPT !.location = Append(@, "/")], R[2], Present(2)),
     Listed(R[1], [R[1] EXCEPT !.number = 2], Present(2)),
     Listed([R[1] EXCEPT !.location = <<"OCD", "/">> \o SubSeq(@, 3, Len(@))], R[2], Present(2)),
     Listed(R[1], [R[2] EXCEPT !.size_text = <<"x">>], Present(2)),
     Serialised([M EXCEPT !.dispatches =
        <<[D EXCEPT !.attachments = <<R[1]>>, !.declared_attachment_count = Present(1)],
          [D EXCEPT !.attachments = <<R[2]>>, !.declared_attachment_count = Present(1)]>>]),
     InsideOf("FEJRESZ", Element("TESZT", Escape(<<"1">>))),
     InsideOf("FEJRESZ", Element("TESZT", Escape(<<"2">>))),
     InsideOf("EXPEDIALAS", Element("signatures.xml", <<>>)),
     InsideOf("KULDEMENY_AZONOSITO", Escape(<<" ">>)),
     InsideOf("EXPEDIALASOK", Element("EXPEDIALAS", <<>>))}
Misplaced == InsideOf("MELLEKLET", Element("VONALKOD", Escape(<<"CON">>)))

Without(inv, i) == SubSeq(inv, 1, i - 1) \o SubSeq(inv, i + 1, Len(inv))
Swapped(inv, i, j) == [inv EXCEPT ![i] = inv[j], ![j] = inv[i]]
Cased == CanonicalRoot \o <<"METALAYER", "/">> \o MetadataFile
\* Packages one change away from `base`, and from `bare`, whose marker has
\* its documented name.
Beside(base, bare) ==
    {With(pair) : pair \in ({base} \X (Retold \cup {Misplaced}))
                                \cup {<<SubSeq(base, 1, 2), Empty>>}}
        \cup {Rerooted(inv, root) : inv \in {base, bare},
                                    root \in {<<"OCD", "/">>, <<"KRX", "/">>, <<>>}}
        \cup {bare, Swapped(bare, 1, 2), Swapped(base, 1, 2), Swapped(base, 2, 3),
              Swapped(base, 3, 4), Without(base, 1), Without(base, 2), Without(base, 4),
              Holding(bare, 1, FileContent("one")), Holding(base, 1, FileContent("one")),
              Holding(base, 2, FileContent("one")), Holding(base, 3, FileContent("wide")),
              Named(base, 2, Cased), Append(base, Entry(Cased, FileContent("one"))),
              Append(base, Entry(CanonicalRoot \o <<"signatures.xml">>, FileContent("one"))),
              Append(base, Entry(<<"OCD", "/">> \o Mimetype, FileContent("one"))),
              Named(base, 4, PayloadName(2, <<"raw">>)), Named(base, 4, PayloadName(3, <<"b">>)),
              Named(base, 4, PayloadName(2, <<"a", "/", "b">>))}
Bases == {Written(M, <<One, Two>>)}
MCFound ==
    UNION {Beside(base, Named(base, 1, Mimetype)) : base \in Bases}
        \cup {Written(M, l) : l \in {<<One, A(<<"CON">>, "wide")>>, <<One, A(<<"b">>, "dense")>>}}
\* Other packages of as many entries, with other bytes of the same checksums
\* or not, and one that is shorter.
MCForeign ==
    UNION {{Holding(base, 3, FileContent("twin")), Swapped(base, 3, 4),
            Named(Holding(base, 4, FileContent("one")), 3, PayloadName(1, <<"b">>))} :
                base \in Bases}
        \cup {Written(M, <<One>>)}
FoundMisplaced == {With(<<base, Misplaced>>) : base \in Bases}

-----------------------------------------------------------------------------
MCRoot == {<<"OCD", "/">>, <<"KRX", "/">>, <<"x", "/">>, <<"a", "/", "KRX", "/", "OCD", "/">>}
K == [f \in DOMAIN H \ {"test_present"} |-> Absent]
E == [header |-> K, remove |-> <<>>, replace |-> <<>>, add |-> <<>>]
Replace(n, file) == [number |-> n, content |-> FileContent(file)]
Add(name, file) == [file_name |-> name, content |-> FileContent(file), description |-> Absent]
MCEdit ==
    {E, [E EXCEPT !.header.test = Present(FALSE), !.header.note = Present(Present(<<"x">>))],
     [E EXCEPT !.header.note = Present(Absent), !.header.consignment_id = Present(<<"x", " ">>)],
     [E EXCEPT !.remove = <<1>>], [E EXCEPT !.remove = <<2, 1>>], [E EXCEPT !.remove = <<3>>],
     [E EXCEPT !.remove = <<0>>], [E EXCEPT !.remove = <<1, 1>>],
     [E EXCEPT !.replace = <<Replace(1, "twin")>>],
     [E EXCEPT !.replace = <<Replace(2, "large")>>],
     [E EXCEPT !.remove = <<1>>, !.replace = <<Replace(1, "one")>>],
     [E EXCEPT !.remove = <<1>>, !.replace = <<Replace(2, "none")>>,
               !.add = <<Add(<<"a">>, "one"), Add(<<"b">>, "wide")>>],
     [E EXCEPT !.add = <<Add(<<"b">>, "twin")>>],
     [E EXCEPT !.add = <<Add(<<"CON">>, "one")>>],
     [E EXCEPT !.add = <<Add(<<"a">>, "one"), Add(<<"a">>, "one")>>]}
=============================================================================
