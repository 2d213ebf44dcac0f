------------------------- MODULE MCMetadataReader -------------------------
(* Two documents, and everything one change makes of them: an event more,  *)
(* one less or another one, an element twice or in its sibling's place.    *)
(* Of the smaller document two changes, the second among a few.            *)
EXTENDS MetadataReader

MCPiece == {"NOVA", "NYUGTA", "true", "0", "1", "2", "x", " "}
MCNumeral == [t \in {<<"0">>, <<"1">>, <<"2">>, <<"1", "2">>} |->
                IF Len(t) = 2 THEN 12 ELSE IF t = <<"0">> THEN 0
                ELSE IF t = <<"1">> THEN 1 ELSE 2]
MCFinite == DOMAIN MCNumeral

Open(kind, binding, name) ==
    [kind |-> kind, name |-> name, binding |-> binding, attributes |-> <<>>]
With(e, attributes) == [e EXCEPT !.attributes = attributes]
Empty(name) == <<Open("empty", "target", name)>>
Word(p) == [kind |-> "text", raw |-> 1, pieces |-> <<p>>]
Cdata(p) == [kind |-> "cdata", raw |-> 1, pieces |-> <<p>>]
Reference(pieces) == [kind |-> "reference", pieces |-> pieces]
Mark(kind) == [kind |-> kind]
Declaration(encoding) == [kind |-> "declaration", encoding |-> encoding]
Broken(error) == [kind |-> "broken", error |-> error]
In(name, inner) == <<Open("start", "target", name)>> \o inner \o <<Mark("end")>>

FEJRESZ ==
    In("FEJRESZ",
       Empty("KRX_VERZIOSZAM") \o In("FORRASRENDSZER_AZONOSITO", <<Word("NOVA")>>)
       \o Empty("KULDEMENY_AZONOSITO") \o Empty("KULDEMENY_LETREHOZASANAK_IDEJE")
       \o In("KULDEMENY_TIPUS", <<Word("NYUGTA")>>))
Receipt == <<Declaration("utf8")>>
           \o In("KULDEMENY", FEJRESZ \o Empty("ERKEZTETES"))
MELLEKLET ==
    In("MELLEKLET", In("CSATOLMANY_SZAMA", <<Word("1"), Cdata("2")>>) \o Empty("FAJL_NEV")
                        \o Empty("MERET") \o Empty("ELHELYEZKEDES"))
Consignment ==
    In("KULDEMENY", FEJRESZ \o
       In("EXPEDIALASOK", In("EXPEDIALAS",
          In("MELLEKLETEK_SZAMA", <<Word("1")>>) \o In("MELLEKLETEK", MELLEKLET))))

-----------------------------------------------------------------------------
Without(d, i) == SubSeq(d, 1, i - 1) \o SubSeq(d, i + 1, Len(d))
Insert(d, i, s) == SubSeq(d, 1, i - 1) \o s \o SubSeq(d, i, Len(d))
Ends(d) == Tree(d).close
Whole(d) == {i \in DOMAIN d : IsOpen(d[i]) /\ Ends(d)[i] \in DOMAIN d}
Element(d, i) == SubSeq(d, i, Ends(d)[i])

\* The element at i and the one behind it, in the other order.
Swapped(d, i) ==
    LET j == Ends(d)[i] + 1
    IN  SubSeq(d, 1, i - 1) \o Element(d, j) \o Element(d, i)
            \o SubSeq(d, Ends(d)[j] + 1, Len(d))

Few == {Open("start", "target", "TERTIVEVENY"), Mark("end"), Mark("doctype"), Word("x")}

Spans == {Word(" "), [kind |-> "text", raw |-> 2, pieces |-> <<"x">>],
          [kind |-> "cdata", raw |-> 3, pieces |-> <<>>], Reference(<<"x">>), Reference(<<>>)}
Elements ==
    {Open("start", "target", "VONALKOD"), Open("empty", "target", "TESZT"),
     Open("empty", "target", "BONTASOK"), Open("empty", "target", "MELLEKLETEK"),
     Open("empty", "unbound", "KEZELESI_UTASITASOK"),
     Open("empty", "target", "KEZELESI_UTASITASOK"), Open("empty", "unknown", "x"),
     Open("empty", "foreign", "FEJRESZ"), Open("empty", "target", "x")}
Attributed ==
    {With(Open("empty", "foreign", "x"), a) :
        a \in {<<[raw |-> 1, value |-> 1]>>, <<[raw |-> -1, value |-> 0]>>,
               <<[raw |-> 1, value |-> -1]>>, <<[raw |-> 5, value |-> 1]>>,
               <<[raw |-> 1, value |-> 1], [raw |-> 0, value |-> 0]>>,
               <<[raw |-> 1, value |-> 1], [raw |-> -1, value |-> 0]>>}}
Others ==
    {Mark("comment"), Mark("instruction"), Declaration("none"), Declaration("other"),
     Declaration("broken")}
        \cup {Broken(e) : e \in {"Escape", "Encoding", "InvalidAttr", "Namespace", "Syntax"}}

Inserted(d, events) == {Insert(d, i, <<e>>) : i \in 1 .. Len(d) + 1, e \in events}
Structural(d) ==
    {Without(d, i) : i \in DOMAIN d}
        \cup {Insert(d, i, Element(d, i)) : i \in Whole(d)}
        \cup {Swapped(d, i) : i \in {i \in Whole(d) : Ends(d)[i] + 1 \in Whole(d)}}
        \cup UNION {{[d EXCEPT ![i].name = n] : n \in {"KULDEMENY", "TERTIVEVENY", "x"}} :
                        i \in {i \in DOMAIN d : IsOpen(d[i])}}
        \cup UNION {{[d EXCEPT ![i].pieces = <<p>>] : p \in {"true", "0", "x", " "}} :
                        i \in {i \in DOMAIN d : IsText(d[i])}}
Changed(d) ==
    {c \in Structural(d) \cup Inserted(d, Few \cup Spans \cup Elements \cup Attributed \cup Others) :
        Nested(c)}

MCDocument ==
    {Receipt, Consignment, <<>>, <<Mark("comment")>>}
        \cup Changed(Receipt) \cup Changed(Consignment)
        \cup {c \in UNION {Structural(d) \cup Inserted(d, Few) :
                            d \in {d \in Structural(Receipt) : Nested(d)}} : Nested(c)}
=============================================================================
