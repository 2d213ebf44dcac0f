---------------------------- MODULE DocumentWriter ----------------------------
(***************************************************************************)
(* The metadata document of a package: openkrx-core/src/create/xml.rs,     *)
(* from a value to the events of its document, and the texts it refuses.   *)
(* Creation writes it into a package; Documents says what it means.        *)
(***************************************************************************)
EXTENDS Documents

CONSTANTS
    Decimal,       \* a natural number as to_string() writes it
    Unwritable,    \* the pieces XML 1.0 cannot carry, or would change
    Escaped        \* those written as an entity: & < >

\* The words of the grammar are texts the reader leaves as they are.
ASSUME WordsAssumption ==
    SourceSystem \cup ConsignmentKind \cup {"true", "false"} \subseteq Piece \ Space

\* What is written is six elements deep and has one attribute at most; the
\* limits are 32 and 32.
ASSUME RoomAssumption == MaxDepth >= 6 /\ MaxAttributes >= 1

When(wrong, code) == IF wrong THEN {code} ELSE {}

\* The caller's texts, in the order they are written.
HeaderTexts(h) ==
    <<Present(h.version), Present(h.consignment_id), Present(h.created_at_text), h.barcode,
      h.reference_id, h.error_code, h.note>>
ReferenceTexts(a) ==
    <<a.description, Present(a.file_name), Present(a.size_text), Present(a.location),
      a.quantity, a.quantity_unit>>
Texts(metadata) ==
    LET references == Attachments(metadata)
    IN  HeaderTexts(metadata.header)
        \o FlattenSeq([i \in DOMAIN references |-> ReferenceTexts(references[i])])

\* Faulty: what the reader would trim is written as it is.
FaultyTextFault(t) == When(Range(t) \cap Unwritable # {}, "create.invalid.text")
\* escape(), where it refuses.
TextFault(t) ==
    IF Trim(t) # t THEN {"create.invalid.untrimmed_text"}
    ELSE When(Range(t) \cap Unwritable # {}, "create.invalid.text")
TextChecks(metadata) ==
    LET texts == Texts(metadata) IN [i \in DOMAIN texts |-> UNION {TextFault(t) : t \in texts[i]}]

\* escape(), where it does not: an entity for each piece that needs one.
Escape(t) ==
    [i \in DOMAIN t |-> IF t[i] \in Escaped THEN [kind |-> "reference", pieces |-> <<t[i]>>]
                        ELSE [kind |-> "text", raw |-> 1, pieces |-> <<t[i]>>]]

Start(name, binding) ==
    [kind |-> "start", name |-> name, binding |-> binding, attributes |-> <<>>]
Element(name, inner) == <<Start(name, "target")>> \o inner \o <<[kind |-> "end"]>>
TextElement(name, t) == Element(name, Escape(t))
Optional(name, option) == IF option = Absent THEN <<>> ELSE TextElement(name, The(option))
Block(present, name) == IF present THEN Element(name, <<>>) ELSE <<>>

HeaderElement(h) ==
    Element("FEJRESZ",
        TextElement("KRX_VERZIOSZAM", h.version)
        \o TextElement("FORRASRENDSZER_AZONOSITO", <<h.source_system>>)
        \o TextElement("KULDEMENY_AZONOSITO", h.consignment_id)
        \o TextElement("KULDEMENY_LETREHOZASANAK_IDEJE", h.created_at_text)
        \o TextElement("KULDEMENY_TIPUS", <<h.consignment_kind>>)
        \o Optional("TESZT", IF h.test_present
                             THEN Present(IF h.test THEN <<"true">> ELSE <<"false">>)
                             ELSE Absent)
        \o Optional("VONALKOD", h.barcode)
        \o Optional("KULDEMENY_HIVATKOZASI_AZONOSITO", h.reference_id)
        \o Optional("HIBAKOD", h.error_code)
        \o Optional("KULDEMENY_MEGJEGYZES", h.note))

AttachmentElement(a) ==
    Element("MELLEKLET",
        Optional("MELLEKLET_LEIRASA", a.description)
        \o TextElement("CSATOLMANY_SZAMA", Decimal[a.number])
        \o TextElement("FAJL_NEV", a.file_name) \o TextElement("MERET", a.size_text)
        \o TextElement("ELHELYEZKEDES", a.location)
        \o Optional("MENNYISEG", a.quantity) \o Optional("MENNYISEGI_EGYSEG", a.quantity_unit))

DispatchElement(d) ==
    LET count == {Decimal[n] : n \in d.declared_attachment_count}
        list == FlattenSeq([i \in DOMAIN d.attachments |-> AttachmentElement(d.attachments[i])])
    IN  Element("EXPEDIALAS",
            Optional("MELLEKLETEK_SZAMA", count)
            \o (IF d.attachments_present \/ list # <<>> THEN Element("MELLEKLETEK", list)
                ELSE <<>>)
            \o (IF d.handling_instructions_unqualified
                THEN <<Start("KEZELESI_UTASITASOK", "unbound"), [kind |-> "end"]>>
                ELSE <<>>))

\* serialise(): the root carries the one attribute, its namespace.
Serialised(metadata) ==
    LET ds == metadata.dispatches
        root == [Start("KULDEMENY", "target") EXCEPT
                    !.attributes = <<[raw |-> 1, value |-> 1]>>]
    IN  <<[kind |-> "declaration", encoding |-> "utf8"], root>>
        \o HeaderElement(metadata.header)
        \o Block(metadata.receipt_present, "ERKEZTETES")
        \o Block(metadata.openings_present, "BONTASOK")
        \o (IF ds = <<>> THEN <<>>
            ELSE Element("EXPEDIALASOK",
                         FlattenSeq([i \in DOMAIN ds |-> DispatchElement(ds[i])])))
        \o Block(metadata.return_receipt_present, "TERTIVEVENY")
        \o <<[kind |-> "end"]>>

\* A document the reader refuses for its size only: package() looks at no
\* limit of MetadataLimits.
TooLarge == {"over_limit.document_bytes", "over_limit.text_bytes", "over_limit.elements"}
=============================================================================
