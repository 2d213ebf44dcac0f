------------------------------ MODULE Documents ------------------------------
(***************************************************************************)
(* What a metadata document says: the values of                            *)
(* openkrx-core/src/metadata/model.rs, and the grammar of                  *)
(* metadata/reader.rs as a relation between a document and a value instead *)
(* of as a program.  MetadataReader is the program, and is checked against *)
(* this module; Profile and Packages take a document for what it says.     *)
(*                                                                         *)
(* A document is the sequence of events quick_xml finds in its bytes.  A   *)
(* text is a sequence of pieces: characters, or words nothing here looks   *)
(* into.  An optional value is the set of at most one value.               *)
(***************************************************************************)
EXTENDS Integers, Sequences, FiniteSets, SequencesExt, FiniteSetsExt

CONSTANTS
    Piece,         \* what texts are made of; each counts as one byte
    Space,         \* the pieces str::trim takes off the ends of a text
    Numeral,       \* the texts that are an i64, and what they denote
    Finite,        \* the texts that read as a finite f64
    MaxDocument,   \* MetadataLimits: here of events, standing for bytes
    MaxDepth, MaxElements, MaxAttributes, MaxText

ASSUME LimitsAssumption ==
    {MaxDocument, MaxDepth, MaxElements, MaxAttributes, MaxText} \subseteq Nat
ASSUME NumeralAssumption == Numeral \in [DOMAIN Numeral -> Int]

Text == Seq(Piece)
Absent == {}
Present(v) == {v}
The(option) == CHOOSE v \in option : TRUE

-----------------------------------------------------------------------------
(* Names.                                                                  *)

\* KULDEMENY_SEQUENCE: the children of the root, in the order M2 fixes.
Blocks == <<"FEJRESZ", "ERKEZTETES", "BONTASOK", "EXPEDIALASOK", "TERTIVEVENY">>

HeaderRequired == {"KRX_VERZIOSZAM", "FORRASRENDSZER_AZONOSITO", "KULDEMENY_AZONOSITO",
                   "KULDEMENY_LETREHOZASANAK_IDEJE", "KULDEMENY_TIPUS"}
HeaderOptional == {"TESZT", "VONALKOD", "KULDEMENY_HIVATKOZASI_AZONOSITO", "HIBAKOD",
                   "KULDEMENY_MEGJEGYZES"}
AttachmentRequired == {"CSATOLMANY_SZAMA", "FAJL_NEV", "MERET", "ELHELYEZKEDES"}
AttachmentOptional == {"MELLEKLET_LEIRASA", "MENNYISEG", "MENNYISEGI_EGYSEG"}

\* MetadataField: every name the grammar defines anywhere.
Field == {"KULDEMENY", "EXPEDIALAS", "MELLEKLETEK", "MELLEKLETEK_SZAMA", "MELLEKLET",
          "KEZELESI_UTASITASOK"}
            \cup Range(Blocks) \cup HeaderRequired \cup HeaderOptional
            \cup AttachmentRequired \cup AttachmentOptional

\* A literal is a string, which the provers do not know of a name.
ASSUME FieldAssumption == Field \subseteq STRING

\* XmlUnsupportedKind, XmlMalformedKind and XmlLimitKind.
Code ==
    {"unsupported.dtd", "unsupported.processing_instruction", "unsupported.encoding",
     "unsupported.namespace", "malformed.syntax", "malformed.encoding", "malformed.entity",
     "malformed.unbound_prefix", "malformed.attribute", "malformed.root_element",
     "malformed.missing_element", "malformed.duplicate_element", "malformed.element_order",
     "malformed.unexpected_child", "malformed.enumeration", "malformed.integer",
     "malformed.boolean", "over_limit.document_bytes", "over_limit.depth",
     "over_limit.elements", "over_limit.attributes_per_element", "over_limit.text_bytes"}

SourceSystem == {"NOVA", "KIR3", "KER", "POSTA", "IMAP"}
ConsignmentKind == {"KULDEMENY", "NYUGTA", "EXPEDIALAS", "TERTIVEVENY", "HIBAJELZES"}
Tokens(values) == {<<v>> : v \in values}
Yes == Tokens({"true", "1"})
No == Tokens({"false", "0"})

-----------------------------------------------------------------------------
(* Values.                                                                 *)

Header == [version : Text, source_system : SourceSystem, consignment_id : Text,
           created_at_text : Text, consignment_kind : ConsignmentKind,
           test : BOOLEAN, test_present : BOOLEAN, barcode : SUBSET Text,
           reference_id : SUBSET Text, error_code : SUBSET Text, note : SUBSET Text]

\* size_value only says whether the text is a finite number.
AttachmentReference ==
    [description : SUBSET Text, number : Int, file_name : Text, size_text : Text,
     size_value : BOOLEAN, location : Text, quantity : SUBSET Text,
     quantity_unit : SUBSET Text]

Dispatch == [declared_attachment_count : SUBSET Int,
             attachments : Seq(AttachmentReference), attachments_present : BOOLEAN,
             handling_instructions_unqualified : BOOLEAN]

Metadata == [header : Header, receipt_present : BOOLEAN, openings_present : BOOLEAN,
             return_receipt_present : BOOLEAN, dispatches : Seq(Dispatch),
             unknown_elements : Nat]

\* Metadata::attachments(): across the dispatches, in document order.
Attachments(metadata) ==
    FlattenSeq([i \in DOMAIN metadata.dispatches |-> metadata.dispatches[i].attachments])

\* trim_end_matches('/') and declared_path().
WithoutSlashes(location) ==
    LET named == {i \in DOMAIN location : location[i] # "/"}
    IN  IF named = {} THEN <<>> ELSE SubSeq(location, 1, Max(named))
DeclaredPath(a) ==
    LET location == WithoutSlashes(a.location)
    IN  IF location = <<>> THEN a.file_name ELSE location \o <<"/">> \o a.file_name

-----------------------------------------------------------------------------
(* Documents.                                                              *)

\* An attribute's raw length, and the length of its normalised value, or -1
\* for a value that names an entity; a raw length of -1 is one not well formed.
\* Unescaping and normalising never grow a value, nor the text of a span.
Attribute ==
    {a \in [raw : Nat \cup {-1}, value : Nat \cup {-1}] : a.raw >= 0 => a.value <= a.raw}

OpenEvent == [kind : {"start", "empty"}, name : STRING,
              binding : {"target", "unbound", "foreign", "unknown"},
              attributes : Seq(Attribute)]
TextEvent ==
    {e \in [kind : {"text", "cdata"}, raw : Nat, pieces : Text] : Len(e.pieces) <= e.raw}
\* &...; - `pieces` is empty for an entity that XML does not predefine.
ReferenceEvent == [kind : {"reference"}, pieces : Text]
\* <?xml ...?> - with the encoding it declares.
DeclarationEvent ==
    [kind : {"declaration"}, encoding : {"none", "utf8", "other", "broken"}]
PlainEvent == [kind : {"end", "comment", "doctype", "instruction"}]
\* Where quick_xml stops with an error.
BrokenEvent ==
    [kind : {"broken"},
     error : {"Escape", "Encoding", "InvalidAttr", "Namespace", "Syntax"}]
Event == OpenEvent \cup TextEvent \cup ReferenceEvent \cup DeclarationEvent
            \cup PlainEvent \cup BrokenEvent

IsOpen(e) == e.kind \in {"start", "empty"}
IsText(e) == e.kind \in {"text", "cdata", "reference"}

\* How many elements are open before event i.
Level(d, i) == Cardinality({j \in 1 .. i - 1 : d[j].kind = "start"})
                 - Cardinality({j \in 1 .. i - 1 : d[j].kind = "end"})

\* quick_xml's own promise: no end without its start.
Nested(d) == \A i \in DOMAIN d : d[i].kind = "end" => Level(d, i) > 0

Trim(t) ==
    LET kept == {i \in DOMAIN t : t[i] \notin Space}
    IN  IF kept = {} THEN <<>> ELSE SubSeq(t, Min(kept), Max(kept))

-----------------------------------------------------------------------------
(* What the elements of a document are to the grammar.                     *)

\* The children an element may have that mean something, and as what.
Grammar ==
    [KULDEMENY    |-> [n \in Range(Blocks) |-> n],
     FEJRESZ      |-> [n \in Field |-> "leaf"],
     EXPEDIALASOK |-> [n \in {"EXPEDIALAS"} |-> n],
     EXPEDIALAS   |-> [n \in {"MELLEKLETEK", "MELLEKLETEK_SZAMA"} |->
                          IF n = "MELLEKLETEK" THEN n ELSE "leaf"],
     MELLEKLETEK  |-> [n \in {"MELLEKLET"} |-> n],
     MELLEKLET    |-> [n \in Field |-> "leaf"]]

Part(parent, e) ==
    IF parent \notin DOMAIN Grammar THEN "below"
    ELSE CASE e.binding = "target" /\ e.name \in DOMAIN Grammar[parent] -> Grammar[parent][e.name]
           [] parent = "EXPEDIALAS" /\ e.binding = "unbound" /\ e.name = "KEZELESI_UTASITASOK" ->
                 "instructions"
           [] OTHER -> "unknown"

\* A document with, for every event, the innermost element open there (0 for
\* none), for an element also the event that closes it (past the last when
\* none does) and its part.
Tree(d) ==
    LET level == [i \in 1 .. Len(d) + 1 |-> Level(d, i)]
        parent == [i \in DOMAIN d |->
            Max({j \in 1 .. i - 1 : d[j].kind = "start" /\ level[j] = level[i] - 1} \cup {0})]
        close == [i \in DOMAIN d |->
            IF d[i].kind # "start" THEN i
            ELSE Min({j \in i + 1 .. Len(d) : d[j].kind = "end" /\ level[j] = level[i] + 1}
                        \cup {Len(d) + 1})]
        part[i \in DOMAIN d] ==
            IF ~IsOpen(d[i]) THEN "none"
            ELSE IF parent[i] = 0 THEN "KULDEMENY" ELSE Part(part[parent[i]], d[i])
    IN  [event |-> d, level |-> level, parent |-> parent, close |-> close,
         part |-> [i \in DOMAIN d |-> part[i]]]

At(t, part) == {i \in DOMAIN t.part : t.part[i] = part}
Children(t, i) == {j \in i + 1 .. t.close[i] - 1 : IsOpen(t.event[j]) /\ t.parent[j] = i}
Said(e) == IF IsText(e) THEN e.pieces ELSE <<>>
Content(t, i) ==
    Trim(FlattenSeq([k \in 1 .. t.close[i] - i - 1 |-> Said(t.event[i + k])]))

-----------------------------------------------------------------------------
(* The value of a document without a fault.                                *)

Leaf(t, i, name) ==
    {Content(t, j) : j \in {j \in Children(t, i) :
                        t.event[j].name = name /\ t.event[j].binding = "target"}}

HeaderAt(t, i) ==
    LET leaf(name) == The(Leaf(t, i, name))
    IN  [version |-> leaf("KRX_VERZIOSZAM"),
         source_system |-> leaf("FORRASRENDSZER_AZONOSITO")[1],
         consignment_id |-> leaf("KULDEMENY_AZONOSITO"),
         created_at_text |-> leaf("KULDEMENY_LETREHOZASANAK_IDEJE"),
         consignment_kind |-> leaf("KULDEMENY_TIPUS")[1],
         test |-> Leaf(t, i, "TESZT") \cap Yes # {},
         test_present |-> Leaf(t, i, "TESZT") # Absent,
         barcode |-> Leaf(t, i, "VONALKOD"),
         reference_id |-> Leaf(t, i, "KULDEMENY_HIVATKOZASI_AZONOSITO"),
         error_code |-> Leaf(t, i, "HIBAKOD"),
         note |-> Leaf(t, i, "KULDEMENY_MEGJEGYZES")]

AttachmentAt(t, i) ==
    LET leaf(name) == The(Leaf(t, i, name))
    IN  [description |-> Leaf(t, i, "MELLEKLET_LEIRASA"),
         number |-> Numeral[leaf("CSATOLMANY_SZAMA")],
         file_name |-> leaf("FAJL_NEV"),
         size_text |-> leaf("MERET"),
         size_value |-> leaf("MERET") \in Finite,
         location |-> leaf("ELHELYEZKEDES"),
         quantity |-> Leaf(t, i, "MENNYISEG"),
         quantity_unit |-> Leaf(t, i, "MENNYISEGI_EGYSEG")]

InOrder(positions) ==
    [k \in 1 .. Cardinality(positions) |->
        CHOOSE i \in positions : Cardinality({j \in positions : j < i}) = k - 1]

DispatchAt(t, i) ==
    LET lists == Children(t, i) \cap At(t, "MELLEKLETEK")
        items == InOrder({j \in At(t, "MELLEKLET") : t.parent[j] \in lists})
    IN  [declared_attachment_count |->
            {Numeral[c] : c \in Leaf(t, i, "MELLEKLETEK_SZAMA")},
         attachments |-> [k \in DOMAIN items |-> AttachmentAt(t, items[k])],
         attachments_present |-> lists # {},
         handling_instructions_unqualified |->
            Children(t, i) \cap At(t, "instructions") # {}]

\* The value of a document that has one element only.
Meaning(t) ==
    LET dispatches == InOrder(At(t, "EXPEDIALAS"))
    IN  [header |-> HeaderAt(t, The(At(t, "FEJRESZ"))),
         receipt_present |-> At(t, "ERKEZTETES") # {},
         openings_present |-> At(t, "BONTASOK") # {},
         return_receipt_present |-> At(t, "TERTIVEVENY") # {},
         dispatches |-> [k \in DOMAIN dispatches |-> DispatchAt(t, dispatches[k])],
         unknown_elements |-> Cardinality(At(t, "unknown"))]

-----------------------------------------------------------------------------
(* What makes a document unreadable, and where.                            *)

\* The text charged before event i, and before the k-th attribute of event i.
ValueBytes(attributes, n) ==
    LET upTo[k \in 0 .. Len(attributes)] ==
            IF k = 0 THEN 0 ELSE upTo[k - 1] + attributes[k].value
    IN  upTo[n]
ValueOf(e) ==
    IF IsOpen(e) THEN ValueBytes(e.attributes, Len(e.attributes))
    ELSE IF IsText(e) THEN Len(e.pieces) ELSE 0
Charged(d, i) ==
    LET upTo[j \in 0 .. Len(d)] == IF j = 0 THEN 0 ELSE upTo[j - 1] + ValueOf(d[j])
    IN  upTo[i - 1]
ChargedAt(d, i, k) == Charged(d, i) + ValueBytes(d[i].attributes, k - 1)

OpenFaults(t, i) ==
    LET d == t.event
        e == d[i]
        counted == 1 .. Min({Len(e.attributes), MaxAttributes + 1})
    IN  {code \in {"malformed.unbound_prefix", "over_limit.elements", "over_limit.depth",
                   "malformed.attribute", "over_limit.attributes_per_element",
                   "malformed.entity", "over_limit.text_bytes"} :
            CASE code = "malformed.unbound_prefix" -> e.binding = "unknown"
              [] code = "over_limit.elements" ->
                    Cardinality({j \in 1 .. i : IsOpen(d[j])}) > MaxElements
              [] code = "over_limit.depth" -> t.level[i] + 1 > MaxDepth
              [] code = "malformed.attribute" -> \E k \in counted : e.attributes[k].raw < 0
              [] code = "over_limit.attributes_per_element" -> Len(e.attributes) > MaxAttributes
              [] code = "malformed.entity" ->
                    \E k \in DOMAIN e.attributes : e.attributes[k].value < 0
              [] code = "over_limit.text_bytes" ->
                    \E k \in DOMAIN e.attributes :
                        ChargedAt(d, i, k) + e.attributes[k].raw > MaxText}

\* What no document may hold, whatever it says.
EventFaults(t, i) ==
    LET e == t.event[i]
    IN  CASE IsOpen(e) -> OpenFaults(t, i)
          [] e.kind = "doctype" -> {"unsupported.dtd"}
          [] e.kind = "instruction" -> {"unsupported.processing_instruction"}
          [] e.kind = "declaration" /\ e.encoding = "other" -> {"unsupported.encoding"}
          [] e.kind = "declaration" /\ e.encoding = "broken" -> {"malformed.attribute"}
          [] e.kind = "broken" ->
                {CASE e.error = "Escape" -> "malformed.entity"
                   [] e.error = "Encoding" -> "malformed.encoding"
                   [] e.error = "InvalidAttr" -> "malformed.attribute"
                   [] e.error = "Namespace" -> "malformed.unbound_prefix"
                   [] OTHER -> "malformed.syntax"}
          [] IsText(e) ->
                IF e.kind = "reference" /\ e.pieces = <<>> THEN {"malformed.entity"}
                ELSE IF Charged(t.event, i)
                            + (IF e.kind = "reference" THEN Len(e.pieces) ELSE e.raw) > MaxText
                     THEN {"over_limit.text_bytes"} ELSE {}
          [] OTHER -> {}

\* An element a block or a leaf may not have.
Twins(t, i) ==
    {j \in 1 .. i - 1 : /\ t.part[j] = t.part[i] /\ t.parent[j] = t.parent[i]
                         /\ t.event[j].name = t.event[i].name}
PlaceFaults(t, i) ==
    LET p == t.parent[i]
        e == t.event[i]
        place(name) == CHOOSE k \in DOMAIN Blocks : Blocks[k] = name
        blocks(from, to) == {j \in from .. to : t.part[j] \in Range(Blocks)}
        late == \E j \in blocks(1, i - 1) : place(t.part[j]) > place(t.part[i])
    IN  CASE p = 0 /\ e.binding # "target" -> {"unsupported.namespace"}
          [] p = 0 /\ e.binding = "target" ->
                IF e.name = "KULDEMENY" THEN {} ELSE {"malformed.root_element"}
          [] p # 0 /\ t.part[p] = "leaf" -> {"malformed.unexpected_child"}
          [] p # 0 /\ t.part[i] \in Range(Blocks) \cup {"MELLEKLETEK"} ->
                IF Twins(t, i) # {} THEN {"malformed.duplicate_element"}
                ELSE IF i \in blocks(i, i) /\ late THEN {"malformed.element_order"} ELSE {}
          [] OTHER -> {}

\* What is only known once the element at i ends.
ValueFaults(t, i) ==
    LET leaf(name) == Leaf(t, i, name)
        missing(names) ==
            IF \E n \in names : leaf(n) = {} THEN {"malformed.missing_element"} ELSE {}
        unless(holds, code) == IF holds THEN {} ELSE {code}
    IN  CASE t.part[i] = "FEJRESZ" ->
                missing(HeaderRequired)
                \cup unless(/\ leaf("FORRASRENDSZER_AZONOSITO") \subseteq Tokens(SourceSystem)
                           /\ leaf("KULDEMENY_TIPUS") \subseteq Tokens(ConsignmentKind),
                           "malformed.enumeration")
                \cup unless(leaf("TESZT") \subseteq Yes \cup No, "malformed.boolean")
          [] t.part[i] = "MELLEKLET" ->
                missing(AttachmentRequired)
                \cup unless(leaf("CSATOLMANY_SZAMA") \subseteq DOMAIN Numeral,
                           "malformed.integer")
          [] t.part[i] = "KULDEMENY" ->
                unless(Children(t, i) \cap At(t, "FEJRESZ") # {}, "malformed.missing_element")
          [] t.part[i] = "leaf" ->
                unless(Twins(t, i) = {}, "malformed.duplicate_element")
                \cup unless(\/ t.part[t.parent[i]] # "EXPEDIALAS"
                           \/ Content(t, i) \in DOMAIN Numeral, "malformed.integer")
          [] OTHER -> {}

\* The faults that show at event i.
FaultsAt(t, i) ==
    EventFaults(t, i)
        \cup (IF IsOpen(t.event[i]) THEN PlaceFaults(t, i) ELSE {})
        \cup UNION {ValueFaults(t, j) :
                        j \in {j \in 1 .. i : IsOpen(t.event[j]) /\ t.close[j] = i}}

\* A document up to the end of its first element; its end is where it shows
\* that there is none.
FirstElement(t) == Min({i \in DOMAIN t.event : IsOpen(t.event[i])} \cup {Len(t.event) + 1})
End(t) ==
    LET first == FirstElement(t)
    IN  IF first \in DOMAIN t.event THEN t.close[first] ELSE first
Read(t) == IF End(t) \in DOMAIN t.event THEN Tree(SubSeq(t.event, 1, End(t))) ELSE t

\* What may be said of a document without a value: the faults that show first.
Faults(t) ==
    LET faulty == {i \in DOMAIN t.event : FaultsAt(t, i) # {}}
    IN  IF faulty # {} THEN FaultsAt(t, Min(faulty))
        ELSE IF End(t) \in DOMAIN t.event THEN {}
             ELSE IF FirstElement(t) \in DOMAIN t.event THEN {"malformed.syntax"}
                  ELSE {"malformed.missing_element"}

VerdictOf(t, faults) ==
    IF faults = {} THEN [kind |-> "accepted", value |-> Meaning(t)]
    ELSE [kind |-> "refused", codes |-> faults]

\* What metadata::parse() returns.
VerdictOn(t) == VerdictOf(t, Faults(t))
Verdict(d) ==
    IF Len(d) > MaxDocument THEN [kind |-> "refused", codes |-> {"over_limit.document_bytes"}]
    ELSE VerdictOn(Read(Tree(d)))
=============================================================================
