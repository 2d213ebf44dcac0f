--------------------------- MODULE MetadataReader ---------------------------
(***************************************************************************)
(* The metadata reader: openkrx-core/src/metadata/scanner.rs and reader.rs.*)
(*                                                                         *)
(* The scanner asks quick_xml for one event at a time, counts it against   *)
(* the limits and hands the parser an opened element, a closed one or      *)
(* text.  The parser is a recursive descent: a function per container, one *)
(* for a leaf and one that skips.  `stack` holds the calls that have not   *)
(* returned, with their local variables.  One action is one event, with    *)
(* everything the scanner and the parser do about it; an empty element is  *)
(* two, since the scanner remembers that it still has to close it.         *)
(***************************************************************************)
EXTENDS Documents

CONSTANT Document      \* the documents to read

ASSUME DocumentAssumption == Document \subseteq Seq(Event)

VARIABLES
    document,  \* the document
    next,      \* the position of the event quick_xml returns next
    elements,  \* Scanner.elements
    depth,     \* Scanner.depth
    text,      \* Scanner.text_bytes
    pending,   \* Scanner.pending_close
    stack,     \* the parser's calls, the innermost last
    unknown,   \* Parser.unknown_elements
    outcome    \* what parse() has returned

vars == <<document, next, elements, depth, text, pending, stack, unknown, outcome>>
counters == <<next, elements, depth, text, pending>>

-----------------------------------------------------------------------------
(* The calls.                                                              *)

DocumentCall == [at |-> "document"]
ConsignmentCall ==
    [at |-> "KULDEMENY", header |-> Absent, receipt |-> FALSE, openings |-> FALSE,
     returned |-> FALSE, dispatches |-> <<>>, seen |-> {}, reached |-> 1]
SlotsCall(at) == [at |-> at, slots |-> [f \in Field |-> Absent]]
DispatchCall == [at |-> "EXPEDIALAS", count |-> Absent, attachments |-> <<>>,
                 present |-> FALSE, handling |-> FALSE]
ListCall(at) == [at |-> at, list |-> <<>>]
LeafCall(field) == [at |-> "leaf", field |-> field, text |-> <<>>]
\* Faulty: the element that is skipped is not counted as open.
FaultySkipCall == [at |-> "skip", open |-> 0]
SkipCall == [at |-> "skip", open |-> 1]

Top == stack[Len(stack)]
Caller == stack[Len(stack) - 1]
InCall(calls) == Top.at \in calls
Call(frame) == stack' = Append(stack, frame)
\* The innermost call goes on with other local variables.
Continue(frame) == stack' = [stack EXCEPT ![Len(stack)] = frame]
\* The innermost call returns and its caller goes on with these.
Return(frame) == stack' = [Front(stack) EXCEPT ![Len(stack) - 1] = frame]

Reading == outcome.kind = "reading"
Accept(value) == outcome' = [kind |-> "accepted", value |-> value]
\* The parser and the scanner are dropped with the error.
Refuse(code, about) ==
    /\ outcome' = [kind |-> "refused", code |-> code, field |-> about]
    /\ UNCHANGED <<document, counters, stack, unknown>>

-----------------------------------------------------------------------------
(* The scanner.                                                            *)

AtEnd == next > Len(document)
Upcoming == document[next]
Incoming(test(_)) == Reading /\ ~pending /\ ~AtEnd /\ test(Upcoming)

OverText(raw) == text + raw > MaxText

\* The running total before the k-th attribute is charged.
TextBefore(e, k) == text + ValueBytes(e.attributes, k - 1)

\* check_attributes(): all are counted before any is read.
CountedOut(e) ==
    LET wrong == {k \in DOMAIN e.attributes : k > MaxAttributes \/ e.attributes[k].raw < 0}
    IN  IF wrong = {} THEN "none"
        ELSE IF e.attributes[Min(wrong)].raw < 0 THEN "malformed.attribute"
             ELSE "over_limit.attributes_per_element"
ReadOut(e) ==
    LET over(k) == TextBefore(e, k) + e.attributes[k].raw > MaxText
        wrong == {k \in DOMAIN e.attributes : over(k) \/ e.attributes[k].value < 0}
    IN  IF wrong = {} THEN "none"
        ELSE IF over(Min(wrong)) THEN "over_limit.text_bytes" ELSE "malformed.entity"

\* Faulty: the ceiling is compared after the fact.
FaultyOpenRefusal(e) ==
    IF e.binding = "unknown" THEN "malformed.unbound_prefix"
    ELSE IF elements > MaxElements THEN "over_limit.elements"
    ELSE IF depth + 1 > MaxDepth THEN "over_limit.depth"
    ELSE IF CountedOut(e) # "none" THEN CountedOut(e)
    ELSE ReadOut(e)

\* classify() and open().
OpenRefusal(e) ==
    IF e.binding = "unknown" THEN "malformed.unbound_prefix"
    ELSE IF elements + 1 > MaxElements THEN "over_limit.elements"
    ELSE IF depth + 1 > MaxDepth THEN "over_limit.depth"
    ELSE IF CountedOut(e) # "none" THEN CountedOut(e)
    ELSE ReadOut(e)

\* A span's raw length is looked at before it is decoded; a reference has none.
TextRefusal(e) ==
    IF e.kind = "reference" /\ e.pieces = <<>> THEN "malformed.entity"
    ELSE IF OverText(IF e.kind = "reference" THEN Len(e.pieces) ELSE e.raw)
         THEN "over_limit.text_bytes"
         ELSE "none"

\* map_reader_error().
ReaderError ==
    [Escape |-> "malformed.entity", Encoding |-> "malformed.encoding",
     InvalidAttr |-> "malformed.attribute", Namespace |-> "malformed.unbound_prefix",
     Syntax |-> "malformed.syntax"]

\* step(): what the scanner itself refuses.
Refusal(e) ==
    CASE IsOpen(e) -> OpenRefusal(e)
      [] IsText(e) -> TextRefusal(e)
      [] e.kind = "doctype" -> "unsupported.dtd"
      [] e.kind = "instruction" -> "unsupported.processing_instruction"
      [] e.kind = "declaration" ->
            [none |-> "none", utf8 |-> "none", other |-> "unsupported.encoding",
             broken |-> "malformed.attribute"][e.encoding]
      [] e.kind = "broken" -> ReaderError[e.error]
      [] OTHER -> "none"

Passes(e) == Refusal(e) = "none"

Opened ==
    /\ elements' = elements + 1
    /\ depth' = depth + 1
    /\ text' = TextBefore(Upcoming, Len(Upcoming.attributes) + 1)
    /\ pending' = (Upcoming.kind = "empty")
    /\ next' = next + 1

\* A Close node comes of an end tag or of an empty element just opened.
Closing == Reading /\ (pending \/ (~AtEnd /\ Upcoming.kind = "end"))
\* Faulty: an empty element is counted in and not out.
FaultyClosed ==
    /\ pending' = FALSE
    /\ next' = IF pending THEN next ELSE next + 1
    /\ depth' = IF depth = 0 \/ pending THEN depth ELSE depth - 1
    /\ UNCHANGED <<elements, text>>

Closed ==
    /\ pending' = FALSE
    /\ next' = IF pending THEN next ELSE next + 1
    /\ depth' = IF depth = 0 THEN 0 ELSE depth - 1
    /\ UNCHANGED <<elements, text>>

ScannerRefuses ==
    /\ Incoming(LAMBDA e : ~Passes(e))
    /\ Refuse(Refusal(Upcoming), Absent)

\* A declaration, a comment, or a span without content yields no node.
PassOver ==
    /\ Incoming(LAMBDA e : Passes(e) /\ \/ e.kind \in {"declaration", "comment"}
                                        \/ IsText(e) /\ e.pieces = <<>>)
    /\ next' = next + 1
    /\ UNCHANGED <<document, elements, depth, text, pending, stack, unknown, outcome>>

\* Text is kept in a leaf and dropped anywhere else.
TakeText ==
    /\ Incoming(LAMBDA e : IsText(e) /\ Passes(e) /\ e.pieces # <<>>)
    /\ text' = text + Len(Upcoming.pieces)
    /\ next' = next + 1
    /\ IF InCall({"leaf"}) THEN Continue([Top EXCEPT !.text = @ \o Upcoming.pieces])
       ELSE UNCHANGED stack
    /\ UNCHANGED <<document, elements, depth, pending, unknown, outcome>>

\* Eof: nothing was opened, or something was not closed.
EndOfDocument ==
    /\ Reading /\ ~pending /\ AtEnd
    /\ IF InCall({"document"}) THEN Refuse("malformed.missing_element", Present("KULDEMENY"))
       ELSE Refuse("malformed.syntax", Absent)

-----------------------------------------------------------------------------
(* An element opens.                                                       *)

Opening(calls) == Incoming(LAMBDA e : IsOpen(e) /\ Passes(e)) /\ InCall(calls)

\* known_field(): `name` in the target namespace.
Names(name) == Upcoming.binding = "target" /\ Upcoming.name = name
Known == Upcoming.binding = "target" /\ Upcoming.name \in Field

OpenedFor(frame) == Opened /\ Call(frame) /\ UNCHANGED <<document, outcome>>
SkipUnknown == OpenedFor(SkipCall) /\ unknown' = unknown + 1
SkipKnown == OpenedFor(SkipCall) /\ UNCHANGED unknown

OpenRoot ==
    /\ Opening({"document"})
    /\ CASE Upcoming.binding # "target" -> Refuse("unsupported.namespace", Absent)
         [] Upcoming.binding = "target" /\ Upcoming.name # "KULDEMENY" ->
                Refuse("malformed.root_element", Present("KULDEMENY"))
         [] OTHER -> OpenedFor(ConsignmentCall) /\ UNCHANGED unknown

\* consignment(), with Order::accept().
OpenBlock(position) ==
    LET field == Blocks[position]
        accepted == [Top EXCEPT
            !.seen = @ \cup {position}, !.reached = position,
            !.receipt = @ \/ field = "ERKEZTETES", !.openings = @ \/ field = "BONTASOK",
            !.returned = @ \/ field = "TERTIVEVENY"]
        callee == CASE field = "FEJRESZ" -> SlotsCall(field)
                    [] field = "EXPEDIALASOK" -> ListCall(field)
                    [] OTHER -> SkipCall
    IN  /\ Opening({"KULDEMENY"}) /\ Names(field)
        /\ CASE position \in Top.seen -> Refuse("malformed.duplicate_element", Present(field))
             [] position \notin Top.seen /\ position < Top.reached ->
                    Refuse("malformed.element_order", Present(field))
             [] OTHER ->
                    /\ Opened
                    /\ stack' = Append(Front(stack), accepted) \o <<callee>>
                    /\ UNCHANGED <<document, unknown, outcome>>

\* In a header and in an attachment every known name is read as a leaf.
OpenLeaf ==
    /\ \/ Opening({"FEJRESZ", "MELLEKLET"}) /\ Known
       \/ Opening({"EXPEDIALAS"}) /\ Names("MELLEKLETEK_SZAMA")
    /\ OpenedFor(LeafCall(Upcoming.name)) /\ UNCHANGED unknown

OpenDispatch ==
    /\ Opening({"EXPEDIALASOK"}) /\ Names("EXPEDIALAS")
    /\ OpenedFor(DispatchCall) /\ UNCHANGED unknown

OpenAttachments ==
    /\ Opening({"EXPEDIALAS"}) /\ Names("MELLEKLETEK")
    /\ IF Top.present THEN Refuse("malformed.duplicate_element", Present("MELLEKLETEK"))
       ELSE /\ Opened
            /\ stack' = Append(Front(stack), [Top EXCEPT !.present = TRUE])
                            \o <<ListCall("MELLEKLETEK")>>
            /\ UNCHANGED <<document, unknown, outcome>>

\* M8: the one element that counts only outside any namespace.
Unqualified == Upcoming.binding = "unbound" /\ Upcoming.name = "KEZELESI_UTASITASOK"
OpenInstructions ==
    /\ Opening({"EXPEDIALAS"}) /\ Unqualified
    /\ Opened
    /\ stack' = Append(Front(stack), [Top EXCEPT !.handling = TRUE]) \o <<SkipCall>>
    /\ UNCHANGED <<document, unknown, outcome>>

OpenAttachment ==
    /\ Opening({"MELLEKLETEK"}) /\ Names("MELLEKLET")
    /\ OpenedFor(SlotsCall("MELLEKLET")) /\ UNCHANGED unknown

OpenUnknown ==
    /\ \/ Opening({"KULDEMENY"}) /\ \A b \in Range(Blocks) : ~Names(b)
       \/ Opening({"FEJRESZ", "MELLEKLET"}) /\ ~Known
       \/ Opening({"EXPEDIALASOK"}) /\ ~Names("EXPEDIALAS")
       \/ /\ Opening({"EXPEDIALAS"}) /\ ~Unqualified
          /\ ~Names("MELLEKLETEK_SZAMA") /\ ~Names("MELLEKLETEK")
       \/ Opening({"MELLEKLETEK"}) /\ ~Names("MELLEKLET")
    /\ SkipUnknown

OpenInLeaf ==
    /\ Opening({"leaf"})
    /\ Refuse("malformed.unexpected_child", Present(Top.field))

OpenSkipped ==
    /\ Opening({"skip"})
    /\ Opened /\ Continue([Top EXCEPT !.open = @ + 1])
    /\ UNCHANGED <<document, unknown, outcome>>

-----------------------------------------------------------------------------
(* An element closes.                                                      *)

ClosedWith(frame) == Closed /\ Return(frame) /\ UNCHANGED <<document, unknown, outcome>>

CloseSkipped ==
    /\ Closing /\ InCall({"skip"})
    /\ Closed
    /\ IF Top.open = 1 THEN stack' = Front(stack) ELSE Continue([Top EXCEPT !.open = @ - 1])
    /\ UNCHANGED <<document, unknown, outcome>>

\* Faulty: the second element of a name takes the place of the first.
FaultyCloseSlot ==
    /\ Closing /\ InCall({"leaf"}) /\ Caller.at # "EXPEDIALAS"
    /\ ClosedWith([Caller EXCEPT !.slots[Top.field] = Present(Trim(Top.text))])

\* Slots::put(), after leaf().
CloseSlot ==
    /\ Closing /\ InCall({"leaf"}) /\ Caller.at # "EXPEDIALAS"
    /\ IF Caller.slots[Top.field] # Absent
       THEN Refuse("malformed.duplicate_element", Present(Top.field))
       ELSE ClosedWith([Caller EXCEPT !.slots[Top.field] = Present(Trim(Top.text))])

CloseCount ==
    /\ Closing /\ InCall({"leaf"}) /\ Caller.at = "EXPEDIALAS"
    /\ CASE Caller.count # Absent -> Refuse("malformed.duplicate_element", Present(Top.field))
         [] Caller.count = Absent /\ Trim(Top.text) \notin DOMAIN Numeral ->
                Refuse("malformed.integer", Present(Top.field))
         [] OTHER -> ClosedWith([Caller EXCEPT !.count = Present(Numeral[Trim(Top.text)])])

\* Slots::into_header(): the first thing that is wrong, in its order.
HeaderChecks(slots) ==
    LET missing(f) == IF slots[f] = Absent THEN {<<"malformed.missing_element", f>>} ELSE {}
        strange(f, tokens) ==
            IF slots[f] \subseteq tokens THEN {} ELSE {<<"malformed.enumeration", f>>}
    IN  <<missing("KRX_VERZIOSZAM"), missing("FORRASRENDSZER_AZONOSITO"),
          strange("FORRASRENDSZER_AZONOSITO", Tokens(SourceSystem)),
          missing("KULDEMENY_AZONOSITO"), missing("KULDEMENY_LETREHOZASANAK_IDEJE"),
          missing("KULDEMENY_TIPUS"), strange("KULDEMENY_TIPUS", Tokens(ConsignmentKind)),
          IF slots["TESZT"] \subseteq Yes \cup No THEN {}
          ELSE {<<"malformed.boolean", "TESZT">>}>>

IntoHeader(slots) ==
    [version |-> The(slots["KRX_VERZIOSZAM"]),
     source_system |-> Head(The(slots["FORRASRENDSZER_AZONOSITO"])),
     consignment_id |-> The(slots["KULDEMENY_AZONOSITO"]),
     created_at_text |-> The(slots["KULDEMENY_LETREHOZASANAK_IDEJE"]),
     consignment_kind |-> Head(The(slots["KULDEMENY_TIPUS"])),
     test |-> slots["TESZT"] # Absent /\ slots["TESZT"] \subseteq Yes,
     test_present |-> slots["TESZT"] # Absent,
     barcode |-> slots["VONALKOD"],
     reference_id |-> slots["KULDEMENY_HIVATKOZASI_AZONOSITO"],
     error_code |-> slots["HIBAKOD"], note |-> slots["KULDEMENY_MEGJEGYZES"]]

\* Slots::into_attachment().
AttachmentChecks(slots) ==
    LET missing(f) == IF slots[f] = Absent THEN {<<"malformed.missing_element", f>>} ELSE {}
    IN  <<missing("CSATOLMANY_SZAMA"),
          IF slots["CSATOLMANY_SZAMA"] \subseteq DOMAIN Numeral THEN {}
          ELSE {<<"malformed.integer", "CSATOLMANY_SZAMA">>},
          missing("FAJL_NEV"), missing("MERET"), missing("ELHELYEZKEDES")>>

IntoAttachment(slots) ==
    [description |-> slots["MELLEKLET_LEIRASA"],
     number |-> Numeral[The(slots["CSATOLMANY_SZAMA"])],
     file_name |-> The(slots["FAJL_NEV"]), size_text |-> The(slots["MERET"]),
     size_value |-> The(slots["MERET"]) \in Finite,
     location |-> The(slots["ELHELYEZKEDES"]),
     quantity |-> slots["MENNYISEG"], quantity_unit |-> slots["MENNYISEGI_EGYSEG"]]

Wrong(checks) == {i \in DOMAIN checks : checks[i] # {}}
RefuseFirst(checks) ==
    LET first == The(checks[Min(Wrong(checks))]) IN Refuse(first[1], Present(first[2]))

CloseHeader ==
    LET checks == HeaderChecks(Top.slots)
    IN  /\ Closing /\ InCall({"FEJRESZ"})
        /\ IF Wrong(checks) # {} THEN RefuseFirst(checks)
           ELSE ClosedWith([Caller EXCEPT !.header = Present(IntoHeader(Top.slots))])

CloseAttachment ==
    LET checks == AttachmentChecks(Top.slots)
    IN  /\ Closing /\ InCall({"MELLEKLET"})
        /\ IF Wrong(checks) # {} THEN RefuseFirst(checks)
           ELSE ClosedWith([Caller EXCEPT !.list = Append(@, IntoAttachment(Top.slots))])

CloseAttachments ==
    /\ Closing /\ InCall({"MELLEKLETEK"})
    /\ ClosedWith([Caller EXCEPT !.attachments = Top.list])

IntoDispatch(call) ==
    [declared_attachment_count |-> call.count, attachments |-> call.attachments,
     attachments_present |-> call.present,
     handling_instructions_unqualified |-> call.handling]

CloseDispatch ==
    /\ Closing /\ InCall({"EXPEDIALAS"})
    /\ ClosedWith([Caller EXCEPT !.list = Append(@, IntoDispatch(Top))])

CloseDispatches ==
    /\ Closing /\ InCall({"EXPEDIALASOK"})
    /\ ClosedWith([Caller EXCEPT !.dispatches = Top.list])

\* The root is closed: nothing behind it is looked at.
CloseRoot ==
    /\ Closing /\ InCall({"KULDEMENY"})
    /\ IF Top.header = Absent
       THEN Refuse("malformed.missing_element", Present("FEJRESZ"))
       ELSE /\ Closed
            /\ Accept([header |-> The(Top.header), receipt_present |-> Top.receipt,
                       openings_present |-> Top.openings,
                       return_receipt_present |-> Top.returned,
                       dispatches |-> Top.dispatches, unknown_elements |-> unknown])
            /\ stack' = Front(stack)
            /\ UNCHANGED <<document, unknown>>

-----------------------------------------------------------------------------
\* Scanner::new() looks at the length before anything is read.
Init ==
    /\ document \in Document
    /\ next = 1 /\ elements = 0 /\ depth = 0 /\ text = 0 /\ pending = FALSE
    /\ stack = <<DocumentCall>> /\ unknown = 0
    /\ outcome = IF Len(document) > MaxDocument
                 THEN [kind |-> "refused", code |-> "over_limit.document_bytes",
                       field |-> Absent]
                 ELSE [kind |-> "reading"]

\* parse() has returned.
Returned == ~Reading /\ UNCHANGED vars

Next ==
    \/ Returned
    \/ ScannerRefuses \/ PassOver \/ TakeText \/ EndOfDocument
    \/ OpenRoot
    \/ \E position \in DOMAIN Blocks : OpenBlock(position)
    \/ OpenLeaf \/ OpenDispatch \/ OpenAttachments \/ OpenInstructions
    \/ OpenAttachment \/ OpenUnknown \/ OpenInLeaf \/ OpenSkipped
    \/ CloseSkipped \/ CloseSlot \/ CloseCount \/ CloseHeader \/ CloseAttachment
    \/ CloseAttachments \/ CloseDispatch \/ CloseDispatches \/ CloseRoot

Spec == Init /\ [][Next]_vars

-----------------------------------------------------------------------------
(* Properties.                                                             *)

Slots == [Field -> SUBSET Text]
Frame ==
    [at : {"document"}]
        \cup [at : {"KULDEMENY"}, header : SUBSET Header, receipt : BOOLEAN,
              openings : BOOLEAN, returned : BOOLEAN, dispatches : Seq(Dispatch),
              seen : SUBSET DOMAIN Blocks, reached : DOMAIN Blocks]
        \cup [at : {"FEJRESZ", "MELLEKLET"}, slots : Slots]
        \cup [at : {"EXPEDIALASOK"}, list : Seq(Dispatch)]
        \cup [at : {"EXPEDIALAS"}, count : SUBSET Int, attachments : Seq(AttachmentReference),
              present : BOOLEAN, handling : BOOLEAN]
        \cup [at : {"MELLEKLETEK"}, list : Seq(AttachmentReference)]
        \cup [at : {"leaf"}, field : Field, text : Text]
        \cup [at : {"skip"}, open : Nat \ {0}]

\* TypeOK: the counters are natural numbers, the parser's calls hold what
\* their functions' variables may, and what is returned is a value of
\* model.rs or a code.
TypeOK ==
    /\ document \in Seq(Event)
    /\ next \in 1 .. Len(document) + 1
    /\ elements \in Nat /\ depth \in Nat /\ text \in Nat /\ unknown \in Nat
    /\ pending \in BOOLEAN
    /\ stack \in Seq(Frame) /\ stack # <<>>
    /\ \/ outcome = [kind |-> "reading"]
       \/ outcome \in [kind : {"accepted"}, value : Metadata]
       \/ outcome \in [kind : {"refused"}, code : Code, field : SUBSET Field]

\* DepthIsNesting: the scanner's depth, the calls of the parser and the
\* elements that are open agree, whatever was skipped and however an element
\* was closed: no subtraction of skip_known() or next() meets a zero, and no
\* call takes the end of another's element for its own.
DepthIsNesting ==
    Reading =>
        /\ depth = Level(document, next) + (IF pending THEN 1 ELSE 0)
        /\ depth = Len(stack) - 1 + (IF InCall({"skip"}) THEN Top.open - 1 ELSE 0)

\* CountsAreExact: the counters are those of the part that was read, element
\* by element and span by span, and no limit was passed on the way to it.
\* `unknown` counts each element without a meaning where it stands, and none
\* of those below one that was skipped.
CountsAreExact ==
    Reading =>
        /\ elements = Cardinality({i \in 1 .. next - 1 : IsOpen(document[i])})
        /\ text = Charged(document, next)
        /\ unknown = Cardinality(At(Tree(document), "unknown") \cap 1 .. next - 1)
        /\ elements <= MaxElements /\ depth <= MaxDepth /\ text <= MaxText

\* VerdictIsExact: parse() returns the value the document has under the
\* grammar when nothing is wrong with it, and otherwise one of the faults
\* that show first, never one that would only show later.
VerdictIsExact ==
    LET verdict == Verdict(document)
    IN  CASE outcome.kind = "reading" -> TRUE
          [] outcome.kind = "accepted" -> outcome = verdict
          [] outcome.kind = "refused" ->
                verdict.kind = "refused" /\ outcome.code \in verdict.codes

\* ForbiddenIsRefused, the words of metadata/mod.rs:9: a document type, a
\* processing instruction or another encoding "are each refused" - wherever
\* in the document they stand.
ForbiddenIsRefused ==
    outcome.kind = "accepted" =>
        \A i \in DOMAIN document :
            /\ document[i].kind \notin {"doctype", "instruction"}
            /\ document[i].kind = "declaration" => document[i].encoding # "other"
=============================================================================
