-------------------------------- MODULE Packages --------------------------------
(***************************************************************************)
(* The life of a package: written by create::package(), found somewhere,   *)
(* planned over and written again by openkrx-core/src/repack, with the     *)
(* checks of Profile over whatever there is.                               *)
(*                                                                         *)
(* plan() and apply() each take an inventory, and nothing makes it the     *)
(* same one: between the two the package may become another (Exchange).    *)
(***************************************************************************)
EXTENDS Creation

CONSTANTS
    NotText,       \* the pieces that are no UTF-8
    Request,       \* what create::package() is asked for
    Found,         \* the packages there may be that it did not write
    Foreign,       \* those that may take the place of one
    Edit,          \* what repacking is asked for
    Root           \* other roots a package may be below than the canonical one

\* A root is a directory, and not the one the metadata is in.
ASSUME RootAssumption ==
    /\ Root \subseteq Text
    /\ \A root \in Root \cup {CanonicalRoot} :
          /\ root # <<>> /\ Last(root) = "/"
          /\ Folded(LastSegment(Directory(root))) # Folded(Metalayer)

-----------------------------------------------------------------------------
(* Values.                                                                 *)

\* ArchiveInventory: archive::inventory() accepts no more entries than that.
Inventory ==
    {inv \in Seq([name : Text, content : EntryContent, packed : Nat, crc32 : Nat]) :
        Len(inv) <= Ceiling(MaxEntries, Word16)}

\* HeaderEdits and PackageEdits.
HeaderField == {"version", "source_system", "consignment_id", "created_at_text",
                "consignment_kind", "test", "barcode", "reference_id", "error_code", "note"}
HeaderEdit ==
    [version : SUBSET Text, source_system : SUBSET SourceSystem, consignment_id : SUBSET Text,
     created_at_text : SUBSET Text, consignment_kind : SUBSET ConsignmentKind,
     test : SUBSET BOOLEAN, barcode : SUBSET SUBSET Text, reference_id : SUBSET SUBSET Text,
     error_code : SUBSET SUBSET Text, note : SUBSET SUBSET Text]
PackageEdit ==
    [header : HeaderEdit, remove : Seq(Nat), replace : Seq([number : Nat, content : EntryContent]),
     add : Seq([file_name : Text, content : EntryContent, description : SUBSET Text])]

ASSUME InputAssumption ==
    Request \subseteq PackageSpec /\ Found \cup Foreign \subseteq Inventory
        /\ Edit \subseteq PackageEdit

\* What archive::inventory() has compared of an entry, and what
\* metadata::parse() makes of a document.
Observed(e) ==
    /\ e.crc32 = Crc32(e.content)
    /\ e.content.kind = "document" => e.content.reading = Verdict(e.content.events)

ASSUME ReadAssumption == \A inv \in Found \cup Foreign : \A e \in Range(inv) : Observed(e)

\* The writer's own names are UTF-8, and so is every name a caller gives.
ASSUME TextAssumption ==
    /\ \A n \in 1 .. Ceiling(MaxEntries, Word16) - 2 :
          Range(PayloadName(n, <<>>)) \cap NotText = {}
    /\ \A request \in Request : \A a \in Range(request.attachments) :
          Range(a.file_name) \cap NotText = {}
    /\ \A edit \in Edit : \A a \in Range(edit.add) : Range(a.file_name) \cap NotText = {}

\* RepackPlan.
Source == [kind : {"preserved"}, entry : Nat, crc32 : Nat]
            \cup [kind : {"supplied"}, content : EntryContent]
Planned == [source : Source, file_name : Text, description : SUBSET Text,
            quantity : SUBSET Text, quantity_unit : SUBSET Text]
RepackPlan ==
    [preserved : Seq(Nat), changed : Seq(Nat), removed : Seq(Nat), added : Seq(Nat),
     header_fields : SUBSET HeaderField, attachments : Seq(Planned), metadata : Metadata,
     source_entries : Nat]

\* RepackError::code().
RepackCode ==
    {"repack.unsupported.metadata_missing", "repack.unsupported.root_prefix",
     "repack.unsupported.metadata_name", "repack.unsupported.marker",
     "repack.unsupported.extra_entry", "repack.unsupported.unknown_elements",
     "repack.unsupported.opaque_block", "repack.unsupported.dispatch_count",
     "repack.unsupported.attachment_reference", "repack.unsupported.attachment_entry",
     "repack.invalid.no_such_attachment", "repack.invalid.duplicate_target",
     "repack.invalid.inventory_mismatch"}

VARIABLES
    inventory,     \* the package as archive::inventory() reads it
    plan,          \* the plan that was made and not applied yet
    last,          \* what the last call returned
    origin,        \* history: the inventory and the edits `plan` was made from
    own            \* history: this crate wrote `inventory`

vars == <<inventory, plan, last, origin, own>>

-----------------------------------------------------------------------------
(* layout.rs: the layout the writer writes, or a refusal.                  *)

PayloadFile(entry, number) ==
    LET expected == PayloadName(number, <<>>)
        file == SubSeq(entry.name, Len(expected) + 1, Len(entry.name))
    IN  IF /\ IsPrefix(expected, entry.name) /\ file # <<>>
           /\ "/" \notin Range(file) /\ Range(entry.name) \cap NotText = {}
        THEN Present(file) ELSE Absent

LayoutFault(inv) ==
    LET at == The(Candidates(inv))
        name == inv[at].name
        payloads == 3 .. Len(inv)
    IN  IF Cardinality(Candidates(inv)) # 1 THEN {"repack.unsupported.metadata_missing"}
        ELSE FirstOf(
            <<When(Prefix(name) # CanonicalRoot, "repack.unsupported.root_prefix"),
              When(name # MetadataName, "repack.unsupported.metadata_name"),
              When(inv[1].name # MarkerName \/ inv[1].content # FileContent(MarkerFile),
                   "repack.unsupported.marker"),
              When(at # 2, "repack.unsupported.extra_entry"),
              When(\E i \in payloads : PayloadFile(inv[i], i - 2) = Absent,
                   "repack.unsupported.extra_entry")>>)

\* Payload, counted from 1.
PayloadCount(inv) == Len(inv) - 2
Payload(inv, number) ==
    LET entry == inv[number + 2]
    IN  [entry |-> number + 2, file_name |-> The(PayloadFile(entry, number)),
         size |-> Size(entry.content), crc32 |-> entry.crc32]

-----------------------------------------------------------------------------
(* plan.rs: what refuses a package or an edit.                             *)

\* check_reproducible().
ReproducibleChecks(m) ==
    <<When(m.unknown_elements # 0, "repack.unsupported.unknown_elements"),
      When(\/ m.receipt_present \/ m.openings_present \/ m.return_receipt_present
           \/ \E d \in Range(m.dispatches) : d.handling_instructions_unqualified,
           "repack.unsupported.opaque_block"),
      When(Len(m.dispatches) > 1, "repack.unsupported.dispatch_count")>>

\* references() and check_references().
ReferenceChecks(inv, m) ==
    LET listed == Attachments(m)
        one(i) ==
            <<When(listed[i].file_name # Payload(inv, i).file_name,
                   "repack.unsupported.attachment_entry"),
              When(\/ listed[i].number # i
                   \/ listed[i].location # PayloadLocation(i)
                   \/ listed[i].size_text # DeclaredKilobytes(Payload(inv, i).size),
                   "repack.unsupported.attachment_reference")>>
    IN  <<When(Len(listed) # PayloadCount(inv), "repack.unsupported.attachment_entry"),
          When(\E d \in Range(m.dispatches) :
                    d.declared_attachment_count # Present(Len(listed)),
               "repack.unsupported.attachment_reference")>>
        \o FlattenSeq([i \in 1 .. Min({Len(listed), PayloadCount(inv)}) |-> one(i)])

\* check_targets(): removals, then replacements.
TargetChecks(edit, attachments) ==
    LET targets == edit.remove \o [i \in DOMAIN edit.replace |-> edit.replace[i].number]
    IN  FlattenSeq([i \in DOMAIN targets |->
            <<When(targets[i] \notin 1 .. attachments, "repack.invalid.no_such_attachment"),
              When(\E j \in 1 .. i - 1 : targets[j] = targets[i],
                   "repack.invalid.duplicate_target")>>])

-----------------------------------------------------------------------------
(* plan.rs: the plan.                                                      *)

\* HeaderEdits: of each field, nothing or the value it takes; a value of an
\* optional field may be Absent.  apply(): a test that is set is there.
EditedHeader(header, edit) ==
    [f \in DOMAIN header |->
        IF f = "test_present" THEN header.test_present \/ edit.test # Absent
        ELSE IF edit[f] = Absent THEN header[f] ELSE The(edit[f])]
HeaderFields(edit) == {f \in DOMAIN edit : edit[f] # Absent}

\* is_empty().
NoEdit(edit) ==
    /\ HeaderFields(edit.header) = {}
    /\ edit.remove = <<>> /\ edit.replace = <<>> /\ edit.add = <<>>

Preserved(payload) == [kind |-> "preserved", entry |-> payload.entry, crc32 |-> payload.crc32]
Supplied(content) == [kind |-> "supplied", content |-> content]

\* build(): those that stay, in their order, and then what is added.
Kept(inv, edit) ==
    InOrder((1 .. PayloadCount(inv)) \ Range(edit.remove))
Replacements(edit, number) == {r \in Range(edit.replace) : r.number = number}
PlannedStay(inv, m, edit, number) ==
    LET reference == Attachments(m)[number]
        payload == Payload(inv, number)
        replacements == Replacements(edit, number)
    IN  [source |-> IF replacements = {} THEN Preserved(payload)
                    ELSE Supplied(The(replacements).content),
         file_name |-> payload.file_name, description |-> reference.description,
         quantity |-> reference.quantity, quantity_unit |-> reference.quantity_unit]
PlannedNew(addition) ==
    [source |-> Supplied(addition.content), file_name |-> addition.file_name,
     description |-> addition.description, quantity |-> Absent, quantity_unit |-> Absent]

NewDispatch == [declared_attachment_count |-> Absent, attachments |-> <<>>,
                attachments_present |-> FALSE, handling_instructions_unqualified |-> FALSE]
\* Faulty: the old list is left in the document.
FaultyPlacedDispatches(dispatches, attachments) ==
    [i \in DOMAIN dispatches |-> [dispatches[i] EXCEPT !.declared_attachment_count = Absent]]
\* place_dispatch(): the references and the count are left to the writer.
PlacedDispatches(dispatches, attachments) ==
    LET count == IF attachments = <<>> THEN Present(0) ELSE Absent
        given == IF attachments # <<>> /\ dispatches = <<>> THEN <<NewDispatch>> ELSE dispatches
    IN  [i \in DOMAIN given |->
            [given[i] EXCEPT !.declared_attachment_count = count, !.attachments = <<>>]]

Built(inv, m, edit) ==
    LET kept == Kept(inv, edit)
        attachments ==
            [k \in DOMAIN kept |-> PlannedStay(inv, m, edit, kept[k])]
            \o [k \in DOMAIN edit.add |-> PlannedNew(edit.add[k])]
        replaced(n) == Replacements(edit, n) # {}
    IN  [preserved |-> InOrder({n \in Range(kept) : ~replaced(n)}),
         changed |-> InOrder({n \in Range(kept) : replaced(n)}),
         removed |-> InOrder(Range(edit.remove)),
         added |-> [k \in DOMAIN edit.add |-> Len(kept) + k],
         header_fields |-> HeaderFields(edit.header),
         attachments |-> attachments,
         metadata |-> [m EXCEPT !.header = EditedHeader(@, edit.header),
                                !.dispatches = PlacedDispatches(@, attachments)],
         source_entries |-> Len(inv)]

\* check_size(): what is preserved is not looked at.
SizeChecks(built) ==
    <<When(Len(built.attachments) + 2 > Ceiling(MaxEntries, Word16),
           "create.over_limit.entries")>>
    \o [i \in DOMAIN built.attachments |->
            LET source == built.attachments[i].source
            IN  When(source.kind = "supplied" /\ Size(source.content) > Ceiling(MaxEntry, Word32),
                     "create.over_limit.entry_bytes")]

\* plan().
MakePlan(inv, edit) ==
    LET verdict == Parsed(inv[2].content)
        m == verdict.value
        fault ==
            IF LayoutFault(inv) # {} THEN LayoutFault(inv)
            ELSE IF verdict.kind = "refused" THEN verdict.codes
            ELSE IF FirstOf(ReproducibleChecks(m) \o ReferenceChecks(inv, m)) # {}
                 THEN FirstOf(ReproducibleChecks(m) \o ReferenceChecks(inv, m))
            ELSE IF FirstOf(TargetChecks(edit, PayloadCount(inv))) # {}
                 THEN FirstOf(TargetChecks(edit, PayloadCount(inv)))
            ELSE FirstOf(SizeChecks(Built(inv, m, edit)))
    IN  IF fault = {} THEN [kind |-> "planned", plan |-> Built(inv, m, edit)]
        ELSE [kind |-> "refused", codes |-> fault]

-----------------------------------------------------------------------------
(* apply().                                                                *)

\* Faulty: the checksums are not compared.
FaultySameInventory(inv, p) == Len(inv) = p.source_entries
\* inputs(): the count of entries, and the checksum of each it carries over.
SameInventory(inv, p) ==
    /\ Len(inv) = p.source_entries
    /\ \A i \in DOMAIN p.attachments :
          LET source == p.attachments[i].source
          IN  source.kind = "preserved" =>
                source.entry \in DOMAIN inv /\ inv[source.entry].crc32 = source.crc32
Inputs(inv, p) ==
    [i \in DOMAIN p.attachments |->
        LET planned == p.attachments[i]
        IN  [file_name |-> planned.file_name,
             content |-> IF planned.source.kind = "preserved"
                         THEN inv[planned.source.entry].content ELSE planned.source.content,
             description |-> planned.description, quantity |-> planned.quantity,
             quantity_unit |-> planned.quantity_unit]]

ApplyPlan(inv, p) ==
    IF SameInventory(inv, p)
    THEN Package([metadata |-> p.metadata, attachments |-> Inputs(inv, p)])
    ELSE [kind |-> "refused", code |-> "repack.invalid.inventory_mismatch"]
-----------------------------------------------------------------------------
(* Steps.                                                                  *)

\* No package: it is written where there is none.
Nothing == <<>>

Init ==
    /\ inventory \in Found \cup Foreign \cup {Nothing}
    /\ plan = Absent /\ origin = Absent /\ own = FALSE
    /\ last = [call |-> "none"]

Returned(call, kind, code) == last' = [call |-> call, kind |-> kind, code |-> code]

\* A package is written, or the inventory stays what it was.
Wrote(call, result) ==
    IF result.kind = "written"
    THEN /\ inventory' = result.inventory /\ own' = TRUE
         /\ Returned(call, "written", Absent)
    ELSE /\ Returned(call, "refused", Present(result.code))
         /\ UNCHANGED <<inventory, own>>

Create ==
    \E request \in Request :
        /\ inventory = Nothing
        /\ Wrote("create", Package(request)) /\ UNCHANGED <<plan, origin>>

\* A plan that is not applied is dropped, which leaves no trace: a second one
\* is the first one of the package it is made from.
Plan ==
    \E edit \in Edit :
        LET result == MakePlan(inventory, edit)
        IN  /\ plan = Absent
            /\ IF result.kind = "planned"
               THEN /\ plan' = Present(result.plan)
                    /\ origin' = Present([inventory |-> inventory, edit |-> edit, own |-> own])
                    /\ Returned("plan", "planned", Absent)
               ELSE /\ \E code \in result.codes : Returned("plan", "refused", Present(code))
                    /\ UNCHANGED <<plan, origin>>
            /\ UNCHANGED <<inventory, own>>

Apply ==
    \E p \in plan :
        /\ Wrote("apply", ApplyPlan(inventory, p))
        /\ plan' = Absent /\ origin' = Absent

\* Between plan() and apply(), another package is where the one was.
Exchange ==
    \E other \in Foreign :
        /\ plan # Absent
        /\ inventory' = other /\ own' = FALSE
        /\ last' = [call |-> "exchange"]
        /\ UNCHANGED <<plan, origin>>

Next == Create \/ Plan \/ Apply \/ Exchange

Spec == Init /\ [][Next]_vars
-----------------------------------------------------------------------------
(* Properties.                                                             *)

\* TypeOK: what the library returns is an inventory, a plan whose document
\* names no attachment yet, or a code.
TypeOK ==
    /\ inventory \in Inventory
    /\ plan = Absent \/ \E p \in plan :
            /\ plan = Present(p) /\ p \in RepackPlan /\ Attachments(p.metadata) = <<>>
    /\ last \in [call : {"none", "exchange"}]
                \cup [call : {"create", "plan", "apply"},
                      kind : {"written", "planned", "refused"},
                      code : SUBSET (Code \cup CreateCode \cup RepackCode)]
    /\ own \in BOOLEAN

\* What archive::inventory() accepts of an image: its limits, what its
\* records can hold, and no name twice.
Readable(inv) ==
    /\ Len(inv) <= MaxEntries /\ Len(inv) <= Word16
    /\ ImageBytes(inv) <= MaxArchive /\ ImageBytes(inv) <= Word32
    /\ DecodedTo(inv, Len(inv)) <= MaxTotal
    /\ \A e \in Range(inv) :
          /\ Len(e.name) <= MaxName /\ Size(e.content) <= MaxEntry
          /\ Size(e.content) <= Grace \/ Ratio(e) <= MaxRatio
    /\ \A i, j \in DOMAIN inv : inv[i].name = inv[j].name => i = j

\* WrittenReadsBack: whatever create::package() writes, for a request or for
\* a plan, is an archive the reader accepts; its document says exactly what
\* was written, unless it is beyond the reader's limits; no check fails
\* over it, and attachment n is entry n + 2, at the path it is declared at.
WrittenReadsBack ==
    own =>
        LET verdict == Parsed(inventory[2].content)
            report == Check(inventory)
        IN  /\ Readable(inventory)
            /\ verdict.kind = "refused" => verdict.codes \subseteq TooLarge
            /\ verdict.kind = "accepted" =>
                /\ Serialised(verdict.value) = inventory[2].content.events
                /\ Failed(report) = {}
                /\ \A n \in 1 .. Len(inventory) - 2 :
                      report.attachments[n].resolution =
                        [kind |-> "resolved", entry |-> Present(n + 2)]

\* A package below another root.
Rerooted(inv, root) ==
    [i \in DOMAIN inv |->
        IF IsPrefix(CanonicalRoot, inv[i].name)
        THEN [inv[i] EXCEPT !.name =
                root \o SubSeq(@, Len(CanonicalRoot) + 1, Len(@))]
        ELSE inv[i]]

\* A path that is below one known root when the other is taken off.
TwiceRooted(path) ==
    \E p \in Range(KnownPrefixes) \ {<<>>} : IsPrefix(p, StripKnownPrefix(path))

\* RerootingFailsNothing: which root a package is below is never a failure
\* (A19, M14): what fails nothing below KRX/OCD/ fails nothing below
\* another, whichever one root its document gives its references.
FailsNothingElsewhere(report, inv) ==
    /\ Failed(report) = {} /\ report.root_prefix = {CanonicalRoot}
    /\ \A a \in Range(report.attachments) : ~TwiceRooted(a.declared_path)
    => \A root \in Root : Failed(Check(Rerooted(inv, root))) = {}
RerootingFailsNothing == FailsNothingElsewhere(Check(inventory), inventory)

\* UnfailedIsWhole: when no check fails, the package has one document, every
\* reference names an entry, each dispatch that declares a count lists as
\* many, and two references name one entry only below different roots.
IsWhole(report) ==
    LET named(i) == report.attachments[i].resolution.entry
    IN  Failed(report) = {} =>
            \E m \in report.metadata :
                /\ Len(report.attachments) = Len(Attachments(m))
                /\ \A i \in DOMAIN report.attachments : named(i) # Absent
                /\ \A i, j \in DOMAIN report.attachments :
                      i # j /\ named(i) = named(j) =>
                        Outcome(report, "attachment_references") = Unresolved("M14")
                /\ \A d \in Range(m.dispatches) :
                      d.declared_attachment_count \subseteq {Len(d.attachments)}
UnfailedIsWhole == IsWhole(Check(inventory))

\* An apply() that wrote a package.
Applied == plan # Absent /\ last'.call = "apply" /\ last'.kind = "written"

\* What became of attachment n, under the edit it was planned with.
Position(edit, n) == n - Cardinality({r \in Range(edit.remove) : r < n})
Stays(from, to, edit, n) ==
    LET at == Position(edit, n)
        before == Attachments(Parsed(from[2].content).value)[n]
        after == Attachments(Parsed(to[2].content).value)[at]
        given == {r.content : r \in {r \in Range(edit.replace) : r.number = n}}
    IN  /\ PayloadFile(to[at + 2], at) = PayloadFile(from[n + 2], n)
        /\ after = [before EXCEPT !.number = at, !.location = PayloadLocation(at),
                                  !.size_text = DeclaredKilobytes(Size(to[at + 2].content)),
                                  !.size_value = TRUE]
        /\ IF given = {} THEN to[at + 2].crc32 = from[n + 2].crc32
           ELSE to[at + 2].content = The(given)

\* That `to` is what plan p, made from package `from`, makes of package `at`.
AsPlanned(p, edit, from, at, to) ==
    LET numbers == 1 .. Len(from) - 2
        stay == numbers \ Range(edit.remove)
    IN  /\ Range(p.preserved) \cup Range(p.changed) = stay
        /\ Range(p.removed) = numbers \ stay
        /\ Range(p.changed) = {r.number : r \in Range(edit.replace)}
        /\ Range(p.preserved) \cap Range(p.changed) = {}
        /\ Len(to) = 2 + Cardinality(stay) + Len(edit.add)
        /\ \A k \in DOMAIN edit.add :
              to[p.added[k] + 2] =
                Entry(PayloadName(p.added[k], edit.add[k].file_name), edit.add[k].content)
        /\ Parsed(to[2].content).kind = "accepted" =>
              \A n \in stay : Stays(from, to, edit, n)
        /\ at = from =>
              \A n \in Range(p.preserved) :
                  to[Position(edit, n) + 2].content = from[n + 2].content

\* ApplyIsThePlan: what apply() writes is what the plan said of the package
\* it was made from.  Each attachment was in exactly one of its three lists;
\* those not removed keep their order, name and description, and their bytes
\* when they are not replaced, whatever package apply() was given (bytes of
\* the same checksum in another package, the same bytes in the same one);
\* what is added stands behind them under the numbers the plan gave.
ApplyIsThePlan ==
    [][Applied =>
        AsPlanned(The(plan), The(origin).edit, The(origin).inventory, inventory, inventory')]_vars

\* What a plan may be refused for that is the edit's fault.
EditCodes == {"repack.invalid.no_such_attachment", "repack.invalid.duplicate_target",
              "create.over_limit.entries", "create.over_limit.entry_bytes"}

\* NoEditIsIdentity: an edit that asks for nothing gives a package with the
\* same entries whose document means the same.  Of a package this crate
\* wrote it gives the very package; and none of those is refused, under any
\* edit, for what it is, but one whose document has a block the reader does
\* not look into, or is beyond the reader's limits.
NoEditIsIdentity ==
    [][/\ (own /\ last'.call = "plan" /\ last'.kind = "refused") =>
            last'.code \subseteq
                EditCodes \cup TooLarge \cup {"repack.unsupported.opaque_block"}
       /\ (Applied /\ inventory = The(origin).inventory /\ NoEdit(The(origin).edit)) =>
            /\ Len(inventory') = Len(inventory)
            /\ Parsed(inventory'[2].content) = Parsed(inventory[2].content)
            /\ \A i \in DOMAIN inventory \ {2} :
                  inventory'[i].name = inventory[i].name
                  /\ inventory'[i].content = inventory[i].content
            /\ own => inventory' = inventory]_vars

\* EveryWordIsKept, the words of repack/mod.rs:21 and :43: what the writer
\* cannot emit again is "refused ... rather than dropped", and "repacking
\* with no edit must produce the package it was given".
Words(inv) == UNION {Range(e.pieces) : e \in {e \in Range(inv[2].content.events) : IsText(e)}}
EveryWordIsKept ==
    [][(Applied /\ inventory = The(origin).inventory /\ NoEdit(The(origin).edit)) =>
            Words(inventory) \subseteq Words(inventory') \cup Space]_vars
=============================================================================
