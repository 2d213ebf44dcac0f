-------------------------------- MODULE Profile --------------------------------
(***************************************************************************)
(* The structural checks of openkrx-core/src/profile over the inventory of *)
(* a package: mod.rs, locate.rs, references.rs and report.rs.              *)
(*                                                                         *)
(* check() changes nothing, so it is a function here: the report it gives  *)
(* is read by the invariants of Packages in every state.  An inventory is  *)
(* the sequence of its entries; an entry has a name, which is a text with  *)
(* "/" as a piece, and what it decodes to.                                 *)
(***************************************************************************)
EXTENDS Documents

CONSTANTS
    Fold,          \* what eq_ignore_ascii_case compares of a piece
    File,          \* what the bytes that are no document may be
    MarkerFile,    \* the one that is application/OCD+ZIP
    FileSize       \* the length of each

ASSUME ProfileAssumption == MarkerFile \in File /\ FileSize \in [File -> Nat]

\* A document goes with what metadata::parse() makes of it.
Reading == [kind : {"accepted"}, value : Metadata]
               \cup [kind : {"refused"}, codes : (SUBSET Code) \ {{}}]
EntryContent == [kind : {"file"}, file : File]
                    \cup [kind : {"document"}, events : Seq(Event), reading : Reading]
FileContent(f) == [kind |-> "file", file |-> f]
DocumentContent(d) == [kind |-> "document", events |-> d, reading |-> Verdict(d)]

\* ArchiveEntry::decoded_size(); of a document in events, as MaxDocument is.
Size(content) ==
    IF content.kind = "file" THEN FileSize[content.file] ELSE Len(content.events)

\* metadata::parse() of an entry's bytes; what is no document is no XML.
Parsed(content) ==
    IF content.kind = "document" THEN content.reading
    ELSE [kind |-> "refused", codes |-> {"malformed.syntax"}]

-----------------------------------------------------------------------------
(* Entry names.                                                            *)

Metalayer == <<"Metalayer">>
MetadataFile == <<"KULDEMENY_META.xml">>
Mimetype == <<"mimetype">>
CanonicalRoot == <<"KRX", "/", "OCD", "/">>
KnownPrefixes == <<CanonicalRoot, <<"OCD", "/">>, <<"KRX", "/">>, <<>>>>

Folded(name) == [i \in DOMAIN name |-> Fold[name[i]]]
LastSlash(name) == Max({i \in DOMAIN name : name[i] = "/"} \cup {0})
LastSegment(name) == SubSeq(name, LastSlash(name) + 1, Len(name))
Directory(name) == SubSeq(name, 1, LastSlash(name) - 1)

-----------------------------------------------------------------------------
(* locate.rs.                                                              *)

Candidate(name) ==
    /\ LastSlash(name) # 0
    /\ Folded(LastSegment(name)) = Folded(MetadataFile)
    /\ Folded(LastSegment(Directory(name))) = Folded(Metalayer)
\* Everything before Metalayer/.
Prefix(name) == SubSeq(name, 1, LastSlash(Directory(name)))
CanonicalName(name) ==
    LastSegment(name) = MetadataFile /\ LastSegment(Directory(name)) = Metalayer

Candidates(inventory) == {i \in DOMAIN inventory : Candidate(inventory[i].name)}
Located(inventory) ==
    IF Cardinality(Candidates(inventory)) = 1 THEN Candidates(inventory) ELSE Absent

\* find_marker(): the first entry when it has exactly the name.
FindMarker(inventory) ==
    LET shaped == {i \in DOMAIN inventory : LastSegment(inventory[i].name) = Mimetype}
        exact == {i \in DOMAIN inventory \cap {1} : inventory[i].name = Mimetype}
    IN  IF exact # {} THEN exact ELSE IF shaped = {} THEN Absent ELSE Present(Min(shaped))

Marker(inventory) ==
    LET marker == FindMarker(inventory)
        entry == inventory[The(marker)]
    IN  CASE marker = Absent -> "missing"
          [] marker # Absent /\ entry.name # Mimetype -> "prefixed"
          [] marker # Absent /\ entry.name = Mimetype /\ marker # {1} -> "not_first"
          [] OTHER ->
                IF entry.content = FileContent(MarkerFile) THEN "matching"
                ELSE "content_mismatch"

-----------------------------------------------------------------------------
(* references.rs.                                                          *)

IndexOf(inventory, name) ==
    LET named == {i \in DOMAIN inventory : inventory[i].name = name}
    IN  IF named = {} THEN Absent ELSE Present(Min(named))

\* The longest one goes.
StripKnownPrefix(path) ==
    LET fits == {Len(p) : p \in {p \in Range(KnownPrefixes) : IsPrefix(p, path)}}
    IN  SubSeq(path, Max(fits) + 1, Len(path))

\* Faulty: the three documented roots only.
FaultyPrefixesToTry(root) == KnownPrefixes
\* prefixes(): the observed one, then those known; to try one twice finds nothing more.
PrefixesToTry(root) == <<root>> \o KnownPrefixes

ResolvePath(inventory, path, root) ==
    LET tries == PrefixesToTry(root)
        variant(k) == tries[k] \o StripKnownPrefix(path)
        hits == {k \in DOMAIN tries :
                    variant(k) # path /\ IndexOf(inventory, variant(k)) # Absent}
    IN  IF IndexOf(inventory, path) # Absent
        THEN [kind |-> "resolved", entry |-> IndexOf(inventory, path)]
        ELSE IF hits # {}
             THEN [kind |-> "variant", entry |-> IndexOf(inventory, variant(Min(hits)))]
             ELSE [kind |-> "missing", entry |-> Absent]

\* resolve() and one(): declared and observed side by side, never compared.
Resolve(inventory, metadata, root) ==
    LET one(a) ==
            LET resolution == ResolvePath(inventory, DeclaredPath(a), root)
            IN  [number |-> a.number, declared_path |-> DeclaredPath(a),
                 resolution |-> resolution, declared_size_text |-> a.size_text,
                 declared_size_value |-> a.size_value,
                 observed_size |-> {Size(inventory[i].content) : i \in resolution.entry}]
        references == Attachments(metadata)
    IN  [i \in DOMAIN references |-> one(references[i])]

\* Faulty: only the numbers are compared.
FaultyHasDuplicate(attachments) ==
    \E i, j \in DOMAIN attachments : i < j /\ attachments[i].number = attachments[j].number
HasDuplicate(attachments) ==
    \E i, j \in DOMAIN attachments :
        /\ i < j
        /\ \/ attachments[i].number = attachments[j].number
           \/ attachments[i].declared_path = attachments[j].declared_path

\* count_agrees(): Absent when no dispatch declares a count.
CountAgrees(metadata) ==
    LET counted == {i \in DOMAIN metadata.dispatches :
                        metadata.dispatches[i].declared_attachment_count # Absent}
    IN  IF counted = {} THEN Absent
        ELSE Present(\A i \in counted :
                        metadata.dispatches[i].declared_attachment_count
                            = {Len(metadata.dispatches[i].attachments)})

-----------------------------------------------------------------------------
(* mod.rs and report.rs.                                                   *)

Pass == [kind |-> "pass"]
NotApplicable == [kind |-> "not_applicable"]
Fail(codes) == [kind |-> "fail", codes |-> codes]      \* one of these
Unresolved(rule) == [kind |-> "unresolved", rule |-> rule]

Order == <<"metadata_location", "metadata_file_name", "root_prefix", "marker_entry",
           "metadata_parse", "schema_optional_fields", "handling_instructions_form",
           "attachment_references", "attachment_count", "attachment_uniqueness",
           "declared_size">>

LocationOutcome(inventory) ==
    CASE Candidates(inventory) = {} -> Fail({"metadata.missing"})
      [] Cardinality(Candidates(inventory)) > 1 ->
            Fail({"metadata.ambiguous.multiple_candidates"})
      [] OTHER -> Pass

MarkerOutcome(inventory) ==
    [matching |-> Pass, prefixed |-> Unresolved("A19"),
     content_mismatch |-> Fail({"metadata.malformed.marker_content"}),
     not_first |-> Fail({"metadata.malformed.marker_not_first"}),
     missing |-> Fail({"metadata.malformed.marker_missing"})][Marker(inventory)]

\* schema_optional_fields_complete(): what M11 shows an example omitting.
Complete(metadata) ==
    /\ metadata.header.test_present
    /\ \A a \in Range(Attachments(metadata)) : a.description # Absent /\ a.size_value

ReferenceOutcome(attachments) ==
    LET kinds == {a.resolution.kind : a \in Range(attachments)}
    IN  CASE kinds = {} -> NotApplicable
          [] "missing" \in kinds -> Fail({"metadata.reference.missing_entry"})
          [] kinds = {"resolved"} -> Pass
          [] OTHER -> Unresolved("M14")

\* record_document_checks().
DocumentOutcome(metadata, attachments, id) ==
    LET agrees == CountAgrees(metadata)
    IN  CASE id = "schema_optional_fields" ->
                IF Complete(metadata) THEN Pass ELSE Unresolved("M11")
          [] id = "handling_instructions_form" ->
                IF \E d \in Range(metadata.dispatches) : d.handling_instructions_unqualified
                THEN Pass ELSE NotApplicable
          [] id = "attachment_references" -> ReferenceOutcome(attachments)
          [] id = "attachment_count" /\ agrees # Absent ->
                IF The(agrees) THEN Pass ELSE Fail({"metadata.count_mismatch"})
          [] id = "attachment_uniqueness" /\ attachments # <<>> ->
                IF HasDuplicate(attachments) THEN Fail({"metadata.reference.duplicate"})
                ELSE Pass
          [] id = "declared_size" /\ attachments # <<>> -> Unresolved("M13")
          [] OTHER -> NotApplicable

IsRead(verdict) == \E v \in verdict : v.kind = "accepted"

\* A check without its input is not applicable.
CheckOutcome(inventory, located, verdict, attachments, id) ==
    LET name == inventory[The(located)].name
        read == IsRead(verdict)
    IN  CASE id = "metadata_location" -> LocationOutcome(inventory)
          [] id = "marker_entry" -> MarkerOutcome(inventory)
          [] id = "metadata_file_name" /\ located # Absent ->
                IF CanonicalName(name) THEN Pass ELSE Unresolved("M12")
          [] id = "root_prefix" /\ located # Absent ->
                IF Prefix(name) = CanonicalRoot THEN Pass ELSE Unresolved("A19")
          [] id = "metadata_parse" /\ located # Absent ->
                IF read THEN Pass ELSE Fail(The(verdict).codes)
          [] OTHER ->
                IF read THEN DocumentOutcome(The(verdict).value, attachments, id)
                ELSE NotApplicable

Report(inventory, located, verdict) ==
    LET root == Prefix(inventory[The(located)].name)
        metadata == The(verdict).value
        attachments == IF IsRead(verdict) THEN Resolve(inventory, metadata, root) ELSE <<>>
    IN  [checks |-> [i \in DOMAIN Order |->
                        [id |-> Order[i],
                         outcome |-> CheckOutcome(inventory, located, verdict, attachments,
                                                  Order[i])]],
         root_prefix |-> IF located = Absent THEN Absent ELSE Present(root),
         attachments |-> attachments,
         metadata |-> IF IsRead(verdict) THEN Present(metadata) ELSE Absent]

\* check().
Check(inventory) ==
    Report(inventory, Located(inventory),
           {Parsed(inventory[i].content) : i \in Located(inventory)})

\* StructureReport::outcome() and summary().
Outcome(report, id) == (CHOOSE c \in Range(report.checks) : c.id = id).outcome
Failed(report) == {c.id : c \in {c \in Range(report.checks) : c.outcome.kind = "fail"}}
Summary(report) ==
    LET kinds == {c.outcome.kind : c \in Range(report.checks)}
    IN  IF "fail" \in kinds THEN "inconsistent"
        ELSE IF "unresolved" \in kinds THEN "unresolved" ELSE "consistent"
=============================================================================
