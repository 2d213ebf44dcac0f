------------------------------- MODULE Creation -------------------------------
(***************************************************************************)
(* create::package(): openkrx-core/src/create, a request to one image.     *)
(*                                                                         *)
(* It is a function of the request, so it is one here: the refusals in the *)
(* order the code looks for them, and the entries it writes when there is  *)
(* none.  Packages calls it, for a new package and for a repacked one.     *)
(*                                                                         *)
(* Lengths are counted in pieces, events and units of a file's bytes; the  *)
(* limits are small enough for each to be met.                             *)
(***************************************************************************)
EXTENDS Profile, DocumentWriter

CONSTANTS
    Unsafe,        \* the file names of one component check_entry_name() refuses, and as what
    Packed,        \* the deflated length of each file
    Crc,           \* and its CRC-32
    Kilobyte,
    RecordBytes,   \* of the two headers of an entry, without its name
    EndBytes,      \* of the end record
    Word16, Word32,\* the largest numbers the records' fields hold
    MaxArchive, MaxEntries, MaxName, MaxEntry, MaxTotal, MaxRatio, Grace  \* Limits

ASSUME CreationAssumption ==
    /\ {Kilobyte, RecordBytes, EndBytes, Word16, Word32, MaxArchive, MaxEntries, MaxName,
        MaxEntry, MaxTotal, MaxRatio, Grace} \subseteq Nat
    /\ Kilobyte > 0
    /\ Packed \in [File -> Nat] /\ Crc \in [File -> Nat]

\* AttachmentInput and PackageSpec.
Attachment == [file_name : Text, content : EntryContent, description : SUBSET Text,
               quantity : SUBSET Text, quantity_unit : SUBSET Text]
PackageSpec == [metadata : Metadata, attachments : Seq(Attachment)]

\* PackageError::code().
CreateCode ==
    {"create.invalid.reference_mismatch", "create.invalid.dispatch_count",
     "create.invalid.text", "create.invalid.untrimmed_text", "create.invalid.unknown_elements",
     "create.over_limit.entries", "create.over_limit.name_bytes",
     "create.over_limit.entry_bytes", "create.over_limit.total_bytes",
     "create.over_limit.compression_ratio", "create.over_limit.archive_bytes",
     "create.unsafe_name.empty", "create.unsafe_name.separator",
     "create.unsafe_name.current_component", "create.unsafe_name.parent_component",
     "create.unsafe_name.control_character", "create.unsafe_name.trailing_dot",
     "create.unsafe_name.trailing_space", "create.unsafe_name.leading_space",
     "create.unsafe_name.reserved_device_name", "create.unsafe_name.colon",
     "create.unsafe_name.reserved_character"}

ASSUME UnsafeAssumption == Unsafe \in [DOMAIN Unsafe -> CreateCode]

\* Where something is wrong first, the codes that stand there.
FirstOf(checks) ==
    LET wrong == {i \in DOMAIN checks : checks[i] # {}}
    IN  IF wrong = {} THEN {} ELSE checks[Min(wrong)]

-----------------------------------------------------------------------------
(* The layout.                                                             *)

MarkerName == CanonicalRoot \o Mimetype
MetadataName == CanonicalRoot \o Metalayer \o <<"/">> \o MetadataFile

\* payload_location(), counted from 1.
PayloadLocation(number) == CanonicalRoot \o <<"Payload", "/", "ID-">> \o Decimal[number]
PayloadName(number, file_name) == PayloadLocation(number) \o <<"/">> \o file_name

\* declared_kilobytes(): rounded up.
DeclaredKilobytes(bytes) == Decimal[(bytes + Kilobyte - 1) \div Kilobyte]

Ceiling(limit, word) == Min({limit, word})

\* The words of the layout are texts, and a place is not the metadata's.
ASSUME LayoutAssumption ==
    /\ Range(MarkerName) \cup Range(MetadataName) \cup {"Payload", "ID-"} \subseteq Piece
    /\ Fold["ID-"] # Fold["Metalayer"]

\* The numbers of a package within the limits are texts; the reader reads and
\* leaves them as they are, and a number is one component of a path.
ASSUME NumbersAssumption ==
    /\ \A n \in 0 .. Ceiling(MaxEntries, Word16) - 2 :
          /\ Decimal[n] \in Text /\ Decimal[n] \in DOMAIN Numeral /\ Numeral[Decimal[n]] = n
          /\ Trim(Decimal[n]) = Decimal[n] /\ "/" \notin Range(Decimal[n])
    /\ \A bytes \in 0 .. Ceiling(MaxEntry, Word32) :
          DeclaredKilobytes(bytes) \in Text \cap Finite

-----------------------------------------------------------------------------
(* names.rs.                                                               *)

Separators == {"/", "\\"}
NameFault(file_name) ==
    CASE file_name = <<>> -> {"create.unsafe_name.empty"}
      [] Range(file_name) \cap Separators # {} -> {"create.unsafe_name.separator"}
      [] file_name \in DOMAIN Unsafe -> {Unsafe[file_name]}
      [] OTHER -> {}

-----------------------------------------------------------------------------
(* spec.rs: the document that is written.                                  *)

\* derive_references().
References(attachments) ==
    [i \in DOMAIN attachments |->
        LET a == attachments[i]
            size_text == DeclaredKilobytes(Size(a.content))
        IN  [description |-> a.description, number |-> i, file_name |-> a.file_name,
             size_text |-> size_text, size_value |-> size_text \in Finite,
             location |-> PayloadLocation(i), quantity |-> a.quantity,
             quantity_unit |-> a.quantity_unit]]

\* Faulty: the container is always written.
FaultyPlaced(dispatch, references) ==
    [dispatch EXCEPT !.declared_attachment_count = Present(Len(references)),
                     !.attachments = references, !.attachments_present = TRUE]
\* place(): the container is there as soon as there is something to put in it.
Placed(dispatch, references) ==
    [dispatch EXCEPT !.declared_attachment_count = Present(Len(references)),
                     !.attachments = references,
                     !.attachments_present = @ \/ references # <<>>]
Mismatch(dispatch, references) ==
    \/ dispatch.attachments \notin {<<>>, references}
    \/ ~(dispatch.declared_attachment_count \subseteq {Len(references)})

\* derive(), when it refuses nothing.
Derived(spec) ==
    IF spec.metadata.dispatches = <<>> THEN spec.metadata
    ELSE [spec.metadata EXCEPT !.dispatches[1] = Placed(@, References(spec.attachments))]

DeriveChecks(spec) ==
    LET m == spec.metadata
    IN  <<When(m.unknown_elements # 0, "create.invalid.unknown_elements")>>
        \o [i \in DOMAIN spec.attachments |-> NameFault(spec.attachments[i].file_name)]
        \o <<When(Len(m.dispatches) # 1 /\ (m.dispatches # <<>> \/ spec.attachments # <<>>),
                  "create.invalid.dispatch_count"),
              When(\E d \in Range(m.dispatches) : Mismatch(d, References(spec.attachments)),
                   "create.invalid.reference_mismatch")>>

-----------------------------------------------------------------------------
(* zip.rs and the limits of mod.rs.                                        *)

\* prepare(): the marker is stored; a document is taken not to get shorter.
PackedSize(content) ==
    IF content.kind = "file" /\ content.file # MarkerFile THEN Packed[content.file]
    ELSE Size(content)
\* The checksum of a document is never compared.
Crc32(content) == IF content.kind = "file" THEN Crc[content.file] ELSE 0
Entry(name, content) ==
    [name |-> name, content |-> content, packed |-> PackedSize(content),
     crc32 |-> Crc32(content)]

Entries(spec) ==
    <<Entry(MarkerName, FileContent(MarkerFile)),
      Entry(MetadataName, DocumentContent(Serialised(Derived(spec))))>>
    \o [i \in DOMAIN spec.attachments |->
            Entry(PayloadName(i, spec.attachments[i].file_name), spec.attachments[i].content)]

DecodedTo(entries, i) ==
    LET upTo[k \in 0 .. Len(entries)] ==
            IF k = 0 THEN 0 ELSE upTo[k - 1] + Size(entries[k].content)
    IN  upTo[i]

\* check_limits(): the count, then the entries one by one.
LimitChecks(entries) ==
    <<When(Len(entries) > Ceiling(MaxEntries, Word16), "create.over_limit.entries")>>
    \o FlattenSeq([i \in DOMAIN entries |->
        <<When(Len(entries[i].name) > MaxName, "create.over_limit.name_bytes"),
          When(Size(entries[i].content) > Ceiling(MaxEntry, Word32),
               "create.over_limit.entry_bytes"),
          When(DecodedTo(entries, i) > MaxTotal, "create.over_limit.total_bytes")>>])

\* check_ratios(): the reader's rule, on the reader's numbers.
Ratio(entry) == Size(entry.content) \div Max({entry.packed, 1})
RatioChecks(entries) ==
    [i \in DOMAIN entries |->
        When(Size(entries[i].content) > Grace /\ Ratio(entries[i]) > MaxRatio,
             "create.over_limit.compression_ratio")]

ImageBytes(entries) ==
    LET bytes(e) == RecordBytes + 2 * Len(e.name) + e.packed
        upTo[k \in 0 .. Len(entries)] ==
            IF k = 0 THEN EndBytes ELSE upTo[k - 1] + bytes(entries[k])
    IN  upTo[Len(entries)]

\* package(): what is wrong first, or the entries of the image.
Judged(spec, entries) ==
    LET fault ==
            IF FirstOf(DeriveChecks(spec)) # {} THEN FirstOf(DeriveChecks(spec))
            ELSE FirstOf(TextChecks(Derived(spec)) \o LimitChecks(entries)
                         \o RatioChecks(entries)
                         \o <<When(ImageBytes(entries) > Ceiling(MaxArchive, Word32),
                                   "create.over_limit.archive_bytes")>>)
    IN  IF fault = {} THEN [kind |-> "written", inventory |-> entries]
        ELSE [kind |-> "refused", code |-> The(fault)]
Package(spec) == Judged(spec, Entries(spec))
=============================================================================
