------------------------------ MODULE Inventory ------------------------------
(***************************************************************************)
(* The archive inventory: openkrx-core/src/archive/.                       *)
(*                                                                         *)
(* inventory() finds the one end record, reads the central records, checks *)
(* each against the local header it points at, walks the regions they      *)
(* claim in order of their start, and decodes every entry; entry_bytes()   *)
(* decodes one again.  One action is one turn of one of these loops.       *)
(*                                                                         *)
(* An image is a sequence of cells, its positions counted from 0.  A cell  *)
(* is the head of a record, with the fields the reader uses, or content.   *)
(* The reader goes by position alone: what it finds where an offset leads  *)
(* is whatever cell lies there.  A stored entry decodes one unit from each *)
(* cell, a deflated one what the head of its stream says, in pieces the    *)
(* decoder chooses.                                                        *)
(***************************************************************************)
EXTENDS Naturals, Sequences, FiniteSets, Functions

CONSTANTS
    Name,          \* entry names
    Fold,          \* fold_name(): the key names collide by
    NameFlaw,      \* check_name(): the class a name violates, or "none"
    Slash,         \* the names that end in a separator
    LocalWidth, CentralWidth, EndWidth,              \* of the records, in cells
    MaxArchive, MaxEntries, MaxComment,              \* Limits
    MaxEntry, MaxTotal, MaxRatio, Grace, Buffer,     \* Limits, of decoded units
    Image          \* the images to read

Method == {"stored", "deflate"}

\* What a central record may show before its name is looked at.
RecordFlaws == {"none", "encryption", "patched_data", "method", "multi_disk",
                "zip64", "name_bytes", "extra_field_bytes", "comment_bytes"}

\* check_name()'s classes, but for the one that also looks at the content.
NameFlaws == {"none", "empty", "control_byte", "backslash", "absolute_path",
              "drive_prefix", "parent_component"}

\* `described` is the flag of a data descriptor, `packed` and `size` are the
\* compressed and the uncompressed size, `at` is an offset.
LocalCell ==
    [kind : {"local"}, flaw : {"none", "extra_field_bytes"}, name : Name,
     method : Method, described : BOOLEAN, crc : Nat, packed : Nat, size : Nat]
CentralCell ==
    [kind : {"central"}, flaw : RecordFlaws, name : Name, method : Method,
     described : BOOLEAN, crc : Nat, packed : Nat, size : Nat, at : Nat]
EndCell ==
    [kind : {"end"}, flaw : {"none", "multi_disk", "zip64"}, entries : Nat,
     bytes : Nat, at : Nat, comment : Nat]
DescriptorCell == [kind : {"descriptor"}, crc : Nat, packed : Nat, size : Nat]

\* The head of a deflate stream of `cells` cells; `ends` is FALSE of one that
\* is corrupt.
StreamCell ==
    [kind : {"stream"}, cells : Nat, ends : BOOLEAN, yields : Nat, crc : Nat]
PlainCell == [kind : {"data", "locator"}, bit : {0, 1}]

Cell == LocalCell \cup CentralCell \cup EndCell \cup DescriptorCell
            \cup StreamCell \cup PlainCell

ASSUME NameAssumption ==
    /\ DOMAIN Fold = Name
    /\ NameFlaw \in [Name -> NameFlaws]

ASSUME LimitAssumption ==
    /\ {LocalWidth, CentralWidth, EndWidth, Buffer} \subseteq Nat \ {0}
    /\ {MaxArchive, MaxEntries, MaxComment, MaxEntry, MaxTotal, MaxRatio, Grace}
            \subseteq Nat

ASSUME ImageAssumption == Image \subseteq Seq(Cell)

VARIABLES
    image,     \* the bytes to read
    phase,     \* the loop that runs: "end", "records", "locals", "cover",
               \* "decode", "again"; or "done" or "refused"
    end,       \* the position of the end record
    records,   \* the central records so far
    layouts,   \* the ranges of the image their entries claim
    walked,    \* the entries check_coverage has passed
    cursor,    \* where the next region must start
    sizes,     \* the decoded sizes so far
    total,     \* total_decoded_bytes
    decoded,   \* units the running decode has produced
    again,     \* the entry entry_bytes decodes, or 0
    refusal    \* the ArchiveError, its code and its entry

vars == <<image, phase, end, records, layouts, walked, cursor, sizes, total,
          decoded, again, refusal>>

parsed == <<image, end, records, layouts>>

NoRefusal == [code |-> "none", entry |-> 0]

Init ==
    /\ image \in Image
    /\ phase = "end"
    /\ end = 0
    /\ records = <<>>
    /\ layouts = <<>>
    /\ walked = {}
    /\ cursor = 0
    /\ sizes = <<>>
    /\ total = 0
    /\ decoded = 0
    /\ again = 0
    /\ refusal = NoRefusal

Refuse(code, entry) ==
    /\ phase' = "refused"
    /\ refusal' = [code |-> code, entry |-> entry]

Size == Len(image)
At(p) == image[p + 1]

-----------------------------------------------------------------------------
(* The end record.                                                         *)

Signatures == {p \in 0 .. Size - 1 : At(p).kind = "end"}

\* A candidate fits, and its comment ends where the image ends.
Terminals == {p \in Signatures : p + EndWidth + At(p).comment = Size}

\* eocd::parse(), of the candidate at p.
EndFault(p) ==
    LET e == At(p) IN
    IF p > 0 /\ At(p - 1).kind = "locator" THEN "zip64"
    ELSE IF e.flaw # "none" THEN e.flaw
    ELSE IF e.comment > MaxComment THEN "comment_bytes"
    ELSE IF e.entries > MaxEntries THEN "entries"
    ELSE IF e.at + e.bytes # p THEN "central_directory_placement"
    ELSE "none"

\* The first thing that is wrong with the image as a whole.
SearchFault ==
    IF Size > MaxArchive THEN "archive_bytes"
    ELSE IF Cardinality(Terminals) > 1 THEN "ambiguous_eocd"
    ELSE IF Terminals = {} /\ Signatures # {} THEN "trailing_bytes"
    ELSE IF Terminals = {} THEN "eocd_missing"
    ELSE EndFault(CHOOSE p \in Terminals : TRUE)

RefuseEnd ==
    /\ phase = "end"
    /\ SearchFault # "none"
    /\ Refuse(SearchFault, 0)
    /\ UNCHANGED <<parsed, walked, cursor, sizes, total, decoded, again>>

FindEnd ==
    /\ phase = "end"
    /\ SearchFault = "none"
    /\ end' \in Terminals
    /\ phase' = "records"
    /\ UNCHANGED <<image, records, layouts, walked, cursor, sizes, total, decoded,
                   again, refusal>>

DirectoryStart == At(end).at
Declared == At(end).entries

-----------------------------------------------------------------------------
(* The central records.                                                    *)

\* A record by itself, as parse_one() looks at it.
RecordFault(r) ==
    IF r.flaw # "none" THEN r.flaw
    ELSE IF NameFlaw[r.name] # "none" THEN NameFlaw[r.name]
    ELSE IF r.name \in Slash /\ (r.size # 0 \/ r.packed # 0)
         THEN "directory_with_data"
    ELSE IF r.method = "stored" /\ r.packed # r.size
         THEN "declared_size_mismatch"
    ELSE IF r.packed > Size THEN "truncated"
    ELSE "none"

Place == DirectoryStart + Len(records) * CentralWidth

\* What the cursor of parse() meets at its place in the directory.
PlaceFault ==
    IF Place = end THEN "central_directory_count"
    ELSE IF Place < end /\ At(Place).kind # "central" THEN "record_signature"
    ELSE IF Place + CentralWidth > end THEN "truncated"
    ELSE IF RecordFault(At(Place)) # "none" THEN RecordFault(At(Place))
    ELSE IF \E i \in DOMAIN records : records[i].name = At(Place).name
         THEN "duplicate_name"
    ELSE IF \E i \in DOMAIN records : Fold[records[i].name] = Fold[At(Place).name]
         THEN "case_folded_duplicate_name"
    ELSE "none"

RefuseRecord ==
    /\ phase = "records"
    /\ Len(records) < Declared
    /\ PlaceFault # "none"
    /\ Refuse(PlaceFault, Len(records) + 1)
    /\ UNCHANGED <<parsed, walked, cursor, sizes, total, decoded, again>>

ReadRecord ==
    /\ phase = "records"
    /\ Len(records) < Declared
    /\ PlaceFault = "none"
    /\ records' = Append(records, At(Place))
    /\ UNCHANGED <<image, phase, end, layouts, walked, cursor, sizes, total, decoded,
                   again, refusal>>

RefuseRest ==
    /\ phase = "records"
    /\ Len(records) = Declared
    /\ Place # end
    /\ Refuse("central_directory_size", 0)
    /\ UNCHANGED <<parsed, walked, cursor, sizes, total, decoded, again>>

RecordsEnd ==
    /\ phase = "records"
    /\ Len(records) = Declared
    /\ Place = end
    /\ phase' = "locals"
    /\ UNCHANGED <<parsed, walked, cursor, sizes, total, decoded, again, refusal>>

-----------------------------------------------------------------------------
(* The local headers.                                                      *)

Values(c) == <<c.crc, c.packed, c.size>>

\* The values are not compared where a descriptor repeats them.
FaultyAgrees(h, r) ==
    /\ h.described = r.described
    /\ h.method = r.method
    /\ h.name = r.name
    /\ Values(h) = Values(r) \/ r.described

\* What local::verify() accepts of the header h under the record r.
Agrees(h, r) ==
    /\ h.described = r.described
    /\ h.method = r.method
    /\ h.name = r.name
    /\ Values(h) = Values(r) \/ (r.described /\ Values(h) = <<0, 0, 0>>)

\* The ranges the entry of the record r claims.
Claim(r) ==
    LET data == r.at + LocalWidth IN
    [start |-> r.at, data |-> data, stop |-> data + r.packed,
     region |-> data + r.packed + (IF r.described THEN 1 ELSE 0)]

DescriptorFault(r) ==
    LET p == Claim(r).stop IN
    IF p >= Size THEN "truncated"
    ELSE IF At(p).kind # "descriptor" THEN "data_descriptor_mismatch"
    ELSE IF Values(At(p)) # Values(r) THEN "data_descriptor_mismatch"
    ELSE "none"

LocalFault(r) ==
    IF r.at >= Size THEN "truncated"
    ELSE IF At(r.at).kind # "local" THEN "record_signature"
    ELSE IF r.at + LocalWidth > Size THEN "truncated"
    ELSE IF At(r.at).flaw # "none" THEN At(r.at).flaw
    ELSE IF ~Agrees(At(r.at), r) THEN "local_header_mismatch"
    ELSE IF Claim(r).stop > Size THEN "truncated"
    ELSE IF r.described THEN DescriptorFault(r) ELSE "none"

Unverified == records[Len(layouts) + 1]

RefuseLocal ==
    /\ phase = "locals"
    /\ Len(layouts) < Len(records)
    /\ LocalFault(Unverified) # "none"
    /\ Refuse(LocalFault(Unverified), Len(layouts) + 1)
    /\ UNCHANGED <<parsed, walked, cursor, sizes, total, decoded, again>>

VerifyLocal ==
    /\ phase = "locals"
    /\ Len(layouts) < Len(records)
    /\ LocalFault(Unverified) = "none"
    /\ layouts' = Append(layouts, Claim(Unverified))
    /\ UNCHANGED <<image, phase, end, records, walked, cursor, sizes, total, decoded,
                   again, refusal>>

LocalsEnd ==
    /\ phase = "locals"
    /\ Len(layouts) = Len(records)
    /\ phase' = "cover"
    /\ UNCHANGED <<parsed, walked, cursor, sizes, total, decoded, again, refusal>>

-----------------------------------------------------------------------------
(* The cover of the image.                                                 *)

\* The regions in order of their start: the next one is the first of the rest.
IsNext(i) ==
    /\ i \in DOMAIN layouts \ walked
    /\ \A j \in DOMAIN layouts \ walked : layouts[i].start <= layouts[j].start

\* The two sides of the cursor are mixed up.
FaultyMisplaced(p) ==
    IF p > cursor THEN "overlapping_ranges"
    ELSE IF cursor = 0 THEN "prefix_bytes"
    ELSE "unclaimed_bytes"

\* What a place p other than the cursor is refused as.
Misplaced(p) ==
    IF p < cursor THEN "overlapping_ranges"
    ELSE IF cursor = 0 THEN "prefix_bytes"
    ELSE "unclaimed_bytes"

RefuseRegion ==
    /\ phase = "cover"
    /\ \E i \in DOMAIN layouts :
          /\ IsNext(i)
          /\ layouts[i].start # cursor
          /\ Refuse(Misplaced(layouts[i].start), 0)
    /\ UNCHANGED <<parsed, walked, cursor, sizes, total, decoded, again>>

\* Only a gap is refused.
FaultyClaimRegion ==
    /\ phase = "cover"
    /\ \E i \in DOMAIN layouts :
          /\ IsNext(i)
          /\ layouts[i].start <= cursor
          /\ cursor' = layouts[i].region
          /\ walked' = walked \cup {i}
    /\ UNCHANGED <<parsed, phase, sizes, total, decoded, again, refusal>>

ClaimRegion ==
    /\ phase = "cover"
    /\ \E i \in DOMAIN layouts :
          /\ IsNext(i)
          /\ layouts[i].start = cursor
          /\ cursor' = layouts[i].region
          /\ walked' = walked \cup {i}
    /\ UNCHANGED <<parsed, phase, sizes, total, decoded, again, refusal>>

RefuseCover ==
    /\ phase = "cover"
    /\ walked = DOMAIN layouts
    /\ cursor # DirectoryStart
    /\ Refuse(Misplaced(DirectoryStart), 0)
    /\ UNCHANGED <<parsed, walked, cursor, sizes, total, decoded, again>>

CoverEnds ==
    /\ phase = "cover"
    /\ walked = DOMAIN layouts
    /\ cursor = DirectoryStart
    /\ phase' = "decode"
    /\ UNCHANGED <<parsed, walked, cursor, sizes, total, decoded, again, refusal>>

-----------------------------------------------------------------------------
(* Decoding.                                                               *)

\* Crc32, abstracted to the parity of the bits from p up to q.
Checksum(p, q) ==
    Cardinality({c \in p .. q - 1 : At(c).kind = "data" /\ At(c).bit = 1}) % 2

\* What decoding the entry of r produces: how much, of which checksum, and
\* whether the stream ends where the data does, breaks off, or has more behind it.
Content(r) ==
    LET l == Claim(r)
        head == At(l.data)
    IN  IF r.method = "stored"
        THEN [yields |-> r.packed, crc |-> Checksum(l.data, l.stop), ending |-> "ends"]
        ELSE IF r.packed = 0 \/ head.kind # "stream"
        THEN [yields |-> 0, crc |-> 0, ending |-> "breaks"]
        ELSE [yields |-> head.yields, crc |-> head.crc,
              ending |-> IF ~head.ends \/ head.cells > r.packed THEN "breaks"
                         ELSE IF head.cells < r.packed THEN "trails" ELSE "ends"]

Ratio(n, r) == n \div (IF r.packed = 0 THEN 1 ELSE r.packed)

\* Accounting::accept(), once n units of the entry of r have come out.
ChunkFault(n, r, already) ==
    IF n > r.size THEN "declared_size_mismatch"
    ELSE IF n > MaxEntry THEN "entry_decoded_bytes"
    ELSE IF already + n > MaxTotal THEN "total_decoded_bytes"
    ELSE IF n > Grace /\ Ratio(n, r) > MaxRatio THEN "compression_ratio"
    ELSE "none"

\* Accounting::finish().
FinishFault(r) ==
    IF decoded # r.size THEN "declared_size_mismatch"
    ELSE IF Content(r).crc # r.crc THEN "crc_mismatch"
    ELSE "none"

\* The entry being decoded, in the inventory's pass or in entry_bytes(), which
\* charges nothing to the total.
Subject == IF phase = "again" THEN again ELSE Len(sizes) + 1
\* A second decode is charged to the total.
FaultyAlready == total

Already == IF phase = "again" THEN 0 ELSE total

Decoding ==
    /\ phase \in {"decode", "again"}
    /\ Subject \in DOMAIN records

\* The next chunk fills the buffer when it is stored; the decoder may return
\* with less.
IsChunk(n) ==
    LET rest == Content(records[Subject]).yields - decoded IN
    /\ n \in 1 .. Buffer
    /\ decoded + n <= Content(records[Subject]).yields
    /\ records[Subject].method = "stored" => n = Buffer \/ n = rest

\* The ceilings are looked at before the chunk is added.
FaultyAcceptChunk ==
    /\ Decoding
    /\ \E n \in 1 .. Buffer :
          /\ IsChunk(n)
          /\ ChunkFault(decoded, records[Subject], Already) = "none"
          /\ decoded' = decoded + n
    /\ UNCHANGED <<parsed, phase, walked, cursor, sizes, total, again, refusal>>

AcceptChunk ==
    /\ Decoding
    /\ \E n \in 1 .. Buffer :
          /\ IsChunk(n)
          /\ ChunkFault(decoded + n, records[Subject], Already) = "none"
          /\ decoded' = decoded + n
    /\ UNCHANGED <<parsed, phase, walked, cursor, sizes, total, again, refusal>>

RefuseChunk ==
    /\ Decoding
    /\ \E n \in 1 .. Buffer :
          /\ IsChunk(n)
          /\ ChunkFault(decoded + n, records[Subject], Already) # "none"
          /\ decoded' = decoded + n
          /\ Refuse(ChunkFault(decoded + n, records[Subject], Already), Subject)
    /\ UNCHANGED <<parsed, walked, cursor, sizes, total, again>>

Exhausted == decoded = Content(records[Subject]).yields

\* A stream that breaks off is found out after any chunk, one with more behind
\* it at its end.
RefuseStream ==
    /\ Decoding
    /\ \/ Content(records[Subject]).ending = "breaks"
       \/ Content(records[Subject]).ending = "trails" /\ Exhausted
    /\ Refuse("deflate_stream", Subject)
    /\ UNCHANGED <<parsed, walked, cursor, sizes, total, decoded, again>>

StreamEnds ==
    /\ Decoding
    /\ Content(records[Subject]).ending = "ends"
    /\ Exhausted

RefuseEntry ==
    /\ StreamEnds
    /\ FinishFault(records[Subject]) # "none"
    /\ Refuse(FinishFault(records[Subject]), Subject)
    /\ UNCHANGED <<parsed, walked, cursor, sizes, total, decoded, again>>

FinishEntry ==
    /\ phase = "decode"
    /\ StreamEnds
    /\ FinishFault(records[Subject]) = "none"
    /\ sizes' = Append(sizes, decoded)
    /\ total' = total + decoded
    /\ decoded' = 0
    /\ UNCHANGED <<parsed, phase, walked, cursor, again, refusal>>

InventoryEnds ==
    /\ phase = "decode"
    /\ Len(sizes) = Len(records)
    /\ phase' = "done"
    /\ UNCHANGED <<parsed, walked, cursor, sizes, total, decoded, again, refusal>>

\* entry_bytes(), of an index that is in range.
EntryBytes ==
    /\ phase = "done"
    /\ again' \in DOMAIN records
    /\ phase' = "again"
    /\ UNCHANGED <<parsed, walked, cursor, sizes, total, decoded, refusal>>

EntryBytesEnds ==
    /\ phase = "again"
    /\ StreamEnds
    /\ FinishFault(records[Subject]) = "none"
    /\ phase' = "done"
    /\ again' = 0
    /\ decoded' = 0
    /\ UNCHANGED <<parsed, walked, cursor, sizes, total, refusal>>

Decided ==
    /\ phase \in {"done", "refused"}
    /\ UNCHANGED vars

Next ==
    \/ RefuseEnd \/ FindEnd
    \/ RefuseRecord \/ ReadRecord \/ RefuseRest \/ RecordsEnd
    \/ RefuseLocal \/ VerifyLocal \/ LocalsEnd
    \/ RefuseRegion \/ ClaimRegion \/ RefuseCover \/ CoverEnds
    \/ AcceptChunk \/ RefuseChunk \/ RefuseStream \/ RefuseEntry
    \/ FinishEntry \/ InventoryEnds
    \/ EntryBytes \/ EntryBytesEnds
    \/ Decided

Spec == Init /\ [][Next]_vars

-----------------------------------------------------------------------------
(* Properties.                                                             *)

\* The type of every variable.
TypeOK ==
    /\ image \in Seq(Cell)
    /\ phase \in {"end", "records", "locals", "cover", "decode", "again", "done",
                  "refused"}
    /\ end \in Nat
    /\ records \in Seq(CentralCell)
    /\ layouts \in Seq([start : Nat, data : Nat, stop : Nat, region : Nat])
    /\ Len(layouts) <= Len(records)
    /\ walked \subseteq DOMAIN layouts
    /\ {cursor, total, decoded} \subseteq Nat
    /\ sizes \in Seq(Nat)
    /\ again \in {0} \cup DOMAIN records
    /\ phase = "again" => again # 0
    /\ DOMAIN refusal = {"code", "entry"}

\* The entries whose region holds the byte at p.
Owners(p) == {i \in DOMAIN layouts : layouts[i].start <= p /\ p < layouts[i].region}

\* The local header and the descriptor say of an entry what its record says; the
\* header may leave the values to the descriptor.
SaysTheSame(r) ==
    LET h == At(r.at)
        d == At(r.at + LocalWidth + r.packed)
    IN  /\ r.at + LocalWidth + r.packed + (IF r.described THEN 1 ELSE 0) <= Size
        /\ h.kind = "local" /\ h.flaw = "none"
        /\ <<h.name, h.method, h.described>> = <<r.name, r.method, r.described>>
        /\ r.described => d.kind = "descriptor" /\ Values(d) = Values(r)
        /\ Values(h) \in {Values(r)} \cup (IF r.described THEN {<<0, 0, 0>>} ELSE {})

\* What a package is, said of the image as a whole: one end record, a directory
\* of exactly the records it counts, names that differ even when folded, a local
\* header for each record, every byte before the directory in one entry, and
\* contents that are what is declared and within each ceiling.
IsPackage(p) ==
    LET e == At(p)
        R == [k \in 1 .. e.entries |-> At(e.at + (k - 1) * CentralWidth)]
        Holders(q) == {k \in DOMAIN R : R[k].at <= q /\ q < Claim(R[k]).region}
    IN  /\ Terminals = {p}
        /\ EndFault(p) = "none"
        /\ e.bytes = e.entries * CentralWidth
        /\ \A k \in DOMAIN R : R[k].kind = "central" /\ RecordFault(R[k]) = "none"
        /\ IsInjective([k \in DOMAIN R |-> Fold[R[k].name]])
        /\ \A k \in DOMAIN R : SaysTheSame(R[k])
        /\ \A q \in 0 .. e.at - 1 : Cardinality(Holders(q)) = 1
        /\ \A k \in DOMAIN R : Claim(R[k]).region <= e.at
        /\ \A k \in DOMAIN R :
              /\ Content(R[k]) =
                    [yields |-> R[k].size, crc |-> R[k].crc, ending |-> "ends"]
              /\ R[k].size <= MaxEntry
              /\ R[k].size > Grace => Ratio(R[k].size, R[k]) <= MaxRatio
        /\ SumFunction([k \in DOMAIN R |-> R[k].size]) <= MaxTotal

\* inventory() accepts exactly the images that are packages, in whatever pieces
\* the decoder returns their contents: no order of its checks, and no chunk that
\* ends short of a ceiling, lets through what the whole does not allow.
VerdictIsExact ==
    /\ phase \in {"done", "again"} =>
          Size <= MaxArchive /\ \E p \in Signatures : IsPackage(p)
    /\ phase = "refused" =>
          ~(Size <= MaxArchive /\ \E p \in Signatures : IsPackage(p))

\* check_coverage(): once it has passed, every byte before the directory belongs
\* to exactly one entry, and no entry reaches into the directory or beyond.
EveryByteHasOneOwner ==
    phase \in {"decode", "again", "done"} =>
        \A p \in 0 .. Size - 1 :
            IF p < DirectoryStart THEN \E i \in Owners(p) : Owners(p) = {i}
                                  ELSE Owners(p) = {}

\* A refusal by check_coverage() is for what it says: a byte with two owners, or
\* no entry at byte 0, or none at the first byte that is not in exactly one.
\* Where entries reach into the directory, that byte may be the directory's own,
\* but then another entry lies behind it.
RefusedCoverIsFaulty ==
    /\ refusal.code = "overlapping_ranges" =>
          \E p \in 0 .. Size - 1 :
              IF p < DirectoryStart THEN \E i, j \in Owners(p) : i # j
                                    ELSE Owners(p) # {}
    /\ refusal.code = "prefix_bytes" => Owners(0) = {}
    /\ refusal.code = "unclaimed_bytes" =>
          \E p \in 1 .. Size - 1 :
              /\ Owners(p) = {}
              /\ \A q \in 0 .. p - 1 : \E i \in Owners(q) : Owners(q) = {i}
              /\ p < DirectoryStart \/ \E i \in DOMAIN layouts : layouts[i].start > p

\* Accounting::accept(): no ceiling is passed by more than the chunk it is
\* refused for, and by nothing in an inventory that is not refused.
CeilingsHold ==
    /\ decoded <= MaxEntry + Buffer
    /\ again = 0 => total + decoded <= MaxTotal + Buffer
    /\ phase # "refused" => decoded <= MaxEntry
    /\ phase # "refused" /\ again = 0 => total + decoded <= MaxTotal

\* entry_bytes(): decoding an entry of a finished inventory again cannot fail,
\* in whatever pieces it comes this time, and gives no more than was counted.
EntryBytesCannotFail ==
    /\ phase = "refused" => again = 0
    /\ phase = "again" => decoded <= sizes[again]

===============================================================================
