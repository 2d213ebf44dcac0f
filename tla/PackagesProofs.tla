---------------------------- MODULE PackagesProofs ----------------------------
(***************************************************************************)
(* The life of a package, for every set of requests, packages, edits and   *)
(* roots, and every limit: what the library returns has its type; a        *)
(* package over which no check fails is whole; which root it is below      *)
(* never makes one fail; what is written is read back; and what a plan     *)
(* said is carried out, whatever package apply() is given.                 *)
(*                                                                         *)
(* Types need most of it, because a text stays a text through all the     *)
(* library does: what the reader takes from a document, what package()     *)
(* writes into the next one, and what a plan carries between them.         *)
(***************************************************************************)
EXTENDS Packages, DocumentLemmas

-----------------------------------------------------------------------------
(* Sequences, whatever they are of.                                        *)

\* What follows something in a sequence is what is left without it.
LEMMA RestIs ==
    ASSUME NEW p, NEW t, IsSequence(p), IsSequence(t), NEW n \in Nat, n = Len(p)
    PROVE  IsPrefix(p, p \o t) /\ SubSeq(p \o t, n + 1, Len(p \o t)) = t
<1> DEFINE s == p \o t
<1>1. /\ IsSequence(s) /\ Len(s) = n + Len(t) /\ Len(t) \in Nat
      /\ \A i \in 1 .. n : s[i] = p[i]
      /\ \A i \in 1 .. Len(t) : s[n + i] = t[i]
    BY Joined, SequenceIs
<1> HIDE DEF s
<1>2. /\ IsSequence(SubSeq(s, n + 1, Len(s))) /\ Len(SubSeq(s, n + 1, Len(s))) = Len(t)
      /\ \A i \in 1 .. Len(t) : SubSeq(s, n + 1, Len(s))[i] = s[n + i]
    <2>1. n + 1 \in Nat \ {0} /\ Len(s) \in 0 .. Len(s) /\ n + 1 <= Len(s) + 1
          /\ Len(s) + 1 - (n + 1) = Len(t)
        BY <1>1
    <2>2. /\ IsSequence(SubSeq(s, n + 1, Len(s)))
          /\ Len(SubSeq(s, n + 1, Len(s))) = Len(s) + 1 - (n + 1)
          /\ \A i \in 1 .. Len(s) + 1 - (n + 1) :
                SubSeq(s, n + 1, Len(s))[i] = s[(n + 1) + i - 1]
        BY <1>1, <2>1, CutOut
    <2>3. \A i \in 1 .. Len(t) : (n + 1) + i - 1 = n + i
        BY <1>1
    <2> QED BY <2>1, <2>2, <2>3
<1>3. SubSeq(s, n + 1, Len(s)) = t
    BY <1>1, <1>2, SameSequence
<1>4. SubSeq(s, 1, n) = SubSeq(p, 1, n)
    <2>1. /\ IsSequence(SubSeq(s, 1, n)) /\ Len(SubSeq(s, 1, n)) = n
          /\ \A i \in 1 .. n : SubSeq(s, 1, n)[i] = s[i]
        <3>1. 1 \in Nat \ {0} /\ n \in 0 .. Len(s) /\ 1 <= n + 1 /\ n + 1 - 1 = n
              /\ \A i \in 1 .. n : 1 + i - 1 = i
            BY <1>1
        <3>2. /\ IsSequence(SubSeq(s, 1, n)) /\ Len(SubSeq(s, 1, n)) = n + 1 - 1
              /\ \A i \in 1 .. n + 1 - 1 : SubSeq(s, 1, n)[i] = s[1 + i - 1]
            BY <1>1, <3>1, CutOut
        <3> QED BY <3>1, <3>2
    <2>2. /\ IsSequence(SubSeq(p, 1, n)) /\ Len(SubSeq(p, 1, n)) = n
          /\ \A i \in 1 .. n : SubSeq(p, 1, n)[i] = p[i]
        <3>1. 1 \in Nat \ {0} /\ n \in 0 .. Len(p) /\ 1 <= n + 1 /\ n + 1 - 1 = n
              /\ \A i \in 1 .. n : 1 + i - 1 = i
            OBVIOUS
        <3>2. /\ IsSequence(SubSeq(p, 1, n)) /\ Len(SubSeq(p, 1, n)) = n + 1 - 1
              /\ \A i \in 1 .. n + 1 - 1 : SubSeq(p, 1, n)[i] = p[1 + i - 1]
            BY <3>1, CutOut
        <3> QED BY <3>1, <3>2
    <2> QED BY <1>1, <2>1, <2>2, SameSequence
<1>5. IsPrefix(p, s)
    BY <1>1, <1>4 DEF IsPrefix
<1> QED BY <1>3, <1>5 DEF s

\* And what has a prefix is that and the rest.
LEMMA PrefixIs ==
    ASSUME NEW p, NEW s, IsSequence(p), IsSequence(s), NEW n \in Nat, n = Len(p),
           IsPrefix(p, s)
    PROVE  /\ n <= Len(s) /\ IsSequence(SubSeq(s, n + 1, Len(s)))
           /\ s = p \o SubSeq(s, n + 1, Len(s))
           /\ \A i \in 1 .. n : s[i] = p[i]
<1> DEFINE t == SubSeq(s, n + 1, Len(s))
<1>1. n <= Len(s) /\ SubSeq(p, 1, n) = SubSeq(s, 1, n) /\ Len(s) \in Nat
    BY SequenceIs DEF IsPrefix
<1>2. \A i \in 1 .. n : s[i] = p[i]
    <2>1. 1 \in Nat \ {0} /\ n \in 0 .. Len(s) /\ n \in 0 .. Len(p) /\ 1 <= n + 1 /\ n + 1 - 1 = n
          /\ \A i \in 1 .. n : 1 + i - 1 = i
        BY <1>1
    <2>2. \A i \in 1 .. n + 1 - 1 : SubSeq(s, 1, n)[i] = s[1 + i - 1]
        BY <2>1, CutOut
    <2>3. \A i \in 1 .. n + 1 - 1 : SubSeq(p, 1, n)[i] = p[1 + i - 1]
        BY <2>1, CutOut
    <2> QED BY <1>1, <2>1, <2>2, <2>3
<1>3. /\ IsSequence(t) /\ Len(t) = Len(s) - n /\ Len(t) \in Nat
      /\ \A i \in 1 .. Len(s) - n : t[i] = s[n + i]
    <2>1. n + 1 \in Nat \ {0} /\ Len(s) \in 0 .. Len(s) /\ n + 1 <= Len(s) + 1
          /\ Len(s) + 1 - (n + 1) = Len(s) - n
          /\ \A i \in 1 .. Len(s) - n : (n + 1) + i - 1 = n + i
        BY <1>1
    <2>2. /\ IsSequence(t) /\ Len(t) = Len(s) + 1 - (n + 1)
          /\ \A i \in 1 .. Len(s) + 1 - (n + 1) : t[i] = s[(n + 1) + i - 1]
        BY <2>1, CutOut
    <2> HIDE DEF t
    <2> QED BY <1>1, <2>1, <2>2
<1> HIDE DEF t
<1>4. /\ IsSequence(p \o t) /\ Len(p \o t) = Len(s)
      /\ \A i \in 1 .. n : (p \o t)[i] = p[i]
      /\ \A i \in 1 .. Len(t) : (p \o t)[n + i] = t[i]
    BY <1>1, <1>3, Joined
<1>5. \A i \in 1 .. Len(s) : (p \o t)[i] = s[i]
    <2> TAKE i \in 1 .. Len(s)
    <2>1. CASE i \in 1 .. n
        BY <1>2, <1>4, <2>1
    <2>2. CASE i \notin 1 .. n
        <3>1. i - n \in 1 .. Len(s) - n /\ n + (i - n) = i
            BY <1>1, <2>2
        <3>2. (p \o t)[i] = t[i - n] /\ t[i - n] = s[i]
            BY <1>3, <1>4, <3>1
        <3> QED BY <3>2
    <2> QED BY <2>1, <2>2
<1>6. s = p \o t
    BY <1>4, <1>5, SameSequence
<1> QED BY <1>1, <1>2, <1>3, <1>6 DEF t

LEMMA CutEnd ==
    ASSUME NEW s, IsSequence(s), NEW k \in 0 .. Len(s), NEW c, c = SubSeq(s, k + 1, Len(s))
    PROVE  IsSequence(c) /\ Len(c) = Len(s) - k /\ \A i \in 1 .. Len(s) - k : c[i] = s[k + i]
<1>0. Len(s) \in Nat
    BY SequenceIs
<1>1. /\ k + 1 \in Nat \ {0} /\ Len(s) \in 0 .. Len(s) /\ k + 1 <= Len(s) + 1
      /\ Len(s) + 1 - (k + 1) = Len(s) - k
      /\ \A i \in 1 .. Len(s) - k : (k + 1) + i - 1 = k + i
    BY <1>0
<1>2. /\ IsSequence(SubSeq(s, k + 1, Len(s)))
      /\ Len(SubSeq(s, k + 1, Len(s))) = Len(s) + 1 - (k + 1)
      /\ \A i \in 1 .. Len(s) + 1 - (k + 1) :
            SubSeq(s, k + 1, Len(s))[i] = s[(k + 1) + i - 1]
    BY <1>1, CutOut
<1> QED BY <1>1, <1>2

-----------------------------------------------------------------------------
(* Inventories that can be read.                                           *)

\* What the checks take for granted of a package: names, and the lists and
\* paths of a document, are sequences.
LegibleReference(a) == IsSequence(a.location) /\ IsSequence(a.file_name)

LegibleValue(m) ==
    /\ IsSequence(m.dispatches)
    /\ \A i \in 1 .. Len(m.dispatches) :
          /\ IsSequence(m.dispatches[i].attachments)
          /\ \A k \in 1 .. Len(m.dispatches[i].attachments) :
                LegibleReference(m.dispatches[i].attachments[k])

LegibleContent(content) ==
    content.kind = "document" /\ content.reading.kind = "accepted" =>
        LegibleValue(content.reading.value)

Legible(inv) ==
    /\ IsSequence(inv)
    /\ \A i \in 1 .. Len(inv) :
          /\ {"name", "content"} \subseteq DOMAIN inv[i]
          /\ IsSequence(inv[i].name) /\ LegibleContent(inv[i].content)

LEMMA AttachmentsAre ==
    ASSUME NEW m, LegibleValue(m)
    PROVE  /\ IsSequence(Attachments(m))
           /\ \A k \in 1 .. Len(Attachments(m)) : LegibleReference(Attachments(m)[k])
<1> DEFINE N == Len(m.dispatches)
           s == [i \in DOMAIN m.dispatches |-> m.dispatches[i].attachments]
<1>1. N \in Nat /\ DOMAIN m.dispatches = 1 .. N
    BY SequenceIs DEF LegibleValue
<1>2. s = [i \in 1 .. N |-> s[i]] /\ \A i \in 1 .. N : s[i] = m.dispatches[i].attachments
    BY <1>1
<1>3. Attachments(m) = FlattenSeq(s)
    BY DEF Attachments
<1>4. \A i \in 1 .. N : IsSequence(s[i]) /\ \A k \in 1 .. Len(s[i]) : LegibleReference(s[i][k])
    BY <1>2 DEF LegibleValue
<1> HIDE DEF N, s
<1>5. IsSequence(s) /\ Len(s) = N
    BY <1>1, <1>2, SequenceBy
<1>6. FromFirst(FlattenSeq(s), s, Len(s))
    BY <1>4, <1>5, Flattened
<1> QED BY <1>3, <1>4, <1>5, <1>6 DEF FromFirst

LEMMA Minimum ==
    ASSUME NEW N \in Nat, NEW S, S \subseteq 1 .. N, S # {}
    PROVE  Min(S) \in S /\ \A x \in S : Min(S) <= x
<1>1. S \subseteq Nat
    OBVIOUS
<1>2. \E m \in S : \A x \in S : m <= x
    BY <1>1, LeastNumber
<1> QED BY <1>2 DEF Min

Names(inv, name) == {i \in 1 .. Len(inv) : inv[i].name = name}

LEMMA IndexIs ==
    ASSUME NEW inv, IsSequence(inv), NEW name
    PROVE  /\ IndexOf(inv, name) = Absent <=> Names(inv, name) = {}
           /\ IndexOf(inv, name) # Absent =>
                \E i \in Names(inv, name) : IndexOf(inv, name) = {i}
<1> DEFINE S == Names(inv, name)
<1>1. Len(inv) \in Nat /\ DOMAIN inv = 1 .. Len(inv)
    BY SequenceIs
<1>2. IndexOf(inv, name) = IF S = {} THEN {} ELSE {Min(S)}
    BY <1>1, Zenon DEF IndexOf, Names, Absent, Present
<1>3. S # {} => Min(S) \in S
    <2>1. S \subseteq 1 .. Len(inv)
        BY DEF Names
    <2> HIDE DEF S
    <2> QED BY <1>1, <2>1, Minimum
<1> HIDE DEF S
<1>4. IndexOf(inv, name) = Absent <=> S = {}
    BY <1>2 DEF Absent
<1>5. IndexOf(inv, name) # Absent => Min(S) \in S /\ IndexOf(inv, name) = {Min(S)}
    BY <1>2, <1>3, <1>4
<1> QED BY <1>4, <1>5 DEF S

-----------------------------------------------------------------------------
(* Reports.                                                                *)

LEMMA OrderIs ==
    /\ DOMAIN Order = 1 .. 11
    /\ Order[1] = "metadata_location" /\ Order[2] = "metadata_file_name"
    /\ Order[3] = "root_prefix" /\ Order[4] = "marker_entry"
    /\ Order[5] = "metadata_parse" /\ Order[6] = "schema_optional_fields"
    /\ Order[7] = "handling_instructions_form" /\ Order[8] = "attachment_references"
    /\ Order[9] = "attachment_count" /\ Order[10] = "attachment_uniqueness"
    /\ Order[11] = "declared_size"
<1> QED BY DEF Order

\* The outcomes of a report.
Outcomes(inv, located, verdict, attachments) ==
    [i \in 1 .. 11 |-> CheckOutcome(inv, located, verdict, attachments, Order[i])]

LEMMA ReportChecks ==
    ASSUME NEW inv, NEW located, NEW verdict, NEW r, r = Report(inv, located, verdict),
           NEW o, o = Outcomes(inv, located, verdict, r.attachments)
    PROVE  /\ Failed(r) = {} <=> \A i \in 1 .. 11 : o[i].kind # "fail"
           /\ Outcome(r, "attachment_references") = o[8]
<1>1. r.checks = [i \in 1 .. 11 |-> [id |-> Order[i], outcome |-> o[i]]]
    BY OrderIs DEF Report, Outcomes
<1>2. Range(r.checks) = {[id |-> Order[i], outcome |-> o[i]] : i \in 1 .. 11}
    BY <1>1 DEF Range
<1>3. Failed(r) = {} <=> \A i \in 1 .. 11 : o[i].kind # "fail"
    <2> DEFINE failing == {x \in Range(r.checks) : x.outcome.kind = "fail"}
    <2>1. Failed(r) = {x.id : x \in failing}
        BY DEF Failed
    <2>2. Failed(r) = {} <=> failing = {}
        <3> HIDE DEF failing
        <3> QED BY <2>1
    <2>3. \A i \in 1 .. 11 : [id |-> Order[i], outcome |-> o[i]] \in Range(r.checks)
        BY <1>2
    <2>4. \A x \in Range(r.checks) : \E i \in 1 .. 11 : x.outcome = o[i]
        BY <1>2
    <2>5. failing = {} <=> \A i \in 1 .. 11 : o[i].kind # "fail"
        BY <2>3, <2>4
    <2> QED BY <2>2, <2>5
<1>4. Outcome(r, "attachment_references") = o[8]
    <2>1. \A i \in 1 .. 11 : Order[i] = "attachment_references" <=> i = 8
        BY OrderIs
    <2>2. \A c \in Range(r.checks) : c.id = "attachment_references" => c.outcome = o[8]
        BY <1>2, <2>1
    <2>3. \E c \in Range(r.checks) : c.id = "attachment_references"
        <3>1. [id |-> Order[8], outcome |-> o[8]] \in Range(r.checks)
            BY <1>2
        <3> QED BY <3>1, OrderIs
    <2> QED BY <2>2, <2>3 DEF Outcome
<1> QED BY <1>3, <1>4

LEMMA OneLocated ==
    ASSUME NEW inv, NEW c, Candidates(inv) = {c}
    PROVE  LocationOutcome(inv) = Pass /\ Located(inv) = {c}
<1>1. Cardinality({c}) = 1
    BY FS_Singleton
<1> QED BY <1>1 DEF LocationOutcome, Located

\* Where there is one document and it can be read, the outcomes are these.
LEMMA OutcomesAre ==
    ASSUME NEW inv, LocationOutcome(inv) = Pass, NEW located, located # Absent,
           NEW verdict, IsRead(verdict),
           NEW attachments, NEW o, o = Outcomes(inv, located, verdict, attachments)
    PROVE  /\ o[1] = Pass /\ o[2].kind # "fail" /\ o[3].kind # "fail"
           /\ o[4] = MarkerOutcome(inv) /\ o[5] = Pass
           /\ \A i \in 6 .. 11 :
                 o[i] = DocumentOutcome(The(verdict).value, attachments, Order[i])
<1> DEFINE m == The(verdict).value
           Of(id) == CheckOutcome(inv, located, verdict, attachments, id)
<1>3. Of("metadata_location") = Pass
    BY DEF CheckOutcome
<1>4. Of("marker_entry") = MarkerOutcome(inv)
    BY DEF CheckOutcome
<1>5. Of("metadata_parse") = Pass
    BY DEF CheckOutcome
<1>6. Of("metadata_file_name").kind # "fail" /\ Of("root_prefix").kind # "fail"
    BY DEF CheckOutcome, Pass, Unresolved
<1>7. ASSUME NEW id \in {"schema_optional_fields", "handling_instructions_form",
                         "attachment_references", "attachment_count",
                         "attachment_uniqueness", "declared_size"}
      PROVE  Of(id) = DocumentOutcome(m, attachments, id)
    BY <1>7, Zenon DEF CheckOutcome
<1> HIDE DEF Of
<1>8. \A i \in 1 .. 11 : o[i] = Of(Order[i])
    BY DEF Outcomes, Of
<1> QED BY <1>3, <1>4, <1>5, <1>6, <1>7, <1>8, OrderIs

\* What a package without a failure is: one document, which can be read,
\* and over it no check that fails.
Passes(inv, c, m, attachments) ==
    /\ c \in 1 .. Len(inv) /\ Candidates(inv) = {c}
    /\ Parsed(inv[c].content).kind = "accepted" /\ Parsed(inv[c].content).value = m
    /\ attachments = Resolve(inv, m, Prefix(inv[c].name))
    /\ MarkerOutcome(inv).kind # "fail"
    /\ \A i \in 6 .. 11 : DocumentOutcome(m, attachments, Order[i]).kind # "fail"

\* Its report.
LEMMA PassingReport ==
    ASSUME NEW inv, NEW c, NEW m, NEW attachments, Passes(inv, c, m, attachments)
    PROVE  LET r == Check(inv)
           IN  /\ Failed(r) = {} /\ r.root_prefix = {Prefix(inv[c].name)}
               /\ r.attachments = attachments /\ r.metadata = {m}
               /\ Outcome(r, "attachment_references") =
                    DocumentOutcome(m, attachments, "attachment_references")
<1> DEFINE v == Parsed(inv[c].content)
           verdict == {v}
           r == Report(inv, {c}, verdict)
           o == Outcomes(inv, {c}, verdict, attachments)
<1>1. Located(inv) = {c}
    BY OneLocated DEF Passes
<1>2. {Parsed(inv[i].content) : i \in {c}} = verdict
    BY DEF Passes
<1>3. Check(inv) = r
    BY <1>1, <1>2 DEF Check
<1>4. IsRead(verdict) /\ The(verdict).value = m /\ The({c}) = c /\ {c} # Absent
    BY TheOne DEF IsRead, Absent, Passes
<1> HIDE DEF verdict
<1>5. /\ r.attachments = attachments /\ r.metadata = {m}
      /\ r.root_prefix = {Prefix(inv[c].name)}
    BY <1>4 DEF Report, Passes, Present
<1> HIDE DEF r
<1>6. /\ Failed(r) = {} <=> \A i \in 1 .. 11 : o[i].kind # "fail"
      /\ Outcome(r, "attachment_references") = o[8]
    <2> DEFINE q == Outcomes(inv, {c}, verdict, r.attachments)
    <2>0. r = Report(inv, {c}, verdict)
        BY DEF r
    <2>2. q = o
        BY <1>5
    <2> HIDE DEF o
    <2>1. /\ Failed(r) = {} <=> \A i \in 1 .. 11 : q[i].kind # "fail"
          /\ Outcome(r, "attachment_references") = q[8]
        BY <2>0, ReportChecks
    <2> QED BY <2>1, <2>2
<1> HIDE DEF o
<1>7. /\ o[1] = Pass /\ o[2].kind # "fail" /\ o[3].kind # "fail"
      /\ o[4] = MarkerOutcome(inv) /\ o[5] = Pass
      /\ \A i \in 6 .. 11 : o[i] = DocumentOutcome(m, attachments, Order[i])
    <2>1. LocationOutcome(inv) = Pass
        BY OneLocated DEF Passes
    <2>2. o = Outcomes(inv, {c}, verdict, attachments)
        BY DEF o
    <2>3. /\ o[1] = Pass /\ o[2].kind # "fail" /\ o[3].kind # "fail"
          /\ o[4] = MarkerOutcome(inv) /\ o[5] = Pass
          /\ \A i \in 6 .. 11 : o[i] = DocumentOutcome(The(verdict).value, attachments, Order[i])
        BY <1>4, <2>1, <2>2, OutcomesAre
    <2> QED BY <1>4, <2>3
<1>8. \A i \in 1 .. 11 : o[i].kind # "fail"
    BY <1>7 DEF Passes, Pass
<1> QED BY <1>3, <1>5, <1>6, <1>7, <1>8, OrderIs

\* And no other report is without a failure.
LEMMA UnfailedPasses ==
    ASSUME NEW inv, Legible(inv), Failed(Check(inv)) = {}
    PROVE  \E c, m, attachments : Passes(inv, c, m, attachments) /\ LegibleValue(m)
<1> DEFINE located == Located(inv)
           verdict == {Parsed(inv[i].content) : i \in located}
           r == Report(inv, located, verdict)
           o == Outcomes(inv, located, verdict, r.attachments)
<1>1. Check(inv) = r
    BY DEF Check
<1>2. \A i \in 1 .. 11 : o[i].kind # "fail"
    <2>1. Failed(r) = {}
        BY <1>1
    <2> HIDE DEF located, verdict
    <2>3. r = Report(inv, located, verdict) /\ o = Outcomes(inv, located, verdict, r.attachments)
        OBVIOUS
    <2> HIDE DEF r, o
    <2>2. Failed(r) = {} <=> \A i \in 1 .. 11 : o[i].kind # "fail"
        BY <2>3, ReportChecks
    <2> QED BY <2>1, <2>2
<1>3. o[1] = LocationOutcome(inv)
    BY OrderIs DEF Outcomes, CheckOutcome
<1>4. Len(inv) \in Nat /\ DOMAIN inv = 1 .. Len(inv)
    BY SequenceIs DEF Legible
<1>5. \E c \in 1 .. Len(inv) : Candidates(inv) = {c}
    <2>1. LocationOutcome(inv).kind # "fail"
        <3> HIDE DEF o
        <3>1. 1 \in 1 .. 11
            OBVIOUS
        <3> QED BY <1>2, <1>3, <3>1
    <2>2. Candidates(inv) \subseteq 1 .. Len(inv)
        BY <1>4 DEF Candidates
    <2>3. IsFiniteSet(Candidates(inv))
        <3>1. IsFiniteSet(1 .. Len(inv))
            BY <1>4, FS_Interval
        <3> QED BY <2>2, <3>1, FS_Subset
    <2>4. Cardinality(Candidates(inv)) \in Nat
        BY <2>3, FS_CardinalityType
    <2>5. Candidates(inv) # {} /\ ~(Cardinality(Candidates(inv)) > 1)
        <3>1. Cardinality({}) = 0
            BY FS_EmptySet
        <3> QED BY <2>1, <3>1 DEF LocationOutcome, Fail, Pass
    <2>6. Cardinality(Candidates(inv)) # 0
        BY <2>3, <2>5, FS_EmptySet
    <2>7. Cardinality(Candidates(inv)) = 1
        BY <2>4, <2>5, <2>6
    <2> QED BY <2>2, <2>3, <2>7, FS_Singleton
<1>6. PICK c \in 1 .. Len(inv) : Candidates(inv) = {c}
    BY <1>5
<1>7. located = {c} /\ verdict = {Parsed(inv[c].content)}
    <2>2. located = {c}
        BY <1>6, OneLocated
    <2> HIDE DEF located
    <2> QED BY <2>2
<1> HIDE DEF located, verdict
<1> DEFINE content == inv[c].content v == Parsed(content)
<1>8. \A i \in 1 .. 11 :
         CheckOutcome(inv, {c}, {v}, r.attachments, Order[i]).kind # "fail"
    BY <1>2, <1>7 DEF Outcomes
<1>9. IsRead({v})
    <2> HIDE DEF r
    <2> DEFINE parse == CheckOutcome(inv, {c}, {v}, r.attachments, "metadata_parse")
    <2>1. parse.kind # "fail"
        BY <1>8, OrderIs
    <2>2. {c} # Absent
        BY DEF Absent
    <2>3. ~IsRead({v}) => parse = Fail(The({v}).codes)
        BY <2>2 DEF CheckOutcome
    <2> QED BY <2>1, <2>3 DEF Fail
<1>10. v.kind = "accepted"
    BY <1>9 DEF IsRead
<1>11. content.kind = "document" /\ v = content.reading
    BY <1>10 DEF Parsed
<1> DEFINE m == v.value attachments == Resolve(inv, m, Prefix(inv[c].name))
<1>12. LegibleValue(m)
    <2>1. LegibleContent(content)
        BY DEF Legible
    <2> HIDE DEF content, v
    <2>2. content.reading.kind = "accepted" /\ m = content.reading.value
        BY <1>10, <1>11
    <2> QED BY <1>11, <2>1, <2>2 DEF LegibleContent
<1>13. r.attachments = attachments
    <2>1. r = Report(inv, {c}, {v}) /\ The({v}) = v /\ The({c}) = c
        BY <1>7, TheOne
    <2> HIDE DEF r, v
    <2> QED BY <1>9, <2>1 DEF Report
<1> HIDE DEF r
<1>14. /\ o[4] = MarkerOutcome(inv)
       /\ \A i \in 6 .. 11 : o[i] = DocumentOutcome(m, attachments, Order[i])
    <2>1. o = Outcomes(inv, {c}, {v}, attachments)
        BY <1>7, <1>13
    <2>2. The({v}).value = m /\ {c} # Absent
        BY TheOne DEF Absent
    <2>3. LocationOutcome(inv) = Pass
        BY <1>6, OneLocated
    <2> HIDE DEF v, m, o, attachments
    <2>4. /\ o[4] = MarkerOutcome(inv)
          /\ \A i \in 6 .. 11 : o[i] = DocumentOutcome(The({v}).value, attachments, Order[i])
        BY <1>9, <2>1, <2>2, <2>3, OutcomesAre
    <2> QED BY <2>2, <2>4
<1> HIDE DEF o
<1>15. Passes(inv, c, m, attachments)
    <2>1. MarkerOutcome(inv).kind # "fail"
        BY <1>2, <1>14
    <2>2. \A i \in 6 .. 11 : DocumentOutcome(m, attachments, Order[i]).kind # "fail"
        BY <1>2, <1>14
    <2> QED BY <1>6, <1>10, <2>1, <2>2 DEF Passes
<1> QED BY <1>12, <1>15

-----------------------------------------------------------------------------
(* References.                                                             *)

LEMMA TriesAre ==
    ASSUME NEW root
    PROVE  /\ DOMAIN PrefixesToTry(root) = 1 .. 5
           /\ PrefixesToTry(root)[1] = root
           /\ PrefixesToTry(root)[2] = CanonicalRoot
           /\ PrefixesToTry(root)[3] = <<"OCD", "/">>
           /\ PrefixesToTry(root)[4] = <<"KRX", "/">>
           /\ PrefixesToTry(root)[5] = <<>>
<1> DEFINE s == <<root>> t == KnownPrefixes
<1>1. /\ Len(s) = 1 /\ s[1] = root /\ s = [i \in 1 .. 1 |-> s[i]]
      /\ Len(t) = 4 /\ t[1] = CanonicalRoot /\ t[2] = <<"OCD", "/">> /\ t[3] = <<"KRX", "/">>
      /\ t[4] = <<>> /\ t = [i \in 1 .. 4 |-> t[i]]
    BY DEF KnownPrefixes
<1>2. PrefixesToTry(root) = s \o t
    BY DEF PrefixesToTry
<1> HIDE DEF s, t
<1>3. IsSequence(s) /\ IsSequence(t)
    BY <1>1, SequenceBy
<1>4. /\ IsSequence(s \o t) /\ Len(s \o t) = 5
      /\ \A i \in 1 .. 1 : (s \o t)[i] = s[i]
      /\ \A i \in 1 .. 4 : (s \o t)[1 + i] = t[i]
    BY <1>1, <1>3, Joined
<1>5. (s \o t)[2] = t[1] /\ (s \o t)[3] = t[2] /\ (s \o t)[4] = t[3] /\ (s \o t)[5] = t[4]
    BY <1>4
<1>6. DOMAIN (s \o t) = 1 .. 5
    BY <1>4, SequenceIs
<1> QED BY <1>1, <1>2, <1>4, <1>5, <1>6

\* What is resolved has the very name, and what is not missing names an entry.
LEMMA ResolvedIs ==
    ASSUME NEW inv, IsSequence(inv), NEW path, NEW root,
           NEW r, r = ResolvePath(inv, path, root)
    PROVE  /\ r.kind = "missing" \/ r.entry # Absent
           /\ r.kind \in {"resolved", "variant", "missing"}
           /\ r.kind = "variant" =>
                \E k \in 1 .. 5 :
                    Names(inv, PrefixesToTry(root)[k] \o StripKnownPrefix(path)) # {}
           /\ r.kind = "resolved" => \E i \in Names(inv, path) : r.entry = {i}
           /\ r.kind = "missing" =>
                /\ Names(inv, path) = {}
                /\ \A k \in 1 .. 5 :
                      Names(inv, PrefixesToTry(root)[k] \o StripKnownPrefix(path)) = {}
<1> DEFINE tries == PrefixesToTry(root)
           variant(k) == tries[k] \o StripKnownPrefix(path)
           hits == {k \in DOMAIN tries :
                       variant(k) # path /\ IndexOf(inv, variant(k)) # Absent}
<1>1. r = IF IndexOf(inv, path) # Absent
          THEN [kind |-> "resolved", entry |-> IndexOf(inv, path)]
          ELSE IF hits # {}
               THEN [kind |-> "variant", entry |-> IndexOf(inv, variant(Min(hits)))]
               ELSE [kind |-> "missing", entry |-> Absent]
    BY Zenon DEF ResolvePath
<1>2. hits \subseteq 1 .. 5
    BY TriesAre
<1>3. ASSUME hits # {}
      PROVE  Min(hits) \in 1 .. 5 /\ IndexOf(inv, variant(Min(hits))) # Absent
    <2> HIDE DEF hits
    <2>1. Min(hits) \in hits
        BY <1>2, <1>3, Minimum
    <2> QED BY <1>2, <2>1 DEF hits
<1>4. ASSUME hits = {}, Names(inv, path) = {}, NEW k \in 1 .. 5
      PROVE  Names(inv, variant(k)) = {}
    <2>1. k \in DOMAIN tries
        BY TriesAre
    <2>2. variant(k) # path => IndexOf(inv, variant(k)) = Absent
        BY <1>4, <2>1
    <2> HIDE DEF variant
    <2> QED BY <1>4, <2>2, IndexIs
<1> HIDE DEF hits, variant
<1>5. r.kind = "resolved" => \E i \in Names(inv, path) : r.entry = {i}
    BY <1>1, IndexIs
<1>6. r.kind = "missing" => IndexOf(inv, path) = Absent /\ hits = {}
    BY <1>1
<1>7. IndexOf(inv, path) = Absent => Names(inv, path) = {}
    BY IndexIs
<1>8. r.kind = "missing" \/ r.entry # Absent
    BY <1>1, <1>3
<1>9. r.kind \in {"resolved", "variant", "missing"}
    BY <1>1
<1>10. ASSUME r.kind = "variant" PROVE \E k \in 1 .. 5 : Names(inv, variant(k)) # {}
    <2>1. hits # {}
        BY <1>1, <1>10
    <2>2. Names(inv, variant(Min(hits))) # {}
        BY <1>3, <2>1, IndexIs
    <2> QED BY <1>3, <2>1, <2>2
<1> QED BY <1>4, <1>5, <1>6, <1>7, <1>8, <1>9, <1>10 DEF variant

LEMMA ResolvedAre ==
    ASSUME NEW inv, NEW m, LegibleValue(m), NEW root, NEW a, a = Resolve(inv, m, root)
    PROVE  /\ IsSequence(a) /\ Len(a) = Len(Attachments(m)) /\ Len(a) \in Nat
           /\ \A i \in 1 .. Len(a) :
                 /\ a[i].number = Attachments(m)[i].number
                 /\ a[i].declared_path = DeclaredPath(Attachments(m)[i])
                 /\ a[i].resolution = ResolvePath(inv, DeclaredPath(Attachments(m)[i]), root)
<1> DEFINE refs == Attachments(m)
<1>1. Len(refs) \in Nat /\ DOMAIN refs = 1 .. Len(refs)
    BY AttachmentsAre, SequenceIs
<1>2. /\ a = [i \in 1 .. Len(refs) |-> a[i]]
      /\ \A i \in 1 .. Len(refs) :
            /\ a[i].number = refs[i].number
            /\ a[i].declared_path = DeclaredPath(refs[i])
            /\ a[i].resolution = ResolvePath(inv, DeclaredPath(refs[i]), root)
    BY <1>1 DEF Resolve
<1> HIDE DEF refs
<1>3. IsSequence(a) /\ Len(a) = Len(refs)
    BY <1>1, <1>2, SequenceBy
<1> QED BY <1>1, <1>2, <1>3 DEF refs

\* Over references that are all resolved and all different.
LEMMA PassingReferences ==
    ASSUME NEW inv, NEW c, NEW m, NEW a, Passes(inv, c, m, a), LegibleValue(m)
    PROVE  /\ \A i \in 1 .. Len(a) : a[i].resolution.kind # "missing"
           /\ Len(a) > 0 => ~HasDuplicate(a)
           /\ Len(a) > 0 =>
                \/ \A i \in 1 .. Len(a) : a[i].resolution.kind = "resolved"
                \/ DocumentOutcome(m, a, "attachment_references") = Unresolved("M14")
           /\ CountAgrees(m) # Absent => The(CountAgrees(m))
<1>1. IsSequence(a) /\ Len(a) \in Nat
    BY ResolvedAre DEF Passes
<1>2. DOMAIN a = 1 .. Len(a) /\ (Len(a) > 0 <=> a # <<>>)
    <2>1. DOMAIN a = 1 .. Len(a) /\ a = [i \in 1 .. Len(a) |-> a[i]]
        BY <1>1, SequenceIs
    <2>2. Len(a) = 0 => a = <<>>
        BY <1>1, <2>1
    <2> QED BY <1>1, <2>1, <2>2
<1> DEFINE Of(id) == DocumentOutcome(m, a, id)
           kinds == {x.resolution.kind : x \in Range(a)}
<1>3. /\ Of("attachment_references").kind # "fail"
      /\ Of("attachment_count").kind # "fail"
      /\ Of("attachment_uniqueness").kind # "fail"
    <2>1. \A i \in 6 .. 11 : Of(Order[i]).kind # "fail"
        BY DEF Passes
    <2> HIDE DEF Of
    <2> QED BY <2>1, OrderIs
<1>4. /\ kinds = {a[i].resolution.kind : i \in 1 .. Len(a)}
    BY <1>2 DEF Range
<1>5. Of("attachment_references") =
        IF kinds = {} THEN NotApplicable
        ELSE IF "missing" \in kinds THEN Fail({"metadata.reference.missing_entry"})
        ELSE IF kinds = {"resolved"} THEN Pass ELSE Unresolved("M14")
    <2>1. Of("attachment_references") = ReferenceOutcome(a)
        BY DEF DocumentOutcome
    <2> HIDE DEF Of
    <2> QED BY <2>1 DEF ReferenceOutcome
<1> HIDE DEF kinds
<1>6. "missing" \notin kinds
    BY <1>3, <1>5 DEF Fail
<1>7. \A i \in 1 .. Len(a) : a[i].resolution.kind \in kinds
    BY <1>4
<1>8. Len(a) > 0 => 1 \in 1 .. Len(a)
    BY <1>1
<1>9. a # <<>> => ~HasDuplicate(a)
    <2>1. a # <<>> =>
            Of("attachment_uniqueness") =
                IF HasDuplicate(a) THEN Fail({"metadata.reference.duplicate"}) ELSE Pass
        BY DEF DocumentOutcome
    <2> HIDE DEF Of
    <2> QED BY <1>3, <2>1 DEF Fail
<1>10. CountAgrees(m) # Absent => The(CountAgrees(m))
    <2>1. CountAgrees(m) # Absent =>
            Of("attachment_count") =
                IF The(CountAgrees(m)) THEN Pass ELSE Fail({"metadata.count_mismatch"})
        BY Zenon DEF DocumentOutcome
    <2> HIDE DEF Of
    <2> QED BY <1>3, <2>1 DEF Fail
<1>11. Len(a) > 0 =>
            \/ \A i \in 1 .. Len(a) : a[i].resolution.kind = "resolved"
            \/ Of("attachment_references") = Unresolved("M14")
    BY <1>5, <1>6, <1>7, <1>8
<1>12. \A i \in 1 .. Len(a) : a[i].resolution.kind # "missing"
    BY <1>6, <1>7
<1> QED BY <1>2, <1>9, <1>10, <1>11, <1>12

\* And what is needed of them for no check over the document to fail.
LEMMA ReferencesPass ==
    ASSUME NEW m, NEW a, IsSequence(a),
           \A i \in 1 .. Len(a) : a[i].resolution.kind # "missing",
           Len(a) > 0 => ~HasDuplicate(a),
           CountAgrees(m) # Absent => The(CountAgrees(m))
    PROVE  \A i \in 6 .. 11 : DocumentOutcome(m, a, Order[i]).kind # "fail"
<1> DEFINE Of(id) == DocumentOutcome(m, a, id)
           kinds == {x.resolution.kind : x \in Range(a)}
<1>1. Len(a) \in Nat /\ DOMAIN a = 1 .. Len(a)
    BY SequenceIs
<1>2. a # <<>> => Len(a) > 0
    <2>1. a = [i \in 1 .. Len(a) |-> a[i]]
        BY SequenceIs
    <2>2. Len(a) = 0 => a = <<>>
        BY <2>1
    <2> QED BY <1>1, <2>2
<1>3. Of("schema_optional_fields").kind # "fail"
    BY DEF DocumentOutcome, Pass, Unresolved
<1>4. Of("handling_instructions_form").kind # "fail"
    BY DEF DocumentOutcome, Pass, NotApplicable
<1>5. Of("attachment_references").kind # "fail"
    <2>1. Of("attachment_references") = ReferenceOutcome(a)
        BY DEF DocumentOutcome
    <2>2. "missing" \notin kinds
        BY <1>1 DEF Range
    <2>3. ReferenceOutcome(a) =
            IF kinds = {} THEN NotApplicable
            ELSE IF kinds = {"resolved"} THEN Pass ELSE Unresolved("M14")
        <3>1. ReferenceOutcome(a) =
                CASE kinds = {} -> NotApplicable
                  [] "missing" \in kinds -> Fail({"metadata.reference.missing_entry"})
                  [] kinds = {"resolved"} -> Pass
                  [] OTHER -> Unresolved("M14")
            BY DEF ReferenceOutcome
        <3> HIDE DEF kinds
        <3> QED BY <2>2, <3>1
    <2> HIDE DEF Of, kinds
    <2> QED BY <2>1, <2>3 DEF NotApplicable, Pass, Unresolved
<1>6. Of("attachment_count").kind # "fail"
    BY Zenon DEF DocumentOutcome, Pass, NotApplicable
<1>7. Of("attachment_uniqueness").kind # "fail"
    BY <1>2 DEF DocumentOutcome, Pass, NotApplicable
<1>8. Of("declared_size").kind # "fail"
    BY DEF DocumentOutcome, Unresolved, NotApplicable
<1> HIDE DEF Of
<1>9. \A i \in 6 .. 11 : Of(Order[i]).kind # "fail"
    BY <1>3, <1>4, <1>5, <1>6, <1>7, <1>8, OrderIs
<1> QED BY <1>9 DEF Of

LEMMA CountsAgree ==
    ASSUME NEW m, LegibleValue(m), CountAgrees(m) # Absent => The(CountAgrees(m)),
           NEW d \in Range(m.dispatches)
    PROVE  d.declared_attachment_count \subseteq {Len(d.attachments)}
<1> DEFINE counted == {i \in DOMAIN m.dispatches :
                          m.dispatches[i].declared_attachment_count # Absent}
           agrees == \A i \in counted :
                        m.dispatches[i].declared_attachment_count
                            = {Len(m.dispatches[i].attachments)}
<1>1. PICK i \in DOMAIN m.dispatches : d = m.dispatches[i]
    BY DEF Range
<1>2. CountAgrees(m) = IF counted = {} THEN Absent ELSE Present(agrees)
    BY Zenon DEF CountAgrees
<1>3. CASE i \notin counted
    BY <1>1, <1>3 DEF Absent
<1>4. CASE i \in counted
    <2> HIDE DEF agrees
    <2>1. CountAgrees(m) = {agrees}
        BY <1>2, <1>4 DEF Present
    <2>2. {agrees} # Absent
        BY DEF Absent
    <2>3. The({agrees}) = agrees
        BY TheOne
    <2>4. agrees
        BY <2>1, <2>2, <2>3
    <2> QED BY <1>1, <1>4, <2>4 DEF agrees
<1> QED BY <1>3, <1>4

LEMMA UnfailedWhole ==
    ASSUME NEW inv, Legible(inv)
    PROVE  IsWhole(Check(inv))
<1> DEFINE r == Check(inv)
<1> SUFFICES ASSUME Failed(r) = {} PROVE IsWhole(r)
    BY DEF IsWhole
<1>1. PICK c, m, a : Passes(inv, c, m, a) /\ LegibleValue(m)
    BY UnfailedPasses
<1>2. /\ r.attachments = a /\ r.metadata = {m}
      /\ Outcome(r, "attachment_references") = DocumentOutcome(m, a, "attachment_references")
    BY <1>1, PassingReport
<1>3. /\ IsSequence(a) /\ Len(a) = Len(Attachments(m)) /\ Len(a) \in Nat
      /\ \A i \in 1 .. Len(a) :
            /\ a[i].declared_path = DeclaredPath(Attachments(m)[i])
            /\ a[i].resolution = ResolvePath(inv, a[i].declared_path, Prefix(inv[c].name))
    BY <1>1, ResolvedAre DEF Passes
<1>4. DOMAIN a = 1 .. Len(a)
    BY <1>3, SequenceIs
<1>5. /\ \A i \in 1 .. Len(a) : a[i].resolution.kind # "missing"
      /\ Len(a) > 0 => ~HasDuplicate(a)
      /\ Len(a) > 0 =>
            \/ \A i \in 1 .. Len(a) : a[i].resolution.kind = "resolved"
            \/ DocumentOutcome(m, a, "attachment_references") = Unresolved("M14")
      /\ CountAgrees(m) # Absent => The(CountAgrees(m))
    BY <1>1, PassingReferences
<1>6. IsSequence(inv)
    BY DEF Legible
<1>7. \A i \in 1 .. Len(a) : a[i].resolution.entry # Absent
    BY <1>3, <1>5, <1>6, ResolvedIs
<1>8. ASSUME NEW i \in 1 .. Len(a), NEW j \in 1 .. Len(a), i # j,
             a[i].resolution.entry = a[j].resolution.entry
      PROVE  DocumentOutcome(m, a, "attachment_references") = Unresolved("M14")
    <2>1. Len(a) > 0
        BY <1>3
    <2> SUFFICES ASSUME a[i].resolution.kind = "resolved", a[j].resolution.kind = "resolved"
                 PROVE  FALSE
        BY <1>5, <2>1
    <2>2. PICK x \in Names(inv, a[i].declared_path) : a[i].resolution.entry = {x}
        BY <1>3, <1>6, ResolvedIs
    <2>3. PICK y \in Names(inv, a[j].declared_path) : a[j].resolution.entry = {y}
        BY <1>3, <1>6, ResolvedIs
    <2>4. x = y
        BY <1>8, <2>2, <2>3
    <2>5. a[i].declared_path = a[j].declared_path
        BY <2>4 DEF Names
    <2>6. HasDuplicate(a)
        <3>1. i < j \/ j < i
            BY <1>3, <1>8
        <3> QED BY <1>4, <2>5, <3>1 DEF HasDuplicate
    <2> QED BY <1>5, <2>1, <2>6
<1>9. \A d \in Range(m.dispatches) : d.declared_attachment_count \subseteq {Len(d.attachments)}
    BY <1>1, <1>5, CountsAgree
<1> HIDE DEF r
<1>10. m \in r.metadata
    BY <1>2
<1> QED BY <1>2, <1>3, <1>4, <1>7, <1>8, <1>9, <1>10 DEF IsWhole

\* What metadata::parse() makes of any document.
LEMMA VerdictIsReading == ASSUME NEW d \in Seq(Event) PROVE Verdict(d) \in Reading
<1> DEFINE t == Read(Tree(d))
<1>0. {"over_limit.document_bytes", "malformed.syntax", "malformed.missing_element"} \subseteq Code
    BY DEF Code
<1>1. CASE Len(d) > MaxDocument
    BY <1>0, <1>1 DEF Verdict, Reading
<1>2. CASE ~(Len(d) > MaxDocument)
    <2>1. Verdict(d) = VerdictOf(t, Faults(t))
        BY <1>2 DEF Verdict, VerdictOn
    <2>2. CASE Faults(t) = {}
        <3>1. Verdict(d) = [kind |-> "accepted", value |-> Verdict(d).value]
              /\ Verdict(d).kind = "accepted"
            BY <2>1, <2>2 DEF VerdictOf
        <3>2. Verdict(d).value \in Metadata
            BY <3>1, AcceptedIsMetadata
        <3> QED BY <3>1, <3>2 DEF Reading
    <2>3. CASE Faults(t) # {}
        <3> HIDE DEF t
        <3>1. Faults(t) \subseteq Code
            <4> DEFINE faulty == {i \in DOMAIN t.event : FaultsAt(t, i) # {}}
            <4>1. Faults(t) =
                    IF faulty # {} THEN FaultsAt(t, Min(faulty))
                    ELSE IF End(t) \in DOMAIN t.event THEN {}
                    ELSE IF FirstElement(t) \in DOMAIN t.event THEN {"malformed.syntax"}
                    ELSE {"malformed.missing_element"}
                BY Zenon DEF Faults
            <4> HIDE DEF faulty
            <4> QED BY <1>0, <4>1, FaultsAreCodes
        <3>2. Verdict(d) = [kind |-> "refused", codes |-> Faults(t)]
            BY <2>1, <2>3 DEF VerdictOf
        <3> QED BY <2>3, <3>1, <3>2 DEF Reading
    <2> QED BY <2>2, <2>3
<1> QED BY <1>1, <1>2

LEMMA DocumentIsContent ==
    ASSUME NEW d \in Seq(Event)
    PROVE  DocumentContent(d) \in EntryContent
BY VerdictIsReading DEF DocumentContent, EntryContent

-----------------------------------------------------------------------------
(* package(): the checks.                                                  *)

\* The first check that finds something.
LEMMA FirstOfIs ==
    ASSUME NEW C, NEW checks \in Seq(SUBSET C)
    PROVE  /\ FirstOf(checks) \subseteq C
           /\ FirstOf(checks) = {} => \A i \in 1 .. Len(checks) : checks[i] = {}
<1> DEFINE wrong == {i \in DOMAIN checks : checks[i] # {}}
<1>1. DOMAIN checks = 1 .. Len(checks) /\ Len(checks) \in Nat
    OBVIOUS
<1>2. FirstOf(checks) = IF wrong = {} THEN {} ELSE checks[Min(wrong)]
    BY DEF FirstOf
<1>3. wrong # {} => Min(wrong) \in wrong
    <2>1. wrong \subseteq Nat
        BY <1>1
    <2> HIDE DEF wrong
    <2> QED BY <2>1, MinIs
<1>4. \A i \in 1 .. Len(checks) : checks[i] \subseteq C
    OBVIOUS
<1>5. CASE wrong = {}
    BY <1>1, <1>2, <1>5
<1>6. CASE wrong # {}
    <2>1. Min(wrong) \in 1 .. Len(checks) /\ checks[Min(wrong)] # {}
        BY <1>1, <1>3, <1>6
    <2> HIDE DEF wrong
    <2> QED BY <1>2, <1>4, <1>6, <2>1
<1> QED BY <1>5, <1>6

LEMMA WhenIs ==
    ASSUME NEW wrong, NEW code
    PROVE  When(wrong, code) \subseteq {code} /\ (When(wrong, code) = {} => ~wrong)
BY Zenon DEF When

LEMMA ChecksJoined ==
    ASSUME NEW C, NEW a \in Seq(SUBSET C), NEW b \in Seq(SUBSET C),
           \A i \in 1 .. Len(a \o b) : (a \o b)[i] = {}
    PROVE  /\ \A i \in 1 .. Len(a) : a[i] = {}
           /\ \A i \in 1 .. Len(b) : b[i] = {}
<1>1. IsSequence(a) /\ IsSequence(b)
    BY DEF IsSequence
<1>2. /\ Len(a \o b) = Len(a) + Len(b) /\ Len(a) \in Nat /\ Len(b) \in Nat
      /\ \A i \in 1 .. Len(a) : (a \o b)[i] = a[i]
      /\ \A i \in 1 .. Len(b) : (a \o b)[Len(a) + i] = b[i]
    BY <1>1, Joined, SequenceIs
<1> DEFINE c == a \o b
<1> HIDE DEF c
<1>3. ASSUME NEW i \in 1 .. Len(a) PROVE a[i] = {}
    <2>1. i \in 1 .. Len(c)
        BY <1>2 DEF c
    <2> QED BY <1>2, <2>1 DEF c
<1>4. ASSUME NEW i \in 1 .. Len(b) PROVE b[i] = {}
    <2>1. Len(a) + i \in 1 .. Len(c)
        BY <1>2 DEF c
    <2> QED BY <1>2, <2>1 DEF c
<1> QED BY <1>3, <1>4

LEMMA NameFaultIsCode == ASSUME NEW name PROVE NameFault(name) \subseteq CreateCode
<1>1. {"create.unsafe_name.empty", "create.unsafe_name.separator"} \subseteq CreateCode
    BY DEF CreateCode
<1>2. name \in DOMAIN Unsafe => Unsafe[name] \in CreateCode
    BY UnsafeAssumption
<1> HIDE DEF CreateCode
<1> QED BY <1>1, <1>2 DEF NameFault

LEMMA TextFaultIsCode == ASSUME NEW t PROVE TextFault(t) \subseteq CreateCode
<1>1. {"create.invalid.untrimmed_text", "create.invalid.text"} \subseteq CreateCode
    BY DEF CreateCode
<1> QED BY <1>1, Zenon DEF TextFault, When

LEMMA SizeIs == ASSUME NEW c \in EntryContent PROVE Size(c) \in Nat
<1>1. CASE c.kind = "file"
    <2>1. c.file \in File
        BY <1>1 DEF EntryContent
    <2> QED BY <1>1, <2>1, ProfileAssumption DEF Size
<1>2. CASE c.kind # "file"
    <2>1. c.events \in Seq(Event)
        BY <1>2 DEF EntryContent
    <2>2. Len(c.events) \in Nat
        BY <2>1
    <2> QED BY <1>2, <2>2 DEF Size
<1> QED BY <1>1, <1>2

LEMMA CeilingIs ==
    ASSUME NEW a \in Nat, NEW b \in Nat
    PROVE  Ceiling(a, b) \in Nat /\ Ceiling(a, b) <= a /\ Ceiling(a, b) <= b
<1>1. {a, b} \subseteq Nat /\ {a, b} # {}
    OBVIOUS
<1>2. Min({a, b}) \in {a, b} /\ \A n \in {a, b} : Min({a, b}) <= n
    BY <1>1, MinIs
<1> QED BY <1>2 DEF Ceiling

LEMMA DeriveChecksAre ==
    ASSUME NEW spec \in PackageSpec
    PROVE  DeriveChecks(spec) \in Seq(SUBSET CreateCode)
<1> DEFINE m == spec.metadata
           A == When(m.unknown_elements # 0, "create.invalid.unknown_elements")
           B == When(Len(m.dispatches) # 1 /\ (m.dispatches # <<>> \/ spec.attachments # <<>>),
                  "create.invalid.dispatch_count")
           D == When(\E d \in Range(m.dispatches) : Mismatch(d, References(spec.attachments)),
                   "create.invalid.reference_mismatch")
           N == [i \in DOMAIN spec.attachments |-> NameFault(spec.attachments[i].file_name)]
<1>1. {"create.invalid.unknown_elements", "create.invalid.dispatch_count",
       "create.invalid.reference_mismatch"} \subseteq CreateCode
    BY DEF CreateCode
<1>2. DeriveChecks(spec) = <<A>> \o N \o <<B, D>>
    BY DEF DeriveChecks
<1>3. A \subseteq CreateCode /\ B \subseteq CreateCode /\ D \subseteq CreateCode
    <2> HIDE DEF CreateCode
    <2> QED BY <1>1, Zenon DEF When
<1>4. N \in Seq(SUBSET CreateCode)
    <2>1. spec.attachments \in Seq(Attachment)
        BY DEF PackageSpec
    <2>2. Len(spec.attachments) \in Nat /\ DOMAIN spec.attachments = 1 .. Len(spec.attachments)
        BY <2>1
    <2>3. \A i \in DOMAIN spec.attachments : NameFault(spec.attachments[i].file_name) \in SUBSET CreateCode
        BY NameFaultIsCode
    <2> QED BY <2>2, <2>3
<1> HIDE DEF A, B, D, N
<1> QED BY <1>2, <1>3, <1>4

\* What a metadata value holds when it is only known to list references.
Listing(m) ==
    IsSequence(m.dispatches)
        /\ \A i \in 1 .. Len(m.dispatches) : IsSequence(m.dispatches[i].attachments)

LEMMA ListedAre == ASSUME NEW m, Listing(m) PROVE IsSequence(Attachments(m))
<1> DEFINE s == [i \in DOMAIN m.dispatches |-> m.dispatches[i].attachments]
           n == Len(m.dispatches)
<1>1. n \in Nat /\ DOMAIN m.dispatches = 1 .. n
    BY SequenceIs DEF Listing
<1>2. s = [i \in 1 .. n |-> s[i]]
    BY <1>1
<1>3. IsSequence(s) /\ Len(s) = n
    <2> HIDE DEF s, n
    <2> QED BY <1>1, <1>2, SequenceBy
<1>4. \A i \in 1 .. Len(s) : IsSequence(s[i])
    BY <1>1, <1>3 DEF Listing
<1>5. FromFirst(FlattenSeq(s), s, Len(s))
    <2> HIDE DEF s
    <2> QED BY <1>3, <1>4, Flattened
<1>6. Attachments(m) = FlattenSeq(s)
    BY DEF Attachments
<1> HIDE DEF s
<1> QED BY <1>5, <1>6 DEF FromFirst

LEMMA TextChecksAre ==
    ASSUME NEW m, Listing(m)
    PROVE  TextChecks(m) \in Seq(SUBSET CreateCode)
<1> DEFINE references == Attachments(m)
           s == [i \in DOMAIN references |-> ReferenceTexts(references[i])]
           n == Len(references)
<1>1. IsSequence(references)
    BY ListedAre
<1>2. n \in Nat /\ DOMAIN references = 1 .. n
    <2> HIDE DEF references
    <2> QED BY <1>1, SequenceIs
<1>3. s = [i \in 1 .. n |-> s[i]]
    BY <1>2
<1>4. IsSequence(s) /\ Len(s) = n
    <2> HIDE DEF s, n
    <2> QED BY <1>2, <1>3, SequenceBy
<1>5. \A i \in 1 .. Len(s) : IsSequence(s[i])
    <2> TAKE i \in 1 .. Len(s)
    <2> DEFINE a == references[i]
    <2>1. s[i] = <<a.description, Present(a.file_name), Present(a.size_text), Present(a.location),
                   a.quantity, a.quantity_unit>>
        BY <1>2, <1>4 DEF ReferenceTexts
    <2> DEFINE U == {a.description, Present(a.file_name), Present(a.size_text), Present(a.location),
                   a.quantity, a.quantity_unit}
    <2>2. s[i] \in Seq(U)
        <3> HIDE DEF s
        <3> QED BY <2>1
    <2> QED BY <2>2 DEF IsSequence
<1>6. IsSequence(FlattenSeq(s))
    <2>1. FromFirst(FlattenSeq(s), s, Len(s))
        <3> HIDE DEF s
        <3> QED BY <1>4, <1>5, Flattened
    <2> QED BY <2>1 DEF FromFirst
<1>7. IsSequence(HeaderTexts(m.header))
    <2> DEFINE h == m.header
               U == {Present(h.version), Present(h.consignment_id), Present(h.created_at_text), h.barcode,
                     h.reference_id, h.error_code, h.note}
    <2>1. HeaderTexts(m.header) \in Seq(U)
        BY DEF HeaderTexts
    <2> QED BY <2>1 DEF IsSequence
<1> DEFINE texts == HeaderTexts(m.header) \o FlattenSeq(s)
           c == [i \in DOMAIN texts |-> UNION {TextFault(t) : t \in texts[i]}]
<1>8. IsSequence(texts)
    <2> HIDE DEF s
    <2> QED BY <1>6, <1>7, Joined
<1>9. TextChecks(m) = c
    BY DEF TextChecks, Texts
<1> HIDE DEF texts
<1>10. Len(texts) \in Nat /\ DOMAIN texts = 1 .. Len(texts)
    BY <1>8, SequenceIs
<1>11. \A i \in DOMAIN texts : UNION {TextFault(t) : t \in texts[i]} \in SUBSET CreateCode
    BY TextFaultIsCode
<1>12. c \in Seq(SUBSET CreateCode)
    BY <1>10, <1>11
<1> QED BY <1>9, <1>12

\* A sequence of sequences of checks, all of which find nothing.
LEMMA ChecksFlattened ==
    ASSUME NEW C, NEW s, IsSequence(s), \A i \in 1 .. Len(s) : s[i] \in Seq(SUBSET C)
    PROVE  /\ FlattenSeq(s) \in Seq(SUBSET C)
           /\ (\A k \in 1 .. Len(FlattenSeq(s)) : FlattenSeq(s)[k] = {}) =>
                \A i \in 1 .. Len(s) : \A j \in 1 .. Len(s[i]) : s[i][j] = {}
<1>1. FlattenSeq(s) \in Seq(SUBSET C)
    BY FlattenTyped
<1>2. \A i \in 1 .. Len(s) : IsSequence(s[i])
    BY DEF IsSequence
<1>3. FromFirst(FlattenSeq(s), s, Len(s))
    BY <1>2, Flattened
<1>4. ASSUME \A k \in 1 .. Len(FlattenSeq(s)) : FlattenSeq(s)[k] = {},
             NEW i \in 1 .. Len(s), NEW j \in 1 .. Len(s[i])
      PROVE  s[i][j] = {}
    <2>1. PICK k \in 1 .. Len(FlattenSeq(s)) : FlattenSeq(s)[k] = s[i][j]
        BY <1>3 DEF FromFirst
    <2> QED BY <1>4, <2>1
<1> QED BY <1>1, <1>4

EntryChecks(entries, i) ==
    <<When(Len(entries[i].name) > MaxName, "create.over_limit.name_bytes"),
      When(Size(entries[i].content) > Ceiling(MaxEntry, Word32), "create.over_limit.entry_bytes"),
      When(DecodedTo(entries, i) > MaxTotal, "create.over_limit.total_bytes")>>

LEMMA LimitChecksAre ==
    ASSUME NEW entries, IsSequence(entries)
    PROVE  /\ LimitChecks(entries) \in Seq(SUBSET CreateCode)
           /\ (\A k \in 1 .. Len(LimitChecks(entries)) : LimitChecks(entries)[k] = {}) =>
                /\ ~(Len(entries) > Ceiling(MaxEntries, Word16))
                /\ \A i \in 1 .. Len(entries) :
                      ~(Size(entries[i].content) > Ceiling(MaxEntry, Word32))
<1> DEFINE A == When(Len(entries) > Ceiling(MaxEntries, Word16), "create.over_limit.entries")
           s == [i \in DOMAIN entries |-> EntryChecks(entries, i)]
           n == Len(entries)
<1>1. {"create.over_limit.entries", "create.over_limit.name_bytes",
       "create.over_limit.entry_bytes", "create.over_limit.total_bytes"} \subseteq CreateCode
    BY DEF CreateCode
<1>2. n \in Nat /\ DOMAIN entries = 1 .. n
    BY SequenceIs
<1>3. LimitChecks(entries) = <<A>> \o FlattenSeq(s)
    BY Zenon DEF LimitChecks, EntryChecks
<1>4. s = [i \in 1 .. n |-> s[i]]
    BY <1>2
<1>5. IsSequence(s) /\ Len(s) = n
    <2> HIDE DEF s, n
    <2> QED BY <1>2, <1>4, SequenceBy
<1>6. \A i \in 1 .. n :
         /\ s[i] \in Seq(SUBSET CreateCode) /\ Len(s[i]) = 3
         /\ s[i][2] = {} => ~(Size(entries[i].content) > Ceiling(MaxEntry, Word32))
    <2> TAKE i \in 1 .. n
    <2>0. s[i] = EntryChecks(entries, i)
        BY <1>2
    <2> DEFINE X == When(Len(entries[i].name) > MaxName, "create.over_limit.name_bytes")
               Y == When(Size(entries[i].content) > Ceiling(MaxEntry, Word32), "create.over_limit.entry_bytes")
               Z == When(DecodedTo(entries, i) > MaxTotal, "create.over_limit.total_bytes")
    <2>1. s[i] = <<X, Y, Z>>
        BY <2>0 DEF EntryChecks
    <2>2. X \in SUBSET CreateCode /\ Y \in SUBSET CreateCode /\ Z \in SUBSET CreateCode
        <3> HIDE DEF CreateCode
        <3> QED BY <1>1, WhenIs
    <2>3. Y = {} => ~(Size(entries[i].content) > Ceiling(MaxEntry, Word32))
        BY WhenIs
    <2> HIDE DEF X, Y, Z, s, CreateCode
    <2> QED BY <2>1, <2>2, <2>3
<1>7. /\ FlattenSeq(s) \in Seq(SUBSET CreateCode)
      /\ (\A k \in 1 .. Len(FlattenSeq(s)) : FlattenSeq(s)[k] = {}) =>
            \A i \in 1 .. Len(s) : \A j \in 1 .. Len(s[i]) : s[i][j] = {}
    <2> HIDE DEF s
    <2> QED BY <1>5, <1>6, ChecksFlattened
<1>8. <<A>> \in Seq(SUBSET CreateCode)
    <2>1. A \in SUBSET CreateCode
        <3> HIDE DEF CreateCode
        <3> QED BY <1>1, WhenIs
    <2> HIDE DEF A
    <2> QED BY <2>1
<1>9. LimitChecks(entries) \in Seq(SUBSET CreateCode)
    <2> HIDE DEF A, s
    <2> QED BY <1>3, <1>7, <1>8
<1>10. ASSUME \A k \in 1 .. Len(LimitChecks(entries)) : LimitChecks(entries)[k] = {}
       PROVE  /\ ~(Len(entries) > Ceiling(MaxEntries, Word16))
              /\ \A i \in 1 .. Len(entries) :
                    ~(Size(entries[i].content) > Ceiling(MaxEntry, Word32))
    <2>1. /\ \A k \in 1 .. Len(<<A>>) : <<A>>[k] = {}
          /\ \A k \in 1 .. Len(FlattenSeq(s)) : FlattenSeq(s)[k] = {}
        <3> DEFINE F == FlattenSeq(s)
                   a == <<A>>
        <3>1. a \in Seq(SUBSET CreateCode) /\ F \in Seq(SUBSET CreateCode)
            BY <1>7, <1>8
        <3>2. LimitChecks(entries) = a \o F
            BY <1>3
        <3> HIDE DEF a, F
        <3>3. \A k \in 1 .. Len(a \o F) : (a \o F)[k] = {}
            BY <1>10, <3>2
        <3>4. (\A k \in 1 .. Len(a) : a[k] = {}) /\ \A k \in 1 .. Len(F) : F[k] = {}
            BY <3>1, <3>3, ChecksJoined
        <3> QED BY <3>4 DEF a, F
    <2>2. A = {}
        <3> HIDE DEF A
        <3> QED BY <2>1
    <2>3. \A i \in 1 .. n : s[i][2] = {}
        <3>1. \A i \in 1 .. n : \A j \in 1 .. Len(s[i]) : s[i][j] = {}
            BY <1>5, <1>7, <2>1
        <3> HIDE DEF s, n
        <3> QED BY <1>6, <3>1
    <2>4. ~(Len(entries) > Ceiling(MaxEntries, Word16))
        BY <2>2, WhenIs
    <2> HIDE DEF s
    <2> QED BY <1>6, <2>3, <2>4
<1> QED BY <1>9, <1>10

LEMMA RatioChecksAre ==
    ASSUME NEW entries, IsSequence(entries)
    PROVE  RatioChecks(entries) \in Seq(SUBSET CreateCode)
<1> DEFINE check(i) == When(Size(entries[i].content) > Grace /\ Ratio(entries[i]) > MaxRatio,
                            "create.over_limit.compression_ratio")
<1>1. "create.over_limit.compression_ratio" \in CreateCode
    BY DEF CreateCode
<1>2. Len(entries) \in Nat /\ DOMAIN entries = 1 .. Len(entries)
    BY SequenceIs
<1>3. \A i : check(i) \in SUBSET CreateCode
    <2> HIDE DEF CreateCode
    <2> QED BY <1>1, Zenon DEF When
<1>4. RatioChecks(entries) = [i \in DOMAIN entries |-> check(i)]
    BY DEF RatioChecks
<1> HIDE DEF check
<1> QED BY <1>2, <1>3, <1>4

\* The part of package() that judges a request with its entries.
LEMMA JudgedIs ==
    ASSUME NEW spec \in PackageSpec, Listing(Derived(spec)), NEW entries, IsSequence(entries),
           NEW r, r = Judged(spec, entries)
    PROVE  \/ r.kind = "refused" /\ r.code \in CreateCode
           \/ /\ r.kind = "written" /\ r.inventory = entries
              /\ \A i \in 1 .. Len(DeriveChecks(spec)) : DeriveChecks(spec)[i] = {}
              /\ ~(Len(entries) > Ceiling(MaxEntries, Word16))
              /\ \A i \in 1 .. Len(entries) :
                    ~(Size(entries[i].content) > Ceiling(MaxEntry, Word32))
<1> DEFINE A == DeriveChecks(spec)
           T == TextChecks(Derived(spec))
           L == LimitChecks(entries)
           R == RatioChecks(entries)
           W == When(ImageBytes(entries) > Ceiling(MaxArchive, Word32), "create.over_limit.archive_bytes")
           B == T \o L \o R \o <<W>>
           fault == IF FirstOf(A) # {} THEN FirstOf(A) ELSE FirstOf(B)
<1>1. r = IF fault = {} THEN [kind |-> "written", inventory |-> entries]
          ELSE [kind |-> "refused", code |-> The(fault)]
    BY Zenon DEF Judged
<1>2. A \in Seq(SUBSET CreateCode)
    BY DeriveChecksAre
<1>3. T \in Seq(SUBSET CreateCode) /\ L \in Seq(SUBSET CreateCode) /\ R \in Seq(SUBSET CreateCode)
    BY TextChecksAre, LimitChecksAre, RatioChecksAre
<1>4. <<W>> \in Seq(SUBSET CreateCode)
    <2>1. "create.over_limit.archive_bytes" \in CreateCode
        BY DEF CreateCode
    <2>2. W \in SUBSET CreateCode
        <3> HIDE DEF CreateCode
        <3> QED BY <2>1, Zenon DEF When
    <2> HIDE DEF W
    <2> QED BY <2>2
<1> HIDE DEF W
<1>5. B \in Seq(SUBSET CreateCode) /\ T \o L \o R \in Seq(SUBSET CreateCode) /\ T \o L \in Seq(SUBSET CreateCode)
    <2> HIDE DEF T, L, R
    <2> QED BY <1>3, <1>4
<1>6. /\ FirstOf(A) \subseteq CreateCode /\ FirstOf(B) \subseteq CreateCode
      /\ FirstOf(A) = {} => \A i \in 1 .. Len(A) : A[i] = {}
      /\ FirstOf(B) = {} => \A i \in 1 .. Len(B) : B[i] = {}
    <2> HIDE DEF A, B
    <2> QED BY <1>2, <1>5, FirstOfIs
<1>7. CASE fault # {}
    <2>1. fault \subseteq CreateCode
        <3> HIDE DEF A, B
        <3> QED BY <1>6
    <2> HIDE DEF fault
    <2>2. The(fault) \in CreateCode
        BY <1>7, <2>1, TheIs
    <2> QED BY <1>1, <1>7, <2>2
<1>8. CASE fault = {}
    <2>1. FirstOf(A) = {} /\ FirstOf(B) = {}
        <3> HIDE DEF A, B
        <3> QED BY <1>8
    <2>2. /\ \A i \in 1 .. Len(A) : A[i] = {}
          /\ \A i \in 1 .. Len(B) : B[i] = {}
        <3> HIDE DEF A, B
        <3> QED BY <1>6, <2>1
    <2>3. \A i \in 1 .. Len(T \o L \o R) : (T \o L \o R)[i] = {}
        <3> HIDE DEF T, L, R
        <3> QED BY <1>4, <1>5, <2>2, ChecksJoined
    <2>4. \A i \in 1 .. Len(T \o L) : (T \o L)[i] = {}
        <3> HIDE DEF T, L, R
        <3> QED BY <1>3, <1>5, <2>3, ChecksJoined
    <2>5. \A i \in 1 .. Len(L) : L[i] = {}
        <3> HIDE DEF T, L, R
        <3> QED BY <1>3, <2>4, ChecksJoined
    <2>6. /\ ~(Len(entries) > Ceiling(MaxEntries, Word16))
          /\ \A i \in 1 .. Len(entries) :
                ~(Size(entries[i].content) > Ceiling(MaxEntry, Word32))
        BY <2>5, LimitChecksAre
    <2>7. r.kind = "written" /\ r.inventory = entries
        <3> HIDE DEF fault
        <3> QED BY <1>1, <1>8
    <2> QED BY <2>2, <2>6, <2>7
<1> QED BY <1>7, <1>8

-----------------------------------------------------------------------------
(* package(): what it writes.                                              *)

LEMMA NoEvents == <<>> \in Seq(Event)
OBVIOUS

LEMMA ElementIs ==
    ASSUME NEW name \in ElementNames, NEW inner \in Seq(Event)
    PROVE  Element(name, inner) \in Seq(Event)
<1>1. name \in STRING
    BY NamesAreStrings
<1>2. Start(name, "target") \in Event
    <2>1. <<>> \in Seq(Attribute)
        OBVIOUS
    <2> QED BY <1>1, <2>1, StartIs DEF Start
<1>3. <<Start(name, "target")>> \in Seq(Event)
    BY <1>2
<1> HIDE DEF Event
<1> QED BY <1>3, EndIs DEF Element

LEMMA TextElementIs ==
    ASSUME NEW name \in ElementNames, NEW t \in Text
    PROVE  TextElement(name, t) \in Seq(Event)
BY EscapeIs, ElementIs DEF TextElement

LEMMA OptionalIs ==
    ASSUME NEW name \in ElementNames, NEW option, option \subseteq Text
    PROVE  Optional(name, option) \in Seq(Event)
<1>1. CASE option = Absent
    BY <1>1, NoEvents DEF Optional
<1>2. CASE option # Absent
    <2>1. The(option) \in Text
        BY <1>2, TheIs DEF Absent
    <2> QED BY <1>2, <2>1, TextElementIs DEF Optional
<1> QED BY <1>1, <1>2

LEMMA BlockIs ==
    ASSUME NEW name \in ElementNames, NEW present
    PROVE  Block(present, name) \in Seq(Event)
<1>1. Element(name, <<>>) \in Seq(Event)
    BY ElementIs, NoEvents
<1> QED BY <1>1, NoEvents DEF Block

LEMMA HeaderElementIs ==
    ASSUME NEW h \in Header
    PROVE  HeaderElement(h) \in Seq(Event)
<1> DEFINE test == IF h.test_present
                   THEN Present(IF h.test THEN <<"true">> ELSE <<"false">>) ELSE Absent
<1>1. /\ h.version \in Text /\ h.consignment_id \in Text /\ h.created_at_text \in Text
      /\ h.barcode \subseteq Text /\ h.reference_id \subseteq Text /\ h.error_code \subseteq Text
      /\ h.note \subseteq Text /\ h.source_system \in SourceSystem
      /\ h.consignment_kind \in ConsignmentKind
    BY DEF Header
<1>2. <<h.source_system>> \in Text /\ <<h.consignment_kind>> \in Text
    BY <1>1, WordsAssumption, WordIsText
<1>3. test \subseteq Text
    <2>1. <<"true">> \in Text /\ <<"false">> \in Text
        BY WordsAssumption, WordIsText
    <2> QED BY <2>1 DEF Present, Absent
<1> DEFINE a1 == TextElement("KRX_VERZIOSZAM", h.version)
           a2 == TextElement("FORRASRENDSZER_AZONOSITO", <<h.source_system>>)
           a3 == TextElement("KULDEMENY_AZONOSITO", h.consignment_id)
           a4 == TextElement("KULDEMENY_LETREHOZASANAK_IDEJE", h.created_at_text)
           a5 == TextElement("KULDEMENY_TIPUS", <<h.consignment_kind>>)
           a6 == Optional("TESZT", test)
           a7 == Optional("VONALKOD", h.barcode)
           a8 == Optional("KULDEMENY_HIVATKOZASI_AZONOSITO", h.reference_id)
           a9 == Optional("HIBAKOD", h.error_code)
           a10 == Optional("KULDEMENY_MEGJEGYZES", h.note)
<1>4. /\ {"FEJRESZ", "KRX_VERZIOSZAM", "FORRASRENDSZER_AZONOSITO", "KULDEMENY_AZONOSITO",
          "KULDEMENY_LETREHOZASANAK_IDEJE", "KULDEMENY_TIPUS"} \subseteq ElementNames
      /\ {"TESZT", "VONALKOD", "KULDEMENY_HIVATKOZASI_AZONOSITO", "HIBAKOD",
          "KULDEMENY_MEGJEGYZES"} \subseteq ElementNames
    BY DEF ElementNames, HeaderRequired, HeaderOptional
<1> HIDE DEF test, Text, Event, ElementNames
<1>5. /\ a1 \in Seq(Event) /\ a2 \in Seq(Event) /\ a3 \in Seq(Event) /\ a4 \in Seq(Event)
      /\ a5 \in Seq(Event)
    BY <1>1, <1>2, <1>4, TextElementIs
<1>6. /\ a6 \in Seq(Event) /\ a7 \in Seq(Event) /\ a8 \in Seq(Event) /\ a9 \in Seq(Event)
      /\ a10 \in Seq(Event)
    BY <1>1, <1>3, <1>4, OptionalIs
<1>7. HeaderElement(h) = Element("FEJRESZ", a1 \o a2 \o a3 \o a4 \o a5 \o a6 \o a7 \o a8 \o a9 \o a10)
    BY DEF HeaderElement, test
<1> HIDE DEF a1, a2, a3, a4, a5, a6, a7, a8, a9, a10
<1>8. a1 \o a2 \o a3 \o a4 \o a5 \in Seq(Event)
    BY <1>5
<1>9. a1 \o a2 \o a3 \o a4 \o a5 \o a6 \o a7 \o a8 \o a9 \o a10 \in Seq(Event)
    BY <1>6, <1>8
<1> QED BY <1>4, <1>7, <1>9, ElementIs

LEMMA AttachmentElementIs ==
    ASSUME NEW a \in AttachmentReference, Decimal[a.number] \in Text
    PROVE  AttachmentElement(a) \in Seq(Event)
<1>1. /\ a.file_name \in Text /\ a.size_text \in Text /\ a.location \in Text
      /\ a.description \subseteq Text /\ a.quantity \subseteq Text /\ a.quantity_unit \subseteq Text
    BY DEF AttachmentReference
<1>2. {"MELLEKLET", "MELLEKLET_LEIRASA", "CSATOLMANY_SZAMA", "FAJL_NEV", "MERET",
       "ELHELYEZKEDES", "MENNYISEG", "MENNYISEGI_EGYSEG"} \subseteq ElementNames
    BY DEF ElementNames, AttachmentRequired, AttachmentOptional
<1> DEFINE a1 == Optional("MELLEKLET_LEIRASA", a.description)
           a2 == TextElement("CSATOLMANY_SZAMA", Decimal[a.number])
           a3 == TextElement("FAJL_NEV", a.file_name)
           a4 == TextElement("MERET", a.size_text)
           a5 == TextElement("ELHELYEZKEDES", a.location)
           a6 == Optional("MENNYISEG", a.quantity)
           a7 == Optional("MENNYISEGI_EGYSEG", a.quantity_unit)
<1> HIDE DEF Text, Event, ElementNames
<1>3. /\ a2 \in Seq(Event) /\ a3 \in Seq(Event) /\ a4 \in Seq(Event) /\ a5 \in Seq(Event)
    BY <1>1, <1>2, TextElementIs
<1>4. a1 \in Seq(Event) /\ a6 \in Seq(Event) /\ a7 \in Seq(Event)
    BY <1>1, <1>2, OptionalIs
<1>5. AttachmentElement(a) = Element("MELLEKLET", a1 \o a2 \o a3 \o a4 \o a5 \o a6 \o a7)
    BY DEF AttachmentElement
<1> HIDE DEF a1, a2, a3, a4, a5, a6, a7
<1>6. a1 \o a2 \o a3 \o a4 \o a5 \o a6 \o a7 \in Seq(Event)
    BY <1>3, <1>4
<1> QED BY <1>2, <1>5, <1>6, ElementIs

\* Every number of it is written as a text.
Countable(d) ==
    /\ \A n \in d.declared_attachment_count : Decimal[n] \in Text
    /\ \A i \in 1 .. Len(d.attachments) : Decimal[d.attachments[i].number] \in Text

LEMMA DispatchElementIs ==
    ASSUME NEW d \in Dispatch, Countable(d)
    PROVE  DispatchElement(d) \in Seq(Event)
<1> DEFINE count == {Decimal[n] : n \in d.declared_attachment_count}
           s == [i \in DOMAIN d.attachments |-> AttachmentElement(d.attachments[i])]
           list == FlattenSeq(s)
           a1 == Optional("MELLEKLETEK_SZAMA", count)
           a2 == IF d.attachments_present \/ list # <<>> THEN Element("MELLEKLETEK", list) ELSE <<>>
           a3 == IF d.handling_instructions_unqualified
                 THEN <<Start("KEZELESI_UTASITASOK", "unbound"), [kind |-> "end"]>> ELSE <<>>
           n == Len(d.attachments)
<1>1. /\ d.attachments \in Seq(AttachmentReference)
      /\ n \in Nat /\ DOMAIN d.attachments = 1 .. n
    BY DEF Dispatch
<1>2. {"MELLEKLETEK_SZAMA", "MELLEKLETEK", "EXPEDIALAS", "KEZELESI_UTASITASOK"} \subseteq ElementNames
    BY DEF ElementNames
<1>3. a1 \in Seq(Event)
    <2>1. count \subseteq Text
        BY DEF Countable
    <2> HIDE DEF count, Event, ElementNames
    <2> QED BY <1>2, <2>1, OptionalIs
<1>4. list \in Seq(Event)
    <2>1. \A i \in 1 .. n : AttachmentElement(d.attachments[i]) \in Seq(Event)
        BY <1>1, AttachmentElementIs DEF Countable
    <2>2. s = [i \in 1 .. n |-> s[i]] /\ \A i \in 1 .. n : s[i] = AttachmentElement(d.attachments[i])
        BY <1>1
    <2>3. IsSequence(s) /\ Len(s) = n
        <3> HIDE DEF s, n
        <3> QED BY <1>1, <2>2, SequenceBy
    <2> HIDE DEF s, n, Event
    <2> QED BY <2>1, <2>2, <2>3, FlattenTyped
<1>5. a2 \in Seq(Event)
    <2> HIDE DEF list, Event, ElementNames
    <2>1. Element("MELLEKLETEK", list) \in Seq(Event)
        BY <1>2, <1>4, ElementIs
    <2> QED BY <2>1, NoEvents
<1>6. a3 \in Seq(Event)
    <2>1. Start("KEZELESI_UTASITASOK", "unbound") \in Event
        <3>1. <<>> \in Seq(Attribute)
            OBVIOUS
        <3> HIDE DEF Event
        <3> QED BY <1>2, <3>1, StartIs, NamesAreStrings DEF Start
    <2> HIDE DEF Event
    <2> QED BY <2>1, EndIs, NoEvents
<1>7. DispatchElement(d) = Element("EXPEDIALAS", a1 \o a2 \o a3)
    BY DEF DispatchElement
<1> HIDE DEF a1, a2, a3, Event, ElementNames
<1>8. a1 \o a2 \o a3 \in Seq(Event)
    BY <1>3, <1>5, <1>6
<1> QED BY <1>2, <1>7, <1>8, ElementIs

\* The document of a value whose numbers can be written.
LEMMA SerialisedIs ==
    ASSUME NEW m \in Metadata, \A i \in 1 .. Len(m.dispatches) : Countable(m.dispatches[i])
    PROVE  Serialised(m) \in Seq(Event)
<1> DEFINE ds == m.dispatches
           n == Len(ds)
           s == [i \in DOMAIN ds |-> DispatchElement(ds[i])]
           list == FlattenSeq(s)
           root == [Start("KULDEMENY", "target") EXCEPT !.attributes = <<[raw |-> 1, value |-> 1]>>]
           declaration == [kind |-> "declaration", encoding |-> "utf8"]
           a1 == HeaderElement(m.header)
           a2 == Block(m.receipt_present, "ERKEZTETES")
           a3 == Block(m.openings_present, "BONTASOK")
           a4 == IF ds = <<>> THEN <<>> ELSE Element("EXPEDIALASOK", list)
           a5 == Block(m.return_receipt_present, "TERTIVEVENY")
<1>1. ds \in Seq(Dispatch) /\ n \in Nat /\ DOMAIN ds = 1 .. n /\ m.header \in Header
    BY DEF Metadata
<1>2. {"KULDEMENY", "ERKEZTETES", "BONTASOK", "EXPEDIALASOK", "TERTIVEVENY"} \subseteq ElementNames
    BY DEF ElementNames
<1>3. a1 \in Seq(Event) /\ a2 \in Seq(Event) /\ a3 \in Seq(Event) /\ a5 \in Seq(Event)
    <2> HIDE DEF Event, ElementNames
    <2> QED BY <1>1, <1>2, HeaderElementIs, BlockIs
<1>4. list \in Seq(Event)
    <2>1. \A i \in 1 .. n : DispatchElement(ds[i]) \in Seq(Event)
        BY <1>1, DispatchElementIs
    <2>2. s = [i \in 1 .. n |-> s[i]] /\ \A i \in 1 .. n : s[i] = DispatchElement(ds[i])
        BY <1>1
    <2>3. IsSequence(s) /\ Len(s) = n
        <3> HIDE DEF s, n
        <3> QED BY <1>1, <2>2, SequenceBy
    <2> HIDE DEF s, n, Event
    <2> QED BY <2>1, <2>2, <2>3, FlattenTyped
<1>5. a4 \in Seq(Event)
    <2> HIDE DEF list, Event, ElementNames
    <2>1. Element("EXPEDIALASOK", list) \in Seq(Event)
        BY <1>2, <1>4, ElementIs
    <2> QED BY <2>1, NoEvents
<1>6. root \in Event
    <2>1. <<[raw |-> 1, value |-> 1]>> \in Seq(Attribute)
        <3>1. [raw |-> 1, value |-> 1] \in Attribute
            BY DEF Attribute
        <3> HIDE DEF Attribute
        <3> QED BY <3>1
    <2>2. "KULDEMENY" \in STRING
        BY <1>2, NamesAreStrings
    <2> DEFINE x == <<[raw |-> 1, value |-> 1]>>
    <2>3. root = [kind |-> "start", name |-> "KULDEMENY", binding |-> "target", attributes |-> x]
        BY DEF Start
    <2> HIDE DEF x, Event, root, Attribute
    <2>4. x \in Seq(Attribute)
        BY <2>1 DEF x
    <2> QED BY <2>2, <2>3, <2>4, StartIs
<1>7. declaration \in Event
    BY DEF Event, DeclarationEvent
<1> DEFINE first == <<declaration, root>>
           end == <<[kind |-> "end"]>>
<1>8. first \in Seq(Event) /\ end \in Seq(Event)
    <2> HIDE DEF declaration, root, Event
    <2> QED BY <1>6, <1>7, EndIs
<1>9. Serialised(m) = first \o a1 \o a2 \o a3 \o a4 \o a5 \o end
    BY DEF Serialised
<1> HIDE DEF first, end, a1, a2, a3, a4, a5, Event
<1> QED BY <1>3, <1>5, <1>8, <1>9

LEMMA LayoutWords ==
    /\ CanonicalRoot \in Text /\ MarkerName \in Text /\ MetadataName \in Text
    /\ <<"Payload", "/", "ID-">> \in Text /\ <<"/">> \in Text
<1>1. /\ CanonicalRoot \in Seq({"KRX", "OCD", "/"}) /\ Len(CanonicalRoot) = 4
      /\ CanonicalRoot[1] = "KRX" /\ CanonicalRoot[2] = "/" /\ CanonicalRoot[3] = "OCD"
    BY DEF CanonicalRoot
<1>2. Mimetype \in Seq({"mimetype"}) /\ Len(Mimetype) = 1
    BY DEF Mimetype
<1>3. IsSequence(CanonicalRoot) /\ IsSequence(Mimetype)
    BY <1>1, <1>2 DEF IsSequence
<1>4. /\ IsSequence(MarkerName)
      /\ Len(MarkerName) = Len(CanonicalRoot) + Len(Mimetype)
      /\ \A k \in 1 .. Len(CanonicalRoot) : MarkerName[k] = CanonicalRoot[k]
    BY <1>3, Joined, Zenon DEF MarkerName
<1>5. /\ Len(MarkerName) = 5 /\ DOMAIN MarkerName = 1 .. 5
      /\ MarkerName[1] = "KRX" /\ MarkerName[2] = "/" /\ MarkerName[3] = "OCD"
    <2>1. Len(MarkerName) = 5
        BY <1>1, <1>2, <1>4
    <2>2. DOMAIN MarkerName = 1 .. 5
        BY <1>4, <2>1, SequenceIs
    <2>3. \A k \in 1 .. 4 : MarkerName[k] = CanonicalRoot[k]
        BY <1>1, <1>4
    <2> QED BY <1>1, <2>1, <2>2, <2>3
<1>6. {"KRX", "OCD", "/"} \subseteq Range(MarkerName)
    <2>1. 1 \in DOMAIN MarkerName /\ 2 \in DOMAIN MarkerName /\ 3 \in DOMAIN MarkerName
        BY <1>5
    <2> QED BY <1>5, <2>1 DEF Range
<1>7. Range(MarkerName) \subseteq Piece /\ Range(MetadataName) \subseteq Piece
      /\ {"KRX", "OCD", "/", "Payload", "ID-"} \subseteq Piece
    BY <1>6, LayoutAssumption
<1>8. /\ CanonicalRoot \in Text /\ <<"Payload", "/", "ID-">> \in Text /\ <<"/">> \in Text
    BY <1>7 DEF CanonicalRoot, Text
<1>9. ASSUME NEW s, IsSequence(s), Range(s) \subseteq Piece PROVE s \in Text
    <2>1. Len(s) \in Nat /\ DOMAIN s = 1 .. Len(s) /\ s = [i \in 1 .. Len(s) |-> s[i]]
        BY <1>9, SequenceIs
    <2>2. \A i \in 1 .. Len(s) : s[i] \in Piece
        BY <1>9, <2>1 DEF Range
    <2>3. s \in [1 .. Len(s) -> Piece]
        BY <2>1, <2>2
    <2> QED BY <2>1, <2>3 DEF Text
<1>10. IsSequence(MetadataName)
    <2>1. Metalayer \in Seq({"Metalayer"}) /\ <<"/">> \in Seq({"/"}) /\ MetadataFile \in Seq({"KULDEMENY_META.xml"})
        BY DEF Metalayer, MetadataFile
    <2>2. IsSequence(Metalayer) /\ IsSequence(<<"/">>) /\ IsSequence(MetadataFile)
        BY <2>1 DEF IsSequence
    <2> DEFINE w == <<"/">>
    <2>3. MetadataName = CanonicalRoot \o Metalayer \o w \o MetadataFile
        BY DEF MetadataName
    <2>4. IsSequence(w)
        BY <2>2
    <2> HIDE DEF w
    <2>5. IsSequence(CanonicalRoot \o Metalayer)
        BY <1>3, <2>2, Joined
    <2>6. IsSequence(CanonicalRoot \o Metalayer \o w)
        BY <2>4, <2>5, Joined
    <2> QED BY <2>2, <2>3, <2>6, Joined
<1>11. MarkerName \in Text
    BY <1>4, <1>7, <1>9
<1>12. MetadataName \in Text
    BY <1>7, <1>9, <1>10
<1> QED BY <1>8, <1>11, <1>12

\* The place of an attachment whose number can be written.
LEMMA LocationIs ==
    ASSUME NEW i, Decimal[i] \in Text
    PROVE  PayloadLocation(i) \in Text
<1> DEFINE w == <<"Payload", "/", "ID-">>
<1>1. CanonicalRoot \in Seq(Piece) /\ w \in Seq(Piece) /\ Decimal[i] \in Seq(Piece)
    BY LayoutWords DEF Text
<1>2. PayloadLocation(i) = CanonicalRoot \o w \o Decimal[i]
    BY DEF PayloadLocation
<1> HIDE DEF w
<1>3. CanonicalRoot \o w \in Seq(Piece)
    BY <1>1
<1>4. CanonicalRoot \o w \o Decimal[i] \in Seq(Piece)
    BY <1>1, <1>3
<1> QED BY <1>2, <1>4 DEF Text

LEMMA TextsJoined == ASSUME NEW a \in Text, NEW b \in Text PROVE a \o b \in Text
BY DEF Text

LEMMA PayloadNameIs ==
    ASSUME NEW i, Decimal[i] \in Text, NEW name \in Text
    PROVE  PayloadName(i, name) \in Text
<1>1. PayloadLocation(i) \in Text /\ <<"/">> \in Text
    BY LocationIs, LayoutWords
<1> DEFINE w == <<"/">>
<1>2. PayloadName(i, name) = PayloadLocation(i) \o w \o name
    BY DEF PayloadName
<1>3. w \in Text
    BY <1>1
<1> HIDE DEF w
<1> QED BY <1>1, <1>2, <1>3, TextsJoined

LEMMA EntryIs ==
    ASSUME NEW name \in Text, NEW content \in EntryContent
    PROVE  Entry(name, content) \in [name : Text, content : EntryContent, packed : Nat, crc32 : Nat]
<1>1. content.kind = "file" => content.file \in File
    BY DEF EntryContent
<1>2. PackedSize(content) \in Nat
    BY <1>1, SizeIs, CreationAssumption DEF PackedSize
<1>3. Crc32(content) \in Nat
    BY <1>1, CreationAssumption DEF Crc32
<1> QED BY <1>2, <1>3 DEF Entry

LEMMA ReferencesAre ==
    ASSUME NEW n \in Nat, NEW attachments \in Seq(Attachment), Len(attachments) = n,
           NEW r, r = References(attachments)
    PROVE  /\ IsSequence(r) /\ Len(r) = n
           /\ \A i \in 1 .. n : r[i].number = i
           /\ /\ n <= Ceiling(MaxEntries, Word16) - 2
              /\ \A i \in 1 .. n : Size(attachments[i].content) <= Ceiling(MaxEntry, Word32)
              => r \in Seq(AttachmentReference)
<1> DEFINE size_text(i) == DeclaredKilobytes(Size(attachments[i].content))
           one(i) ==
              [description |-> attachments[i].description, number |-> i,
               file_name |-> attachments[i].file_name,
               size_text |-> size_text(i), size_value |-> size_text(i) \in Finite,
               location |-> PayloadLocation(i), quantity |-> attachments[i].quantity,
               quantity_unit |-> attachments[i].quantity_unit]
<1>1. DOMAIN attachments = 1 .. n /\ \A i \in 1 .. n : attachments[i] \in Attachment
    OBVIOUS
<1>2. r = [i \in 1 .. n |-> one(i)]
    BY <1>1 DEF References
<1>3. \A i \in 1 .. n : r[i] = one(i) /\ r[i].number = i
    BY <1>2
<1>4. IsSequence(r) /\ Len(r) = n
    <2>1. r = [i \in 1 .. n |-> r[i]]
        BY <1>2
    <2> QED BY <2>1, SequenceBy
<1>5. ASSUME n <= Ceiling(MaxEntries, Word16) - 2,
             \A i \in 1 .. n : Size(attachments[i].content) <= Ceiling(MaxEntry, Word32)
      PROVE  r \in Seq(AttachmentReference)
    <2>1. ASSUME NEW i \in 1 .. n PROVE one(i) \in AttachmentReference
        <3>1. attachments[i] \in Attachment
            BY <1>1
        <3>2. /\ attachments[i].file_name \in Text /\ attachments[i].description \subseteq Text
              /\ attachments[i].quantity \subseteq Text /\ attachments[i].quantity_unit \subseteq Text
              /\ attachments[i].content \in EntryContent
            BY <3>1 DEF Attachment
        <3>3. size_text(i) \in Text
            <4>1. Size(attachments[i].content) \in Nat
                BY <3>2, SizeIs
            <4>2. Ceiling(MaxEntry, Word32) \in Nat
                BY CeilingIs, CreationAssumption
            <4>3. Size(attachments[i].content) \in 0 .. Ceiling(MaxEntry, Word32)
                BY <1>5, <4>1, <4>2
            <4> QED BY <4>3, NumbersAssumption
        <3>4. PayloadLocation(i) \in Text
            <4>1. Ceiling(MaxEntries, Word16) \in Nat
                BY CeilingIs, CreationAssumption
            <4>2. i \in 0 .. Ceiling(MaxEntries, Word16) - 2
                BY <1>5, <4>1
            <4> QED BY <4>2, NumbersAssumption, LocationIs
        <3>5. i \in Int /\ (size_text(i) \in Finite) \in BOOLEAN
            OBVIOUS
        <3> HIDE DEF size_text
        <3> QED BY <3>2, <3>3, <3>4, <3>5 DEF AttachmentReference
    <2> HIDE DEF one
    <2>2. r \in [1 .. n -> AttachmentReference]
        BY <1>2, <2>1
    <2> QED BY <2>2
<1> QED BY <1>3, <1>4, <1>5

LEMMA DerivedLists ==
    ASSUME NEW spec \in PackageSpec
    PROVE  Listing(Derived(spec))
<1> DEFINE m == spec.metadata
           r == References(spec.attachments)
<1>1. m.dispatches \in Seq(Dispatch) /\ m \in Metadata /\ spec.attachments \in Seq(Attachment)
    BY DEF PackageSpec, Metadata
<1>2. IsSequence(r)
    <2>1. Len(spec.attachments) \in Nat
        BY <1>1
    <2> QED BY <1>1, <2>1, ReferencesAre
<1>3. \A i \in 1 .. Len(m.dispatches) : IsSequence(m.dispatches[i].attachments)
    <2> TAKE i \in 1 .. Len(m.dispatches)
    <2>1. m.dispatches[i] \in Dispatch
        BY <1>1
    <2>2. m.dispatches[i].attachments \in Seq(AttachmentReference)
        BY <2>1 DEF Dispatch
    <2> QED BY <2>2 DEF IsSequence
<1>4. CASE m.dispatches = <<>>
    <2>1. Derived(spec) = m
        BY <1>4 DEF Derived
    <2> QED BY <1>1, <1>3, <2>1 DEF Listing, IsSequence
<1>5. CASE m.dispatches # <<>>
    <2> DEFINE p == Placed(m.dispatches[1], r)
               ds == [m.dispatches EXCEPT ![1] = p]
    <2>1. Derived(spec) = [m EXCEPT !.dispatches = ds]
        BY <1>5 DEF Derived
    <2>2. Derived(spec).dispatches = ds
        BY <1>1, <2>1 DEF Metadata
    <2>3. p.attachments = r
        <3>1. m.dispatches[1] \in Dispatch
            BY <1>1, <1>5
        <3> HIDE DEF r
        <3> QED BY <3>1 DEF Placed, Dispatch
    <2>a. Len(m.dispatches) \in Nat /\ DOMAIN m.dispatches = 1 .. Len(m.dispatches)
        BY <1>1
    <2> HIDE DEF p, r
    <2>b. ds = [i \in 1 .. Len(m.dispatches) |-> IF i = 1 THEN p ELSE m.dispatches[i]]
        <3> HIDE DEF m
        <3> QED BY <2>a
    <2>4. /\ ds = [i \in 1 .. Len(m.dispatches) |-> IF i = 1 THEN p ELSE m.dispatches[i]]
          /\ Len(m.dispatches) \in Nat
        BY <2>a, <2>b
    <2>5. IsSequence(ds) /\ Len(ds) = Len(m.dispatches)
        <3>1. ds = [i \in 1 .. Len(m.dispatches) |-> ds[i]]
            BY <2>4
        <3> HIDE DEF ds
        <3> QED BY <2>4, <3>1, SequenceBy
    <2>6. \A i \in 1 .. Len(ds) : IsSequence(ds[i].attachments)
        <3> TAKE i \in 1 .. Len(ds)
        <3>1. i \in 1 .. Len(m.dispatches)
            BY <2>5
        <3>2. ds[i] = IF i = 1 THEN p ELSE m.dispatches[i]
            BY <2>4, <3>1
        <3> HIDE DEF ds
        <3> QED BY <1>2, <1>3, <2>3, <3>1, <3>2
    <2> HIDE DEF ds
    <2> QED BY <2>2, <2>5, <2>6 DEF Listing
<1> QED BY <1>4, <1>5

\* The value package() derives within the limits, and its document.
LEMMA DerivedIs ==
    ASSUME NEW spec \in PackageSpec, NEW n \in Nat, n = Len(spec.attachments),
           n <= Ceiling(MaxEntries, Word16) - 2,
           \A i \in 1 .. n : Size(spec.attachments[i].content) <= Ceiling(MaxEntry, Word32),
           spec.metadata.dispatches # <<>> => Len(spec.metadata.dispatches) = 1
    PROVE  Derived(spec) \in Metadata /\ Serialised(Derived(spec)) \in Seq(Event)
<1> DEFINE m == spec.metadata
           r == References(spec.attachments)
<1>1. m.dispatches \in Seq(Dispatch) /\ m \in Metadata /\ spec.attachments \in Seq(Attachment)
    BY DEF PackageSpec, Metadata
<1>2. /\ IsSequence(r) /\ Len(r) = n /\ \A i \in 1 .. n : r[i].number = i
      /\ r \in Seq(AttachmentReference)
    BY <1>1, ReferencesAre
<1>3. \A k \in 0 .. n : Decimal[k] \in Text
    <2>1. Ceiling(MaxEntries, Word16) \in Nat
        BY CeilingIs, CreationAssumption
    <2>2. \A k \in 0 .. n : k \in 0 .. Ceiling(MaxEntries, Word16) - 2
        BY <2>1
    <2> QED BY <2>2, NumbersAssumption
<1>4. CASE m.dispatches = <<>>
    <2>1. Derived(spec) = m
        BY <1>4 DEF Derived
    <2>2. \A i \in 1 .. Len(m.dispatches) : Countable(m.dispatches[i])
        BY <1>4
    <2> HIDE DEF m
    <2> QED BY <1>1, <2>1, <2>2, SerialisedIs
<1>5. CASE m.dispatches # <<>>
    <2> DEFINE d == m.dispatches[1]
               p == Placed(d, r)
               ds == [m.dispatches EXCEPT ![1] = p]
               v == [m EXCEPT !.dispatches = ds]
    <2>1. Derived(spec) = v
        BY <1>5 DEF Derived
    <2>2. Len(m.dispatches) = 1 /\ d \in Dispatch
        BY <1>1, <1>5
    <2>3. p \in Dispatch /\ p.attachments = r /\ p.declared_attachment_count = {n}
        <3> HIDE DEF r, d
        <3>1. d.attachments_present \in BOOLEAN /\ (r # <<>>) \in BOOLEAN
            BY <2>2 DEF Dispatch
        <3>2. p = [d EXCEPT !.declared_attachment_count = {n}, !.attachments = r,
                            !.attachments_present = d.attachments_present \/ r # <<>>]
            BY <1>2 DEF Placed, Present
        <3> HIDE DEF p
        <3>3. n \in Int /\ (d.attachments_present \/ r # <<>>) \in BOOLEAN
            BY <3>1
        <3> QED BY <1>2, <2>2, <3>2, <3>3 DEF Dispatch
    <2>4. Countable(p)
        <3> HIDE DEF p, r
        <3> QED BY <1>2, <1>3, <2>3 DEF Countable
    <2> HIDE DEF p
    <2>5. ds \in Seq(Dispatch) /\ Len(ds) = 1 /\ ds[1] = p
        BY <1>1, <2>2, <2>3
    <2> HIDE DEF ds
    <2>6. v \in Metadata /\ v.dispatches = ds
        BY <1>1, <2>5 DEF Metadata
    <2> HIDE DEF v
    <2>7. \A i \in 1 .. Len(v.dispatches) : Countable(v.dispatches[i])
        <3>1. \A i \in 1 .. Len(ds) : i = 1
            BY <2>5
        <3>2. \A i \in 1 .. Len(ds) : Countable(ds[i])
            BY <2>4, <2>5, <3>1
        <3> QED BY <2>6, <3>2
    <2> QED BY <2>1, <2>6, <2>7, SerialisedIs
<1> QED BY <1>4, <1>5

LEMMA OneDispatch ==
    ASSUME NEW spec \in PackageSpec,
           \A i \in 1 .. Len(DeriveChecks(spec)) : DeriveChecks(spec)[i] = {}
    PROVE  spec.metadata.dispatches # <<>> => Len(spec.metadata.dispatches) = 1
<1> DEFINE m == spec.metadata
           A == When(m.unknown_elements # 0, "create.invalid.unknown_elements")
           B == When(Len(m.dispatches) # 1 /\ (m.dispatches # <<>> \/ spec.attachments # <<>>),
                  "create.invalid.dispatch_count")
           D == When(\E d \in Range(m.dispatches) : Mismatch(d, References(spec.attachments)),
                   "create.invalid.reference_mismatch")
           N == [i \in DOMAIN spec.attachments |-> NameFault(spec.attachments[i].file_name)]
           a == <<A>>
           b == <<B, D>>
<1>1. DeriveChecks(spec) = a \o N \o b
    BY DEF DeriveChecks
<1>2. N \in Seq(SUBSET CreateCode)
    <2>1. spec.attachments \in Seq(Attachment)
        BY DEF PackageSpec
    <2>2. Len(spec.attachments) \in Nat /\ DOMAIN spec.attachments = 1 .. Len(spec.attachments)
        BY <2>1
    <2>3. \A i \in DOMAIN spec.attachments : NameFault(spec.attachments[i].file_name) \in SUBSET CreateCode
        BY NameFaultIsCode
    <2> QED BY <2>2, <2>3
<1>3. A \in SUBSET CreateCode /\ B \in SUBSET CreateCode /\ D \in SUBSET CreateCode
    <2>1. {"create.invalid.unknown_elements", "create.invalid.dispatch_count",
           "create.invalid.reference_mismatch"} \subseteq CreateCode
        BY DEF CreateCode
    <2> HIDE DEF CreateCode
    <2> QED BY <2>1, Zenon DEF When
<1>4. a \in Seq(SUBSET CreateCode) /\ b \in Seq(SUBSET CreateCode) /\ b[1] = B /\ Len(b) = 2
    <2> HIDE DEF A, B, D
    <2> QED BY <1>3
<1> HIDE DEF a, b, N
<1>5. a \o N \in Seq(SUBSET CreateCode)
    BY <1>2, <1>4
<1>6. \A i \in 1 .. Len((a \o N) \o b) : ((a \o N) \o b)[i] = {}
    BY <1>1
<1>7. b[1] = {}
    <2> DEFINE c == a \o N
    <2>1. c \in Seq(SUBSET CreateCode) /\ \A i \in 1 .. Len(c \o b) : (c \o b)[i] = {}
        BY <1>5, <1>6
    <2> HIDE DEF c
    <2>2. \A i \in 1 .. Len(b) : b[i] = {}
        BY <1>4, <2>1, ChecksJoined
    <2>3. 1 \in 1 .. Len(b)
        BY <1>4
    <2> QED BY <2>2, <2>3
<1>8. ~(Len(m.dispatches) # 1 /\ (m.dispatches # <<>> \/ spec.attachments # <<>>))
    <2>1. B = {}
        BY <1>4, <1>7
    <2> QED BY <2>1, WhenIs
<1> QED BY <1>8

\* What package() returns: an inventory, or a code.
LEMMA PackageIs ==
    ASSUME NEW spec \in PackageSpec, NEW r, r = Package(spec)
    PROVE  \/ r.kind = "refused" /\ r.code \in CreateCode
           \/ r.kind = "written" /\ r.inventory \in Inventory
<1> DEFINE E == [name : Text, content : EntryContent, packed : Nat, crc32 : Nat]
           n == Len(spec.attachments)
           x == Entry(MarkerName, FileContent(MarkerFile))
           y == Entry(MetadataName, DocumentContent(Serialised(Derived(spec))))
           one(i) == Entry(PayloadName(i, spec.attachments[i].file_name), spec.attachments[i].content)
           rest == [i \in DOMAIN spec.attachments |-> one(i)]
           first == <<x, y>>
           entries == first \o rest
<1>1. spec.attachments \in Seq(Attachment) /\ n \in Nat /\ DOMAIN spec.attachments = 1 .. n
    BY DEF PackageSpec
<1>2. Entries(spec) = entries
    BY DEF Entries
<1>3. r = Judged(spec, entries)
    BY <1>2 DEF Package
<1>4. IsSequence(first) /\ Len(first) = 2 /\ first[1] = x /\ first[2] = y
    <2> HIDE DEF x, y
    <2>1. first \in Seq({x, y}) /\ Len(first) = 2 /\ first[1] = x /\ first[2] = y
        OBVIOUS
    <2> QED BY <2>1 DEF IsSequence
<1>5. IsSequence(rest) /\ Len(rest) = n /\ \A i \in 1 .. n : rest[i] = one(i)
    <2> HIDE DEF one, n
    <2>1. rest = [i \in 1 .. n |-> rest[i]] /\ \A i \in 1 .. n : rest[i] = one(i)
        BY <1>1
    <2> HIDE DEF rest
    <2> QED BY <1>1, <2>1, SequenceBy
<1> HIDE DEF first, rest
<1>6. /\ IsSequence(entries) /\ Len(entries) = 2 + n
      /\ \A i \in 1 .. Len(first) : entries[i] = first[i]
      /\ \A i \in 1 .. Len(rest) : entries[Len(first) + i] = rest[i]
    <2>1. /\ IsSequence(entries) /\ Len(entries) = Len(first) + Len(rest)
          /\ \A i \in 1 .. Len(first) : entries[i] = first[i]
          /\ \A i \in 1 .. Len(rest) : entries[Len(first) + i] = rest[i]
        <3> HIDE DEF one, x, y, n
        <3>1. IsSequence(first) /\ IsSequence(rest)
            BY <1>4, <1>5
        <3>2. IsSequence(first \o rest) /\ Len(first \o rest) = Len(first) + Len(rest)
            BY <3>1, Joined
        <3>3. \A i \in 1 .. Len(first) : (first \o rest)[i] = first[i]
            BY <3>1, Joined
        <3>4. \A i \in 1 .. Len(rest) : (first \o rest)[Len(first) + i] = rest[i]
            BY <3>1, Joined
        <3> QED BY <3>2, <3>3, <3>4 DEF entries
    <2> HIDE DEF entries, n
    <2> QED BY <1>4, <1>5, <2>1
<1>7. entries[1] = x /\ entries[2] = y /\ \A i \in 1 .. n : entries[2 + i] = one(i)
    <2> HIDE DEF entries, n, one, x, y
    <2> QED BY <1>4, <1>5, <1>6
<1> HIDE DEF entries
<1>8. \/ r.kind = "refused" /\ r.code \in CreateCode
      \/ /\ r.kind = "written" /\ r.inventory = entries
         /\ \A i \in 1 .. Len(DeriveChecks(spec)) : DeriveChecks(spec)[i] = {}
         /\ ~(Len(entries) > Ceiling(MaxEntries, Word16))
         /\ \A i \in 1 .. Len(entries) :
               ~(Size(entries[i].content) > Ceiling(MaxEntry, Word32))
    BY <1>3, <1>6, DerivedLists, JudgedIs
<1>9. ASSUME r.kind = "written", r.inventory = entries,
             \A i \in 1 .. Len(DeriveChecks(spec)) : DeriveChecks(spec)[i] = {},
             ~(Len(entries) > Ceiling(MaxEntries, Word16)),
             \A i \in 1 .. Len(entries) : ~(Size(entries[i].content) > Ceiling(MaxEntry, Word32))
      PROVE  entries \in Inventory
    <2>1. Ceiling(MaxEntries, Word16) \in Nat /\ Ceiling(MaxEntry, Word32) \in Nat
        BY CeilingIs, CreationAssumption
    <2>2. n <= Ceiling(MaxEntries, Word16) - 2
        BY <1>1, <1>6, <1>9, <2>1
    <2>3. ASSUME NEW i \in 1 .. n
          PROVE  /\ spec.attachments[i].content \in EntryContent
                 /\ spec.attachments[i].file_name \in Text
                 /\ Size(spec.attachments[i].content) <= Ceiling(MaxEntry, Word32)
        <3>1. spec.attachments[i] \in Attachment
            BY <1>1
        <3>2. spec.attachments[i].content \in EntryContent /\ spec.attachments[i].file_name \in Text
            BY <3>1 DEF Attachment
        <3>3. one(i).content = spec.attachments[i].content
            BY DEF Entry
        <3>4. 2 + i \in 1 .. Len(entries) /\ entries[2 + i] = one(i)
            BY <1>1, <1>6, <1>7
        <3>5. ~(Size(spec.attachments[i].content) > Ceiling(MaxEntry, Word32))
            BY <1>9, <3>3, <3>4
        <3>6. Size(spec.attachments[i].content) \in Nat
            BY <3>2, SizeIs
        <3> QED BY <2>1, <3>2, <3>5, <3>6
    <2>4. Serialised(Derived(spec)) \in Seq(Event)
        <3>1. spec.metadata.dispatches # <<>> => Len(spec.metadata.dispatches) = 1
            BY <1>9, OneDispatch
        <3> QED BY <1>1, <2>2, <2>3, <3>1, DerivedIs
    <2>5. x \in E
        <3>1. FileContent(MarkerFile) \in EntryContent
            BY ProfileAssumption DEF FileContent, EntryContent
        <3> QED BY <3>1, EntryIs, LayoutWords
    <2>6. y \in E
        BY <2>4, DocumentIsContent, EntryIs, LayoutWords
    <2>7. ASSUME NEW i \in 1 .. n PROVE one(i) \in E
        <3>1. i \in 0 .. Ceiling(MaxEntries, Word16) - 2
            BY <2>1, <2>2
        <3>2. Decimal[i] \in Text
            BY <3>1, NumbersAssumption
        <3> QED BY <2>3, <3>2, PayloadNameIs, EntryIs
    <2>8. ASSUME NEW k \in 1 .. Len(entries) PROVE entries[k] \in E
        <3>1. k = 1 \/ k = 2 \/ (k - 2 \in 1 .. n /\ k = 2 + (k - 2))
            BY <1>1, <1>6
        <3> HIDE DEF x, y, one, E, n
        <3>2. CASE k = 1
            BY <1>7, <2>5, <3>2
        <3>3. CASE k = 2
            BY <1>7, <2>6, <3>3
        <3>4. CASE k - 2 \in 1 .. n /\ k = 2 + (k - 2)
            BY <1>7, <2>7, <3>4
        <3> QED BY <3>1, <3>2, <3>3, <3>4
    <2>9. Len(entries) \in Nat /\ entries = [k \in 1 .. Len(entries) |-> entries[k]]
        BY <1>6, SequenceIs
    <2>10. entries \in [1 .. Len(entries) -> E]
        <3> HIDE DEF E
        <3> QED BY <2>8, <2>9
    <2>11. entries \in Seq(E)
        <3> HIDE DEF E
        <3> QED BY <2>9, <2>10
    <2>12. Len(entries) <= Ceiling(MaxEntries, Word16)
        BY <1>9, <2>1, <2>9
    <2> QED BY <2>11, <2>12 DEF Inventory
<1> QED BY <1>8, <1>9

-----------------------------------------------------------------------------
(* plan(): the layout and the checks.                                      *)

EntryOf == [name : Text, content : EntryContent, packed : Nat, crc32 : Nat]

LEMMA InventoryIs ==
    ASSUME NEW inv \in Inventory
    PROVE  /\ inv \in Seq(EntryOf) /\ Len(inv) \in Nat /\ DOMAIN inv = 1 .. Len(inv)
           /\ \A i \in 1 .. Len(inv) :
                 /\ inv[i].name \in Text /\ inv[i].content \in EntryContent /\ inv[i].crc32 \in Nat
           /\ \A n \in 0 .. Len(inv) - 2 : Decimal[n] \in Text
<1>1. inv \in Seq(EntryOf) /\ Len(inv) <= Ceiling(MaxEntries, Word16)
    BY Zenon DEF Inventory, EntryOf
<1>2. Len(inv) \in Nat /\ DOMAIN inv = 1 .. Len(inv)
    <2> HIDE DEF EntryOf
    <2> QED BY <1>1
<1>3. ASSUME NEW i \in 1 .. Len(inv)
      PROVE  inv[i].name \in Text /\ inv[i].content \in EntryContent /\ inv[i].crc32 \in Nat
    <2>1. inv[i] \in EntryOf
        <3> HIDE DEF EntryOf
        <3> QED BY <1>1
    <2> QED BY <2>1 DEF EntryOf
<1>4. ASSUME NEW n \in 0 .. Len(inv) - 2 PROVE Decimal[n] \in Text
    <2>1. Ceiling(MaxEntries, Word16) \in Nat
        BY CeilingIs, CreationAssumption
    <2>2. n \in 0 .. Ceiling(MaxEntries, Word16) - 2
        BY <1>1, <1>2, <2>1
    <2> QED BY <2>2, NumbersAssumption
<1> QED BY <1>1, <1>2, <1>3, <1>4

LEMMA PayloadFileIs ==
    ASSUME NEW entry, entry.name \in Text, NEW n, Decimal[n] \in Text
    PROVE  PayloadFile(entry, n) # Absent => The(PayloadFile(entry, n)) \in Text
<1> DEFINE expected == PayloadName(n, <<>>)
           name == entry.name
           file == SubSeq(name, Len(expected) + 1, Len(name))
<1>1. expected \in Text /\ Len(expected) \in Nat /\ name \in Text /\ Len(name) \in Nat
    <2>1. <<>> \in Text
        BY DEF Text
    <2>2. expected \in Text
        BY <2>1, PayloadNameIs
    <2> HIDE DEF expected
    <2> QED BY <2>2 DEF Text
<1>2. file \in Text
    <2> HIDE DEF expected, name
    <2>1. name \in Seq(Piece) /\ Len(expected) + 1 \in Nat \ {0}
        BY <1>1 DEF Text
    <2>2. file \in Seq(Piece)
        BY <1>1, <2>1
    <2> QED BY <2>2 DEF Text
<1>3. PayloadFile(entry, n) = Absent \/ PayloadFile(entry, n) = {file}
    BY Zenon DEF PayloadFile, Present
<1> HIDE DEF file
<1> QED BY <1>2, <1>3, TheIs DEF Absent

\* What a package of the writer's layout has.
LEMMA LayoutIs ==
    ASSUME NEW inv \in Inventory
    PROVE  /\ LayoutFault(inv) \subseteq RepackCode
           /\ LayoutFault(inv) = {} =>
                /\ Len(inv) >= 2
                /\ \A i \in 3 .. Len(inv) : PayloadFile(inv[i], i - 2) # Absent
<1> DEFINE at == The(Candidates(inv))
           name == inv[at].name
           payloads == 3 .. Len(inv)
           A == When(Prefix(name) # CanonicalRoot, "repack.unsupported.root_prefix")
           B == When(name # MetadataName, "repack.unsupported.metadata_name")
           C == When(inv[1].name # MarkerName \/ inv[1].content # FileContent(MarkerFile),
                   "repack.unsupported.marker")
           D == When(at # 2, "repack.unsupported.extra_entry")
           E == When(\E i \in payloads : PayloadFile(inv[i], i - 2) = Absent,
                   "repack.unsupported.extra_entry")
           checks == <<A, B, C, D, E>>
<1>1. LayoutFault(inv) = IF Cardinality(Candidates(inv)) # 1
                         THEN {"repack.unsupported.metadata_missing"} ELSE FirstOf(checks)
    BY Zenon DEF LayoutFault
<1>2. {"repack.unsupported.metadata_missing", "repack.unsupported.root_prefix",
       "repack.unsupported.metadata_name", "repack.unsupported.marker",
       "repack.unsupported.extra_entry"} \subseteq RepackCode
    BY DEF RepackCode
<1>3. A \subseteq RepackCode /\ B \subseteq RepackCode /\ C \subseteq RepackCode
      /\ D \subseteq RepackCode /\ E \subseteq RepackCode
    <2> HIDE DEF RepackCode
    <2> QED BY <1>2, Zenon DEF When
<1>4. (D = {} => at = 2) /\ (E = {} => \A i \in payloads : PayloadFile(inv[i], i - 2) # Absent)
    BY Zenon DEF When
<1> HIDE DEF A, B, C, D, E
<1>5. checks \in Seq(SUBSET RepackCode) /\ Len(checks) = 5 /\ checks[4] = D /\ checks[5] = E
    BY <1>3
<1> HIDE DEF checks
<1>6. /\ FirstOf(checks) \subseteq RepackCode
      /\ FirstOf(checks) = {} => \A i \in 1 .. Len(checks) : checks[i] = {}
    BY <1>5, FirstOfIs
<1>7. LayoutFault(inv) \subseteq RepackCode
    <2> HIDE DEF RepackCode
    <2> QED BY <1>1, <1>2, <1>6
<1>8. ASSUME LayoutFault(inv) = {}
      PROVE  /\ Len(inv) >= 2
             /\ \A i \in 3 .. Len(inv) : PayloadFile(inv[i], i - 2) # Absent
    <2>1. Cardinality(Candidates(inv)) = 1 /\ FirstOf(checks) = {}
        BY <1>1, <1>8
    <2>2. checks[4] = {} /\ checks[5] = {}
        BY <1>5, <1>6, <2>1
    <2>3. at = 2
        BY <1>4, <1>5, <2>2
    <2>4. Candidates(inv) # {}
        BY <2>1, FS_EmptySet
    <2>5. 2 \in DOMAIN inv
        BY <2>3, <2>4, TheIs DEF Candidates
    <2>6. Len(inv) >= 2
        BY <2>5, InventoryIs
    <2> HIDE DEF at
    <2> QED BY <1>4, <1>5, <2>2, <2>6
<1> QED BY <1>7, <1>8

LEMMA ParsedIs ==
    ASSUME NEW c \in EntryContent
    PROVE  Parsed(c) \in Reading
<1>1. CASE c.kind = "document"
    <2>1. c.reading \in Reading
        BY <1>1 DEF EntryContent
    <2> QED BY <1>1, <2>1 DEF Parsed
<1>2. CASE c.kind # "document"
    <2>1. {"malformed.syntax"} \subseteq Code
        BY DEF Code
    <2> HIDE DEF Code
    <2> QED BY <1>2, <2>1 DEF Parsed, Reading
<1> QED BY <1>1, <1>2

LEMMA AttachmentsTyped ==
    ASSUME NEW m \in Metadata
    PROVE  Attachments(m) \in Seq(AttachmentReference)
<1> DEFINE s == [i \in DOMAIN m.dispatches |-> m.dispatches[i].attachments]
           n == Len(m.dispatches)
<1>1. m.dispatches \in Seq(Dispatch) /\ n \in Nat /\ DOMAIN m.dispatches = 1 .. n
    BY DEF Metadata
<1>2. \A i \in 1 .. n : s[i] \in Seq(AttachmentReference)
    <2> TAKE i \in 1 .. n
    <2>1. m.dispatches[i] \in Dispatch
        BY <1>1
    <2>2. m.dispatches[i].attachments \in Seq(AttachmentReference)
        BY <2>1 DEF Dispatch
    <2> QED BY <1>1, <2>2
<1>3. s = [i \in 1 .. n |-> s[i]]
    BY <1>1
<1> HIDE DEF s, n
<1>4. IsSequence(s) /\ Len(s) = n
    BY <1>1, <1>3, SequenceBy
<1>5. FlattenSeq(s) \in Seq(AttachmentReference)
    BY <1>2, <1>4, FlattenTyped
<1> QED BY <1>5 DEF Attachments, s

LEMMA ReproducibleChecksAre ==
    ASSUME NEW m PROVE ReproducibleChecks(m) \in Seq(SUBSET RepackCode)
<1> DEFINE A == When(m.unknown_elements # 0, "repack.unsupported.unknown_elements")
           B == When(\/ m.receipt_present \/ m.openings_present \/ m.return_receipt_present
                     \/ \E d \in Range(m.dispatches) : d.handling_instructions_unqualified,
                     "repack.unsupported.opaque_block")
           C == When(Len(m.dispatches) > 1, "repack.unsupported.dispatch_count")
<1>1. {"repack.unsupported.unknown_elements", "repack.unsupported.opaque_block",
       "repack.unsupported.dispatch_count"} \subseteq RepackCode
    BY DEF RepackCode
<1>2. A \in SUBSET RepackCode /\ B \in SUBSET RepackCode /\ C \in SUBSET RepackCode
    <2> HIDE DEF RepackCode
    <2> QED BY <1>1, Zenon DEF When
<1>3. ReproducibleChecks(m) = <<A, B, C>>
    BY Zenon DEF ReproducibleChecks
<1> HIDE DEF A, B, C
<1> QED BY <1>2, <1>3

\* Checks none of which finds anything.
Clear(checks) == \A i \in 1 .. Len(checks) : checks[i] = {}

\* The references of m are those the writer writes for the payload of inv.
Agrees(inv, m) ==
    /\ Len(Attachments(m)) = PayloadCount(inv)
    /\ \A d \in Range(m.dispatches) : d.declared_attachment_count = {Len(Attachments(m))}
    /\ \A i \in 1 .. PayloadCount(inv) :
          /\ Attachments(m)[i].number = i
          /\ Attachments(m)[i].file_name = Payload(inv, i).file_name
          /\ Attachments(m)[i].location = PayloadLocation(i)
          /\ Attachments(m)[i].size_text = DeclaredKilobytes(Payload(inv, i).size)

LEMMA ReferenceChecksAre ==
    ASSUME NEW inv \in Inventory, Len(inv) >= 2, NEW m \in Metadata,
           NEW checks, checks = ReferenceChecks(inv, m)
    PROVE  /\ checks \in Seq(SUBSET RepackCode)
           /\ Clear(checks) => Agrees(inv, m)
<1> DEFINE listed == Attachments(m)
           W(i) == When(listed[i].file_name # Payload(inv, i).file_name,
                        "repack.unsupported.attachment_entry")
           V(i) == When(\/ listed[i].number # i
                        \/ listed[i].location # PayloadLocation(i)
                        \/ listed[i].size_text # DeclaredKilobytes(Payload(inv, i).size),
                        "repack.unsupported.attachment_reference")
           one(i) == <<W(i), V(i)>>
           A == When(Len(listed) # PayloadCount(inv), "repack.unsupported.attachment_entry")
           B == When(\E d \in Range(m.dispatches) :
                        d.declared_attachment_count # Present(Len(listed)),
                     "repack.unsupported.attachment_reference")
           first == <<A, B>>
           n == Min({Len(listed), PayloadCount(inv)})
           s == [i \in 1 .. n |-> one(i)]
<1>1. {"repack.unsupported.attachment_entry", "repack.unsupported.attachment_reference"} \subseteq RepackCode
    BY DEF RepackCode
<1>2. checks = first \o FlattenSeq(s)
    BY Zenon DEF ReferenceChecks
<1>3. n \in Nat
    <2>1. Len(listed) \in Nat
        BY AttachmentsTyped
    <2>2. PayloadCount(inv) \in Nat
        BY InventoryIs DEF PayloadCount
    <2> HIDE DEF listed
    <2>3. {Len(listed), PayloadCount(inv)} \subseteq Nat /\ {Len(listed), PayloadCount(inv)} # {}
        BY <2>1, <2>2
    <2>4. n \in {Len(listed), PayloadCount(inv)}
        BY <2>3, MinIs
    <2> QED BY <2>3, <2>4
<1>4. A \in SUBSET RepackCode /\ B \in SUBSET RepackCode
    <2> HIDE DEF RepackCode
    <2> QED BY <1>1, Zenon DEF When
<1>5. \A i : W(i) \in SUBSET RepackCode /\ V(i) \in SUBSET RepackCode
    <2> HIDE DEF RepackCode
    <2> QED BY <1>1, Zenon DEF When
<1>6. /\ A = {} => Len(listed) = PayloadCount(inv)
      /\ B = {} => \A d \in Range(m.dispatches) : d.declared_attachment_count = {Len(listed)}
      /\ \A i : W(i) = {} => listed[i].file_name = Payload(inv, i).file_name
      /\ \A i : V(i) = {} => /\ listed[i].number = i /\ listed[i].location = PayloadLocation(i)
                             /\ listed[i].size_text = DeclaredKilobytes(Payload(inv, i).size)
    BY Zenon DEF When, Present
<1>61. Len(listed) = PayloadCount(inv) => n = PayloadCount(inv)
    <2>1. PayloadCount(inv) \in Nat
        BY InventoryIs DEF PayloadCount
    <2> HIDE DEF listed
    <2>2. ASSUME Len(listed) = PayloadCount(inv) PROVE n = PayloadCount(inv)
        <3>1. {Len(listed), PayloadCount(inv)} = {PayloadCount(inv)} /\ {PayloadCount(inv)} \subseteq Nat
            BY <2>1, <2>2
        <3>2. n \in {PayloadCount(inv)}
            BY <3>1, MinIs
        <3> QED BY <3>2
    <2> QED BY <2>2
<1> HIDE DEF A, B, W, V, n
<1>7. first \in Seq(SUBSET RepackCode) /\ Len(first) = 2 /\ first[1] = A /\ first[2] = B
    BY <1>4
<1>8. \A i \in 1 .. n : s[i] \in Seq(SUBSET RepackCode) /\ Len(s[i]) = 2 /\ s[i][1] = W(i) /\ s[i][2] = V(i)
    BY <1>5
<1>9. IsSequence(s) /\ Len(s) = n
    <2>1. s = [i \in 1 .. n |-> s[i]]
        OBVIOUS
    <2> HIDE DEF s
    <2> QED BY <1>3, <2>1, SequenceBy
<1> HIDE DEF s, first
<1>10. FlattenSeq(s) \in Seq(SUBSET RepackCode)
    BY <1>8, <1>9, FlattenTyped
<1>11. checks \in Seq(SUBSET RepackCode)
    BY <1>2, <1>7, <1>10
<1>12. ASSUME Clear(checks) PROVE Agrees(inv, m)
    <2> DEFINE f == FlattenSeq(s)
    <2>1. f \in Seq(SUBSET RepackCode) /\ \A i \in 1 .. Len(first \o f) : (first \o f)[i] = {}
        BY <1>2, <1>10, <1>12 DEF Clear
    <2>2. /\ \A i \in 1 .. Len(first) : first[i] = {}
          /\ \A i \in 1 .. Len(f) : f[i] = {}
        <3> HIDE DEF f
        <3> QED BY <1>7, <2>1, ChecksJoined
    <2>3. A = {} /\ B = {}
        <3> HIDE DEF f
        <3> QED BY <1>7, <2>2
    <2>4. \A i \in 1 .. Len(s) : \A j \in 1 .. Len(s[i]) : s[i][j] = {}
        <3>1. \A i \in 1 .. Len(s) : s[i] \in Seq(SUBSET RepackCode)
            BY <1>8, <1>9
        <3> QED BY <1>9, <2>2, <3>1, ChecksFlattened
    <2>5. Len(listed) = PayloadCount(inv) /\ n = PayloadCount(inv)
        BY <1>6, <1>61, <2>3
    <2>6. \A i \in 1 .. PayloadCount(inv) : W(i) = {} /\ V(i) = {}
        <3> HIDE DEF f, listed
        <3> QED BY <1>8, <1>9, <2>4, <2>5
    <2>7. \A d \in Range(m.dispatches) : d.declared_attachment_count = {Len(listed)}
        BY <1>6, <2>3
    <2> HIDE DEF f
    <2> QED BY <1>6, <2>5, <2>6, <2>7, Zenon DEF Agrees
<1> QED BY <1>11, <1>12

\* What an edit removes and replaces is there, and is named once.
TargetsFit(edit, n) ==
    /\ \A i \in 1 .. Len(edit.remove) : edit.remove[i] \in 1 .. n
    /\ \A i \in 1 .. Len(edit.replace) :
          /\ edit.replace[i].number \in 1 .. n
          /\ \A j \in 1 .. Len(edit.remove) : edit.remove[j] # edit.replace[i].number
          /\ \A j \in 1 .. i - 1 : edit.replace[j].number # edit.replace[i].number

TargetCode == {"repack.invalid.no_such_attachment", "repack.invalid.duplicate_target"}

LEMMA TargetChecksAre ==
    ASSUME NEW edit \in PackageEdit, NEW n \in Nat, NEW checks, checks = TargetChecks(edit, n)
    PROVE  /\ checks \in Seq(SUBSET TargetCode)
           /\ Clear(checks) => TargetsFit(edit, n)
<1> DEFINE numbers == [i \in DOMAIN edit.replace |-> edit.replace[i].number]
           targets == edit.remove \o numbers
           W(i) == When(targets[i] \notin 1 .. n, "repack.invalid.no_such_attachment")
           V(i) == When(\E j \in 1 .. i - 1 : targets[j] = targets[i],
                        "repack.invalid.duplicate_target")
           one(i) == <<W(i), V(i)>>
           s == [i \in DOMAIN targets |-> one(i)]
<1>2. checks = FlattenSeq(s)
    BY Zenon DEF TargetChecks
<1>3. edit.remove \in Seq(Nat) /\ edit.replace \in Seq([number : Nat, content : EntryContent])
    BY DEF PackageEdit
<1>4. /\ numbers \in Seq(Nat) /\ Len(numbers) = Len(edit.replace)
      /\ \A i \in 1 .. Len(edit.replace) : numbers[i] = edit.replace[i].number
    <2>1. Len(edit.replace) \in Nat /\ DOMAIN edit.replace = 1 .. Len(edit.replace)
        BY <1>3
    <2>2. \A i \in 1 .. Len(edit.replace) : edit.replace[i].number \in Nat
        <3> TAKE i \in 1 .. Len(edit.replace)
        <3> DEFINE R == [number : Nat, content : EntryContent]
        <3>1. edit.replace[i] \in R
            <4>1. edit.replace \in Seq(R)
                BY <1>3
            <4> HIDE DEF R
            <4> QED BY <4>1
        <3> QED BY <3>1
    <2> QED BY <2>1, <2>2
<1> HIDE DEF numbers
<1>5. /\ targets \in Seq(Nat) /\ Len(targets) = Len(edit.remove) + Len(numbers)
      /\ Len(edit.remove) \in Nat /\ Len(numbers) \in Nat
      /\ \A i \in 1 .. Len(edit.remove) : targets[i] = edit.remove[i]
      /\ \A i \in 1 .. Len(numbers) : targets[Len(edit.remove) + i] = numbers[i]
    <2>1. \A a, b \in Seq(Nat) :
            /\ a \o b \in Seq(Nat) /\ Len(a) \in Nat /\ Len(b) \in Nat
            /\ Len(a \o b) = Len(a) + Len(b)
            /\ \A i \in 1 .. Len(a) : (a \o b)[i] = a[i]
            /\ \A i \in 1 .. Len(b) : (a \o b)[Len(a) + i] = b[i]
        OBVIOUS
    <2>2. edit.remove \in Seq(Nat) /\ numbers \in Seq(Nat)
        BY <1>3, <1>4
    <2> QED BY <2>1, <2>2, Zenon
<1>6. \A i : W(i) \in SUBSET TargetCode /\ V(i) \in SUBSET TargetCode
    <2> HIDE DEF targets
    <2> QED BY Zenon DEF When, TargetCode
<1>7. \A i :
        /\ W(i) = {} => targets[i] \in 1 .. n
        /\ V(i) = {} => \A j \in 1 .. i - 1 : targets[j] # targets[i]
    <2> HIDE DEF targets
    <2> QED BY Zenon DEF When
<1> HIDE DEF targets, W, V
<1>8. DOMAIN targets = 1 .. Len(targets) /\ Len(targets) \in Nat
    BY <1>5
<1>9. \A i \in 1 .. Len(targets) : s[i] = one(i) /\ s[i] \in Seq(SUBSET TargetCode) /\ Len(s[i]) = 2
    <2> TAKE i \in 1 .. Len(targets)
    <2>1. s[i] = one(i)
        BY <1>8
    <2>2. one(i) \in Seq(SUBSET TargetCode) /\ Len(one(i)) = 2
        BY <1>6
    <2> HIDE DEF one, s
    <2> QED BY <2>1, <2>2
<1>10. IsSequence(s) /\ Len(s) = Len(targets)
    <2>1. s = [i \in 1 .. Len(targets) |-> s[i]]
        BY <1>8
    <2> HIDE DEF s
    <2> QED BY <1>8, <2>1, SequenceBy
<1> HIDE DEF s
<1>11. checks \in Seq(SUBSET TargetCode)
    BY <1>2, <1>9, <1>10, FlattenTyped
<1>12. ASSUME Clear(checks) PROVE TargetsFit(edit, n)
    <2>1. \A k \in 1 .. Len(s) : \A j \in 1 .. Len(s[k]) : s[k][j] = {}
        <3>1. \A k \in 1 .. Len(s) : s[k] \in Seq(SUBSET TargetCode)
            BY <1>9, <1>10
        <3>2. \A k \in 1 .. Len(checks) : checks[k] = {}
            BY <1>12 DEF Clear
        <3> QED BY <1>2, <1>10, <3>1, <3>2, ChecksFlattened
    <2>2. \A i \in 1 .. Len(targets) : W(i) = {} /\ V(i) = {}
        <3> TAKE i \in 1 .. Len(targets)
        <3>1. s[i][1] = {} /\ s[i][2] = {}
            BY <1>9, <1>10, <2>1
        <3> QED BY <1>9, <3>1
    <2> HIDE DEF targets
    <2> DEFINE c == Len(edit.remove)
               k == Len(numbers)
    <2>3. \A i \in 1 .. Len(targets) : targets[i] \in 1 .. n /\ \A j \in 1 .. i - 1 : targets[j] # targets[i]
        <3> TAKE i \in 1 .. Len(targets)
        <3>1. W(i) = {} /\ V(i) = {}
            BY <2>2, Zenon
        <3>2. targets[i] \in 1 .. n
            BY <1>7, <3>1
        <3>3. \A j \in 1 .. i - 1 : targets[j] # targets[i]
            BY <1>7, <3>1
        <3> QED BY <3>2, <3>3
    <2>4. c \in Nat /\ k \in Nat /\ Len(targets) = c + k /\ k = Len(edit.replace)
        BY <1>4, <1>5, Zenon
    <2>5. \A i \in 1 .. c + k : targets[i] \in 1 .. n /\ \A j \in 1 .. i - 1 : targets[j] # targets[i]
        BY <2>3, <2>4, Zenon
    <2>6. /\ \A i \in 1 .. c : targets[i] = edit.remove[i]
          /\ \A i \in 1 .. k : targets[c + i] = numbers[i]
        BY <1>5, Zenon
    <2> HIDE DEF c, k
    <2> HIDE DEF targets, numbers
    <2>7. \A i \in 1 .. c : edit.remove[i] \in 1 .. n
        <3> TAKE i \in 1 .. c
        <3>1. i \in 1 .. c + k /\ targets[i] = edit.remove[i]
            BY <2>4, <2>6
        <3> QED BY <2>5, <3>1
    <2>8. ASSUME NEW i \in 1 .. k
          PROVE  /\ edit.replace[i].number \in 1 .. n
                 /\ \A j \in 1 .. c : edit.remove[j] # edit.replace[i].number
                 /\ \A j \in 1 .. i - 1 : edit.replace[j].number # edit.replace[i].number
        <3>1. \A j \in 1 .. k : targets[c + j] = edit.replace[j].number
            BY <1>4, <2>4, <2>6
        <3>2. c + i \in 1 .. c + k
            BY <2>4
        <3>3. targets[c + i] = edit.replace[i].number
            BY <3>1
        <3> DEFINE x == edit.replace[i].number
        <3> HIDE DEF x
        <3>4. x \in 1 .. n /\ \A j \in 1 .. (c + i) - 1 : targets[j] # x
            BY <2>5, <3>2, <3>3 DEF x
        <3>5. ASSUME NEW j \in 1 .. c PROVE edit.remove[j] # x
            <4>1. j \in 1 .. (c + i) - 1 /\ targets[j] = edit.remove[j]
                BY <2>4, <2>6
            <4> QED BY <3>4, <4>1
        <3>6. ASSUME NEW j \in 1 .. i - 1 PROVE edit.replace[j].number # x
            <4>1. c + j \in 1 .. (c + i) - 1 /\ j \in 1 .. k
                BY <2>4
            <4>2. targets[c + j] = edit.replace[j].number
                BY <3>1, <4>1
            <4> QED BY <3>4, <4>1, <4>2
        <3> QED BY <3>4, <3>5, <3>6 DEF x
    <2> QED BY <2>4, <2>7, <2>8, Zenon DEF TargetsFit, c
<1> QED BY <1>11, <1>12

-----------------------------------------------------------------------------
(* plan(): what it plans.                                                  *)

LEMMA EditedHeaderIs ==
    ASSUME NEW h \in Header, NEW edit \in HeaderEdit
    PROVE  EditedHeader(h, edit) \in Header
<1> DEFINE v(f) == IF f = "test_present" THEN h.test_present \/ edit.test # Absent
                   ELSE IF edit[f] = Absent THEN h[f] ELSE The(edit[f])
           N == {"version", "source_system", "consignment_id", "created_at_text",
                 "consignment_kind", "test", "test_present", "barcode", "reference_id",
                 "error_code", "note"}
<1>1. DOMAIN h = N
    BY DEF Header
<1>2. EditedHeader(h, edit) = [f \in N |-> v(f)]
    BY <1>1 DEF EditedHeader
<1>3. \A f : edit[f] = Absent \/ The(edit[f]) \in edit[f]
    BY TheIs DEF Absent
<1>4. /\ h.version \in Text /\ h.consignment_id \in Text /\ h.created_at_text \in Text
      /\ h.barcode \subseteq Text /\ h.reference_id \subseteq Text /\ h.error_code \subseteq Text
      /\ h.note \subseteq Text /\ h.source_system \in SourceSystem
      /\ h.consignment_kind \in ConsignmentKind /\ h.test \in BOOLEAN /\ h.test_present \in BOOLEAN
    BY DEF Header
<1>5. /\ edit.version \subseteq Text /\ edit.consignment_id \subseteq Text
      /\ edit.created_at_text \subseteq Text /\ edit.barcode \subseteq SUBSET Text
      /\ edit.reference_id \subseteq SUBSET Text /\ edit.error_code \subseteq SUBSET Text
      /\ edit.note \subseteq SUBSET Text /\ edit.source_system \subseteq SourceSystem
      /\ edit.consignment_kind \subseteq ConsignmentKind /\ edit.test \subseteq BOOLEAN
    BY DEF HeaderEdit
<1> HIDE DEF Text, SourceSystem, ConsignmentKind
<1>6. v("version") \in Text /\ v("consignment_id") \in Text /\ v("created_at_text") \in Text
    BY <1>3, <1>4, <1>5
<1>7. /\ v("barcode") \subseteq Text /\ v("reference_id") \subseteq Text
      /\ v("error_code") \subseteq Text /\ v("note") \subseteq Text
    BY <1>3, <1>4, <1>5
<1>8. v("source_system") \in SourceSystem /\ v("consignment_kind") \in ConsignmentKind
    BY <1>3, <1>4, <1>5
<1>9. v("test") \in BOOLEAN
    BY <1>3, <1>4, <1>5
<1>10. v("test_present") \in BOOLEAN
    BY <1>4
<1> HIDE DEF v
<1> QED BY <1>2, <1>6, <1>7, <1>8, <1>9, <1>10 DEF Header

LEMMA HeaderFieldsAre ==
    ASSUME NEW edit \in HeaderEdit PROVE HeaderFields(edit) \subseteq HeaderField
<1>1. DOMAIN edit = HeaderField
    BY DEF HeaderEdit, HeaderField
<1> QED BY <1>1 DEF HeaderFields

LEMMA PlacedDispatchesAre ==
    ASSUME NEW ds \in Seq(Dispatch), NEW attachments, NEW r, r = PlacedDispatches(ds, attachments)
    PROVE  r \in Seq(Dispatch) /\ \A i \in 1 .. Len(r) : r[i].attachments = <<>>
<1> DEFINE count == IF attachments = <<>> THEN Present(0) ELSE Absent
           given == IF attachments # <<>> /\ ds = <<>> THEN <<NewDispatch>> ELSE ds
           one(i) == [given[i] EXCEPT !.declared_attachment_count = count, !.attachments = <<>>]
<1>1. r = [i \in DOMAIN given |-> one(i)]
    BY DEF PlacedDispatches
<1>2. given \in Seq(Dispatch)
    <2>1. NewDispatch \in Dispatch
        BY DEF NewDispatch, Dispatch, Absent
    <2> QED BY <2>1
<1>3. count \subseteq Int
    BY DEF Present, Absent
<1> HIDE DEF count, given
<1>4. Len(given) \in Nat /\ DOMAIN given = 1 .. Len(given)
    BY <1>2
<1>5. ASSUME NEW i \in 1 .. Len(given)
      PROVE  one(i) \in Dispatch /\ one(i).attachments = <<>>
    <2> DEFINE d == given[i]
    <2>1. d \in Dispatch
        BY <1>2
    <2>2. <<>> \in Seq(AttachmentReference)
        OBVIOUS
    <2> HIDE DEF d
    <2>3. [d EXCEPT !.declared_attachment_count = count, !.attachments = <<>>] \in Dispatch
        BY <1>3, <2>1, <2>2 DEF Dispatch
    <2>4. [d EXCEPT !.declared_attachment_count = count, !.attachments = <<>>].attachments = <<>>
        BY <2>1 DEF Dispatch
    <2> QED BY <2>3, <2>4 DEF d
<1> HIDE DEF one
<1>6. r \in [1 .. Len(given) -> Dispatch] /\ \A i \in 1 .. Len(given) : r[i].attachments = <<>>
    BY <1>1, <1>4, <1>5
<1>7. r \in Seq(Dispatch) /\ Len(r) = Len(given)
    BY <1>4, <1>6
<1> QED BY <1>6, <1>7

\* A value whose dispatches list nothing lists nothing.
LEMMA NothingListed ==
    ASSUME NEW m, m.dispatches \in Seq(Dispatch),
           \A i \in 1 .. Len(m.dispatches) : m.dispatches[i].attachments = <<>>
    PROVE  Attachments(m) = <<>>
<1> DEFINE s == [i \in DOMAIN m.dispatches |-> m.dispatches[i].attachments]
           n == Len(m.dispatches)
<1>1. n \in Nat /\ DOMAIN m.dispatches = 1 .. n
    OBVIOUS
<1>2. s = [i \in 1 .. n |-> s[i]] /\ \A i \in 1 .. n : s[i] = <<>>
    BY <1>1
<1>3. <<>> \in Seq({})
    OBVIOUS
<1> HIDE DEF s, n
<1>4. IsSequence(s) /\ Len(s) = n
    BY <1>1, <1>2, SequenceBy
<1>5. FlattenSeq(s) \in Seq({})
    <2>1. \A i \in 1 .. Len(s) : s[i] \in Seq({})
        BY <1>2, <1>3, <1>4
    <2> QED BY <1>4, <2>1, FlattenTyped
<1>6. ASSUME NEW x \in Seq({}) PROVE x = <<>>
    OBVIOUS
<1> QED BY <1>5, <1>6 DEF Attachments, s

LEMMA PayloadIs ==
    ASSUME NEW inv \in Inventory, Len(inv) >= 2,
           \A i \in 3 .. Len(inv) : PayloadFile(inv[i], i - 2) # Absent,
           NEW n \in 1 .. PayloadCount(inv)
    PROVE  /\ Payload(inv, n).entry = n + 2 /\ Payload(inv, n).entry \in 3 .. Len(inv)
           /\ Payload(inv, n).crc32 = inv[n + 2].crc32 /\ Payload(inv, n).crc32 \in Nat
           /\ Payload(inv, n).file_name \in Text
<1>1. Len(inv) \in Nat /\ n + 2 \in 3 .. Len(inv) /\ n + 2 \in 1 .. Len(inv) /\ (n + 2) - 2 = n
    BY InventoryIs DEF PayloadCount
<1>2. inv[n + 2].name \in Text /\ inv[n + 2].crc32 \in Nat /\ Decimal[n] \in Text
    <2>1. n \in 0 .. Len(inv) - 2
        BY <1>1
    <2> QED BY <1>1, <2>1, InventoryIs
<1>3. PayloadFile(inv[n + 2], n) # Absent
    BY <1>1
<1>4. The(PayloadFile(inv[n + 2], n)) \in Text
    BY <1>2, <1>3, PayloadFileIs
<1>5. /\ Payload(inv, n).entry = n + 2 /\ Payload(inv, n).crc32 = inv[n + 2].crc32
      /\ Payload(inv, n).file_name = The(PayloadFile(inv[n + 2], n))
    BY DEF Payload
<1> QED BY <1>1, <1>2, <1>4, <1>5

ReplacementOf == [number : Nat, content : EntryContent]

AdditionOf == [file_name : Text, content : EntryContent, description : SUBSET Text]

\* What a plan is made from.
Plannable(inv, m, edit) ==
    /\ inv \in Inventory /\ m \in Metadata /\ edit \in PackageEdit
    /\ Len(inv) >= 2 /\ \A i \in 3 .. Len(inv) : PayloadFile(inv[i], i - 2) # Absent
    /\ LayoutFault(inv) = {}
    /\ Agrees(inv, m) /\ TargetsFit(edit, PayloadCount(inv))

LEMMA EditIs ==
    ASSUME NEW edit \in PackageEdit
    PROVE  /\ edit.header \in HeaderEdit
           /\ edit.remove \in Seq(Nat) /\ DOMAIN edit.remove = 1 .. Len(edit.remove)
           /\ edit.replace \in Seq(ReplacementOf)
           /\ \A r \in Range(edit.replace) : r.content \in EntryContent
           /\ edit.add \in Seq(AdditionOf) /\ Len(edit.add) \in Nat
           /\ DOMAIN edit.add = 1 .. Len(edit.add)
           /\ \A k \in 1 .. Len(edit.add) :
                 /\ edit.add[k].file_name \in Text /\ edit.add[k].content \in EntryContent
                 /\ edit.add[k].description \in SUBSET Text
<1>1. /\ edit.header \in HeaderEdit /\ edit.remove \in Seq(Nat)
      /\ edit.replace \in Seq(ReplacementOf) /\ edit.add \in Seq(AdditionOf)
    BY Zenon DEF PackageEdit, ReplacementOf, AdditionOf
<1>2. ASSUME NEW r \in Range(edit.replace) PROVE r.content \in EntryContent
    <2>1. r \in ReplacementOf
        <3> HIDE DEF ReplacementOf
        <3> QED BY <1>1, <1>2 DEF Range
    <2> QED BY <2>1 DEF ReplacementOf
<1>3. Len(edit.add) \in Nat /\ DOMAIN edit.add = 1 .. Len(edit.add)
    <2> HIDE DEF AdditionOf
    <2> QED BY <1>1
<1>4. ASSUME NEW k \in 1 .. Len(edit.add)
      PROVE  /\ edit.add[k].file_name \in Text /\ edit.add[k].content \in EntryContent
             /\ edit.add[k].description \in SUBSET Text
    <2>1. edit.add[k] \in AdditionOf
        <3> HIDE DEF AdditionOf
        <3> QED BY <1>1
    <2> QED BY <2>1 DEF AdditionOf
<1> QED BY <1>1, <1>2, <1>3, <1>4

LEMMA SourceIs ==
    /\ \A payload : payload.entry \in Nat /\ payload.crc32 \in Nat => Preserved(payload) \in Source
    /\ \A content \in EntryContent : Supplied(content) \in Source
<1>1. ASSUME NEW payload, payload.entry \in Nat, payload.crc32 \in Nat
      PROVE  Preserved(payload) \in Source
    BY <1>1 DEF Preserved, Source
<1>2. ASSUME NEW content \in EntryContent PROVE Supplied(content) \in Source
    BY DEF Supplied, Source
<1> QED BY <1>1, <1>2

LEMMA StayIsPlanned ==
    ASSUME NEW inv, NEW m, NEW edit, Plannable(inv, m, edit), NEW n \in 1 .. PayloadCount(inv)
    PROVE  PlannedStay(inv, m, edit, n) \in Planned
<1> DEFINE reference == Attachments(m)[n]
           payload == Payload(inv, n)
           replacements == Replacements(edit, n)
           source == IF replacements = {} THEN Preserved(payload)
                     ELSE Supplied(The(replacements).content)
<1>1. payload.entry \in Nat /\ payload.crc32 \in Nat /\ payload.file_name \in Text
    <2>1. inv \in Inventory
        BY DEF Plannable
    <2>2. payload.entry \in 3 .. Len(inv) /\ payload.crc32 \in Nat /\ payload.file_name \in Text
        <3> HIDE DEF payload
        <3> QED BY PayloadIs DEF Plannable, payload
    <2>3. Len(inv) \in Nat
        BY <2>1, InventoryIs
    <2> HIDE DEF payload
    <2> QED BY <2>2, <2>3
<1>2. source \in Source
    <2>1. CASE replacements = {}
        BY <1>1, <2>1, SourceIs
    <2>2. CASE replacements # {}
        <3>1. The(replacements) \in Range(edit.replace)
            <4>1. The(replacements) \in replacements
                BY <2>2, TheIs
            <4> QED BY <4>1 DEF Replacements
        <3>2. The(replacements).content \in EntryContent
            <4>1. edit \in PackageEdit
                BY DEF Plannable
            <4> QED BY <3>1, <4>1, EditIs
        <3> QED BY <2>2, <3>2, SourceIs
    <2> QED BY <2>1, <2>2
<1>3. /\ reference.description \in SUBSET Text /\ reference.quantity \in SUBSET Text
      /\ reference.quantity_unit \in SUBSET Text
    <2>1. Attachments(m) \in Seq(AttachmentReference) /\ n \in 1 .. Len(Attachments(m))
        BY AttachmentsTyped DEF Plannable, Agrees
    <2>2. reference \in AttachmentReference
        <3> HIDE DEF AttachmentReference
        <3> QED BY <2>1
    <2> HIDE DEF reference
    <2> QED BY <2>2 DEF AttachmentReference
<1>4. PlannedStay(inv, m, edit, n) =
        [source |-> source, file_name |-> payload.file_name,
         description |-> reference.description, quantity |-> reference.quantity,
         quantity_unit |-> reference.quantity_unit]
    BY Zenon DEF PlannedStay
<1> HIDE DEF source, payload, reference
<1> QED BY <1>1, <1>2, <1>3, <1>4 DEF Planned

LEMMA NewIsPlanned ==
    ASSUME NEW a, a.file_name \in Text, a.content \in EntryContent, a.description \in SUBSET Text
    PROVE  PlannedNew(a) \in Planned
<1>1. Supplied(a.content) \in Source
    BY SourceIs
<1>2. Absent \in SUBSET Text
    BY DEF Absent
<1> QED BY <1>1, <1>2, Zenon DEF PlannedNew, Planned

\* Positions in their order are numbers.
LEMMA NumbersAre ==
    ASSUME NEW n \in Nat, NEW S, S \subseteq 1 .. n
    PROVE  InOrder(S) \in Seq(Nat) /\ Range(InOrder(S)) \subseteq S
           /\ Len(InOrder(S)) \in Nat /\ DOMAIN InOrder(S) = 1 .. Len(InOrder(S))
<1>1. InOrder(S) \in Seq(S)
    BY InOrderIs
<1> DEFINE x == InOrder(S)
<1>2. x \in Seq(S)
    BY <1>1
<1> HIDE DEF x
<1>3. Range(x) \subseteq S /\ Len(x) \in Nat /\ DOMAIN x = 1 .. Len(x)
    BY <1>2 DEF Range
<1>4. x \in Seq(Nat)
    <2>0. S \subseteq Nat
        OBVIOUS
    <2>1. \A i \in 1 .. Len(x) : x[i] \in S
        BY <1>2
    <2>2. \A i \in 1 .. Len(x) : x[i] \in Nat
        BY <2>0, <2>1, Zenon
    <2> QED BY <1>2, <2>2
<1> QED BY <1>3, <1>4 DEF x

\* The plan that is made.
LEMMA BuiltIs ==
    ASSUME NEW inv, NEW m, NEW edit, Plannable(inv, m, edit), NEW b, b = Built(inv, m, edit)
    PROVE  b \in RepackPlan /\ Attachments(b.metadata) = <<>>
<1> DEFINE kept == Kept(inv, edit)
           stay == [k \in DOMAIN kept |-> PlannedStay(inv, m, edit, kept[k])]
           new == [k \in DOMAIN edit.add |-> PlannedNew(edit.add[k])]
           attachments == stay \o new
           replaced(n) == Replacements(edit, n) # {}
           preserved == InOrder({n \in Range(kept) : ~replaced(n)})
           changed == InOrder({n \in Range(kept) : replaced(n)})
           removed == InOrder(Range(edit.remove))
           added == [k \in DOMAIN edit.add |-> Len(kept) + k]
           fields == HeaderFields(edit.header)
           header == EditedHeader(m.header, edit.header)
           dispatches == PlacedDispatches(m.dispatches, attachments)
           metadata == [m EXCEPT !.header = header, !.dispatches = dispatches]
<1>1. /\ inv \in Inventory /\ m \in Metadata /\ edit \in PackageEdit
      /\ Len(inv) \in Nat /\ PayloadCount(inv) \in Nat
    <2>1. inv \in Inventory /\ m \in Metadata /\ edit \in PackageEdit /\ Len(inv) >= 2
        BY DEF Plannable
    <2>2. Len(inv) \in Nat
        BY <2>1, InventoryIs
    <2> QED BY <2>1, <2>2 DEF PayloadCount
<1>2. /\ b.preserved = preserved /\ b.changed = changed /\ b.removed = removed
      /\ b.added = added /\ b.header_fields = fields /\ b.attachments = attachments
      /\ b.metadata = metadata /\ b.source_entries = Len(inv)
      /\ b = [preserved |-> preserved, changed |-> changed, removed |-> removed, added |-> added,
              header_fields |-> fields, attachments |-> attachments, metadata |-> metadata,
              source_entries |-> Len(inv)]
    BY DEF Built
<1>3. /\ kept \in Seq(Nat) /\ Range(kept) \subseteq 1 .. PayloadCount(inv)
      /\ Len(kept) \in Nat /\ DOMAIN kept = 1 .. Len(kept)
    <2> DEFINE S == (1 .. PayloadCount(inv)) \ Range(edit.remove)
    <2>1. S \subseteq 1 .. PayloadCount(inv) /\ kept = InOrder(S)
        BY DEF Kept
    <2> HIDE DEF S, kept
    <2> QED BY <1>1, <2>1, NumbersAre
<1> HIDE DEF kept
<1>4. preserved \in Seq(Nat) /\ changed \in Seq(Nat)
    <2> DEFINE A == {n \in Range(kept) : ~replaced(n)} B == {n \in Range(kept) : replaced(n)}
    <2>1. A \subseteq 1 .. PayloadCount(inv) /\ B \subseteq 1 .. PayloadCount(inv)
        BY <1>3
    <2> HIDE DEF A, B
    <2>2. InOrder(A) \in Seq(Nat) /\ InOrder(B) \in Seq(Nat)
        BY <1>1, <2>1, NumbersAre
    <2> QED BY <2>2 DEF A, B
<1>5. removed \in Seq(Nat)
    <2>1. Range(edit.remove) \subseteq 1 .. PayloadCount(inv)
        <3>1. DOMAIN edit.remove = 1 .. Len(edit.remove)
            BY <1>1, EditIs
        <3> QED BY <3>1 DEF Range, Plannable, TargetsFit
    <2> QED BY <1>1, <2>1, NumbersAre
<1>6. Len(edit.add) \in Nat /\ DOMAIN edit.add = 1 .. Len(edit.add)
    BY <1>1, EditIs
<1>7. added \in Seq(Nat)
    <2>1. \A k \in 1 .. Len(edit.add) : Len(kept) + k \in Nat
        BY <1>3, <1>6
    <2> QED BY <1>6, <2>1
<1>8. attachments \in Seq(Planned)
    <2>1. stay \in Seq(Planned)
        <3>1. \A k \in 1 .. Len(kept) : PlannedStay(inv, m, edit, kept[k]) \in Planned
            <4> TAKE k \in 1 .. Len(kept)
            <4>1. kept[k] \in 1 .. PayloadCount(inv)
                BY <1>3 DEF Range
            <4> QED BY <4>1, StayIsPlanned
        <3> HIDE DEF Planned
        <3> QED BY <1>3, <3>1
    <2>2. new \in Seq(Planned)
        <3>1. \A k \in 1 .. Len(edit.add) : PlannedNew(edit.add[k]) \in Planned
            BY <1>1, EditIs, NewIsPlanned
        <3> HIDE DEF Planned
        <3> QED BY <1>6, <3>1
    <2> HIDE DEF stay, new, Planned
    <2> QED BY <2>1, <2>2
<1>9. fields \subseteq HeaderField /\ header \in Header
    <2>1. edit.header \in HeaderEdit /\ m.header \in Header
        <3>1. m.header \in Header
            BY <1>1 DEF Metadata
        <3> QED BY <1>1, <3>1, EditIs
    <2> QED BY <2>1, HeaderFieldsAre, EditedHeaderIs
<1>10. /\ dispatches \in Seq(Dispatch)
       /\ \A i \in 1 .. Len(dispatches) : dispatches[i].attachments = <<>>
    <2>1. m.dispatches \in Seq(Dispatch)
        BY <1>1 DEF Metadata
    <2> HIDE DEF attachments
    <2> QED BY <2>1, PlacedDispatchesAre
<1> HIDE DEF preserved, changed, removed, added, fields, attachments, header, dispatches
<1>11. metadata \in Metadata /\ metadata.dispatches = dispatches
    <2> HIDE DEF Header, Dispatch
    <2> QED BY <1>1, <1>9, <1>10 DEF Metadata
<1> HIDE DEF metadata
<1>12. Attachments(metadata) = <<>>
    BY <1>10, <1>11, NothingListed
<1>13. b \in RepackPlan
    <2> HIDE DEF Metadata, Planned, HeaderField
    <2> QED BY <1>1, <1>2, <1>4, <1>5, <1>7, <1>8, <1>9, <1>11 DEF RepackPlan
<1> QED BY <1>2, <1>12, <1>13

SizeCode == {"create.over_limit.entries", "create.over_limit.entry_bytes"}

LEMMA SizeChecksAre ==
    ASSUME NEW b, b.attachments \in Seq(Planned)
    PROVE  SizeChecks(b) \in Seq(SUBSET SizeCode)
<1> DEFINE s == b.attachments
           A == When(Len(s) + 2 > Ceiling(MaxEntries, Word16), "create.over_limit.entries")
           V(i) == When(s[i].source.kind = "supplied"
                          /\ Size(s[i].source.content) > Ceiling(MaxEntry, Word32),
                        "create.over_limit.entry_bytes")
           rest == [i \in DOMAIN s |-> V(i)]
<1>1. SizeChecks(b) = <<A>> \o rest
    BY Zenon DEF SizeChecks
<1>3. A \in SUBSET SizeCode /\ \A i : V(i) \in SUBSET SizeCode
    <2> HIDE DEF s
    <2> QED BY Zenon DEF When, SizeCode
<1>4. Len(s) \in Nat /\ DOMAIN s = 1 .. Len(s)
    <2> HIDE DEF Planned
    <2> QED OBVIOUS
<1> HIDE DEF A, V, s
<1>5. rest \in Seq(SUBSET SizeCode)
    BY <1>3, <1>4
<1> HIDE DEF rest
<1> QED BY <1>1, <1>3, <1>5

\* What plan() returns.
Made(inv, edit, p) ==
    LET m == Parsed(inv[2].content).value
    IN  /\ Parsed(inv[2].content).kind # "refused"
        /\ Plannable(inv, m, edit) /\ p = Built(inv, m, edit)
        /\ Clear(ReproducibleChecks(m)) /\ Clear(SizeChecks(p))

LEMMA MadePlanIs ==
    ASSUME NEW inv \in Inventory, NEW edit \in PackageEdit, NEW r, r = MakePlan(inv, edit)
    PROVE  /\ r.kind = "planned" => /\ r.plan \in RepackPlan /\ Attachments(r.plan.metadata) = <<>>
                                   /\ Made(inv, edit, r.plan)
           /\ r.kind # "planned" => r.codes \subseteq Code \cup CreateCode \cup RepackCode
<1> DEFINE verdict == Parsed(inv[2].content)
           m == verdict.value
           A == ReproducibleChecks(m)
           B == ReferenceChecks(inv, m)
           C == TargetChecks(edit, PayloadCount(inv))
           D == SizeChecks(Built(inv, m, edit))
           all == Code \cup CreateCode \cup RepackCode
           fault ==
               IF LayoutFault(inv) # {} THEN LayoutFault(inv)
               ELSE IF verdict.kind = "refused" THEN verdict.codes
               ELSE IF FirstOf(A \o B) # {} THEN FirstOf(A \o B)
               ELSE IF FirstOf(C) # {} THEN FirstOf(C) ELSE FirstOf(D)
<1>1. r = IF fault = {} THEN [kind |-> "planned", plan |-> Built(inv, m, edit)]
          ELSE [kind |-> "refused", codes |-> fault]
    BY Zenon DEF MakePlan
<1>2. LayoutFault(inv) \subseteq RepackCode
    BY LayoutIs
<1>3. ASSUME LayoutFault(inv) = {} PROVE Len(inv) >= 2 /\ verdict \in Reading
    <2>1. Len(inv) >= 2 /\ Len(inv) \in Nat
        BY <1>3, LayoutIs, InventoryIs
    <2>2. inv[2].content \in EntryContent
        BY <2>1, InventoryIs
    <2> QED BY <2>1, <2>2, ParsedIs
<1>4. ASSUME LayoutFault(inv) = {}, verdict.kind = "refused" 
      PROVE verdict.codes \subseteq Code /\ verdict.codes # {}
    <2> HIDE DEF Code, verdict
    <2> QED BY <1>3, <1>4 DEF Reading
<1>5. ASSUME LayoutFault(inv) = {}, verdict.kind # "refused" PROVE m \in Metadata
    <2> HIDE DEF verdict
    <2> QED BY <1>3, <1>5 DEF Reading
<1>6. ASSUME LayoutFault(inv) = {}, verdict.kind # "refused"
      PROVE  /\ FirstOf(A \o B) \subseteq RepackCode
             /\ FirstOf(A \o B) = {} => Clear(A) /\ Agrees(inv, m)
    <2>1. m \in Metadata /\ Len(inv) >= 2
        BY <1>3, <1>5, <1>6
    <2> HIDE DEF m
    <2>2. A \in Seq(SUBSET RepackCode)
        BY ReproducibleChecksAre
    <2>3. /\ B \in Seq(SUBSET RepackCode)
          /\ Clear(B) => Agrees(inv, m)
        BY <2>1, ReferenceChecksAre
    <2> HIDE DEF A, B
    <2>4. A \o B \in Seq(SUBSET RepackCode)
        BY <2>2, <2>3
    <2>5. FirstOf(A \o B) \subseteq RepackCode
        BY <2>4, FirstOfIs
    <2>6. ASSUME FirstOf(A \o B) = {} PROVE Clear(A) /\ Agrees(inv, m)
        <3>1. \A i \in 1 .. Len(A \o B) : (A \o B)[i] = {}
            BY <2>4, <2>6, FirstOfIs
        <3>2. Clear(A) /\ Clear(B)
            BY <2>2, <2>3, <3>1, ChecksJoined DEF Clear
        <3> QED BY <2>3, <3>2
    <2> QED BY <2>5, <2>6
<1>7. ASSUME LayoutFault(inv) = {}
      PROVE  /\ FirstOf(C) \subseteq RepackCode
             /\ FirstOf(C) = {} => TargetsFit(edit, PayloadCount(inv))
    <2>1. PayloadCount(inv) \in Nat
        BY <1>3, <1>7, InventoryIs DEF PayloadCount
    <2>2. /\ C \in Seq(SUBSET TargetCode)
          /\ Clear(C) => TargetsFit(edit, PayloadCount(inv))
        BY <2>1, TargetChecksAre
    <2>3. TargetCode \subseteq RepackCode
        BY DEF TargetCode, RepackCode
    <2> HIDE DEF C
    <2>4. FirstOf(C) \subseteq TargetCode /\ (FirstOf(C) = {} => Clear(C))
        BY <2>2, FirstOfIs DEF Clear
    <2> QED BY <2>2, <2>3, <2>4
<1>8. ASSUME LayoutFault(inv) = {}, verdict.kind # "refused", FirstOf(A \o B) = {},
             FirstOf(C) = {}
      PROVE  /\ Built(inv, m, edit) \in RepackPlan
             /\ Attachments(Built(inv, m, edit).metadata) = <<>>
             /\ FirstOf(D) \subseteq CreateCode /\ (FirstOf(D) = {} => Clear(D))
             /\ Plannable(inv, m, edit) /\ Clear(A)
    <2>1. Plannable(inv, m, edit)
        <3> HIDE DEF A, B, C, m, verdict
        <3> QED BY <1>3, <1>5, <1>6, <1>7, <1>8, LayoutIs DEF Plannable
    <2> DEFINE b == Built(inv, m, edit)
    <2>2. b \in RepackPlan /\ Attachments(b.metadata) = <<>>
        BY <2>1, BuiltIs
    <2>3. /\ FirstOf(SizeChecks(b)) \subseteq CreateCode
          /\ FirstOf(SizeChecks(b)) = {} => Clear(SizeChecks(b))
        <3> HIDE DEF b
        <3>1. b.attachments \in Seq(Planned)
            BY <2>2 DEF RepackPlan
        <3>2. SizeChecks(b) \in Seq(SUBSET SizeCode)
            BY <3>1, SizeChecksAre
        <3>3. SizeCode \subseteq CreateCode
            BY DEF SizeCode, CreateCode
        <3>4. FirstOf(SizeChecks(b)) \subseteq SizeCode
            BY <3>2, FirstOfIs
        <3>5. FirstOf(SizeChecks(b)) = {} => Clear(SizeChecks(b))
            BY <3>2, FirstOfIs DEF Clear
        <3> QED BY <3>3, <3>4, <3>5
    <2>4. Clear(A)
        BY <1>6, <1>8
    <2> QED BY <2>1, <2>2, <2>3, <2>4
<1> HIDE DEF A, B, C, D, verdict, m
<1>9. fault = {} => /\ Built(inv, m, edit) \in RepackPlan
                    /\ Attachments(Built(inv, m, edit).metadata) = <<>>
                    /\ verdict.kind # "refused" /\ Plannable(inv, m, edit) /\ Clear(A) /\ Clear(D)
    <2>1. ASSUME fault = {}, verdict.kind = "refused" PROVE FALSE
        <3>1. LayoutFault(inv) = {} /\ verdict.codes = {}
            BY <2>1
        <3> QED BY <1>4, <2>1, <3>1
    <2> QED BY <1>8, <2>1
<1>10. fault \subseteq all
    <2> HIDE DEF Code, CreateCode, RepackCode
    <2> QED BY <1>2, <1>4, <1>6, <1>7, <1>8
<1> HIDE DEF fault, all
<1>11. /\ r.kind = "planned" => fault = {} /\ r.plan = Built(inv, m, edit)
       /\ r.kind # "planned" => r.codes = fault
    BY <1>1
<1>12. ASSUME r.kind = "planned" PROVE Made(inv, edit, r.plan)
    <2>1. /\ r.plan = Built(inv, m, edit) /\ verdict.kind # "refused" /\ Plannable(inv, m, edit)
          /\ Clear(A) /\ Clear(D)
        BY <1>9, <1>11, <1>12
    <2> QED BY <2>1, Zenon DEF Made, verdict, m, A, D
<1> QED BY <1>9, <1>10, <1>11, <1>12 DEF all

-----------------------------------------------------------------------------
(* apply(), and the types of all that is returned.                         *)

LEMMA InputIs ==
    ASSUME NEW inv \in Inventory, NEW p \in RepackPlan, SameInventory(inv, p),
           NEW i \in 1 .. Len(p.attachments)
    PROVE  Inputs(inv, p)[i] \in Attachment
<1> DEFINE planned == p.attachments[i]
           content == IF planned.source.kind = "preserved"
                      THEN inv[planned.source.entry].content ELSE planned.source.content
<1>1. p.attachments \in Seq(Planned)
    BY DEF RepackPlan
<1>2. planned \in Planned /\ DOMAIN p.attachments = 1 .. Len(p.attachments)
    <2> HIDE DEF Planned
    <2> QED BY <1>1
<1>3. Inputs(inv, p)[i] =
        [file_name |-> planned.file_name, content |-> content,
         description |-> planned.description, quantity |-> planned.quantity,
         quantity_unit |-> planned.quantity_unit]
    BY <1>2 DEF Inputs
<1>4. planned.source.kind = "preserved" => planned.source.entry \in DOMAIN inv
    BY <1>2 DEF SameInventory
<1> HIDE DEF planned
<1>5. /\ planned.source \in Source /\ planned.file_name \in Text
      /\ planned.description \in SUBSET Text /\ planned.quantity \in SUBSET Text
      /\ planned.quantity_unit \in SUBSET Text
    <2> HIDE DEF Source
    <2> QED BY <1>2 DEF Planned
<1>6. content \in EntryContent
    <2>1. CASE planned.source.kind = "preserved"
        <3>1. inv[planned.source.entry].content \in EntryContent
            BY <1>4, <2>1, InventoryIs
        <3> QED BY <2>1, <3>1
    <2>2. CASE planned.source.kind # "preserved"
        <3>1. planned.source.content \in EntryContent
            <4> HIDE DEF EntryContent
            <4> QED BY <1>5, <2>2 DEF Source
        <3> QED BY <2>2, <3>1
    <2> QED BY <2>1, <2>2
<1> HIDE DEF content
<1> QED BY <1>3, <1>5, <1>6 DEF Attachment

\* What apply() returns.
LEMMA AppliedIs ==
    ASSUME NEW inv \in Inventory, NEW p \in RepackPlan, NEW r, r = ApplyPlan(inv, p)
    PROVE  \/ r.kind = "refused" /\ r.code \in CreateCode \cup RepackCode
           \/ r.kind = "written" /\ r.inventory \in Inventory
<1>1. CASE SameInventory(inv, p)
    <2> DEFINE s == Inputs(inv, p)
               spec == [metadata |-> p.metadata, attachments |-> s]
    <2>1. p.attachments \in Seq(Planned) /\ p.metadata \in Metadata
        BY DEF RepackPlan
    <2>2. Len(p.attachments) \in Nat /\ DOMAIN p.attachments = 1 .. Len(p.attachments)
        <3> HIDE DEF Planned
        <3> QED BY <2>1
    <2>3. s = [i \in 1 .. Len(p.attachments) |-> s[i]]
        BY <2>2 DEF Inputs
    <2>4. \A i \in 1 .. Len(p.attachments) : s[i] \in Attachment
        BY <1>1, InputIs
    <2>5. r = Package(spec)
        BY <1>1 DEF ApplyPlan
    <2> HIDE DEF s
    <2>6. s \in Seq(Attachment)
        <3> HIDE DEF Attachment
        <3> QED BY <2>2, <2>3, <2>4
    <2>7. spec \in PackageSpec
        BY <2>1, <2>6 DEF PackageSpec
    <2> QED BY <2>5, <2>7, PackageIs
<1>2. CASE ~SameInventory(inv, p)
    <2>1. {"repack.invalid.inventory_mismatch"} \subseteq RepackCode
        BY DEF RepackCode
    <2> HIDE DEF RepackCode
    <2> QED BY <1>2, <2>1 DEF ApplyPlan
<1> QED BY <1>1, <1>2

Returns == [call : {"none", "exchange"}]
             \cup [call : {"create", "plan", "apply"},
                   kind : {"written", "planned", "refused"},
                   code : SUBSET (Code \cup CreateCode \cup RepackCode)]

LEMMA WroteIs ==
    ASSUME NEW call \in {"create", "apply"}, NEW r, Wrote(call, r),
           inventory \in Inventory, own \in BOOLEAN,
           \/ r.kind = "refused" /\ r.code \in CreateCode \cup RepackCode
           \/ r.kind = "written" /\ r.inventory \in Inventory
    PROVE  inventory' \in Inventory /\ own' \in BOOLEAN /\ last' \in Returns
<1> HIDE DEF Code, CreateCode, RepackCode
<1>1. CASE r.kind = "written"
    <2>1. inventory' \in Inventory /\ own' = TRUE /\ last' = [call |-> call, kind |-> "written", code |-> Absent]
        BY <1>1 DEF Wrote, Returned
    <2>2. Absent \in SUBSET (Code \cup CreateCode \cup RepackCode)
        BY DEF Absent
    <2> QED BY <2>1, <2>2 DEF Returns
<1>2. CASE r.kind # "written"
    <2>1. /\ inventory' = inventory /\ own' = own
          /\ last' = [call |-> call, kind |-> "refused", code |-> {r.code}]
        BY <1>2 DEF Wrote, Returned, Present
    <2>2. {r.code} \in SUBSET (Code \cup CreateCode \cup RepackCode)
        BY <1>2
    <2> QED BY <2>1, <2>2 DEF Returns
<1> QED BY <1>1, <1>2

\* TypeOK: what the library returns is an inventory, a plan whose document
\* names no attachment yet, or a code.
THEOREM TypeCorrect == Spec => []TypeOK
<1>1. Init => TypeOK
    <2> SUFFICES ASSUME Init PROVE TypeOK
        OBVIOUS
    <2>1. Nothing \in Inventory
        <3> DEFINE E == [name : Text, content : EntryContent, packed : Nat, crc32 : Nat]
        <3>1. Ceiling(MaxEntries, Word16) \in Nat
            BY CeilingIs, CreationAssumption
        <3>2. <<>> \in Seq(E) /\ Len(<<>>) = 0
            <4> HIDE DEF E
            <4> QED OBVIOUS
        <3> HIDE DEF E
        <3>3. Len(<<>>) <= Ceiling(MaxEntries, Word16)
            BY <3>1, <3>2
        <3> QED BY <3>2, <3>3 DEF Nothing, Inventory, E
    <2>2. inventory \in Inventory
        BY <2>1, InputAssumption DEF Init
    <2>3. last \in Returns
        BY DEF Init, Returns
    <2> QED BY <2>2, <2>3 DEF Init, TypeOK, Returns
<1>2. TypeOK /\ [Next]_vars => TypeOK'
    <2> SUFFICES ASSUME TypeOK, [Next]_vars PROVE TypeOK'
        OBVIOUS
    <2> USE DEF Returns
    <2> DEFINE PlanOK(q) == q = Absent \/ \E p \in q :
                    /\ q = Present(p) /\ p \in RepackPlan /\ Attachments(p.metadata) = <<>>
    <2>0. /\ inventory \in Inventory /\ PlanOK(plan) /\ last \in Returns /\ own \in BOOLEAN
        BY DEF TypeOK
    <2> SUFFICES /\ inventory' \in Inventory /\ PlanOK(plan') /\ last' \in Returns
                 /\ own' \in BOOLEAN
        BY DEF TypeOK
    <2> HIDE DEF Returns
    <2>1. CASE Create
        <3>1. PICK request \in Request : Wrote("create", Package(request)) /\ plan' = plan
            BY <2>1 DEF Create
        <3>2. request \in PackageSpec
            BY InputAssumption
        <3> DEFINE r == Package(request)
        <3>3. \/ r.kind = "refused" /\ r.code \in CreateCode \cup RepackCode
              \/ r.kind = "written" /\ r.inventory \in Inventory
            BY <3>2, PackageIs
        <3>4. Wrote("create", r)
            BY <3>1
        <3> HIDE DEF r
        <3>5. inventory' \in Inventory /\ own' \in BOOLEAN /\ last' \in Returns
            BY <2>0, <3>3, <3>4, WroteIs
        <3> QED BY <2>0, <3>1, <3>5
    <2>2. CASE Plan
        <3> DEFINE r(edit) == MakePlan(inventory, edit)
        <3>1. PICK edit \in Edit :
                /\ IF r(edit).kind = "planned"
                   THEN /\ plan' = {r(edit).plan}
                        /\ last' = [call |-> "plan", kind |-> "planned", code |-> {}]
                   ELSE /\ \E code \in r(edit).codes :
                              last' = [call |-> "plan", kind |-> "refused", code |-> {code}]
                        /\ plan' = plan
                /\ inventory' = inventory /\ own' = own
            BY <2>2 DEF Plan, Returned, Present, Absent
        <3>2. edit \in PackageEdit
            BY InputAssumption
        <3> DEFINE x == r(edit)
        <3>3. /\ x.kind = "planned" => x.plan \in RepackPlan /\ Attachments(x.plan.metadata) = <<>>
              /\ x.kind # "planned" => x.codes \subseteq Code \cup CreateCode \cup RepackCode
            BY <2>0, <3>2, MadePlanIs
        <3>4. /\ IF x.kind = "planned"
                 THEN /\ plan' = {x.plan}
                      /\ last' = [call |-> "plan", kind |-> "planned", code |-> {}]
                 ELSE /\ \E code \in x.codes :
                            last' = [call |-> "plan", kind |-> "refused", code |-> {code}]
                      /\ plan' = plan
              /\ inventory' = inventory /\ own' = own
            BY <3>1
        <3> HIDE DEF x, r, Code, CreateCode, RepackCode
        <3>5. PlanOK(plan')
            BY <2>0, <3>3, <3>4 DEF Present
        <3>6. last' \in Returns
            <4>1. CASE x.kind = "planned"
                BY <3>4, <4>1 DEF Returns
            <4>2. CASE x.kind # "planned"
                <5>1. PICK code \in x.codes :
                        last' = [call |-> "plan", kind |-> "refused", code |-> {code}]
                    BY <3>4, <4>2
                <5>2. {code} \in SUBSET (Code \cup CreateCode \cup RepackCode)
                    BY <3>3, <4>2
                <5> QED BY <5>1, <5>2 DEF Returns
            <4> QED BY <4>1, <4>2
        <3> QED BY <2>0, <3>4, <3>5, <3>6
    <2>3. CASE Apply
        <3>1. PICK q \in plan : Wrote("apply", ApplyPlan(inventory, q)) /\ plan' = Absent
            BY <2>3 DEF Apply
        <3>2. q \in RepackPlan
            <4>1. plan # Absent
                BY DEF Absent
            <4> QED BY <2>0, <4>1 DEF Present
        <3> DEFINE r == ApplyPlan(inventory, q)
        <3>3. \/ r.kind = "refused" /\ r.code \in CreateCode \cup RepackCode
              \/ r.kind = "written" /\ r.inventory \in Inventory
            BY <2>0, <3>2, AppliedIs
        <3>4. Wrote("apply", r)
            BY <3>1
        <3> HIDE DEF r
        <3>5. inventory' \in Inventory /\ own' \in BOOLEAN /\ last' \in Returns
            BY <2>0, <3>3, <3>4, WroteIs
        <3> QED BY <3>1, <3>5
    <2>4. CASE Exchange
        <3>1. /\ inventory' \in Inventory /\ plan' = plan /\ own' = FALSE
              /\ last' = [call |-> "exchange"]
            BY <2>4, InputAssumption DEF Exchange
        <3>2. last' \in Returns
            BY <3>1 DEF Returns
        <3> QED BY <2>0, <3>1, <3>2
    <2>5. CASE UNCHANGED vars
        BY <2>0, <2>5 DEF vars
    <2> QED BY <2>1, <2>2, <2>3, <2>4, <2>5 DEF Next
<1> QED BY <1>1, <1>2, PTL DEF Spec

-----------------------------------------------------------------------------
(* Names: the last slash, and what is below a root.                        *)

LEMMA SlashIs ==
    ASSUME NEW t, IsSequence(t)
    PROVE  /\ LastSlash(t) \in 0 .. Len(t) /\ LastSlash(t) \in Nat
           /\ LastSlash(t) > 0 => t[LastSlash(t)] = "/"
           /\ \A i \in 1 .. Len(t) : t[i] = "/" => i <= LastSlash(t)
<1> DEFINE S == {i \in DOMAIN t : t[i] = "/"} \cup {0}
<1>1. Len(t) \in Nat /\ DOMAIN t = 1 .. Len(t)
    BY SequenceIs
<1>2. S \subseteq 0 .. Len(t) /\ S # {} /\ LastSlash(t) = Max(S)
    BY <1>1 DEF LastSlash
<1>3. \A i \in S : i > 0 => t[i] = "/"
    OBVIOUS
<1>4. \A i \in 1 .. Len(t) : t[i] = "/" => i \in S
    BY <1>1
<1> HIDE DEF S
<1>5. Max(S) \in S /\ \A i \in S : i <= Max(S)
    BY <1>1, <1>2, MaxIs
<1>6. LastSlash(t) \in S /\ LastSlash(t) \in 0 .. Len(t) /\ LastSlash(t) \in Nat
    <2>1. LastSlash(t) \in S
        BY <1>2, <1>5, Zenon
    <2>2. LastSlash(t) \in 0 .. Len(t)
        BY <1>2, <2>1, Zenon
    <2> QED BY <1>1, <2>1, <2>2
<1>7. \A i \in 1 .. Len(t) : t[i] = "/" => i <= LastSlash(t)
    BY <1>2, <1>4, <1>5
<1> QED BY <1>3, <1>6, <1>7

LEMMA SlashBy ==
    ASSUME NEW t, IsSequence(t), NEW k \in 0 .. Len(t), k > 0 => t[k] = "/",
           \A i \in 1 .. Len(t) : t[i] = "/" => i <= k
    PROVE  LastSlash(t) = k
<1>1. /\ LastSlash(t) \in 0 .. Len(t)
      /\ LastSlash(t) > 0 => t[LastSlash(t)] = "/"
      /\ \A i \in 1 .. Len(t) : t[i] = "/" => i <= LastSlash(t)
    BY SlashIs
<1>2. Len(t) \in Nat
    BY SequenceIs
<1>3. k <= LastSlash(t)
    BY <1>1, <1>2
<1>4. LastSlash(t) <= k
    BY <1>1, <1>2
<1> QED BY <1>1, <1>2, <1>3, <1>4

\* A directory that names end in.
EndsIt(r) == IsSequence(r) /\ Len(r) > 0 /\ r[Len(r)] = "/"

LEMMA SlashBelow ==
    ASSUME NEW r, EndsIt(r), NEW t, IsSequence(t)
    PROVE  LastSlash(r \o t) = Len(r) + LastSlash(t)
<1> DEFINE n == Len(r) k == LastSlash(t) s == r \o t
<1>1. /\ IsSequence(s) /\ Len(s) = n + Len(t) /\ Len(t) \in Nat /\ n \in Nat /\ n > 0
      /\ \A i \in 1 .. n : s[i] = r[i]
      /\ \A i \in 1 .. Len(t) : s[n + i] = t[i]
      /\ r[n] = "/"
    BY Joined, SequenceIs DEF EndsIt
<1>2. /\ k \in 0 .. Len(t)
      /\ k > 0 => t[k] = "/"
      /\ \A i \in 1 .. Len(t) : t[i] = "/" => i <= k
    BY SlashIs
<1> HIDE DEF n, k, s
<1>3. n + k \in 0 .. Len(s) /\ n + k > 0
    BY <1>1, <1>2
<1>4. s[n + k] = "/"
    <2>1. CASE k = 0
        BY <1>1, <2>1
    <2>2. CASE k > 0
        <3>1. k \in 1 .. Len(t)
            BY <1>1, <1>2, <2>2
        <3> QED BY <1>1, <1>2, <2>2, <3>1
    <2> QED BY <1>2, <2>1, <2>2
<1>5. ASSUME NEW i \in 1 .. Len(s), s[i] = "/" PROVE i <= n + k
    <2>1. CASE i <= n
        BY <1>1, <1>2, <2>1
    <2>2. CASE i > n
        <3>1. i - n \in 1 .. Len(t) /\ n + (i - n) = i
            BY <1>1, <2>2
        <3>2. t[i - n] = "/"
            BY <1>1, <1>5, <3>1
        <3>3. i - n <= k
            BY <1>2, <3>1, <3>2
        <3> QED BY <1>1, <1>2, <3>3
    <2> QED BY <1>1, <2>1, <2>2
<1>6. LastSlash(s) = n + k
    BY <1>1, <1>3, <1>4, <1>5, SlashBy
<1> QED BY <1>6 DEF n, k, s

LEMMA SegmentBelow ==
    ASSUME NEW r, EndsIt(r), NEW t, IsSequence(t)
    PROVE  LastSegment(r \o t) = LastSegment(t) /\ IsSequence(LastSegment(t))
<1> DEFINE n == Len(r) k == LastSlash(t) s == r \o t
           a == SubSeq(s, n + k + 1, Len(s)) b == SubSeq(t, k + 1, Len(t))
<1>1. /\ IsSequence(s) /\ Len(s) = n + Len(t) /\ Len(t) \in Nat /\ n \in Nat
      /\ \A i \in 1 .. Len(t) : s[n + i] = t[i]
    BY Joined, SequenceIs DEF EndsIt
<1>2. k \in 0 .. Len(t) /\ LastSlash(s) = n + k
    BY SlashIs, SlashBelow
<1>3. LastSegment(s) = a /\ LastSegment(t) = b
    BY <1>2 DEF LastSegment
<1> HIDE DEF n, k, s
<1>4. n + k \in 0 .. Len(s) /\ Len(s) - (n + k) = Len(t) - k
    BY <1>1, <1>2
<1>5. IsSequence(b) /\ Len(b) = Len(t) - k /\ \A i \in 1 .. Len(t) - k : b[i] = t[k + i]
    BY <1>2, CutEnd
<1>6. /\ IsSequence(a) /\ Len(a) = Len(s) - (n + k)
      /\ \A i \in 1 .. Len(s) - (n + k) : a[i] = s[(n + k) + i]
    BY ZenonT(30), <1>1, <1>4, CutEnd
<1>7. \A i \in 1 .. Len(t) - k : s[(n + k) + i] = t[k + i]
    <2> TAKE i \in 1 .. Len(t) - k
    <2>1. k + i \in 1 .. Len(t) /\ (n + k) + i = n + (k + i)
        BY <1>1, <1>2
    <2>2. s[n + (k + i)] = t[k + i]
        BY <1>1, <2>1
    <2> QED BY <2>1, <2>2
<1> HIDE DEF a, b
<1>8. a = b
    <2>1. Len(a) = Len(b)
        BY <1>4, <1>5, <1>6
    <2>2. \A i \in 1 .. Len(a) : a[i] = b[i]
        BY <1>4, <1>5, <1>6, <1>7
    <2> QED BY <1>5, <1>6, <2>1, <2>2, SameSequence
<1> QED BY <1>3, <1>5, <1>8 DEF s

LEMMA DirectoryBelow ==
    ASSUME NEW r, EndsIt(r), NEW t, IsSequence(t)
    PROVE  /\ LastSlash(t) > 0 => Directory(r \o t) = r \o Directory(t)
           /\ LastSlash(t) > 0 => IsSequence(Directory(t))
           /\ LastSlash(t) = 0 => Directory(r \o t) = Directory(r)
<1> DEFINE n == Len(r) k == LastSlash(t) s == r \o t
           a == SubSeq(s, 1, n + k - 1) b == SubSeq(t, 1, k - 1) c == SubSeq(r, 1, n - 1)
<1>1. /\ IsSequence(r) /\ IsSequence(s) /\ Len(s) = n + Len(t) /\ Len(t) \in Nat /\ n \in Nat
      /\ n > 0 /\ r[n] = "/"
      /\ \A i \in 1 .. n : s[i] = r[i]
      /\ \A i \in 1 .. Len(t) : s[n + i] = t[i]
    BY Joined, SequenceIs DEF EndsIt
<1>2. k \in 0 .. Len(t) /\ LastSlash(s) = n + k
    BY SlashIs, SlashBelow
<1>3. LastSlash(r) = n
    <2>1. n \in 0 .. Len(r) /\ \A i \in 1 .. Len(r) : r[i] = "/" => i <= n
        BY <1>1
    <2> HIDE DEF n
    <2> QED BY <1>1, <2>1, SlashBy
<1>4. Directory(s) = a /\ Directory(t) = b /\ Directory(r) = c
    BY <1>2, <1>3 DEF Directory
<1>5. n + k - 1 \in 0 .. Len(s)
    BY <1>1, <1>2
<1>6. IsSequence(a) /\ Len(a) = n + k - 1 /\ \A i \in 1 .. n + k - 1 : a[i] = s[i]
    <2> HIDE DEF n, k, s
    <2> QED BY <1>1, <1>5, CutBy
<1>7. ASSUME k > 0 PROVE a = r \o b /\ IsSequence(b)
    <2>1. k - 1 \in 0 .. Len(t)
        BY <1>1, <1>2, <1>7
    <2>2. IsSequence(b) /\ Len(b) = k - 1 /\ \A i \in 1 .. k - 1 : b[i] = t[i]
        <3> HIDE DEF k
        <3> QED BY <2>1, CutBy
    <2> HIDE DEF b, k
    <2>3. /\ IsSequence(r \o b) /\ Len(r \o b) = n + (k - 1)
          /\ \A i \in 1 .. n : (r \o b)[i] = r[i]
          /\ \A i \in 1 .. k - 1 : (r \o b)[n + i] = b[i]
        <3>1. /\ IsSequence(r \o b) /\ Len(r \o b) = Len(r) + Len(b)
              /\ \A i \in 1 .. Len(r) : (r \o b)[i] = r[i]
              /\ \A i \in 1 .. Len(b) : (r \o b)[Len(r) + i] = b[i]
            <4>1. IsSequence(r) /\ IsSequence(b)
                BY <1>1, <2>2
            <4>2. IsSequence(r \o b) /\ Len(r \o b) = Len(r) + Len(b)
                BY <4>1, Joined
            <4>3. \A i \in 1 .. Len(r) : (r \o b)[i] = r[i]
                BY <4>1, Joined
            <4>4. \A i \in 1 .. Len(b) : (r \o b)[Len(r) + i] = b[i]
                BY <4>1, Joined
            <4> QED BY <4>2, <4>3, <4>4
        <3> QED BY <2>2, <3>1
    <2> DEFINE d == r \o b
    <2> HIDE DEF a, d, n, s
    <2>4. IsSequence(d) /\ Len(d) = Len(a)
        BY <1>1, <1>2, <1>6, <2>3 DEF d
    <2>5. ASSUME NEW i \in 1 .. Len(a) PROVE a[i] = d[i]
        <3>1. CASE i <= n
            <4>1. i \in 1 .. n /\ i \in 1 .. n + k - 1
                BY <1>1, <1>2, <1>6, <3>1
            <4> QED BY <1>1, <1>6, <2>3, <4>1 DEF d
        <3>2. CASE i > n
            <4>1. i - n \in 1 .. k - 1 /\ i - n \in 1 .. Len(t) /\ n + (i - n) = i
                  /\ i \in 1 .. n + k - 1
                BY <1>1, <1>2, <1>6, <3>2
            <4>2. s[n + (i - n)] = t[i - n]
                BY <1>1, <4>1
            <4>3. (r \o b)[n + (i - n)] = b[i - n]
                BY <2>3, <4>1
            <4>4. b[i - n] = t[i - n] /\ a[i] = s[i]
                BY <1>6, <2>2, <4>1
            <4> QED BY <4>1, <4>2, <4>3, <4>4 DEF d
        <3> QED BY <1>1, <1>2, <1>6, <3>1, <3>2
    <2>6. a = d
        BY <1>6, <2>4, <2>5, SameSequence
    <2> QED BY <2>2, <2>6 DEF d
<1>8. ASSUME k = 0 PROVE a = c
    <2>1. n - 1 \in 0 .. Len(r)
        BY <1>1
    <2>2. IsSequence(c) /\ Len(c) = n - 1 /\ \A i \in 1 .. n - 1 : c[i] = r[i]
        <3> HIDE DEF n
        <3> QED BY <1>1, <2>1, CutBy
    <2> HIDE DEF a, c, n, k, s
    <2>3. Len(a) = Len(c)
        BY <1>1, <1>6, <1>8, <2>2
    <2>4. \A i \in 1 .. Len(a) : a[i] = c[i]
        BY <1>1, <1>6, <1>8, <2>2
    <2> QED BY <1>6, <2>2, <2>3, <2>4, SameSequence
<1> HIDE DEF a, b, c
<1>9. k > 0 => Directory(s) = r \o Directory(t) /\ IsSequence(Directory(t))
    BY <1>4, <1>7
<1>10. k = 0 => Directory(s) = Directory(r)
    BY <1>4, <1>8
<1> QED BY <1>9, <1>10 DEF k, s

\* A root: names are below it, and it is not the directory of the document.
IsRoot(r) == EndsIt(r) /\ Folded(LastSegment(Directory(r))) # Folded(Metalayer)

\* What candidate a name is, said of what follows its root.
SaysDocument(t) ==
    /\ LastSlash(t) > 0
    /\ Folded(LastSegment(t)) = Folded(MetadataFile)
    /\ Folded(LastSegment(Directory(t))) = Folded(Metalayer)

LEMMA CandidateBelow ==
    ASSUME NEW r, IsRoot(r), NEW t, IsSequence(t)
    PROVE  Candidate(r \o t) <=> SaysDocument(t)
<1> DEFINE s == r \o t
<1>1. EndsIt(r) /\ Len(r) \in Nat /\ Len(r) > 0
    BY SequenceIs DEF IsRoot, EndsIt
<1>2. LastSlash(s) = Len(r) + LastSlash(t) /\ LastSlash(t) \in Nat
    BY <1>1, SlashBelow, SlashIs
<1>3. LastSegment(s) = LastSegment(t)
    BY <1>1, SegmentBelow
<1>4. LastSlash(s) # 0
    BY <1>1, <1>2
<1>5. ASSUME LastSlash(t) > 0 PROVE LastSegment(Directory(s)) = LastSegment(Directory(t))
    <2>1. Directory(s) = r \o Directory(t) /\ IsSequence(Directory(t))
        BY <1>1, <1>5, DirectoryBelow
    <2> HIDE DEF s
    <2> QED BY <1>1, <2>1, SegmentBelow
<1>6. LastSlash(t) = 0 => Directory(s) = Directory(r)
    BY <1>1, DirectoryBelow
<1>7. Folded(LastSegment(Directory(r))) # Folded(Metalayer)
    BY DEF IsRoot
<1>8. LastSlash(t) = 0 \/ LastSlash(t) > 0
    BY <1>2
<1> HIDE DEF s
<1> QED BY <1>3, <1>4, <1>5, <1>6, <1>7, <1>8, Zenon DEF Candidate, SaysDocument, s

\* The root of a candidate is what its name is below, when nothing else is
\* between.
LEMMA PrefixBelow ==
    ASSUME NEW r, EndsIt(r), NEW t, IsSequence(t), LastSlash(t) > 0
    PROVE  /\ Len(Prefix(r \o t)) = Len(r) => LastSlash(Directory(t)) = 0
           /\ LastSlash(Directory(t)) = 0 => Prefix(r \o t) = r
<1> DEFINE s == r \o t d == LastSlash(Directory(t)) p == Prefix(s)
<1>1. Directory(s) = r \o Directory(t) /\ IsSequence(Directory(t))
    BY DirectoryBelow
<1>2. d \in 0 .. Len(Directory(t)) /\ LastSlash(Directory(s)) = Len(r) + d
    BY <1>1, SlashIs, SlashBelow
<1>3. p = SubSeq(s, 1, Len(r) + d)
    BY <1>2 DEF Prefix
<1>4. /\ IsSequence(s) /\ Len(s) = Len(r) + Len(t) /\ Len(t) \in Nat /\ Len(r) \in Nat
      /\ IsSequence(r)
      /\ \A i \in 1 .. Len(r) : s[i] = r[i]
    <2>1. IsSequence(r)
        BY DEF EndsIt
    <2>2. IsSequence(s) /\ Len(s) = Len(r) + Len(t)
        BY <2>1, Joined
    <2>3. \A i \in 1 .. Len(r) : s[i] = r[i]
        BY <2>1, Joined
    <2> QED BY <2>1, <2>2, <2>3, SequenceIs
<1>5. Len(Directory(t)) <= Len(t) /\ Len(Directory(t)) \in Nat
    <2>1. LastSlash(t) \in 0 .. Len(t)
        BY SlashIs
    <2>2. LastSlash(t) - 1 \in 0 .. Len(t)
        BY <1>4, <2>1
    <2>3. Len(SubSeq(t, 1, LastSlash(t) - 1)) = LastSlash(t) - 1
        BY <2>2, CutBy
    <2> QED BY <1>4, <2>1, <2>2, <2>3 DEF Directory
<1> HIDE DEF d, s, p
<1>6. Len(r) + d \in 0 .. Len(s) /\ d \in Nat
    BY <1>2, <1>4, <1>5
<1>7. IsSequence(p) /\ Len(p) = Len(r) + d /\ \A i \in 1 .. Len(r) + d : p[i] = s[i]
    BY <1>3, <1>4, <1>6, CutBy
<1>8. Len(p) = Len(r) => d = 0
    BY <1>4, <1>6, <1>7
<1>9. ASSUME d = 0 PROVE p = r
    <2>1. Len(p) = Len(r) /\ \A i \in 1 .. Len(r) : p[i] = r[i]
        BY <1>4, <1>7, <1>9
    <2> QED BY <1>4, <1>7, <2>1, SameSequence
<1> QED BY <1>8, <1>9 DEF p, d, s

LEMMA RootsAre ==
    /\ IsRoot(CanonicalRoot) /\ Len(CanonicalRoot) = 4
    /\ \A root \in Root : IsRoot(root)
<1>1. ASSUME NEW r \in Root \cup {CanonicalRoot}, IsSequence(r) PROVE IsRoot(r)
    <2>1. /\ r # <<>> /\ r[Len(r)] = "/"
          /\ Folded(LastSegment(Directory(r))) # Folded(Metalayer)
        BY RootAssumption DEF Last
    <2>2. Len(r) \in Nat /\ r = [i \in 1 .. Len(r) |-> r[i]]
        BY <1>1, SequenceIs
    <2>3. Len(r) = 0 => r = <<>>
        BY <2>2
    <2> QED BY <1>1, <2>1, <2>2, <2>3 DEF IsRoot, EndsIt
<1>2. IsSequence(CanonicalRoot) /\ Len(CanonicalRoot) = 4
    <2>1. CanonicalRoot \in Seq({"KRX", "/", "OCD"}) /\ Len(CanonicalRoot) = 4
        BY DEF CanonicalRoot
    <2> QED BY <2>1 DEF IsSequence
<1>3. \A root \in Root : IsSequence(root)
    BY RootAssumption DEF IsSequence, Text
<1> QED BY <1>1, <1>2, <1>3

-----------------------------------------------------------------------------
(* A name below another root.                                              *)

Moved(name, root) ==
    IF IsPrefix(CanonicalRoot, name)
    THEN root \o SubSeq(name, Len(CanonicalRoot) + 1, Len(name)) ELSE name

\* What the checks look for in a name is what follows its root.
LEMMA MovedIs ==
    ASSUME NEW name, IsSequence(name), NEW root \in Root, NEW new, new = Moved(name, root)
    PROVE  /\ IsSequence(new)
           /\ Candidate(new) <=> Candidate(name)
           /\ LastSegment(new) = LastSegment(name)
           /\ new = Mimetype <=> name = Mimetype
           /\ Candidate(name) /\ Prefix(name) = CanonicalRoot => Prefix(new) = root
<1>1. /\ IsRoot(CanonicalRoot) /\ Len(CanonicalRoot) = 4 /\ IsRoot(root)
      /\ EndsIt(CanonicalRoot) /\ EndsIt(root)
      /\ IsSequence(CanonicalRoot) /\ IsSequence(root)
    BY RootsAre DEF IsRoot, EndsIt
<1> DEFINE t == SubSeq(name, 5, Len(name))
<1>2. CASE IsPrefix(CanonicalRoot, name)
    <2>1. name = CanonicalRoot \o t /\ IsSequence(t)
        <3> DEFINE n == Len(CanonicalRoot)
        <3>1. n \in Nat /\ n + 1 = 5
            BY <1>1
        <3> HIDE DEF n
        <3>2. /\ IsSequence(SubSeq(name, n + 1, Len(name)))
              /\ name = CanonicalRoot \o SubSeq(name, n + 1, Len(name))
            <4>1. n = Len(CanonicalRoot)
                BY DEF n
            <4> QED BY <1>1, <1>2, <3>1, <4>1, PrefixIs
        <3> QED BY <3>1, <3>2
    <2>2. new = root \o t
        BY <1>1, <1>2 DEF Moved
    <2> HIDE DEF t
    <2>3. Candidate(new) <=> Candidate(name)
        BY <1>1, <2>1, <2>2, CandidateBelow
    <2>4. LastSegment(new) = LastSegment(name)
        BY <1>1, <2>1, <2>2, SegmentBelow
    <2>5. ASSUME NEW r, EndsIt(r) PROVE r \o t # Mimetype
        <3>1. /\ IsSequence(r) /\ Len(r) \in Nat /\ Len(r) > 0 /\ r[Len(r)] = "/"
            BY <2>5, SequenceIs DEF EndsIt
        <3>2. Len(r) \in 1 .. Len(r)
            BY <3>1
        <3>3. (r \o t)[Len(r)] = "/"
            BY <2>1, <3>1, <3>2, Joined
        <3>4. Len(r \o t) = Len(r) + Len(t) /\ Len(t) \in Nat
            BY <2>1, <3>1, Joined, SequenceIs
        <3>5. Len(Mimetype) = 1 /\ Mimetype[1] = "mimetype"
            BY DEF Mimetype
        <3>6. ASSUME r \o t = Mimetype PROVE FALSE
            <4>1. Len(r) = 1
                BY <3>1, <3>4, <3>5, <3>6
            <4>2. Mimetype[1] = "/"
                BY <3>3, <3>6, <4>1
            <4> QED BY <3>5, <4>2
        <3> QED BY <3>6
    <2>6. new # Mimetype /\ name # Mimetype
        BY <1>1, <2>1, <2>2, <2>5
    <2>7. ASSUME Candidate(name), Prefix(name) = CanonicalRoot PROVE Prefix(new) = root
        <3>1. LastSlash(t) > 0
            BY <1>1, <2>1, <2>7, CandidateBelow DEF SaysDocument
        <3>2. LastSlash(Directory(t)) = 0
            BY <1>1, <2>1, <2>7, <3>1, PrefixBelow
        <3> QED BY <1>1, <2>1, <2>2, <3>1, <3>2, PrefixBelow
    <2>8. IsSequence(new)
        BY <1>1, <2>1, <2>2, Joined
    <2> QED BY <2>3, <2>4, <2>6, <2>7, <2>8
<1>3. CASE ~IsPrefix(CanonicalRoot, name)
    <2>1. new = name
        BY <1>3 DEF Moved
    <2>2. ASSUME Candidate(name), Prefix(name) = CanonicalRoot PROVE FALSE
        <3> DEFINE n == LastSlash(Directory(name))
        <3>1. Prefix(name) = SubSeq(name, 1, n)
            BY DEF Prefix
        <3>2. LastSlash(name) \in 0 .. Len(name) /\ LastSlash(name) # 0 /\ Len(name) \in Nat
            BY <2>2, SlashIs, SequenceIs DEF Candidate
        <3>3. LastSlash(name) - 1 \in 0 .. Len(name)
            BY <3>2
        <3>4. IsSequence(Directory(name)) /\ Len(Directory(name)) = LastSlash(name) - 1
            BY <3>3, CutBy DEF Directory
        <3>5. n \in 0 .. Len(Directory(name))
            BY <3>4, SlashIs
        <3>6. n \in 0 .. Len(name)
            BY <3>2, <3>4, <3>5
        <3> HIDE DEF n
        <3>7. Len(Prefix(name)) = n
            BY <3>1, <3>6, CutBy
        <3>8. n = 4 /\ SubSeq(name, 1, 4) = CanonicalRoot
            BY <1>1, <2>2, <3>1, <3>7
        <3>9. SubSeq(CanonicalRoot, 1, 4) = CanonicalRoot
            <4> DEFINE x == SubSeq(CanonicalRoot, 1, 4)
            <4>1. IsSequence(x) /\ Len(x) = 4 /\ \A i \in 1 .. 4 : x[i] = CanonicalRoot[i]
                <5>1. 4 \in 0 .. Len(CanonicalRoot)
                    BY <1>1
                <5> QED BY ZenonT(30), <1>1, <5>1, CutBy
            <4> HIDE DEF x
            <4>2. x = CanonicalRoot
                BY <1>1, <4>1, SameSequence
            <4> QED BY <4>2 DEF x
        <3> QED BY <1>1, <1>3, <3>2, <3>6, <3>8, <3>9 DEF IsPrefix
    <2> QED BY <2>1, <2>2
<1> QED BY <1>2, <1>3

LEMMA InventoryIsLegible == ASSUME NEW inv \in Inventory PROVE Legible(inv)
<1>1. inv \in Seq(EntryOf) /\ Len(inv) \in Nat
    BY InventoryIs
<1>2. IsSequence(inv)
    BY <1>1 DEF IsSequence
<1>3. ASSUME NEW i \in 1 .. Len(inv)
      PROVE  {"name", "content"} \subseteq DOMAIN inv[i] /\ inv[i].name \in Text
             /\ inv[i].content \in EntryContent
    <2>1. inv[i] \in EntryOf
        <3> HIDE DEF EntryOf
        <3> QED BY <1>1
    <2> HIDE DEF EntryContent, Text
    <2> QED BY <2>1 DEF EntryOf
<1>4. ASSUME NEW c \in EntryContent PROVE LegibleContent(c)
    <2> SUFFICES ASSUME c.kind = "document", c.reading.kind = "accepted"
                 PROVE  LegibleValue(c.reading.value)
        BY DEF LegibleContent
    <2>1. c.reading \in Reading
        BY DEF EntryContent
    <2> DEFINE m == c.reading.value
    <2>2. m \in Metadata
        BY <2>1 DEF Reading
    <2> HIDE DEF m
    <2>3. m.dispatches \in Seq(Dispatch)
        BY <2>2 DEF Metadata
    <2>4. ASSUME NEW i \in 1 .. Len(m.dispatches)
          PROVE  m.dispatches[i].attachments \in Seq(AttachmentReference)
        <3>1. m.dispatches[i] \in Dispatch
            BY <2>3
        <3> QED BY <3>1 DEF Dispatch
    <2>5. ASSUME NEW i \in 1 .. Len(m.dispatches),
                 NEW k \in 1 .. Len(m.dispatches[i].attachments)
          PROVE  LegibleReference(m.dispatches[i].attachments[k])
        <3> DEFINE a == m.dispatches[i].attachments[k]
        <3>1. a \in AttachmentReference
            <4> HIDE DEF AttachmentReference
            <4> QED BY <2>4
        <3> HIDE DEF a
        <3>2. a.location \in Seq(Piece) /\ a.file_name \in Seq(Piece)
            BY <3>1 DEF AttachmentReference, Text
        <3>3. LegibleReference(a)
            BY <3>2 DEF LegibleReference, IsSequence
        <3> QED BY <3>3 DEF a
    <2>6. LegibleValue(m)
        BY <2>3, <2>4, <2>5 DEF LegibleValue, IsSequence
    <2> QED BY <2>6 DEF m
<1>5. ASSUME NEW i \in 1 .. Len(inv)
      PROVE  IsSequence(inv[i].name) /\ LegibleContent(inv[i].content)
    BY <1>3, <1>4 DEF Text, IsSequence
<1> QED BY <1>2, <1>3, <1>5 DEF Legible

\* UnfailedIsWhole: a package over which no check fails has one document, all of
\* its references name entries, no two of them the same one unless the report
\* says so, and its dispatches count what they list.  A report is a function
\* of the inventory, so what is needed of the steps is its type alone.
THEOREM WholeUnlessFailed == Spec => []UnfailedIsWhole
<1>1. TypeOK => UnfailedIsWhole
    BY InventoryIsLegible, UnfailedWhole DEF TypeOK, UnfailedIsWhole
<1> QED BY <1>1, TypeCorrect, PTL

-----------------------------------------------------------------------------
(* A package below another root.                                           *)

LEMMA RerootedIs ==
    ASSUME NEW inv, Legible(inv), NEW root, NEW new, new = Rerooted(inv, root)
    PROVE  /\ IsSequence(new) /\ Len(new) = Len(inv) /\ Len(inv) \in Nat
           /\ DOMAIN new = 1 .. Len(inv) /\ DOMAIN inv = 1 .. Len(inv)
           /\ \A i \in 1 .. Len(inv) :
                 /\ new[i].name = Moved(inv[i].name, root) /\ new[i].content = inv[i].content
<1>1. Len(inv) \in Nat /\ DOMAIN inv = 1 .. Len(inv)
    BY SequenceIs DEF Legible
<1>2. new = [i \in 1 .. Len(inv) |-> new[i]]
    BY <1>1 DEF Rerooted
<1>3. IsSequence(new) /\ Len(new) = Len(inv)
    BY <1>1, <1>2, SequenceBy
<1>4. ASSUME NEW i \in 1 .. Len(inv)
      PROVE  new[i].name = Moved(inv[i].name, root) /\ new[i].content = inv[i].content
    <2>1. {"name", "content"} \subseteq DOMAIN inv[i]
        BY DEF Legible
    <2>2. new[i] = IF IsPrefix(CanonicalRoot, inv[i].name)
                   THEN [inv[i] EXCEPT !.name =
                            root \o SubSeq(@, Len(CanonicalRoot) + 1, Len(@))]
                   ELSE inv[i]
        BY <1>1 DEF Rerooted
    <2> DEFINE e == inv[i] v == root \o SubSeq(e.name, Len(CanonicalRoot) + 1, Len(e.name))
    <2>3. new[i] = IF IsPrefix(CanonicalRoot, e.name) THEN [e EXCEPT !.name = v] ELSE e
        BY <2>2
    <2>4. Moved(e.name, root) = IF IsPrefix(CanonicalRoot, e.name) THEN v ELSE e.name
        BY DEF Moved
    <2> HIDE DEF e, v
    <2>5. {"name", "content"} \subseteq DOMAIN e
        BY <2>1 DEF e
    <2>6. [e EXCEPT !.name = v].name = v /\ [e EXCEPT !.name = v].content = e.content
        BY <2>5
    <2>7. new[i].name = Moved(e.name, root) /\ new[i].content = e.content
        BY <2>3, <2>4, <2>6
    <2> QED BY <2>7 DEF e
<1> QED BY <1>1, <1>2, <1>3, <1>4

LEMMA MarkerStays ==
    ASSUME NEW inv, Legible(inv), NEW root \in Root, NEW new, new = Rerooted(inv, root)
    PROVE  MarkerOutcome(new) = MarkerOutcome(inv)
<1>1. /\ Len(inv) \in Nat /\ DOMAIN new = 1 .. Len(inv) /\ DOMAIN inv = 1 .. Len(inv)
      /\ \A i \in 1 .. Len(inv) :
            /\ new[i].name = Moved(inv[i].name, root) /\ new[i].content = inv[i].content
    BY RerootedIs
<1>2. ASSUME NEW i \in 1 .. Len(inv)
      PROVE  /\ LastSegment(new[i].name) = LastSegment(inv[i].name)
             /\ new[i].name = Mimetype <=> inv[i].name = Mimetype
    <2>1. IsSequence(inv[i].name)
        BY DEF Legible
    <2> QED BY <1>1, <2>1, MovedIs
<1> DEFINE shaped(x) == {i \in DOMAIN x : LastSegment(x[i].name) = Mimetype}
           exact(x) == {i \in DOMAIN x \cap {1} : x[i].name = Mimetype}
           found(x) == IF exact(x) # {} THEN exact(x)
                       ELSE IF shaped(x) = {} THEN Absent ELSE Present(Min(shaped(x)))
<1>3. shaped(new) = shaped(inv) /\ exact(new) = exact(inv)
    BY <1>1, <1>2
<1>4. FindMarker(new) = found(new) /\ FindMarker(inv) = found(inv)
    BY Zenon DEF FindMarker
<1> DEFINE a == shaped(inv) b == exact(inv)
<1>5. a \subseteq 1 .. Len(inv) /\ b \subseteq 1 .. Len(inv)
    BY <1>1
<1>6. /\ FindMarker(new) = IF b # {} THEN b ELSE IF a = {} THEN Absent ELSE Present(Min(a))
      /\ FindMarker(inv) = IF b # {} THEN b ELSE IF a = {} THEN Absent ELSE Present(Min(a))
    BY <1>3, <1>4, Zenon
<1> HIDE DEF a, b, found, shaped, exact
<1> DEFINE M == FindMarker(inv)
<1>7. FindMarker(new) = M
    BY <1>6
<1>8. M # Absent => The(M) \in 1 .. Len(inv)
    <2>1. b # {} => The(b) \in 1 .. Len(inv)
        BY <1>5, TheIs
    <2>2. a # {} => Min(a) \in 1 .. Len(inv)
        BY <1>1, <1>5, Minimum
    <2>3. The({Min(a)}) = Min(a)
        BY TheOne
    <2> QED BY <1>6, <2>1, <2>2, <2>3 DEF Present
<1> HIDE DEF M
<1> DEFINE kind(e) ==
             CASE M = Absent -> "missing"
               [] M # Absent /\ e.name # Mimetype -> "prefixed"
               [] M # Absent /\ e.name = Mimetype /\ M # {1} -> "not_first"
               [] OTHER ->
                     IF e.content = FileContent(MarkerFile) THEN "matching"
                     ELSE "content_mismatch"
<1>9. Marker(new) = kind(new[The(M)]) /\ Marker(inv) = kind(inv[The(M)])
    <2>1. Marker(new) = kind(new[The(M)])
        BY <1>7, Zenon DEF Marker
    <2>2. Marker(inv) = kind(inv[The(M)])
        BY Zenon DEF Marker, M
    <2> QED BY <2>1, <2>2
<1>10. M # Absent => /\ new[The(M)].name = Mimetype <=> inv[The(M)].name = Mimetype
                     /\ new[The(M)].content = inv[The(M)].content
    BY <1>1, <1>2, <1>8
<1>11. kind(new[The(M)]) = kind(inv[The(M)])
    <2> DEFINE x == new[The(M)] y == inv[The(M)]
    <2>1. M # Absent => (x.name = Mimetype <=> y.name = Mimetype) /\ x.content = y.content
        BY <1>10
    <2> HIDE DEF x, y
    <2>2. CASE M = Absent
        BY <2>2
    <2>3. CASE M # Absent /\ x.name # Mimetype
        <3>1. M # Absent /\ y.name # Mimetype
            BY <2>1, <2>3
        <3>2. kind(x) = "prefixed"
            BY <2>3, Zenon
        <3>3. kind(y) = "prefixed"
            BY <3>1, Zenon
        <3> QED BY <3>2, <3>3 DEF x, y
    <2>4. CASE M # Absent /\ x.name = Mimetype /\ M # {1}
        <3>1. M # Absent /\ y.name = Mimetype /\ M # {1}
            BY <2>1, <2>4
        <3>2. kind(x) = "not_first"
            BY <2>4, Zenon
        <3>3. kind(y) = "not_first"
            BY <3>1, Zenon
        <3> QED BY <3>2, <3>3 DEF x, y
    <2>5. CASE M # Absent /\ x.name = Mimetype /\ M = {1}
        <3>1. y.name = Mimetype /\ x.content = y.content
            BY <2>1, <2>5
        <3> DEFINE of(e) == IF e.content = FileContent(MarkerFile) THEN "matching"
                            ELSE "content_mismatch"
        <3>2. of(x) = of(y)
            BY <3>1
        <3>3. kind(x) = of(x)
            BY <2>5, Zenon
        <3>4. kind(y) = of(y)
            <4>1. M # Absent /\ y.name = Mimetype /\ M = {1}
                BY <2>5, <3>1
            <4> QED BY <4>1, Zenon
        <3> QED BY <3>2, <3>3, <3>4 DEF x, y
    <2> QED BY <2>2, <2>3, <2>4, <2>5 DEF x, y
<1> HIDE DEF kind
<1> QED BY <1>9, <1>11 DEF MarkerOutcome

LEMMA KnownAre ==
    /\ Range(KnownPrefixes) = {CanonicalRoot, <<"OCD", "/">>, <<"KRX", "/">>, <<>>}
    /\ \A p \in Range(KnownPrefixes) : IsSequence(p) /\ Len(p) \in {0, 2, 4}
<1>1. Range(KnownPrefixes) = {CanonicalRoot, <<"OCD", "/">>, <<"KRX", "/">>, <<>>}
    <2>1. /\ DOMAIN KnownPrefixes = 1 .. 4 /\ KnownPrefixes[1] = CanonicalRoot
          /\ KnownPrefixes[2] = <<"OCD", "/">> /\ KnownPrefixes[3] = <<"KRX", "/">>
          /\ KnownPrefixes[4] = <<>>
        BY DEF KnownPrefixes
    <2> DEFINE k == KnownPrefixes
    <2>2. Range(k) = {k[1], k[2], k[3], k[4]}
        <3>1. DOMAIN k = 1 .. 4
            BY <2>1
        <3> HIDE DEF k
        <3> QED BY <3>1 DEF Range
    <2> QED BY <2>1, <2>2
<1>2. /\ IsSequence(<<"OCD", "/">>) /\ IsSequence(<<"KRX", "/">>) /\ IsSequence(<<>>)
      /\ Len(<<"OCD", "/">>) = 2 /\ Len(<<"KRX", "/">>) = 2 /\ Len(<<>>) = 0
    <2>1. /\ <<"OCD", "/">> \in Seq({"OCD", "/"}) /\ <<"KRX", "/">> \in Seq({"KRX", "/"})
          /\ <<>> \in Seq({})
        OBVIOUS
    <2> QED BY <2>1 DEF IsSequence
<1>3. IsSequence(CanonicalRoot) /\ Len(CanonicalRoot) = 4
    BY RootsAre DEF IsRoot, EndsIt
<1> QED BY <1>1, <1>2, <1>3

\* What is left of a path, and what is left of one below the canonical root.
LEMMA StrippedIs ==
    ASSUME NEW path, IsSequence(path)
    PROVE  /\ IsSequence(StripKnownPrefix(path))
           /\ IsPrefix(CanonicalRoot, path) =>
                StripKnownPrefix(path) = SubSeq(path, Len(CanonicalRoot) + 1, Len(path))
<1> DEFINE fitting == {p \in Range(KnownPrefixes) : IsPrefix(p, path)}
           fits == {Len(p) : p \in fitting}
<1>1. StripKnownPrefix(path) = SubSeq(path, Max(fits) + 1, Len(path))
    BY DEF StripKnownPrefix
<1>2. Len(path) \in Nat
    BY SequenceIs
<1>3. \A p \in fitting : Len(p) \in 0 .. 4 /\ Len(p) <= Len(path)
    BY KnownAre DEF IsPrefix
<1>4. <<>> \in fitting
    <2>1. IsSequence(<<>>) /\ IsSequence(path) /\ Len(<<>>) = 0
        BY KnownAre
    <2> DEFINE none == <<>>
    <2>2. none \o path = path
        <3>1. IsSequence(none \o path) /\ Len(none \o path) = Len(path)
              /\ \A i \in 1 .. Len(path) : (none \o path)[0 + i] = path[i]
            BY <1>2, <2>1, Joined
        <3>2. \A i \in 1 .. Len(none \o path) : (none \o path)[i] = path[i]
            BY <1>2, <3>1
        <3> QED BY <3>1, <3>2, SameSequence
    <2>3. IsPrefix(none, none \o path)
        BY <2>1, RestIs
    <2> QED BY <2>2, <2>3, KnownAre
<1> HIDE DEF fitting
<1>5. fits \subseteq 0 .. 4 /\ fits # {} /\ \A n \in fits : n <= Len(path)
    BY <1>3, <1>4
<1>6. CanonicalRoot \in fitting => 4 \in fits
    BY RootsAre
<1>7. IsPrefix(CanonicalRoot, path) => CanonicalRoot \in fitting
    BY KnownAre DEF fitting
<1> HIDE DEF fits
<1>8. Max(fits) \in fits /\ \A n \in fits : n <= Max(fits)
    BY <1>5, MaxIs
<1> DEFINE m == Max(fits)
<1>81. m \in fits /\ \A n \in fits : n <= m
    BY <1>8
<1> HIDE DEF m
<1>82. m \in 0 .. 4 /\ m <= Len(path)
    BY <1>5, <1>81
<1>9. Max(fits) \in 0 .. Len(path)
    <2>1. m \in 0 .. Len(path)
        BY <1>2, <1>82
    <2> QED BY <2>1 DEF m
<1>10. IsPrefix(CanonicalRoot, path) => Max(fits) = Len(CanonicalRoot)
    <2>1. IsPrefix(CanonicalRoot, path) => 4 <= m
        BY <1>6, <1>7, <1>81
    <2>2. IsPrefix(CanonicalRoot, path) => m = 4
        BY <1>82, <2>1
    <2> QED BY <2>2, RootsAre DEF m
<1>11. IsSequence(SubSeq(path, Max(fits) + 1, Len(path)))
    BY <1>9, CutEnd
<1> QED BY <1>1, <1>10, <1>11

LEMMA DeclaredPathIs ==
    ASSUME NEW a, LegibleReference(a)
    PROVE  IsSequence(DeclaredPath(a))
<1> DEFINE t == a.location
           named == {i \in DOMAIN t : t[i] # "/"}
           w == WithoutSlashes(t)
<1>1. /\ IsSequence(t) /\ IsSequence(a.file_name) /\ Len(t) \in Nat /\ DOMAIN t = 1 .. Len(t)
    BY SequenceIs DEF LegibleReference
<1>2. w = IF named = {} THEN <<>> ELSE SubSeq(t, 1, Max(named))
    BY DEF WithoutSlashes
<1>3. named \subseteq 0 .. Len(t) /\ named \subseteq 1 .. Len(t)
    BY <1>1
<1> HIDE DEF named, t, w
<1>4. IsSequence(w)
    <2>1. CASE named = {}
        BY <1>2, <2>1, KnownAre
    <2>2. CASE named # {}
        <3>1. Max(named) \in 0 .. Len(t)
            BY <1>1, <1>3, <2>2, MaxIs
        <3>2. IsSequence(SubSeq(t, 1, Max(named)))
            BY <1>1, <3>1, CutBy
        <3> QED BY <1>2, <2>2, <3>2
    <2> QED BY <2>1, <2>2
<1>5. IsSequence(<<"/">>)
    <2>1. <<"/">> \in Seq({"/"})
        OBVIOUS
    <2> QED BY <2>1 DEF IsSequence
<1>6. IsSequence((w \o <<"/">>) \o a.file_name)
    <2> DEFINE x == <<"/">>
    <2>1. IsSequence(x)
        BY <1>5
    <2> HIDE DEF x
    <2>2. IsSequence(w \o x)
        BY <1>4, <2>1, Joined
    <2>3. IsSequence((w \o x) \o a.file_name)
        BY <1>1, <2>2, Joined
    <2> QED BY <2>3 DEF x
<1>7. DeclaredPath(a) = IF w = <<>> THEN a.file_name ELSE (w \o <<"/">>) \o a.file_name
    BY DEF DeclaredPath, w, t
<1> QED BY <1>1, <1>6, <1>7

LEMMA PrefixBy ==
    ASSUME NEW p, NEW s, IsSequence(p), IsSequence(s), NEW n \in Nat, n = Len(p), n <= Len(s),
           \A i \in 1 .. n : p[i] = s[i]
    PROVE  IsPrefix(p, s)
<1>1. n \in 0 .. Len(p) /\ n \in 0 .. Len(s)
    BY SequenceIs
<1> DEFINE a == SubSeq(p, 1, n) b == SubSeq(s, 1, n)
<1>2. IsSequence(a) /\ Len(a) = n /\ \A i \in 1 .. n : a[i] = p[i]
    BY <1>1, CutBy
<1>3. IsSequence(b) /\ Len(b) = n /\ \A i \in 1 .. n : b[i] = s[i]
    BY <1>1, CutBy
<1> HIDE DEF a, b
<1>4. a = b
    BY <1>2, <1>3, SameSequence
<1> QED BY <1>4 DEF IsPrefix, a, b

LEMMA BelowCanonical ==
    ASSUME NEW s, IsSequence(s), IsPrefix(CanonicalRoot, s)
    PROVE  4 <= Len(s) /\ s[1] = "KRX" /\ s[3] = "OCD" /\ s[4] = "/"
<1> DEFINE c == CanonicalRoot
<1>1. IsSequence(c) /\ Len(c) = 4
    BY RootsAre DEF IsRoot, EndsIt
<1>2. c[1] = "KRX" /\ c[3] = "OCD" /\ c[4] = "/"
    BY DEF CanonicalRoot
<1>3. IsPrefix(c, s)
    OBVIOUS
<1> HIDE DEF c
<1>4. 4 <= Len(s) /\ \A i \in 1 .. 4 : s[i] = c[i]
    <2>1. 4 \in Nat
        OBVIOUS
    <2> QED BY <1>1, <1>3, <2>1, PrefixIs
<1> QED BY <1>2, <1>4

\* What a name that is tried moves to.
LEMMA TriedMoves ==
    ASSUME NEW rest, IsSequence(rest), NEW root,
           \A p \in Range(KnownPrefixes) \ {<<>>} : ~IsPrefix(p, rest)
    PROVE  /\ Moved(CanonicalRoot \o rest, root) = root \o rest
           /\ Moved(<<"OCD", "/">> \o rest, root) = <<"OCD", "/">> \o rest
           /\ Moved(<<"KRX", "/">> \o rest, root) = <<"KRX", "/">> \o rest
           /\ Moved(<<>> \o rest, root) = <<>> \o rest
<1> DEFINE n == Len(CanonicalRoot) o == <<"OCD", "/">> x == <<"KRX", "/">> none == <<>>
<1>1. n = 4 /\ n \in Nat /\ IsSequence(CanonicalRoot)
    BY RootsAre DEF IsRoot, EndsIt
<1>2. /\ o \in Range(KnownPrefixes) /\ IsSequence(o) /\ Len(o) = 2
      /\ x \in Range(KnownPrefixes) /\ IsSequence(x) /\ Len(x) = 2
      /\ IsSequence(none) /\ Len(none) = 0
      /\ o # <<>> /\ CanonicalRoot # <<>> /\ CanonicalRoot \in Range(KnownPrefixes)
    <2>1. Len(o) = 2 /\ Len(x) = 2 /\ Len(none) = 0
        OBVIOUS
    <2> HIDE DEF n
    <2>2. o # <<>> /\ CanonicalRoot # <<>>
        BY <1>1, <2>1 DEF n
    <2> QED BY <2>1, <2>2, KnownAre
<1>3. /\ o[1] = "OCD" /\ x[1] = "KRX" /\ x[2] = "/"
      /\ CanonicalRoot[1] = "KRX" /\ CanonicalRoot[2] = "/"
      /\ CanonicalRoot[3] = "OCD" /\ CanonicalRoot[4] = "/"
    BY DEF CanonicalRoot
<1> DEFINE c == CanonicalRoot
<1> HIDE DEF c, o, x, none
<1>4. Moved(c \o rest, root) = root \o rest
    <2>1. IsPrefix(c, c \o rest) /\ SubSeq(c \o rest, n + 1, Len(c \o rest)) = rest
        BY <1>1, RestIs DEF c
    <2> HIDE DEF n
    <2> QED BY <2>1 DEF Moved, c, n
<1>5. /\ IsSequence(o \o rest) /\ (o \o rest)[1] = "OCD"
    <2>1. 1 \in 1 .. Len(o)
        BY <1>2
    <2>2. (o \o rest)[1] = o[1]
        BY <1>2, <2>1, Joined
    <2> QED BY <1>2, <1>3, <2>2, Joined
<1>6. ~IsPrefix(c, o \o rest)
    <2> SUFFICES ASSUME IsPrefix(c, o \o rest) PROVE FALSE
        OBVIOUS
    <2>1. (o \o rest)[1] = "KRX"
        BY <1>5, BelowCanonical DEF c
    <2> QED BY <1>5, <2>1
<1>7. /\ IsSequence(x \o rest) /\ Len(x \o rest) = 2 + Len(rest) /\ Len(rest) \in Nat
      /\ \A i \in 1 .. Len(rest) : (x \o rest)[2 + i] = rest[i]
    <2>1. IsSequence(x \o rest) /\ Len(x \o rest) = Len(x) + Len(rest)
        BY <1>2, Joined
    <2> HIDE DEF n
    <2>2. \A i \in 1 .. Len(rest) : (x \o rest)[Len(x) + i] = rest[i]
        <3>1. IsSequence(x)
            BY <1>2
        <3> QED BY <3>1, Joined
    <2> QED BY <1>2, <2>1, <2>2, SequenceIs
<1>8. ~IsPrefix(c, x \o rest)
    <2> SUFFICES ASSUME IsPrefix(c, x \o rest) PROVE FALSE
        OBVIOUS
    <2>1. 4 <= Len(x \o rest) /\ (x \o rest)[3] = "OCD" /\ (x \o rest)[4] = "/"
        BY <1>7, BelowCanonical DEF c
    <2>2. 2 <= Len(rest)
        BY <1>7, <2>1
    <2>3. (x \o rest)[3] = "OCD" /\ (x \o rest)[4] = "/"
        BY <2>1
    <2>4. (x \o rest)[2 + 1] = rest[1] /\ (x \o rest)[2 + 2] = rest[2]
        BY <1>7, <2>2
    <2>5. 2 + 1 = 3 /\ 2 + 2 = 4
        OBVIOUS
    <2>6. rest[1] = "OCD" /\ rest[2] = "/"
        BY <2>3, <2>4, <2>5
    <2>7. o[1] = "OCD" /\ o[2] = "/"
        BY DEF o
    <2>8. \A i \in 1 .. 2 : o[i] = rest[i]
        BY <2>6, <2>7
    <2>9. IsPrefix(o, rest)
        BY <1>2, <2>2, <2>8, PrefixBy
    <2> QED BY <1>2, <2>9
<1>9. none \o rest = rest
    <2>1. /\ IsSequence(none \o rest) /\ Len(none \o rest) = Len(none) + Len(rest)
        BY <1>2, Joined
    <2>2. \A i \in 1 .. Len(rest) : (none \o rest)[Len(none) + i] = rest[i]
        BY <1>2, Joined
    <2>3. Len(none \o rest) = Len(rest) /\ \A i \in 1 .. Len(rest) : (none \o rest)[i] = rest[i]
        BY <1>2, <1>7, <2>1, <2>2
    <2> QED BY <2>1, <2>3, SameSequence
<1>10. ~IsPrefix(c, none \o rest)
    BY <1>2, <1>9 DEF c
<1> HIDE DEF n
<1>11. /\ Moved(o \o rest, root) = o \o rest /\ Moved(x \o rest, root) = x \o rest
       /\ Moved(none \o rest, root) = none \o rest
    BY <1>6, <1>8, <1>10 DEF Moved, c
<1> QED BY <1>4, <1>11 DEF c, o, x, none

\* A reference that names an entry names one below another root.
LEMMA ReferencesStay ==
    ASSUME NEW inv, Legible(inv), NEW root \in Root, NEW new, new = Rerooted(inv, root),
           NEW path, IsSequence(path), ~TwiceRooted(path),
           ResolvePath(inv, path, CanonicalRoot).kind # "missing"
    PROVE  ResolvePath(new, path, root).kind # "missing"
<1> SUFFICES ASSUME ResolvePath(new, path, root).kind = "missing" PROVE FALSE
    OBVIOUS
<1> DEFINE rest == StripKnownPrefix(path)
           try(r, k) == PrefixesToTry(r)[k] \o rest
<1>1. /\ IsSequence(new) /\ Len(new) = Len(inv) /\ Len(inv) \in Nat
      /\ \A i \in 1 .. Len(inv) : new[i].name = Moved(inv[i].name, root)
    BY RerootedIs
<1>2. Names(new, path) = {} /\ \A k \in 1 .. 5 : Names(new, try(root, k)) = {}
    BY <1>1, ResolvedIs
<1>3. \/ Names(inv, path) # {}
      \/ \E k \in 1 .. 5 : Names(inv, try(CanonicalRoot, k)) # {}
    <2>1. IsSequence(inv)
        BY DEF Legible
    <2> DEFINE r == ResolvePath(inv, path, CanonicalRoot)
    <2>2. /\ r.kind \in {"resolved", "variant", "missing"}
          /\ r.kind = "variant" => \E k \in 1 .. 5 : Names(inv, try(CanonicalRoot, k)) # {}
          /\ r.kind = "resolved" => \E i \in Names(inv, path) : r.entry = {i}
        BY <2>1, ResolvedIs
    <2> QED BY <2>2
<1>4. ASSUME NEW name, Names(inv, name) # {} PROVE Names(new, Moved(name, root)) # {}
    <2>1. PICK i \in 1 .. Len(inv) : inv[i].name = name
        BY <1>4 DEF Names
    <2> QED BY <1>1, <2>1 DEF Names
<1>5. /\ IsSequence(rest)
      /\ IsPrefix(CanonicalRoot, path) =>
            rest = SubSeq(path, Len(CanonicalRoot) + 1, Len(path))
    BY StrippedIs
<1>6. \A p \in Range(KnownPrefixes) \ {<<>>} : ~IsPrefix(p, rest)
    BY DEF TwiceRooted
<1> HIDE DEF rest
<1>7. /\ Moved(CanonicalRoot \o rest, root) = root \o rest
      /\ Moved(<<"OCD", "/">> \o rest, root) = <<"OCD", "/">> \o rest
      /\ Moved(<<"KRX", "/">> \o rest, root) = <<"KRX", "/">> \o rest
      /\ Moved(<<>> \o rest, root) = <<>> \o rest
    BY <1>5, <1>6, TriedMoves
<1>8. /\ try(CanonicalRoot, 1) = CanonicalRoot \o rest
      /\ try(CanonicalRoot, 2) = CanonicalRoot \o rest
      /\ try(CanonicalRoot, 3) = <<"OCD", "/">> \o rest
      /\ try(CanonicalRoot, 4) = <<"KRX", "/">> \o rest
      /\ try(CanonicalRoot, 5) = <<>> \o rest
      /\ try(root, 1) = root \o rest
      /\ try(root, 3) = <<"OCD", "/">> \o rest
      /\ try(root, 4) = <<"KRX", "/">> \o rest
      /\ try(root, 5) = <<>> \o rest
    BY TriesAre
<1>9. Names(inv, path) = {}
    <2> SUFFICES ASSUME Names(inv, path) # {} PROVE FALSE
        OBVIOUS
    <2>1. Names(new, Moved(path, root)) # {}
        BY <1>4
    <2>2. CASE IsPrefix(CanonicalRoot, path)
        <3>1. Moved(path, root) = root \o rest
            BY <1>5, <2>2 DEF Moved
        <3>2. Names(new, try(root, 1)) # {}
            BY <1>8, <2>1, <3>1
        <3> QED BY <1>2, <3>2
    <2>3. CASE ~IsPrefix(CanonicalRoot, path)
        BY <1>2, <2>1, <2>3 DEF Moved
    <2> QED BY <2>2, <2>3
<1>10. PICK k \in 1 .. 5 : Names(inv, try(CanonicalRoot, k)) # {}
    BY <1>3, <1>9
<1>11. Names(new, Moved(try(CanonicalRoot, k), root)) # {}
    BY <1>4, <1>10
<1>12. \A j \in 1 .. 5 : Names(new, try(root, j)) = {}
    BY <1>2
<1> HIDE DEF try
<1>13. CASE k = 1 \/ k = 2
    <2>1. try(CanonicalRoot, k) = CanonicalRoot \o rest
        BY <1>8, <1>13
    <2>2. Names(new, root \o rest) # {}
        BY <1>7, <1>11, <2>1
    <2>3. Names(new, try(root, 1)) # {}
        BY <1>8, <2>2
    <2> QED BY <1>12, <2>3
<1>14. CASE k = 3
    BY <1>7, <1>8, <1>11, <1>12, <1>14
<1>15. CASE k = 4
    BY <1>7, <1>8, <1>11, <1>12, <1>15
<1>16. CASE k = 5
    BY <1>7, <1>8, <1>11, <1>12, <1>16
<1> QED BY <1>13, <1>14, <1>15, <1>16

LEMMA DuplicatesStay ==
    ASSUME NEW a, NEW b, IsSequence(a), IsSequence(b), Len(a) = Len(b),
           \A i \in 1 .. Len(a) :
              a[i].number = b[i].number /\ a[i].declared_path = b[i].declared_path
    PROVE  HasDuplicate(b) => HasDuplicate(a)
<1>1. DOMAIN a = 1 .. Len(a) /\ DOMAIN b = 1 .. Len(a)
    BY SequenceIs
<1> QED BY <1>1 DEF HasDuplicate

\* What passes below the canonical root passes below another.
LEMMA PassesElsewhere ==
    ASSUME NEW inv, Legible(inv), NEW root \in Root, NEW new, new = Rerooted(inv, root),
           NEW c, NEW m, NEW a, Passes(inv, c, m, a), LegibleValue(m),
           Prefix(inv[c].name) = CanonicalRoot,
           \A i \in 1 .. Len(a) : ~TwiceRooted(a[i].declared_path)
    PROVE  \E b : Passes(new, c, m, b)
<1> DEFINE b == Resolve(new, m, root)
<1>1. /\ IsSequence(new) /\ Len(new) = Len(inv) /\ Len(inv) \in Nat
      /\ DOMAIN new = 1 .. Len(inv) /\ DOMAIN inv = 1 .. Len(inv)
      /\ \A i \in 1 .. Len(inv) :
            new[i].name = Moved(inv[i].name, root) /\ new[i].content = inv[i].content
    BY RerootedIs
<1>2. c \in 1 .. Len(inv) /\ Candidates(inv) = {c}
    BY DEF Passes
<1>3. Candidates(new) = {c}
    <2>1. \A i \in 1 .. Len(inv) : Candidate(new[i].name) <=> Candidate(inv[i].name)
        BY <1>1, MovedIs DEF Legible
    <2>2. Candidates(new) = Candidates(inv)
        BY <1>1, <2>1 DEF Candidates
    <2> QED BY <1>2, <2>2
<1>4. Prefix(new[c].name) = root
    <2>1. Candidate(inv[c].name)
        BY <1>2 DEF Candidates
    <2>2. IsSequence(inv[c].name) /\ new[c].name = Moved(inv[c].name, root)
        BY <1>1, <1>2 DEF Legible
    <2> QED BY <2>1, <2>2, MovedIs
<1>5. Parsed(new[c].content).kind = "accepted" /\ Parsed(new[c].content).value = m
    <2>1. new[c].content = inv[c].content
        BY <1>1, <1>2
    <2> QED BY <2>1 DEF Passes
<1>6. MarkerOutcome(new).kind # "fail"
    BY MarkerStays DEF Passes
<1>7. /\ IsSequence(a) /\ Len(a) = Len(Attachments(m)) /\ Len(a) \in Nat
      /\ \A i \in 1 .. Len(a) :
            /\ a[i].number = Attachments(m)[i].number
            /\ a[i].declared_path = DeclaredPath(Attachments(m)[i])
            /\ a[i].resolution = ResolvePath(inv, DeclaredPath(Attachments(m)[i]), CanonicalRoot)
    BY ResolvedAre DEF Passes
<1>8. /\ IsSequence(b) /\ Len(b) = Len(Attachments(m)) /\ Len(b) \in Nat
      /\ \A i \in 1 .. Len(b) :
            /\ b[i].number = Attachments(m)[i].number
            /\ b[i].declared_path = DeclaredPath(Attachments(m)[i])
            /\ b[i].resolution = ResolvePath(new, DeclaredPath(Attachments(m)[i]), root)
    BY ResolvedAre
<1>9. /\ \A i \in 1 .. Len(a) : a[i].resolution.kind # "missing"
      /\ Len(a) > 0 => ~HasDuplicate(a)
      /\ CountAgrees(m) # Absent => The(CountAgrees(m))
    BY PassingReferences
<1> HIDE DEF b
<1>10. ASSUME NEW i \in 1 .. Len(b) PROVE b[i].resolution.kind # "missing"
    <2> DEFINE path == DeclaredPath(Attachments(m)[i])
    <2>1. i \in 1 .. Len(a) /\ i \in 1 .. Len(Attachments(m))
        BY <1>7, <1>8
    <2>2. IsSequence(path)
        BY <2>1, AttachmentsAre, DeclaredPathIs
    <2>3. ~TwiceRooted(path) /\ ResolvePath(inv, path, CanonicalRoot).kind # "missing"
        BY <1>7, <1>9, <2>1
    <2> HIDE DEF path
    <2>4. ResolvePath(new, path, root).kind # "missing"
        BY <2>2, <2>3, ReferencesStay
    <2> QED BY <1>8, <2>4 DEF path
<1>11. Len(b) > 0 => ~HasDuplicate(b)
    <2>1. \A i \in 1 .. Len(a) :
            a[i].number = b[i].number /\ a[i].declared_path = b[i].declared_path
        BY <1>7, <1>8
    <2> QED BY <1>7, <1>8, <1>9, <2>1, DuplicatesStay
<1>12. \A i \in 6 .. 11 : DocumentOutcome(m, b, Order[i]).kind # "fail"
    BY <1>8, <1>9, <1>10, <1>11, ReferencesPass
<1>13. b = Resolve(new, m, Prefix(new[c].name))
    BY <1>4 DEF b
<1> QED BY <1>1, <1>2, <1>3, <1>5, <1>6, <1>12, <1>13 DEF Passes

LEMMA NothingFailsElsewhere ==
    ASSUME NEW inv, Legible(inv)
    PROVE  FailsNothingElsewhere(Check(inv), inv)
<1> DEFINE r == Check(inv)
<1> SUFFICES ASSUME Failed(r) = {}, r.root_prefix = {CanonicalRoot},
                    \A a \in Range(r.attachments) : ~TwiceRooted(a.declared_path),
                    NEW root \in Root
             PROVE  Failed(Check(Rerooted(inv, root))) = {}
    BY DEF FailsNothingElsewhere
<1>1. PICK c, m, a : Passes(inv, c, m, a) /\ LegibleValue(m)
    BY UnfailedPasses
<1>2. r.attachments = a /\ r.root_prefix = {Prefix(inv[c].name)}
    BY <1>1, PassingReport
<1> HIDE DEF r
<1>3. Prefix(inv[c].name) = CanonicalRoot
    BY <1>2
<1>4. DOMAIN a = 1 .. Len(a)
    BY <1>1, ResolvedAre, SequenceIs DEF Passes
<1>5. \A i \in 1 .. Len(a) : ~TwiceRooted(a[i].declared_path)
    BY <1>2, <1>4 DEF Range
<1> DEFINE new == Rerooted(inv, root)
<1>6. \E b : Passes(new, c, m, b)
    BY <1>1, <1>3, <1>5, PassesElsewhere
<1> HIDE DEF new
<1>7. Failed(Check(new)) = {}
    BY <1>6, PassingReport
<1> QED BY <1>7 DEF new

\* RerootingFailsNothing: what passes below KRX/OCD/ passes below every other
\* root, a directory of any name or depth.  The candidates stay where they are
\* (a root is never the directory of the metadata), the marker moves with the
\* rest, and a reference that named an entry names one again, for the observed
\* root is tried first; the declared paths do not move, so none become equal.
THEOREM NoRootFails == Spec => []RerootingFailsNothing
<1>1. TypeOK => RerootingFailsNothing
    BY InventoryIsLegible, NothingFailsElsewhere DEF TypeOK, RerootingFailsNothing
<1> QED BY <1>1, TypeCorrect, PTL

-----------------------------------------------------------------------------
(* What package() writes, the reader accepts and the writer writes again.   *)

\* What a function from 0 adds up to, whatever it starts with.
SumsUp(u, N, base, f) == u = [k \in 0 .. N |-> IF k = 0 THEN base ELSE u[k - 1] + f[k]]

LEMMA SumExists ==
    ASSUME NEW N \in Nat, NEW base \in Nat, NEW f, \A k \in 1 .. N : f[k] \in Nat
    PROVE  /\ \E u : SumsUp(u, N, base, f)
           /\ \A u : SumsUp(u, N, base, f) => \A k \in 0 .. N : u[k] \in Nat
<1>1. PICK h : RunsOver(h, f, N)
    BY TotalExists
<1>2. \A n \in 0 .. N : h[n] \in Nat
    <2>1. 0 \in Nat /\ \A a, b \in Nat : a + b \in Nat
        OBVIOUS
    <2> QED BY <1>1, <2>1, TotalsIn DEF RunsOver
<1>3. \E u : SumsUp(u, N, base, f)
    <2> DEFINE g == [k \in 0 .. N |-> base + h[k]]
               e == [k \in 0 .. N |-> IF k = 0 THEN base ELSE g[k - 1] + f[k]]
    <2>1. \A k \in 0 .. N : g[k] = e[k]
        <3> SUFFICES ASSUME NEW k \in 0 .. N PROVE g[k] = e[k]
            OBVIOUS
        <3>1. CASE k = 0
            BY <1>1, <3>1 DEF RunsOver
        <3>2. CASE k # 0
            <4>1. k \in 1 .. N /\ k - 1 \in 0 .. N
                BY <3>2
            <4>2. h[k] = h[k - 1] + f[k] /\ h[k - 1] \in Nat
                BY <1>1, <1>2, <4>1 DEF RunsOver
            <4>3. g[k] = base + h[k] /\ g[k - 1] = base + h[k - 1]
                BY <4>1
            <4>4. e[k] = g[k - 1] + f[k]
                BY <3>2
            <4>5. f[k] \in Nat
                BY <4>1
            <4> HIDE DEF g, e
            <4> QED BY <4>2, <4>3, <4>4, <4>5
        <3> QED BY <3>1, <3>2
    <2>2. g = [k \in 0 .. N |-> g[k]] /\ e = [k \in 0 .. N |-> e[k]]
        OBVIOUS
    <2>3. g = e
        <3> HIDE DEF g, e
        <3> QED BY <2>1, <2>2, SameFunction
    <2>4. SumsUp(g, N, base, f)
        BY <2>3 DEF SumsUp
    <2> QED BY <2>4
<1>4. ASSUME NEW u, SumsUp(u, N, base, f) PROVE \A k \in 0 .. N : u[k] \in Nat
    <2>1. \A k \in 0 .. N : u[k] = IF k = 0 THEN base ELSE u[k - 1] + f[k]
        BY <1>4 DEF SumsUp
    <2> DEFINE Bad == {k \in 0 .. N : u[k] \notin Nat}
    <2>2. ASSUME Bad # {} PROVE FALSE
        <3>1. PICK k \in Bad : \A j \in Bad : k <= j
            <4>1. Bad \subseteq Nat
                OBVIOUS
            <4> HIDE DEF Bad
            <4> QED BY <2>2, <4>1, LeastNumber
        <3>2. CASE k = 0
            BY <2>1, <3>2
        <3>3. CASE k # 0
            <4>1. k - 1 \in 0 .. N /\ k \in 1 .. N
                BY <3>3
            <4>2. k - 1 \notin Bad
                BY <3>1, <4>1
            <4>3. u[k - 1] \in Nat
                BY <4>1, <4>2
            <4> QED BY <2>1, <3>3, <4>1, <4>3
        <3> QED BY <3>2, <3>3
    <2> QED BY <2>2
<1> QED BY <1>3, <1>4

\* An entry has a length, of its name and of what it decodes to.
Weighed(entries) ==
    IsSequence(entries) /\ \A i \in 1 .. Len(entries) :
        Size(entries[i].content) \in Nat /\ entries[i].packed \in Nat /\ IsSequence(entries[i].name)

LEMMA DecodedIsNumber ==
    ASSUME NEW entries, Weighed(entries)
    PROVE  \A i \in 0 .. Len(entries) : DecodedTo(entries, i) \in Nat
<1> DEFINE N == Len(entries)
           f == [k \in 1 .. N |-> Size(entries[k].content)]
           base == 0
           u == CHOOSE x : x = [k \in 0 .. N |-> IF k = 0 THEN 0 ELSE x[k - 1] + Size(entries[k].content)]
<1>1. N \in Nat
    BY SequenceIs DEF Weighed
<1>2. \A k \in 1 .. N : f[k] = Size(entries[k].content) /\ f[k] \in Nat
    BY DEF Weighed
<1>3. \A x : SumsUp(x, N, base, f) <=>
        x = [k \in 0 .. N |-> IF k = 0 THEN 0 ELSE x[k - 1] + Size(entries[k].content)]
    <2> SUFFICES ASSUME NEW x
                 PROVE  [k \in 0 .. N |-> IF k = 0 THEN base ELSE x[k - 1] + f[k]]
                          = [k \in 0 .. N |-> IF k = 0 THEN 0 ELSE x[k - 1] + Size(entries[k].content)]
        BY DEF SumsUp
    <2>1. \A k \in 0 .. N : (IF k = 0 THEN base ELSE x[k - 1] + f[k])
                = (IF k = 0 THEN 0 ELSE x[k - 1] + Size(entries[k].content))
        <3> SUFFICES ASSUME NEW k \in 0 .. N, k # 0 PROVE f[k] = Size(entries[k].content)
            OBVIOUS
        <3>1. k \in 1 .. N
            BY <1>1
        <3> QED BY <1>2, <3>1
    <2> HIDE DEF f
    <2> QED BY <2>1
<1>4. base \in Nat
    OBVIOUS
<1> HIDE DEF f, N, base
<1>5. /\ \E x : SumsUp(x, N, base, f)
      /\ \A x : SumsUp(x, N, base, f) => \A k \in 0 .. N : x[k] \in Nat
    BY <1>1, <1>2, <1>4, SumExists
<1>6. SumsUp(u, N, base, f)
    BY <1>3, <1>5
<1>7. \A i : DecodedTo(entries, i) = u[i]
    BY DEF DecodedTo, N
<1> HIDE DEF u
<1>8. \A k \in 0 .. N : u[k] \in Nat
    BY <1>5, <1>6
<1> QED BY <1>7, <1>8 DEF N

LEMMA ImageIsNumber ==
    ASSUME NEW entries, Weighed(entries)
    PROVE  ImageBytes(entries) \in Nat
<1> DEFINE N == Len(entries)
           bytes(e) == RecordBytes + 2 * Len(e.name) + e.packed
           f == [k \in 1 .. N |-> bytes(entries[k])]
           u == CHOOSE x : x = [k \in 0 .. N |-> IF k = 0 THEN EndBytes ELSE x[k - 1] + bytes(entries[k])]
<1>1. N \in Nat
    BY SequenceIs DEF Weighed
<1>2. \A k \in 1 .. N : f[k] = bytes(entries[k]) /\ f[k] \in Nat
    <2> SUFFICES ASSUME NEW k \in 1 .. N PROVE bytes(entries[k]) \in Nat
        OBVIOUS
    <2>1. entries[k].packed \in Nat /\ IsSequence(entries[k].name)
        BY DEF Weighed
    <2>2. Len(entries[k].name) \in Nat
        BY <2>1, SequenceIs
    <2>3. RecordBytes \in Nat
        BY CreationAssumption
    <2> QED BY <2>1, <2>2, <2>3
<1>4. EndBytes \in Nat
    BY CreationAssumption
<1> HIDE DEF bytes
<1>3. \A x : SumsUp(x, N, EndBytes, f) <=>
        x = [k \in 0 .. N |-> IF k = 0 THEN EndBytes ELSE x[k - 1] + bytes(entries[k])]
    <2> SUFFICES ASSUME NEW x
                 PROVE  [k \in 0 .. N |-> IF k = 0 THEN EndBytes ELSE x[k - 1] + f[k]]
                          = [k \in 0 .. N |-> IF k = 0 THEN EndBytes ELSE x[k - 1] + bytes(entries[k])]
        BY DEF SumsUp
    <2>1. \A k \in 0 .. N : (IF k = 0 THEN EndBytes ELSE x[k - 1] + f[k])
                = (IF k = 0 THEN EndBytes ELSE x[k - 1] + bytes(entries[k]))
        <3> SUFFICES ASSUME NEW k \in 0 .. N, k # 0 PROVE f[k] = bytes(entries[k])
            OBVIOUS
        <3>1. k \in 1 .. N
            BY <1>1
        <3> QED BY <1>2, <3>1
    <2> HIDE DEF f
    <2> QED BY <2>1
<1>5. /\ \E x : SumsUp(x, N, EndBytes, f)
      /\ \A x : SumsUp(x, N, EndBytes, f) => \A k \in 0 .. N : x[k] \in Nat
    <2> HIDE DEF f, N
    <2> QED BY <1>1, <1>2, <1>4, SumExists
<1>6. SumsUp(u, N, EndBytes, f)
    <2> HIDE DEF f, N
    <2> QED BY <1>3, <1>5
<1>7. ImageBytes(entries) = u[N]
    BY DEF ImageBytes, bytes
<1> HIDE DEF u, f, N
<1>8. u[N] \in Nat
    <2>1. N \in 0 .. N
        BY <1>1
    <2> QED BY <1>5, <1>6, <2>1
<1> QED BY <1>7, <1>8

LEMMA ClearParts ==
    ASSUME NEW a \in Seq(SUBSET CreateCode), NEW b \in Seq(SUBSET CreateCode), Clear(a \o b)
    PROVE  Clear(a) /\ Clear(b) /\ a \o b \in Seq(SUBSET CreateCode)
<1>1. \A i \in 1 .. Len(a \o b) : (a \o b)[i] = {}
    BY DEF Clear
<1>2. (\A i \in 1 .. Len(a) : a[i] = {}) /\ \A i \in 1 .. Len(b) : b[i] = {}
    BY <1>1, ChecksJoined
<1> QED BY <1>2 DEF Clear

\* What package() writes, no check found anything about.
LEMMA JudgedClear ==
    ASSUME NEW spec \in PackageSpec, NEW entries, IsSequence(entries),
           NEW r, r = Judged(spec, entries), r.kind = "written"
    PROVE  /\ r.inventory = entries /\ Clear(DeriveChecks(spec)) /\ Clear(TextChecks(Derived(spec)))
           /\ Clear(LimitChecks(entries)) /\ Clear(RatioChecks(entries))
           /\ ~(ImageBytes(entries) > Ceiling(MaxArchive, Word32))
<1> DEFINE A == DeriveChecks(spec)
           T == TextChecks(Derived(spec))
           L == LimitChecks(entries)
           R == RatioChecks(entries)
           W == When(ImageBytes(entries) > Ceiling(MaxArchive, Word32), "create.over_limit.archive_bytes")
           w == <<W>>
           B == T \o L \o R \o w
           fault == IF FirstOf(A) # {} THEN FirstOf(A) ELSE FirstOf(B)
<1>1. r = IF fault = {} THEN [kind |-> "written", inventory |-> entries]
          ELSE [kind |-> "refused", code |-> The(fault)]
    BY Zenon DEF Judged
<1>2. A \in Seq(SUBSET CreateCode)
    BY DeriveChecksAre
<1>3. T \in Seq(SUBSET CreateCode) /\ L \in Seq(SUBSET CreateCode) /\ R \in Seq(SUBSET CreateCode)
    BY DerivedLists, TextChecksAre, LimitChecksAre, RatioChecksAre
<1>4. W \in SUBSET CreateCode
    <2>1. "create.over_limit.archive_bytes" \in CreateCode
        BY DEF CreateCode
    <2> HIDE DEF CreateCode
    <2> QED BY <2>1, Zenon DEF When
<1>5. w \in Seq(SUBSET CreateCode) /\ Len(w) = 1 /\ w[1] = W
    <2> HIDE DEF W
    <2> QED BY <1>4
<1> HIDE DEF w
<1>6. fault = {}
    <2> HIDE DEF fault
    <2> QED BY <1>1
<1>7. FirstOf(A) = {} /\ FirstOf(B) = {}
    <2> HIDE DEF A, B
    <2> QED BY <1>6
<1>8. r.inventory = entries
    <2> HIDE DEF fault
    <2> QED BY <1>1, <1>6
<1> HIDE DEF A, T, L, R, W, fault
<1>9. B \in Seq(SUBSET CreateCode) /\ T \o L \in Seq(SUBSET CreateCode) /\ T \o L \o R \in Seq(SUBSET CreateCode)
    BY <1>3, <1>5
<1>10. Clear(A)
    BY <1>2, <1>7, FirstOfIs DEF Clear
<1>11. Clear(B)
    <2> HIDE DEF B
    <2> QED BY <1>7, <1>9, FirstOfIs DEF Clear
<1> DEFINE x == T \o L \o R
           y == T \o L
<1>12. Clear(x) /\ Clear(w)
    <2>1. Clear(x \o w) /\ x \in Seq(SUBSET CreateCode)
        BY <1>9, <1>11
    <2> HIDE DEF x
    <2> QED BY <1>5, <2>1, ClearParts
<1>13. Clear(y) /\ Clear(R)
    <2>1. Clear(y \o R) /\ y \in Seq(SUBSET CreateCode)
        BY <1>9, <1>12
    <2> HIDE DEF y
    <2> QED BY <1>3, <2>1, ClearParts
<1>14. Clear(T) /\ Clear(L)
    BY <1>3, <1>13, ClearParts
<1>15. ~(ImageBytes(entries) > Ceiling(MaxArchive, Word32))
    <2>1. W = {}
        BY <1>5, <1>12 DEF Clear
    <2> QED BY <2>1, WhenIs DEF W
<1> QED BY <1>8, <1>10, <1>13, <1>14, <1>15 DEF A, T, L, R

\* The limits, entry by entry.
LEMMA LimitsClear ==
    ASSUME NEW entries, IsSequence(entries), Clear(LimitChecks(entries))
    PROVE  /\ ~(Len(entries) > Ceiling(MaxEntries, Word16))
           /\ \A i \in 1 .. Len(entries) :
                 /\ ~(Len(entries[i].name) > MaxName)
                 /\ ~(Size(entries[i].content) > Ceiling(MaxEntry, Word32))
                 /\ ~(DecodedTo(entries, i) > MaxTotal)
<1> DEFINE A == When(Len(entries) > Ceiling(MaxEntries, Word16), "create.over_limit.entries")
           s == [i \in DOMAIN entries |-> EntryChecks(entries, i)]
           n == Len(entries)
           a == <<A>>
           F == FlattenSeq(s)
<1>1. {"create.over_limit.entries", "create.over_limit.name_bytes",
       "create.over_limit.entry_bytes", "create.over_limit.total_bytes"} \subseteq CreateCode
    BY DEF CreateCode
<1>2. n \in Nat /\ DOMAIN entries = 1 .. n
    BY SequenceIs
<1>3. LimitChecks(entries) = a \o F
    BY Zenon DEF LimitChecks, EntryChecks
<1>4. s = [i \in 1 .. n |-> s[i]]
    BY <1>2
<1>5. IsSequence(s) /\ Len(s) = n
    <2> HIDE DEF s, n
    <2> QED BY <1>2, <1>4, SequenceBy
<1> HIDE DEF F
<1>6. ASSUME NEW i \in 1 .. n
      PROVE  /\ s[i] \in Seq(SUBSET CreateCode)
             /\ (\A j \in 1 .. Len(s[i]) : s[i][j] = {}) =>
                 /\ ~(Len(entries[i].name) > MaxName)
                 /\ ~(Size(entries[i].content) > Ceiling(MaxEntry, Word32))
                 /\ ~(DecodedTo(entries, i) > MaxTotal)
    <2>0. s[i] = EntryChecks(entries, i)
        BY <1>2
    <2> DEFINE X == When(Len(entries[i].name) > MaxName, "create.over_limit.name_bytes")
               Y == When(Size(entries[i].content) > Ceiling(MaxEntry, Word32), "create.over_limit.entry_bytes")
               Z == When(DecodedTo(entries, i) > MaxTotal, "create.over_limit.total_bytes")
               v == s[i]
    <2>1. v = <<X, Y, Z>>
        BY <2>0 DEF EntryChecks
    <2>2. X \in SUBSET CreateCode /\ Y \in SUBSET CreateCode /\ Z \in SUBSET CreateCode
        <3> HIDE DEF CreateCode
        <3> QED BY <1>1, WhenIs
    <2>3. /\ Y = {} => ~(Size(entries[i].content) > Ceiling(MaxEntry, Word32))
          /\ X = {} => ~(Len(entries[i].name) > MaxName)
          /\ Z = {} => ~(DecodedTo(entries, i) > MaxTotal)
        BY WhenIs
    <2> HIDE DEF X, Y, Z, v, CreateCode
    <2>4. v \in Seq(SUBSET CreateCode) /\ Len(v) = 3 /\ v[1] = X /\ v[2] = Y /\ v[3] = Z
        BY <2>1, <2>2
    <2>5. (\A j \in 1 .. Len(v) : v[j] = {}) => X = {} /\ Y = {} /\ Z = {}
        BY <2>4
    <2> QED BY <2>3, <2>4, <2>5 DEF v
<1> HIDE DEF s
<1>7. /\ F \in Seq(SUBSET CreateCode)
      /\ (\A k \in 1 .. Len(F) : F[k] = {}) =>
            \A i \in 1 .. Len(s) : \A j \in 1 .. Len(s[i]) : s[i][j] = {}
    BY <1>5, <1>6, ChecksFlattened DEF F
<1>8. a \in Seq(SUBSET CreateCode) /\ Len(a) = 1 /\ a[1] = A
    <2>1. A \in SUBSET CreateCode
        <3> HIDE DEF CreateCode
        <3> QED BY <1>1, WhenIs
    <2> HIDE DEF A
    <2> QED BY <2>1
<1> HIDE DEF a
<1>9. Clear(a) /\ Clear(F)
    <2>1. Clear(a \o F)
        BY <1>3
    <2> QED BY <1>7, <1>8, <2>1, ClearParts
<1>10. A = {}
    <2> HIDE DEF A
    <2> QED BY <1>8, <1>9 DEF Clear
<1>11. ~(Len(entries) > Ceiling(MaxEntries, Word16))
    BY <1>10, WhenIs
<1>12. \A i \in 1 .. n : \A j \in 1 .. Len(s[i]) : s[i][j] = {}
    BY <1>5, <1>7, <1>9 DEF Clear
<1> QED BY <1>6, <1>11, <1>12

LEMMA RatiosClear ==
    ASSUME NEW entries, IsSequence(entries), Clear(RatioChecks(entries))
    PROVE  \A i \in 1 .. Len(entries) :
              ~(Size(entries[i].content) > Grace /\ Ratio(entries[i]) > MaxRatio)
<1> DEFINE check(i) == When(Size(entries[i].content) > Grace /\ Ratio(entries[i]) > MaxRatio,
                            "create.over_limit.compression_ratio")
           c == [i \in DOMAIN entries |-> check(i)]
           n == Len(entries)
<1>1. n \in Nat /\ DOMAIN entries = 1 .. n
    BY SequenceIs
<1>2. RatioChecks(entries) = c
    BY DEF RatioChecks
<1>3. c = [i \in 1 .. n |-> c[i]] /\ \A i \in 1 .. n : c[i] = check(i)
    <2> HIDE DEF check
    <2> QED BY <1>1
<1> HIDE DEF c, n, check
<1>4. Len(c) = n
    BY <1>1, <1>3, SequenceBy
<1>5. \A i \in 1 .. n : check(i) = {}
    BY <1>2, <1>3, <1>4 DEF Clear
<1> QED BY <1>5, WhenIs DEF check, n

\* What no check found anything about is a request of one dispatch, or of
\* nothing, whose names can be written.
LEMMA DeriveClear ==
    ASSUME NEW spec \in PackageSpec, Clear(DeriveChecks(spec))
    PROVE  /\ spec.metadata.unknown_elements = 0
           /\ \A i \in 1 .. Len(spec.attachments) : NameFault(spec.attachments[i].file_name) = {}
           /\ ~(Len(spec.metadata.dispatches) # 1 /\ (spec.metadata.dispatches # <<>> \/ spec.attachments # <<>>))
<1> DEFINE m == spec.metadata
           A == When(m.unknown_elements # 0, "create.invalid.unknown_elements")
           B == When(Len(m.dispatches) # 1 /\ (m.dispatches # <<>> \/ spec.attachments # <<>>),
                  "create.invalid.dispatch_count")
           D == When(\E d \in Range(m.dispatches) : Mismatch(d, References(spec.attachments)),
                   "create.invalid.reference_mismatch")
           N == [i \in DOMAIN spec.attachments |-> NameFault(spec.attachments[i].file_name)]
           a == <<A>>
           b == <<B, D>>
<1>1. DeriveChecks(spec) = a \o N \o b
    BY DEF DeriveChecks
<1>2. spec.attachments \in Seq(Attachment)
    BY DEF PackageSpec
<1>3. Len(spec.attachments) \in Nat /\ DOMAIN spec.attachments = 1 .. Len(spec.attachments)
    BY <1>2
<1>4. N \in Seq(SUBSET CreateCode) /\ Len(N) = Len(spec.attachments)
    <2>3. \A i \in DOMAIN spec.attachments : NameFault(spec.attachments[i].file_name) \in SUBSET CreateCode
        BY NameFaultIsCode
    <2> QED BY <1>3, <2>3
<1>5. \A i \in 1 .. Len(spec.attachments) : N[i] = NameFault(spec.attachments[i].file_name)
    BY <1>3
<1>6. A \in SUBSET CreateCode /\ B \in SUBSET CreateCode /\ D \in SUBSET CreateCode
    <2>1. {"create.invalid.unknown_elements", "create.invalid.dispatch_count",
           "create.invalid.reference_mismatch"} \subseteq CreateCode
        BY DEF CreateCode
    <2> HIDE DEF CreateCode
    <2> QED BY <2>1, Zenon DEF When
<1>7. /\ a \in Seq(SUBSET CreateCode) /\ Len(a) = 1 /\ a[1] = A
      /\ b \in Seq(SUBSET CreateCode) /\ b[1] = B /\ Len(b) = 2
    <2> HIDE DEF A, B, D
    <2> QED BY <1>6
<1> HIDE DEF a, b, N
<1> DEFINE c == a \o N
<1>8. c \in Seq(SUBSET CreateCode) /\ Clear(c \o b)
    BY <1>1, <1>4, <1>7
<1>9. Clear(c) /\ Clear(b)
    <2> HIDE DEF c
    <2> QED BY <1>7, <1>8, ClearParts
<1>10. Clear(a) /\ Clear(N)
    BY <1>4, <1>7, <1>9, ClearParts
<1>11. A = {} /\ B = {}
    <2> HIDE DEF A, B, D
    <2> QED BY <1>7, <1>9, <1>10 DEF Clear
<1>12. ~(m.unknown_elements # 0)
    BY <1>11, WhenIs
<1>13. ~(Len(m.dispatches) # 1 /\ (m.dispatches # <<>> \/ spec.attachments # <<>>))
    BY <1>11, WhenIs
<1>14. \A i \in 1 .. Len(spec.attachments) : NameFault(spec.attachments[i].file_name) = {}
    BY <1>4, <1>5, <1>10 DEF Clear
<1> QED BY <1>12, <1>13, <1>14

LEMMA TrimUnfaulted ==
    ASSUME NEW t, TextFault(t) = {}
    PROVE  Trim(t) = t
BY DEF TextFault

\* The texts of a value, none of which is a fault.
AllTidy(texts) == \A k \in 1 .. Len(texts) : Tidy(texts[k])

LEMMA TextsClear ==
    ASSUME NEW m, Listing(m), Clear(TextChecks(m))
    PROVE  /\ AllTidy(HeaderTexts(m.header))
           /\ \A i \in 1 .. Len(Attachments(m)) : AllTidy(ReferenceTexts(Attachments(m)[i]))
<1> DEFINE references == Attachments(m)
           s == [i \in DOMAIN references |-> ReferenceTexts(references[i])]
           n == Len(references)
           h == HeaderTexts(m.header)
<1>1. IsSequence(references)
    BY ListedAre
<1>2. n \in Nat /\ DOMAIN references = 1 .. n
    <2> HIDE DEF references
    <2> QED BY <1>1, SequenceIs
<1>3. s = [i \in 1 .. n |-> s[i]] /\ \A i \in 1 .. n : s[i] = ReferenceTexts(references[i])
    BY <1>2
<1>4. IsSequence(s) /\ Len(s) = n
    <2> HIDE DEF s, n
    <2> QED BY <1>2, <1>3, SequenceBy
<1>5. \A i \in 1 .. Len(s) : IsSequence(s[i])
    <2> TAKE i \in 1 .. Len(s)
    <2> DEFINE a == references[i]
               U == {a.description, Present(a.file_name), Present(a.size_text), Present(a.location),
                     a.quantity, a.quantity_unit}
               v == s[i]
    <2>1. v = <<a.description, Present(a.file_name), Present(a.size_text), Present(a.location),
                a.quantity, a.quantity_unit>>
        BY <1>3, <1>4 DEF ReferenceTexts
    <2>2. v \in Seq(U)
        <3> HIDE DEF v
        <3> QED BY <2>1
    <2> QED BY <2>2 DEF IsSequence
<1> DEFINE F == FlattenSeq(s)
<1>6. FromFirst(F, s, Len(s))
    <2> HIDE DEF s
    <2> QED BY <1>4, <1>5, Flattened
<1>7. IsSequence(h)
    <2> DEFINE g == m.header
               U == {Present(g.version), Present(g.consignment_id), Present(g.created_at_text), g.barcode,
                     g.reference_id, g.error_code, g.note}
    <2>1. h \in Seq(U)
        BY DEF HeaderTexts
    <2> QED BY <2>1 DEF IsSequence
<1> DEFINE texts == h \o F
           c == [i \in DOMAIN texts |-> UNION {TextFault(t) : t \in texts[i]}]
<1>8. TextChecks(m) = c
    BY DEF TextChecks, Texts
<1> HIDE DEF h, F, s, references, n
<1>9. IsSequence(F)
    BY <1>6 DEF FromFirst
<1>10. /\ IsSequence(texts) /\ Len(texts) = Len(h) + Len(F)
    BY <1>7, <1>9, Joined
<1>11. \A i \in 1 .. Len(h) : texts[i] = h[i]
    BY <1>7, <1>9, Joined
<1>12. \A i \in 1 .. Len(F) : texts[Len(h) + i] = F[i]
    BY <1>7, <1>9, Joined
<1> HIDE DEF texts
<1>13. Len(texts) \in Nat /\ DOMAIN texts = 1 .. Len(texts) /\ Len(h) \in Nat /\ Len(F) \in Nat
    BY <1>7, <1>9, <1>10, SequenceIs
<1>14. Len(c) = Len(texts)
    <2>1. c = [i \in 1 .. Len(texts) |-> c[i]]
        BY <1>13
    <2> HIDE DEF c
    <2> QED BY <1>13, <2>1, SequenceBy
<1>15. \A k \in 1 .. Len(texts) : Tidy(texts[k])
    <2> SUFFICES ASSUME NEW k \in 1 .. Len(texts), NEW t \in texts[k] PROVE Trim(t) = t
        BY DEF Tidy
    <2>1. UNION {TextFault(x) : x \in texts[k]} = {}
        <3>1. c[k] = UNION {TextFault(x) : x \in texts[k]}
            BY <1>13
        <3> HIDE DEF c
        <3>2. c[k] = {}
            BY <1>8, <1>14 DEF Clear
        <3> QED BY <3>1, <3>2
    <2>2. TextFault(t) = {}
        BY <2>1
    <2> QED BY <2>2, TrimUnfaulted
<1>16. AllTidy(h)
    <2>1. \A k \in 1 .. Len(h) : k \in 1 .. Len(texts)
        BY <1>10, <1>13
    <2> QED BY <1>11, <1>15, <2>1 DEF AllTidy
<1>17. \A k \in 1 .. Len(F) : Tidy(F[k])
    <2>1. \A k \in 1 .. Len(F) : Len(h) + k \in 1 .. Len(texts)
        BY <1>10, <1>13
    <2> QED BY <1>12, <1>15, <2>1
<1>18. ASSUME NEW i \in 1 .. n PROVE AllTidy(ReferenceTexts(references[i]))
    <2>1. \A j \in 1 .. Len(s[i]) : \E k \in 1 .. Len(F) : F[k] = s[i][j]
        BY <1>4, <1>6 DEF FromFirst
    <2>2. \A j \in 1 .. Len(s[i]) : Tidy(s[i][j])
        BY <1>17, <2>1
    <2> QED BY <1>3, <2>2 DEF AllTidy
<1> QED BY <1>16, <1>18 DEF h, n, references

\* What that is of a header, and of a reference.
LEMMA HeaderIsTidy ==
    ASSUME NEW h, AllTidy(HeaderTexts(h))
    PROVE  TidyHeader(h)
<1> DEFINE u == HeaderTexts(h)
<1>1. u = <<Present(h.version), Present(h.consignment_id), Present(h.created_at_text), h.barcode,
            h.reference_id, h.error_code, h.note>>
    BY DEF HeaderTexts
<1> HIDE DEF u
<1>2. /\ Len(u) = 7 /\ u[1] = Present(h.version) /\ u[2] = Present(h.consignment_id)
      /\ u[3] = Present(h.created_at_text) /\ u[4] = h.barcode /\ u[5] = h.reference_id
      /\ u[6] = h.error_code /\ u[7] = h.note
    BY <1>1
<1>3. \A k \in 1 .. 7 : Tidy(u[k])
    BY <1>2 DEF AllTidy, u
<1>4. /\ Tidy(u[1]) /\ Tidy(u[2]) /\ Tidy(u[3]) /\ Tidy(u[4]) /\ Tidy(u[5]) /\ Tidy(u[6]) /\ Tidy(u[7])
    BY <1>3
<1>5. \A x : Tidy(Present(x)) => Trim(x) = x
    BY DEF Tidy, Present
<1> QED BY <1>2, <1>4, <1>5 DEF TidyHeader

TidyTexts(a) ==
    /\ Trim(a.file_name) = a.file_name /\ Trim(a.size_text) = a.size_text
    /\ Trim(a.location) = a.location
    /\ Tidy(a.description) /\ Tidy(a.quantity) /\ Tidy(a.quantity_unit)

LEMMA ReferenceIsTidy ==
    ASSUME NEW a, AllTidy(ReferenceTexts(a))
    PROVE  TidyTexts(a)
<1> DEFINE u == ReferenceTexts(a)
<1>1. u = <<a.description, Present(a.file_name), Present(a.size_text), Present(a.location),
            a.quantity, a.quantity_unit>>
    BY DEF ReferenceTexts
<1> HIDE DEF u
<1>2. /\ Len(u) = 6 /\ u[1] = a.description /\ u[2] = Present(a.file_name)
      /\ u[3] = Present(a.size_text) /\ u[4] = Present(a.location) /\ u[5] = a.quantity
      /\ u[6] = a.quantity_unit
    BY <1>1
<1>3. \A k \in 1 .. 6 : Tidy(u[k])
    BY <1>2 DEF AllTidy, u
<1>4. Tidy(u[1]) /\ Tidy(u[2]) /\ Tidy(u[3]) /\ Tidy(u[4]) /\ Tidy(u[5]) /\ Tidy(u[6])
    BY <1>3
<1>5. \A x : Tidy(Present(x)) => Trim(x) = x
    BY DEF Tidy, Present
<1> QED BY <1>2, <1>4, <1>5 DEF TidyTexts

\* A request that package() writes, of n attachments.
Sent(spec, n) ==
    /\ spec \in PackageSpec /\ n = Len(spec.attachments) /\ n <= Ceiling(MaxEntries, Word16) - 2
    /\ \A i \in 1 .. n : Size(spec.attachments[i].content) <= Ceiling(MaxEntry, Word32)
    /\ Clear(DeriveChecks(spec)) /\ Clear(TextChecks(Derived(spec)))

\* Its references.
Listed1(r, attachments, n) ==
    /\ r \in Seq(AttachmentReference) /\ Len(r) = n
    /\ \A i \in 1 .. n :
          /\ r[i].number = i /\ r[i].file_name = attachments[i].file_name
          /\ r[i].location = PayloadLocation(i)
          /\ r[i].size_value = (r[i].size_text \in Finite)

LEMMA SentIs ==
    ASSUME NEW spec, NEW n, Sent(spec, n)
    PROVE  /\ n \in Nat /\ spec.attachments \in Seq(Attachment) /\ spec.metadata \in Metadata
           /\ Ceiling(MaxEntries, Word16) \in Nat
           /\ \A k \in 0 .. n : k \in 0 .. Ceiling(MaxEntries, Word16) - 2
<1>1. spec.attachments \in Seq(Attachment) /\ spec.metadata \in Metadata
    BY DEF Sent, PackageSpec
<1>2. n \in Nat
    BY <1>1 DEF Sent
<1>3. Ceiling(MaxEntries, Word16) \in Nat
    BY CeilingIs, CreationAssumption
<1> QED BY <1>1, <1>2, <1>3 DEF Sent

LEMMA ReferencesListed ==
    ASSUME NEW spec, NEW n, Sent(spec, n)
    PROVE  Listed1(References(spec.attachments), spec.attachments, n)
<1> DEFINE attachments == spec.attachments
           r == References(attachments)
           size_text(i) == DeclaredKilobytes(Size(attachments[i].content))
           one(i) ==
              [description |-> attachments[i].description, number |-> i,
               file_name |-> attachments[i].file_name,
               size_text |-> size_text(i), size_value |-> size_text(i) \in Finite,
               location |-> PayloadLocation(i), quantity |-> attachments[i].quantity,
               quantity_unit |-> attachments[i].quantity_unit]
<1>1. /\ n \in Nat /\ attachments \in Seq(Attachment) /\ Len(attachments) = n
      /\ n <= Ceiling(MaxEntries, Word16) - 2
      /\ \A i \in 1 .. n : Size(attachments[i].content) <= Ceiling(MaxEntry, Word32)
    BY SentIs DEF Sent
<1>2. r \in Seq(AttachmentReference) /\ Len(r) = n
    <2> HIDE DEF attachments
    <2> QED BY <1>1, ReferencesAre
<1>3. \A i \in 1 .. n : r[i] = one(i)
    <2>1. DOMAIN attachments = 1 .. n
        BY <1>1
    <2> QED BY <2>1 DEF References
<1>4. \A i \in 1 .. n :
          /\ r[i].number = i /\ r[i].file_name = attachments[i].file_name
          /\ r[i].location = PayloadLocation(i)
          /\ r[i].size_value = (r[i].size_text \in Finite)
    <2> SUFFICES ASSUME NEW i \in 1 .. n
                 PROVE  /\ r[i].number = i /\ r[i].file_name = attachments[i].file_name
                        /\ r[i].location = PayloadLocation(i)
                        /\ r[i].size_value = (r[i].size_text \in Finite)
        OBVIOUS
    <2>1. r[i] = one(i)
        BY <1>3
    <2> HIDE DEF r, attachments, size_text
    <2> QED BY <2>1
<1> QED BY <1>2, <1>4 DEF Listed1

\* What package() derives: the request, and its one dispatch with the
\* references in it.
Holding(v, r, n) ==
    \/ v.dispatches = <<>> /\ n = 0
    \/ \E D : /\ Only(v.dispatches, D) /\ D \in Dispatch /\ D.attachments = r
              /\ D.declared_attachment_count = {n} /\ (r # <<>> => D.attachments_present)

LEMMA DerivedHas ==
    ASSUME NEW spec, NEW n, Sent(spec, n), NEW v, v = Derived(spec)
    PROVE  /\ v.header = spec.metadata.header /\ v.receipt_present = spec.metadata.receipt_present
           /\ v.openings_present = spec.metadata.openings_present
           /\ v.return_receipt_present = spec.metadata.return_receipt_present
           /\ v.unknown_elements = 0
           /\ Holding(v, References(spec.attachments), n)
<1> DEFINE m == spec.metadata
           r == References(spec.attachments)
<1>1. /\ n \in Nat /\ spec.attachments \in Seq(Attachment) /\ m \in Metadata
      /\ m.dispatches \in Seq(Dispatch) /\ n = Len(spec.attachments)
    BY SentIs DEF Metadata, Sent
<1>2. /\ m.unknown_elements = 0
      /\ ~(Len(m.dispatches) # 1 /\ (m.dispatches # <<>> \/ spec.attachments # <<>>))
    BY DeriveClear DEF Sent
<1>3. Listed1(r, spec.attachments, n)
    BY ReferencesListed
<1>4. r \in Seq(AttachmentReference) /\ Len(r) = n
    BY <1>3 DEF Listed1
<1>5. CASE m.dispatches = <<>>
    <2>1. v = m
        BY <1>5 DEF Derived
    <2>2. Len(m.dispatches) # 1
        BY <1>5
    <2>3. spec.attachments = <<>>
        BY <1>2, <2>2
    <2>4. n = 0
        BY <1>1, <2>3
    <2> QED BY <1>2, <1>5, <2>1, <2>4 DEF Holding
<1>6. CASE m.dispatches # <<>>
    <2> DEFINE d == m.dispatches[1]
               p == Placed(d, r)
               ds == [m.dispatches EXCEPT ![1] = p]
    <2>1. v = [m EXCEPT !.dispatches = ds]
        BY <1>6 DEF Derived
    <2>2. Len(m.dispatches) = 1 /\ d \in Dispatch
        BY <1>1, <1>2, <1>6
    <2>3. /\ p \in Dispatch /\ p.attachments = r /\ p.declared_attachment_count = {n}
          /\ (r # <<>> => p.attachments_present)
        <3> HIDE DEF r, d
        <3>1. d.attachments_present \in BOOLEAN /\ (r # <<>>) \in BOOLEAN
            BY <2>2 DEF Dispatch
        <3>2. p = [d EXCEPT !.declared_attachment_count = {n}, !.attachments = r,
                            !.attachments_present = d.attachments_present \/ r # <<>>]
            BY <1>4 DEF Placed, Present
        <3> HIDE DEF p
        <3>3. n \in Int /\ (d.attachments_present \/ r # <<>>) \in BOOLEAN
            BY <1>1, <3>1
        <3>4. p \in Dispatch /\ p.attachments = r /\ p.declared_attachment_count = {n}
            BY <1>4, <2>2, <3>2, <3>3 DEF Dispatch
        <3>5. p.attachments_present = (d.attachments_present \/ r # <<>>)
            BY <2>2, <3>2 DEF Dispatch
        <3> QED BY <3>4, <3>5
    <2> HIDE DEF p
    <2>5. ds = <<p>>
        <3>1. ds \in Seq(Dispatch) /\ Len(ds) = 1 /\ ds[1] = p
            BY <1>1, <2>2, <2>3
        <3> HIDE DEF ds
        <3> QED BY <3>1
    <2> HIDE DEF ds
    <2>6. /\ v.dispatches = ds /\ v.header = m.header /\ v.receipt_present = m.receipt_present
          /\ v.openings_present = m.openings_present
          /\ v.return_receipt_present = m.return_receipt_present
          /\ v.unknown_elements = m.unknown_elements
        <3> HIDE DEF m
        <3> QED BY <1>1, <2>1 DEF Metadata
    <2>7. Only(v.dispatches, p)
        BY <2>5, <2>6 DEF Only
    <2>8. Holding(v, r, n)
        BY <2>3, <2>7 DEF Holding
    <2> QED BY <1>2, <2>6, <2>8
<1> QED BY <1>5, <1>6

\* Its attachments.
Carrying(v, r, n) ==
    \/ v.dispatches = <<>> /\ n = 0
    \/ \E D : Only(v.dispatches, D) /\ D.attachments = r /\ D.declared_attachment_count = {n}

LEMMA HeldAttachments ==
    ASSUME NEW v, NEW r, NEW n, Carrying(v, r, n), IsSequence(r), Len(r) = n
    PROVE  Attachments(v) = r
<1>1. CASE v.dispatches = <<>> /\ n = 0
    <2> DEFINE s == [i \in DOMAIN v.dispatches |-> v.dispatches[i].attachments]
    <2>1. Len(s) = 0 /\ Attachments(v) = FlattenSeq(s)
        BY <1>1 DEF Attachments
    <2> HIDE DEF s
    <2>2. FlattenSeq(s) = <<>>
        BY <2>1 DEF FlattenSeq
    <2>3. r = <<>>
        <3>1. PICK S : r \in Seq(S)
            BY DEF IsSequence
        <3> QED BY <1>1, <3>1
    <2> QED BY <2>1, <2>2, <2>3
<1>2. CASE \E D : Only(v.dispatches, D) /\ D.attachments = r
    <2>1. PICK D : Only(v.dispatches, D) /\ D.attachments = r
        BY <1>2
    <2> DEFINE ds == v.dispatches
               s == [i \in DOMAIN ds |-> ds[i].attachments]
    <2>2. DOMAIN ds = 1 .. 1 /\ ds[1] = D
        BY <2>1 DEF Only
    <2>3. Attachments(v) = FlattenSeq(s)
        BY DEF Attachments
    <2> HIDE DEF ds
    <2>4. s = [i \in 1 .. 1 |-> r]
        <3>1. \A i \in 1 .. 1 : ds[i].attachments = r
            BY <2>1, <2>2
        <3> QED BY <2>2, <3>1
    <2> HIDE DEF s
    <2> DEFINE w == s
    <2>5. w = [i \in 1 .. 1 |-> r]
        BY <2>4
    <2>6. FlattenSeq(w) = r
        BY <2>5, FlattenOne
    <2> QED BY <2>3, <2>6
<1> QED BY <1>1, <1>2 DEF Carrying

\* It can be written and read again.
LEMMA SentIsTidy ==
    ASSUME NEW spec, NEW n, Sent(spec, n), NEW v, v = Derived(spec)
    PROVE  /\ TidyMetadata(v) /\ Attachments(v) = References(spec.attachments)
           /\ Serialised(v) \in Seq(Event) /\ v \in Metadata
<1> DEFINE r == References(spec.attachments)
<1>1. /\ v.header = spec.metadata.header /\ v.receipt_present = spec.metadata.receipt_present
      /\ v.openings_present = spec.metadata.openings_present
      /\ v.return_receipt_present = spec.metadata.return_receipt_present
      /\ v.unknown_elements = 0
      /\ Holding(v, r, n)
    BY DerivedHas
<1>2. /\ n \in Nat /\ spec.metadata \in Metadata
      /\ \A k \in 0 .. n : k \in 0 .. Ceiling(MaxEntries, Word16) - 2
    BY SentIs
<1>3. Listed1(r, spec.attachments, n)
    BY ReferencesListed
<1>4. r \in Seq(AttachmentReference) /\ Len(r) = n /\ IsSequence(r)
    <2>1. r \in Seq(AttachmentReference) /\ Len(r) = n
        BY <1>3 DEF Listed1
    <2> QED BY <2>1 DEF IsSequence
<1>5. Attachments(v) = r
    <2> HIDE DEF r
    <2>1. Carrying(v, r, n)
        BY <1>1, Zenon DEF Holding, Carrying
    <2> QED BY <1>4, <2>1, HeldAttachments
<1>6. Listing(v) /\ Clear(TextChecks(v))
    BY DerivedLists DEF Sent
<1>7. /\ AllTidy(HeaderTexts(v.header))
      /\ \A i \in 1 .. Len(Attachments(v)) : AllTidy(ReferenceTexts(Attachments(v)[i]))
    BY <1>6, TextsClear
<1> HIDE DEF r
<1>8. v.header \in Header /\ TidyHeader(v.header)
    BY <1>1, <1>2, <1>7, HeaderIsTidy DEF Metadata
<1>9. \A k \in 0 .. n : /\ Decimal[k] \in Text /\ Decimal[k] \in DOMAIN Numeral
                        /\ Numeral[Decimal[k]] = k /\ Trim(Decimal[k]) = Decimal[k]
    BY <1>2, NumbersAssumption
<1>10. TidyList(r)
    <2> SUFFICES ASSUME NEW i \in 1 .. Len(r) PROVE TidyReference(r[i])
        BY <1>4 DEF TidyList
    <2>1. TidyTexts(r[i])
        BY <1>5, <1>7, ReferenceIsTidy
    <2>2. r[i].number = i /\ r[i].size_value = (r[i].size_text \in Finite)
        BY <1>3, <1>4 DEF Listed1
    <2>3. i \in 0 .. n
        BY <1>2, <1>4
    <2>4. /\ Decimal[i] \in Text /\ Decimal[i] \in DOMAIN Numeral
          /\ Numeral[Decimal[i]] = i /\ Trim(Decimal[i]) = Decimal[i]
        BY <1>9, <2>3
    <2> QED BY <2>1, <2>2, <2>4, Zenon DEF TidyReference, TidyTexts
<1>11. v.dispatches = <<>> \/ \E D : Only(v.dispatches, D) /\ TidyDispatch(D)
    <2>1. CASE v.dispatches = <<>> /\ n = 0
        BY <2>1
    <2>2. CASE ~(v.dispatches = <<>> /\ n = 0)
        <3>1. PICK D : /\ Only(v.dispatches, D) /\ D \in Dispatch /\ D.attachments = r
                       /\ D.declared_attachment_count = {n} /\ (r # <<>> => D.attachments_present)
            BY <1>1, <2>2, Zenon DEF Holding
        <3>2. n \in 0 .. n
            BY <1>2
        <3>3. \E k : /\ D.declared_attachment_count = {k} /\ Decimal[k] \in Text
                     /\ Trim(Decimal[k]) = Decimal[k]
                     /\ Decimal[k] \in DOMAIN Numeral /\ Numeral[Decimal[k]] = k
            BY <1>9, <3>1, <3>2, Zenon
        <3>4. TidyDispatch(D)
            BY <1>10, <3>1, <3>3, Zenon DEF TidyDispatch
        <3> QED BY <3>1, <3>4
    <2> QED BY <2>1, <2>2
<1>12. /\ v.receipt_present \in BOOLEAN /\ v.openings_present \in BOOLEAN
       /\ v.return_receipt_present \in BOOLEAN
    BY <1>1, <1>2 DEF Metadata
<1>13. TidyMetadata(v)
    BY <1>1, <1>8, <1>11, <1>12, Zenon DEF TidyMetadata
<1>14. v \in Metadata /\ Serialised(v) \in Seq(Event)
    <2>1. /\ n = Len(spec.attachments) /\ n <= Ceiling(MaxEntries, Word16) - 2 /\ spec \in PackageSpec
          /\ \A i \in 1 .. n : Size(spec.attachments[i].content) <= Ceiling(MaxEntry, Word32)
        BY DEF Sent
    <2>2. spec.metadata.dispatches # <<>> => Len(spec.metadata.dispatches) = 1
        BY DeriveClear DEF Sent
    <2> QED BY <1>2, <2>1, <2>2, DerivedIs
<1> QED BY <1>5, <1>13, <1>14 DEF r

\* A package as it is laid out.
PayloadEntry(spec, i) == Entry(PayloadName(i, spec.attachments[i].file_name), spec.attachments[i].content)
LaidOut(inv, spec, n) ==
    /\ IsSequence(inv) /\ Len(inv) = n + 2
    /\ inv[1] = Entry(MarkerName, FileContent(MarkerFile))
    /\ inv[2] = Entry(MetadataName, DocumentContent(Serialised(Derived(spec))))
    /\ \A i \in 1 .. n : inv[i + 2] = PayloadEntry(spec, i)

\* One that package() wrote.
Wrote1(inv, spec, n) ==
    /\ Sent(spec, n) /\ LaidOut(inv, spec, n) /\ inv \in Inventory
    /\ Clear(LimitChecks(inv)) /\ Clear(RatioChecks(inv))
    /\ ~(ImageBytes(inv) > Ceiling(MaxArchive, Word32))

LEMMA EntriesLaidOut ==
    ASSUME NEW spec \in PackageSpec, NEW n, n = Len(spec.attachments)
    PROVE  n \in Nat /\ LaidOut(Entries(spec), spec, n)
<1> DEFINE x == Entry(MarkerName, FileContent(MarkerFile))
           y == Entry(MetadataName, DocumentContent(Serialised(Derived(spec))))
           rest == [i \in DOMAIN spec.attachments |-> PayloadEntry(spec, i)]
           first == <<x, y>>
           entries == first \o rest
<1>1. n \in Nat /\ DOMAIN spec.attachments = 1 .. n
    BY DEF PackageSpec
<1>2. Entries(spec) = entries
    BY DEF Entries, PayloadEntry
<1>4. IsSequence(first) /\ Len(first) = 2 /\ first[1] = x /\ first[2] = y
    <2> HIDE DEF x, y
    <2>1. first \in Seq({x, y}) /\ Len(first) = 2 /\ first[1] = x /\ first[2] = y
        OBVIOUS
    <2> QED BY <2>1 DEF IsSequence
<1>5. IsSequence(rest) /\ Len(rest) = n /\ \A i \in 1 .. n : rest[i] = PayloadEntry(spec, i)
    <2>1. rest = [i \in 1 .. n |-> rest[i]] /\ \A i \in 1 .. n : rest[i] = PayloadEntry(spec, i)
        BY <1>1
    <2> HIDE DEF rest
    <2> QED BY <1>1, <2>1, SequenceBy
<1> HIDE DEF first, rest, x, y
<1>3. IsSequence(first) /\ IsSequence(rest)
    BY <1>4, <1>5
<1>6. IsSequence(entries) /\ Len(entries) = Len(first) + Len(rest)
    BY <1>3, Joined
<1>7. \A i \in 1 .. Len(first) : entries[i] = first[i]
    BY <1>3, Joined
<1>8. \A i \in 1 .. Len(rest) : entries[Len(first) + i] = rest[i]
    BY <1>3, Joined
<1> HIDE DEF entries
<1>9. entries[1] = x /\ entries[2] = y /\ \A i \in 1 .. n : entries[2 + i] = PayloadEntry(spec, i)
    BY <1>1, <1>4, <1>5, <1>7, <1>8
<1>10. Len(entries) = n + 2 /\ \A i \in 1 .. n : entries[i + 2] = PayloadEntry(spec, i)
    <2>1. \A i \in 1 .. n : i + 2 = 2 + i
        BY <1>1
    <2> QED BY <1>1, <1>4, <1>5, <1>6, <1>9, <2>1
<1> QED BY <1>1, <1>2, <1>6, <1>9, <1>10, Zenon DEF LaidOut, x, y

LEMMA PackageWrote ==
    ASSUME NEW spec \in PackageSpec, NEW r, r = Package(spec), r.kind = "written"
    PROVE  \E n : Wrote1(r.inventory, spec, n)
<1> DEFINE n == Len(spec.attachments)
           inv == Entries(spec)
<1>1. n \in Nat /\ LaidOut(inv, spec, n)
    BY EntriesLaidOut
<1>2. IsSequence(inv) /\ Len(inv) = n + 2 /\ r = Judged(spec, inv)
    BY <1>1 DEF LaidOut, Package
<1> HIDE DEF inv
<1>3. /\ r.inventory = inv /\ Clear(DeriveChecks(spec)) /\ Clear(TextChecks(Derived(spec)))
      /\ Clear(LimitChecks(inv)) /\ Clear(RatioChecks(inv))
      /\ ~(ImageBytes(inv) > Ceiling(MaxArchive, Word32))
    BY <1>2, JudgedClear
<1>4. inv \in Inventory
    BY <1>3, PackageIs
<1>5. /\ ~(Len(inv) > Ceiling(MaxEntries, Word16))
      /\ \A i \in 1 .. Len(inv) : ~(Size(inv[i].content) > Ceiling(MaxEntry, Word32))
    BY <1>2, <1>3, LimitsClear
<1>6. Ceiling(MaxEntries, Word16) \in Nat /\ Ceiling(MaxEntry, Word32) \in Nat
    BY CeilingIs, CreationAssumption
<1>7. n <= Ceiling(MaxEntries, Word16) - 2
    BY <1>1, <1>2, <1>5, <1>6
<1>8. ASSUME NEW i \in 1 .. n PROVE Size(spec.attachments[i].content) <= Ceiling(MaxEntry, Word32)
    <2>1. spec.attachments[i].content \in EntryContent
        <3>1. spec.attachments \in Seq(Attachment)
            BY DEF PackageSpec
        <3>2. spec.attachments[i] \in Attachment
            BY <1>1, <3>1
        <3> QED BY <3>2 DEF Attachment
    <2>2. Size(spec.attachments[i].content) \in Nat
        BY <2>1, SizeIs
    <2>3. inv[i + 2].content = spec.attachments[i].content
        <3>1. inv[i + 2] = PayloadEntry(spec, i)
            BY <1>1 DEF LaidOut
        <3> QED BY <3>1 DEF PayloadEntry, Entry
    <2>4. i + 2 \in 1 .. Len(inv)
        BY <1>1, <1>2
    <2> QED BY <1>5, <1>6, <2>2, <2>3, <2>4
<1>9. Sent(spec, n)
    BY <1>3, <1>7, <1>8 DEF Sent
<1> QED BY <1>1, <1>3, <1>4, <1>9 DEF Wrote1

\* A text, and another after it.
TextJoin(s, a, b) ==
    /\ s \in Text /\ Len(s) = Len(a) + Len(b) /\ Len(a) \in Nat /\ Len(b) \in Nat
    /\ \A k \in 1 .. Len(a) : s[k] = a[k]
    /\ \A k \in 1 .. Len(b) : s[Len(a) + k] = b[k]

LEMMA TextsJoin ==
    ASSUME NEW a \in Text, NEW b \in Text, NEW s, s = a \o b
    PROVE  TextJoin(s, a, b)
<1>1. IsSequence(a) /\ IsSequence(b) /\ Len(a) \in Nat /\ Len(b) \in Nat
    BY DEF Text, IsSequence
<1>2. s \in Text
    BY TextsJoined
<1>3. Len(s) = Len(a) + Len(b)
    BY <1>1, Joined
<1>4. \A k \in 1 .. Len(a) : s[k] = a[k]
    BY <1>1, Joined
<1>5. \A k \in 1 .. Len(b) : s[Len(a) + k] = b[k]
    BY <1>1, Joined
<1> QED BY <1>1, <1>2, <1>3, <1>4, <1>5 DEF TextJoin

\* The names of the layout.
PayloadShape(s, c, f) ==
    /\ s \in Text /\ Len(c) \in Nat /\ Len(f) \in Nat /\ Len(s) = 8 + Len(c) + Len(f)
    /\ s[5] = "Payload" /\ s[6] = "/" /\ s[7] = "ID-"
    /\ \A k \in 1 .. Len(c) : s[7 + k] = c[k]
    /\ s[8 + Len(c)] = "/"
    /\ \A k \in 1 .. Len(f) : s[8 + Len(c) + k] = f[k]

LEMMA PayloadNameHas ==
    ASSUME NEW i, Decimal[i] \in Text, NEW f \in Text, NEW c, c = Decimal[i], NEW s, s = PayloadName(i, f)
    PROVE  PayloadShape(s, c, f)
<1> DEFINE r == CanonicalRoot
           p == <<"Payload", "/", "ID-">>
           z == <<"/">>
<1>1. /\ r \in Text /\ p \in Text /\ z \in Text /\ c \in Text
      /\ Len(r) = 4 /\ Len(p) = 3 /\ Len(z) = 1 /\ p[1] = "Payload" /\ p[2] = "/" /\ p[3] = "ID-" /\ z[1] = "/"
    <2>1. Len(r) = 4
        BY RootsAre
    <2>2. Len(p) = 3 /\ Len(z) = 1 /\ p[1] = "Payload" /\ p[2] = "/" /\ p[3] = "ID-" /\ z[1] = "/"
        OBVIOUS
    <2> QED BY <2>1, <2>2, LayoutWords
<1>2. s = ((r \o p) \o c) \o z \o f
    BY DEF PayloadName, PayloadLocation
<1> HIDE DEF r, p, z
<1>l. Len(c) \in Nat /\ Len(f) \in Nat
    BY <1>1 DEF Text
<1> DEFINE u == r \o p
<1>3. u \in Text /\ Len(u) = 7 /\ u[5] = "Payload" /\ u[6] = "/" /\ u[7] = "ID-"
    <2>1. TextJoin(u, r, p)
        BY <1>1, TextsJoin
    <2> HIDE DEF u
    <2>2. u \in Text /\ Len(u) = 7
        BY <1>1, <2>1 DEF TextJoin
    <2>3. /\ 1 \in 1 .. Len(p) /\ 2 \in 1 .. Len(p) /\ 3 \in 1 .. Len(p)
          /\ Len(r) + 1 = 5 /\ Len(r) + 2 = 6 /\ Len(r) + 3 = 7
        BY <1>1
    <2>4. u[Len(r) + 1] = p[1] /\ u[Len(r) + 2] = p[2] /\ u[Len(r) + 3] = p[3]
        BY <2>1, <2>3 DEF TextJoin
    <2> QED BY <1>1, <2>2, <2>3, <2>4
<1> HIDE DEF u
<1> DEFINE v == u \o c
<1>4. v \in Text /\ Len(v) = 7 + Len(c) /\ v[5] = "Payload" /\ v[6] = "/" /\ v[7] = "ID-" /\ \A k \in 1 .. Len(c) : v[7 + k] = c[k]
    <2>1. TextJoin(v, u, c)
        BY <1>1, <1>3, TextsJoin
    <2> HIDE DEF v
    <2> QED BY <1>3, <2>1 DEF TextJoin
<1> HIDE DEF v
<1> DEFINE w == v \o z
<1>5. /\ w \in Text /\ Len(w) = 8 + Len(c) /\ w[5] = "Payload" /\ w[6] = "/" /\ w[7] = "ID-" /\ w[8 + Len(c)] = "/"
      /\ \A k \in 1 .. Len(c) : w[7 + k] = c[k]
    <2>1. TextJoin(w, v, z)
        BY <1>1, <1>4, TextsJoin
    <2> HIDE DEF w
    <2>2. w \in Text /\ Len(w) = 8 + Len(c)
        BY <1>1, <1>4, <2>1 DEF TextJoin
    <2>3. 1 \in 1 .. Len(z) /\ Len(v) + 1 = 8 + Len(c)
        BY <1>1, <1>4, <1>l
    <2>4. w[Len(v) + 1] = z[1]
        BY <2>1, <2>3 DEF TextJoin
    <2>5. w[8 + Len(c)] = "/"
        BY <1>1, <2>3, <2>4
    <2>6. 5 \in 1 .. Len(v) /\ 6 \in 1 .. Len(v) /\ 7 \in 1 .. Len(v) /\ \A k \in 1 .. Len(c) : 7 + k \in 1 .. Len(v)
        BY <1>4, <1>l
    <2>7. \A k \in 1 .. Len(v) : w[k] = v[k]
        BY <2>1 DEF TextJoin
    <2> QED BY <1>4, <2>2, <2>5, <2>6, <2>7
<1> HIDE DEF w
<1>6. s = w \o f
    BY <1>2 DEF u, v, w
<1>7. TextJoin(s, w, f)
    BY <1>5, <1>6, TextsJoin
<1>8. s \in Text /\ Len(s) = 8 + Len(c) + Len(f) /\ \A k \in 1 .. Len(w) : s[k] = w[k]
    BY <1>5, <1>7, <1>l DEF TextJoin
<1>10. \A k \in 1 .. Len(f) : s[8 + Len(c) + k] = f[k]
    <2>1. \A k \in 1 .. Len(f) : s[Len(w) + k] = f[k]
        BY <1>7 DEF TextJoin
    <2> QED BY <1>5, <2>1
<1>9. 6 \in 1 .. Len(w) /\ 7 \in 1 .. Len(w) /\ 5 \in 1 .. Len(w) /\ 8 + Len(c) \in 1 .. Len(w) /\ \A k \in 1 .. Len(c) : 7 + k \in 1 .. Len(w)
    BY <1>5, <1>l
<1> QED BY <1>5, <1>8, <1>9, <1>10, <1>l DEF PayloadShape

\* No two of them are the same.
LEMMA PayloadNamesDiffer ==
    ASSUME NEW n \in Nat, n <= Ceiling(MaxEntries, Word16) - 2, NEW i \in 1 .. n, NEW j \in 1 .. n,
           NEW f \in Text, NEW g \in Text, PayloadName(i, f) = PayloadName(j, g)
    PROVE  i = j
<1> DEFINE a == Decimal[i]
           b == Decimal[j]
           s == PayloadName(i, f)
<1>1. Ceiling(MaxEntries, Word16) \in Nat
    BY CeilingIs, CreationAssumption
<1>2. i \in 0 .. Ceiling(MaxEntries, Word16) - 2 /\ j \in 0 .. Ceiling(MaxEntries, Word16) - 2
    BY <1>1
<1>3. /\ a \in Text /\ Numeral[a] = i /\ "/" \notin Range(a)
      /\ b \in Text /\ Numeral[b] = j /\ "/" \notin Range(b)
    BY <1>2, NumbersAssumption
<1>4. /\ Len(a) \in Nat /\ s[8 + Len(a)] = "/"
      /\ \A k \in 1 .. Len(a) : s[7 + k] = a[k]
    <2>1. PayloadShape(s, a, f)
        BY <1>3, PayloadNameHas
    <2> QED BY <2>1 DEF PayloadShape
<1>5. s = PayloadName(j, g)
    OBVIOUS
<1> HIDE DEF s
<1>6. /\ Len(b) \in Nat /\ s[8 + Len(b)] = "/"
      /\ \A k \in 1 .. Len(b) : s[7 + k] = b[k]
    <2>1. PayloadShape(s, b, g)
        BY <1>3, <1>5, PayloadNameHas
    <2> QED BY <2>1 DEF PayloadShape
<1> HIDE DEF a, b
<1>7. (\A k \in 1 .. Len(a) : a[k] # "/") /\ (\A k \in 1 .. Len(b) : b[k] # "/")
    BY <1>3 DEF Range, Text
<1>8. ASSUME Len(a) < Len(b) PROVE FALSE
    <2>1. Len(a) + 1 \in 1 .. Len(b) /\ 7 + (Len(a) + 1) = 8 + Len(a)
        BY <1>4, <1>6, <1>8
    <2>2. s[7 + (Len(a) + 1)] = b[Len(a) + 1]
        BY <1>6, <2>1
    <2> QED BY <1>4, <1>7, <2>1, <2>2
<1>9. ASSUME Len(b) < Len(a) PROVE FALSE
    <2>1. Len(b) + 1 \in 1 .. Len(a) /\ 7 + (Len(b) + 1) = 8 + Len(b)
        BY <1>4, <1>6, <1>9
    <2>2. s[7 + (Len(b) + 1)] = a[Len(b) + 1]
        BY <1>4, <2>1
    <2> QED BY <1>6, <1>7, <2>1, <2>2
<1>10. Len(a) = Len(b)
    BY <1>4, <1>6, <1>8, <1>9
<1>11. \A k \in 1 .. Len(a) : a[k] = b[k]
    BY <1>4, <1>6, <1>10
<1>12. a = b
    <2>1. IsSequence(a) /\ IsSequence(b)
        BY <1>3 DEF Text, IsSequence
    <2> QED BY <1>10, <1>11, <2>1, SameSequence
<1> QED BY <1>3, <1>12

\* The two names that are always there.
LEMMA MarkerNameHas ==
    Len(MarkerName) = 5 /\ MarkerName[5] = "mimetype"
<1>0. IsRoot(CanonicalRoot) /\ Len(CanonicalRoot) = 4
    BY RootsAre
<1>1. IsSequence(CanonicalRoot) /\ Len(CanonicalRoot) = 4
    BY <1>0, Zenon DEF IsRoot, EndsIt
<1>2. Mimetype \in Seq({"mimetype"}) /\ Len(Mimetype) = 1 /\ Mimetype[1] = "mimetype"
    BY DEF Mimetype
<1>3. IsSequence(Mimetype)
    BY <1>2 DEF IsSequence
<1>4. Len(MarkerName) = Len(CanonicalRoot) + Len(Mimetype)
    BY <1>1, <1>3, Joined, Zenon DEF MarkerName
<1>5. \A k \in 1 .. Len(Mimetype) : MarkerName[Len(CanonicalRoot) + k] = Mimetype[k]
    <2>1. \A k \in 1 .. Len(Mimetype) : (CanonicalRoot \o Mimetype)[Len(CanonicalRoot) + k] = Mimetype[k]
        <3>1. IsSequence(CanonicalRoot) /\ IsSequence(Mimetype)
            BY <1>1, <1>3
        <3> QED BY <3>1, Joined
    <2> QED BY <2>1, Zenon DEF MarkerName
<1>6. 1 \in 1 .. Len(Mimetype) /\ Len(CanonicalRoot) + 1 = 5
    BY <1>1, <1>2
<1>7. MarkerName[Len(CanonicalRoot) + 1] = Mimetype[1]
    BY <1>5, <1>6
<1> QED BY <1>1, <1>2, <1>4, <1>6, <1>7

LEMMA MetadataNameHas ==
    /\ Len(MetadataName) = 7 /\ IsSequence(MetadataName)
    /\ MetadataName[5] = "Metalayer" /\ MetadataName[6] = "/" /\ MetadataName[7] = "KULDEMENY_META.xml"
    /\ MetadataName = CanonicalRoot \o <<"Metalayer", "/", "KULDEMENY_META.xml">>
<1> DEFINE r == CanonicalRoot
           w == <<"Metalayer", "/", "KULDEMENY_META.xml">>
<1>0. IsRoot(r) /\ Len(r) = 4
    BY RootsAre
<1>1. IsSequence(r) /\ Len(r) = 4
    BY <1>0, Zenon DEF IsRoot, EndsIt
<1>2. w \in Seq({"Metalayer", "/", "KULDEMENY_META.xml"}) /\ Len(w) = 3
      /\ w[1] = "Metalayer" /\ w[2] = "/" /\ w[3] = "KULDEMENY_META.xml"
    OBVIOUS
<1>3. IsSequence(w)
    BY <1>2 DEF IsSequence
<1>4. MetadataName = r \o w
    BY DEF MetadataName, Metalayer, MetadataFile, CanonicalRoot
<1> HIDE DEF r, w
<1>5. Len(MetadataName) = Len(r) + Len(w) /\ IsSequence(MetadataName)
    BY <1>1, <1>3, <1>4, Joined, Zenon
<1>6. \A k \in 1 .. Len(w) : MetadataName[Len(r) + k] = w[k]
    <2>1. \A k \in 1 .. Len(w) : (r \o w)[Len(r) + k] = w[k]
        <3>1. IsSequence(r) /\ IsSequence(w)
            BY <1>1, <1>3
        <3> QED BY <3>1, Joined
    <2> QED BY <1>4, <2>1, Zenon
<1>7. MetadataName[5] = w[1] /\ MetadataName[6] = w[2] /\ MetadataName[7] = w[3]
    BY <1>1, <1>2, <1>6
<1>8. MetadataName = CanonicalRoot \o <<"Metalayer", "/", "KULDEMENY_META.xml">>
    BY <1>4 DEF r, w
<1> QED BY <1>1, <1>2, <1>5, <1>7, <1>8

\* The entries of a package that was written, one by one.
Lay(inv, spec, n) ==
    /\ n \in Nat /\ n <= Ceiling(MaxEntries, Word16) - 2 /\ IsSequence(inv) /\ Len(inv) = n + 2
    /\ inv[1].name = MarkerName /\ inv[2].name = MetadataName
    /\ \A i \in 1 .. n :
          /\ inv[i + 2].name = PayloadName(i, spec.attachments[i].file_name)
          /\ spec.attachments[i].file_name \in Text /\ NameFault(spec.attachments[i].file_name) = {}
          /\ Decimal[i] \in Text
    /\ \A i \in 1 .. Len(inv) : inv[i].name \in Text /\ inv[i].content \in EntryContent

LEMMA LayIs ==
    ASSUME NEW inv, NEW spec, NEW n, Wrote1(inv, spec, n)
    PROVE  Lay(inv, spec, n)
<1>1. Sent(spec, n) /\ LaidOut(inv, spec, n) /\ inv \in Inventory
    BY DEF Wrote1
<1>2. /\ n \in Nat /\ spec.attachments \in Seq(Attachment) /\ Ceiling(MaxEntries, Word16) \in Nat
      /\ \A k \in 0 .. n : k \in 0 .. Ceiling(MaxEntries, Word16) - 2
    BY <1>1, SentIs
<1>3. n <= Ceiling(MaxEntries, Word16) - 2 /\ n = Len(spec.attachments) /\ spec \in PackageSpec
      /\ Clear(DeriveChecks(spec))
    BY <1>1 DEF Sent
<1>4. IsSequence(inv) /\ Len(inv) = n + 2
    BY <1>1 DEF LaidOut
<1>5. inv[1].name = MarkerName /\ inv[2].name = MetadataName
    <2>1. inv[1] = Entry(MarkerName, FileContent(MarkerFile))
          /\ inv[2] = Entry(MetadataName, DocumentContent(Serialised(Derived(spec))))
        BY <1>1 DEF LaidOut
    <2> QED BY <2>1 DEF Entry
<1>6. ASSUME NEW i \in 1 .. n
      PROVE  /\ inv[i + 2].name = PayloadName(i, spec.attachments[i].file_name)
             /\ spec.attachments[i].file_name \in Text /\ NameFault(spec.attachments[i].file_name) = {}
             /\ Decimal[i] \in Text
    <2>1. inv[i + 2] = PayloadEntry(spec, i)
        BY <1>1 DEF LaidOut
    <2>2. inv[i + 2].name = PayloadName(i, spec.attachments[i].file_name)
        BY <2>1 DEF PayloadEntry, Entry
    <2>3. spec.attachments[i] \in Attachment
        BY <1>2, <1>3
    <2>4. spec.attachments[i].file_name \in Text
        BY <2>3 DEF Attachment
    <2>5. NameFault(spec.attachments[i].file_name) = {}
        BY <1>3, DeriveClear
    <2>6. i \in 0 .. Ceiling(MaxEntries, Word16) - 2
        BY <1>2
    <2>7. Decimal[i] \in Text
        BY <2>6, NumbersAssumption
    <2> QED BY <2>2, <2>4, <2>5, <2>7
<1>7. \A i \in 1 .. Len(inv) : inv[i].name \in Text /\ inv[i].content \in EntryContent
    BY <1>1, InventoryIs
<1> QED BY <1>2, <1>3, <1>4, <1>5, <1>6, <1>7 DEF Lay

\* No name is there twice.
LEMMA NamesDiffer ==
    ASSUME NEW inv, NEW spec, NEW n, Lay(inv, spec, n), NEW i \in 1 .. n + 2, NEW j \in 1 .. n + 2,
           inv[i].name = inv[j].name
    PROVE  i = j
<1>1. n \in Nat /\ n <= Ceiling(MaxEntries, Word16) - 2
    BY DEF Lay
<1>2. \A k \in 1 .. n + 2 :
          \/ (k = 1 /\ inv[k].name[5] = "mimetype")
          \/ (k = 2 /\ inv[k].name[5] = "Metalayer")
          \/ (k > 2 /\ inv[k].name[5] = "Payload")
    <2>1. TAKE k \in 1 .. n + 2
    <2>2. CASE k = 1
        <3>1. inv[1].name = MarkerName
            BY DEF Lay
        <3> QED BY <2>2, <3>1, MarkerNameHas
    <2>3. CASE k = 2
        <3>1. inv[2].name = MetadataName
            BY DEF Lay
        <3>2. MetadataName[5] = "Metalayer"
            BY MetadataNameHas
        <3> QED BY <2>3, <3>1, <3>2
    <2>4. CASE k > 2
        <3> DEFINE h == k - 2
                   f == spec.attachments[h].file_name
                   s == inv[k].name
                   c == Decimal[h]
        <3>1. h \in 1 .. n /\ k = h + 2
            BY <1>1, <2>4
        <3>2. s = PayloadName(h, f) /\ f \in Text /\ c \in Text
            BY <3>1 DEF Lay
        <3> HIDE DEF f, s
        <3>3. PayloadShape(s, c, f)
            BY <3>2, PayloadNameHas
        <3>4. s[5] = "Payload"
            BY <3>3 DEF PayloadShape
        <3> QED BY <2>4, <3>4 DEF s
    <2> QED BY <1>1, <2>2, <2>3, <2>4
<1>3. CASE i > 2 /\ j > 2
    <2> DEFINE h == i - 2
               l == j - 2
               f == spec.attachments[h].file_name
               g == spec.attachments[l].file_name
    <2>1. h \in 1 .. n /\ i = h + 2 /\ l \in 1 .. n /\ j = l + 2
        BY <1>1, <1>3
    <2>2. inv[i].name = PayloadName(h, f) /\ f \in Text /\ inv[j].name = PayloadName(l, g) /\ g \in Text
        BY <2>1 DEF Lay
    <2> HIDE DEF h, l, f, g
    <2>3. PayloadName(h, f) = PayloadName(l, g)
        BY <2>2
    <2>4. h = l
        BY <1>1, <2>1, <2>2, <2>3, PayloadNamesDiffer
    <2> QED BY <2>1, <2>4
<1>4. (i = 1 /\ j = 1) \/ (i = 2 /\ j = 2) \/ (i > 2 /\ j > 2)
    <2>1. \/ i = 1 /\ inv[i].name[5] = "mimetype"
          \/ i = 2 /\ inv[i].name[5] = "Metalayer"
          \/ i > 2 /\ inv[i].name[5] = "Payload"
        BY <1>2
    <2>2. \/ j = 1 /\ inv[j].name[5] = "mimetype"
          \/ j = 2 /\ inv[j].name[5] = "Metalayer"
          \/ j > 2 /\ inv[j].name[5] = "Payload"
        BY <1>2
    <2> QED BY <2>1, <2>2
<1> QED BY <1>3, <1>4

LEMMA RatioIs ==
    ASSUME NEW e, Size(e.content) \in Nat, e.packed \in Nat
    PROVE  Ratio(e) \in Int
<1> DEFINE p == e.packed
           z == Size(e.content)
           m == Max({p, 1})
<1>1. {p, 1} \subseteq 0 .. p + 1 /\ {p, 1} # {} /\ p + 1 \in Nat
    OBVIOUS
<1>2. m \in {p, 1} /\ \A x \in {p, 1} : x <= m
    BY <1>1, MaxIs
<1> HIDE DEF m
<1>3. m \in Nat /\ m > 0
    BY <1>2
<1>4. Ratio(e) = z \div m
    BY DEF Ratio, m
<1> HIDE DEF z
<1>5. z \in Nat
    BY DEF z
<1> QED BY <1>3, <1>4, <1>5

\* What package() writes is an archive the reader accepts.
LEMMA WrittenIsReadable ==
    ASSUME NEW inv, NEW spec, NEW n, Wrote1(inv, spec, n)
    PROVE  Readable(inv)
<1>1. /\ inv \in Inventory /\ Clear(LimitChecks(inv)) /\ Clear(RatioChecks(inv))
      /\ ~(ImageBytes(inv) > Ceiling(MaxArchive, Word32))
    BY DEF Wrote1
<1>2. Lay(inv, spec, n)
    BY LayIs
<1>3. n \in Nat /\ IsSequence(inv) /\ Len(inv) = n + 2
    BY <1>2 DEF Lay
<1>4. /\ Ceiling(MaxEntries, Word16) \in Nat /\ Ceiling(MaxEntries, Word16) <= MaxEntries
      /\ Ceiling(MaxEntries, Word16) <= Word16 /\ MaxEntries \in Nat /\ Word16 \in Nat
      /\ MaxArchive \in Nat /\ Word32 \in Nat /\ MaxEntry \in Nat
      /\ MaxName \in Nat /\ MaxTotal \in Nat /\ MaxRatio \in Nat /\ Grace \in Nat
    BY CeilingIs, CreationAssumption
<1>5. /\ Ceiling(MaxArchive, Word32) \in Nat /\ Ceiling(MaxArchive, Word32) <= MaxArchive
      /\ Ceiling(MaxArchive, Word32) <= Word32
    BY <1>4, CeilingIs
<1>6. Ceiling(MaxEntry, Word32) \in Nat /\ Ceiling(MaxEntry, Word32) <= MaxEntry
    BY <1>4, CeilingIs
<1>7. Weighed(inv)
    <2>1. ASSUME NEW i \in 1 .. Len(inv)
          PROVE  Size(inv[i].content) \in Nat /\ inv[i].packed \in Nat /\ IsSequence(inv[i].name)
        <3>1. inv \in Seq(EntryOf) /\ inv[i].content \in EntryContent /\ inv[i].name \in Text
            BY <1>1, InventoryIs
        <3>2. inv[i] \in EntryOf
            BY <3>1
        <3>3. inv[i].packed \in Nat
            BY <3>2 DEF EntryOf
        <3>4. Size(inv[i].content) \in Nat
            BY <3>1, SizeIs
        <3>5. IsSequence(inv[i].name)
            BY <3>1 DEF Text, IsSequence
        <3> QED BY <3>3, <3>4, <3>5
    <2> QED BY <1>3, <2>1 DEF Weighed
<1>8. /\ ~(Len(inv) > Ceiling(MaxEntries, Word16))
      /\ \A i \in 1 .. Len(inv) :
            /\ ~(Len(inv[i].name) > MaxName)
            /\ ~(Size(inv[i].content) > Ceiling(MaxEntry, Word32))
            /\ ~(DecodedTo(inv, i) > MaxTotal)
    BY <1>1, <1>3, LimitsClear
<1>9. Len(inv) <= MaxEntries /\ Len(inv) <= Word16
    BY <1>3, <1>4, <1>8
<1>10. ImageBytes(inv) <= MaxArchive /\ ImageBytes(inv) <= Word32
    <2>1. ImageBytes(inv) \in Nat
        BY <1>7, ImageIsNumber
    <2> QED BY <1>1, <1>4, <1>5, <2>1
<1>11. DecodedTo(inv, Len(inv)) <= MaxTotal
    <2>1. Len(inv) \in 0 .. Len(inv) /\ Len(inv) \in 1 .. Len(inv)
        BY <1>3
    <2>2. DecodedTo(inv, Len(inv)) \in Nat
        BY <1>7, <2>1, DecodedIsNumber
    <2>3. ~(DecodedTo(inv, Len(inv)) > MaxTotal)
        BY <1>8, <2>1
    <2> QED BY <1>4, <2>2, <2>3
<1>12. ASSUME NEW i \in 1 .. Len(inv)
       PROVE  /\ Len(inv[i].name) <= MaxName /\ Size(inv[i].content) <= MaxEntry
              /\ Size(inv[i].content) <= Grace \/ Ratio(inv[i]) <= MaxRatio
    <2>1. Size(inv[i].content) \in Nat /\ inv[i].packed \in Nat /\ Len(inv[i].name) \in Nat
        BY <1>7, SequenceIs DEF Weighed
    <2>2. Ratio(inv[i]) \in Int
        BY <2>1, RatioIs
    <2>3. ~(Len(inv[i].name) > MaxName) /\ ~(Size(inv[i].content) > Ceiling(MaxEntry, Word32))
        BY <1>8
    <2>4. ~(Size(inv[i].content) > Grace /\ Ratio(inv[i]) > MaxRatio)
        BY <1>1, <1>3, RatiosClear
    <2> QED BY <1>4, <1>6, <2>1, <2>2, <2>3, <2>4, SMTT(20)
<1>13. DOMAIN inv = 1 .. Len(inv)
    BY <1>3, SequenceIs
<1>14. \A e \in Range(inv) :
          /\ Len(e.name) <= MaxName /\ Size(e.content) <= MaxEntry
          /\ Size(e.content) <= Grace \/ Ratio(e) <= MaxRatio
    BY <1>12, <1>13 DEF Range
<1>15. \A i, j \in DOMAIN inv : inv[i].name = inv[j].name => i = j
    <2>1. TAKE i, j \in DOMAIN inv
    <2>2. HAVE inv[i].name = inv[j].name
    <2>3. i \in 1 .. n + 2 /\ j \in 1 .. n + 2
        BY <1>3, <1>13
    <2> QED BY <1>2, <2>2, <2>3, NamesDiffer
<1> QED BY <1>9, <1>10, <1>11, <1>14, <1>15 DEF Readable

LEMMA SingleIs ==
    ASSUME NEW x, IsSequence(x), Len(x) = 1, NEW p, x[1] = p, NEW y, y = <<p>>
    PROVE  x = y
<1>1. y \in Seq({p}) /\ Len(y) = 1 /\ y[1] = p
    OBVIOUS
<1>2. IsSequence(y)
    BY <1>1 DEF IsSequence
<1> QED BY <1>1, <1>2, SameSequence

\* The document is the one candidate, below the canonical root.
LEMMA MetadataNamePlace ==
    /\ Candidate(MetadataName) /\ Prefix(MetadataName) = CanonicalRoot
<1> DEFINE s == MetadataName
           d == SubSeq(s, 1, 5)
           f == SubSeq(s, 7, 7)
           g == SubSeq(d, 5, 5)
           h == SubSeq(s, 1, 4)
           r == CanonicalRoot
           w == <<"Metalayer", "/", "KULDEMENY_META.xml">>
<1>1. IsSequence(s) /\ Len(s) = 7 /\ s[5] = "Metalayer" /\ s[6] = "/" /\ s[7] = "KULDEMENY_META.xml"
    BY MetadataNameHas
<1>0. IsRoot(r) /\ Len(r) = 4
    BY RootsAre
<1>2. IsSequence(r) /\ Len(r) = 4 /\ r[4] = "/"
    <2>1. IsSequence(r) /\ r[Len(r)] = "/"
        BY <1>0, Zenon DEF IsRoot, EndsIt
    <2> QED BY <1>0, <2>1
<1>3. \A k \in 1 .. 4 : s[k] = r[k]
    <2>1. s = r \o w
        BY MetadataNameHas
    <2>2. IsSequence(w)
        <3>1. w \in Seq({"Metalayer", "/", "KULDEMENY_META.xml"})
            OBVIOUS
        <3> QED BY <3>1 DEF IsSequence
    <2> HIDE DEF r, w
    <2>3. IsSequence(r) /\ IsSequence(w)
        BY <1>2, <2>2
    <2>4. \A k \in 1 .. Len(r) : (r \o w)[k] = r[k]
        BY <2>3, Joined
    <2> HIDE DEF s
    <2> QED BY <1>2, <2>1, <2>4
<1> HIDE DEF s, r
<1>4. LastSlash(s) = 6
    <2>1. 6 \in 0 .. Len(s) /\ \A i \in 1 .. Len(s) : s[i] = "/" => i <= 6
        BY <1>1
    <2> QED BY <1>1, <2>1, SlashBy
<1>5. IsSequence(d) /\ Len(d) = 5 /\ \A i \in 1 .. 5 : d[i] = s[i]
    <2>1. 5 \in 0 .. Len(s)
        BY <1>1
    <2> DEFINE n == 5
    <2>2. n \in 0 .. Len(s) /\ d = SubSeq(s, 1, n)
        BY <2>1
    <2> HIDE DEF d, n
    <2>3. IsSequence(d) /\ Len(d) = n /\ \A i \in 1 .. n : d[i] = s[i]
        BY <1>1, <2>2, CutBy, ZenonT(30)
    <2> QED BY <2>3 DEF n
<1>6. IsSequence(f) /\ Len(f) = 1 /\ f[1] = "KULDEMENY_META.xml"
    <2> DEFINE k == 6
    <2>1. k \in 0 .. Len(s) /\ f = SubSeq(s, k + 1, Len(s))
        BY <1>1
    <2>3. IsSequence(s)
        BY <1>1
    <2> HIDE DEF k, f
    <2>2. IsSequence(f) /\ Len(f) = Len(s) - k /\ \A i \in 1 .. Len(s) - k : f[i] = s[k + i]
        BY <2>1, <2>3, CutEnd
    <2> QED BY <1>1, <2>2 DEF k
<1>7. Directory(s) = d /\ LastSegment(s) = f
    BY <1>1, <1>4 DEF Directory, LastSegment
<1> HIDE DEF d, f
<1>8. LastSlash(d) = 4
    <2>1. d[4] = "/" /\ d[5] = "Metalayer"
        BY <1>1, <1>2, <1>3, <1>5
    <2>2. 4 \in 0 .. Len(d) /\ \A i \in 1 .. Len(d) : d[i] = "/" => i <= 4
        BY <1>5, <2>1
    <2> QED BY <1>5, <2>1, <2>2, SlashBy
<1>9. IsSequence(g) /\ Len(g) = 1 /\ g[1] = "Metalayer"
    <2> DEFINE k == 4
    <2>1. k \in 0 .. Len(d) /\ g = SubSeq(d, k + 1, Len(d))
        BY <1>5
    <2>3. IsSequence(d)
        BY <1>5
    <2> HIDE DEF k, g
    <2>2. IsSequence(g) /\ Len(g) = Len(d) - k /\ \A i \in 1 .. Len(d) - k : g[i] = d[k + i]
        BY <2>1, <2>3, CutEnd
    <2> QED BY <1>1, <1>5, <2>2 DEF k
<1>10. LastSegment(d) = g
    BY <1>5, <1>8 DEF LastSegment
<1> HIDE DEF g
<1>11. f = MetadataFile /\ g = Metalayer
    <2>1. f = MetadataFile
        BY <1>6, SingleIs DEF MetadataFile
    <2>2. g = Metalayer
        BY <1>9, SingleIs DEF Metalayer
    <2> QED BY <2>1, <2>2
<1>12. Prefix(s) = h
    BY <1>7, <1>8 DEF Prefix
<1>13. h = r
    <2> DEFINE n == 4
    <2>1. n \in 0 .. Len(s) /\ h = SubSeq(s, 1, n)
        BY <1>1
    <2> HIDE DEF h, n
    <2>2. IsSequence(h) /\ Len(h) = n /\ \A i \in 1 .. n : h[i] = s[i]
        BY <1>1, <2>1, CutBy, ZenonT(30)
    <2>3. Len(h) = Len(r) /\ \A i \in 1 .. Len(h) : h[i] = r[i]
        BY <1>2, <1>3, <2>2 DEF n
    <2> QED BY <1>2, <2>2, <2>3, SameSequence
<1>14. Candidate(s)
    BY <1>4, <1>7, <1>10, <1>11 DEF Candidate
<1> QED BY <1>12, <1>13, <1>14 DEF s, r

\* The marker's name is none, and ends as a marker's does.
LEMMA MarkerNamePlace ==
    ~Candidate(MarkerName) /\ LastSegment(MarkerName) = Mimetype /\ MarkerName # Mimetype
<1> DEFINE t == Mimetype
           r == CanonicalRoot
<1>1. t \in Seq({"mimetype"}) /\ Len(t) = 1 /\ t[1] = "mimetype"
    BY DEF Mimetype
<1>2. IsSequence(t)
    BY <1>1 DEF IsSequence
<1>3. IsRoot(r) /\ EndsIt(r)
    BY RootsAre DEF IsRoot
<1>4. MarkerName = r \o t
    BY DEF MarkerName
<1>5. MarkerName # t
    BY <1>1, MarkerNameHas
<1> HIDE DEF t, r
<1>6. LastSlash(t) = 0
    <2> DEFINE z == 0
    <2>1. z \in 0 .. Len(t) /\ (z > 0 => t[z] = "/") /\ \A i \in 1 .. Len(t) : t[i] = "/" => i <= z
        BY <1>1
    <2> HIDE DEF z
    <2>2. LastSlash(t) = z
        BY <1>2, <2>1, SlashBy
    <2> QED BY <2>2 DEF z
<1>7. LastSegment(t) = t
    <2> DEFINE z == 0
               b == SubSeq(t, z + 1, Len(t))
    <2>1. z \in 0 .. Len(t) /\ Len(t) \in Nat
        BY <1>1
    <2>2. LastSegment(t) = b
        BY <1>6 DEF LastSegment
    <2> HIDE DEF z
    <2>3. IsSequence(b) /\ Len(b) = Len(t) - z /\ \A i \in 1 .. Len(t) - z : b[i] = t[z + i]
        BY <1>2, <2>1, CutEnd
    <2> HIDE DEF b
    <2>4. Len(b) = Len(t) /\ \A i \in 1 .. Len(b) : b[i] = t[i]
        BY <2>1, <2>3 DEF z
    <2>5. b = t
        BY <1>2, <2>3, <2>4, SameSequence
    <2> QED BY <2>2, <2>5
<1>8. ~Candidate(r \o t)
    <2>1. ~SaysDocument(t)
        BY <1>6 DEF SaysDocument
    <2> QED BY <1>2, <1>3, <2>1, CandidateBelow
<1>9. LastSegment(r \o t) = t
    <2>1. LastSegment(r \o t) = LastSegment(t)
        BY <1>2, <1>3, SegmentBelow
    <2> QED BY <1>7, <2>1
<1> QED BY <1>4, <1>5, <1>8, <1>9 DEF t

\* Nor is a payload's: it lies in a directory of its number.
LEMMA PayloadNamePlace ==
    ASSUME NEW s, NEW c, NEW f, PayloadShape(s, c, f),
           \A k \in 1 .. Len(c) : c[k] # "/", \A k \in 1 .. Len(f) : f[k] # "/"
    PROVE  ~Candidate(s)
<1> DEFINE n == 7 + Len(c)
           d == SubSeq(s, 1, n)
           k6 == 6
           g == SubSeq(d, k6 + 1, Len(d))
<1>1. /\ IsSequence(s) /\ Len(c) \in Nat /\ Len(f) \in Nat /\ Len(s) = n + 1 + Len(f) /\ n \in Nat /\ n >= 7
      /\ s[6] = "/" /\ s[7] = "ID-" /\ s[n + 1] = "/"
      /\ \A k \in 1 .. Len(c) : s[7 + k] = c[k]
      /\ \A k \in 1 .. Len(f) : s[n + 1 + k] = f[k]
    <2>1. s \in Text
        BY DEF PayloadShape
    <2>2. IsSequence(s)
        BY <2>1 DEF Text, IsSequence
    <2>3. Len(c) \in Nat /\ n + 1 = 8 + Len(c) /\ n \in Nat /\ n >= 7
        BY DEF PayloadShape
    <2> HIDE DEF n
    <2> QED BY <2>2, <2>3 DEF PayloadShape
<1>2. \A i \in 8 .. n : s[i] # "/"
    <2> TAKE i \in 8 .. n
    <2>1. i - 7 \in 1 .. Len(c) /\ 7 + (i - 7) = i
        BY <1>1
    <2> QED BY <1>1, <2>1
<1>3. LastSlash(s) = n + 1
    <2>1. n + 1 \in 0 .. Len(s)
        BY <1>1
    <2>2. ASSUME NEW i \in 1 .. Len(s), s[i] = "/" PROVE i <= n + 1
        <3>1. CASE i > n + 1
            <4>1. i - (n + 1) \in 1 .. Len(f) /\ n + 1 + (i - (n + 1)) = i
                BY <1>1, <3>1
            <4>2. s[n + 1 + (i - (n + 1))] = f[i - (n + 1)]
                BY <1>1, <4>1
            <4> QED BY <2>2, <4>1, <4>2
        <3> QED BY <1>1, <3>1
    <2> HIDE DEF n
    <2> QED BY <1>1, <2>1, <2>2, SlashBy
<1>4. Directory(s) = d
    <2>1. (n + 1) - 1 = n
        BY <1>1
    <2> QED BY <1>3, <2>1 DEF Directory
<1> HIDE DEF n
<1>5. IsSequence(d) /\ Len(d) = n /\ \A i \in 1 .. n : d[i] = s[i]
    <2>1. n \in 0 .. Len(s)
        BY <1>1
    <2>2. IsSequence(s)
        BY <1>1
    <2> QED BY <2>1, <2>2, CutBy
<1> HIDE DEF d
<1>6. k6 \in 0 .. Len(d) /\ LastSlash(d) = k6
    <2>1. /\ k6 \in 0 .. Len(d) /\ (k6 > 0 => d[k6] = "/")
          /\ \A i \in 1 .. Len(d) : d[i] = "/" => i <= k6
        <3>1. \A i \in 1 .. n : i <= 6 \/ i = 7 \/ i \in 8 .. n
            BY <1>1
        <3> QED BY <1>1, <1>2, <1>5, <3>1
    <2> HIDE DEF k6
    <2> QED BY <1>5, <2>1, SlashBy
<1>7. LastSegment(d) = g
    BY <1>6 DEF LastSegment
<1>8. IsSequence(g) /\ Len(g) = Len(d) - k6 /\ \A i \in 1 .. Len(d) - k6 : g[i] = d[k6 + i]
    <2>1. IsSequence(d) /\ k6 \in 0 .. Len(d)
        BY <1>5, <1>6
    <2> HIDE DEF k6
    <2> QED BY <2>1, CutEnd, ZenonT(30)
<1> HIDE DEF g
<1>9. g[1] = "ID-" /\ 1 \in 1 .. Len(g)
    BY <1>1, <1>5, <1>8
<1>10. Folded(g) # Folded(Metalayer)
    <2>1. DOMAIN g = 1 .. Len(g)
        BY <1>8, SequenceIs
    <2>2. Folded(g)[1] = Fold["ID-"]
        BY <1>9, <2>1 DEF Folded
    <2>3. 1 \in DOMAIN Metalayer /\ Metalayer[1] = "Metalayer"
        BY DEF Metalayer
    <2>4. Folded(Metalayer)[1] = Fold["Metalayer"]
        BY <2>3 DEF Folded
    <2> QED BY <2>2, <2>4, LayoutAssumption
<1> QED BY <1>4, <1>7, <1>10 DEF Candidate

LEMMA NameIsFile ==
    ASSUME NEW f \in Text, NameFault(f) = {}
    PROVE  f # <<>> /\ \A k \in 1 .. Len(f) : f[k] # "/"
<1>1. f # <<>>
    BY DEF NameFault
<1>2. Range(f) \cap Separators = {}
    BY <1>1 DEF NameFault
<1>3. DOMAIN f = 1 .. Len(f)
    BY DEF Text
<1> QED BY <1>1, <1>2, <1>3 DEF Range, Separators

\* Where the document of a package that was written is, and its marker.
LEMMA WrittenLocated ==
    ASSUME NEW inv, NEW spec, NEW n, Lay(inv, spec, n)
    PROVE  Candidates(inv) = {2} /\ Prefix(inv[2].name) = CanonicalRoot /\ 2 \in 1 .. Len(inv)
<1>1. /\ n \in Nat /\ IsSequence(inv) /\ Len(inv) = n + 2
      /\ inv[1].name = MarkerName /\ inv[2].name = MetadataName
    BY DEF Lay
<1>2. DOMAIN inv = 1 .. n + 2
    BY <1>1, SequenceIs
<1>3. ~Candidate(inv[1].name) /\ Candidate(inv[2].name) /\ Prefix(inv[2].name) = CanonicalRoot
    BY <1>1, MarkerNamePlace, MetadataNamePlace
<1>4. ASSUME NEW k \in 1 .. n + 2, k > 2 PROVE ~Candidate(inv[k].name)
    <2> DEFINE h == k - 2
               f == spec.attachments[h].file_name
               s == inv[k].name
               c == Decimal[h]
    <2>1. h \in 1 .. n /\ k = h + 2
        BY <1>1, <1>4
    <2>2. s = PayloadName(h, f) /\ f \in Text /\ c \in Text /\ NameFault(f) = {}
        BY <2>1 DEF Lay
    <2>3. \A l \in 1 .. Len(c) : c[l] # "/"
        <3>1. Ceiling(MaxEntries, Word16) \in Nat
            BY CeilingIs, CreationAssumption
        <3>2. n <= Ceiling(MaxEntries, Word16) - 2
            BY DEF Lay
        <3>3. h \in 0 .. Ceiling(MaxEntries, Word16) - 2
            BY <1>1, <2>1, <3>1, <3>2
        <3>4. "/" \notin Range(c)
            BY <3>3, NumbersAssumption
        <3>5. DOMAIN c = 1 .. Len(c)
            BY <2>2 DEF Text
        <3> HIDE DEF c
        <3> QED BY <3>4, <3>5 DEF Range
    <2> HIDE DEF f, s, h
    <2>4. PayloadShape(s, c, f)
        BY <2>2, PayloadNameHas
    <2>5. \A l \in 1 .. Len(f) : f[l] # "/"
        BY <2>2, NameIsFile
    <2> HIDE DEF c
    <2>6. ~Candidate(s)
        BY <2>3, <2>4, <2>5, PayloadNamePlace
    <2> QED BY <2>6 DEF s
<1>5. \A k \in 1 .. n + 2 : k = 1 \/ k = 2 \/ k > 2
    BY <1>1
<1>6. Candidates(inv) = {2}
    BY <1>1, <1>2, <1>3, <1>4, <1>5 DEF Candidates
<1>7. 2 \in 1 .. Len(inv)
    BY <1>1
<1> QED BY <1>3, <1>6, <1>7

LEMMA WrittenMarked ==
    ASSUME NEW inv, NEW spec, NEW n, Lay(inv, spec, n)
    PROVE  MarkerOutcome(inv).kind # "fail"
<1> DEFINE shaped == {i \in DOMAIN inv : LastSegment(inv[i].name) = Mimetype}
           exact == {i \in DOMAIN inv \cap {1} : inv[i].name = Mimetype}
           m == FindMarker(inv)
<1>1. n \in Nat /\ IsSequence(inv) /\ Len(inv) = n + 2 /\ inv[1].name = MarkerName
    BY DEF Lay
<1>2. DOMAIN inv = 1 .. n + 2
    BY <1>1, SequenceIs
<1>3. exact = {}
    BY <1>1, MarkerNamePlace
<1>4. 1 \in shaped /\ shaped \subseteq Nat
    BY <1>1, <1>2, MarkerNamePlace
<1>5. m = IF exact # {} THEN exact ELSE IF shaped = {} THEN Absent ELSE Present(Min(shaped))
    BY Zenon DEF FindMarker
<1> HIDE DEF shaped, exact
<1>6. Min(shaped) = 1
    <2>1. Min(shaped) \in shaped /\ \A x \in shaped : Min(shaped) <= x
        BY <1>4, MinIs
    <2>2. \A x \in shaped : x >= 1
        BY <1>2 DEF shaped
    <2> DEFINE h == Min(shaped)
    <2>3. h \in shaped /\ \A x \in shaped : h <= x
        BY <2>1
    <2> HIDE DEF h
    <2>4. h \in Nat /\ h <= 1 /\ h >= 1
        BY <1>4, <2>2, <2>3
    <2>5. h = 1
        BY <2>4
    <2> QED BY <2>5 DEF h
<1>7. m = {1}
    BY <1>3, <1>4, <1>5, <1>6 DEF Present
<1> HIDE DEF m
<1>8. The(m) = 1 /\ m # Absent
    BY <1>7, TheOne DEF Absent
<1>9. inv[The(m)].name # Mimetype
    BY <1>1, <1>8, MarkerNamePlace
<1>10. Marker(inv) = "prefixed"
    BY <1>8, <1>9 DEF Marker, m
<1> QED BY <1>10 DEF MarkerOutcome, Unresolved

\* What the reader makes of the dispatches that were written.
LEMMA CarriedAgain ==
    ASSUME NEW v, NEW r, NEW n, Holding(v, r, n), n \in Nat, Len(r) = n, NEW w, w = MetadataAgain(v),
           NEW q, q = [k \in 1 .. Len(r) |-> ReferenceAgain(r[k])]
    PROVE  Carrying(w, q, n)
<1>1. w.dispatches = DispatchesAgain(v.dispatches)
    BY DEF MetadataAgain
<1>2. CASE v.dispatches = <<>> /\ n = 0
    <2>1. DispatchesAgain(v.dispatches) = <<>>
        BY <1>2 DEF DispatchesAgain
    <2> QED BY <1>1, <1>2, <2>1 DEF Carrying
<1>3. CASE \E D : Only(v.dispatches, D) /\ D.attachments = r /\ D.declared_attachment_count = {n}
    <2>1. PICK D : Only(v.dispatches, D) /\ D.attachments = r /\ D.declared_attachment_count = {n}
        BY <1>3
    <2> DEFINE E == DispatchAgain(D)
    <2>2. E.attachments = q /\ E.declared_attachment_count = {n}
        BY <2>1 DEF DispatchAgain
    <2>3. DispatchesAgain(v.dispatches) = <<E>>
        <3> HIDE DEF E
        <3>1. Len(v.dispatches) = 1 /\ v.dispatches[1] = D
            BY <2>1 DEF Only
        <3> QED BY <3>1 DEF DispatchesAgain, E
    <2> HIDE DEF E
    <2>4. Only(w.dispatches, E)
        BY <1>1, <2>3 DEF Only
    <2> QED BY <2>2, <2>4 DEF Carrying
<1>4. Holding(v, r, n) => \/ v.dispatches = <<>> /\ n = 0
                          \/ \E D : Only(v.dispatches, D) /\ D.attachments = r /\ D.declared_attachment_count = {n}
    BY Zenon DEF Holding
<1> QED BY <1>2, <1>3, <1>4

\* The count that is declared is the one of those listed.
LEMMA CarriedCount ==
    ASSUME NEW w, NEW q, NEW n, Carrying(w, q, n), Len(q) = n
    PROVE  CountAgrees(w) # Absent => The(CountAgrees(w))
<1> DEFINE counted == {i \in DOMAIN w.dispatches :
                          w.dispatches[i].declared_attachment_count # Absent}
           agrees == \A i \in counted :
                        w.dispatches[i].declared_attachment_count
                            = {Len(w.dispatches[i].attachments)}
<1>1. CountAgrees(w) = IF counted = {} THEN Absent ELSE Present(agrees)
    BY Zenon DEF CountAgrees
<1>2. agrees
    <2>1. ASSUME NEW i \in DOMAIN w.dispatches
          PROVE  w.dispatches[i].declared_attachment_count = {Len(w.dispatches[i].attachments)}
        <3>1. CASE w.dispatches = <<>>
            BY <2>1, <3>1
        <3>2. CASE \E D : Only(w.dispatches, D) /\ D.attachments = q /\ D.declared_attachment_count = {n}
            <4>1. PICK D : Only(w.dispatches, D) /\ D.attachments = q /\ D.declared_attachment_count = {n}
                BY <3>2
            <4> DEFINE ds == w.dispatches
            <4>2. DOMAIN ds = {1} /\ ds[1] = D
                BY <4>1 DEF Only
            <4> HIDE DEF ds
            <4>3. i = 1
                BY <2>1, <4>2 DEF ds
            <4>4. ds[i] = D
                BY <4>2, <4>3
            <4> QED BY <4>1, <4>4 DEF ds
        <3> QED BY <3>1, <3>2 DEF Carrying
    <2> QED BY <2>1
<1>3. counted = {} => CountAgrees(w) = Absent
    BY <1>1
<1>4. counted # {} => CountAgrees(w) = {agrees}
    BY <1>1, Zenon DEF Present
<1> HIDE DEF agrees
<1>5. The({agrees}) = agrees
    BY TheOne
<1> QED BY <1>2, <1>3, <1>4, <1>5

\* A place is declared without the slash that would follow it.
LEMMA DeclaredThere ==
    ASSUME NEW i, NEW c, c = Decimal[i], c \in Text, \A k \in 1 .. Len(c) : c[k] # "/", NEW a,
           a.location = PayloadLocation(i), NEW f, a.file_name = f
    PROVE  DeclaredPath(a) = PayloadName(i, f)
<1> DEFINE r == CanonicalRoot
           p == <<"Payload", "/", "ID-">>
           u == r \o p
           l == u \o c
           named == {k \in DOMAIN l : l[k] # "/"}
<1>1. /\ r \in Text /\ p \in Text /\ Len(r) = 4 /\ Len(p) = 3 /\ p[3] = "ID-"
    <2>1. Len(r) = 4
        BY RootsAre
    <2>2. Len(p) = 3 /\ p[3] = "ID-"
        OBVIOUS
    <2> QED BY <2>1, <2>2, LayoutWords
<1>2. PayloadLocation(i) = l
    BY DEF PayloadLocation
<1> HIDE DEF r, p
<1>3. u \in Text /\ Len(u) = 7 /\ u[7] = "ID-"
    <2>1. TextJoin(u, r, p)
        BY <1>1, TextsJoin
    <2> HIDE DEF u
    <2>2. u \in Text /\ Len(u) = 7
        BY <1>1, <2>1 DEF TextJoin
    <2>3. 3 \in 1 .. Len(p) /\ Len(r) + 3 = 7
        BY <1>1
    <2>4. u[Len(r) + 3] = p[3]
        BY <2>1, <2>3 DEF TextJoin
    <2> QED BY <1>1, <2>2, <2>3, <2>4
<1> HIDE DEF u
<1>4. l \in Text /\ Len(l) = 7 + Len(c) /\ Len(c) \in Nat /\ \A k \in 1 .. Len(c) : l[7 + k] = c[k]
    <2>1. TextJoin(l, u, c)
        BY <1>3, TextsJoin
    <2> HIDE DEF l
    <2> QED BY <1>3, <2>1 DEF TextJoin
<1>5. l[7] = "ID-"
    <2>1. TextJoin(l, u, c)
        BY <1>3, TextsJoin
    <2> HIDE DEF l
    <2>2. 7 \in 1 .. Len(u)
        BY <1>3
    <2> QED BY <1>3, <2>1, <2>2 DEF TextJoin
<1> DEFINE n == Len(l)
<1> HIDE DEF l
<1>6. n \in Nat /\ n > 0 /\ l[n] # "/" /\ DOMAIN l = 1 .. n /\ IsSequence(l)
    <2>1. DOMAIN l = 1 .. n /\ IsSequence(l)
        BY <1>4 DEF Text, IsSequence
    <2>2. CASE Len(c) = 0
        BY <1>4, <1>5, <2>1, <2>2
    <2>3. CASE Len(c) > 0
        <3>1. Len(c) \in 1 .. Len(c) /\ n = 7 + Len(c) /\ n \in Nat /\ n > 0
            BY <1>4, <2>3
        <3>2. l[7 + Len(c)] = c[Len(c)] /\ c[Len(c)] # "/"
            BY <1>4, <3>1
        <3> QED BY <2>1, <3>1, <3>2
    <2> QED BY <1>4, <2>2, <2>3
<1>7. Max(named) = n /\ named # {}
    <2>1. n \in named /\ named \subseteq 0 .. n /\ \A k \in named : k <= n
        BY <1>6
    <2> HIDE DEF named, n
    <2>2. Max(named) \in named /\ \A k \in named : k <= Max(named)
        BY <1>6, <2>1, MaxIs
    <2> DEFINE m == Max(named)
    <2>3. m \in named /\ \A k \in named : k <= m
        BY <2>2
    <2> HIDE DEF m
    <2>4. m \in 0 .. n /\ n <= m /\ m <= n
        BY <2>1, <2>3
    <2>5. n \in Nat
        BY <1>6
    <2>6. m = n /\ named # {}
        BY <2>1, <2>4, <2>5
    <2> QED BY <2>6 DEF m
<1>8. WithoutSlashes(l) = SubSeq(l, 1, n)
    BY <1>7 DEF WithoutSlashes
<1>9. SubSeq(l, 1, n) = l
    <2> DEFINE x == SubSeq(l, 1, n)
    <2>0. n \in 0 .. Len(l) /\ IsSequence(l)
        BY <1>6
    <2>1. IsSequence(x) /\ Len(x) = n /\ \A k \in 1 .. n : x[k] = l[k]
        BY <2>0, CutBy
    <2> HIDE DEF x
    <2>2. Len(x) = Len(l) /\ \A k \in 1 .. Len(x) : x[k] = l[k]
        BY <2>1
    <2> QED BY <1>6, <2>1, <2>2, SameSequence DEF x
<1>10. l # <<>>
    BY <1>6
<1>11. DeclaredPath(a) = l \o <<"/">> \o f
    BY <1>2, <1>8, <1>9, <1>10 DEF DeclaredPath
<1> QED BY <1>2, <1>11 DEF PayloadName

\* What the reader makes of the document of a package that was written.
LEMMA WrittenIsRead ==
    ASSUME NEW inv, NEW spec, NEW n, Wrote1(inv, spec, n), NEW c, c = inv[2].content,
           NEW v, v = Derived(spec)
    PROVE  \/ Parsed(c).kind = "refused" /\ Parsed(c).codes \subseteq TooLarge
           \/ /\ Parsed(c).kind = "accepted" /\ Parsed(c).value = MetadataAgain(v)
              /\ Serialised(Parsed(c).value) = c.events
<1> DEFINE d == Serialised(v)
<1>1. Sent(spec, n) /\ LaidOut(inv, spec, n)
    BY DEF Wrote1
<1>2. TidyMetadata(v)
    BY <1>1, SentIsTidy
<1>3. c = DocumentContent(d)
    <2>1. inv[2] = Entry(MetadataName, DocumentContent(d))
        BY <1>1 DEF LaidOut
    <2> HIDE DEF d
    <2> QED BY <2>1 DEF Entry
<1>4. Serialised(MetadataAgain(v)) = d
    BY <1>2, Rewritten
<1> HIDE DEF d
<1>5. c.events = d /\ Parsed(c) = Verdict(d)
    BY <1>3 DEF DocumentContent, Parsed
<1>6. \/ Verdict(d).kind = "refused" /\ Verdict(d).codes \subseteq TooLarge
      \/ Verdict(d).kind = "accepted" /\ Verdict(d).value = MetadataAgain(v)
    BY <1>2, WrittenVerdict DEF d
<1> QED BY <1>4, <1>5, <1>6

\* Its references, as they are read.
Reading1(q, spec, n) ==
    /\ IsSequence(q) /\ Len(q) = n
    /\ \A i \in 1 .. n :
          /\ q[i].number = i /\ q[i].file_name = spec.attachments[i].file_name
          /\ q[i].location = PayloadLocation(i)

LEMMA ReferencesAgain ==
    ASSUME NEW spec, NEW n, Sent(spec, n), NEW v, v = Derived(spec), NEW w, w = MetadataAgain(v)
    PROVE  \E q : Carrying(w, q, n) /\ Reading1(q, spec, n)
<1> DEFINE r == References(spec.attachments)
           q == [k \in 1 .. Len(r) |-> ReferenceAgain(r[k])]
<1>1. n \in Nat
    BY SentIs
<1>2. Listed1(r, spec.attachments, n) /\ Holding(v, r, n)
    BY ReferencesListed, DerivedHas
<1> HIDE DEF r
<1>3. Len(r) = n /\ IsSequence(r)
    <2>1. r \in Seq(AttachmentReference) /\ Len(r) = n
        BY <1>2 DEF Listed1
    <2> QED BY <2>1 DEF IsSequence
<1>4. IsSequence(q) /\ Len(q) = n /\ \A k \in 1 .. n : q[k] = ReferenceAgain(r[k])
    <2>1. q = [k \in 1 .. n |-> q[k]] /\ \A k \in 1 .. n : q[k] = ReferenceAgain(r[k])
        BY <1>3
    <2> HIDE DEF q
    <2> QED BY <1>1, <2>1, SequenceBy
<1>5. Carrying(w, q, n)
    BY <1>1, <1>2, <1>3, CarriedAgain
<1> HIDE DEF q
<1>6. ASSUME NEW i \in 1 .. n
      PROVE  /\ q[i].number = i /\ q[i].file_name = spec.attachments[i].file_name
             /\ q[i].location = PayloadLocation(i)
    <2>1. r[i].number = i /\ r[i].file_name = spec.attachments[i].file_name /\ r[i].location = PayloadLocation(i)
        BY <1>2 DEF Listed1
    <2>2. q[i] = ReferenceAgain(r[i])
        BY <1>4
    <2> QED BY <2>1, <2>2 DEF ReferenceAgain
<1>7. Reading1(q, spec, n)
    BY <1>4, <1>6 DEF Reading1
<1> QED BY <1>5, <1>7

\* Attachment i is entry i + 2.
Resolution(i) == [kind |-> "resolved", entry |-> Present(i + 2)]

LEMMA WrittenResolves ==
    ASSUME NEW inv, NEW spec, NEW n, Lay(inv, spec, n), NEW i \in 1 .. n, NEW a,
           a.file_name = spec.attachments[i].file_name, a.location = PayloadLocation(i), NEW root
    PROVE  /\ DeclaredPath(a) = inv[i + 2].name
           /\ ResolvePath(inv, DeclaredPath(a), root) = Resolution(i)
<1> DEFINE f == spec.attachments[i].file_name
           c == Decimal[i]
           path == DeclaredPath(a)
<1>1. n \in Nat /\ IsSequence(inv) /\ Len(inv) = n + 2 /\ n <= Ceiling(MaxEntries, Word16) - 2
    BY DEF Lay
<1>2. inv[i + 2].name = PayloadName(i, f) /\ c \in Text
    BY DEF Lay
<1>3. \A l \in 1 .. Len(c) : c[l] # "/"
    <2>1. Ceiling(MaxEntries, Word16) \in Nat
        BY CeilingIs, CreationAssumption
    <2>2. i \in 0 .. Ceiling(MaxEntries, Word16) - 2
        BY <1>1, <2>1
    <2>3. "/" \notin Range(c)
        BY <2>2, NumbersAssumption
    <2>4. DOMAIN c = 1 .. Len(c)
        BY <1>2 DEF Text
    <2> HIDE DEF c
    <2> QED BY <2>3, <2>4 DEF Range
<1>4. path = PayloadName(i, f)
    <2>1. c = Decimal[i]
        OBVIOUS
    <2> HIDE DEF c, f
    <2>2. a.file_name = f
        BY DEF f
    <2>3. DeclaredPath(a) = PayloadName(i, f)
        BY <1>2, <1>3, <2>1, <2>2, DeclaredThere
    <2> QED BY <2>3
<1> HIDE DEF c, f
<1>5. path = inv[i + 2].name
    BY <1>2, <1>4
<1> HIDE DEF path
<1>6. Names(inv, path) = {i + 2}
    <2>1. i + 2 \in 1 .. n + 2
        BY <1>1
    <2>2. ASSUME NEW j \in 1 .. n + 2, inv[j].name = path PROVE j = i + 2
        <3> DEFINE k == i + 2
        <3>1. k \in 1 .. n + 2 /\ inv[j].name = inv[k].name
            BY <1>5, <2>1, <2>2
        <3> HIDE DEF k
        <3>2. j = k
            BY <3>1, NamesDiffer
        <3> QED BY <3>2 DEF k
    <2> QED BY <1>1, <1>5, <2>1, <2>2 DEF Names
<1>7. IndexOf(inv, path) # Absent /\ IndexOf(inv, path) = {i + 2}
    <2>1. Names(inv, path) # {}
        BY <1>6
    <2>2. IndexOf(inv, path) # Absent
        BY <1>1, <2>1, IndexIs
    <2>3. \E k \in Names(inv, path) : IndexOf(inv, path) = {k}
        BY <1>1, <2>2, IndexIs
    <2> QED BY <1>6, <2>2, <2>3
<1>8. ResolvePath(inv, path, root) = [kind |-> "resolved", entry |-> IndexOf(inv, path)]
    BY <1>7, Zenon DEF ResolvePath
<1> QED BY <1>5, <1>7, <1>8 DEF path, Resolution, Present

\* No check fails over a package that was written and is read.
LEMMA WrittenPasses ==
    ASSUME NEW inv, NEW spec, NEW n, Wrote1(inv, spec, n), NEW c, c = inv[2].content,
           Parsed(c).kind = "accepted", NEW w, Parsed(c).value = w
    PROVE  \E a : Passes(inv, 2, w, a) /\ \A i \in 1 .. n : a[i].resolution = Resolution(i)
<1> DEFINE v == Derived(spec)
           a == Resolve(inv, w, CanonicalRoot)
<1>1. Sent(spec, n) /\ LaidOut(inv, spec, n) /\ inv \in Inventory
    BY DEF Wrote1
<1>2. Lay(inv, spec, n)
    BY LayIs
<1>3. Candidates(inv) = {2} /\ Prefix(inv[2].name) = CanonicalRoot /\ 2 \in 1 .. Len(inv)
    BY <1>2, WrittenLocated
<1>4. MarkerOutcome(inv).kind # "fail"
    BY <1>2, WrittenMarked
<1>5. w = MetadataAgain(v)
    <2> HIDE DEF v
    <2>1. v = Derived(spec)
        BY DEF v
    <2> QED BY <2>1, WrittenIsRead
<1>6. LegibleValue(w)
    <2>1. Legible(inv)
        BY <1>1, InventoryIsLegible
    <2>2. LegibleContent(c)
        BY <1>3, <2>1, Zenon DEF Legible
    <2>3. c.kind = "document" /\ c.reading = Parsed(c)
        BY DEF Parsed
    <2> QED BY <2>2, <2>3 DEF LegibleContent
<1> HIDE DEF v
<1>7. PICK q : Carrying(w, q, n) /\ Reading1(q, spec, n)
    <2>1. v = Derived(spec)
        BY DEF v
    <2> QED BY <1>1, <1>5, <2>1, ReferencesAgain
<1>8. Attachments(w) = q /\ IsSequence(q) /\ Len(q) = n
    <2>1. IsSequence(q) /\ Len(q) = n
        BY <1>7, Zenon DEF Reading1
    <2> QED BY <1>7, <2>1, HeldAttachments
<1>9. /\ IsSequence(a) /\ Len(a) = n
      /\ \A i \in 1 .. n :
            /\ a[i].number = q[i].number
            /\ a[i].declared_path = DeclaredPath(q[i])
            /\ a[i].resolution = ResolvePath(inv, DeclaredPath(q[i]), CanonicalRoot)
    BY <1>6, <1>8, ResolvedAre
<1> HIDE DEF a
<1>10. ASSUME NEW i \in 1 .. n
       PROVE  a[i].number = i /\ a[i].resolution = Resolution(i) /\ a[i].declared_path = inv[i + 2].name
    <2>1. /\ q[i].number = i /\ q[i].file_name = spec.attachments[i].file_name
          /\ q[i].location = PayloadLocation(i)
        BY <1>7 DEF Reading1
    <2> DEFINE x == q[i]
               root == CanonicalRoot
    <2>2. x.file_name = spec.attachments[i].file_name /\ x.location = PayloadLocation(i)
        BY <2>1
    <2> HIDE DEF x, root
    <2>3. DeclaredPath(x) = inv[i + 2].name /\ ResolvePath(inv, DeclaredPath(x), root) = Resolution(i)
        BY <1>2, <2>2, WrittenResolves
    <2> QED BY <1>9, <2>1, <2>3 DEF x, root
<1>11. DOMAIN a = 1 .. n /\ n \in Nat
    BY <1>9, SequenceIs
<1>12. ~HasDuplicate(a)
    <2>1. ASSUME NEW i \in 1 .. n, NEW j \in 1 .. n, i < j,
                 a[i].number = a[j].number \/ a[i].declared_path = a[j].declared_path
          PROVE  FALSE
        <3>1. i \in Int /\ j \in Int /\ i # j
            BY <2>1
        <3>2. a[i].number # a[j].number
            BY <1>10, <3>1
        <3>3. inv[i + 2].name = inv[j + 2].name
            BY <1>10, <2>1, <3>2
        <3> DEFINE k == i + 2
                   l == j + 2
        <3>4. k \in 1 .. n + 2 /\ l \in 1 .. n + 2 /\ inv[k].name = inv[l].name /\ k # l
            BY <1>11, <3>1, <3>3
        <3> HIDE DEF k, l
        <3> QED BY <1>2, <3>4, NamesDiffer
    <2> QED BY <1>11, <2>1 DEF HasDuplicate
<1>13. \A i \in 1 .. Len(a) : a[i].resolution.kind # "missing"
    <2>1. \A i \in 1 .. n : a[i].resolution = Resolution(i)
        BY <1>10
    <2>2. \A i \in 1 .. n : Resolution(i).kind = "resolved"
        BY DEF Resolution
    <2>3. Len(a) = n
        BY <1>9
    <2> QED BY <2>1, <2>2, <2>3
<1>14. CountAgrees(w) # Absent => The(CountAgrees(w))
    BY <1>7, <1>8, CarriedCount
<1>15. \A i \in 6 .. 11 : DocumentOutcome(w, a, Order[i]).kind # "fail"
    BY <1>9, <1>12, <1>13, <1>14, ReferencesPass
<1>16. Passes(inv, 2, w, a)
    <2>1. a = Resolve(inv, w, Prefix(inv[2].name))
        BY <1>3 DEF a
    <2> QED BY <1>3, <1>4, <1>15, <2>1 DEF Passes
<1> QED BY <1>10, <1>16

\* What apply() writes is what package() writes for some request.
LEMMA AppliedPackage ==
    ASSUME NEW inv \in Inventory, NEW p \in RepackPlan, SameInventory(inv, p)
    PROVE  \E spec \in PackageSpec : ApplyPlan(inv, p) = Package(spec)
<1> DEFINE s == Inputs(inv, p)
           spec == [metadata |-> p.metadata, attachments |-> s]
<1>1. p.attachments \in Seq(Planned) /\ p.metadata \in Metadata
    BY DEF RepackPlan
<1>2. Len(p.attachments) \in Nat /\ DOMAIN p.attachments = 1 .. Len(p.attachments)
    <2> HIDE DEF Planned
    <2> QED BY <1>1
<1>3. s = [i \in 1 .. Len(p.attachments) |-> s[i]]
    BY <1>2 DEF Inputs
<1>4. \A i \in 1 .. Len(p.attachments) : s[i] \in Attachment
    BY InputIs
<1>5. ApplyPlan(inv, p) = Package(spec)
    BY DEF ApplyPlan
<1> HIDE DEF s
<1>6. s \in Seq(Attachment)
    <2> HIDE DEF Attachment
    <2> QED BY <1>2, <1>3, <1>4
<1>7. spec \in PackageSpec
    BY <1>1, <1>6 DEF PackageSpec
<1> QED BY <1>5, <1>7

\* A package that was written is readable, and so is its document.
ReadBack(inv) ==
    LET verdict == Parsed(inv[2].content)
        report == Check(inv)
    IN  /\ Readable(inv)
        /\ verdict.kind = "refused" => verdict.codes \subseteq TooLarge
        /\ verdict.kind = "accepted" =>
            /\ Serialised(verdict.value) = inv[2].content.events
            /\ Failed(report) = {}
            /\ \A n \in 1 .. Len(inv) - 2 :
                  report.attachments[n].resolution =
                    [kind |-> "resolved", entry |-> Present(n + 2)]

LEMMA WrittenIsReadBack1 ==
    ASSUME NEW spec \in PackageSpec, NEW r, r = Package(spec), r.kind = "written",
           NEW inv, inv = r.inventory
    PROVE  ReadBack(inv)
<1>1. PICK n : Wrote1(inv, spec, n)
    BY PackageWrote
<1> DEFINE c == inv[2].content
           y == Parsed(c)
           report == Check(inv)
<1>2. Readable(inv)
    BY <1>1, WrittenIsReadable
<1>3. \/ y.kind = "refused" /\ y.codes \subseteq TooLarge
      \/ y.kind = "accepted" /\ Serialised(y.value) = c.events
    <2> DEFINE v == Derived(spec)
    <2> HIDE DEF v, c
    <2>1. v = Derived(spec) /\ c = inv[2].content
        BY DEF v, c
    <2> QED BY <1>1, <2>1, WrittenIsRead
<1>4. Len(inv) - 2 = n
    <2>1. Lay(inv, spec, n)
        BY <1>1, LayIs
    <2>2. n \in Nat /\ Len(inv) = n + 2
        BY <2>1 DEF Lay
    <2> QED BY <2>2
<1>5. ASSUME y.kind = "accepted"
      PROVE  Failed(report) = {} /\ \A i \in 1 .. n : report.attachments[i].resolution = Resolution(i)
    <2> DEFINE w == y.value
               k == 2
    <2> HIDE DEF w
    <2>1. Parsed(inv[2].content).value = w
        BY DEF w
    <2>2. PICK a : Passes(inv, 2, w, a) /\ \A i \in 1 .. n : a[i].resolution = Resolution(i)
        BY <1>1, <1>5, <2>1, WrittenPasses
    <2>3. Passes(inv, k, w, a)
        BY <2>2
    <2> HIDE DEF k, report
    <2>4. Failed(Check(inv)) = {} /\ Check(inv).attachments = a
        BY <2>3, PassingReport
    <2> QED BY <2>2, <2>4 DEF report
<1>6. \A i : Resolution(i) = [kind |-> "resolved", entry |-> Present(i + 2)]
    BY DEF Resolution
<1> HIDE DEF report, y, c
<1>7. \/ y.kind = "refused" /\ y.codes \subseteq TooLarge /\ y.kind # "accepted"
      \/ y.kind = "accepted" /\ y.kind # "refused"
    BY <1>3
<1>8. /\ y.kind = "refused" => y.codes \subseteq TooLarge
      /\ y.kind = "accepted" =>
            /\ Serialised(y.value) = c.events
            /\ Failed(report) = {}
            /\ \A i \in 1 .. Len(inv) - 2 :
                  report.attachments[i].resolution =
                    [kind |-> "resolved", entry |-> Present(i + 2)]
    <2>1. CASE y.kind = "accepted"
        <3>1. Serialised(y.value) = c.events
            BY <1>3, <2>1
        <3>2. \A i \in 1 .. Len(inv) - 2 :
                  report.attachments[i].resolution = [kind |-> "resolved", entry |-> Present(i + 2)]
            BY <1>4, <1>5, <1>6, <2>1
        <3> QED BY <1>5, <1>7, <2>1, <3>1, <3>2
    <2> QED BY <1>7, <2>1
<1> QED BY <1>2, <1>8 DEF ReadBack, report, y, c

\* Whatever is called own was written by package().
OwnIsWritten ==
    own => \E spec \in PackageSpec :
              Package(spec).kind = "written" /\ inventory = Package(spec).inventory

\* WrittenReadsBack: what package() writes is an archive within the reader's
\* limits, whose document is read as what was written, or is refused for its
\* size only, and over which no check fails.
THEOREM WrittenIsReadBack == Spec => []WrittenReadsBack
<1>1. Init => OwnIsWritten
    BY DEF Init, OwnIsWritten
<1>2. TypeOK /\ OwnIsWritten /\ [Next]_vars => OwnIsWritten'
    <2> SUFFICES ASSUME TypeOK, OwnIsWritten, [Next]_vars PROVE OwnIsWritten'
        OBVIOUS
    <2>0. inventory \in Inventory
        BY DEF TypeOK
    <2>1. ASSUME inventory' = inventory, own' = own PROVE OwnIsWritten'
        BY <2>1 DEF OwnIsWritten
    <2>2. ASSUME NEW call, NEW r, Wrote(call, r),
                 r.kind = "written" => \E spec \in PackageSpec : r = Package(spec)
          PROVE  OwnIsWritten'
        <3>1. CASE r.kind = "written"
            <4>1. inventory' = r.inventory
                BY <2>2, <3>1 DEF Wrote
            <4>2. PICK spec \in PackageSpec : r = Package(spec)
                BY <2>2, <3>1
            <4>3. Package(spec).kind = "written" /\ inventory' = Package(spec).inventory
                BY <3>1, <4>1, <4>2
            <4> QED BY <4>3 DEF OwnIsWritten
        <3>2. CASE r.kind # "written"
            <4>1. inventory' = inventory /\ own' = own
                BY <2>2, <3>2 DEF Wrote
            <4> QED BY <2>1, <4>1
        <3> QED BY <3>1, <3>2
    <2>3. CASE Create
        <3>1. PICK request \in Request : Wrote("create", Package(request))
            BY <2>3 DEF Create
        <3>2. request \in PackageSpec
            BY InputAssumption
        <3> QED BY <2>2, <3>1, <3>2
    <2>4. CASE Plan
        <3>1. inventory' = inventory /\ own' = own
            BY <2>4 DEF Plan
        <3> QED BY <2>1, <3>1
    <2>5. CASE Apply
        <3>1. PICK q \in plan : Wrote("apply", ApplyPlan(inventory, q))
            BY <2>5 DEF Apply
        <3>2. q \in RepackPlan
            <4>1. plan # Absent
                BY DEF Absent
            <4> QED BY <4>1 DEF TypeOK, Present
        <3> DEFINE r == ApplyPlan(inventory, q)
        <3>3. ASSUME r.kind = "written" PROVE \E spec \in PackageSpec : r = Package(spec)
            <4>1. SameInventory(inventory, q)
                BY <3>3 DEF ApplyPlan
            <4> QED BY <2>0, <3>2, <4>1, AppliedPackage
        <3>4. Wrote("apply", r)
            BY <3>1
        <3> HIDE DEF r
        <3> QED BY <2>2, <3>3, <3>4
    <2>6. CASE Exchange
        <3>1. own' = FALSE
            BY <2>6 DEF Exchange
        <3> QED BY <3>1 DEF OwnIsWritten
    <2>7. CASE UNCHANGED vars
        BY <2>1, <2>7 DEF vars
    <2> QED BY <2>3, <2>4, <2>5, <2>6, <2>7 DEF Next
<1>3. OwnIsWritten => WrittenReadsBack
    <2> SUFFICES ASSUME OwnIsWritten, own PROVE ReadBack(inventory)
        BY DEF WrittenReadsBack, ReadBack
    <2>1. PICK spec \in PackageSpec :
              Package(spec).kind = "written" /\ inventory = Package(spec).inventory
        BY DEF OwnIsWritten
    <2> QED BY <2>1, WrittenIsReadBack1
<1> QED BY <1>1, <1>2, <1>3, TypeCorrect, PTL DEF Spec
-----------------------------------------------------------------------------
(* Carrying a plan out.                                                    *)

\* Of S, what is less than n.
Lower(S, n) == {j \in S : j < n}

\* Positions in their order: every one is there, behind as many as are less.
LEMMA OrderOf ==
    ASSUME NEW N \in Nat, NEW S, S \subseteq 1 .. N, NEW s, s = InOrder(S)
    PROVE  /\ IsSequence(s) /\ Len(s) = Cardinality(S) /\ Len(s) \in Nat /\ DOMAIN s = 1 .. Len(s)
           /\ Range(s) = S
           /\ \A n \in S : /\ Cardinality(Lower(S, n)) + 1 \in 1 .. Len(s)
                           /\ s[Cardinality(Lower(S, n)) + 1] = n
<1> DEFINE below(n) == {j \in S : j < n}
           c(n) == Cardinality(below(n))
<1>1. \A X : X \subseteq 1 .. N => IsFiniteSet(X) /\ Cardinality(X) \in Nat
    <2>1. IsFiniteSet(1 .. N)
        BY FS_Interval
    <2> QED BY <2>1, FS_Subset, FS_CardinalityType
<1>2. s \in Seq(S) /\ Len(s) = Cardinality(S) /\ Cardinality(S) \in Nat
    BY InOrderIs
<1>0. \A i \in S : i \in Nat
    OBVIOUS
<1>3. ASSUME NEW n \in S, NEW i \in S, n < i PROVE c(n) + 1 <= c(i)
    <2>1. below(n) \cup {n} \subseteq below(i) /\ n \notin below(n)
        <3>1. n \in Nat /\ i \in Nat /\ ~(n < n)
            BY <1>0
        <3>2. \A j \in S : j < n => j < i
            BY <1>0, <1>3, <3>1
        <3>3. \A j \in below(n) \cup {n} : j \in S /\ j < i
            BY <1>3, <3>2
        <3> QED BY <3>1, <3>3
    <2>2. IsFiniteSet(below(n)) /\ IsFiniteSet(below(i)) /\ c(n) \in Nat /\ c(i) \in Nat
        <3>1. below(n) \subseteq 1 .. N /\ below(i) \subseteq 1 .. N
            OBVIOUS
        <3> HIDE DEF below
        <3> QED BY <1>1, <3>1
    <2> HIDE DEF below
    <2>3. Cardinality(below(n) \cup {n}) = c(n) + 1
        BY <2>1, <2>2, FS_AddElement
    <2>4. Cardinality(below(n) \cup {n}) <= c(i)
        BY <2>1, <2>2, FS_Subset
    <2> QED BY <2>3, <2>4
<1>4. \A n \in S : c(n) \in Nat
    <2> TAKE n \in S
    <2>1. below(n) \subseteq 1 .. N
        OBVIOUS
    <2> HIDE DEF below
    <2> QED BY <1>1, <2>1
<1>5. ASSUME NEW n \in S PROVE c(n) + 1 \in 1 .. Len(s)
    <2>1. below(n) \subseteq S \ {n} /\ IsFiniteSet(S)
        <3>1. ~(n < n)
            BY <1>0
        <3> QED BY <1>1, <3>1
    <2>2. Cardinality(S \ {n}) = Cardinality(S) - 1 /\ IsFiniteSet(S \ {n})
        BY <2>1, FS_RemoveElement
    <2>3. c(n) <= Cardinality(S \ {n})
        <3> HIDE DEF below
        <3> QED BY <2>1, <2>2, FS_Subset
    <2> HIDE DEF c
    <2> QED BY <1>2, <1>4, <2>2, <2>3
<1>6. ASSUME NEW n \in S PROVE s[c(n) + 1] = n
    <2> DEFINE k == c(n) + 1
    <2>1. k \in 1 .. Cardinality(S) /\ k - 1 = c(n)
        BY <1>2, <1>4, <1>5
    <2>2. s[k] = CHOOSE i \in S : c(i) = k - 1
        <3> HIDE DEF k
        <3> QED BY <2>1 DEF InOrder
    <2> HIDE DEF c, k
    <2>3. s[k] \in S /\ c(s[k]) = c(n)
        BY <2>1, <2>2
    <2>4. \A i \in S : i \in Int /\ n \in Int
        OBVIOUS
    <2>5. ~(s[k] < n) /\ ~(n < s[k])
        <3>1. PICK i \in S : i = s[k] /\ c(i) = c(n)
            BY <2>3
        <3>2. c(n) \in Nat /\ ~(c(n) + 1 <= c(n))
            BY <1>4
        <3>3. ~(i < n) /\ ~(n < i)
            BY <1>3, <3>1, <3>2
        <3> QED BY <3>1, <3>3
    <2>6. s[k] = n
        <3>1. PICK i \in S : i = s[k]
            BY <2>3
        <3>2. i \in Int /\ n \in Int /\ ~(i < n) /\ ~(n < i)
            BY <2>4, <2>5, <3>1
        <3> QED BY <3>1, <3>2
    <2> QED BY <2>6 DEF k
<1>7. IsSequence(s) /\ Len(s) \in Nat /\ DOMAIN s = 1 .. Len(s)
    BY <1>2 DEF IsSequence
<1>8. Range(s) = S
    <2>1. \A k \in DOMAIN s : s[k] \in S
        BY <1>2
    <2>2. \A n \in S : \E k \in DOMAIN s : s[k] = n
        <3> HIDE DEF c
        <3> QED BY <1>5, <1>6, <1>7
    <2> QED BY <2>1, <2>2 DEF Range
<1> QED BY <1>2, <1>5, <1>6, <1>7, <1>8 DEF Lower

\* How many stay before one that stays.
LEMMA PositionIs ==
    ASSUME NEW N \in Nat, NEW edit, NEW R, R = Range(edit.remove), R \subseteq 1 .. N,
           NEW S, S = (1 .. N) \ R, NEW n \in S
    PROVE  Position(edit, n) = Cardinality(Lower(S, n)) + 1
<1> DEFINE A == {r \in R : r < n}
           B == {j \in S : j < n}
<1>1. A \cap B = {} /\ A \cup B = 1 .. n - 1
    <2>1. n \in 1 .. N /\ A \cap B = {}
        OBVIOUS
    <2>2. ASSUME NEW j \in A \cup B PROVE j \in 1 .. n - 1
        <3>1. j \in 1 .. N /\ j < n
            OBVIOUS
        <3> QED BY <2>1, <3>1
    <2>3. ASSUME NEW j \in 1 .. n - 1 PROVE j \in A \cup B
        <3>1. j \in 1 .. N /\ j < n
            BY <2>1
        <3> QED BY <3>1
    <2> HIDE DEF A, B
    <2> QED BY <2>1, <2>2, <2>3
<1>2. n \in Nat /\ 1 .. n - 1 \subseteq 1 .. N /\ IsFiniteSet(1 .. N)
    BY FS_Interval
<1>3. IsFiniteSet(A) /\ IsFiniteSet(B)
    <2>1. A \subseteq 1 .. N /\ B \subseteq 1 .. N
        OBVIOUS
    <2> HIDE DEF A, B
    <2> QED BY <1>2, <2>1, FS_Subset
<1>4. Cardinality(1 .. n - 1) = n - 1
    BY <1>2, FS_Interval
<1> HIDE DEF A, B
<1>5. Cardinality(A) \in Nat /\ Cardinality(B) \in Nat /\ Cardinality(A \cap B) = 0
    BY <1>1, <1>3, FS_CardinalityType, FS_EmptySet
<1>6. Cardinality(A \cup B) = Cardinality(A) + Cardinality(B) - Cardinality(A \cap B)
    BY <1>3, FS_Union
<1>7. n - 1 = Cardinality(A) + Cardinality(B)
    <2>1. Cardinality(A \cup B) = n - 1
        BY <1>1, <1>4
    <2> QED BY <1>5, <1>6, <2>1
<1>8. n - Cardinality(A) = Cardinality(B) + 1
    BY <1>2, <1>5, <1>7
<1> QED BY <1>8 DEF A, B, Position, Lower

\* What a plan says of the attachments that stay, S, and of those that are added.
Plans(inv, m, edit, p, S) ==
    /\ S \subseteq 1 .. PayloadCount(inv) /\ S = (1 .. PayloadCount(inv)) \ Range(edit.remove)
    /\ Range(edit.remove) \subseteq 1 .. PayloadCount(inv) /\ PayloadCount(inv) \in Nat
    /\ Cardinality(S) \in Nat /\ Len(edit.add) \in Nat /\ DOMAIN edit.add = 1 .. Len(edit.add)
    /\ IsSequence(p.attachments) /\ Len(p.attachments) = Cardinality(S) + Len(edit.add)
    /\ \A n \in S : /\ Position(edit, n) \in 1 .. Cardinality(S)
                    /\ p.attachments[Position(edit, n)] = PlannedStay(inv, m, edit, n)
    /\ \A k \in 1 .. Len(edit.add) :
          /\ p.added[k] = Cardinality(S) + k
          /\ p.attachments[Cardinality(S) + k] = PlannedNew(edit.add[k])
    /\ Range(p.preserved) = {n \in S : Replacements(edit, n) = {}}
    /\ Range(p.changed) = {n \in S : Replacements(edit, n) # {}}
    /\ Range(p.removed) = Range(edit.remove)

LEMMA BuiltPlans ==
    ASSUME NEW inv, NEW m, NEW edit, Plannable(inv, m, edit), NEW p, p = Built(inv, m, edit)
    PROVE  \E S : Plans(inv, m, edit, p, S)
<1> DEFINE N == PayloadCount(inv)
           R == Range(edit.remove)
           S == (1 .. N) \ R
           kept == Kept(inv, edit)
           stay == [k \in DOMAIN kept |-> PlannedStay(inv, m, edit, kept[k])]
           new == [k \in DOMAIN edit.add |-> PlannedNew(edit.add[k])]
           A == {n \in Range(kept) : ~(Replacements(edit, n) # {})}
           B == {n \in Range(kept) : Replacements(edit, n) # {}}
<1>1. /\ p.preserved = InOrder(A) /\ p.changed = InOrder(B) /\ p.removed = InOrder(R)
      /\ p.added = [k \in DOMAIN edit.add |-> Len(kept) + k]
      /\ p.attachments = stay \o new
    BY DEF Built
<1>2. edit \in PackageEdit /\ N \in Nat
    <2>1. inv \in Inventory /\ edit \in PackageEdit /\ Len(inv) >= 2
        BY DEF Plannable
    <2>2. Len(inv) \in Nat
        BY <2>1, InventoryIs
    <2> QED BY <2>1, <2>2 DEF PayloadCount
<1>3. DOMAIN edit.remove = 1 .. Len(edit.remove) /\ Len(edit.add) \in Nat /\ DOMAIN edit.add = 1 .. Len(edit.add)
    BY <1>2, EditIs
<1>4. R \subseteq 1 .. N
    BY <1>3 DEF Range, Plannable, TargetsFit
<1>5. S \subseteq 1 .. N /\ kept = InOrder(S)
    BY DEF Kept
<1> HIDE DEF N, R, kept
<1>6. /\ IsSequence(kept) /\ Len(kept) = Cardinality(S) /\ Len(kept) \in Nat /\ DOMAIN kept = 1 .. Len(kept)
      /\ Range(kept) = S
      /\ \A n \in S : /\ Cardinality(Lower(S, n)) + 1 \in 1 .. Len(kept)
                      /\ kept[Cardinality(Lower(S, n)) + 1] = n
    <2> HIDE DEF S
    <2> QED BY <1>2, <1>5, OrderOf
<1>7. \A n \in S : Position(edit, n) = Cardinality(Lower(S, n)) + 1
    <2> TAKE n \in S
    <2>1. S = (1 .. N) \ R /\ n \in S /\ R = Range(edit.remove)
        BY DEF R
    <2> HIDE DEF S
    <2> QED BY <1>2, <1>4, <2>1, PositionIs
<1>8. /\ IsSequence(stay) /\ Len(stay) = Len(kept)
      /\ \A k \in 1 .. Len(kept) : stay[k] = PlannedStay(inv, m, edit, kept[k])
    <2>1. stay = [k \in 1 .. Len(kept) |-> stay[k]] /\ \A k \in 1 .. Len(kept) : stay[k] = PlannedStay(inv, m, edit, kept[k])
        BY <1>6
    <2> HIDE DEF stay
    <2> QED BY <1>6, <2>1, SequenceBy
<1>9. /\ IsSequence(new) /\ Len(new) = Len(edit.add)
      /\ \A k \in 1 .. Len(edit.add) : new[k] = PlannedNew(edit.add[k])
    <2>1. new = [k \in 1 .. Len(edit.add) |-> new[k]] /\ \A k \in 1 .. Len(edit.add) : new[k] = PlannedNew(edit.add[k])
        BY <1>3
    <2> HIDE DEF new
    <2> QED BY <1>3, <2>1, SequenceBy
<1> HIDE DEF stay, new
<1>10. /\ IsSequence(stay \o new) /\ Len(stay \o new) = Len(kept) + Len(edit.add)
       /\ \A k \in 1 .. Len(kept) : (stay \o new)[k] = stay[k]
       /\ \A k \in 1 .. Len(edit.add) : (stay \o new)[Len(kept) + k] = new[k]
    <2>1. /\ IsSequence(stay \o new) /\ Len(stay \o new) = Len(stay) + Len(new)
          /\ \A k \in 1 .. Len(stay) : (stay \o new)[k] = stay[k]
          /\ \A k \in 1 .. Len(new) : (stay \o new)[Len(stay) + k] = new[k]
        BY <1>8, <1>9, Joined
    <2> QED BY <1>8, <1>9, <2>1
<1>11. Range(InOrder(A)) = A /\ Range(InOrder(B)) = B /\ Range(InOrder(R)) = R
    <2>1. A \subseteq 1 .. N /\ B \subseteq 1 .. N
        BY <1>5, <1>6
    <2> HIDE DEF A, B
    <2> QED BY <1>2, <1>4, <2>1, OrderOf
<1>12. \A n \in S : /\ Position(edit, n) \in 1 .. Cardinality(S)
                    /\ p.attachments[Position(edit, n)] = PlannedStay(inv, m, edit, n)
    <2> TAKE n \in S
    <2> DEFINE at == Position(edit, n)
    <2>1. at \in 1 .. Len(kept) /\ kept[at] = n
        <3> HIDE DEF S
        <3> QED BY <1>6, <1>7
    <2> HIDE DEF at
    <2>2. p.attachments[at] = PlannedStay(inv, m, edit, n)
        BY <1>1, <1>8, <1>10, <2>1
    <2> QED BY <1>6, <2>1, <2>2 DEF at
<1>13. \A k \in 1 .. Len(edit.add) :
          /\ p.added[k] = Cardinality(S) + k
          /\ p.attachments[Cardinality(S) + k] = PlannedNew(edit.add[k])
    <2> TAKE k \in 1 .. Len(edit.add)
    <2>1. p.added[k] = Len(kept) + k
        BY <1>1, <1>3
    <2>2. p.attachments[Len(kept) + k] = PlannedNew(edit.add[k])
        BY <1>1, <1>9, <1>10
    <2> QED BY <1>6, <2>1, <2>2
<1>14. Range(p.preserved) = {n \in S : Replacements(edit, n) = {}} /\ Range(p.changed) = {n \in S : Replacements(edit, n) # {}}
    BY <1>1, <1>6, <1>11
<1>15. Range(p.removed) = R /\ IsSequence(p.attachments) /\ Len(p.attachments) = Cardinality(S) + Len(edit.add)
    BY <1>1, <1>6, <1>10, <1>11
<1>16. Cardinality(S) \in Nat
    BY <1>6
<1>17. Plans(inv, m, edit, p, S)
    BY <1>2, <1>3, <1>4, <1>12, <1>13, <1>14, <1>15, <1>16, Zenon DEF Plans, S, N, R
<1> QED BY <1>17

\* A replacement is of one that stays, and the only one of it.
LEMMA ReplacedOnce ==
    ASSUME NEW edit \in PackageEdit, NEW n, TargetsFit(edit, n)
    PROVE  /\ \A r \in Range(edit.replace) : r.number \in (1 .. n) \ Range(edit.remove)
           /\ \A r, q \in Range(edit.replace) : r.number = q.number => r = q
           /\ \A k : Replacements(edit, k) # {} => \E r \in Range(edit.replace) : r.number = k /\ Replacements(edit, k) = {r}
<1> DEFINE s == edit.replace
<1>1. DOMAIN edit.remove = 1 .. Len(edit.remove) /\ DOMAIN s = 1 .. Len(s) /\ Len(s) \in Nat
    <2>1. s \in Seq(ReplacementOf) /\ DOMAIN edit.remove = 1 .. Len(edit.remove)
        BY EditIs
    <2> HIDE DEF ReplacementOf, s
    <2> QED BY <2>1
<1>2. ASSUME NEW r \in Range(s) PROVE r.number \in (1 .. n) \ Range(edit.remove)
    <2>1. PICK i \in 1 .. Len(s) : s[i] = r
        BY <1>1 DEF Range
    <2>2. s[i].number \in 1 .. n /\ \A j \in 1 .. Len(edit.remove) : edit.remove[j] # s[i].number
        BY DEF TargetsFit
    <2> QED BY <1>1, <2>1, <2>2 DEF Range
<1>3. ASSUME NEW r \in Range(s), NEW q \in Range(s), r.number = q.number PROVE r = q
    <2>1. PICK i \in 1 .. Len(s), j \in 1 .. Len(s) : s[i] = r /\ s[j] = q
        BY <1>1 DEF Range
    <2>2. \A a, b \in 1 .. Len(s) : b \in 1 .. a - 1 => s[b].number # s[a].number
        BY DEF TargetsFit
    <2>3. i = j
        <3>1. ~(j \in 1 .. i - 1) /\ ~(i \in 1 .. j - 1)
            BY <1>3, <2>1, <2>2
        <3> QED BY <1>1, <3>1
    <2> QED BY <2>1, <2>3
<1>4. ASSUME NEW k, Replacements(edit, k) # {}
      PROVE  \E r \in Range(s) : r.number = k /\ Replacements(edit, k) = {r}
    <2>1. PICK r \in Range(s) : r.number = k
        BY <1>4 DEF Replacements
    <2>2. Replacements(edit, k) = {r}
        BY <1>3, <2>1 DEF Replacements
    <2> QED BY <2>1, <2>2
<1> QED BY <1>2, <1>3, <1>4

\* The name of a payload is the writer's part of it and the file's.
LEMMA PayloadNameJoins ==
    ASSUME NEW i, Decimal[i] \in Text, NEW f \in Text, NEW p, p = PayloadName(i, <<>>)
    PROVE  p \in Text /\ PayloadName(i, f) = p \o f /\ Range(p \o f) = Range(p) \cup Range(f)
<1> DEFINE l == PayloadLocation(i)
           w == <<"/">>
           q == l \o w
<1>1. l \in Text /\ w \in Text
    BY LocationIs, LayoutWords
<1>2. p = q \o <<>> /\ PayloadName(i, f) = q \o f
    BY DEF PayloadName
<1> HIDE DEF l, w
<1>3. q \in Text
    BY <1>1, TextsJoined
<1> HIDE DEF q
<1>4. p = q
    BY <1>2, <1>3
<1>5. p \in Seq(Piece) /\ f \in Seq(Piece)
    BY <1>3, <1>4 DEF Text
<1>6. /\ IsSequence(p) /\ IsSequence(f)
    BY <1>5 DEF IsSequence, Text
<1>7. /\ IsSequence(p \o f) /\ Len(p \o f) = Len(p) + Len(f)
      /\ \A k \in 1 .. Len(p) : (p \o f)[k] = p[k]
      /\ \A k \in 1 .. Len(f) : (p \o f)[Len(p) + k] = f[k]
    BY <1>6, Joined
<1>8. Range(p \o f) = Range(p) \cup Range(f)
    <2> DEFINE x == p \o f
    <2>1. /\ DOMAIN x = 1 .. Len(x) /\ DOMAIN p = 1 .. Len(p) /\ DOMAIN f = 1 .. Len(f)
          /\ Len(p) \in Nat /\ Len(f) \in Nat
        BY <1>6, <1>7 DEF IsSequence, Text
    <2>2. ASSUME NEW k \in 1 .. Len(x) PROVE x[k] \in Range(p) \cup Range(f)
        <3>1. k \in 1 .. Len(p) \/ (k - Len(p) \in 1 .. Len(f) /\ Len(p) + (k - Len(p)) = k)
            BY <1>7, <2>1
        <3>2. CASE k \in 1 .. Len(p)
            BY <1>7, <2>1, <3>2 DEF Range
        <3>3. CASE (k - Len(p) \in 1 .. Len(f) /\ Len(p) + (k - Len(p)) = k)
            <4>1. x[k] = f[k - Len(p)]
                BY <1>7, <3>3
            <4> QED BY <2>1, <3>3, <4>1 DEF Range
        <3> QED BY <3>1, <3>2, <3>3
    <2>3. ASSUME NEW k \in 1 .. Len(p) PROVE p[k] \in Range(x)
        <3>1. k \in DOMAIN x /\ x[k] = p[k]
            BY <1>7, <2>1
        <3> QED BY <3>1 DEF Range
    <2>4. ASSUME NEW k \in 1 .. Len(f) PROVE f[k] \in Range(x)
        <3>1. Len(p) + k \in DOMAIN x /\ x[Len(p) + k] = f[k]
            BY <1>7, <2>1
        <3> QED BY <3>1 DEF Range
    <2> HIDE DEF x
    <2>5. /\ \A z \in Range(x) : \E k \in 1 .. Len(x) : z = x[k]
          /\ \A z \in Range(p) : \E k \in 1 .. Len(p) : z = p[k]
          /\ \A z \in Range(f) : \E k \in 1 .. Len(f) : z = f[k]
        BY <2>1 DEF Range
    <2>6. Range(x) = Range(p) \cup Range(f)
        BY <2>2, <2>3, <2>4, <2>5
    <2> QED BY <2>6 DEF x
<1> QED BY <1>2, <1>3, <1>4, <1>8

\* A name a payload's file can have: one component, of UTF-8.
FileName(f) == f \in Text /\ f # <<>> /\ "/" \notin Range(f) /\ Range(f) \cap NotText = {}

LEMMA PayloadFileBack ==
    ASSUME NEW i, Decimal[i] \in Text, Range(PayloadName(i, <<>>)) \cap NotText = {},
           NEW f, FileName(f), NEW e, e.name = PayloadName(i, f)
    PROVE  PayloadFile(e, i) = {f}
<1>1. f \in Text /\ f # <<>> /\ "/" \notin Range(f) /\ Range(f) \cap NotText = {}
    BY DEF FileName
<1> DEFINE p == PayloadName(i, <<>>)
<1>2. p \in Text /\ e.name = p \o f /\ Range(p \o f) = Range(p) \cup Range(f)
    BY <1>1, PayloadNameJoins
<1>3. Range(p) \cap NotText = {}
    OBVIOUS
<1>4. PayloadFile(e, i) = IF /\ IsPrefix(p, e.name) /\ SubSeq(e.name, Len(p) + 1, Len(e.name)) # <<>>
                             /\ "/" \notin Range(SubSeq(e.name, Len(p) + 1, Len(e.name)))
                             /\ Range(e.name) \cap NotText = {}
                          THEN {SubSeq(e.name, Len(p) + 1, Len(e.name))} ELSE Absent
    BY DEF PayloadFile, Present
<1> HIDE DEF p
<1>5. IsPrefix(p, p \o f) /\ SubSeq(p \o f, Len(p) + 1, Len(p \o f)) = f
    <2>1. IsSequence(p) /\ IsSequence(f) /\ Len(p) \in Nat
        BY <1>1, <1>2 DEF IsSequence, Text
    <2> QED BY <2>1, RestIs
<1> QED BY <1>1, <1>2, <1>3, <1>4, <1>5

LEMMA PayloadFileHas ==
    ASSUME NEW i, Decimal[i] \in Text, NEW e, e.name \in Text, PayloadFile(e, i) # Absent,
           NEW f, f = The(PayloadFile(e, i))
    PROVE  FileName(f) /\ e.name = PayloadName(i, f) /\ PayloadFile(e, i) = {f}
<1> DEFINE p == PayloadName(i, <<>>)
           g == SubSeq(e.name, Len(p) + 1, Len(e.name))
<1>1. /\ IsPrefix(p, e.name) /\ g # <<>> /\ "/" \notin Range(g) /\ Range(e.name) \cap NotText = {}
      /\ PayloadFile(e, i) = {g}
    BY DEF PayloadFile, Present
<1>2. f = g
    BY <1>1, TheOne
<1>3. f \in Text
    BY PayloadFileIs
<1>4. p \in Text
    BY <1>3, PayloadNameJoins
<1>5. e.name = p \o g
    <2>1. IsSequence(p) /\ IsSequence(e.name) /\ Len(p) \in Nat
        BY <1>4 DEF IsSequence, Text
    <2> HIDE DEF p
    <2> QED BY <1>1, <2>1, PrefixIs
<1>6. PayloadName(i, f) = p \o f /\ Range(p \o f) = Range(p) \cup Range(f)
    BY <1>3, PayloadNameJoins
<1>7. Range(f) \cap NotText = {}
    <2> HIDE DEF p, g
    <2> QED BY <1>1, <1>2, <1>5, <1>6
<1> HIDE DEF p, g
<1> QED BY <1>1, <1>2, <1>3, <1>5, <1>6, <1>7 DEF FileName

\* A name that package() does not refuse, of UTF-8, is one.
LEMMA NameIsFileName ==
    ASSUME NEW f \in Text, NameFault(f) = {}, Range(f) \cap NotText = {}
    PROVE  FileName(f)
<1>1. f # <<>> /\ \A k \in 1 .. Len(f) : f[k] # "/"
    BY NameIsFile
<1>2. DOMAIN f = 1 .. Len(f)
    OBVIOUS
<1> QED BY <1>1, <1>2 DEF FileName, Range

\* A package as archive::inventory() accepts one, its document as it is read.
Genuine(inv) ==
    /\ inv \in Inventory
    /\ \A i \in 1 .. Len(inv) : inv[i].crc32 = Crc32(inv[i].content)
    /\ Len(inv) >= 2 /\ inv[2].content.kind = "document" =>
          inv[2].content.reading = Verdict(inv[2].content.events)

\* What apply() takes of an attachment that is planned, in package `at`.
Input(at, x) ==
    [file_name |-> x.file_name,
     content |-> IF x.source.kind = "preserved" THEN at[x.source.entry].content
                 ELSE x.source.content,
     description |-> x.description, quantity |-> x.quantity, quantity_unit |-> x.quantity_unit]

\* That `to` is what apply() wrote of p in package `at`, with the request it made of it.
Carried(at, p, spec, to) ==
    /\ Wrote1(to, spec, Len(p.attachments)) /\ spec.metadata = p.metadata
    /\ \A i \in 1 .. Len(p.attachments) :
          /\ spec.attachments[i] = Input(at, p.attachments[i])
          /\ p.attachments[i].source.kind = "preserved" =>
                LET s == p.attachments[i].source
                IN  s.entry \in 1 .. Len(at) /\ at[s.entry].crc32 = s.crc32

LEMMA AppliedCarries ==
    ASSUME NEW at \in Inventory, NEW p \in RepackPlan, NEW r, r = ApplyPlan(at, p),
           r.kind = "written"
    PROVE  \E spec \in PackageSpec : Carried(at, p, spec, r.inventory)
<1> DEFINE n == Len(p.attachments)
           s == Inputs(at, p)
           spec == [metadata |-> p.metadata, attachments |-> s]
<1>1. SameInventory(at, p) /\ r = Package(spec)
    <2>1. ApplyPlan(at, p) = IF SameInventory(at, p) THEN Package(spec)
                             ELSE [kind |-> "refused", code |-> "repack.invalid.inventory_mismatch"]
        BY Zenon DEF ApplyPlan
    <2> HIDE DEF spec
    <2> QED BY <2>1
<1>2. p.attachments \in Seq(Planned) /\ p.metadata \in Metadata
    BY DEF RepackPlan
<1>3. n \in Nat /\ DOMAIN p.attachments = 1 .. n
    <2> HIDE DEF Planned
    <2> QED BY <1>2
<1>4. s = [i \in 1 .. n |-> s[i]] /\ \A i \in 1 .. n : s[i] = Input(at, p.attachments[i])
    BY <1>3 DEF Inputs, Input
<1>5. \A i \in 1 .. n : s[i] \in Attachment
    BY <1>1, InputIs
<1>6. DOMAIN at = 1 .. Len(at)
    BY InventoryIs
<1>7. \A i \in 1 .. n : p.attachments[i].source.kind = "preserved" =>
          LET x == p.attachments[i].source
          IN  x.entry \in 1 .. Len(at) /\ at[x.entry].crc32 = x.crc32
    BY <1>1, <1>3, <1>6 DEF SameInventory
<1> HIDE DEF s
<1>8. s \in Seq(Attachment) /\ Len(s) = n
    <2> HIDE DEF Attachment
    <2> QED BY <1>3, <1>4, <1>5
<1>9. spec \in PackageSpec /\ spec.attachments = s /\ spec.metadata = p.metadata
    BY <1>2, <1>8 DEF PackageSpec
<1> HIDE DEF spec
<1>10. PICK k : Wrote1(r.inventory, spec, k)
    BY <1>1, <1>9, PackageWrote
<1>11. k = n
    <2>1. Sent(spec, k)
        BY <1>10 DEF Wrote1
    <2>2. k = Len(spec.attachments)
        BY <2>1 DEF Sent
    <2> QED BY <1>8, <1>9, <2>2
<1>12. Carried(at, p, spec, r.inventory)
    BY <1>4, <1>7, <1>9, <1>10, <1>11, Zenon DEF Carried
<1> QED BY <1>9, <1>12

\* The entries of what apply() wrote.
Entered(at, p, spec, to, n) ==
    /\ n \in Nat /\ n <= Ceiling(MaxEntries, Word16) - 2 /\ Ceiling(MaxEntries, Word16) \in Nat
    /\ Len(to) = n + 2 /\ IsSequence(to)
    /\ \A i \in 1 .. n :
          /\ to[i + 2] = Entry(PayloadName(i, p.attachments[i].file_name),
                               Input(at, p.attachments[i]).content)
          /\ Decimal[i] \in Text /\ Range(PayloadName(i, <<>>)) \cap NotText = {}
          /\ spec.attachments[i] = Input(at, p.attachments[i])

LEMMA CarriedEntries ==
    ASSUME NEW at, NEW p, NEW spec, NEW to, Carried(at, p, spec, to)
    PROVE  Entered(at, p, spec, to, Len(p.attachments))
<1> DEFINE n == Len(p.attachments)
<1> HIDE DEF n
<1>1. /\ Sent(spec, n) /\ LaidOut(to, spec, n)
      /\ \A i \in 1 .. n : spec.attachments[i] = Input(at, p.attachments[i])
    BY DEF Carried, Wrote1, n
<1>2. /\ n \in Nat /\ Ceiling(MaxEntries, Word16) \in Nat /\ n <= Ceiling(MaxEntries, Word16) - 2
      /\ \A k \in 0 .. n : k \in 0 .. Ceiling(MaxEntries, Word16) - 2
    <2>1. n <= Ceiling(MaxEntries, Word16) - 2
        BY <1>1 DEF Sent
    <2> QED BY <1>1, <2>1, SentIs
<1>3. Len(to) = n + 2 /\ IsSequence(to) /\ \A i \in 1 .. n : to[i + 2] = PayloadEntry(spec, i)
    BY <1>1 DEF LaidOut
<1>4. ASSUME NEW i \in 1 .. n
      PROVE  /\ to[i + 2] = Entry(PayloadName(i, p.attachments[i].file_name),
                                  Input(at, p.attachments[i]).content)
             /\ Decimal[i] \in Text /\ Range(PayloadName(i, <<>>)) \cap NotText = {}
    <2> DEFINE x == Input(at, p.attachments[i])
    <2>1. x.file_name = p.attachments[i].file_name
        BY DEF Input
    <2> HIDE DEF x
    <2>2. spec.attachments[i] = x /\ to[i + 2] = PayloadEntry(spec, i)
        BY <1>1, <1>3 DEF x
    <2>3. to[i + 2] = Entry(PayloadName(i, p.attachments[i].file_name), x.content)
        BY <2>1, <2>2 DEF PayloadEntry
    <2>4. i \in 0 .. Ceiling(MaxEntries, Word16) - 2 /\ i \in 1 .. Ceiling(MaxEntries, Word16) - 2
        BY <1>2
    <2>5. Decimal[i] \in Text /\ Range(PayloadName(i, <<>>)) \cap NotText = {}
        BY <2>4, NumbersAssumption, TextAssumption
    <2> QED BY <2>3, <2>5 DEF x
<1> QED BY <1>1, <1>2, <1>3, <1>4, Zenon DEF Entered, n

\* Its references, as its document is read.
LEMMA CarriedReferences ==
    ASSUME NEW inv, NEW spec, NEW n, Wrote1(inv, spec, n), Parsed(inv[2].content).kind = "accepted",
           NEW i \in 1 .. n
    PROVE  /\ Attachments(Parsed(inv[2].content).value)[i]
                = ReferenceAgain(References(spec.attachments)[i])
<1> DEFINE r == References(spec.attachments)
           q == [k \in 1 .. Len(r) |-> ReferenceAgain(r[k])]
           v == Derived(spec)
           w == MetadataAgain(v)
           c == inv[2].content
           y == Parsed(c)
<1>1. Sent(spec, n)
    BY DEF Wrote1
<1>2. n \in Nat /\ Listed1(r, spec.attachments, n) /\ Holding(v, r, n)
    BY <1>1, SentIs, ReferencesListed, DerivedHas
<1>3. y.kind = "accepted" /\ y.value = w
    <2>1. \/ y.kind = "refused" /\ y.codes \subseteq TooLarge
          \/ /\ y.kind = "accepted" /\ y.value = MetadataAgain(v)
             /\ Serialised(y.value) = c.events
        <3> HIDE DEF v, c
        <3>1. c = inv[2].content /\ v = Derived(spec)
            BY DEF c, v
        <3> QED BY <3>1, WrittenIsRead
    <2> HIDE DEF y
    <2>2. y.kind = "accepted"
        BY DEF y
    <2> QED BY <2>1, <2>2
<1> HIDE DEF r, v
<1>4. Len(r) = n /\ IsSequence(r)
    <2>1. r \in Seq(AttachmentReference) /\ Len(r) = n
        BY <1>2 DEF Listed1
    <2> QED BY <2>1 DEF IsSequence
<1>5. IsSequence(q) /\ Len(q) = n /\ \A k \in 1 .. n : q[k] = ReferenceAgain(r[k])
    <2>1. q = [k \in 1 .. n |-> q[k]] /\ \A k \in 1 .. n : q[k] = ReferenceAgain(r[k])
        BY <1>4
    <2> HIDE DEF q
    <2> QED BY <1>2, <2>1, SequenceBy
<1>6. Carrying(w, q, n)
    BY <1>2, <1>4, CarriedAgain
<1> HIDE DEF q, w, y
<1>7. Attachments(w) = q
    BY <1>5, <1>6, HeldAttachments
<1> QED BY <1>3, <1>5, <1>7 DEF y, r

\* A document of which every part the writer writes is read: one dispatch at
\* most, which declares as many attachments as it lists.
Single(m, r) ==
    /\ m \in Metadata /\ HeaderOnce(m.header) /\ m.unknown_elements = 0
    /\ ~m.receipt_present /\ ~m.openings_present /\ ~m.return_receipt_present
    /\ r = Attachments(m) /\ r \in Seq(AttachmentReference)
    /\ \A i \in 1 .. Len(r) : ReferenceOnce(r[i])
    /\ \/ m.dispatches = <<>> /\ r = <<>>
       \/ \E D \in Dispatch : /\ Only(m.dispatches, D) /\ DispatchOnce(D)
                              /\ D.attachments = r /\ D.declared_attachment_count = {Len(r)}

LEMMA OneListed ==
    ASSUME NEW v, NEW D, Only(v.dispatches, D), IsSequence(D.attachments)
    PROVE  Attachments(v) = D.attachments
<1> DEFINE ds == v.dispatches
           s == [i \in DOMAIN ds |-> ds[i].attachments]
           r == D.attachments
<1>1. DOMAIN ds = 1 .. 1 /\ ds[1] = D
    BY DEF Only
<1>2. Attachments(v) = FlattenSeq(s)
    BY DEF Attachments
<1> HIDE DEF ds
<1>3. s = [i \in 1 .. 1 |-> r]
    <2>1. \A i \in 1 .. 1 : ds[i].attachments = r
        BY <1>1
    <2> QED BY <1>1, <2>1
<1> HIDE DEF s, r
<1>4. IsSequence(r)
    BY DEF r
<1>5. FlattenSeq(s) = r
    BY <1>3, <1>4, FlattenOne
<1> QED BY <1>2, <1>5 DEF r

LEMMA NoneListed ==
    ASSUME NEW v, v.dispatches = <<>>
    PROVE  Attachments(v) = <<>>
<1> DEFINE s == [i \in DOMAIN v.dispatches |-> v.dispatches[i].attachments]
<1>1. Len(s) = 0 /\ Attachments(v) = FlattenSeq(s)
    BY DEF Attachments
<1> HIDE DEF s
<1>2. FlattenSeq(s) = <<>>
    BY <1>1 DEF FlattenSeq
<1> QED BY <1>1, <1>2

LEMMA ReproducibleClear ==
    ASSUME NEW m, Clear(ReproducibleChecks(m))
    PROVE  /\ m.unknown_elements = 0 /\ ~m.receipt_present /\ ~m.openings_present
           /\ ~m.return_receipt_present /\ ~(Len(m.dispatches) > 1)
           /\ ~ \E d \in Range(m.dispatches) : d.handling_instructions_unqualified
<1> DEFINE A == When(m.unknown_elements # 0, "repack.unsupported.unknown_elements")
           B == When(\/ m.receipt_present \/ m.openings_present \/ m.return_receipt_present
                     \/ \E d \in Range(m.dispatches) : d.handling_instructions_unqualified,
                     "repack.unsupported.opaque_block")
           C == When(Len(m.dispatches) > 1, "repack.unsupported.dispatch_count")
<1>1. ReproducibleChecks(m) = <<A, B, C>>
    BY Zenon DEF ReproducibleChecks
<1> HIDE DEF A, B, C
<1>2. A = {} /\ B = {} /\ C = {}
    BY <1>1 DEF Clear
<1> USE DEF A, B, C
<1>3. ~(m.unknown_elements # 0)
    BY <1>2, WhenIs
<1>4. ~(Len(m.dispatches) > 1)
    BY <1>2, WhenIs
<1>5. ~(\/ m.receipt_present \/ m.openings_present \/ m.return_receipt_present
        \/ \E d \in Range(m.dispatches) : d.handling_instructions_unqualified)
    BY <1>2, WhenIs
<1> QED BY <1>3, <1>4, <1>5

LEMMA MadeReads ==
    ASSUME NEW inv, Genuine(inv), NEW edit, NEW p, Made(inv, edit, p),
           NEW m, m = Parsed(inv[2].content).value
    PROVE  /\ Single(m, Attachments(m)) /\ Plannable(inv, m, edit) /\ p = Built(inv, m, edit)
           /\ Parsed(inv[2].content).kind = "accepted"
           /\ inv[2].content.kind = "document" /\ inv[2].content.events \in Seq(Event)
           /\ inv[2].content.reading = Verdict(inv[2].content.events)
<1> DEFINE c == inv[2].content
           r == Attachments(m)
           ds == m.dispatches
<1>1. /\ Parsed(c).kind # "refused" /\ Plannable(inv, m, edit) /\ p = Built(inv, m, edit)
      /\ Clear(ReproducibleChecks(m))
    BY Zenon DEF Made
<1>2. inv \in Inventory /\ m \in Metadata /\ Len(inv) >= 2 /\ Agrees(inv, m)
    BY <1>1 DEF Plannable
<1>3. c.kind = "document" /\ Parsed(c) = c.reading
    <2> HIDE DEF c
    <2> QED BY <1>1 DEF Parsed
<1>4. c.reading = Verdict(c.events)
    BY <1>2, <1>3 DEF Genuine
<1>5. c \in EntryContent
    <2>1. Len(inv) \in Nat
        BY <1>2, InventoryIs
    <2>2. 2 \in 1 .. Len(inv)
        BY <1>2, <2>1
    <2> QED BY <1>2, <2>2, InventoryIs
<1>6. c.events \in Seq(Event)
    <2> HIDE DEF c
    <2> QED BY <1>3, <1>5 DEF EntryContent
<1>7. Verdict(c.events) = Parsed(c)
    <2> HIDE DEF c
    <2> QED BY <1>3, <1>4
<1>8. Parsed(c).kind = "accepted"
    <2>1. Verdict(c.events) \in Reading
        BY <1>6, VerdictIsReading
    <2>2. \A x \in Reading : x.kind \in {"accepted", "refused"}
        BY DEF Reading
    <2> HIDE DEF c
    <2> QED BY <1>1, <1>7, <2>1, <2>2
<1>9. SaidOnce(m)
    <2>1. m = Parsed(c).value
        OBVIOUS
    <2> HIDE DEF c
    <2>2. Verdict(c.events).kind = "accepted" /\ Verdict(c.events).value = m
        BY <1>7, <1>8, <2>1
    <2> QED BY <1>6, <2>2, AcceptedSaysOnce
<1> HIDE DEF c
<1>10. HeaderOnce(m.header) /\ \A k \in 1 .. Len(ds) : DispatchOnce(ds[k])
    BY <1>9 DEF SaidOnce
<1>11. /\ m.unknown_elements = 0 /\ ~m.receipt_present /\ ~m.openings_present
       /\ ~m.return_receipt_present /\ ~(Len(ds) > 1)
    BY <1>1, ReproducibleClear
<1>12. r \in Seq(AttachmentReference)
    BY <1>2, AttachmentsTyped
<1>13. ds \in Seq(Dispatch)
    BY <1>2 DEF Metadata
<1>14. /\ \/ ds = <<>> /\ r = <<>>
          \/ \E D \in Dispatch : /\ Only(ds, D) /\ DispatchOnce(D)
                                 /\ D.attachments = r /\ D.declared_attachment_count = {Len(r)}
       /\ \A i \in 1 .. Len(r) : ReferenceOnce(r[i])
    <2>1. ds = <<>> \/ \E D \in Dispatch : ds = <<D>>
        <3> HIDE DEF ds, Dispatch
        <3>1. Len(ds) = 0 \/ Len(ds) = 1
            <4>1. Len(ds) \in Nat
                BY <1>13
            <4>2. ~(Len(ds) > 1)
                BY <1>11, Zenon
            <4> QED BY <4>1, <4>2
        <3>2. CASE Len(ds) = 0
            BY <1>13, <3>2
        <3>3. CASE Len(ds) = 1
            <4>1. ds = <<ds[1]>> /\ ds[1] \in Dispatch
                BY <1>13, <3>3
            <4> QED BY <4>1
        <3> QED BY <3>1, <3>2, <3>3
    <2>2. CASE ds = <<>>
        <3>1. r = <<>>
            BY <2>2, NoneListed
        <3> HIDE DEF r, ds
        <3> QED BY <2>2, <3>1
    <2>3. ASSUME NEW D \in Dispatch, ds = <<D>>
          PROVE  /\ Only(ds, D) /\ DispatchOnce(D)
                 /\ D.attachments = r /\ D.declared_attachment_count = {Len(r)}
                 /\ \A i \in 1 .. Len(r) : ReferenceOnce(r[i])
        <3>1. Len(ds) = 1 /\ ds[1] = D /\ D \in Range(ds)
            BY <2>3 DEF Range
        <3>2. Only(ds, D) /\ DispatchOnce(D)
            BY <1>10, <2>3, <3>1 DEF Only
        <3>3. IsSequence(D.attachments)
            BY DEF Dispatch, IsSequence
        <3>4. r = D.attachments
            BY <3>2, <3>3, OneListed
        <3>5. D.declared_attachment_count = {Len(r)}
            BY <1>2, <3>1 DEF Agrees
        <3>6. \A i \in 1 .. Len(r) : ReferenceOnce(r[i])
            BY <3>2, <3>4 DEF DispatchOnce
        <3> QED BY <3>2, <3>4, <3>5, <3>6
    <2> HIDE DEF ds, r, Dispatch
    <2> QED BY <2>1, <2>2, <2>3
<1>15. Single(m, r)
    BY <1>2, <1>10, <1>11, <1>12, <1>14, Zenon DEF Single
<1> QED BY <1>1, <1>3, <1>4, <1>6, <1>8, <1>15, Zenon DEF c

\* A plan that was made of package `from`, and what apply() wrote of it in `at`.
Planned1(from, edit, p, m, S, n) ==
    /\ Plannable(from, m, edit) /\ Single(m, Attachments(m)) /\ Plans(from, m, edit, p, S)
    /\ Parsed(from[2].content).value = m /\ n = Len(p.attachments)
Written1(at, p, spec, to, n) ==
    /\ Genuine(at) /\ Carried(at, p, spec, to) /\ n = Len(p.attachments)

\* Of an attachment that stays: what was planned of it.
StayFound(from, m, edit, n, f) ==
    /\ PayloadFile(from[n + 2], n) = {f} /\ FileName(f)
    /\ Attachments(m)[n] \in AttachmentReference /\ ReferenceOnce(Attachments(m)[n])
    /\ Attachments(m)[n].file_name = f
    /\ PlannedStay(from, m, edit, n).file_name = f
    /\ Replacements(edit, n) = {} =>
          PlannedStay(from, m, edit, n).source = [kind |-> "preserved", entry |-> n + 2, crc32 |-> from[n + 2].crc32]
    /\ Replacements(edit, n) # {} =>
          \E r \in Range(edit.replace) :
              /\ r.number = n /\ Replacements(edit, n) = {r}
              /\ PlannedStay(from, m, edit, n).source = Supplied(r.content)

LEMMA StayIsFound ==
    ASSUME NEW from, NEW m, NEW edit, Plannable(from, m, edit), Single(m, Attachments(m)),
           NEW n \in 1 .. PayloadCount(from)
    PROVE  \E f : StayFound(from, m, edit, n, f)
<1> DEFINE pay == Payload(from, n)
           e == from[n + 2]
           f == The(PayloadFile(e, n))
           r == Attachments(m)
           R == Replacements(edit, n)
           x == PlannedStay(from, m, edit, n)
<1>1. /\ from \in Inventory /\ edit \in PackageEdit /\ Len(from) >= 2 /\ Agrees(from, m)
      /\ \A i \in 3 .. Len(from) : PayloadFile(from[i], i - 2) # Absent
      /\ TargetsFit(edit, PayloadCount(from))
    BY DEF Plannable
<1>2. Len(from) \in Nat /\ n \in 0 .. Len(from) - 2 /\ n + 2 \in 1 .. Len(from) /\ n + 2 \in 3 .. Len(from) /\ (n + 2) - 2 = n
    <2>1. Len(from) \in Nat
        BY <1>1, InventoryIs
    <2> QED BY <1>1, <2>1 DEF PayloadCount
<1>3. Decimal[n] \in Text /\ e.name \in Text
    BY <1>1, <1>2, InventoryIs
<1>4. PayloadFile(e, n) # Absent
    <2>1. PayloadFile(from[n + 2], (n + 2) - 2) # Absent
        BY <1>1, <1>2
    <2> QED BY <1>2, <2>1
<1>5. FileName(f) /\ PayloadFile(e, n) = {f}
    <2> HIDE DEF e
    <2> QED BY <1>3, <1>4, PayloadFileHas
<1>6. pay.file_name = f /\ pay.entry = n + 2 /\ pay.crc32 = e.crc32
    BY DEF Payload
<1>7. n \in 1 .. Len(r) /\ r[n].file_name = pay.file_name
    BY <1>1 DEF Agrees
<1>8. r[n] \in AttachmentReference /\ ReferenceOnce(r[n])
    <2>1. r \in Seq(AttachmentReference) /\ \A i \in 1 .. Len(r) : ReferenceOnce(r[i])
        BY DEF Single
    <2> HIDE DEF r, AttachmentReference
    <2> QED BY <1>7, <2>1
<1>9. x.file_name = pay.file_name /\ x.source = IF R = {} THEN Preserved(pay) ELSE Supplied(The(R).content)
    BY DEF PlannedStay
<1>10. Preserved(pay) = [kind |-> "preserved", entry |-> n + 2, crc32 |-> e.crc32]
    BY <1>6 DEF Preserved
<1>11. R # {} => \E y \in Range(edit.replace) : y.number = n /\ R = {y}
    BY <1>1, ReplacedOnce
<1> HIDE DEF pay, f, r, R, x
<1>12. ASSUME R # {}
       PROVE  \E y \in Range(edit.replace) : y.number = n /\ R = {y} /\ x.source = Supplied(y.content)
    <2>1. PICK y \in Range(edit.replace) : y.number = n /\ R = {y}
        BY <1>11, <1>12
    <2>2. The(R) = y
        BY <2>1, TheOne
    <2> QED BY <1>9, <1>12, <2>1, <2>2
<1>13. R = {} => x.source = [kind |-> "preserved", entry |-> n + 2, crc32 |-> e.crc32]
    BY <1>9, <1>10
<1>14. r[n].file_name = f /\ x.file_name = f
    BY <1>6, <1>7, <1>9
<1>15. StayFound(from, m, edit, n, f)
    BY <1>5, <1>8, <1>12, <1>13, <1>14, Zenon DEF StayFound, e, r, R, x
<1> QED BY <1>15

\* A reference, written anew.
Renewed(a, number, location, size_text, size_value) ==
    [a EXCEPT !.number = number, !.location = location, !.size_text = size_text,
              !.size_value = size_value]

LEMMA ReferenceChanged ==
    ASSUME NEW a \in AttachmentReference, NEW number, NEW location, NEW size_text, NEW size_value
    PROVE  Renewed(a, number, location, size_text, size_value)
              = [description |-> a.description, number |-> number, file_name |-> a.file_name,
                 size_text |-> size_text, size_value |-> size_value, location |-> location,
                 quantity |-> a.quantity, quantity_unit |-> a.quantity_unit]
<1>1. a = [description |-> a.description, number |-> a.number, file_name |-> a.file_name,
           size_text |-> a.size_text, size_value |-> a.size_value, location |-> a.location,
           quantity |-> a.quantity, quantity_unit |-> a.quantity_unit]
    BY DEF AttachmentReference
<1> DEFINE x == [a EXCEPT !.number = number]
           y == [x EXCEPT !.location = location]
           z == [y EXCEPT !.size_text = size_text]
           w == [z EXCEPT !.size_value = size_value]
<1>2. x = [description |-> a.description, number |-> number, file_name |-> a.file_name,
           size_text |-> a.size_text, size_value |-> a.size_value, location |-> a.location,
           quantity |-> a.quantity, quantity_unit |-> a.quantity_unit]
    BY <1>1
<1> HIDE DEF x
<1>3. y = [description |-> a.description, number |-> number, file_name |-> a.file_name,
           size_text |-> a.size_text, size_value |-> a.size_value, location |-> location,
           quantity |-> a.quantity, quantity_unit |-> a.quantity_unit]
    BY <1>2
<1> HIDE DEF y
<1>4. z = [description |-> a.description, number |-> number, file_name |-> a.file_name,
           size_text |-> size_text, size_value |-> a.size_value, location |-> location,
           quantity |-> a.quantity, quantity_unit |-> a.quantity_unit]
    BY <1>3
<1> HIDE DEF z
<1>5. w = [description |-> a.description, number |-> number, file_name |-> a.file_name,
           size_text |-> size_text, size_value |-> size_value, location |-> location,
           quantity |-> a.quantity, quantity_unit |-> a.quantity_unit]
    BY <1>4
<1> QED BY <1>5 DEF x, y, z, w, Renewed

\* And what was written of it.
LEMMA StayIsCarried ==
    ASSUME NEW from, NEW m, NEW edit, NEW p, NEW S, NEW at, NEW spec, NEW to, NEW k,
           Planned1(from, edit, p, m, S, k), Written1(at, p, spec, to, k), NEW n \in S,
           Parsed(to[2].content).kind = "accepted"
    PROVE  Stays(from, to, edit, n)
<1> DEFINE j == Position(edit, n)
           x == p.attachments[j]
           a == Input(at, x)
           before == Attachments(m)[n]
           after == Attachments(Parsed(to[2].content).value)[j]
           R == Replacements(edit, n)
           given == {r.content : r \in {r \in Range(edit.replace) : r.number = n}}
           e == to[j + 2]
<1>1. /\ Plannable(from, m, edit) /\ Single(m, Attachments(m)) /\ Plans(from, m, edit, p, S)
      /\ Parsed(from[2].content).value = m /\ k = Len(p.attachments)
      /\ Genuine(at) /\ Carried(at, p, spec, to)
    BY DEF Planned1, Written1
<1>2. n \in 1 .. PayloadCount(from) /\ j \in 1 .. k /\ x = PlannedStay(from, m, edit, n)
    <2>1. /\ S \subseteq 1 .. PayloadCount(from) /\ Cardinality(S) \in Nat /\ Len(edit.add) \in Nat
          /\ k = Cardinality(S) + Len(edit.add) /\ j \in 1 .. Cardinality(S) /\ x = PlannedStay(from, m, edit, n)
        BY <1>1 DEF Plans
    <2> HIDE DEF j, x
    <2> QED BY <2>1
<1>3. PICK f : StayFound(from, m, edit, n, f)
    BY <1>1, <1>2, StayIsFound
<1>4. /\ k \in Nat /\ e = Entry(PayloadName(j, x.file_name), a.content) /\ Decimal[j] \in Text
      /\ Range(PayloadName(j, <<>>)) \cap NotText = {} /\ spec.attachments[j] = a
    <2>1. /\ k \in Nat
          /\ \A i \in 1 .. k :
                 /\ to[i + 2] = Entry(PayloadName(i, p.attachments[i].file_name),
                                      Input(at, p.attachments[i]).content)
                 /\ Decimal[i] \in Text /\ Range(PayloadName(i, <<>>)) \cap NotText = {}
                 /\ spec.attachments[i] = Input(at, p.attachments[i])
        <3>1. Carried(at, p, spec, to) /\ k = Len(p.attachments)
            BY <1>1
        <3>2. Entered(at, p, spec, to, k)
            BY <3>1, CarriedEntries
        <3> QED BY <3>2 DEF Entered
    <2> HIDE DEF j
    <2> QED BY <1>2, <2>1
<1>5. /\ a.file_name = x.file_name /\ a.description = x.description /\ a.quantity = x.quantity
      /\ a.quantity_unit = x.quantity_unit
      /\ a.content = IF x.source.kind = "preserved" THEN at[x.source.entry].content ELSE x.source.content
    BY DEF Input
<1>6. /\ x.description = before.description /\ x.quantity = before.quantity
      /\ x.quantity_unit = before.quantity_unit
    <2> HIDE DEF x
    <2> QED BY <1>2 DEF PlannedStay
<1>7. /\ e.name = PayloadName(j, x.file_name) /\ e.content = a.content /\ e.crc32 = Crc32(a.content)
    <2> HIDE DEF e, x, a, j
    <2> QED BY <1>4 DEF Entry
<1>8. after = ReferenceAgain(References(spec.attachments)[j])
    <2>1. Wrote1(to, spec, k)
        BY <1>1 DEF Carried
    <2> HIDE DEF j
    <2> QED BY <1>2, <2>1, CarriedReferences
<1>9. Sent(spec, k)
    BY <1>1 DEF Carried, Wrote1
<1>10. DOMAIN spec.attachments = 1 .. k /\ a \in Attachment /\ Size(a.content) <= Ceiling(MaxEntry, Word32)
    <2>1. spec.attachments \in Seq(Attachment) /\ k = Len(spec.attachments)
        BY <1>9, SentIs DEF Sent
    <2>2. Size(spec.attachments[j].content) <= Ceiling(MaxEntry, Word32)
        <3> HIDE DEF j
        <3> QED BY <1>2, <1>9 DEF Sent
    <2> HIDE DEF j, a, Attachment
    <2> QED BY <1>2, <1>4, <2>1, <2>2
<1> HIDE DEF j, x, a, e, after, before, R, given
<1>11. DeclaredKilobytes(Size(a.content)) \in Text \cap Finite
    <2>1. a.content \in EntryContent
        BY <1>10 DEF Attachment
    <2>2. Size(a.content) \in Nat
        BY <2>1, SizeIs
    <2>3. Ceiling(MaxEntry, Word32) \in Nat
        BY CeilingIs, CreationAssumption
    <2>4. Size(a.content) \in 0 .. Ceiling(MaxEntry, Word32)
        BY <1>10, <2>2, <2>3
    <2> QED BY <2>4, NumbersAssumption
<1>12. References(spec.attachments)[j] =
            [description |-> a.description, number |-> j, file_name |-> a.file_name,
             size_text |-> DeclaredKilobytes(Size(a.content)), size_value |-> TRUE,
             location |-> PayloadLocation(j), quantity |-> a.quantity,
             quantity_unit |-> a.quantity_unit]
    <2>1. (DeclaredKilobytes(Size(a.content)) \in Finite) = TRUE
        BY <1>11
    <2> QED BY <1>2, <1>4, <1>10, <2>1 DEF References
<1>13. /\ before \in AttachmentReference /\ ReferenceOnce(before) /\ before.file_name = f
       /\ x.file_name = f /\ FileName(f)
       /\ PayloadFile(from[n + 2], n) = {f}
    BY <1>2, <1>3 DEF StayFound, x, before
<1>14. /\ OneOf(a.description) = before.description /\ OneOf(a.quantity) = before.quantity
       /\ OneOf(a.quantity_unit) = before.quantity_unit
    BY <1>5, <1>6, <1>13 DEF ReferenceOnce, Once
<1>15. after = [description |-> before.description, number |-> j, file_name |-> before.file_name,
                size_text |-> DeclaredKilobytes(Size(e.content)), size_value |-> TRUE,
                location |-> PayloadLocation(j), quantity |-> before.quantity,
                quantity_unit |-> before.quantity_unit]
    <2>1. after = [description |-> OneOf(a.description), number |-> j, file_name |-> a.file_name,
                   size_text |-> DeclaredKilobytes(Size(a.content)), size_value |-> TRUE,
                   location |-> PayloadLocation(j), quantity |-> OneOf(a.quantity),
                   quantity_unit |-> OneOf(a.quantity_unit)]
        BY <1>8, <1>12 DEF ReferenceAgain
    <2>2. a.file_name = before.file_name
        BY <1>5, <1>13
    <2> QED BY <1>7, <1>14, <2>1, <2>2
<1>16. after = [before EXCEPT !.number = j, !.location = PayloadLocation(j),
                              !.size_text = DeclaredKilobytes(Size(e.content)), !.size_value = TRUE]
    <2> DEFINE u == DeclaredKilobytes(Size(e.content))
           v == TRUE
    <2> HIDE DEF u, v
    <2>1. after = [description |-> before.description, number |-> j, file_name |-> before.file_name,
                   size_text |-> u, size_value |-> v,
                   location |-> PayloadLocation(j), quantity |-> before.quantity,
                   quantity_unit |-> before.quantity_unit]
        BY <1>15, Zenon DEF u, v
    <2>2. [before EXCEPT !.number = j, !.location = PayloadLocation(j), !.size_text = u, !.size_value = v]
            = [description |-> before.description, number |-> j, file_name |-> before.file_name,
               size_text |-> u, size_value |-> v, location |-> PayloadLocation(j),
               quantity |-> before.quantity, quantity_unit |-> before.quantity_unit]
        <3>1. before \in AttachmentReference
            BY <1>13
        <3> DEFINE l == PayloadLocation(j)
        <3> HIDE DEF l
        <3>2. Renewed(before, j, l, u, v)
            = [description |-> before.description, number |-> j, file_name |-> before.file_name,
               size_text |-> u, size_value |-> v, location |-> l,
               quantity |-> before.quantity, quantity_unit |-> before.quantity_unit]
            BY <3>1, ReferenceChanged
        <3> QED BY <3>2 DEF l, Renewed
    <2> QED BY <2>1, <2>2, Zenon DEF u, v
<1>17. PayloadFile(e, j) = {f}
    <2>1. e.name = PayloadName(j, f)
        BY <1>7, <1>13
    <2> QED BY <1>4, <1>13, <2>1, PayloadFileBack
<1>18. given = {r.content : r \in R}
    BY DEF given, R, Replacements
<1>19. CASE R = {}
    <2>1. x.source = [kind |-> "preserved", entry |-> n + 2, crc32 |-> from[n + 2].crc32]
        BY <1>2, <1>3, <1>19 DEF StayFound, R, x
    <2>2. x.source.kind = "preserved" /\ x.source.entry = n + 2 /\ x.source.crc32 = from[n + 2].crc32
        BY <2>1
    <2>3. x.source.entry \in 1 .. Len(at) /\ at[x.source.entry].crc32 = x.source.crc32
        BY <1>1, <1>2, <2>2 DEF Carried, x
    <2>4. at[n + 2].crc32 = Crc32(at[n + 2].content) /\ at[n + 2].crc32 = from[n + 2].crc32
        <3>1. n + 2 \in 1 .. Len(at)
            BY <2>2, <2>3
        <3> QED BY <1>1, <2>2, <2>3, <3>1 DEF Genuine
    <2>5. e.crc32 = from[n + 2].crc32
        BY <1>5, <1>7, <2>2, <2>4
    <2>6. given = {}
        BY <1>18, <1>19
    <2> QED BY <1>1, <1>13, <1>16, <1>17, <2>5, <2>6, Zenon DEF Stays, given, e, j, before, after
<1>20. CASE R # {}
    <2>1. PICK r \in Range(edit.replace) : R = {r} /\ x.source = Supplied(r.content)
        BY <1>2, <1>3, <1>20 DEF StayFound, R, x
    <2>2. x.source.kind = "supplied" /\ x.source.content = r.content
        BY <2>1 DEF Supplied
    <2>3. e.content = r.content
        BY <1>5, <1>7, <2>2
    <2>4. given = {r.content}
        BY <1>18, <2>1
    <2>5. The(given) = r.content /\ given # {}
        BY <2>4, TheOne
    <2>6. e.content = The(given)
        BY <2>3, <2>5
    <2> QED BY <1>1, <1>13, <1>16, <1>17, <2>5, <2>6, Zenon DEF Stays, given, e, j, before, after
<1> QED BY <1>19, <1>20

LEMMA CarriedEntry ==
    ASSUME NEW at, NEW p, NEW spec, NEW to, Carried(at, p, spec, to), NEW n, n = Len(p.attachments),
           NEW j \in 1 .. n
    PROVE  to[j + 2] = Entry(PayloadName(j, p.attachments[j].file_name), Input(at, p.attachments[j]).content)
<1>1. Entered(at, p, spec, to, n)
    BY CarriedEntries
<1> QED BY <1>1 DEF Entered

\* What is preserved is what was at its place in the package apply() was given.
LEMMA PreservedIsCarried ==
    ASSUME NEW from, NEW m, NEW edit, NEW p, NEW S, NEW at, NEW spec, NEW to, NEW k,
           Planned1(from, edit, p, m, S, k), Written1(at, p, spec, to, k), NEW n \in S,
           Replacements(edit, n) = {}
    PROVE  to[Position(edit, n) + 2].content = at[n + 2].content
<1> DEFINE j == Position(edit, n)
           x == p.attachments[j]
           a == Input(at, x)
<1>1. /\ Plannable(from, m, edit) /\ Single(m, Attachments(m)) /\ Plans(from, m, edit, p, S)
      /\ k = Len(p.attachments) /\ Carried(at, p, spec, to)
    BY DEF Planned1, Written1
<1>2. n \in 1 .. PayloadCount(from) /\ j \in 1 .. k /\ x = PlannedStay(from, m, edit, n)
    <2>1. /\ S \subseteq 1 .. PayloadCount(from) /\ Cardinality(S) \in Nat /\ Len(edit.add) \in Nat
          /\ k = Cardinality(S) + Len(edit.add) /\ j \in 1 .. Cardinality(S) /\ x = PlannedStay(from, m, edit, n)
        BY <1>1 DEF Plans
    <2> HIDE DEF j, x
    <2> QED BY <2>1
<1>3. PICK f : StayFound(from, m, edit, n, f)
    BY <1>1, <1>2, StayIsFound
<1>4. to[j + 2] = Entry(PayloadName(j, x.file_name), a.content)
    <2>1. Carried(at, p, spec, to) /\ k = Len(p.attachments) /\ j \in 1 .. k
        BY <1>1, <1>2
    <2> HIDE DEF j
    <2> QED BY <2>1, CarriedEntry
<1>5. a.content = IF x.source.kind = "preserved" THEN at[x.source.entry].content ELSE x.source.content
    BY DEF Input
<1> HIDE DEF j, x, a
<1>6. x.source.kind = "preserved" /\ x.source.entry = n + 2
    BY <1>2, <1>3 DEF StayFound
<1>7. to[j + 2].content = a.content
    BY <1>4 DEF Entry
<1> QED BY <1>5, <1>6, <1>7 DEF j

\* What is added stands behind those that stay.
LEMMA AddedIsCarried ==
    ASSUME NEW from, NEW m, NEW edit, NEW p, NEW S, NEW at, NEW spec, NEW to, NEW k,
           Planned1(from, edit, p, m, S, k), Written1(at, p, spec, to, k),
           NEW i \in 1 .. Len(edit.add)
    PROVE  to[p.added[i] + 2] = Entry(PayloadName(p.added[i], edit.add[i].file_name), edit.add[i].content)
<1> DEFINE j == Cardinality(S) + i
           x == p.attachments[j]
           a == Input(at, x)
<1>1. Plans(from, m, edit, p, S) /\ k = Len(p.attachments) /\ Carried(at, p, spec, to)
    BY DEF Planned1, Written1
<1>2. p.added[i] = j /\ x = PlannedNew(edit.add[i]) /\ j \in 1 .. k
    <2>1. /\ Cardinality(S) \in Nat /\ Len(edit.add) \in Nat /\ k = Cardinality(S) + Len(edit.add)
          /\ p.added[i] = j /\ x = PlannedNew(edit.add[i])
        BY <1>1 DEF Plans
    <2> HIDE DEF x
    <2> QED BY <2>1
<1>3. to[j + 2] = Entry(PayloadName(j, x.file_name), a.content)
    <2>1. Carried(at, p, spec, to) /\ k = Len(p.attachments) /\ j \in 1 .. k
        BY <1>1, <1>2
    <2> HIDE DEF j
    <2> QED BY <2>1, CarriedEntry
<1>4. a.content = IF x.source.kind = "preserved" THEN at[x.source.entry].content ELSE x.source.content
    BY DEF Input
<1> HIDE DEF j, x, a
<1>5. x.file_name = edit.add[i].file_name /\ x.source = Supplied(edit.add[i].content)
    BY <1>2 DEF PlannedNew
<1>6. x.source.kind = "supplied" /\ x.source.content = edit.add[i].content
    BY <1>5 DEF Supplied
<1>7. a.content = edit.add[i].content
    BY <1>4, <1>6
<1> QED BY <1>2, <1>3, <1>5, <1>7

LEMMA WrittenAsPlanned ==
    ASSUME NEW from, NEW m, NEW edit, NEW p, NEW S, NEW at, NEW spec, NEW to, NEW k,
           Planned1(from, edit, p, m, S, k), Written1(at, p, spec, to, k)
    PROVE  AsPlanned(p, edit, from, at, to)
<1> DEFINE numbers == 1 .. Len(from) - 2
           stay == numbers \ Range(edit.remove)
           C == {r.number : r \in Range(edit.replace)}
<1>1. /\ Plannable(from, m, edit) /\ Plans(from, m, edit, p, S)
      /\ k = Len(p.attachments) /\ Carried(at, p, spec, to)
    BY DEF Planned1, Written1
<1>2. stay = S /\ Range(edit.remove) \subseteq numbers /\ numbers = 1 .. PayloadCount(from)
    BY <1>1 DEF Plans, PayloadCount
<1>3. /\ Range(p.preserved) = {n \in S : Replacements(edit, n) = {}}
      /\ Range(p.changed) = {n \in S : Replacements(edit, n) # {}}
      /\ Range(p.removed) = Range(edit.remove)
    BY <1>1 DEF Plans
<1>4. Range(p.preserved) \cup Range(p.changed) = S /\ Range(p.preserved) \cap Range(p.changed) = {}
    BY <1>3
<1>5. Range(p.removed) = numbers \ stay
    <2> HIDE DEF numbers
    <2> QED BY <1>2, <1>3
<1>6. Range(p.changed) = C
    <2>1. edit \in PackageEdit /\ TargetsFit(edit, PayloadCount(from))
        BY <1>1 DEF Plannable
    <2>2. \A r \in Range(edit.replace) : r.number \in (1 .. PayloadCount(from)) \ Range(edit.remove)
        BY <2>1, ReplacedOnce
    <2>3. \A r \in Range(edit.replace) : r.number \in S
        <3> HIDE DEF numbers
        <3> QED BY <1>2, <2>2
    <2>4. ASSUME NEW n \in S PROVE Replacements(edit, n) # {} <=> n \in C
        BY DEF Replacements
    <2> HIDE DEF C
    <2>5. \A n \in C : n \in S
        BY <2>3 DEF C
    <2> QED BY <1>3, <2>4, <2>5
<1>7. Len(to) = 2 + Cardinality(S) + Len(edit.add) /\ DOMAIN edit.add = 1 .. Len(edit.add)
    <2>1. k \in Nat /\ Len(to) = k + 2
        BY <1>1, CarriedEntries DEF Entered
    <2>2. /\ k = Cardinality(S) + Len(edit.add) /\ Cardinality(S) \in Nat /\ Len(edit.add) \in Nat
          /\ DOMAIN edit.add = 1 .. Len(edit.add)
        BY <1>1 DEF Plans
    <2> QED BY <2>1, <2>2
<1>8. \A i \in DOMAIN edit.add :
          to[p.added[i] + 2] = Entry(PayloadName(p.added[i], edit.add[i].file_name), edit.add[i].content)
    BY <1>7, AddedIsCarried
<1>9. Parsed(to[2].content).kind = "accepted" => \A n \in S : Stays(from, to, edit, n)
    BY StayIsCarried
<1>10. at = from =>
          \A n \in Range(p.preserved) : to[Position(edit, n) + 2].content = from[n + 2].content
    BY <1>3, PreservedIsCarried
<1> HIDE DEF numbers, stay, C
<1>11. /\ Range(p.preserved) \cup Range(p.changed) = stay
       /\ Len(to) = 2 + Cardinality(stay) + Len(edit.add)
       /\ Parsed(to[2].content).kind = "accepted" => \A n \in stay : Stays(from, to, edit, n)
    BY <1>2, <1>4, <1>7, <1>9
<1> QED BY <1>4, <1>5, <1>6, <1>8, <1>10, <1>11, Zenon DEF AsPlanned, numbers, stay, C

\* What apply() writes is what was planned.
LEMMA AppliedAsPlanned ==
    ASSUME NEW from, Genuine(from), NEW at, Genuine(at), NEW edit, NEW p \in RepackPlan,
           Made(from, edit, p), NEW r, r = ApplyPlan(at, p), r.kind = "written"
    PROVE  AsPlanned(p, edit, from, at, r.inventory)
<1> DEFINE m == Parsed(from[2].content).value
           to == r.inventory
           k == Len(p.attachments)
<1>1. at \in Inventory
    BY DEF Genuine
<1>2. PICK spec \in PackageSpec : Carried(at, p, spec, to)
    BY <1>1, AppliedCarries
<1>3. Single(m, Attachments(m)) /\ Plannable(from, m, edit) /\ p = Built(from, m, edit)
    <2>1. m = Parsed(from[2].content).value
        OBVIOUS
    <2> HIDE DEF m
    <2> QED BY <2>1, MadeReads
<1> HIDE DEF m, to, k
<1>4. PICK S : Plans(from, m, edit, p, S)
    BY <1>3, BuiltPlans
<1>5. Planned1(from, edit, p, m, S, k)
    BY <1>3, <1>4 DEF Planned1, m, k
<1>6. Written1(at, p, spec, to, k)
    BY <1>2 DEF Written1, k
<1>7. AsPlanned(p, edit, from, at, to)
    BY <1>5, <1>6, WrittenAsPlanned
<1> QED BY <1>7 DEF to

\* A package that was written is as the reader would read it again.
LEMMA WrittenIsGenuine ==
    ASSUME NEW spec \in PackageSpec, NEW r, r = Package(spec), r.kind = "written"
    PROVE  Genuine(r.inventory)
<1> DEFINE inv == r.inventory
<1>1. PICK n : Wrote1(inv, spec, n)
    BY PackageWrote
<1> HIDE DEF inv
<1>2. /\ Sent(spec, n) /\ inv \in Inventory /\ IsSequence(inv) /\ Len(inv) = n + 2
      /\ inv[1] = Entry(MarkerName, FileContent(MarkerFile))
      /\ inv[2] = Entry(MetadataName, DocumentContent(Serialised(Derived(spec))))
      /\ \A i \in 1 .. n : inv[i + 2] = PayloadEntry(spec, i)
    BY <1>1 DEF Wrote1, LaidOut
<1>3. n \in Nat
    BY <1>2, SentIs
<1>4. \A name, content : Entry(name, content).crc32 = Crc32(Entry(name, content).content)
    BY DEF Entry
<1>5. ASSUME NEW i \in 1 .. Len(inv) PROVE inv[i].crc32 = Crc32(inv[i].content)
    <2>1. i = 1 \/ i = 2 \/ (i - 2 \in 1 .. n /\ (i - 2) + 2 = i)
        BY <1>2, <1>3
    <2>2. \E name, content : inv[i] = Entry(name, content)
        <3>1. CASE i = 1
            BY <1>2, <3>1
        <3>2. CASE i = 2
            BY <1>2, <3>2
        <3>3. CASE (i - 2 \in 1 .. n /\ (i - 2) + 2 = i)
            <4>1. inv[i] = PayloadEntry(spec, i - 2)
                BY <1>2, <3>3
            <4> QED BY <4>1 DEF PayloadEntry
        <3> QED BY <2>1, <3>1, <3>2, <3>3
    <2> QED BY <1>4, <2>2
<1>6. inv[2].content.reading = Verdict(inv[2].content.events)
    <2>1. inv[2].content = DocumentContent(Serialised(Derived(spec)))
        BY <1>2 DEF Entry
    <2> QED BY <2>1 DEF DocumentContent
<1>7. Genuine(inv)
    BY <1>2, <1>5, <1>6 DEF Genuine
<1> QED BY <1>7 DEF inv

LEMMA NothingIs == Nothing \in Inventory
<1>1. Ceiling(MaxEntries, Word16) \in Nat
    BY CeilingIs, CreationAssumption
<1>2. <<>> \in Seq(EntryOf) /\ Len(<<>>) = 0
    <2> HIDE DEF EntryOf
    <2> QED OBVIOUS
<1> HIDE DEF EntryOf
<1>3. Len(<<>>) <= Ceiling(MaxEntries, Word16)
    BY <1>1, <1>2
<1> QED BY <1>2, <1>3 DEF Nothing, Inventory, EntryOf

\* And what was found is as the reader read it.
LEMMA FoundIsGenuine ==
    ASSUME NEW inv, inv \in Found \cup Foreign \cup {Nothing}
    PROVE  Genuine(inv)
<1>1. CASE inv = Nothing
    <2>1. Len(inv) = 0 /\ inv \in Inventory
        <3>1. Len(<<>>) = 0
            OBVIOUS
        <3> QED BY <1>1, <3>1, NothingIs DEF Nothing
    <2> QED BY <2>1 DEF Genuine
<1>2. CASE inv \in Found \cup Foreign
    <2>1. inv \in Inventory /\ \A e \in Range(inv) : Observed(e)
        BY <1>2, InputAssumption, ReadAssumption
    <2>2. DOMAIN inv = 1 .. Len(inv) /\ Len(inv) \in Nat
        BY <2>1, InventoryIs
    <2>3. \A i \in 1 .. Len(inv) : Observed(inv[i])
        BY <2>1, <2>2 DEF Range
    <2>4. \A i \in 1 .. Len(inv) : inv[i].crc32 = Crc32(inv[i].content)
        BY <2>3 DEF Observed
    <2>5. Len(inv) >= 2 /\ inv[2].content.kind = "document" =>
              inv[2].content.reading = Verdict(inv[2].content.events)
        <3>1. Len(inv) >= 2 => 2 \in 1 .. Len(inv)
            BY <2>2
        <3> QED BY <2>3, <3>1 DEF Observed
    <2> QED BY <2>1, <2>4, <2>5 DEF Genuine
<1> QED BY <1>1, <1>2

\* The plan that stands was made of a package as the reader read it.
PlanIsMade(given, from) ==
    given # Absent =>
        \E inv, edit, o, p :
            /\ Genuine(inv) /\ edit \in Edit /\ p \in RepackPlan /\ Made(inv, edit, p)
            /\ given = {p} /\ from = {[inventory |-> inv, edit |-> edit, own |-> o]}

PlanInv == Genuine(inventory) /\ PlanIsMade(plan, origin)

THEOREM PlansAreMade == Spec => []PlanInv
<1>1. Init => PlanInv
    BY FoundIsGenuine DEF Init, PlanInv, PlanIsMade
<1>2. TypeOK /\ PlanInv /\ [Next]_vars => PlanInv'
    <2> SUFFICES ASSUME TypeOK, PlanInv, [Next]_vars PROVE PlanInv'
        OBVIOUS
    <2>0. inventory \in Inventory /\ Genuine(inventory) /\ PlanIsMade(plan, origin)
        BY DEF TypeOK, PlanInv
    <2> SUFFICES Genuine(inventory') /\ PlanIsMade(plan', origin')
        BY DEF PlanInv, Genuine, PlanIsMade
    <2>1. ASSUME NEW call, NEW r, Wrote(call, r),
                 r.kind = "written" => \E spec \in PackageSpec : r = Package(spec)
          PROVE  Genuine(inventory')
        <3>1. CASE r.kind = "written"
            <4>1. inventory' = r.inventory
                BY <2>1, <3>1 DEF Wrote
            <4>2. PICK spec \in PackageSpec : r = Package(spec)
                BY <2>1, <3>1
            <4>3. Genuine(r.inventory)
                BY <3>1, <4>2, WrittenIsGenuine
            <4> QED BY <4>1, <4>3
        <3>2. CASE r.kind # "written"
            <4>1. inventory' = inventory
                BY <2>1, <3>2 DEF Wrote
            <4> QED BY <2>0, <4>1
        <3> QED BY <3>1, <3>2
    <2>2. CASE Create
        <3>1. PICK request \in Request : Wrote("create", Package(request)) /\ plan' = plan /\ origin' = origin
            BY <2>2 DEF Create
        <3>2. request \in PackageSpec
            BY InputAssumption
        <3>3. Genuine(inventory')
            BY <2>1, <3>1, <3>2
        <3> QED BY <2>0, <3>1, <3>3
    <2>3. CASE Plan
        <3>1. PICK edit \in Edit :
                /\ plan = Absent
                /\ IF MakePlan(inventory, edit).kind = "planned"
                   THEN /\ plan' = {MakePlan(inventory, edit).plan}
                        /\ origin' = {[inventory |-> inventory, edit |-> edit, own |-> own]}
                   ELSE plan' = plan /\ origin' = origin
                /\ inventory' = inventory
            BY <2>3 DEF Plan, Present
        <3> DEFINE r == MakePlan(inventory, edit)
        <3>2. edit \in PackageEdit
            BY InputAssumption
        <3>3. r.kind = "planned" => r.plan \in RepackPlan /\ Made(inventory, edit, r.plan)
            BY <2>0, <3>2, MadePlanIs
        <3>4. PlanIsMade(plan', origin')
            <4>1. CASE r.kind = "planned"
                <5> DEFINE p == r.plan
                <5>1. /\ p \in RepackPlan /\ Made(inventory, edit, p) /\ plan' = {p}
                      /\ origin' = {[inventory |-> inventory, edit |-> edit, own |-> own]}
                    BY <3>1, <3>3, <4>1
                <5> HIDE DEF p, r
                <5> QED BY <2>0, <5>1 DEF PlanIsMade
            <4>2. CASE r.kind # "planned"
                BY <3>1, <4>2 DEF PlanIsMade
            <4> QED BY <4>1, <4>2
        <3> QED BY <2>0, <3>1, <3>4
    <2>4. CASE Apply
        <3>1. PICK q \in plan : Wrote("apply", ApplyPlan(inventory, q)) /\ plan' = Absent
            BY <2>4 DEF Apply
        <3>2. q \in RepackPlan
            <4>1. plan # Absent
                BY DEF Absent
            <4> QED BY <4>1 DEF TypeOK, Present
        <3> DEFINE r == ApplyPlan(inventory, q)
        <3>3. ASSUME r.kind = "written" PROVE \E spec \in PackageSpec : r = Package(spec)
            <4>1. SameInventory(inventory, q)
                BY <3>3 DEF ApplyPlan
            <4> QED BY <2>0, <3>2, <4>1, AppliedPackage
        <3>4. Wrote("apply", r)
            BY <3>1
        <3> HIDE DEF r
        <3>5. Genuine(inventory')
            BY <2>1, <3>3, <3>4
        <3> QED BY <3>1, <3>5 DEF PlanIsMade
    <2>5. CASE Exchange
        <3>1. inventory' \in Foreign /\ plan' = plan /\ origin' = origin
            BY <2>5 DEF Exchange
        <3>2. Genuine(inventory')
            BY <3>1, FoundIsGenuine
        <3> QED BY <2>0, <3>1, <3>2
    <2>6. CASE UNCHANGED vars
        BY <2>0, <2>6 DEF vars
    <2> QED BY <2>2, <2>3, <2>4, <2>5, <2>6 DEF Next
<1> QED BY <1>1, <1>2, TypeCorrect, PTL DEF Spec

\* A step that is an apply() that wrote a package.
LEMMA AppliedStep ==
    ASSUME PlanInv, TypeOK, Next, Applied
    PROVE  \E inv, edit, p, r, o :
              /\ Genuine(inv) /\ edit \in Edit /\ p \in RepackPlan /\ Made(inv, edit, p)
              /\ The(plan) = p /\ The(origin) = [inventory |-> inv, edit |-> edit, own |-> o]
              /\ r = ApplyPlan(inventory, p) /\ r.kind = "written" /\ inventory' = r.inventory
<1>1. plan # Absent /\ last'.call = "apply" /\ last'.kind = "written"
    BY DEF Applied
<1>2. ~Create
    BY <1>1 DEF Create, Wrote, Returned
<1>3. ~Plan
    BY <1>1 DEF Plan
<1>4. ~Exchange
    BY <1>1 DEF Exchange
<1>5. Apply
    BY <1>2, <1>3, <1>4 DEF Next
<1>6. PICK q \in plan : Wrote("apply", ApplyPlan(inventory, q))
    BY <1>5 DEF Apply
<1>7. PICK inv, edit, o, p :
            /\ Genuine(inv) /\ edit \in Edit /\ p \in RepackPlan /\ Made(inv, edit, p)
            /\ plan = {p} /\ origin = {[inventory |-> inv, edit |-> edit, own |-> o]}
    BY <1>1, Zenon DEF PlanInv, PlanIsMade
<1>8. q = p /\ The(plan) = p /\ The(origin) = [inventory |-> inv, edit |-> edit, own |-> o]
    BY <1>6, <1>7, TheOne
<1> DEFINE r == ApplyPlan(inventory, p)
<1>9. Wrote("apply", r)
    BY <1>6, <1>8
<1> HIDE DEF r
<1>10. r.kind = "written" /\ inventory' = r.inventory
    <2>1. CASE r.kind # "written"
        <3>1. last'.kind = "refused"
            BY <1>9, <2>1 DEF Wrote, Returned
        <3> QED BY <1>1, <3>1
    <2>2. CASE r.kind = "written"
        BY <1>9, <2>2 DEF Wrote
    <2> QED BY <2>1, <2>2
<1> QED BY <1>7, <1>8, <1>10, Zenon DEF r

\* ApplyIsThePlan: what apply() writes is what the plan said of the package
\* it was made from, whatever package it is given.
THEOREM PlansAreCarriedOut == Spec => ApplyIsThePlan
<1> DEFINE Carries ==
        Applied => AsPlanned(The(plan), The(origin).edit, The(origin).inventory, inventory, inventory')
<1>1. PlanInv /\ TypeOK /\ [Next]_vars => [Carries]_vars
    <2> SUFFICES ASSUME PlanInv, TypeOK, Next, Applied
                 PROVE  AsPlanned(The(plan), The(origin).edit, The(origin).inventory, inventory, inventory')
        OBVIOUS
    <2>1. PICK inv, edit, p, r, o :
              /\ Genuine(inv) /\ edit \in Edit /\ p \in RepackPlan /\ Made(inv, edit, p)
              /\ The(plan) = p /\ The(origin) = [inventory |-> inv, edit |-> edit, own |-> o]
              /\ r = ApplyPlan(inventory, p) /\ r.kind = "written" /\ inventory' = r.inventory
        BY AppliedStep
    <2>2. The(origin).edit = edit /\ The(origin).inventory = inv
        BY <2>1
    <2>3. Genuine(inventory)
        BY DEF PlanInv
    <2>4. AsPlanned(p, edit, inv, inventory, r.inventory)
        BY <2>1, <2>3, AppliedAsPlanned
    <2> QED BY <2>1, <2>2, <2>4
<1> QED BY <1>1, PlansAreMade, TypeCorrect, PTL DEF Spec, ApplyIsThePlan

=============================================================================
