---------------------------- MODULE MetadataProofs ----------------------------
(***************************************************************************)
(* The metadata reader, for every set of documents, every alphabet and     *)
(* every limit: the scanner's depth, the parser's calls and the elements   *)
(* that are open agree at every event; the calls hold values of their      *)
(* functions' types; the running totals are those of what was read; and    *)
(* what is returned is what Documents says of the document.                *)
(***************************************************************************)
EXTENDS MetadataReader, DocumentLemmas

\* A stack of calls: the document's is the first, and only the innermost skips.
Calls(s) ==
    /\ IsSequence(s) /\ Len(s) > 0
    /\ s[1].at = "document"
    /\ \A i \in 1 .. Len(s) :
          /\ "at" \in DOMAIN s[i]
          /\ s[i].at = "skip" =>
                i = Len(s) /\ "open" \in DOMAIN s[i] /\ s[i].open \in Nat \ {0}

Skips(s) == s[Len(s)].at = "skip"

\* How many elements the calls of a stack are in.
Height(s) == Len(s) - 1 + (IF Skips(s) THEN s[Len(s)].open - 1 ELSE 0)

\* What the parser may push.
Fresh(c) ==
    /\ "at" \in DOMAIN c /\ c.at # "document"
    /\ c.at = "skip" => "open" \in DOMAIN c /\ c.open = 1

\* Another state of the same call.
SameCall(f, c) == "at" \in DOMAIN f /\ f.at = c.at

Agreement ==
    Reading =>
        /\ next \in Nat \ {0} /\ pending \in BOOLEAN
        /\ Calls(stack)
        /\ depth = Level(document, next) + (IF pending THEN 1 ELSE 0)
        /\ depth = Height(stack)

-----------------------------------------------------------------------------
(* Stacks.                                                                 *)

\* Any value may join those a sequence is over.
LEMMA SequenceOver ==
    ASSUME NEW s, IsSequence(s), NEW e
    PROVE  \E S : s \in Seq(S) /\ e \in S
<1>1. PICK S : s \in Seq(S)
    BY DEF IsSequence
<1>2. s \in Seq(S \cup {e})
    BY <1>1
<1> QED BY <1>2

\* A call of the innermost one.
LEMMA Pushed ==
    ASSUME NEW s, Calls(s), ~Skips(s), NEW c, Fresh(c)
    PROVE  Calls(Append(s, c)) /\ Height(Append(s, c)) = Height(s) + 1
<1> DEFINE t == Append(s, c)
<1>1. PICK S : s \in Seq(S) /\ c \in S
    BY SequenceOver DEF Calls
<1>2. /\ IsSequence(t) /\ Len(t) = Len(s) + 1 /\ t[Len(t)] = c
      /\ \A i \in 1 .. Len(s) : t[i] = s[i]
    BY <1>1 DEF IsSequence
<1> HIDE DEF t
<1> QED BY <1>2 DEF Calls, Height, Skips, Fresh, IsSequence

\* The innermost call goes on.
LEMMA Continued ==
    ASSUME NEW s, Calls(s), NEW f, SameCall(f, s[Len(s)]),
           f.at = "skip" => "open" \in DOMAIN f /\ f.open \in Nat \ {0}
    PROVE  LET t == [s EXCEPT ![Len(s)] = f]
           IN  /\ Calls(t)
               /\ ~Skips(s) => ~Skips(t) /\ Height(t) = Height(s)
               /\ Skips(s) => Height(t) = Height(s) + f.open - s[Len(s)].open
<1> DEFINE t == [s EXCEPT ![Len(s)] = f]
<1>1. PICK S : s \in Seq(S) /\ f \in S
    BY SequenceOver DEF Calls
<1>2. /\ IsSequence(t) /\ Len(t) = Len(s) /\ t[Len(t)] = f
      /\ \A i \in 1 .. Len(s) : i # Len(s) => t[i] = s[i]
    BY <1>1 DEF IsSequence, Calls
<1>3. Len(s) \in Nat \ {0}
    BY <1>1 DEF Calls
<1> HIDE DEF t
<1>4. Calls(t)
    BY <1>2, <1>3 DEF Calls, SameCall
<1>5. Skips(t) = Skips(s)
    BY <1>2 DEF Skips, SameCall
<1>6. Skips(s) => f.open \in Nat /\ s[Len(s)].open \in Nat
    BY <1>3 DEF Skips, SameCall, Calls
<1>7. CASE Skips(s)
    <2>1. /\ Height(t) = Len(s) - 1 + (f.open - 1)
          /\ Height(s) = Len(s) - 1 + (s[Len(s)].open - 1)
        BY <1>2, <1>5, <1>7 DEF Height
    <2> QED BY <1>3, <1>4, <1>5, <1>6, <1>7, <2>1 DEF t
<1>8. CASE ~Skips(s)
    <2>1. Height(t) = Len(s) - 1 /\ Height(s) = Len(s) - 1
        BY <1>2, <1>5, <1>8 DEF Height
    <2> QED BY <1>4, <1>5, <1>8, <2>1 DEF t
<1> QED BY <1>7, <1>8

\* The same, written as the step that also pushes a call.
LEMMA Replaced ==
    ASSUME NEW s, Calls(s), s[Len(s)].at # "document", NEW f
    PROVE  Append(Front(s), f) = [s EXCEPT ![Len(s)] = f]
<1>1. PICK S : s \in Seq(S) /\ f \in S
    BY SequenceOver DEF Calls
<1>2. Len(s) \in Nat /\ Len(s) > 1
    BY <1>1 DEF Calls
<1>3. /\ Front(s) \in Seq(S) /\ Len(Front(s)) = Len(s) - 1
      /\ \A i \in 1 .. Len(s) - 1 : Front(s)[i] = s[i]
    BY <1>1, <1>2 DEF Front
<1> DEFINE t == [s EXCEPT ![Len(s)] = f]
           u == Append(Front(s), f)
<1>4. /\ u \in Seq(S) /\ Len(u) = Len(s) /\ u[Len(s)] = f
      /\ \A i \in 1 .. Len(s) - 1 : u[i] = s[i]
    BY <1>1, <1>2, <1>3
<1>5. /\ t \in Seq(S) /\ Len(t) = Len(s) /\ t[Len(s)] = f
      /\ \A i \in 1 .. Len(s) - 1 : t[i] = s[i]
    BY <1>1, <1>2
<1> HIDE DEF t, u
<1>6. \A i \in 1 .. Len(s) : u[i] = t[i]
    BY <1>2, <1>4, <1>5
<1>7. u = t
    BY <1>2, <1>4, <1>5, <1>6
<1> QED BY <1>7 DEF t, u

LEMMA ContinuedAndPushed ==
    ASSUME NEW s, Calls(s), ~Skips(s), s[Len(s)].at # "document",
           NEW f, SameCall(f, s[Len(s)]), NEW c, Fresh(c)
    PROVE  LET t == Append(Front(s), f) \o <<c>>
           IN  Calls(t) /\ Height(t) = Height(s) + 1
<1> DEFINE u == [s EXCEPT ![Len(s)] = f]
<1>1. Calls(u) /\ ~Skips(u) /\ Height(u) = Height(s)
    BY Continued DEF SameCall, Skips
<1>2. PICK S : u \in Seq(S) /\ c \in S
    BY <1>1, SequenceOver DEF Calls
<1>3. Append(Front(s), f) \o <<c>> = Append(u, c)
    <2>1. Append(Front(s), f) = u
        BY Replaced
    <2> HIDE DEF u
    <2> QED BY <1>2, <2>1
<1> HIDE DEF u
<1> QED BY <1>1, <1>3, Pushed

\* The innermost call returns, and its caller goes on.
LEMMA ReturnedTo ==
    ASSUME NEW s, Calls(s), ~Skips(s), s[Len(s)].at # "document",
           NEW f, SameCall(f, s[Len(s) - 1])
    PROVE  LET t == [Front(s) EXCEPT ![Len(s) - 1] = f]
           IN  Calls(t) /\ Height(t) = Height(s) - 1 /\ Height(s) > 0
<1> DEFINE t == [Front(s) EXCEPT ![Len(s) - 1] = f]
<1>1. PICK S : s \in Seq(S) /\ f \in S
    BY SequenceOver DEF Calls, IsSequence
<1>2. Len(s) \in Nat /\ Len(s) > 1
    BY <1>1 DEF Calls
<1>3. /\ Front(s) \in Seq(S) /\ Len(Front(s)) = Len(s) - 1
      /\ \A i \in 1 .. Len(s) - 1 : Front(s)[i] = s[i]
    BY <1>1, <1>2 DEF Front
<1>4. /\ t \in Seq(S) /\ Len(t) = Len(s) - 1 /\ t[Len(s) - 1] = f
      /\ \A i \in 1 .. Len(s) - 2 : t[i] = s[i]
    BY <1>1, <1>2, <1>3
<1> HIDE DEF t
<1>5. s[Len(s) - 1].at # "skip"
    BY <1>2 DEF Calls
<1>6. Calls(t) /\ ~Skips(t)
    BY <1>2, <1>4, <1>5 DEF Calls, Skips, SameCall, IsSequence
<1>7. Height(t) = Len(s) - 2 /\ Height(s) = Len(s) - 1
    BY <1>2, <1>4, <1>6 DEF Height
<1> QED BY <1>2, <1>6, <1>7 DEF t

\* A call returns without changing anything of its caller's.
LEMMA Dropped ==
    ASSUME NEW s, Calls(s), s[Len(s)].at # "document",
           Skips(s) => s[Len(s)].open = 1
    PROVE  Calls(Front(s)) /\ Height(Front(s)) = Height(s) - 1 /\ Height(s) > 0
<1> DEFINE t == Front(s)
<1>1. PICK S : s \in Seq(S)
    BY DEF Calls, IsSequence
<1>2. Len(s) \in Nat /\ Len(s) > 1
    BY <1>1 DEF Calls
<1>3. /\ t \in Seq(S) /\ Len(t) = Len(s) - 1
      /\ \A i \in 1 .. Len(s) - 1 : t[i] = s[i]
    BY <1>1, <1>2 DEF Front
<1> HIDE DEF t
<1>4. s[Len(s) - 1].at # "skip"
    BY <1>2 DEF Calls
<1>5. Calls(t) /\ ~Skips(t)
    BY <1>2, <1>3, <1>4 DEF Calls, Skips, IsSequence
<1>6. Height(t) = Len(s) - 2 /\ Height(s) = Len(s) - 1
    BY <1>2, <1>3, <1>5 DEF Height, Skips
<1> QED BY <1>2, <1>5, <1>6 DEF t

-----------------------------------------------------------------------------
(* Steps.                                                                  *)

\* An element is counted in, and a call for it or for one more of those
\* skipped is on the stack.
LEMMA OpenedAgrees ==
    ASSUME Agreement, Reading, ~pending, IsOpen(Upcoming), Opened,
           Calls(stack'), Height(stack') = Height(stack) + 1, document' = document
    PROVE  Agreement'
<1>1. /\ Level(document, next) \in Int
      /\ Level(document, next + 1) = Level(document, next)
           + (IF Upcoming.kind = "start" THEN 1 ELSE IF Upcoming.kind = "end" THEN -1 ELSE 0)
    BY LevelStep DEF Agreement, Upcoming
<1>2. /\ next' = next + 1 /\ next' \in Nat \ {0} /\ depth' = depth + 1
      /\ pending' = (Upcoming.kind = "empty")
    BY DEF Opened, Agreement
<1>3. /\ depth = Level(document, next) /\ depth = Height(stack)
    BY <1>1 DEF Agreement
<1>4. Upcoming.kind = "start" \/ Upcoming.kind = "empty"
    BY DEF IsOpen
<1>5. depth' = Level(document', next') + (IF pending' THEN 1 ELSE 0)
    <2>1. Level(document', next') = Level(document, next + 1)
        BY <1>2
    <2>2. CASE Upcoming.kind = "start"
        <3>1. ~pending'
            BY <1>2, <2>2
        <3>2. (IF pending' THEN 1 ELSE 0) = 0
            BY <3>1
        <3>3. Level(document, next + 1) = Level(document, next) + 1
            BY <1>1, <2>2
        <3> QED BY <1>1, <1>2, <1>3, <2>1, <3>2, <3>3
    <2>3. CASE Upcoming.kind = "empty"
        <3>1. pending'
            BY <1>2, <2>3
        <3>2. (IF pending' THEN 1 ELSE 0) = 1
            BY <3>1
        <3>3. Level(document, next + 1) = Level(document, next)
            BY <1>1, <2>3
        <3> QED BY <1>1, <1>2, <1>3, <2>1, <3>2, <3>3
    <2> QED BY <1>4, <2>2, <2>3
<1>6. depth' = Height(stack')
    BY <1>2, <1>3
<1>7. pending' \in BOOLEAN
    BY <1>2
<1> QED BY <1>2, <1>5, <1>6, <1>7 DEF Agreement

\* An element is counted out, and its call or one of those skipped is over.
LEMMA ClosedAgrees ==
    ASSUME Agreement, Closing, Closed,
           Calls(stack'), Height(stack') = Height(stack) - 1, Height(stack) > 0,
           document' = document
    PROVE  Agreement'
<1>1. /\ Level(document, next) \in Int
      /\ Level(document, next + 1) = Level(document, next)
           + (IF Upcoming.kind = "start" THEN 1 ELSE IF Upcoming.kind = "end" THEN -1 ELSE 0)
    BY LevelStep DEF Agreement, Upcoming, Closing
<1>2. /\ next \in Nat \ {0} /\ pending \in BOOLEAN /\ depth = Height(stack)
      /\ depth = Level(document, next) + (IF pending THEN 1 ELSE 0)
    BY DEF Agreement, Closing
<1>3. /\ depth' = depth - 1 /\ pending' = FALSE
      /\ next' = IF pending THEN next ELSE next + 1
    BY <1>2 DEF Closed
<1>4. ~pending => Upcoming.kind = "end"
    BY DEF Closing
<1>5. next' \in Nat \ {0}
    BY <1>2, <1>3
<1>6. depth' = Level(document', next')
    BY <1>1, <1>2, <1>3, <1>4
<1>7. depth' = Height(stack')
    BY <1>2, <1>3
<1>8. Level(document', next') \in Int
    BY <1>1, <1>2, <1>3, <1>4
<1>9. (IF pending' THEN 1 ELSE 0) = 0 /\ pending' \in BOOLEAN
    BY <1>3
<1>10. depth' = Level(document', next') + (IF pending' THEN 1 ELSE 0)
    BY <1>6, <1>8, <1>9
<1> QED BY <1>5, <1>7, <1>9, <1>10 DEF Agreement

\* An event that opens and ends nothing.
LEMMA PassedAgrees ==
    ASSUME Agreement, Reading, ~pending, Upcoming.kind # "start", Upcoming.kind # "end",
           next' = next + 1, UNCHANGED <<document, depth, pending>>,
           Calls(stack'), Height(stack') = Height(stack)
    PROVE  Agreement'
<1>1. /\ Level(document, next) \in Int
      /\ Level(document, next + 1) = Level(document, next)
    BY LevelStep DEF Agreement, Upcoming
<1> QED BY <1>1 DEF Agreement

\* A refusal ends the reading.
LEMMA RefusedAgrees ==
    ASSUME NEW code, NEW about, Refuse(code, about)
    PROVE  Agreement'
BY DEF Refuse, Agreement, Reading

\* The innermost call is one of those that open elements of their own.
LEMMA TopCalls ==
    ASSUME Agreement, Reading
    PROVE  /\ Calls(stack) /\ SameCall(Top, Top)
           /\ Skips(stack) <=> Top.at = "skip"
           /\ SameCall(Caller, Caller) \/ Top.at = "document"
BY DEF Agreement, Calls, SameCall, Top, Caller, Skips, IsSequence

-----------------------------------------------------------------------------
(* One lemma per action.                                                   *)

LEMMA InitAgrees == ASSUME Init PROVE Agreement
<1>1. stack = <<DocumentCall>> /\ pending = FALSE /\ next = 1 /\ depth = 0
    BY DEF Init
<1>2. /\ stack \in Seq({DocumentCall}) /\ Len(stack) = 1 /\ stack[1] = DocumentCall
      /\ "at" \in DOMAIN DocumentCall /\ DocumentCall.at = "document"
    BY <1>1 DEF DocumentCall
<1>3. Calls(stack) /\ ~Skips(stack)
    BY <1>2 DEF Calls, Skips, IsSequence
<1>4. Height(stack) = 0
    BY <1>2, <1>3 DEF Height
<1>5. Level(document, next) = 0
    BY <1>1, LevelStart
<1>6. (IF pending THEN 1 ELSE 0) = 0 /\ pending \in BOOLEAN
    BY <1>1
<1> QED BY <1>1, <1>3, <1>4, <1>5, <1>6 DEF Agreement

LEMMA ScannerRefusesAgrees == ASSUME ScannerRefuses PROVE Agreement'
BY RefusedAgrees DEF ScannerRefuses

LEMMA PassOverAgrees == ASSUME Agreement, PassOver PROVE Agreement'
<1>1. /\ Reading /\ ~pending /\ next' = next + 1
      /\ UNCHANGED <<document, depth, pending, stack>>
      /\ Upcoming.kind # "start" /\ Upcoming.kind # "end"
    BY DEF PassOver, Incoming, IsText
<1>2. Calls(stack') /\ Height(stack') = Height(stack)
    BY <1>1 DEF Agreement
<1> QED BY <1>1, <1>2, PassedAgrees

LEMMA TakeTextAgrees == ASSUME Agreement, TakeText PROVE Agreement'
<1>1. /\ Reading /\ ~pending /\ next' = next + 1
      /\ UNCHANGED <<document, depth, pending>>
      /\ Upcoming.kind # "start" /\ Upcoming.kind # "end"
    BY DEF TakeText, Incoming, IsText
<1>2. Calls(stack)
    BY <1>1 DEF Agreement
<1>3. CASE InCall({"leaf"})
    <2> DEFINE f == [Top EXCEPT !.text = @ \o Upcoming.pieces]
    <2>1. SameCall(f, Top) /\ f.at # "skip" /\ ~Skips(stack)
        BY <1>1, <1>3, TopCalls DEF SameCall, InCall
    <2>2. stack' = [stack EXCEPT ![Len(stack)] = f]
        BY <1>3 DEF TakeText, Continue
    <2> HIDE DEF f
    <2>3. Calls(stack') /\ Height(stack') = Height(stack)
        BY <1>2, <2>1, <2>2, Continued DEF Top
    <2> QED BY <1>1, <2>3, PassedAgrees
<1>4. CASE ~InCall({"leaf"})
    <2>1. stack' = stack
        BY <1>4 DEF TakeText
    <2> QED BY <1>1, <1>2, <2>1, PassedAgrees
<1> QED BY <1>3, <1>4

LEMMA EndOfDocumentAgrees == ASSUME EndOfDocument PROVE Agreement'
BY RefusedAgrees DEF EndOfDocument

\* What every action on an opened element has seen.
LEMMA OpeningSeen ==
    ASSUME NEW calls, Agreement, Opening(calls)
    PROVE  /\ Reading /\ ~pending /\ IsOpen(Upcoming) /\ Top.at \in calls
           /\ Calls(stack) /\ SameCall(Top, Top) /\ Top = stack[Len(stack)]
           /\ Skips(stack) <=> Top.at = "skip"
<1>1. Reading /\ ~pending /\ IsOpen(Upcoming) /\ Top.at \in calls
    BY DEF Opening, Incoming, InCall
<1> QED BY <1>1, TopCalls DEF Top

\* A call that is pushed by OpenedFor.
LEMMA OpenedForAgrees ==
    ASSUME NEW calls, Agreement, Opening(calls), "skip" \notin calls,
           NEW c, Fresh(c), OpenedFor(c)
    PROVE  Agreement'
<1>1. /\ Reading /\ ~pending /\ IsOpen(Upcoming) /\ Calls(stack) /\ ~Skips(stack)
    BY OpeningSeen
<1>2. Opened /\ stack' = Append(stack, c) /\ document' = document
    BY DEF OpenedFor, Call
<1>3. Calls(stack') /\ Height(stack') = Height(stack) + 1
    BY <1>1, <1>2, Pushed
<1> QED BY <1>1, <1>2, <1>3, OpenedAgrees

\* The caller is noted in its own variables, and a call is pushed.
LEMMA NotedAgrees ==
    ASSUME NEW calls, Agreement, Opening(calls), "skip" \notin calls, "document" \notin calls,
           NEW f, SameCall(f, Top), NEW c, Fresh(c),
           Opened, stack' = Append(Front(stack), f) \o <<c>>, document' = document
    PROVE  Agreement'
<1>1. /\ Reading /\ ~pending /\ IsOpen(Upcoming) /\ Calls(stack) /\ ~Skips(stack)
      /\ Top.at # "document" /\ Top = stack[Len(stack)]
    BY OpeningSeen
<1>2. Calls(stack') /\ Height(stack') = Height(stack) + 1
    BY <1>1, ContinuedAndPushed
<1> QED BY <1>1, <1>2, OpenedAgrees

LEMMA FreshCalls ==
    /\ Fresh(ConsignmentCall) /\ Fresh(DispatchCall) /\ Fresh(SkipCall)
    /\ \A at : at \notin {"document", "skip"} => Fresh(SlotsCall(at)) /\ Fresh(ListCall(at))
    /\ \A field : Fresh(LeafCall(field))
BY DEF Fresh, ConsignmentCall, DispatchCall, SkipCall, SlotsCall, ListCall, LeafCall

LEMMA OpenRootAgrees == ASSUME Agreement, OpenRoot PROVE Agreement'
<1>1. CASE OpenedFor(ConsignmentCall)
    BY <1>1, FreshCalls, OpenedForAgrees DEF OpenRoot
<1>2. CASE \E code, about : Refuse(code, about)
    BY <1>2, RefusedAgrees
<1> QED BY <1>1, <1>2 DEF OpenRoot

LEMMA OpenBlockAgrees ==
    ASSUME Agreement, NEW position \in DOMAIN Blocks, OpenBlock(position)
    PROVE  Agreement'
<1> DEFINE field == Blocks[position]
           accepted == [Top EXCEPT
              !.seen = @ \cup {position}, !.reached = position,
              !.receipt = @ \/ field = "ERKEZTETES", !.openings = @ \/ field = "BONTASOK",
              !.returned = @ \/ field = "TERTIVEVENY"]
           callee == CASE field = "FEJRESZ" -> SlotsCall(field)
                       [] field = "EXPEDIALASOK" -> ListCall(field)
                       [] OTHER -> SkipCall
<1>1. CASE \E code, about : Refuse(code, about)
    BY <1>1, RefusedAgrees
<1>2. CASE Opened /\ stack' = Append(Front(stack), accepted) \o <<callee>>
                /\ UNCHANGED <<document, unknown, outcome>>
    <2>1. Opening({"KULDEMENY"})
        BY DEF OpenBlock
    <2>2. SameCall(accepted, Top)
        BY <2>1, OpeningSeen DEF SameCall
    <2>3. Fresh(callee)
        BY FreshCalls
    <2> HIDE DEF accepted, callee
    <2> QED BY <1>2, <2>1, <2>2, <2>3, NotedAgrees
<1> QED BY <1>1, <1>2 DEF OpenBlock

LEMMA OpenLeafAgrees == ASSUME Agreement, OpenLeaf PROVE Agreement'
<1>1. Opening({"FEJRESZ", "MELLEKLET"}) \/ Opening({"EXPEDIALAS"})
    BY DEF OpenLeaf
<1>2. OpenedFor(LeafCall(Upcoming.name)) /\ Fresh(LeafCall(Upcoming.name))
    BY FreshCalls DEF OpenLeaf
<1> QED BY <1>1, <1>2, OpenedForAgrees

LEMMA OpenDispatchAgrees == ASSUME Agreement, OpenDispatch PROVE Agreement'
BY FreshCalls, OpenedForAgrees DEF OpenDispatch

LEMMA OpenAttachmentsAgrees == ASSUME Agreement, OpenAttachments PROVE Agreement'
<1> DEFINE f == [Top EXCEPT !.present = TRUE]
<1>1. Opening({"EXPEDIALAS"})
    BY DEF OpenAttachments
<1>2. CASE \E code, about : Refuse(code, about)
    BY <1>2, RefusedAgrees
<1>3. CASE /\ Opened /\ document' = document
           /\ stack' = Append(Front(stack), f) \o <<ListCall("MELLEKLETEK")>>
    <2>1. SameCall(f, Top)
        BY <1>1, OpeningSeen DEF SameCall
    <2>2. Fresh(ListCall("MELLEKLETEK"))
        BY FreshCalls
    <2> HIDE DEF f
    <2> QED BY <1>1, <1>3, <2>1, <2>2, NotedAgrees
<1> QED BY <1>2, <1>3 DEF OpenAttachments

LEMMA OpenInstructionsAgrees == ASSUME Agreement, OpenInstructions PROVE Agreement'
<1> DEFINE f == [Top EXCEPT !.handling = TRUE]
<1>1. /\ Opening({"EXPEDIALAS"}) /\ Opened /\ document' = document
      /\ stack' = Append(Front(stack), f) \o <<SkipCall>>
    BY DEF OpenInstructions
<1>2. SameCall(f, Top)
    BY <1>1, OpeningSeen DEF SameCall
<1> HIDE DEF f
<1> QED BY <1>1, <1>2, FreshCalls, NotedAgrees

LEMMA OpenAttachmentAgrees == ASSUME Agreement, OpenAttachment PROVE Agreement'
BY FreshCalls, OpenedForAgrees DEF OpenAttachment

LEMMA OpenUnknownAgrees == ASSUME Agreement, OpenUnknown PROVE Agreement'
<1>1. PICK calls : Opening(calls) /\ "skip" \notin calls
    BY DEF OpenUnknown
<1>2. OpenedFor(SkipCall) /\ Fresh(SkipCall)
    BY FreshCalls DEF OpenUnknown, SkipUnknown
<1> QED BY <1>1, <1>2, OpenedForAgrees

LEMMA OpenInLeafAgrees == ASSUME OpenInLeaf PROVE Agreement'
BY RefusedAgrees DEF OpenInLeaf

LEMMA OpenSkippedAgrees == ASSUME Agreement, OpenSkipped PROVE Agreement'
<1> DEFINE f == [Top EXCEPT !.open = @ + 1]
<1>1. /\ Opening({"skip"}) /\ Opened /\ document' = document
      /\ stack' = [stack EXCEPT ![Len(stack)] = f]
    BY DEF OpenSkipped, Continue
<1>2. /\ Reading /\ ~pending /\ IsOpen(Upcoming) /\ Calls(stack) /\ Skips(stack)
      /\ Top = stack[Len(stack)] /\ Top.at = "skip" /\ SameCall(Top, Top)
    BY <1>1, OpeningSeen
<1>3. "open" \in DOMAIN Top /\ Top.open \in Nat \ {0}
    BY <1>2 DEF Calls, IsSequence
<1>4. SameCall(f, Top) /\ "open" \in DOMAIN f /\ f.open = Top.open + 1
    BY <1>2, <1>3 DEF SameCall
<1> HIDE DEF f
<1> DEFINE t == [stack EXCEPT ![Len(stack)] = f]
<1>5. Calls(stack') /\ Height(stack') = Height(stack) + f.open - Top.open
    <2>1. SameCall(f, stack[Len(stack)]) /\ f.open \in Nat \ {0}
        BY <1>2, <1>3, <1>4
    <2>2. Calls(t) /\ Height(t) = Height(stack) + f.open - stack[Len(stack)].open
        BY <1>2, <1>4, <2>1, Continued
    <2> QED BY <1>1, <1>2, <2>2
<1>6. Height(stack) \in Int
    BY <1>2, <1>3 DEF Height, Calls, IsSequence
<1>7. Height(stack') = Height(stack) + 1
    BY <1>3, <1>4, <1>5, <1>6
<1> QED BY <1>1, <1>2, <1>5, <1>7, OpenedAgrees

\* A call that ends with its element.
LEMMA ClosedWithAgrees ==
    ASSUME Agreement, Closing, Top.at \notin {"document", "skip"},
           NEW f, SameCall(f, Caller), ClosedWith(f)
    PROVE  Agreement'
<1>1. Reading /\ Calls(stack) /\ ~Skips(stack) /\ stack[Len(stack)].at # "document"
    BY TopCalls DEF Closing, Top
<1>2. Closed /\ stack' = [Front(stack) EXCEPT ![Len(stack) - 1] = f] /\ document' = document
    BY DEF ClosedWith, Return
<1>3. Calls(stack') /\ Height(stack') = Height(stack) - 1 /\ Height(stack) > 0
    BY <1>1, <1>2, ReturnedTo DEF Caller
<1> QED BY <1>2, <1>3, ClosedAgrees

\* The caller of a call that is not the first is one, too.
LEMMA CallerSeen ==
    ASSUME NEW calls, Agreement, Closing, InCall(calls),
           "document" \notin calls, "skip" \notin calls
    PROVE  SameCall(Caller, Caller) /\ Top.at \notin {"document", "skip"}
BY TopCalls DEF Closing, InCall

LEMMA CloseSkippedAgrees == ASSUME Agreement, CloseSkipped PROVE Agreement'
<1>1. Closing /\ Closed /\ Reading /\ document' = document
    BY DEF CloseSkipped, Closing
<1>2. Calls(stack) /\ Skips(stack) /\ Top = stack[Len(stack)] /\ Top.at = "skip"
      /\ SameCall(Top, Top)
    BY <1>1, TopCalls DEF CloseSkipped, InCall, Top
<1>3. "open" \in DOMAIN Top /\ Top.open \in Nat \ {0}
    BY <1>2 DEF Calls, IsSequence
<1>4. CASE Top.open = 1
    <2>1. stack' = Front(stack)
        BY <1>4 DEF CloseSkipped
    <2>2. Calls(stack') /\ Height(stack') = Height(stack) - 1 /\ Height(stack) > 0
        BY <1>2, <1>4, <2>1, Dropped
    <2> QED BY <1>1, <2>2, ClosedAgrees
<1>5. CASE Top.open # 1
    <2> DEFINE f == [Top EXCEPT !.open = @ - 1]
               t == [stack EXCEPT ![Len(stack)] = f]
    <2>1. stack' = t
        BY <1>5 DEF CloseSkipped, Continue
    <2>2. SameCall(f, Top) /\ "open" \in DOMAIN f /\ f.open = Top.open - 1
        BY <1>2, <1>3 DEF SameCall
    <2> HIDE DEF f
    <2>3. SameCall(f, stack[Len(stack)]) /\ f.open \in Nat \ {0}
        BY <1>2, <1>3, <1>5, <2>2
    <2>4. Calls(t) /\ Height(t) = Height(stack) + f.open - stack[Len(stack)].open
        BY <1>2, <2>2, <2>3, Continued
    <2>5. Height(stack) = Len(stack) - 1 + (Top.open - 1) /\ Len(stack) \in Nat \ {0}
        BY <1>2 DEF Height, Calls, IsSequence
    <2>6. Height(t) = Height(stack) - 1 /\ Height(stack) > 0
        BY <1>2, <1>3, <1>5, <2>2, <2>4, <2>5
    <2> QED BY <1>1, <2>1, <2>4, <2>6, ClosedAgrees
<1> QED BY <1>4, <1>5

LEMMA CloseSlotAgrees == ASSUME Agreement, CloseSlot PROVE Agreement'
<1> DEFINE f == [Caller EXCEPT !.slots[Top.field] = Present(Trim(Top.text))]
<1>1. Closing /\ InCall({"leaf"})
    BY DEF CloseSlot
<1>2. CASE \E code, about : Refuse(code, about)
    BY <1>2, RefusedAgrees
<1>3. CASE ClosedWith(f)
    <2>1. SameCall(f, Caller) /\ Top.at \notin {"document", "skip"}
        BY <1>1, CallerSeen DEF SameCall
    <2> HIDE DEF f
    <2> QED BY <1>1, <1>3, <2>1, ClosedWithAgrees
<1> QED BY <1>2, <1>3 DEF CloseSlot

LEMMA CloseCountAgrees == ASSUME Agreement, CloseCount PROVE Agreement'
<1> DEFINE f == [Caller EXCEPT !.count = Present(Numeral[Trim(Top.text)])]
<1>1. Closing /\ InCall({"leaf"})
    BY DEF CloseCount
<1>2. CASE \E code, about : Refuse(code, about)
    BY <1>2, RefusedAgrees
<1>3. CASE ClosedWith(f)
    <2>1. SameCall(f, Caller) /\ Top.at \notin {"document", "skip"}
        BY <1>1, CallerSeen DEF SameCall
    <2> HIDE DEF f
    <2> QED BY <1>1, <1>3, <2>1, ClosedWithAgrees
<1> QED BY <1>2, <1>3 DEF CloseCount

LEMMA CloseHeaderAgrees == ASSUME Agreement, CloseHeader PROVE Agreement'
<1> DEFINE f == [Caller EXCEPT !.header = Present(IntoHeader(Top.slots))]
<1>1. Closing /\ InCall({"FEJRESZ"})
    BY DEF CloseHeader
<1>2. CASE \E code, about : Refuse(code, about)
    BY <1>2, RefusedAgrees
<1>3. CASE ClosedWith(f)
    <2>1. SameCall(f, Caller) /\ Top.at \notin {"document", "skip"}
        BY <1>1, CallerSeen DEF SameCall
    <2> HIDE DEF f
    <2> QED BY <1>1, <1>3, <2>1, ClosedWithAgrees
<1> QED BY <1>2, <1>3 DEF CloseHeader, RefuseFirst

LEMMA CloseAttachmentAgrees == ASSUME Agreement, CloseAttachment PROVE Agreement'
<1> DEFINE f == [Caller EXCEPT !.list = Append(@, IntoAttachment(Top.slots))]
<1>1. Closing /\ InCall({"MELLEKLET"})
    BY DEF CloseAttachment
<1>2. CASE \E code, about : Refuse(code, about)
    BY <1>2, RefusedAgrees
<1>3. CASE ClosedWith(f)
    <2>1. SameCall(f, Caller) /\ Top.at \notin {"document", "skip"}
        BY <1>1, CallerSeen DEF SameCall
    <2> HIDE DEF f
    <2> QED BY <1>1, <1>3, <2>1, ClosedWithAgrees
<1> QED BY <1>2, <1>3 DEF CloseAttachment, RefuseFirst

LEMMA CloseAttachmentsAgrees == ASSUME Agreement, CloseAttachments PROVE Agreement'
<1> DEFINE f == [Caller EXCEPT !.attachments = Top.list]
<1>1. Closing /\ InCall({"MELLEKLETEK"}) /\ ClosedWith(f)
    BY DEF CloseAttachments
<1>2. SameCall(f, Caller) /\ Top.at \notin {"document", "skip"}
    BY <1>1, CallerSeen DEF SameCall
<1> HIDE DEF f
<1> QED BY <1>1, <1>2, ClosedWithAgrees

LEMMA CloseDispatchAgrees == ASSUME Agreement, CloseDispatch PROVE Agreement'
<1> DEFINE f == [Caller EXCEPT !.list = Append(@, IntoDispatch(Top))]
<1>1. Closing /\ InCall({"EXPEDIALAS"}) /\ ClosedWith(f)
    BY DEF CloseDispatch
<1>2. SameCall(f, Caller) /\ Top.at \notin {"document", "skip"}
    BY <1>1, CallerSeen DEF SameCall
<1> HIDE DEF f
<1> QED BY <1>1, <1>2, ClosedWithAgrees

LEMMA CloseDispatchesAgrees == ASSUME Agreement, CloseDispatches PROVE Agreement'
<1> DEFINE f == [Caller EXCEPT !.dispatches = Top.list]
<1>1. Closing /\ InCall({"EXPEDIALASOK"}) /\ ClosedWith(f)
    BY DEF CloseDispatches
<1>2. SameCall(f, Caller) /\ Top.at \notin {"document", "skip"}
    BY <1>1, CallerSeen DEF SameCall
<1> HIDE DEF f
<1> QED BY <1>1, <1>2, ClosedWithAgrees

LEMMA CloseRootAgrees == ASSUME Agreement, CloseRoot PROVE Agreement'
<1>1. CASE \E code, about : Refuse(code, about)
    BY <1>1, RefusedAgrees
<1>2. CASE \E value : Accept(value)
    BY <1>2 DEF Accept, Agreement, Reading
<1> QED BY <1>1, <1>2 DEF CloseRoot

-----------------------------------------------------------------------------

\* The agreement is inductive.
LEMMA NextAgrees == ASSUME Agreement, [Next]_vars PROVE Agreement'
<1>1. CASE Returned \/ UNCHANGED vars
    BY <1>1 DEF Returned, vars, Agreement, Reading
<1>2. CASE ScannerRefuses \/ PassOver \/ TakeText \/ EndOfDocument
    BY <1>2, ScannerRefusesAgrees, PassOverAgrees, TakeTextAgrees, EndOfDocumentAgrees
<1>3. CASE OpenRoot \/ OpenLeaf \/ OpenDispatch \/ OpenAttachments \/ OpenInstructions
    BY <1>3, OpenRootAgrees, OpenLeafAgrees, OpenDispatchAgrees, OpenAttachmentsAgrees,
       OpenInstructionsAgrees
<1>4. CASE \E position \in DOMAIN Blocks : OpenBlock(position)
    BY <1>4, OpenBlockAgrees
<1>5. CASE OpenAttachment \/ OpenUnknown \/ OpenInLeaf \/ OpenSkipped
    BY <1>5, OpenAttachmentAgrees, OpenUnknownAgrees, OpenInLeafAgrees, OpenSkippedAgrees
<1>6. CASE CloseSkipped \/ CloseSlot \/ CloseCount \/ CloseHeader
    BY <1>6, CloseSkippedAgrees, CloseSlotAgrees, CloseCountAgrees, CloseHeaderAgrees
<1>7. CASE CloseAttachment \/ CloseAttachments \/ CloseDispatch \/ CloseDispatches \/ CloseRoot
    BY <1>7, CloseAttachmentAgrees, CloseAttachmentsAgrees, CloseDispatchAgrees,
       CloseDispatchesAgrees, CloseRootAgrees
<1> QED BY <1>1, <1>2, <1>3, <1>4, <1>5, <1>6, <1>7 DEF Next

\* What the scanner counts, the calls the parser is in and the elements that
\* are open agree at every event of every document, so no call takes the end
\* of another's element for its own and no subtraction meets a zero.
THEOREM CallsFollowNesting == Spec => []DepthIsNesting
<1>1. Init => Agreement
    BY InitAgrees
<1>2. Agreement /\ [Next]_vars => Agreement'
    BY NextAgrees
<1>3. Agreement => DepthIsNesting
    <2> SUFFICES ASSUME Agreement, Reading PROVE DepthIsNesting
        BY DEF DepthIsNesting
    <2>1. Skips(stack) <=> InCall({"skip"})
        BY TopCalls DEF InCall
    <2>2. Top = stack[Len(stack)]
        BY DEF Top
    <2> QED BY <2>1, <2>2 DEF Agreement, DepthIsNesting, Height
<1> QED BY <1>1, <1>2, <1>3, PTL DEF Spec

-----------------------------------------------------------------------------
(* The ceilings on elements and on depth.                                  *)

Within ==
    Reading => elements \in Nat /\ depth \in Int /\ elements <= MaxElements /\ depth <= MaxDepth

\* An element is only opened below both.
LEMMA OpenedWithin ==
    ASSUME Within, NEW calls, Opening(calls), Opened
    PROVE  Within'
<1>1. Reading /\ IsOpen(Upcoming) /\ Refusal(Upcoming) = "none"
    BY DEF Opening, Incoming, Passes
<1>2. OpenRefusal(Upcoming) = "none"
    <2>1. /\ ~IsText(Upcoming)
          /\ Upcoming.kind \notin {"doctype", "instruction", "declaration", "broken"}
        BY <1>1 DEF IsOpen, IsText
    <2>2. Refusal(Upcoming) = OpenRefusal(Upcoming)
        BY <1>1, <2>1, Zenon DEF Refusal
    <2> QED BY <1>1, <2>2
<1>3. ~(elements + 1 > MaxElements) /\ ~(depth + 1 > MaxDepth)
    BY <1>2 DEF OpenRefusal
<1>4. elements \in Nat /\ depth \in Int /\ MaxElements \in Nat /\ MaxDepth \in Nat
    BY <1>1, LimitsAssumption DEF Within
<1>5. elements' = elements + 1 /\ depth' = depth + 1
    BY DEF Opened
<1> QED BY <1>3, <1>4, <1>5 DEF Within

LEMMA ClosedWithin == ASSUME Within, Reading, Closed PROVE Within'
<1>1. elements' = elements /\ depth' = IF depth = 0 THEN 0 ELSE depth - 1
    BY DEF Closed
<1>2. elements \in Nat /\ depth \in Int /\ elements <= MaxElements /\ depth <= MaxDepth
      /\ MaxDepth \in Nat
    BY LimitsAssumption DEF Within
<1> QED BY <1>1, <1>2 DEF Within

LEMMA NextWithin == ASSUME Within, [Next]_vars PROVE Within'
<1>1. CASE \/ \E code, about : Refuse(code, about)
           \/ \E value : Accept(value)
    BY <1>1 DEF Refuse, Accept, Within, Reading
<1>2. CASE Reading /\ Closed
    BY <1>2, ClosedWithin
<1>3. CASE Opened /\ \E calls : Opening(calls)
    BY <1>3, OpenedWithin
<1>4. CASE UNCHANGED <<elements, depth, outcome>>
    BY <1>4 DEF Within, Reading
<1>5. CASE Returned \/ UNCHANGED vars \/ PassOver \/ TakeText
    BY <1>4, <1>5 DEF Returned, vars, PassOver, TakeText
<1>6. CASE ScannerRefuses \/ EndOfDocument \/ OpenInLeaf
    BY <1>1, <1>6 DEF ScannerRefuses, EndOfDocument, OpenInLeaf
<1>7. CASE OpenRoot \/ OpenLeaf \/ OpenDispatch \/ OpenAttachments
    BY <1>1, <1>3, <1>7 DEF OpenRoot, OpenLeaf, OpenDispatch, OpenAttachments, OpenedFor
<1>8. CASE OpenInstructions \/ OpenAttachment \/ OpenUnknown \/ OpenSkipped
    BY <1>3, <1>8
       DEF OpenInstructions, OpenAttachment, OpenUnknown, OpenSkipped, OpenedFor, SkipUnknown
<1>9. CASE \E position \in DOMAIN Blocks : OpenBlock(position)
    BY <1>1, <1>3, <1>9 DEF OpenBlock
<1>10. CASE CloseSkipped \/ CloseSlot \/ CloseCount \/ CloseHeader
    BY <1>1, <1>2, <1>10
       DEF CloseSkipped, CloseSlot, CloseCount, CloseHeader, ClosedWith, Closing, RefuseFirst
<1>11. CASE CloseAttachment \/ CloseAttachments \/ CloseDispatch \/ CloseDispatches
    BY <1>1, <1>2, <1>11
       DEF CloseAttachment, CloseAttachments, CloseDispatch, CloseDispatches, ClosedWith,
           Closing, RefuseFirst
<1>12. CASE CloseRoot
    BY <1>1, <1>12 DEF CloseRoot
<1> QED BY <1>5, <1>6, <1>7, <1>8, <1>9, <1>10, <1>11, <1>12 DEF Next

\* The parser never has more calls open than max_depth allows elements, and
\* one for the document: a document cannot make it recurse further.
THEOREM RecursionIsBounded == Spec => [](Reading => Len(stack) <= MaxDepth + 1)
<1>1. Init => Agreement /\ Within
    <2> SUFFICES ASSUME Init PROVE Agreement /\ Within
        OBVIOUS
    <2>1. elements = 0 /\ depth = 0 /\ MaxElements \in Nat /\ MaxDepth \in Nat
        BY LimitsAssumption DEF Init
    <2> QED BY <2>1, InitAgrees DEF Within
<1>2. Agreement /\ Within /\ [Next]_vars => (Agreement /\ Within)'
    BY NextAgrees, NextWithin
<1>3. Agreement /\ Within => (Reading => Len(stack) <= MaxDepth + 1)
    <2> SUFFICES ASSUME Agreement, Within, Reading PROVE Len(stack) <= MaxDepth + 1
        OBVIOUS
    <2>1. Len(stack) \in Nat \ {0} /\ depth = Height(stack)
        BY DEF Agreement, Calls, IsSequence
    <2>2. Skips(stack) => stack[Len(stack)].open \in Nat \ {0}
        BY <2>1 DEF Agreement, Calls, Skips
    <2>3. Height(stack) >= Len(stack) - 1
        BY <2>1, <2>2 DEF Height
    <2> QED BY <2>1, <2>3, LimitsAssumption DEF Within
<1> QED BY <1>1, <1>2, <1>3, PTL DEF Spec

-----------------------------------------------------------------------------
(* Types.  Frame, part by part, and which function calls which.            *)

DocumentFrame == [at : {"document"}]

ConsignmentFrame ==
    [at : {"KULDEMENY"}, header : SUBSET Header, receipt : BOOLEAN,
     openings : BOOLEAN, returned : BOOLEAN, dispatches : Seq(Dispatch),
     seen : SUBSET DOMAIN Blocks, reached : DOMAIN Blocks]

SlotsFrame == [at : {"FEJRESZ", "MELLEKLET"}, slots : Slots]

DispatchesFrame == [at : {"EXPEDIALASOK"}, list : Seq(Dispatch)]

DispatchFrame ==
    [at : {"EXPEDIALAS"}, count : SUBSET Int, attachments : Seq(AttachmentReference),
     present : BOOLEAN, handling : BOOLEAN]

AttachmentsFrame == [at : {"MELLEKLETEK"}, list : Seq(AttachmentReference)]

LeafFrame == [at : {"leaf"}, field : Field, text : Text]

SkipFrame == [at : {"skip"}, open : Nat \ {0}]

LEMMA Frames ==
    Frame = DocumentFrame \cup ConsignmentFrame \cup SlotsFrame \cup DispatchesFrame
              \cup DispatchFrame \cup AttachmentsFrame \cup LeafFrame \cup SkipFrame
BY DEF Frame, DocumentFrame, ConsignmentFrame, SlotsFrame, DispatchesFrame, DispatchFrame,
       AttachmentsFrame, LeafFrame, SkipFrame

\* The function a call is of says what its variables are.
LEMMA FrameOf ==
    ASSUME NEW f \in Frame
    PROVE  /\ f.at = "document" => f \in DocumentFrame
           /\ f.at = "KULDEMENY" => f \in ConsignmentFrame
           /\ f.at \in {"FEJRESZ", "MELLEKLET"} => f \in SlotsFrame
           /\ f.at = "EXPEDIALASOK" => f \in DispatchesFrame
           /\ f.at = "EXPEDIALAS" => f \in DispatchFrame
           /\ f.at = "MELLEKLETEK" => f \in AttachmentsFrame
           /\ f.at = "leaf" => f \in LeafFrame
           /\ f.at = "skip" => f \in SkipFrame
<1>1. f \in DocumentFrame => f.at = "document"
    BY DEF DocumentFrame
<1>2. f \in ConsignmentFrame => f.at = "KULDEMENY"
    BY DEF ConsignmentFrame
<1>3. f \in SlotsFrame => f.at \in {"FEJRESZ", "MELLEKLET"}
    BY DEF SlotsFrame
<1>4. f \in DispatchesFrame => f.at = "EXPEDIALASOK"
    BY DEF DispatchesFrame
<1>5. f \in DispatchFrame => f.at = "EXPEDIALAS"
    BY DEF DispatchFrame
<1>6. f \in AttachmentsFrame => f.at = "MELLEKLETEK"
    BY DEF AttachmentsFrame
<1>7. f \in LeafFrame => f.at = "leaf"
    BY DEF LeafFrame
<1>8. f \in SkipFrame => f.at = "skip"
    BY DEF SkipFrame
<1> QED BY <1>1, <1>2, <1>3, <1>4, <1>5, <1>6, <1>7, <1>8, Frames

\* The functions one may call.
Callees(at) ==
    CASE at = "document" -> {"KULDEMENY"}
      [] at = "KULDEMENY" -> {"FEJRESZ", "EXPEDIALASOK", "skip"}
      [] at \in {"FEJRESZ", "MELLEKLET"} -> {"leaf", "skip"}
      [] at = "EXPEDIALASOK" -> {"EXPEDIALAS", "skip"}
      [] at = "EXPEDIALAS" -> {"leaf", "MELLEKLETEK", "skip"}
      [] at = "MELLEKLETEK" -> {"MELLEKLET", "skip"}
      [] OTHER -> {}

TypedStack(s) ==
    /\ s \in Seq(Frame) /\ Len(s) > 0 /\ s[1].at = "document"
    /\ \A i \in 2 .. Len(s) : s[i].at \in Callees(s[i - 1].at)

LEMMA TypedPush ==
    ASSUME NEW s, TypedStack(s), NEW c \in Frame, c.at \in Callees(s[Len(s)].at)
    PROVE  TypedStack(Append(s, c))
<1> DEFINE t == Append(s, c)
<1>1. /\ t \in Seq(Frame) /\ Len(t) = Len(s) + 1 /\ t[Len(s) + 1] = c
      /\ \A i \in 1 .. Len(s) : t[i] = s[i]
    BY DEF TypedStack
<1>2. Len(s) \in Nat \ {0}
    BY DEF TypedStack
<1> HIDE DEF t
<1>3. ASSUME NEW i \in 2 .. Len(t) PROVE t[i].at \in Callees(t[i - 1].at)
    <2>1. CASE i = Len(s) + 1
        BY <1>1, <1>2, <2>1
    <2>2. CASE i # Len(s) + 1
        BY SMTT(30), <1>1, <1>2, <2>2 DEF TypedStack
    <2> QED BY <2>1, <2>2
<1>4. t[1].at = "document"
    BY <1>1, <1>2 DEF TypedStack
<1>5. TypedStack(t)
    BY <1>1, <1>2, <1>3, <1>4 DEF TypedStack
<1> QED BY <1>5 DEF t

LEMMA TypedContinue ==
    ASSUME NEW s, TypedStack(s), NEW f \in Frame, f.at = s[Len(s)].at
    PROVE  TypedStack([s EXCEPT ![Len(s)] = f])
<1> DEFINE t == [s EXCEPT ![Len(s)] = f]
<1>1. Len(s) \in Nat \ {0}
    BY DEF TypedStack
<1>2. /\ t \in Seq(Frame) /\ Len(t) = Len(s) /\ t[Len(s)] = f
      /\ \A i \in 1 .. Len(s) : t[i].at = s[i].at
    BY <1>1 DEF TypedStack
<1> HIDE DEF t
<1>3. TypedStack(t)
    BY <1>1, <1>2 DEF TypedStack
<1> QED BY <1>3 DEF t

LEMMA TypedFront ==
    ASSUME NEW s, TypedStack(s), Len(s) > 1
    PROVE  /\ TypedStack(Front(s)) /\ Len(Front(s)) = Len(s) - 1
           /\ \A i \in 1 .. Len(s) - 1 : Front(s)[i] = s[i]
<1> DEFINE t == Front(s)
<1>1. Len(s) \in Nat \ {0}
    BY DEF TypedStack
<1>2. /\ t \in Seq(Frame) /\ Len(t) = Len(s) - 1
      /\ \A i \in 1 .. Len(s) - 1 : t[i] = s[i]
    BY <1>1 DEF TypedStack, Front
<1> HIDE DEF t
<1>3. TypedStack(t)
    BY <1>1, <1>2 DEF TypedStack
<1> QED BY <1>2, <1>3 DEF t

LEMMA TypedReturn ==
    ASSUME NEW s, TypedStack(s), Len(s) > 1, NEW f \in Frame, f.at = s[Len(s) - 1].at
    PROVE  TypedStack([Front(s) EXCEPT ![Len(s) - 1] = f])
<1>1. /\ TypedStack(Front(s)) /\ Len(Front(s)) = Len(s) - 1
      /\ \A i \in 1 .. Len(s) - 1 : Front(s)[i] = s[i]
    BY TypedFront
<1>2. Len(s) \in Nat /\ Len(s) - 1 \in 1 .. Len(s) - 1
    BY DEF TypedStack
<1> DEFINE t == Front(s)
<1> HIDE DEF t
<1>3. TypedStack([t EXCEPT ![Len(t)] = f])
    BY <1>1, <1>2, TypedContinue DEF t
<1> QED BY <1>1, <1>3 DEF t

LEMMA TypedNoted ==
    ASSUME NEW s, TypedStack(s), NEW f \in Frame, f.at = s[Len(s)].at, f.at # "document",
           NEW c \in Frame, c.at \in Callees(f.at)
    PROVE  TypedStack(Append(Front(s), f) \o <<c>>)
<1> DEFINE u == [s EXCEPT ![Len(s)] = f]
<1>1. TypedStack(u) /\ Len(u) = Len(s) /\ u[Len(s)] = f
    BY TypedContinue DEF TypedStack
<1>2. Append(Front(s), f) = u
    <2>1. Len(s) \in Nat \ {0} /\ s \in Seq(Frame) /\ Len(s) > 1
        BY DEF TypedStack
    <2>2. /\ Front(s) \in Seq(Frame) /\ Len(Front(s)) = Len(s) - 1
          /\ \A i \in 1 .. Len(s) - 1 : Front(s)[i] = s[i]
        BY TypedFront, <2>1 DEF TypedStack
    <2> DEFINE t == Append(Front(s), f)
    <2>3. /\ t \in Seq(Frame) /\ Len(t) = Len(s) /\ t[Len(s)] = f
          /\ \A i \in 1 .. Len(s) - 1 : t[i] = s[i]
        BY <2>1, <2>2
    <2>4. u \in Seq(Frame) /\ \A i \in 1 .. Len(s) - 1 : u[i] = s[i]
        BY <2>1
    <2> HIDE DEF t, u
    <2>5. \A i \in 1 .. Len(s) : t[i] = u[i]
        BY <1>1, <2>1, <2>3, <2>4
    <2>6. t = u
        BY <1>1, <2>1, <2>3, <2>4, <2>5
    <2> QED BY <2>6 DEF t
<1> HIDE DEF u
<1>3. Append(Front(s), f) \o <<c>> = Append(u, c)
    BY <1>1, <1>2 DEF TypedStack
<1> QED BY <1>1, <1>3, TypedPush

\* The innermost call and its caller.
LEMMA TypedCalls ==
    ASSUME TypedStack(stack)
    PROVE  /\ Len(stack) \in Nat \ {0} /\ Top \in Frame
           /\ Top.at # "document" =>
                Len(stack) > 1 /\ Caller \in Frame /\ Top.at \in Callees(Caller.at)
BY DEF TypedStack, Top, Caller

-----------------------------------------------------------------------------

OutcomeTyped ==
    \/ outcome = [kind |-> "reading"]
    \/ outcome \in [kind : {"accepted"}, value : Metadata]
    \/ outcome \in [kind : {"refused"}, code : Code, field : SUBSET Field]

CountersTyped ==
    /\ document \in Seq(Event)
    /\ next \in 1 .. Len(document) + 1
    /\ elements \in Nat /\ depth \in Nat /\ text \in Nat
    /\ pending \in BOOLEAN

Typed == CountersTyped /\ unknown \in Nat /\ TypedStack(stack) /\ OutcomeTyped

\* What an opened element that passes looks like.
LEMMA OpenPasses ==
    ASSUME CountersTyped, ~AtEnd, IsOpen(Upcoming), Passes(Upcoming)
    PROVE  /\ Upcoming \in OpenEvent
           /\ OpenRefusal(Upcoming) = "none"
           /\ \A k \in 1 .. Len(Upcoming.attributes) : Upcoming.attributes[k].value \in Nat
<1>1. Upcoming \in Event
    BY DEF CountersTyped, AtEnd, Upcoming
<1>2. Upcoming \in OpenEvent
    BY <1>1 DEF Event, IsOpen, OpenEvent, TextEvent, ReferenceEvent, DeclarationEvent,
                PlainEvent, BrokenEvent
<1>3. OpenRefusal(Upcoming) = "none"
    <2>1. /\ ~IsText(Upcoming)
          /\ Upcoming.kind \notin {"doctype", "instruction", "declaration", "broken"}
        BY DEF IsOpen, IsText
    <2>2. Refusal(Upcoming) = OpenRefusal(Upcoming)
        BY <2>1, Zenon DEF Refusal
    <2> QED BY <2>2 DEF Passes
<1>4. ReadOut(Upcoming) = "none"
    BY <1>3 DEF OpenRefusal
<1> DEFINE over(k) == TextBefore(Upcoming, k) + Upcoming.attributes[k].raw > MaxText
           wrong == {k \in DOMAIN Upcoming.attributes : over(k) \/ Upcoming.attributes[k].value < 0}
<1>5. wrong = {}
    BY <1>4 DEF ReadOut
<1>6. Upcoming.attributes \in Seq(Attribute)
    BY <1>2 DEF OpenEvent
<1>7. ASSUME NEW k \in 1 .. Len(Upcoming.attributes) PROVE Upcoming.attributes[k].value \in Nat
    <2>1. k \in DOMAIN Upcoming.attributes /\ Upcoming.attributes[k] \in Attribute
        BY <1>6
    <2>2. ~(Upcoming.attributes[k].value < 0)
        BY <1>5, <2>1
    <2> QED BY <2>1, <2>2 DEF Attribute
<1> QED BY <1>2, <1>3, <1>7

LEMMA OpenedTyped ==
    ASSUME CountersTyped, ~AtEnd, IsOpen(Upcoming), Passes(Upcoming), Opened,
           document' = document
    PROVE  CountersTyped'
<1> DEFINE a == Upcoming.attributes
<1>1. a \in Seq(Attribute) /\ \A k \in 1 .. Len(a) : a[k].value \in Nat
    BY OpenPasses DEF OpenEvent
<1> HIDE DEF a
<1>2. ValueBytes(a, Len(a)) \in Nat
    BY <1>1, ValueBytesFacts
<1>3. text' = text + ValueBytes(a, Len(a))
    <2>1. (Len(a) + 1) - 1 = Len(a)
        BY <1>1
    <2> QED BY <2>1 DEF Opened, TextBefore, a
<1> QED BY <1>2, <1>3 DEF CountersTyped, Opened, AtEnd

LEMMA ClosedTyped ==
    ASSUME CountersTyped, Closing, Closed, document' = document
    PROVE  CountersTyped'
<1>1. /\ pending' = FALSE /\ next' = IF pending THEN next ELSE next + 1
      /\ depth' = IF depth = 0 THEN 0 ELSE depth - 1
      /\ elements' = elements /\ text' = text
    BY DEF Closed
<1>2. next' \in 1 .. Len(document) + 1
    <2>1. next \in 1 .. Len(document) + 1 /\ Len(document) \in Nat
        BY DEF CountersTyped
    <2>2. ~pending => ~(next > Len(document))
        BY DEF Closing, AtEnd
    <2> QED BY <1>1, <2>1, <2>2
<1>3. depth' \in Nat
    BY <1>1 DEF CountersTyped
<1> QED BY <1>1, <1>2, <1>3 DEF CountersTyped

LEMMA RefusedTyped ==
    ASSUME Typed, NEW code \in Code, NEW about \in SUBSET Field, Refuse(code, about)
    PROVE  Typed'
BY DEF Typed, CountersTyped, Refuse, OutcomeTyped, counters

\* Whatever the scanner refuses for is one of the codes.
LEMMA RefusalIsCode ==
    ASSUME NEW e \in Event
    PROVE  Refusal(e) \in Code \cup {"none"}
<1> DEFINE Codes == Code \cup {"none"}
<1>1. OpenRefusal(e) \in Codes
    <2>1. CountedOut(e) \in Codes
        BY DEF CountedOut, Code
    <2>2. ReadOut(e) \in Codes
        BY DEF ReadOut, Code
    <2> QED BY <2>1, <2>2 DEF OpenRefusal, Code
<1>2. TextRefusal(e) \in Codes
    BY DEF TextRefusal, Code
<1>3. e.kind = "declaration" => e.encoding \in {"none", "utf8", "other", "broken"}
    BY DEF Event, OpenEvent, TextEvent, ReferenceEvent, DeclarationEvent, PlainEvent, BrokenEvent
<1>4. e.kind = "broken" => e.error \in {"Escape", "Encoding", "InvalidAttr", "Namespace", "Syntax"}
    BY DEF Event, OpenEvent, TextEvent, ReferenceEvent, DeclarationEvent, PlainEvent, BrokenEvent
<1>5. e.kind = "broken" => ReaderError[e.error] \in Codes
    <2>1. \A x \in {"Escape", "Encoding", "InvalidAttr", "Namespace", "Syntax"} :
             ReaderError[x] \in Codes
        BY DEF ReaderError, Code
    <2> QED BY <1>4, <2>1
<1>6. e.kind = "declaration" =>
         [none |-> "none", utf8 |-> "none", other |-> "unsupported.encoding",
          broken |-> "malformed.attribute"][e.encoding] \in Codes
    BY <1>3 DEF Code
<1>7. "unsupported.dtd" \in Codes /\ "unsupported.processing_instruction" \in Codes
      /\ "none" \in Codes
    BY DEF Code
<1> HIDE DEF Codes
<1>8. Refusal(e) \in Codes
    BY <1>1, <1>2, <1>5, <1>6, <1>7 DEF Refusal
<1> QED BY <1>8 DEF Codes

\* The calls that are pushed.
LEMMA FreshFrames ==
    /\ ConsignmentCall \in ConsignmentFrame
    /\ DispatchCall \in DispatchFrame
    /\ SkipCall \in SkipFrame
    /\ \A at \in {"FEJRESZ", "MELLEKLET"} : SlotsCall(at) \in SlotsFrame
    /\ ListCall("EXPEDIALASOK") \in DispatchesFrame
    /\ ListCall("MELLEKLETEK") \in AttachmentsFrame
    /\ \A field \in Field : LeafCall(field) \in LeafFrame
<1>1. 1 \in DOMAIN Blocks
    BY DEF Blocks
<1>2. ConsignmentCall \in ConsignmentFrame
    BY <1>1 DEF ConsignmentCall, ConsignmentFrame, Absent
<1>3. DispatchCall \in DispatchFrame
    BY DEF DispatchCall, DispatchFrame, Absent
<1>4. SkipCall \in SkipFrame
    BY DEF SkipCall, SkipFrame
<1>5. [f \in Field |-> Absent] \in Slots
    BY DEF Slots, Absent
<1>6. \A at \in {"FEJRESZ", "MELLEKLET"} : SlotsCall(at) \in SlotsFrame
    BY <1>5 DEF SlotsCall, SlotsFrame
<1>7. ListCall("EXPEDIALASOK") \in DispatchesFrame /\ ListCall("MELLEKLETEK") \in AttachmentsFrame
    BY DEF ListCall, DispatchesFrame, AttachmentsFrame
<1>8. \A field \in Field : LeafCall(field) \in LeafFrame
    BY DEF LeafCall, LeafFrame, Text
<1> QED BY <1>2, <1>3, <1>4, <1>6, <1>7, <1>8

LEMMA InitTyped == ASSUME Init PROVE Typed
<1>1. stack = <<DocumentCall>> /\ DocumentCall \in Frame /\ DocumentCall.at = "document"
    BY Frames DEF Init, DocumentCall, DocumentFrame
<1>2. TypedStack(stack)
    BY <1>1 DEF TypedStack
<1>3. document \in Seq(Event) /\ next = 1 /\ elements = 0 /\ depth = 0 /\ text = 0
      /\ pending = FALSE /\ unknown = 0
    BY DocumentAssumption DEF Init
<1>4. OutcomeTyped
    <2> DEFINE toolong == [kind |-> "refused", code |-> "over_limit.document_bytes",
                           field |-> Absent]
    <2>1. toolong \in [kind : {"refused"}, code : Code, field : SUBSET Field]
        BY DEF Absent, Code
    <2>2. outcome = toolong \/ outcome = [kind |-> "reading"]
        BY DEF Init
    <2> HIDE DEF toolong
    <2> QED BY <2>1, <2>2 DEF OutcomeTyped
<1>5. CountersTyped
    <2>1. Len(document) \in Nat
        BY <1>3
    <2>2. next \in 1 .. Len(document) + 1
        BY <1>3, <2>1
    <2> QED BY <1>3, <2>2 DEF CountersTyped
<1> QED BY <1>2, <1>3, <1>4, <1>5 DEF Typed

\* What an action on an opened element has seen.
LEMMA OpeningTyped ==
    ASSUME Typed, NEW calls, Opening(calls)
    PROVE  /\ CountersTyped /\ ~AtEnd /\ IsOpen(Upcoming) /\ Passes(Upcoming)
           /\ TypedStack(stack) /\ Top \in Frame /\ Top.at \in calls
           /\ Top = stack[Len(stack)] /\ Reading
BY TypedCalls DEF Typed, Opening, Incoming, InCall, Top

LEMMA OpenedForTyped ==
    ASSUME Typed, NEW calls, Opening(calls), NEW c \in Frame, c.at \in Callees(Top.at),
           OpenedFor(c), unknown' \in Nat
    PROVE  Typed'
<1>1. /\ CountersTyped /\ ~AtEnd /\ IsOpen(Upcoming) /\ Passes(Upcoming)
      /\ TypedStack(stack) /\ Top = stack[Len(stack)]
    BY OpeningTyped
<1>2. Opened /\ stack' = Append(stack, c) /\ document' = document /\ outcome' = outcome
    BY DEF OpenedFor, Call
<1>3. CountersTyped'
    BY <1>1, <1>2, OpenedTyped
<1>4. TypedStack(Append(stack, c))
    BY <1>1, TypedPush
<1>5. TypedStack(stack)'
    BY <1>2, <1>4 DEF TypedStack
<1>6. OutcomeTyped'
    BY <1>2 DEF Typed, OutcomeTyped
<1> QED BY <1>3, <1>5, <1>6 DEF Typed

LEMMA NotedTyped ==
    ASSUME Typed, NEW calls, Opening(calls), NEW f \in Frame, f.at = Top.at,
           f.at # "document", NEW c \in Frame, c.at \in Callees(f.at), Opened,
           stack' = Append(Front(stack), f) \o <<c>>,
           UNCHANGED <<document, unknown, outcome>>
    PROVE  Typed'
<1>1. /\ CountersTyped /\ ~AtEnd /\ IsOpen(Upcoming) /\ Passes(Upcoming)
      /\ TypedStack(stack) /\ Top = stack[Len(stack)]
    BY OpeningTyped
<1>2. CountersTyped'
    BY <1>1, OpenedTyped
<1>3. TypedStack(Append(Front(stack), f) \o <<c>>)
    BY <1>1, TypedNoted
<1>4. TypedStack(stack)'
    BY <1>3 DEF TypedStack
<1>5. OutcomeTyped' /\ unknown' \in Nat
    BY DEF Typed, OutcomeTyped
<1> QED BY <1>2, <1>4, <1>5 DEF Typed

LEMMA ClosedWithTyped ==
    ASSUME Typed, Closing, Top.at # "document", NEW f \in Frame, f.at = Caller.at,
           ClosedWith(f)
    PROVE  Typed'
<1>1. CountersTyped /\ TypedStack(stack) /\ Len(stack) > 1 /\ Caller = stack[Len(stack) - 1]
    BY TypedCalls DEF Typed, Caller
<1>2. /\ Closed /\ stack' = [Front(stack) EXCEPT ![Len(stack) - 1] = f]
      /\ document' = document /\ unknown' = unknown /\ outcome' = outcome
    BY DEF ClosedWith, Return
<1>3. CountersTyped'
    BY <1>1, <1>2, ClosedTyped
<1>4. TypedStack([Front(stack) EXCEPT ![Len(stack) - 1] = f])
    BY <1>1, TypedReturn
<1>5. TypedStack(stack)'
    BY <1>2, <1>4 DEF TypedStack
<1>6. OutcomeTyped' /\ unknown' \in Nat
    BY <1>2 DEF Typed, OutcomeTyped
<1> QED BY <1>3, <1>5, <1>6 DEF Typed

-----------------------------------------------------------------------------

LEMMA ScannerRefusesTyped == ASSUME Typed, ScannerRefuses PROVE Typed'
<1>1. Upcoming \in Event
    BY DEF Typed, CountersTyped, ScannerRefuses, Incoming, AtEnd, Upcoming
<1>2. Refusal(Upcoming) \in Code
    BY <1>1, RefusalIsCode DEF ScannerRefuses, Incoming, Passes
<1>3. Refuse(Refusal(Upcoming), Absent) /\ Absent \in SUBSET Field
    BY DEF ScannerRefuses, Absent
<1> QED BY <1>2, <1>3, RefusedTyped

LEMMA PassOverTyped == ASSUME Typed, PassOver PROVE Typed'
<1>1. next' \in 1 .. Len(document) + 1
    BY DEF Typed, CountersTyped, PassOver, Incoming, AtEnd
<1> QED BY <1>1 DEF Typed, CountersTyped, OutcomeTyped, TypedStack, PassOver

LEMMA TakeTextTyped == ASSUME Typed, TakeText PROVE Typed'
<1>1. next \in Nat /\ next' = next + 1 /\ next' \in 1 .. Len(document) + 1
    BY DEF Typed, CountersTyped, TakeText, Incoming, AtEnd
<1>2. Upcoming \in Event /\ IsText(Upcoming)
    BY DEF Typed, CountersTyped, TakeText, Incoming, AtEnd, Upcoming
<1>3. Upcoming.pieces \in Text
    BY <1>2 DEF Event, IsText, OpenEvent, TextEvent, ReferenceEvent, DeclarationEvent,
                PlainEvent, BrokenEvent
<1>4. text' \in Nat
    BY <1>3 DEF Text, Typed, CountersTyped, TakeText
<1>5. CountersTyped'
    BY <1>1, <1>4 DEF Typed, CountersTyped, TakeText
<1>6. TypedStack(stack')
    <2>1. CASE InCall({"leaf"})
        <3> DEFINE f == [Top EXCEPT !.text = @ \o Upcoming.pieces]
        <3>1. Top \in LeafFrame /\ Top = stack[Len(stack)] /\ TypedStack(stack)
            BY <2>1, TypedCalls, FrameOf DEF Typed, InCall, Top
        <3>2. f \in LeafFrame
            <4>1. Top.text \o Upcoming.pieces \in Text
                BY <1>3, <3>1 DEF LeafFrame, Text
            <4> QED BY <3>1, <4>1 DEF LeafFrame
        <3>3. f \in Frame /\ f.at = Top.at
            BY <3>1, <3>2, Frames DEF LeafFrame
        <3>4. stack' = [stack EXCEPT ![Len(stack)] = f]
            BY <2>1 DEF TakeText, Continue
        <3> HIDE DEF f
        <3> QED BY <3>1, <3>3, <3>4, TypedContinue
    <2>2. CASE ~InCall({"leaf"})
        BY <2>2 DEF TakeText, Typed
    <2> QED BY <2>1, <2>2
<1>7. TypedStack(stack)'
    BY <1>6 DEF TypedStack
<1> QED BY <1>5, <1>7 DEF Typed, OutcomeTyped, TakeText

LEMMA EndOfDocumentTyped == ASSUME Typed, EndOfDocument PROVE Typed'
<1>1. Absent \in SUBSET Field /\ Present("KULDEMENY") \in SUBSET Field
    BY DEF Absent, Present, Field
<1>2. "malformed.missing_element" \in Code /\ "malformed.syntax" \in Code
    BY DEF Code
<1> QED BY <1>1, <1>2, RefusedTyped DEF EndOfDocument

LEMMA OpenRootTyped == ASSUME Typed, OpenRoot PROVE Typed'
<1>1. CASE Refuse("unsupported.namespace", Absent)
    BY <1>1, RefusedTyped DEF Code, Absent
<1>2. CASE Refuse("malformed.root_element", Present("KULDEMENY"))
    <2>1. Present("KULDEMENY") \in SUBSET Field /\ "malformed.root_element" \in Code
        BY DEF Present, Field, Code
    <2> QED BY <1>2, <2>1, RefusedTyped
<1>3. CASE OpenedFor(ConsignmentCall) /\ UNCHANGED unknown
    <2>1. Opening({"document"}) /\ Top.at = "document"
        BY OpeningTyped DEF OpenRoot
    <2>2. ConsignmentCall \in Frame /\ ConsignmentCall.at \in Callees(Top.at)
        BY <2>1, FreshFrames, Frames DEF ConsignmentCall, Callees
    <2> QED BY <1>3, <2>1, <2>2, OpenedForTyped DEF Typed
<1> QED BY <1>1, <1>2, <1>3 DEF OpenRoot

LEMMA OpenBlockTyped ==
    ASSUME Typed, NEW position \in DOMAIN Blocks, OpenBlock(position)
    PROVE  Typed'
<1> DEFINE field == Blocks[position]
           accepted == [Top EXCEPT
              !.seen = @ \cup {position}, !.reached = position,
              !.receipt = @ \/ field = "ERKEZTETES", !.openings = @ \/ field = "BONTASOK",
              !.returned = @ \/ field = "TERTIVEVENY"]
           callee == CASE field = "FEJRESZ" -> SlotsCall(field)
                       [] field = "EXPEDIALASOK" -> ListCall(field)
                       [] OTHER -> SkipCall
<1>1. field \in Field
    BY BlockNames DEF Field, Range
<1>2. CASE \E code \in Code : Refuse(code, Present(field))
    BY <1>1, <1>2, RefusedTyped DEF Present
<1>3. CASE Opened /\ stack' = Append(Front(stack), accepted) \o <<callee>>
                /\ UNCHANGED <<document, unknown, outcome>>
    <2>1. Opening({"KULDEMENY"}) /\ Top \in ConsignmentFrame /\ Top.at = "KULDEMENY"
        BY OpeningTyped, FrameOf DEF OpenBlock
    <2>2. accepted \in ConsignmentFrame
        BY ZenonT(30), <2>1 DEF ConsignmentFrame
    <2>3. accepted \in Frame /\ accepted.at = "KULDEMENY"
        BY <2>2, Frames DEF ConsignmentFrame
    <2>4. callee \in Frame /\ callee.at \in {"FEJRESZ", "EXPEDIALASOK", "skip"}
        BY FreshFrames, Frames DEF SlotsFrame, DispatchesFrame, SkipFrame, SlotsCall, ListCall,
                                   SkipCall
    <2>5. Callees("KULDEMENY") = {"FEJRESZ", "EXPEDIALASOK", "skip"}
        BY DEF Callees
    <2> HIDE DEF accepted, callee
    <2> QED BY <1>3, <2>1, <2>3, <2>4, <2>5, NotedTyped
<1>4. "malformed.duplicate_element" \in Code /\ "malformed.element_order" \in Code
    BY DEF Code
<1> QED BY <1>2, <1>3, <1>4 DEF OpenBlock

LEMMA OpenLeafTyped == ASSUME Typed, OpenLeaf PROVE Typed'
<1>1. PICK calls : Opening(calls) /\ calls \subseteq {"FEJRESZ", "MELLEKLET", "EXPEDIALAS"}
    BY DEF OpenLeaf
<1>2. Upcoming.name \in Field
    BY DEF OpenLeaf, Known, Names, Field
<1>3. LeafCall(Upcoming.name) \in Frame /\ LeafCall(Upcoming.name).at = "leaf"
    BY <1>2, FreshFrames, Frames DEF LeafCall
<1>4. "leaf" \in Callees(Top.at)
    BY <1>1, OpeningTyped DEF Callees
<1>5. unknown' \in Nat
    BY DEF Typed, OpenLeaf
<1> QED BY <1>1, <1>3, <1>4, <1>5, OpenedForTyped DEF OpenLeaf

LEMMA OpenDispatchTyped == ASSUME Typed, OpenDispatch PROVE Typed'
<1>1. Opening({"EXPEDIALASOK"}) /\ Top.at = "EXPEDIALASOK" /\ OpenedFor(DispatchCall)
    BY OpeningTyped DEF OpenDispatch
<1>2. DispatchCall \in Frame /\ DispatchCall.at \in Callees(Top.at)
    BY <1>1, FreshFrames, Frames DEF DispatchCall, Callees
<1> QED BY <1>1, <1>2, OpenedForTyped DEF Typed, OpenDispatch

LEMMA OpenAttachmentsTyped == ASSUME Typed, OpenAttachments PROVE Typed'
<1> DEFINE f == [Top EXCEPT !.present = TRUE]
<1>1. Opening({"EXPEDIALAS"}) /\ Top.at = "EXPEDIALAS" /\ Top \in DispatchFrame
    BY OpeningTyped, FrameOf DEF OpenAttachments
<1>2. CASE Refuse("malformed.duplicate_element", Present("MELLEKLETEK"))
    <2>1. Present("MELLEKLETEK") \in SUBSET Field /\ "malformed.duplicate_element" \in Code
        BY DEF Present, Field, Code
    <2> QED BY <1>2, <2>1, RefusedTyped
<1>3. CASE /\ Opened /\ UNCHANGED <<document, unknown, outcome>>
           /\ stack' = Append(Front(stack), f) \o <<ListCall("MELLEKLETEK")>>
    <2>1. f \in Frame /\ f.at = "EXPEDIALAS"
        BY <1>1, Frames DEF DispatchFrame
    <2>2. ListCall("MELLEKLETEK") \in Frame /\ ListCall("MELLEKLETEK").at = "MELLEKLETEK"
        BY FreshFrames, Frames DEF ListCall
    <2>3. "MELLEKLETEK" \in Callees("EXPEDIALAS")
        BY DEF Callees
    <2> HIDE DEF f
    <2> QED BY <1>1, <1>3, <2>1, <2>2, <2>3, NotedTyped
<1> QED BY <1>2, <1>3 DEF OpenAttachments

LEMMA OpenInstructionsTyped == ASSUME Typed, OpenInstructions PROVE Typed'
<1> DEFINE f == [Top EXCEPT !.handling = TRUE]
<1>1. Opening({"EXPEDIALAS"}) /\ Top.at = "EXPEDIALAS" /\ Top \in DispatchFrame
    BY OpeningTyped, FrameOf DEF OpenInstructions
<1>2. f \in Frame /\ f.at = "EXPEDIALAS"
    BY <1>1, Frames DEF DispatchFrame
<1>3. SkipCall \in Frame /\ SkipCall.at \in Callees("EXPEDIALAS")
    BY FreshFrames, Frames DEF SkipCall, Callees
<1>4. /\ Opened /\ UNCHANGED <<document, unknown, outcome>>
      /\ stack' = Append(Front(stack), f) \o <<SkipCall>>
    BY DEF OpenInstructions
<1> HIDE DEF f
<1> QED BY <1>1, <1>2, <1>3, <1>4, NotedTyped

LEMMA OpenAttachmentTyped == ASSUME Typed, OpenAttachment PROVE Typed'
<1>1. Opening({"MELLEKLETEK"}) /\ Top.at = "MELLEKLETEK" /\ OpenedFor(SlotsCall("MELLEKLET"))
    BY OpeningTyped DEF OpenAttachment
<1>2. SlotsCall("MELLEKLET") \in Frame /\ SlotsCall("MELLEKLET").at \in Callees(Top.at)
    BY <1>1, FreshFrames, Frames DEF SlotsCall, Callees
<1> QED BY <1>1, <1>2, OpenedForTyped DEF Typed, OpenAttachment

LEMMA OpenUnknownTyped == ASSUME Typed, OpenUnknown PROVE Typed'
<1>1. PICK calls : /\ Opening(calls)
                   /\ calls \subseteq {"KULDEMENY", "FEJRESZ", "MELLEKLET", "EXPEDIALASOK",
                                       "EXPEDIALAS", "MELLEKLETEK"}
    BY DEF OpenUnknown
<1>2. SkipCall \in Frame /\ SkipCall.at = "skip"
    BY FreshFrames, Frames DEF SkipCall
<1>3. "skip" \in Callees(Top.at)
    BY <1>1, OpeningTyped DEF Callees
<1>4. OpenedFor(SkipCall) /\ unknown' \in Nat
    BY DEF Typed, OpenUnknown, SkipUnknown
<1> QED BY <1>1, <1>2, <1>3, <1>4, OpenedForTyped

LEMMA OpenInLeafTyped == ASSUME Typed, OpenInLeaf PROVE Typed'
<1>1. Top \in LeafFrame
    BY OpeningTyped, FrameOf DEF OpenInLeaf
<1>2. Present(Top.field) \in SUBSET Field /\ "malformed.unexpected_child" \in Code
    BY <1>1 DEF Present, LeafFrame, Code
<1> QED BY <1>2, RefusedTyped DEF OpenInLeaf

LEMMA OpenSkippedTyped == ASSUME Typed, OpenSkipped PROVE Typed'
<1> DEFINE f == [Top EXCEPT !.open = @ + 1]
<1>1. /\ CountersTyped /\ ~AtEnd /\ IsOpen(Upcoming) /\ Passes(Upcoming)
      /\ TypedStack(stack) /\ Top \in SkipFrame /\ Top = stack[Len(stack)]
    BY OpeningTyped, FrameOf DEF OpenSkipped
<1>2. f \in Frame /\ f.at = Top.at
    BY <1>1, Frames DEF SkipFrame
<1>3. Opened /\ stack' = [stack EXCEPT ![Len(stack)] = f]
      /\ UNCHANGED <<document, unknown, outcome>>
    BY DEF OpenSkipped, Continue
<1> HIDE DEF f
<1>4. TypedStack([stack EXCEPT ![Len(stack)] = f])
    BY <1>1, <1>2, TypedContinue
<1>5. TypedStack(stack)'
    BY <1>3, <1>4 DEF TypedStack
<1>6. CountersTyped'
    BY <1>1, <1>3, OpenedTyped
<1> QED BY <1>3, <1>5, <1>6 DEF Typed, OutcomeTyped

LEMMA CloseSkippedTyped == ASSUME Typed, CloseSkipped PROVE Typed'
<1>1. /\ CountersTyped /\ TypedStack(stack) /\ Top \in SkipFrame /\ Top = stack[Len(stack)]
      /\ Len(stack) > 1 /\ Closing /\ Closed /\ UNCHANGED <<document, unknown, outcome>>
      /\ Top \in Frame
    <2>1. Top.at = "skip" /\ TypedStack(stack) /\ CountersTyped
        BY DEF CloseSkipped, InCall, Typed
    <2> QED BY <2>1, TypedCalls, FrameOf DEF CloseSkipped, Top
<1>2. CountersTyped'
    BY <1>1, ClosedTyped
<1>3. TypedStack(stack')
    <2>1. CASE Top.open = 1
        BY <1>1, <2>1, TypedFront DEF CloseSkipped
    <2>2. CASE Top.open # 1
        <3> DEFINE f == [Top EXCEPT !.open = @ - 1]
        <3>1. f \in SkipFrame /\ f.at = Top.at
            BY <1>1, <2>2 DEF SkipFrame
        <3>2. f \in Frame /\ f.at = stack[Len(stack)].at
            BY <1>1, <3>1, Frames
        <3>3. stack' = [stack EXCEPT ![Len(stack)] = f]
            BY <2>2 DEF CloseSkipped, Continue
        <3> HIDE DEF f
        <3> QED BY <1>1, <3>2, <3>3, TypedContinue
    <2> QED BY <2>1, <2>2
<1>4. TypedStack(stack)'
    BY <1>3 DEF TypedStack
<1> QED BY <1>1, <1>2, <1>4 DEF Typed, OutcomeTyped

LEMMA ClosingLeaf ==
    ASSUME Typed, Closing, InCall({"leaf"})
    PROVE  /\ Top \in LeafFrame /\ Top.at # "document" /\ Caller \in Frame
           /\ Caller.at \in {"FEJRESZ", "MELLEKLET", "EXPEDIALAS"}
           /\ Present(Trim(Top.text)) \in SUBSET Text
<1>1. Top \in Frame /\ Top.at = "leaf" /\ Caller \in Frame /\ Top.at \in Callees(Caller.at)
    BY TypedCalls DEF Typed, InCall
<1>2. Top \in LeafFrame
    BY <1>1, FrameOf
<1>3. Caller.at \in {"FEJRESZ", "MELLEKLET", "EXPEDIALAS"}
    BY <1>1 DEF Callees
<1>4. Trim(Top.text) \in Text
    BY <1>2, TrimIsText DEF LeafFrame
<1> QED BY <1>1, <1>2, <1>3, <1>4 DEF Present

LEMMA DuplicateTyped ==
    ASSUME Typed, NEW field \in Field, NEW code \in Code, Refuse(code, Present(field))
    PROVE  Typed'
BY RefusedTyped DEF Present

LEMMA CloseSlotTyped == ASSUME Typed, CloseSlot PROVE Typed'
<1> DEFINE f == [Caller EXCEPT !.slots[Top.field] = Present(Trim(Top.text))]
<1>1. /\ Closing /\ InCall({"leaf"}) /\ Caller.at # "EXPEDIALAS" /\ Top \in LeafFrame
      /\ Caller \in Frame /\ Caller.at \in {"FEJRESZ", "MELLEKLET"} /\ Top.at # "document"
      /\ Present(Trim(Top.text)) \in SUBSET Text
    BY ClosingLeaf DEF CloseSlot
<1>2. Top.field \in Field /\ "malformed.duplicate_element" \in Code
    BY <1>1 DEF LeafFrame, Code
<1>3. CASE Refuse("malformed.duplicate_element", Present(Top.field))
    BY <1>2, <1>3, DuplicateTyped
<1>4. CASE ClosedWith(f)
    <2>1. Caller \in SlotsFrame
        BY <1>1, FrameOf
    <2>2. f \in SlotsFrame /\ f.at = Caller.at
        BY <1>1, <1>2, <2>1 DEF SlotsFrame, Slots
    <2>3. f \in Frame
        BY <2>2, Frames
    <2> HIDE DEF f
    <2> QED BY <1>1, <1>4, <2>2, <2>3, ClosedWithTyped
<1> QED BY <1>3, <1>4 DEF CloseSlot

LEMMA CloseCountTyped == ASSUME Typed, CloseCount PROVE Typed'
<1> DEFINE f == [Caller EXCEPT !.count = Present(Numeral[Trim(Top.text)])]
<1>1. /\ Closing /\ InCall({"leaf"}) /\ Caller.at = "EXPEDIALAS" /\ Top \in LeafFrame
      /\ Caller \in Frame /\ Top.at # "document"
    BY ClosingLeaf DEF CloseCount
<1>2. /\ Top.field \in Field
      /\ "malformed.duplicate_element" \in Code /\ "malformed.integer" \in Code
    BY <1>1 DEF LeafFrame, Code
<1>3. CASE \E code \in Code : Refuse(code, Present(Top.field))
    BY <1>2, <1>3, DuplicateTyped
<1>4. CASE ClosedWith(f) /\ Trim(Top.text) \in DOMAIN Numeral
    <2>1. Caller \in DispatchFrame
        BY <1>1, FrameOf
    <2>2. Present(Numeral[Trim(Top.text)]) \in SUBSET Int
        BY <1>4, NumeralAssumption DEF Present
    <2>3. f \in DispatchFrame /\ f.at = Caller.at
        BY <2>1, <2>2 DEF DispatchFrame
    <2>4. f \in Frame
        BY <2>3, Frames
    <2> HIDE DEF f
    <2> QED BY <1>1, <1>4, <2>3, <2>4, ClosedWithTyped
<1> QED BY <1>2, <1>3, <1>4 DEF CloseCount

-----------------------------------------------------------------------------
(* Checks: a sequence of sets of codes and fields.                         *)

IsChecks(checks) == \A i \in DOMAIN checks : checks[i] \subseteq Code \X Field

LEMMA RefuseFirstTyped ==
    ASSUME Typed, NEW checks, DOMAIN checks \subseteq Nat, IsChecks(checks),
           Wrong(checks) # {}, RefuseFirst(checks)
    PROVE  Typed'
<1> DEFINE first == The(checks[Min(Wrong(checks))])
<1>1. Min(Wrong(checks)) \in Wrong(checks)
    <2>1. Wrong(checks) \subseteq Nat
        BY DEF Wrong
    <2> QED BY <2>1, MinIs
<1>2. first \in Code \X Field
    <2>1. checks[Min(Wrong(checks))] # {} /\ checks[Min(Wrong(checks))] \subseteq Code \X Field
        BY <1>1 DEF Wrong, IsChecks
    <2> QED BY <2>1, TheIs
<1>3. Refuse(first[1], Present(first[2]))
    BY DEF RefuseFirst
<1> HIDE DEF first
<1>4. first[1] \in Code /\ first[2] \in Field
    BY <1>2
<1> QED BY <1>3, <1>4, DuplicateTyped

LEMMA HeaderChecksTyped ==
    ASSUME NEW slots
    PROVE  DOMAIN HeaderChecks(slots) = 1 .. 8 /\ IsChecks(HeaderChecks(slots))
<1>1. DOMAIN HeaderChecks(slots) = 1 .. 8
    BY DEF HeaderChecks
<1>2. \A f \in Field : /\ <<"malformed.missing_element", f>> \in Code \X Field
                       /\ <<"malformed.enumeration", f>> \in Code \X Field
                       /\ <<"malformed.boolean", f>> \in Code \X Field
    BY DEF Code
<1>3. HeaderRequired \subseteq Field /\ "TESZT" \in Field
    BY DEF Field, HeaderOptional
<1> DEFINE missing(f) == IF slots[f] = Absent THEN {<<"malformed.missing_element", f>>} ELSE {}
           strange(f, tokens) ==
              IF slots[f] \subseteq tokens THEN {} ELSE {<<"malformed.enumeration", f>>}
           boolean == IF slots["TESZT"] \subseteq Yes \cup No THEN {}
                      ELSE {<<"malformed.boolean", "TESZT">>}
<1>4. \A f \in HeaderRequired : missing(f) \subseteq Code \X Field
    BY <1>2, <1>3
<1>5. \A f \in HeaderRequired : \A tokens : strange(f, tokens) \subseteq Code \X Field
    BY <1>2, <1>3
<1>6. boolean \subseteq Code \X Field
    BY <1>2, <1>3
<1>7. HeaderChecks(slots) =
        <<missing("KRX_VERZIOSZAM"), missing("FORRASRENDSZER_AZONOSITO"),
          strange("FORRASRENDSZER_AZONOSITO", Tokens(SourceSystem)),
          missing("KULDEMENY_AZONOSITO"), missing("KULDEMENY_LETREHOZASANAK_IDEJE"),
          missing("KULDEMENY_TIPUS"), strange("KULDEMENY_TIPUS", Tokens(ConsignmentKind)),
          boolean>>
    BY DEF HeaderChecks
<1>8. {"KRX_VERZIOSZAM", "FORRASRENDSZER_AZONOSITO", "KULDEMENY_AZONOSITO",
       "KULDEMENY_LETREHOZASANAK_IDEJE", "KULDEMENY_TIPUS"} \subseteq HeaderRequired
    BY DEF HeaderRequired
<1> HIDE DEF missing, strange, boolean
<1>9. IsChecks(HeaderChecks(slots))
    BY <1>1, <1>4, <1>5, <1>6, <1>7, <1>8 DEF IsChecks
<1> QED BY <1>1, <1>9

LEMMA AttachmentChecksTyped ==
    ASSUME NEW slots
    PROVE  DOMAIN AttachmentChecks(slots) = 1 .. 5 /\ IsChecks(AttachmentChecks(slots))
<1>1. DOMAIN AttachmentChecks(slots) = 1 .. 5
    BY DEF AttachmentChecks
<1>2. \A f \in Field : /\ <<"malformed.missing_element", f>> \in Code \X Field
                       /\ <<"malformed.integer", f>> \in Code \X Field
    BY DEF Code
<1>3. AttachmentRequired \subseteq Field
    BY DEF Field
<1> DEFINE missing(f) == IF slots[f] = Absent THEN {<<"malformed.missing_element", f>>} ELSE {}
           integer == IF slots["CSATOLMANY_SZAMA"] \subseteq DOMAIN Numeral THEN {}
                      ELSE {<<"malformed.integer", "CSATOLMANY_SZAMA">>}
<1>4. \A f \in AttachmentRequired : missing(f) \subseteq Code \X Field
    BY <1>2, <1>3
<1>5. integer \subseteq Code \X Field
    BY <1>2, <1>3 DEF AttachmentRequired
<1>6. AttachmentChecks(slots) =
        <<missing("CSATOLMANY_SZAMA"), integer, missing("FAJL_NEV"), missing("MERET"),
          missing("ELHELYEZKEDES")>>
    BY DEF AttachmentChecks
<1>7. {"CSATOLMANY_SZAMA", "FAJL_NEV", "MERET", "ELHELYEZKEDES"} \subseteq AttachmentRequired
    BY DEF AttachmentRequired
<1> HIDE DEF missing, integer
<1>8. IsChecks(AttachmentChecks(slots))
    BY <1>1, <1>4, <1>5, <1>6, <1>7 DEF IsChecks
<1> QED BY <1>1, <1>8

LEMMA HeaderTyped ==
    ASSUME NEW slots \in Slots, Wrong(HeaderChecks(slots)) = {}
    PROVE  IntoHeader(slots) \in Header
<1>1. \A f \in Field : slots[f] \subseteq Text
    BY DEF Slots
<1>2. \A i \in 1 .. 8 : HeaderChecks(slots)[i] = {}
    BY HeaderChecksTyped DEF Wrong
<1> DEFINE missing(f) == IF slots[f] = Absent THEN {<<"malformed.missing_element", f>>} ELSE {}
           strange(f, tokens) ==
              IF slots[f] \subseteq tokens THEN {} ELSE {<<"malformed.enumeration", f>>}
           boolean == IF slots["TESZT"] \subseteq Yes \cup No THEN {}
                      ELSE {<<"malformed.boolean", "TESZT">>}
<1>3. HeaderChecks(slots) =
        <<missing("KRX_VERZIOSZAM"), missing("FORRASRENDSZER_AZONOSITO"),
          strange("FORRASRENDSZER_AZONOSITO", Tokens(SourceSystem)),
          missing("KULDEMENY_AZONOSITO"), missing("KULDEMENY_LETREHOZASANAK_IDEJE"),
          missing("KULDEMENY_TIPUS"), strange("KULDEMENY_TIPUS", Tokens(ConsignmentKind)),
          boolean>>
    BY DEF HeaderChecks
<1>4. /\ missing("KRX_VERZIOSZAM") = {} /\ missing("FORRASRENDSZER_AZONOSITO") = {}
      /\ strange("FORRASRENDSZER_AZONOSITO", Tokens(SourceSystem)) = {}
      /\ missing("KULDEMENY_AZONOSITO") = {} /\ missing("KULDEMENY_LETREHOZASANAK_IDEJE") = {}
      /\ missing("KULDEMENY_TIPUS") = {}
      /\ strange("KULDEMENY_TIPUS", Tokens(ConsignmentKind)) = {}
    <2> HIDE DEF missing, strange, boolean
    <2> QED BY <1>2, <1>3
<1>5. \A f : missing(f) = {} => slots[f] # {}
    BY DEF Absent
<1>6. \A f, tokens : strange(f, tokens) = {} => slots[f] \subseteq tokens
    OBVIOUS
<1> HIDE DEF missing, strange, boolean
<1>7. {"KRX_VERZIOSZAM", "FORRASRENDSZER_AZONOSITO", "KULDEMENY_AZONOSITO",
       "KULDEMENY_LETREHOZASANAK_IDEJE", "KULDEMENY_TIPUS", "VONALKOD",
       "KULDEMENY_HIVATKOZASI_AZONOSITO", "HIBAKOD", "KULDEMENY_MEGJEGYZES"} \subseteq Field
    BY DEF Field, HeaderRequired, HeaderOptional
<1>8. /\ The(slots["KRX_VERZIOSZAM"]) \in Text /\ The(slots["KULDEMENY_AZONOSITO"]) \in Text
      /\ The(slots["KULDEMENY_LETREHOZASANAK_IDEJE"]) \in Text
    <2>1. \A f \in Field : slots[f] # {} => The(slots[f]) \in Text
        BY <1>1, TheIs
    <2> QED BY <1>4, <1>5, <1>7, <2>1
<1>9. Head(The(slots["FORRASRENDSZER_AZONOSITO"])) \in SourceSystem
    <2>1. The(slots["FORRASRENDSZER_AZONOSITO"]) \in Tokens(SourceSystem)
        BY <1>4, <1>5, <1>6, TheIs
    <2>2. PICK v \in SourceSystem : The(slots["FORRASRENDSZER_AZONOSITO"]) = <<v>>
        BY <2>1 DEF Tokens
    <2> QED BY <2>2
<1>10. Head(The(slots["KULDEMENY_TIPUS"])) \in ConsignmentKind
    <2>1. The(slots["KULDEMENY_TIPUS"]) \in Tokens(ConsignmentKind)
        BY <1>4, <1>5, <1>6, TheIs
    <2>2. PICK v \in ConsignmentKind : The(slots["KULDEMENY_TIPUS"]) = <<v>>
        BY <2>1 DEF Tokens
    <2> QED BY <2>2
<1>11. /\ slots["VONALKOD"] \in SUBSET Text
       /\ slots["KULDEMENY_HIVATKOZASI_AZONOSITO"] \in SUBSET Text
       /\ slots["HIBAKOD"] \in SUBSET Text /\ slots["KULDEMENY_MEGJEGYZES"] \in SUBSET Text
    BY <1>1, <1>7
<1> QED BY <1>8, <1>9, <1>10, <1>11 DEF IntoHeader, Header

LEMMA AttachmentTyped ==
    ASSUME NEW slots \in Slots, Wrong(AttachmentChecks(slots)) = {}
    PROVE  IntoAttachment(slots) \in AttachmentReference
<1>1. \A f \in Field : slots[f] \subseteq Text
    BY DEF Slots
<1>2. \A i \in 1 .. 5 : AttachmentChecks(slots)[i] = {}
    BY AttachmentChecksTyped DEF Wrong
<1> DEFINE missing(f) == IF slots[f] = Absent THEN {<<"malformed.missing_element", f>>} ELSE {}
           integer == IF slots["CSATOLMANY_SZAMA"] \subseteq DOMAIN Numeral THEN {}
                      ELSE {<<"malformed.integer", "CSATOLMANY_SZAMA">>}
<1>3. AttachmentChecks(slots) =
        <<missing("CSATOLMANY_SZAMA"), integer, missing("FAJL_NEV"), missing("MERET"),
          missing("ELHELYEZKEDES")>>
    BY DEF AttachmentChecks
<1>4. /\ missing("CSATOLMANY_SZAMA") = {} /\ integer = {} /\ missing("FAJL_NEV") = {}
      /\ missing("MERET") = {} /\ missing("ELHELYEZKEDES") = {}
    <2> HIDE DEF missing, integer
    <2> QED BY <1>2, <1>3
<1>5. \A f : missing(f) = {} => slots[f] # {}
    BY DEF Absent
<1>6. integer = {} => slots["CSATOLMANY_SZAMA"] \subseteq DOMAIN Numeral
    OBVIOUS
<1> HIDE DEF missing, integer
<1>7. {"CSATOLMANY_SZAMA", "FAJL_NEV", "MERET", "ELHELYEZKEDES", "MELLEKLET_LEIRASA",
       "MENNYISEG", "MENNYISEGI_EGYSEG"} \subseteq Field
    BY DEF Field, AttachmentRequired, AttachmentOptional
<1>8. /\ The(slots["FAJL_NEV"]) \in Text /\ The(slots["MERET"]) \in Text
      /\ The(slots["ELHELYEZKEDES"]) \in Text
    <2>1. \A f \in Field : slots[f] # {} => The(slots[f]) \in Text
        BY <1>1, TheIs
    <2> QED BY <1>4, <1>5, <1>7, <2>1
<1>9. Numeral[The(slots["CSATOLMANY_SZAMA"])] \in Int
    <2>1. The(slots["CSATOLMANY_SZAMA"]) \in DOMAIN Numeral
        BY <1>4, <1>5, <1>6, TheIs
    <2> QED BY <2>1, NumeralAssumption
<1>10. /\ slots["MELLEKLET_LEIRASA"] \in SUBSET Text /\ slots["MENNYISEG"] \in SUBSET Text
       /\ slots["MENNYISEGI_EGYSEG"] \in SUBSET Text
    BY <1>1, <1>7
<1> QED BY <1>8, <1>9, <1>10 DEF IntoAttachment, AttachmentReference

\* The call that ends, and the one it returns to.
LEMMA ClosingCalls ==
    ASSUME Typed, NEW calls, InCall(calls), "document" \notin calls
    PROVE  /\ Top \in Frame /\ Top.at \in calls /\ Top.at # "document"
           /\ Caller \in Frame /\ Top.at \in Callees(Caller.at)
BY TypedCalls DEF Typed, InCall

LEMMA CloseHeaderTyped == ASSUME Typed, CloseHeader PROVE Typed'
<1> DEFINE f == [Caller EXCEPT !.header = Present(IntoHeader(Top.slots))]
           checks == HeaderChecks(Top.slots)
<1>1. /\ Closing /\ Top \in SlotsFrame /\ Top.at = "FEJRESZ" /\ Top.at # "document"
      /\ Caller \in ConsignmentFrame /\ Caller.at = "KULDEMENY"
    <2>1. /\ Closing /\ Top \in Frame /\ Top.at = "FEJRESZ" /\ Caller \in Frame
          /\ Top.at \in Callees(Caller.at)
        BY ClosingCalls DEF CloseHeader
    <2>2. Caller.at = "KULDEMENY"
        BY <2>1 DEF Callees
    <2> QED BY <2>1, <2>2, FrameOf
<1>2. CASE Wrong(checks) # {}
    <2>1. DOMAIN checks \subseteq Nat /\ IsChecks(checks)
        BY HeaderChecksTyped
    <2>2. RefuseFirst(checks)
        BY <1>2 DEF CloseHeader
    <2> HIDE DEF checks
    <2> QED BY <1>2, <2>1, <2>2, RefuseFirstTyped
<1>3. CASE Wrong(checks) = {}
    <2>1. IntoHeader(Top.slots) \in Header
        BY <1>1, <1>3, HeaderTyped DEF SlotsFrame
    <2>2. f \in ConsignmentFrame /\ f.at = Caller.at
        BY <1>1, <2>1 DEF ConsignmentFrame, Present
    <2>3. ClosedWith(f)
        BY <1>3 DEF CloseHeader
    <2>4. f \in Frame
        BY <2>2, Frames
    <2> HIDE DEF f
    <2> QED BY <1>1, <2>2, <2>3, <2>4, ClosedWithTyped
<1> QED BY <1>2, <1>3

LEMMA CloseAttachmentTyped == ASSUME Typed, CloseAttachment PROVE Typed'
<1> DEFINE f == [Caller EXCEPT !.list = Append(@, IntoAttachment(Top.slots))]
           checks == AttachmentChecks(Top.slots)
<1>1. /\ Closing /\ Top \in SlotsFrame /\ Top.at = "MELLEKLET" /\ Top.at # "document"
      /\ Caller \in AttachmentsFrame /\ Caller.at = "MELLEKLETEK"
    <2>1. /\ Closing /\ Top \in Frame /\ Top.at = "MELLEKLET" /\ Caller \in Frame
          /\ Top.at \in Callees(Caller.at)
        BY ClosingCalls DEF CloseAttachment
    <2>2. Caller.at = "MELLEKLETEK"
        BY <2>1 DEF Callees
    <2> QED BY <2>1, <2>2, FrameOf
<1>2. CASE Wrong(checks) # {}
    <2>1. DOMAIN checks \subseteq Nat /\ IsChecks(checks)
        BY AttachmentChecksTyped
    <2>2. RefuseFirst(checks)
        BY <1>2 DEF CloseAttachment
    <2> HIDE DEF checks
    <2> QED BY <1>2, <2>1, <2>2, RefuseFirstTyped
<1>3. CASE Wrong(checks) = {}
    <2>1. IntoAttachment(Top.slots) \in AttachmentReference
        BY <1>1, <1>3, AttachmentTyped DEF SlotsFrame
    <2>2. f \in AttachmentsFrame /\ f.at = Caller.at
        BY <1>1, <2>1 DEF AttachmentsFrame
    <2>3. ClosedWith(f)
        BY <1>3 DEF CloseAttachment
    <2>4. f \in Frame
        BY <2>2, Frames
    <2> HIDE DEF f
    <2> QED BY <1>1, <2>2, <2>3, <2>4, ClosedWithTyped
<1> QED BY <1>2, <1>3

LEMMA CloseAttachmentsTyped == ASSUME Typed, CloseAttachments PROVE Typed'
<1> DEFINE f == [Caller EXCEPT !.attachments = Top.list]
<1>1. /\ Closing /\ Top \in AttachmentsFrame /\ Top.at # "document" /\ ClosedWith(f)
      /\ Caller \in DispatchFrame
    <2>1. /\ Closing /\ Top \in Frame /\ Top.at = "MELLEKLETEK" /\ Caller \in Frame
          /\ Top.at \in Callees(Caller.at) /\ ClosedWith(f)
        BY ClosingCalls DEF CloseAttachments
    <2>2. Caller.at = "EXPEDIALAS"
        BY <2>1 DEF Callees
    <2> QED BY <2>1, <2>2, FrameOf
<1>2. f \in DispatchFrame /\ f.at = Caller.at
    BY <1>1 DEF DispatchFrame, AttachmentsFrame
<1>3. f \in Frame
    BY <1>2, Frames
<1> HIDE DEF f
<1> QED BY <1>1, <1>2, <1>3, ClosedWithTyped

LEMMA CloseDispatchTyped == ASSUME Typed, CloseDispatch PROVE Typed'
<1> DEFINE f == [Caller EXCEPT !.list = Append(@, IntoDispatch(Top))]
<1>1. /\ Closing /\ Top \in DispatchFrame /\ Top.at # "document" /\ ClosedWith(f)
      /\ Caller \in DispatchesFrame
    <2>1. /\ Closing /\ Top \in Frame /\ Top.at = "EXPEDIALAS" /\ Caller \in Frame
          /\ Top.at \in Callees(Caller.at) /\ ClosedWith(f)
        BY ClosingCalls DEF CloseDispatch
    <2>2. Caller.at = "EXPEDIALASOK"
        BY <2>1 DEF Callees
    <2> QED BY <2>1, <2>2, FrameOf
<1>2. IntoDispatch(Top) \in Dispatch
    BY <1>1 DEF DispatchFrame, IntoDispatch, Dispatch
<1>3. f \in DispatchesFrame /\ f.at = Caller.at
    BY <1>1, <1>2 DEF DispatchesFrame
<1>4. f \in Frame
    BY <1>3, Frames
<1> HIDE DEF f
<1> QED BY <1>1, <1>3, <1>4, ClosedWithTyped

LEMMA CloseDispatchesTyped == ASSUME Typed, CloseDispatches PROVE Typed'
<1> DEFINE f == [Caller EXCEPT !.dispatches = Top.list]
<1>1. /\ Closing /\ Top \in DispatchesFrame /\ Top.at # "document" /\ ClosedWith(f)
      /\ Caller \in ConsignmentFrame
    <2>1. /\ Closing /\ Top \in Frame /\ Top.at = "EXPEDIALASOK" /\ Caller \in Frame
          /\ Top.at \in Callees(Caller.at) /\ ClosedWith(f)
        BY ClosingCalls DEF CloseDispatches
    <2>2. Caller.at = "KULDEMENY"
        BY <2>1 DEF Callees
    <2> QED BY <2>1, <2>2, FrameOf
<1>2. f \in ConsignmentFrame /\ f.at = Caller.at
    BY <1>1 DEF ConsignmentFrame, DispatchesFrame
<1>3. f \in Frame
    BY <1>2, Frames
<1> HIDE DEF f
<1> QED BY <1>1, <1>2, <1>3, ClosedWithTyped

LEMMA CloseRootTyped == ASSUME Typed, CloseRoot PROVE Typed'
<1>1. /\ Closing /\ Top \in ConsignmentFrame /\ Top = stack[Len(stack)] /\ Len(stack) > 1
      /\ TypedStack(stack) /\ CountersTyped /\ unknown \in Nat
    <2>1. Closing /\ Top.at = "KULDEMENY" /\ TypedStack(stack)
        BY DEF CloseRoot, InCall, Typed
    <2> QED BY <2>1, TypedCalls, FrameOf DEF Typed, Top
<1>2. CASE Refuse("malformed.missing_element", Present("FEJRESZ"))
    <2>1. "FEJRESZ" \in Field /\ "malformed.missing_element" \in Code
        BY BlockNames DEF Field, Code
    <2> QED BY <1>2, <2>1, DuplicateTyped
<1> DEFINE value == [header |-> The(Top.header), receipt_present |-> Top.receipt,
                     openings_present |-> Top.openings,
                     return_receipt_present |-> Top.returned,
                     dispatches |-> Top.dispatches, unknown_elements |-> unknown]
<1>3. CASE /\ Top.header # Absent /\ Closed /\ Accept(value) /\ stack' = Front(stack)
           /\ UNCHANGED <<document, unknown>>
    <2>1. The(Top.header) \in Header
        <3>1. The(Top.header) \in Top.header /\ Top.header \subseteq Header
            BY <1>1, <1>3, TheIs DEF Absent, ConsignmentFrame
        <3> QED BY <3>1
    <2>2. value \in Metadata
        BY <1>1, <2>1 DEF ConsignmentFrame, Metadata
    <2> HIDE DEF value
    <2>3. OutcomeTyped'
        BY <1>3, <2>2 DEF Accept, OutcomeTyped
    <2>4. TypedStack(Front(stack))
        BY <1>1, TypedFront
    <2>5. TypedStack(stack)'
        BY <1>3, <2>4 DEF TypedStack
    <2>6. CountersTyped'
        BY <1>1, <1>3, ClosedTyped
    <2> QED BY <1>1, <1>3, <2>3, <2>5, <2>6 DEF Typed
<1> QED BY <1>2, <1>3 DEF CloseRoot

-----------------------------------------------------------------------------

LEMMA NextTyped == ASSUME Typed, [Next]_vars PROVE Typed'
<1>1. CASE Returned \/ UNCHANGED vars
    BY <1>1 DEF Returned, vars, Typed, CountersTyped, TypedStack, OutcomeTyped
<1>2. CASE ScannerRefuses \/ PassOver \/ TakeText \/ EndOfDocument
    BY <1>2, ScannerRefusesTyped, PassOverTyped, TakeTextTyped, EndOfDocumentTyped
<1>3. CASE OpenRoot \/ OpenLeaf \/ OpenDispatch \/ OpenAttachments \/ OpenInstructions
    BY <1>3, OpenRootTyped, OpenLeafTyped, OpenDispatchTyped, OpenAttachmentsTyped,
       OpenInstructionsTyped
<1>4. CASE \E position \in DOMAIN Blocks : OpenBlock(position)
    BY <1>4, OpenBlockTyped
<1>5. CASE OpenAttachment \/ OpenUnknown \/ OpenInLeaf \/ OpenSkipped
    BY <1>5, OpenAttachmentTyped, OpenUnknownTyped, OpenInLeafTyped, OpenSkippedTyped
<1>6. CASE CloseSkipped \/ CloseSlot \/ CloseCount \/ CloseHeader
    BY <1>6, CloseSkippedTyped, CloseSlotTyped, CloseCountTyped, CloseHeaderTyped
<1>7. CASE CloseAttachment \/ CloseAttachments \/ CloseDispatch \/ CloseDispatches \/ CloseRoot
    BY <1>7, CloseAttachmentTyped, CloseAttachmentsTyped, CloseDispatchTyped,
       CloseDispatchesTyped, CloseRootTyped
<1> QED BY <1>1, <1>2, <1>3, <1>4, <1>5, <1>6, <1>7 DEF Next

\* The parser's calls hold what their functions' variables may, whoever
\* called them, and what parse() returns is a value of model.rs or one of the
\* codes of error.rs about one of its fields.
THEOREM TypeCorrect == Spec => []TypeOK
<1>1. Init => Typed
    BY InitTyped
<1>2. Typed /\ [Next]_vars => Typed'
    BY NextTyped
<1>3. Typed => TypeOK
    <2> SUFFICES ASSUME Typed PROVE TypeOK
        OBVIOUS
    <2>1. stack \in Seq(Frame) /\ stack # <<>>
        BY DEF Typed, TypedStack
    <2> QED BY <2>1 DEF Typed, CountersTyped, OutcomeTyped, TypeOK
<1> QED BY <1>1, <1>2, <1>3, PTL DEF Spec

-----------------------------------------------------------------------------
(* Where the reader stands.                                                *)

\* The call for the k-th open element, or the skipping one, fits its part.
Matches(s, k, part) ==
    IF k < Len(s) /\ s[k + 1].at # "skip" THEN part = s[k + 1].at
    ELSE part \notin DOMAIN Grammar

PartOf(i) == Tree(document).part[i]

Placed ==
    Reading =>
        /\ Above(document, next, 0) = 0
        /\ \A k \in 1 .. Level(document, next) :
              /\ Above(document, next, k) # 0
              /\ Matches(stack, k, PartOf(Above(document, next, k)))

Counted ==
    Reading =>
        /\ elements = Cardinality({i \in 1 .. next - 1 : IsOpen(document[i])})
        /\ text = Charged(document, next) /\ text <= MaxText
        /\ unknown = Cardinality(At(Tree(document), "unknown") \cap 1 .. next - 1)

Standing == Typed /\ Agreement /\ Within /\ Placed /\ Counted

\* As far as element K, the calls of the one stack are those of the other.
SameCalls(s, t, K) ==
    \A k \in 1 .. K : /\ k < Len(s) <=> k < Len(t)
                      /\ k < Len(s) => t[k + 1].at = s[k + 1].at

LEMMA SameMatches ==
    ASSUME NEW s, NEW t, NEW K, SameCalls(s, t, K), NEW k \in 1 .. K, NEW part,
           Matches(s, k, part)
    PROVE  Matches(t, k, part)
BY DEF SameCalls, Matches

\* How many elements are open, by the stack.
LEMMA LevelIs ==
    ASSUME Typed, Agreement, Reading
    PROVE  /\ Level(document, next) \in Int /\ Len(stack) \in Nat \ {0}
           /\ Level(document, next) = depth - (IF pending THEN 1 ELSE 0)
           /\ Top.at # "skip" => depth = Len(stack) - 1
           /\ Top.at = "skip" => /\ Top.open \in Nat \ {0} /\ Len(stack) > 1
                                 /\ depth = Len(stack) - 1 + (Top.open - 1)
           /\ Top.at = "document" => Len(stack) = 1
<1>1. next \in Nat \ {0} /\ pending \in BOOLEAN /\ Calls(stack) /\ depth = Height(stack)
      /\ depth = Level(document, next) + (IF pending THEN 1 ELSE 0)
    BY DEF Agreement
<1>2. Level(document, next) \in Int
    BY <1>1, LevelStep
<1>3. TypedStack(stack) /\ Top = stack[Len(stack)] /\ Len(stack) \in Nat \ {0}
    BY TypedCalls DEF Typed, Top
<1>4. Level(document, next) = depth - (IF pending THEN 1 ELSE 0)
    BY <1>1, <1>2
<1>5. Top.at # "skip" => depth = Len(stack) - 1
    BY <1>1, <1>3 DEF Height, Skips
<1>6. Top.at = "skip" => /\ Top.open \in Nat \ {0} /\ Len(stack) > 1
                         /\ depth = Len(stack) - 1 + (Top.open - 1)
    BY <1>1, <1>3 DEF Height, Skips, Calls
<1>7. Top.at = "document" => Len(stack) = 1
    <2> SUFFICES ASSUME Top.at = "document", Len(stack) # 1 PROVE FALSE
        OBVIOUS
    <2>1. Len(stack) \in 2 .. Len(stack)
        <3>1. \A n \in Nat \ {0} : n # 1 => n \in 2 .. n
            OBVIOUS
        <3> QED BY <1>3, <3>1
    <2>2. "document" \in Callees(stack[Len(stack) - 1].at)
        BY <1>3, <2>1 DEF TypedStack
    <2> QED BY <2>2 DEF Callees
<1> QED BY <1>2, <1>3, <1>4, <1>5, <1>6, <1>7

\* What the next event is to the grammar, by the innermost call.
LEMMA PartOfNext ==
    ASSUME Standing, Reading, ~pending, ~AtEnd
    PROVE  /\ next \in 1 .. Len(document) /\ next \in DOMAIN Tree(document).part
           /\ ~IsOpen(Upcoming) => PartOf(next) = "none"
           /\ IsOpen(Upcoming) =>
                 PartOf(next) = CASE Top.at = "document" -> "KULDEMENY"
                                  [] Top.at = "skip" -> "below"
                                  [] OTHER -> Part(Top.at, Upcoming)
<1> DEFINE L == Level(document, next)
           a == Above(document, next, L)
<1>1. document \in Seq(Event) /\ next \in 1 .. Len(document)
    BY DEF Standing, Typed, CountersTyped, AtEnd
<1>2. /\ next \in DOMAIN Tree(document).part
      /\ PartOf(next) = PartAt(document, Tree(document).part, next)
    BY <1>1, TreeParts DEF PartOf
<1>3. PartOf(next) = IF ~IsOpen(Upcoming) THEN "none"
                     ELSE IF a = 0 THEN "KULDEMENY" ELSE Part(PartOf(a), Upcoming)
    BY <1>2 DEF PartAt, PartOf, Upcoming
<1>4. /\ L \in Int /\ Len(stack) \in Nat \ {0} /\ L = depth
      /\ Top.at # "skip" => depth = Len(stack) - 1
      /\ Top.at = "skip" => /\ Top.open \in Nat \ {0} /\ Len(stack) > 1
                            /\ depth = Len(stack) - 1 + (Top.open - 1)
      /\ Top.at = "document" => Len(stack) = 1
    BY LevelIs DEF Standing
<1>5. Top = stack[Len(stack)] /\ (Top.at # "document" => Len(stack) > 1)
    BY TypedCalls DEF Top, Standing, Typed
<1>6. Above(document, next, 0) = 0 /\ \A k \in 1 .. L :
         Above(document, next, k) # 0 /\ Matches(stack, k, PartOf(Above(document, next, k)))
    BY DEF Standing, Placed
<1>7. CASE Top.at = "document"
    <2>1. L = 0
        BY <1>4, <1>7
    <2>2. a = 0
        BY <1>6, <2>1
    <2> HIDE DEF L, a
    <2> QED BY <1>1, <1>2, <1>3, <1>7, <2>2
<1>8. CASE Top.at = "skip"
    <2>1. L \in 1 .. L /\ L >= Len(stack) - 1
        BY <1>4, <1>8
    <2>2. a # 0 /\ Matches(stack, L, PartOf(a))
        BY <1>6, <2>1
    <2>3. L < Len(stack) => L + 1 = Len(stack)
        BY <1>4, <2>1
    <2> HIDE DEF L, a
    <2>4. PartOf(a) \notin DOMAIN Grammar
        BY <1>5, <1>8, <2>2, <2>3 DEF Matches
    <2>5. Part(PartOf(a), Upcoming) = "below"
        BY <2>4 DEF Part
    <2> QED BY <1>1, <1>2, <1>3, <1>8, <2>2, <2>5
<1>9. CASE Top.at \notin {"document", "skip"}
    <2>1. L \in 1 .. L /\ L = Len(stack) - 1
        BY <1>4, <1>5, <1>9
    <2>2. a # 0 /\ Matches(stack, L, PartOf(a))
        BY <1>6, <2>1
    <2>3. L < Len(stack) /\ L + 1 = Len(stack)
        BY <1>4, <2>1
    <2> HIDE DEF L, a
    <2>4. PartOf(a) = Top.at
        BY <1>5, <1>9, <2>2, <2>3 DEF Matches
    <2> QED BY <1>1, <1>2, <1>3, <1>9, <2>2, <2>4
<1> QED BY <1>7, <1>8, <1>9

-----------------------------------------------------------------------------

\* One event further in the document.
LEMMA CountedStep ==
    ASSUME Standing, Reading, ~pending, ~AtEnd, document' = document, next' = next + 1,
           elements' = elements + (IF IsOpen(Upcoming) THEN 1 ELSE 0),
           text' = text + ValueOf(Upcoming), text' <= MaxText,
           unknown' = unknown + (IF PartOf(next) = "unknown" THEN 1 ELSE 0)
    PROVE  Counted'
<1>1. document \in Seq(Event) /\ next \in 1 .. Len(document) /\ next \in Nat \ {0}
      /\ next \in DOMAIN Tree(document).part
    BY PartOfNext DEF Standing, Typed, CountersTyped
<1>2. text' = Charged(document', next')
    <2>1. Charged(document, next + 1) = Charged(document, next) + ValueOf(Upcoming)
        BY <1>1, ChargedSteps DEF Upcoming
    <2> QED BY <2>1 DEF Standing, Counted
<1>3. elements' = Cardinality({i \in 1 .. next' - 1 : IsOpen(document'[i])})
    <2> DEFINE S == {i \in Nat : IsOpen(document[i])}
    <2>1. Cardinality(S \cap 1 .. next) =
             Cardinality(S \cap 1 .. next - 1) + (IF next \in S THEN 1 ELSE 0)
        <3> HIDE DEF S
        <3> QED BY <1>1, PrefixCount
    <2>2. next \in S <=> IsOpen(Upcoming)
        BY <1>1 DEF Upcoming
    <2>3. S \cap 1 .. next - 1 = {i \in 1 .. next - 1 : IsOpen(document[i])}
        BY <1>1
    <2>4. S \cap 1 .. next = {i \in 1 .. next' - 1 : IsOpen(document'[i])}
        <3>1. next' - 1 = next
            BY <1>1
        <3> QED BY <1>1, <3>1
    <2>5. elements = Cardinality({i \in 1 .. next - 1 : IsOpen(document[i])})
        BY DEF Standing, Counted
    <2> HIDE DEF S
    <2> QED BY <2>1, <2>2, <2>3, <2>4, <2>5
<1>4. unknown' = Cardinality(At(Tree(document'), "unknown") \cap 1 .. next' - 1)
    <2> DEFINE S == At(Tree(document), "unknown")
    <2>1. Cardinality(S \cap 1 .. next) =
             Cardinality(S \cap 1 .. next - 1) + (IF next \in S THEN 1 ELSE 0)
        <3> HIDE DEF S
        <3> QED BY <1>1, PrefixCount
    <2>2. next \in S <=> PartOf(next) = "unknown"
        BY <1>1 DEF At, PartOf
    <2>3. unknown = Cardinality(S \cap 1 .. next - 1)
        BY DEF Standing, Counted
    <2>4. next' - 1 = next
        BY <1>1
    <2> HIDE DEF S
    <2>5. unknown' = Cardinality(S \cap 1 .. next)
        BY <2>1, <2>2, <2>3
    <2> QED BY <2>4, <2>5 DEF S
<1> QED BY <1>2, <1>3, <1>4 DEF Counted

LEMMA PlacedStep ==
    ASSUME Standing, Reading, ~pending, ~AtEnd, document' = document, next' = next + 1,
           NEW K, SameCalls(stack, stack', K), K <= Level(document, next), K \in Int,
           Upcoming.kind = "start" =>
              K = Level(document, next) /\ Matches(stack', K + 1, PartOf(next)),
           Upcoming.kind # "start" => K >= Level(document, next + 1)
    PROVE  Placed'
<1> DEFINE L == Level(document, next)
<1>1. next \in Nat \ {0} /\ Upcoming = document[next]
    BY DEF Standing, Typed, CountersTyped, Upcoming
<1>2. L \in Int /\ L >= 0
    BY LevelIs DEF Standing
<1>3. /\ Level(document, next + 1) = L
           + (IF Upcoming.kind = "start" THEN 1 ELSE IF Upcoming.kind = "end" THEN -1 ELSE 0)
    BY <1>1, LevelStep
<1>4. \A k : Above(document, next + 1, k) =
                IF Upcoming.kind = "start" /\ L = k - 1 THEN next ELSE Above(document, next, k)
    BY <1>1, AboveStep
<1>5. Above(document, next, 0) = 0 /\ \A k \in 1 .. L :
         Above(document, next, k) # 0 /\ Matches(stack, k, PartOf(Above(document, next, k)))
    BY DEF Standing, Placed
<1> HIDE DEF L
<1>6. Above(document, next + 1, 0) = 0
    BY <1>2, <1>4, <1>5
<1>7. ASSUME NEW k \in 1 .. Level(document, next + 1)
      PROVE  /\ Above(document, next + 1, k) # 0
             /\ Matches(stack', k, PartOf(Above(document, next + 1, k)))
    <2>1. CASE Upcoming.kind = "start" /\ k = L + 1
        <3>1. Above(document, next + 1, k) = next
            BY <1>2, <1>4, <2>1
        <3> QED BY <1>1, <2>1, <3>1 DEF L
    <2>2. CASE ~(Upcoming.kind = "start" /\ k = L + 1)
        <3>1. k \in 1 .. K
            BY <1>2, <1>3, <2>2 DEF L
        <3>2. k \in 1 .. L /\ ~(Upcoming.kind = "start" /\ L = k - 1)
            BY <1>2, <2>2, <3>1 DEF L
        <3>3. Above(document, next + 1, k) = Above(document, next, k)
            BY <1>4, <3>2
        <3>4. Matches(stack, k, PartOf(Above(document, next, k)))
            BY <1>5, <3>2
        <3>5. Matches(stack', k, PartOf(Above(document, next, k)))
            BY <3>1, <3>4, SameMatches
        <3> QED BY <1>5, <3>2, <3>3, <3>5
    <2> QED BY <2>1, <2>2
<1>8. \A i : PartOf(i)' = PartOf(i)
    BY DEF PartOf
<1> QED BY <1>6, <1>7, <1>8 DEF Placed, PartOf

-----------------------------------------------------------------------------
(* Opened elements.                                                        *)

\* What an opened element is worth, and that it stays below the ceiling.
LEMMA OpenedText ==
    ASSUME Standing, NEW calls, Opening(calls), Opened
    PROVE  /\ text' = text + ValueOf(Upcoming) /\ text' <= MaxText
           /\ Reading /\ ~pending /\ ~AtEnd /\ IsOpen(Upcoming) /\ Top.at \in calls
           /\ next' = next + 1 /\ elements' = elements + 1
           /\ Upcoming.kind \in {"start", "empty"}
<1> DEFINE a == Upcoming.attributes
<1>1. /\ CountersTyped /\ Reading /\ ~pending /\ ~AtEnd /\ IsOpen(Upcoming) /\ Passes(Upcoming)
      /\ Top.at \in calls
    BY OpeningTyped DEF Standing, Opening, Incoming
<1>2. /\ a \in Seq(Attribute) /\ OpenRefusal(Upcoming) = "none"
      /\ \A k \in 1 .. Len(a) : a[k].value \in Nat
    BY <1>1, OpenPasses DEF OpenEvent
<1>3. CountedOut(Upcoming) = "none" /\ ReadOut(Upcoming) = "none"
    BY <1>2 DEF OpenRefusal
<1>4. \A k \in DOMAIN a : ~(a[k].raw < 0)
    <2> DEFINE wrong == {k \in DOMAIN a : k > MaxAttributes \/ a[k].raw < 0}
    <2>1. wrong = {}
        BY <1>3 DEF CountedOut
    <2> QED BY <2>1
<1>5. \A k \in DOMAIN a : ~(TextBefore(Upcoming, k) + a[k].raw > MaxText)
    <2> DEFINE over(k) == TextBefore(Upcoming, k) + a[k].raw > MaxText
               wrong == {k \in DOMAIN a : over(k) \/ a[k].value < 0}
    <2>1. wrong = {}
        BY <1>3 DEF ReadOut
    <2> QED BY <2>1
<1>6. text \in Nat /\ text <= MaxText /\ MaxText \in Nat
    BY <1>1, LimitsAssumption DEF Standing, Counted, CountersTyped
<1>7. \A k : TextBefore(Upcoming, k) = text + ValueBytes(a, k - 1)
    BY DEF TextBefore
<1>8. text' = text + ValueBytes(a, Len(a)) /\ ValueOf(Upcoming) = ValueBytes(a, Len(a))
    <2>1. (Len(a) + 1) - 1 = Len(a)
        BY <1>2
    <2> QED BY <1>1, <1>7, <2>1 DEF Opened, ValueOf
<1> HIDE DEF a
<1>9. text + ValueBytes(a, Len(a)) <= MaxText
    <2>1. CASE Len(a) = 0
        <3>1. ValueBytes(a, 0) = 0
            BY <1>2, ValueBytesFacts
        <3> QED BY <1>6, <2>1, <3>1
    <2>2. CASE Len(a) # 0
        <3> DEFINE n == Len(a)
        <3>1. n \in 1 .. n /\ n \in 0 .. n /\ n - 1 \in 0 .. n /\ n \in DOMAIN a
            BY <1>2, <2>2
        <3>2. ValueBytes(a, n) = ValueBytes(a, n - 1) + a[n].value /\ ValueBytes(a, n - 1) \in Nat
            BY <1>2, <3>1, ValueBytesFacts
        <3>3. a[n].value \in Nat /\ a[n] \in Attribute
            BY <1>2, <3>1
        <3>4. a[n].raw \in Nat /\ a[n].value <= a[n].raw
            BY <1>4, <3>1, <3>3 DEF Attribute
        <3>5. ~(text + ValueBytes(a, n - 1) + a[n].raw > MaxText)
            BY <1>5, <1>7, <3>1
        <3> HIDE DEF n
        <3>6. text + ValueBytes(a, n) <= MaxText
            BY <1>6, <3>2, <3>3, <3>4, <3>5
        <3> QED BY <3>6 DEF n
    <2> QED BY <2>1, <2>2
<1> QED BY <1>1, <1>8, <1>9 DEF Opened, IsOpen

\* A call for the element, or one that skips it, is on the stack.
LEMMA OpenedStands ==
    ASSUME Standing, NEW calls, Opening(calls), "skip" \notin calls, Opened,
           document' = document,
           NEW c, Len(stack') = Len(stack) + 1, stack'[Len(stack) + 1] = c,
           \A i \in 1 .. Len(stack) : stack'[i].at = stack[i].at,
           c.at # "skip" => PartOf(next) = c.at,
           c.at = "skip" => PartOf(next) \notin DOMAIN Grammar,
           unknown' = unknown + (IF PartOf(next) = "unknown" THEN 1 ELSE 0)
    PROVE  Placed' /\ Counted'
<1>1. /\ text' = text + ValueOf(Upcoming) /\ text' <= MaxText
      /\ Reading /\ ~pending /\ ~AtEnd /\ IsOpen(Upcoming) /\ Top.at # "skip"
      /\ next' = next + 1 /\ elements' = elements + 1
      /\ Upcoming.kind \in {"start", "empty"}
    BY OpenedText
<1>2. Counted'
    BY <1>1, CountedStep
<1> DEFINE K == Len(stack) - 1
<1>3. Level(document, next) = K /\ Len(stack) \in Nat \ {0} /\ K \in Int
    BY <1>1, LevelIs DEF Standing
<1>4. SameCalls(stack, stack', K)
    <2> SUFFICES ASSUME NEW k \in 1 .. K
                 PROVE  /\ k < Len(stack) /\ k < Len(stack')
                        /\ stack'[k + 1].at = stack[k + 1].at
        BY DEF SameCalls
    <2> QED BY <1>3
<1>5. Matches(stack', K + 1, PartOf(next))
    BY <1>3 DEF Matches
<1>6. next \in Nat \ {0} /\ Upcoming = document[next]
    BY DEF Standing, Typed, CountersTyped, Upcoming
<1>7. Upcoming.kind # "start" => K >= Level(document, next + 1)
    <2> SUFFICES ASSUME Upcoming.kind = "empty" PROVE K >= Level(document, next + 1)
        BY <1>1
    <2>1. Level(document, next + 1) = Level(document, next) + 0
        BY <1>6, LevelStep
    <2> QED BY <1>3, <2>1
<1> HIDE DEF K
<1>8. K <= Level(document, next)
    BY <1>3
<1>9. Placed'
    BY <1>1, <1>3, <1>4, <1>5, <1>7, <1>8, PlacedStep
<1> QED BY <1>2, <1>9

LEMMA OpenedForStands ==
    ASSUME Standing, NEW calls, Opening(calls), "skip" \notin calls,
           NEW c, OpenedFor(c),
           c.at # "skip" => PartOf(next) = c.at,
           c.at = "skip" => PartOf(next) \notin DOMAIN Grammar,
           unknown' = unknown + (IF PartOf(next) = "unknown" THEN 1 ELSE 0)
    PROVE  Placed' /\ Counted'
<1>1. stack' = Append(stack, c) /\ Opened /\ document' = document
    BY DEF OpenedFor, Call
<1>2. PICK S : stack \in Seq(S) /\ c \in S
    <2>1. stack \in Seq(Frame)
        BY DEF Standing, Typed, TypedStack
    <2>2. stack \in Seq(Frame \cup {c})
        BY <2>1
    <2> QED BY <2>2
<1>3. /\ Len(stack') = Len(stack) + 1 /\ stack'[Len(stack) + 1] = c
      /\ \A i \in 1 .. Len(stack) : stack'[i].at = stack[i].at
    BY <1>1, <1>2
<1> QED BY <1>1, <1>3, OpenedStands

LEMMA ReplacedLast ==
    ASSUME NEW S, NEW s \in Seq(S), Len(s) > 0, NEW f \in S
    PROVE  LET u == [s EXCEPT ![Len(s)] = f]
           IN  /\ u \in Seq(S) /\ Len(u) = Len(s)
               /\ \A i \in 1 .. Len(s) : u[i] = IF i = Len(s) THEN f ELSE s[i]
<1>1. Len(s) \in Nat \ {0}
    OBVIOUS
<1> QED BY <1>1

\* The innermost call goes on.
LEMMA ContinuedCalls ==
    ASSUME NEW s \in Seq(Frame), Len(s) > 0, NEW f, f.at = s[Len(s)].at
    PROVE  LET t == [s EXCEPT ![Len(s)] = f]
           IN  Len(t) = Len(s) /\ \A i \in 1 .. Len(s) : t[i].at = s[i].at
<1> DEFINE t == [s EXCEPT ![Len(s)] = f]
<1>1. s \in Seq(Frame \cup {f}) /\ f \in Frame \cup {f}
    OBVIOUS
<1>2. /\ Len(t) = Len(s)
      /\ \A i \in 1 .. Len(s) : t[i] = IF i = Len(s) THEN f ELSE s[i]
    BY <1>1, ReplacedLast
<1> HIDE DEF t
<1>3. \A i \in 1 .. Len(s) : t[i].at = s[i].at
    BY <1>2
<1> QED BY <1>2, <1>3 DEF t

LEMMA PushedLast ==
    ASSUME NEW S, NEW u \in Seq(S), NEW c \in S
    PROVE  /\ Len(u \o <<c>>) = Len(u) + 1 /\ (u \o <<c>>)[Len(u) + 1] = c
           /\ \A i \in 1 .. Len(u) : (u \o <<c>>)[i] = u[i]
OBVIOUS

LEMMA NotedStands ==
    ASSUME Standing, NEW calls, Opening(calls), "skip" \notin calls, "document" \notin calls,
           Opened, document' = document,
           NEW f, f.at = Top.at, NEW c,
           stack' = Append(Front(stack), f) \o <<c>>,
           c.at # "skip" => PartOf(next) = c.at,
           c.at = "skip" => PartOf(next) \notin DOMAIN Grammar,
           unknown' = unknown + (IF PartOf(next) = "unknown" THEN 1 ELSE 0)
    PROVE  Placed' /\ Counted'
<1> DEFINE u == [stack EXCEPT ![Len(stack)] = f]
<1>1. Reading /\ Top.at \in calls /\ Calls(stack) /\ Top = stack[Len(stack)]
    BY OpeningSeen DEF Standing
<1>2. Append(Front(stack), f) = u
    BY <1>1, Replaced
<1>3. PICK S : stack \in Seq(S) /\ c \in S /\ f \in S
    <2>1. stack \in Seq(Frame)
        BY DEF Standing, Typed, TypedStack
    <2>2. stack \in Seq(Frame \cup {c, f})
        BY <2>1
    <2> QED BY <2>2
<1>4. u \in Seq(S) /\ Len(u) = Len(stack) /\ \A i \in 1 .. Len(stack) : u[i].at = stack[i].at
    <2>1. f.at = stack[Len(stack)].at
        BY <1>1
    <2>2. /\ u \in Seq(S) /\ Len(u) = Len(stack)
          /\ \A i \in 1 .. Len(stack) : u[i] = IF i = Len(stack) THEN f ELSE stack[i]
        BY <1>1, <1>3, ReplacedLast DEF Calls
    <2> HIDE DEF u
    <2> QED BY <2>1, <2>2
<1> HIDE DEF u
<1>5. stack' = u \o <<c>>
    BY <1>2
<1>6. Len(stack') = Len(stack) + 1 /\ stack'[Len(stack) + 1] = c
    BY <1>3, <1>4, <1>5, PushedLast
<1>7. \A i \in 1 .. Len(stack) : stack'[i] = u[i]
    BY <1>3, <1>4, <1>5, PushedLast
<1>8. \A i \in 1 .. Len(stack) : stack'[i].at = stack[i].at
    BY <1>4, <1>7
<1> QED BY <1>6, <1>8, OpenedStands

\* A refusal, or the end, ends the reading.
LEMMA EndedStands ==
    ASSUME \/ \E code, about : Refuse(code, about)
           \/ \E value : Accept(value)
    PROVE  Placed' /\ Counted'
BY DEF Refuse, Accept, Placed, Counted, Reading

\* An event that opens and ends nothing.
LEMMA PassedStands ==
    ASSUME Standing, Reading, ~pending, ~AtEnd, ~IsOpen(Upcoming), Upcoming.kind # "end",
           document' = document, next' = next + 1, elements' = elements, unknown' = unknown,
           text' = text + ValueOf(Upcoming), text' <= MaxText,
           Len(stack') = Len(stack), \A i \in 1 .. Len(stack) : stack'[i].at = stack[i].at
    PROVE  Placed' /\ Counted'
<1>1. PartOf(next) = "none" /\ unknown \in Nat /\ elements \in Nat
    BY PartOfNext DEF Standing, Typed, CountersTyped
<1>2. Counted'
    <2>1. elements' = elements + (IF IsOpen(Upcoming) THEN 1 ELSE 0)
        BY <1>1
    <2>2. unknown' = unknown + (IF PartOf(next) = "unknown" THEN 1 ELSE 0)
        BY <1>1
    <2> QED BY <2>1, <2>2, CountedStep
<1> DEFINE K == Level(document, next)
<1>3. K \in Int /\ Len(stack) \in Nat \ {0}
    BY LevelIs DEF Standing
<1>4. next \in Nat \ {0} /\ Upcoming = document[next] /\ Upcoming.kind # "start"
    BY DEF Standing, Typed, CountersTyped, Upcoming, IsOpen
<1>5. Level(document, next + 1) = K + 0
    BY <1>4, LevelStep
<1>6. SameCalls(stack, stack', K)
    <2> SUFFICES ASSUME NEW k \in 1 .. K, k < Len(stack)
                 PROVE  stack'[k + 1].at = stack[k + 1].at
        BY DEF SameCalls
    <2>1. k + 1 \in 1 .. Len(stack)
        BY <1>3
    <2> QED BY <2>1
<1>7. K <= Level(document, next) /\ K >= Level(document, next + 1)
    BY <1>3, <1>5
<1> HIDE DEF K
<1>8. Placed'
    BY <1>3, <1>4, <1>6, <1>7, PlacedStep
<1> QED BY <1>2, <1>8

LEMMA PassOverStands == ASSUME Standing, PassOver PROVE Placed' /\ Counted'
<1>1. /\ Reading /\ ~pending /\ ~AtEnd /\ next' = next + 1
      /\ \/ Upcoming.kind \in {"declaration", "comment"}
         \/ IsText(Upcoming) /\ Upcoming.pieces = <<>>
      /\ UNCHANGED <<document, elements, depth, text, pending, stack, unknown, outcome>>
    BY DEF PassOver, Incoming
<1>2. ~IsOpen(Upcoming) /\ Upcoming.kind # "end" /\ ValueOf(Upcoming) = 0
    <2>1. ~IsOpen(Upcoming) /\ Upcoming.kind # "end"
        BY <1>1 DEF IsOpen, IsText
    <2>2. CASE Upcoming.kind \in {"declaration", "comment"}
        BY <2>1, <2>2 DEF ValueOf, IsText
    <2>3. CASE IsText(Upcoming) /\ Upcoming.pieces = <<>>
        BY <2>1, <2>3 DEF ValueOf
    <2> QED BY <1>1, <2>1, <2>2, <2>3
<1>3. text \in Nat /\ text <= MaxText
    BY <1>1 DEF Standing, Typed, CountersTyped, Counted
<1>4. text' = text + ValueOf(Upcoming) /\ text' <= MaxText
    BY <1>1, <1>2, <1>3
<1>5. Len(stack') = Len(stack) /\ \A i \in 1 .. Len(stack) : stack'[i].at = stack[i].at
    BY <1>1
<1> QED BY <1>1, <1>2, <1>4, <1>5, PassedStands

LEMMA TakeTextStands == ASSUME Standing, TakeText PROVE Placed' /\ Counted'
<1>1. /\ Reading /\ ~pending /\ ~AtEnd /\ next' = next + 1 /\ IsText(Upcoming)
      /\ Passes(Upcoming) /\ text' = text + Len(Upcoming.pieces)
      /\ UNCHANGED <<document, elements, unknown>>
    BY DEF TakeText, Incoming
<1>2. ~IsOpen(Upcoming) /\ Upcoming.kind # "end" /\ ValueOf(Upcoming) = Len(Upcoming.pieces)
    <2>1. ~IsOpen(Upcoming) /\ Upcoming.kind # "end"
        BY <1>1 DEF IsOpen, IsText
    <2> QED BY <1>1, <2>1 DEF ValueOf
<1>3. TextRefusal(Upcoming) = "none"
    <2>1. Upcoming.kind \notin {"doctype", "instruction", "declaration", "broken"}
        BY <1>1 DEF IsText
    <2>2. Refusal(Upcoming) = TextRefusal(Upcoming)
        BY <1>1, <1>2, <2>1, Zenon DEF Refusal
    <2> QED BY <1>1, <2>2 DEF Passes
<1>4. ~OverText(IF Upcoming.kind = "reference" THEN Len(Upcoming.pieces) ELSE Upcoming.raw)
    BY <1>3 DEF TextRefusal
<1>5. Upcoming \in Event
    BY <1>1 DEF Standing, Typed, CountersTyped, AtEnd, Upcoming
<1>6. /\ Len(Upcoming.pieces) \in Nat
      /\ Upcoming.kind # "reference" => Upcoming.raw \in Nat /\ Len(Upcoming.pieces) <= Upcoming.raw
    <2>1. Upcoming \in TextEvent \/ Upcoming \in ReferenceEvent
        BY <1>1, <1>5 DEF Event, IsText, OpenEvent, TextEvent, ReferenceEvent, DeclarationEvent,
                          PlainEvent, BrokenEvent
    <2>2. CASE Upcoming \in TextEvent
        BY <2>2 DEF TextEvent, Text
    <2>3. CASE Upcoming \in ReferenceEvent
        BY <2>3 DEF ReferenceEvent, Text
    <2> QED BY <2>1, <2>2, <2>3
<1>7. text \in Nat /\ MaxText \in Nat
    BY LimitsAssumption DEF Standing, Typed, CountersTyped
<1>8. text' <= MaxText
    BY <1>1, <1>4, <1>6, <1>7 DEF OverText
<1>9. Len(stack') = Len(stack) /\ \A i \in 1 .. Len(stack) : stack'[i].at = stack[i].at
    <2>1. CASE InCall({"leaf"})
        <3> DEFINE f == [Top EXCEPT !.text = @ \o Upcoming.pieces]
        <3>1. /\ stack \in Seq(Frame) /\ Len(stack) > 0 /\ Top = stack[Len(stack)]
              /\ Top \in LeafFrame
            BY <2>1, TypedCalls, FrameOf DEF Standing, Typed, TypedStack, InCall, Top
        <3>2. f.at = Top.at
            BY <3>1 DEF LeafFrame
        <3>3. stack' = [stack EXCEPT ![Len(stack)] = f]
            BY <2>1 DEF TakeText, Continue
        <3> HIDE DEF f
        <3> QED BY <3>1, <3>2, <3>3, ContinuedCalls
    <2>2. CASE ~InCall({"leaf"})
        BY <2>2 DEF TakeText
    <2> QED BY <2>1, <2>2
<1> QED BY <1>1, <1>2, <1>8, <1>9, PassedStands

-----------------------------------------------------------------------------

LEMMA OpenRootStands == ASSUME Standing, OpenRoot PROVE Placed' /\ Counted'
<1>1. CASE \E code, about : Refuse(code, about)
    BY <1>1, EndedStands
<1>2. CASE OpenedFor(ConsignmentCall) /\ UNCHANGED unknown
    <2>1. Opening({"document"}) /\ ConsignmentCall.at = "KULDEMENY"
        BY DEF OpenRoot, ConsignmentCall
    <2>2. PartOf(next) = "KULDEMENY"
        BY <1>2, <2>1, OpenedText, PartOfNext DEF OpenedFor
    <2>3. unknown' = unknown + (IF PartOf(next) = "unknown" THEN 1 ELSE 0)
        BY <1>2, <2>2 DEF Standing, Typed
    <2> QED BY <1>2, <2>1, <2>2, <2>3, OpenedForStands
<1> QED BY <1>1, <1>2 DEF OpenRoot

\* The part of an element below one the parser reads.
LEMMA PartOfChild ==
    ASSUME Standing, NEW calls, Opening(calls), Opened, "skip" \notin calls, "document" \notin calls
    PROVE  Top.at \in calls /\ PartOf(next) = Part(Top.at, Upcoming) /\ unknown \in Nat
BY OpenedText, PartOfNext DEF Standing, Typed

LEMMA OpenBlockStands ==
    ASSUME Standing, NEW position \in DOMAIN Blocks, OpenBlock(position)
    PROVE  Placed' /\ Counted'
<1> DEFINE field == Blocks[position]
           accepted == [Top EXCEPT
              !.seen = @ \cup {position}, !.reached = position,
              !.receipt = @ \/ field = "ERKEZTETES", !.openings = @ \/ field = "BONTASOK",
              !.returned = @ \/ field = "TERTIVEVENY"]
           callee == CASE field = "FEJRESZ" -> SlotsCall(field)
                       [] field = "EXPEDIALASOK" -> ListCall(field)
                       [] OTHER -> SkipCall
<1>1. CASE \E code, about : Refuse(code, about)
    BY <1>1, EndedStands
<1>2. CASE Opened /\ stack' = Append(Front(stack), accepted) \o <<callee>>
                /\ UNCHANGED <<document, unknown, outcome>>
    <2>1. Opening({"KULDEMENY"}) /\ Names(field)
        BY DEF OpenBlock
    <2>2. PartOf(next) = Part("KULDEMENY", Upcoming) /\ unknown \in Nat /\ Top.at = "KULDEMENY"
        BY <1>2, <2>1, PartOfChild
    <2>3. field \in Range(Blocks)
        BY DEF Range
    <2>4. PartOf(next) = field
        BY <2>1, <2>2, <2>3, Meanings DEF Names
    <2>5. accepted.at = Top.at
        BY <2>2, OpeningTyped, FrameOf, <2>1 DEF ConsignmentFrame, Standing
    <2>6. callee.at = IF field \in {"FEJRESZ", "EXPEDIALASOK"} THEN field ELSE "skip"
        BY DEF SlotsCall, ListCall, SkipCall
    <2>7. /\ callee.at # "skip" => PartOf(next) = callee.at
          /\ callee.at = "skip" => PartOf(next) \notin DOMAIN Grammar
          /\ PartOf(next) # "unknown"
        <3> HIDE DEF field, callee
        <3> QED BY <2>3, <2>4, <2>6, BlockNames, Meanings
    <2>8. unknown' = unknown + (IF PartOf(next) = "unknown" THEN 1 ELSE 0)
        BY <1>2, <2>2, <2>7
    <2> HIDE DEF accepted, callee, field
    <2> QED BY <1>2, <2>1, <2>5, <2>7, <2>8, NotedStands
<1> QED BY <1>1, <1>2 DEF OpenBlock

LEMMA OpenLeafStands == ASSUME Standing, OpenLeaf PROVE Placed' /\ Counted'
<1>1. /\ OpenedFor(LeafCall(Upcoming.name)) /\ Opened /\ unknown' = unknown
      /\ LeafCall(Upcoming.name).at = "leaf"
    BY DEF OpenLeaf, OpenedFor, LeafCall
<1>2. CASE Opening({"FEJRESZ", "MELLEKLET"}) /\ Known
    <2>1. PartOf(next) = "leaf" /\ unknown \in Nat
        BY <1>1, <1>2, PartOfChild, Meanings DEF Known
    <2> QED BY <1>1, <1>2, <2>1, OpenedForStands
<1>3. CASE Opening({"EXPEDIALAS"}) /\ Names("MELLEKLETEK_SZAMA")
    <2>1. PartOf(next) = "leaf" /\ unknown \in Nat
        BY <1>1, <1>3, PartOfChild, Meanings DEF Names
    <2> QED BY <1>1, <1>3, <2>1, OpenedForStands
<1> QED BY <1>2, <1>3 DEF OpenLeaf

LEMMA OpenDispatchStands == ASSUME Standing, OpenDispatch PROVE Placed' /\ Counted'
<1>1. /\ Opening({"EXPEDIALASOK"}) /\ Names("EXPEDIALAS") /\ OpenedFor(DispatchCall)
      /\ Opened /\ unknown' = unknown /\ DispatchCall.at = "EXPEDIALAS"
    BY DEF OpenDispatch, OpenedFor, DispatchCall
<1>2. PartOf(next) = "EXPEDIALAS" /\ unknown \in Nat
    BY <1>1, PartOfChild, Meanings DEF Names
<1> QED BY <1>1, <1>2, OpenedForStands

LEMMA OpenAttachmentsStands == ASSUME Standing, OpenAttachments PROVE Placed' /\ Counted'
<1> DEFINE f == [Top EXCEPT !.present = TRUE]
<1>1. CASE \E code, about : Refuse(code, about)
    BY <1>1, EndedStands
<1>2. CASE /\ Opened /\ UNCHANGED <<document, unknown, outcome>>
           /\ stack' = Append(Front(stack), f) \o <<ListCall("MELLEKLETEK")>>
    <2>1. /\ Opening({"EXPEDIALAS"}) /\ Names("MELLEKLETEK")
          /\ ListCall("MELLEKLETEK").at = "MELLEKLETEK"
        BY DEF OpenAttachments, ListCall
    <2>2. PartOf(next) = "MELLEKLETEK" /\ unknown \in Nat
        BY <1>2, <2>1, PartOfChild, Meanings DEF Names
    <2>3. f.at = Top.at
        BY <2>1, OpeningTyped, FrameOf DEF DispatchFrame, Standing
    <2> HIDE DEF f
    <2> QED BY <1>2, <2>1, <2>2, <2>3, NotedStands
<1> QED BY <1>1, <1>2 DEF OpenAttachments

LEMMA OpenInstructionsStands == ASSUME Standing, OpenInstructions PROVE Placed' /\ Counted'
<1> DEFINE f == [Top EXCEPT !.handling = TRUE]
<1>1. /\ Opening({"EXPEDIALAS"}) /\ Unqualified /\ Opened /\ SkipCall.at = "skip"
      /\ stack' = Append(Front(stack), f) \o <<SkipCall>>
      /\ UNCHANGED <<document, unknown, outcome>>
    BY DEF OpenInstructions, SkipCall
<1>2. PartOf(next) = "instructions" /\ unknown \in Nat /\ PartOf(next) \notin DOMAIN Grammar
    BY <1>1, PartOfChild, Meanings DEF Unqualified
<1>3. f.at = Top.at
    BY <1>1, OpeningTyped, FrameOf DEF DispatchFrame, Standing
<1> HIDE DEF f
<1> QED BY <1>1, <1>2, <1>3, NotedStands

LEMMA OpenAttachmentStands == ASSUME Standing, OpenAttachment PROVE Placed' /\ Counted'
<1>1. /\ Opening({"MELLEKLETEK"}) /\ Names("MELLEKLET") /\ OpenedFor(SlotsCall("MELLEKLET"))
      /\ Opened /\ unknown' = unknown /\ SlotsCall("MELLEKLET").at = "MELLEKLET"
    BY DEF OpenAttachment, OpenedFor, SlotsCall
<1>2. PartOf(next) = "MELLEKLET" /\ unknown \in Nat
    BY <1>1, PartOfChild, Meanings DEF Names
<1> QED BY <1>1, <1>2, OpenedForStands

LEMMA OpenUnknownStands == ASSUME Standing, OpenUnknown PROVE Placed' /\ Counted'
<1>1. OpenedFor(SkipCall) /\ Opened /\ unknown' = unknown + 1 /\ SkipCall.at = "skip"
    BY DEF OpenUnknown, SkipUnknown, OpenedFor, SkipCall
<1>2. PICK calls : /\ Opening(calls) /\ "skip" \notin calls /\ "document" \notin calls
                   /\ calls \subseteq DOMAIN Grammar
    BY Meanings DEF OpenUnknown
<1>3. PartOf(next) = Part(Top.at, Upcoming) /\ unknown \in Nat /\ Top.at \in DOMAIN Grammar
    BY <1>1, <1>2, PartOfChild
<1>4. \/ Top.at = "KULDEMENY" /\ \A b \in Range(Blocks) : ~Names(b)
      \/ Top.at \in {"FEJRESZ", "MELLEKLET"} /\ ~Known
      \/ Top.at = "EXPEDIALASOK" /\ ~Names("EXPEDIALAS")
      \/ /\ Top.at = "EXPEDIALAS" /\ ~Unqualified
         /\ ~Names("MELLEKLETEK_SZAMA") /\ ~Names("MELLEKLETEK")
      \/ Top.at = "MELLEKLETEK" /\ ~Names("MELLEKLET")
    BY DEF OpenUnknown, Opening, InCall
<1>5. PartOf(next) = "unknown"
    <2>1. CASE Upcoming.binding # "target"
        BY <1>3, <1>4, <2>1, Meanings DEF Unqualified
    <2>2. CASE Upcoming.binding = "target"
        BY <1>3, <1>4, <2>2, Meanings DEF Names, Known
    <2> QED BY <2>1, <2>2
<1>6. PartOf(next) \notin DOMAIN Grammar
    BY <1>5, Meanings
<1> QED BY <1>1, <1>2, <1>5, <1>6, OpenedForStands

LEMMA OpenSkippedStands == ASSUME Standing, OpenSkipped PROVE Placed' /\ Counted'
<1> DEFINE f == [Top EXCEPT !.open = @ + 1]
           K == Level(document, next)
<1>1. /\ Opening({"skip"}) /\ Opened /\ UNCHANGED <<document, unknown, outcome>>
      /\ stack' = [stack EXCEPT ![Len(stack)] = f]
    BY DEF OpenSkipped, Continue
<1>2. /\ text' = text + ValueOf(Upcoming) /\ text' <= MaxText
      /\ Reading /\ ~pending /\ ~AtEnd /\ IsOpen(Upcoming) /\ Top.at = "skip"
      /\ next' = next + 1 /\ elements' = elements + 1
      /\ Upcoming.kind \in {"start", "empty"}
    BY <1>1, OpenedText
<1>3. PartOf(next) = "below" /\ unknown \in Nat
    BY <1>2, PartOfNext DEF Standing, Typed
<1>4. unknown' = unknown + (IF PartOf(next) = "unknown" THEN 1 ELSE 0)
    BY <1>1, <1>3
<1>5. Counted'
    BY <1>1, <1>2, <1>4, CountedStep
<1>6. /\ stack \in Seq(Frame) /\ Len(stack) > 0 /\ Top = stack[Len(stack)] /\ f.at = Top.at
    <2>1. Top \in SkipFrame
        BY <1>2, TypedCalls, FrameOf DEF Standing, Typed
    <2> QED BY <2>1 DEF Standing, Typed, TypedStack, Top, SkipFrame
<1> HIDE DEF f
<1>7. Len(stack') = Len(stack) /\ \A i \in 1 .. Len(stack) : stack'[i].at = stack[i].at
    BY <1>1, <1>6, ContinuedCalls
<1>8. K \in Int /\ Len(stack) \in Nat \ {0} /\ K >= Len(stack) - 1
    BY <1>2, LevelIs DEF Standing
<1>9. SameCalls(stack, stack', K)
    <2> SUFFICES ASSUME NEW k \in 1 .. K, k < Len(stack)
                 PROVE  stack'[k + 1].at = stack[k + 1].at
        BY <1>7 DEF SameCalls
    <2>1. k + 1 \in 1 .. Len(stack)
        BY <1>8
    <2> QED BY <1>7, <2>1
<1>10. Matches(stack', K + 1, PartOf(next))
    <2>1. PartOf(next) \notin DOMAIN Grammar
        BY <1>3, Meanings
    <2>2. ~(K + 1 < Len(stack'))
        BY <1>7, <1>8
    <2> HIDE DEF K
    <2> QED BY <2>1, <2>2 DEF Matches
<1>11. Upcoming.kind # "start" => K >= Level(document, next + 1)
    <2> SUFFICES ASSUME Upcoming.kind = "empty" PROVE K >= Level(document, next + 1)
        BY <1>2
    <2>1. next \in Nat \ {0} /\ Upcoming = document[next]
        BY DEF Standing, Typed, CountersTyped, Upcoming
    <2>2. Level(document, next + 1) = Level(document, next) + 0
        BY <2>1, LevelStep
    <2> QED BY <1>8, <2>2
<1>12. K <= Level(document, next)
    BY <1>8
<1>13. Upcoming.kind = "start" =>
          K = Level(document, next) /\ Matches(stack', K + 1, PartOf(next))
    BY <1>10
<1> HIDE DEF K
<1>14. Placed'
    BY <1>1, <1>2, <1>8, <1>9, <1>11, <1>12, <1>13, PlacedStep
<1> QED BY <1>5, <1>14

-----------------------------------------------------------------------------
(* Closed elements.                                                        *)

\* As many calls as there are elements left are those they were.
LEMMA ClosedStands ==
    ASSUME Standing, Closing, Closed, document' = document, unknown' = unknown,
           SameCalls(stack, stack', depth - 1)
    PROVE  Placed' /\ Counted'
<1>1. /\ Reading /\ pending' = FALSE /\ elements' = elements /\ text' = text
      /\ next' = IF pending THEN next ELSE next + 1
      /\ ~pending => ~AtEnd /\ Upcoming.kind = "end"
    BY DEF Closing, Closed
<1>2. /\ Level(document, next) \in Int /\ depth \in Int
      /\ Level(document, next) = depth - (IF pending THEN 1 ELSE 0)
      /\ elements \in Nat /\ text \in Nat /\ text <= MaxText /\ unknown \in Nat
      /\ next \in Nat \ {0} /\ Upcoming = document[next] /\ pending \in BOOLEAN
    BY <1>1, LevelIs DEF Standing, Typed, CountersTyped, Counted, Upcoming
<1>3. CASE pending
    <2>1. next' = next /\ Level(document, next) = depth - 1
        BY <1>1, <1>2, <1>3
    <2>2. Counted'
        BY <1>1, <2>1 DEF Standing, Counted
    <2>3. Above(document, next, 0) = 0 /\ \A k \in 1 .. Level(document, next) :
             Above(document, next, k) # 0 /\ Matches(stack, k, PartOf(Above(document, next, k)))
        BY <1>1 DEF Standing, Placed
    <2>4. \A k \in 1 .. Level(document, next) :
             Matches(stack', k, PartOf(Above(document, next, k)))
        BY <2>1, <2>3, SameMatches
    <2>5. Placed'
        BY <2>1, <2>3, <2>4 DEF Placed, PartOf
    <2> QED BY <2>2, <2>5
<1>4. CASE ~pending
    <2>1. next' = next + 1 /\ Level(document, next) = depth /\ ~AtEnd /\ Upcoming.kind = "end"
        BY <1>1, <1>2, <1>4
    <2>2. ~IsOpen(Upcoming) /\ ValueOf(Upcoming) = 0
        BY <2>1 DEF IsOpen, IsText, ValueOf
    <2>3. PartOf(next) = "none"
        BY <1>1, <1>4, <2>1, <2>2, PartOfNext
    <2>4. /\ elements' = elements + (IF IsOpen(Upcoming) THEN 1 ELSE 0)
          /\ text' = text + ValueOf(Upcoming) /\ text' <= MaxText
          /\ unknown' = unknown + (IF PartOf(next) = "unknown" THEN 1 ELSE 0)
        BY <1>1, <1>2, <2>2, <2>3
    <2>5. Counted'
        BY <1>1, <1>4, <2>1, <2>4, CountedStep
    <2>6. Level(document, next + 1) = Level(document, next) + (-1)
        BY <1>2, <2>1, LevelStep
    <2> DEFINE K == depth - 1
    <2>7. /\ K \in Int /\ K <= Level(document, next) /\ K >= Level(document, next + 1)
          /\ Upcoming.kind # "start" /\ SameCalls(stack, stack', K)
        BY <1>2, <2>1, <2>6
    <2> HIDE DEF K
    <2>8. Placed'
        BY <1>1, <1>4, <2>1, <2>7, PlacedStep
    <2> QED BY <2>5, <2>8
<1> QED BY <1>2, <1>3, <1>4

\* The calls below the one that returns are those they were.
LEMMA ReturnedCalls ==
    ASSUME NEW s \in Seq(Frame), Len(s) > 1, NEW f, f.at = s[Len(s) - 1].at
    PROVE  LET t == [Front(s) EXCEPT ![Len(s) - 1] = f]
           IN  Len(t) = Len(s) - 1 /\ \A i \in 1 .. Len(s) - 1 : t[i].at = s[i].at
<1> DEFINE u == Front(s)
<1>1. /\ u \in Seq(Frame) /\ Len(u) = Len(s) - 1
      /\ \A i \in 1 .. Len(s) - 1 : u[i] = s[i]
    BY DEF Front
<1>2. Len(s) - 1 \in 1 .. Len(s) - 1
    OBVIOUS
<1> HIDE DEF u
<1> DEFINE t == [u EXCEPT ![Len(u)] = f]
<1>3. f.at = u[Len(u)].at /\ Len(u) > 0
    BY <1>1, <1>2
<1>4. Len(t) = Len(u) /\ \A i \in 1 .. Len(u) : t[i].at = u[i].at
    BY <1>1, <1>3, ContinuedCalls
<1>5. t = [Front(s) EXCEPT ![Len(s) - 1] = f]
    BY <1>1 DEF u
<1> HIDE DEF t
<1>6. Len(t) = Len(s) - 1 /\ \A i \in 1 .. Len(s) - 1 : t[i].at = s[i].at
    BY <1>1, <1>4
<1> QED BY <1>5, <1>6

LEMMA ClosedWithStands ==
    ASSUME Standing, Closing, Top.at \notin {"document", "skip"},
           NEW f, f.at = Caller.at, ClosedWith(f)
    PROVE  Placed' /\ Counted'
<1>1. /\ Closed /\ stack' = [Front(stack) EXCEPT ![Len(stack) - 1] = f]
      /\ document' = document /\ unknown' = unknown
    BY DEF ClosedWith, Return
<1>2. stack \in Seq(Frame) /\ Len(stack) > 1 /\ Caller = stack[Len(stack) - 1]
    BY TypedCalls DEF Standing, Typed, TypedStack, Caller
<1>3. Len(stack') = Len(stack) - 1 /\ \A i \in 1 .. Len(stack) - 1 : stack'[i].at = stack[i].at
    BY <1>1, <1>2, ReturnedCalls
<1>4. depth = Len(stack) - 1 /\ Len(stack) \in Nat
    BY LevelIs DEF Standing, Closing
<1>5. SameCalls(stack, stack', depth - 1)
    <2> SUFFICES ASSUME NEW k \in 1 .. depth - 1
                 PROVE  /\ k < Len(stack) /\ k < Len(stack')
                        /\ stack'[k + 1].at = stack[k + 1].at
        BY DEF SameCalls
    <2>1. k + 1 \in 1 .. Len(stack) - 1
        BY <1>4
    <2> QED BY <1>3, <1>4, <2>1
<1> QED BY <1>1, <1>5, ClosedStands

LEMMA CloseSkippedStands == ASSUME Standing, CloseSkipped PROVE Placed' /\ Counted'
<1>1. /\ Closing /\ Closed /\ Top.at = "skip" /\ document' = document /\ unknown' = unknown
      /\ Reading
    BY DEF CloseSkipped, Closing, InCall
<1>2. /\ stack \in Seq(Frame) /\ Len(stack) > 1 /\ Top = stack[Len(stack)]
      /\ Len(stack) \in Nat /\ Top.open \in Nat \ {0}
      /\ depth = Len(stack) - 1 + (Top.open - 1) /\ TypedStack(stack) /\ Top \in SkipFrame
    <2>1. Top \in SkipFrame
        BY <1>1, TypedCalls, FrameOf DEF Standing, Typed
    <2> QED BY <1>1, <2>1, LevelIs DEF Standing, Typed, TypedStack, Top
<1>3. SameCalls(stack, stack', depth - 1)
    <2>1. CASE Top.open = 1
        <3>1. stack' = Front(stack)
            BY <2>1 DEF CloseSkipped
        <3>2. Len(stack') = Len(stack) - 1 /\ \A i \in 1 .. Len(stack) - 1 : stack'[i] = stack[i]
            BY <1>2, <3>1, TypedFront
        <3>3. depth = Len(stack) - 1 /\ Len(stack) \in Nat
            BY <1>2, <2>1
        <3> SUFFICES ASSUME NEW k \in 1 .. depth - 1
                     PROVE  /\ k < Len(stack) /\ k < Len(stack')
                            /\ stack'[k + 1].at = stack[k + 1].at
            BY DEF SameCalls
        <3>4. k + 1 \in 1 .. Len(stack) - 1 /\ k < Len(stack) /\ k < Len(stack) - 1
            BY <3>3
        <3>5. stack'[k + 1] = stack[k + 1]
            BY <3>2, <3>4
        <3> QED BY <3>2, <3>4, <3>5
    <2>2. CASE Top.open # 1
        <3> DEFINE f == [Top EXCEPT !.open = @ - 1]
        <3>1. stack' = [stack EXCEPT ![Len(stack)] = f]
            BY <2>2 DEF CloseSkipped, Continue
        <3>2. f.at = Top.at
            BY <1>2 DEF SkipFrame
        <3> HIDE DEF f
        <3>3. Len(stack') = Len(stack) /\ \A i \in 1 .. Len(stack) : stack'[i].at = stack[i].at
            BY <1>2, <3>1, <3>2, ContinuedCalls
        <3> SUFFICES ASSUME NEW k \in 1 .. depth - 1, k < Len(stack)
                     PROVE  stack'[k + 1].at = stack[k + 1].at
            BY <3>3 DEF SameCalls
        <3>4. k + 1 \in 1 .. Len(stack)
            BY <1>2
        <3> QED BY <3>3, <3>4
    <2> QED BY <2>1, <2>2
<1> QED BY <1>1, <1>3, ClosedStands

\* The call that ends is not the document's, and its caller keeps its name.
LEMMA ClosingStands ==
    ASSUME Standing, NEW calls, Closing, InCall(calls), "document" \notin calls,
           "skip" \notin calls
    PROVE  /\ Top.at \in calls /\ Top.at \notin {"document", "skip"} /\ Caller \in Frame
           /\ Top.at \in Callees(Caller.at)
BY ClosingCalls DEF Standing

\* A caller's variables may change, not the function it is of.
LEMMA FrameKeepsName ==
    ASSUME NEW c \in Frame
    PROVE  /\ \A v : [c EXCEPT !.slots = v].at = c.at /\ [c EXCEPT !.count = v].at = c.at
           /\ \A v : [c EXCEPT !.header = v].at = c.at /\ [c EXCEPT !.list = v].at = c.at
           /\ \A v : [c EXCEPT !.attachments = v].at = c.at
           /\ \A v : [c EXCEPT !.dispatches = v].at = c.at
BY DEF Frame

LEMMA CloseSlotStands == ASSUME Standing, CloseSlot PROVE Placed' /\ Counted'
<1> DEFINE f == [Caller EXCEPT !.slots[Top.field] = Present(Trim(Top.text))]
<1>1. Closing /\ InCall({"leaf"})
    BY DEF CloseSlot
<1>2. Top.at \notin {"document", "skip"} /\ f.at = Caller.at
    BY <1>1, ClosingStands, FrameKeepsName
<1>3. CASE \E code, about : Refuse(code, about)
    BY <1>3, EndedStands
<1>4. CASE ClosedWith(f)
    <2> HIDE DEF f
    <2> QED BY <1>1, <1>2, <1>4, ClosedWithStands
<1> QED BY <1>3, <1>4 DEF CloseSlot

LEMMA CloseCountStands == ASSUME Standing, CloseCount PROVE Placed' /\ Counted'
<1> DEFINE f == [Caller EXCEPT !.count = Present(Numeral[Trim(Top.text)])]
<1>1. Closing /\ InCall({"leaf"})
    BY DEF CloseCount
<1>2. Top.at \notin {"document", "skip"} /\ f.at = Caller.at
    BY <1>1, ClosingStands, FrameKeepsName
<1>3. CASE \E code, about : Refuse(code, about)
    BY <1>3, EndedStands
<1>4. CASE ClosedWith(f)
    <2> HIDE DEF f
    <2> QED BY <1>1, <1>2, <1>4, ClosedWithStands
<1> QED BY <1>3, <1>4 DEF CloseCount

LEMMA CloseHeaderStands == ASSUME Standing, CloseHeader PROVE Placed' /\ Counted'
<1> DEFINE f == [Caller EXCEPT !.header = Present(IntoHeader(Top.slots))]
<1>1. Closing /\ InCall({"FEJRESZ"})
    BY DEF CloseHeader
<1>2. Top.at \notin {"document", "skip"} /\ f.at = Caller.at
    BY <1>1, ClosingStands, FrameKeepsName
<1>3. CASE \E code, about : Refuse(code, about)
    BY <1>3, EndedStands
<1>4. CASE ClosedWith(f)
    <2> HIDE DEF f
    <2> QED BY <1>1, <1>2, <1>4, ClosedWithStands
<1> QED BY <1>3, <1>4 DEF CloseHeader, RefuseFirst

LEMMA CloseAttachmentStands == ASSUME Standing, CloseAttachment PROVE Placed' /\ Counted'
<1> DEFINE f == [Caller EXCEPT !.list = Append(@, IntoAttachment(Top.slots))]
<1>1. Closing /\ InCall({"MELLEKLET"})
    BY DEF CloseAttachment
<1>2. Top.at \notin {"document", "skip"} /\ f.at = Caller.at
    BY <1>1, ClosingStands, FrameKeepsName
<1>3. CASE \E code, about : Refuse(code, about)
    BY <1>3, EndedStands
<1>4. CASE ClosedWith(f)
    <2> HIDE DEF f
    <2> QED BY <1>1, <1>2, <1>4, ClosedWithStands
<1> QED BY <1>3, <1>4 DEF CloseAttachment, RefuseFirst

LEMMA CloseAttachmentsStands == ASSUME Standing, CloseAttachments PROVE Placed' /\ Counted'
<1> DEFINE f == [Caller EXCEPT !.attachments = Top.list]
<1>1. Closing /\ InCall({"MELLEKLETEK"})
    BY DEF CloseAttachments
<1>2. Top.at \notin {"document", "skip"} /\ f.at = Caller.at
    BY <1>1, ClosingStands, FrameKeepsName
<1>3. ClosedWith(f)
    BY DEF CloseAttachments
<1> HIDE DEF f
<1> QED BY <1>1, <1>2, <1>3, ClosedWithStands

LEMMA CloseDispatchStands == ASSUME Standing, CloseDispatch PROVE Placed' /\ Counted'
<1> DEFINE f == [Caller EXCEPT !.list = Append(@, IntoDispatch(Top))]
<1>1. Closing /\ InCall({"EXPEDIALAS"})
    BY DEF CloseDispatch
<1>2. Top.at \notin {"document", "skip"} /\ f.at = Caller.at
    BY <1>1, ClosingStands, FrameKeepsName
<1>3. ClosedWith(f)
    BY DEF CloseDispatch
<1> HIDE DEF f
<1> QED BY <1>1, <1>2, <1>3, ClosedWithStands

LEMMA CloseDispatchesStands == ASSUME Standing, CloseDispatches PROVE Placed' /\ Counted'
<1> DEFINE f == [Caller EXCEPT !.dispatches = Top.list]
<1>1. Closing /\ InCall({"EXPEDIALASOK"})
    BY DEF CloseDispatches
<1>2. Top.at \notin {"document", "skip"} /\ f.at = Caller.at
    BY <1>1, ClosingStands, FrameKeepsName
<1>3. ClosedWith(f)
    BY DEF CloseDispatches
<1> HIDE DEF f
<1> QED BY <1>1, <1>2, <1>3, ClosedWithStands

-----------------------------------------------------------------------------

\* Where the reader stands before anything is read.
LEMMA InitStands == ASSUME Init PROVE Placed /\ Counted
<1>1. /\ next = 1 /\ elements = 0 /\ text = 0 /\ unknown = 0 /\ document \in Seq(Event)
    BY DocumentAssumption DEF Init
<1>2. Placed
    <2>1. Level(document, next) = 0
        BY <1>1, LevelStart
    <2>2. next \in Nat \ {0} /\ next - 1 = 0
        BY <1>1
    <2>3. Above(document, next, 0) = 0
        <3>1. Above(document, next, 0) \in 0 .. next - 1
            BY <2>2, AboveIs
        <3> QED BY <2>2, <3>1
    <2>4. 1 .. Level(document, next) = {}
        BY <2>1
    <2> QED BY <2>3, <2>4 DEF Placed
<1>3. Counted
    <2>1. \A S : S \cap 1 .. next - 1 = {}
        BY <1>1
    <2>2. {i \in 1 .. next - 1 : IsOpen(document[i])} = {}
        BY <1>1
    <2>3. Charged(document, 1) = 0
        BY <1>1, ChargedSteps
    <2>4. 0 <= MaxText
        BY LimitsAssumption
    <2> QED BY <1>1, <2>1, <2>2, <2>3, <2>4, FS_EmptySet DEF Counted
<1> QED BY <1>2, <1>3

LEMMA NextStands == ASSUME Standing, [Next]_vars PROVE Standing'
<1> SUFFICES Placed' /\ Counted'
    BY NextTyped, NextAgrees, NextWithin DEF Standing
<1>1. CASE Returned \/ UNCHANGED vars
    BY <1>1 DEF Returned, vars, Standing, Placed, Counted, Reading, PartOf
<1>2. CASE ScannerRefuses \/ EndOfDocument \/ OpenInLeaf
    BY <1>2, EndedStands DEF ScannerRefuses, EndOfDocument, OpenInLeaf
<1>3. CASE PassOver \/ TakeText
    BY <1>3, PassOverStands, TakeTextStands
<1>4. CASE OpenRoot \/ OpenLeaf \/ OpenDispatch \/ OpenAttachments \/ OpenInstructions
    BY <1>4, OpenRootStands, OpenLeafStands, OpenDispatchStands, OpenAttachmentsStands,
       OpenInstructionsStands
<1>5. CASE \E position \in DOMAIN Blocks : OpenBlock(position)
    BY <1>5, OpenBlockStands
<1>6. CASE OpenAttachment \/ OpenUnknown \/ OpenSkipped
    BY <1>6, OpenAttachmentStands, OpenUnknownStands, OpenSkippedStands
<1>7. CASE CloseSkipped \/ CloseSlot \/ CloseCount \/ CloseHeader
    BY <1>7, CloseSkippedStands, CloseSlotStands, CloseCountStands, CloseHeaderStands
<1>8. CASE CloseAttachment \/ CloseAttachments \/ CloseDispatch \/ CloseDispatches
    BY <1>8, CloseAttachmentStands, CloseAttachmentsStands, CloseDispatchStands,
       CloseDispatchesStands
<1>9. CASE CloseRoot
    BY <1>9, EndedStands DEF CloseRoot
<1> QED BY <1>1, <1>2, <1>3, <1>4, <1>5, <1>6, <1>7, <1>8, <1>9 DEF Next

\* While a document is read, the counters are what the part that was read
\* makes them, element by element and span by span, however calls were nested
\* and skipped: an element has no meaning to the parser exactly when it has
\* none in the grammar, and no limit was passed on the way.
THEOREM CountsHold == Spec => []CountsAreExact
<1>1. Init => Standing
    <2> SUFFICES ASSUME Init PROVE Standing
        OBVIOUS
    <2>1. elements = 0 /\ depth = 0 /\ MaxElements \in Nat /\ MaxDepth \in Nat
        BY LimitsAssumption DEF Init
    <2> QED BY <2>1, InitTyped, InitAgrees, InitStands DEF Standing, Within
<1>2. Standing /\ [Next]_vars => Standing'
    BY NextStands
<1>3. Standing => CountsAreExact
    BY DEF Standing, Counted, Within, CountsAreExact
<1> QED BY <1>1, <1>2, <1>3, PTL DEF Spec

-----------------------------------------------------------------------------
(* The elements read so far.                                               *)

\* The event that shows what the reader refuses next.
Shown == IF pending THEN next - 1 ELSE next

\* The k-th of the elements the calls are in.
Entered(k) == IF pending /\ k = depth THEN next - 1 ELSE Above(document, next, k)

\* The element the next one would be in, 0 for none.
Outer == IF depth = 0 THEN 0 ELSE Entered(depth)

\* The elements of e that were opened, and those that were closed.
Kids(e) == {j \in e + 1 .. next - 1 : IsOpen(document[j]) /\ Tree(document).parent[j] = e}

Done(e) == {j \in Kids(e) : Tree(document).close[j] < Shown}

\* An element a call is in: it is not closed yet, and within the one before it.
InChain(k) ==
    /\ Entered(k) \in 1 .. next - 1 /\ IsOpen(document[Entered(k)])
    /\ Tree(document).close[Entered(k)] >= Shown
    /\ Tree(document).parent[Entered(k)] = IF k = 1 THEN 0 ELSE Entered(k - 1)
    /\ k > 1 => \A j \in Kids(Entered(k - 1)) : j <= Entered(k)

\* An element that was opened: it is closed, or a call is in it.
Settled(j) ==
    /\ depth > 0 /\ Entered(1) <= j
    /\ Tree(document).parent[j] = 0 => j = Entered(1)
    /\ Tree(document).close[j] < Shown \/ \E k \in 1 .. depth : j = Entered(k)

Chained ==
    Reading =>
        /\ pending => next > 1 /\ document[next - 1].kind = "empty"
        /\ \A k \in 1 .. depth : InChain(k)
        /\ \A j \in 1 .. next - 1 : IsOpen(document[j]) => Settled(j)

\* The part of the k-th element is what its call reads, and a skipped one has none.
Suits(s, k, part) ==
    IF k < Len(s) /\ s[k + 1].at # "skip" THEN part = s[k + 1].at
    ELSE part \notin DOMAIN Grammar \cup {"leaf"}

Suited == Reading => \A k \in 1 .. depth : Suits(stack, k, PartOf(Entered(k)))

LeafOf(t, D, name) ==
    {Content(t, j) : j \in {j \in D : t.event[j].name = name /\ t.event[j].binding = "target"}}

Under(t, P, part) == {j \in At(t, part) : t.parent[j] \in P}

DispatchList(t, S) == [k \in DOMAIN InOrder(S) |-> DispatchAt(t, InOrder(S)[k])]

AttachmentList(t, S) == [k \in DOMAIN InOrder(S) |-> AttachmentAt(t, InOrder(S)[k])]

Spoken(d, e, n) == FlattenSeq([k \in 1 .. n - e - 1 |-> Said(d[e + k])])

ConsignmentFits(f, t, K, D) ==
    /\ f.header = {HeaderAt(t, j) : j \in D \cap At(t, "FEJRESZ")}
    /\ f.receipt <=> K \cap At(t, "ERKEZTETES") # {}
    /\ f.openings <=> K \cap At(t, "BONTASOK") # {}
    /\ f.returned <=> K \cap At(t, "TERTIVEVENY") # {}
    /\ f.seen = {k \in DOMAIN Blocks : K \cap At(t, Blocks[k]) # {}}
    /\ \A k \in f.seen : k <= f.reached
    /\ f.reached \in f.seen \cup {1}
    /\ f.dispatches = DispatchList(t, Under(t, D \cap At(t, "EXPEDIALASOK"), "EXPEDIALAS"))

SlotsFit(f, t, D) ==
    \A name \in Field :
        /\ f.slots[name] = LeafOf(t, D, name)
        /\ \A x, y \in f.slots[name] : x = y

DispatchFits(f, t, K, D) ==
    /\ f.count = {Numeral[c] : c \in LeafOf(t, D, "MELLEKLETEK_SZAMA")}
    /\ f.present <=> K \cap At(t, "MELLEKLETEK") # {}
    /\ f.handling <=> K \cap At(t, "instructions") # {}
    /\ f.attachments = AttachmentList(t, Under(t, D \cap At(t, "MELLEKLETEK"), "MELLEKLET"))

Fits(f, t, K, D) ==
    /\ f.at = "KULDEMENY" => ConsignmentFits(f, t, K, D)
    /\ f.at \in {"FEJRESZ", "MELLEKLET"} => SlotsFit(f, t, D)
    /\ f.at = "EXPEDIALASOK" => f.list = DispatchList(t, D \cap At(t, "EXPEDIALAS"))
    /\ f.at = "EXPEDIALAS" => DispatchFits(f, t, K, D)
    /\ f.at = "MELLEKLETEK" => f.list = AttachmentList(t, D \cap At(t, "MELLEKLET"))

Filled ==
    Reading =>
        /\ \A k \in 1 .. Len(stack) - 1 :
              Fits(stack[k + 1], Tree(document), Kids(Entered(k)), Done(Entered(k)))
        /\ Top.at = "leaf" =>
              /\ document[Entered(depth)].name = Top.field /\ document[Entered(depth)].binding = "target"
              /\ Top.text = Spoken(document, Entered(depth), next)

Clean ==
    Reading =>
        /\ Len(document) <= MaxDocument
        /\ \A i \in 1 .. next - 1 :
              /\ EventFaults(Tree(document), i) = {}
              /\ IsOpen(document[i]) =>
                    /\ PlaceFaults(Tree(document), i) = {}
                    /\ Tree(document).close[i] < Shown => ValueFaults(Tree(document), i) = {}

-----------------------------------------------------------------------------
(* The elements the calls are in.                                          *)

\* The three kinds of step: an event that is passed, one that opens an
\* element, and the close of one.
PassStep ==
    /\ Reading /\ ~pending /\ ~AtEnd /\ ~IsOpen(Upcoming) /\ Upcoming.kind # "end"
    /\ document' = document /\ next' = next + 1 /\ pending' = FALSE /\ depth' = depth

OpenStep ==
    /\ Reading /\ ~pending /\ ~AtEnd /\ IsOpen(Upcoming)
    /\ document' = document /\ next' = next + 1 /\ pending' = (Upcoming.kind = "empty")
    /\ depth' = depth + 1

CloseStep == Closing /\ Closed /\ document' = document /\ Top.at # "document"

\* Where the reader stands.
LEMMA Stand ==
    ASSUME Standing, Reading
    PROVE  /\ document \in Seq(Event) /\ next \in 1 .. Len(document) + 1 /\ next \in Nat \ {0}
           /\ Len(document) \in Nat /\ DOMAIN document = 1 .. Len(document)
           /\ depth \in Nat /\ pending \in BOOLEAN
           /\ Level(document, next) = depth - (IF pending THEN 1 ELSE 0)
           /\ Above(document, next, 0) = 0
           /\ Len(stack) \in Nat \ {0}
           /\ Top.at # "document" => depth > 0 /\ Len(stack) > 1
           /\ Top.at = "document" => Len(stack) = 1 /\ depth = 0
           /\ Len(stack) - 1 <= depth
           /\ Top.at # "skip" => Len(stack) - 1 = depth
<1>1. /\ document \in Seq(Event) /\ next \in 1 .. Len(document) + 1 /\ depth \in Nat
      /\ pending \in BOOLEAN /\ TypedStack(stack)
    BY DEF Standing, Typed, CountersTyped
<1>2. /\ Level(document, next) \in Int /\ Len(stack) \in Nat \ {0}
      /\ Level(document, next) = depth - (IF pending THEN 1 ELSE 0)
      /\ Top.at # "skip" => depth = Len(stack) - 1
      /\ Top.at = "skip" => /\ Top.open \in Nat \ {0} /\ Len(stack) > 1
                            /\ depth = Len(stack) - 1 + (Top.open - 1)
      /\ Top.at = "document" => Len(stack) = 1
    BY LevelIs DEF Standing
<1>3. Above(document, next, 0) = 0
    BY DEF Standing, Placed
<1>4. Top.at # "document" => Len(stack) > 1
    BY <1>1, TypedCalls
<1>5. Len(stack) - 1 <= depth /\ (Top.at # "skip" => Len(stack) - 1 = depth)
    BY <1>2
<1>6. Top.at # "document" => depth > 0
    BY <1>2, <1>4, <1>5
<1>7. Top.at = "document" => depth = 0
    BY <1>2
<1>8. next \in Nat \ {0} /\ Len(document) \in Nat /\ DOMAIN document = 1 .. Len(document)
    BY <1>1
<1> QED BY <1>1, <1>2, <1>3, <1>4, <1>5, <1>6, <1>7, <1>8

LEMMA EnteredPassed ==
    ASSUME Standing, PassStep
    PROVE  \A k : Entered(k)' = Entered(k)
<1>1. next \in Nat \ {0} /\ pending \in BOOLEAN
    BY Stand DEF PassStep
<1>2. \A k : Above(document, next + 1, k) = Above(document, next, k)
    BY <1>1, AboveStep DEF PassStep, IsOpen, Upcoming
<1> QED BY <1>2 DEF Entered, PassStep

LEMMA EnteredOpened ==
    ASSUME Standing, OpenStep
    PROVE  /\ \A k \in 1 .. depth : Entered(k)' = Entered(k)
           /\ \A k : k = depth + 1 => Entered(k)' = next
<1>1. next \in Nat \ {0} /\ depth \in Nat /\ Level(document, next) = depth
    BY Stand DEF OpenStep
<1>2. \A k : Above(document, next + 1, k) =
                IF Upcoming.kind = "start" /\ depth = k - 1 THEN next ELSE Above(document, next, k)
    BY <1>1, AboveStep DEF Upcoming
<1>3. depth' = depth + 1 /\ next' = next + 1 /\ document' = document /\ ~pending
      /\ pending' = (Upcoming.kind = "empty")
    BY DEF OpenStep
<1>4. ASSUME NEW k \in 1 .. depth PROVE Entered(k)' = Entered(k)
    <2>1. k # depth + 1 /\ depth # k - 1
        BY <1>1
    <2>2. Above(document, next + 1, k) = Above(document, next, k)
        BY <1>2, <2>1
    <2> QED BY <1>3, <2>1, <2>2 DEF Entered
<1>5. ASSUME NEW k, k = depth + 1 PROVE Entered(k)' = next
    <2>1. CASE Upcoming.kind = "empty"
        <3>1. (next + 1) - 1 = next
            BY <1>1
        <3>2. pending' /\ k = depth' /\ next' - 1 = next
            BY <1>3, <1>5, <2>1, <3>1
        <3> QED BY <3>2 DEF Entered
    <2>2. CASE Upcoming.kind # "empty"
        <3>1. Upcoming.kind = "start" /\ depth = (depth + 1) - 1
            BY <1>1, <2>2 DEF OpenStep, IsOpen
        <3>2. Above(document, next + 1, k) = next
            BY <1>2, <1>5, <3>1
        <3>3. ~pending' /\ next' = next + 1 /\ document' = document
            BY <1>3, <2>2
        <3> QED BY <3>2, <3>3 DEF Entered
    <2> QED BY <2>1, <2>2
<1> QED BY <1>4, <1>5

LEMMA EnteredClosed ==
    ASSUME Standing, CloseStep
    PROVE  /\ depth' = depth - 1 /\ depth > 0
           /\ \A k \in 1 .. depth - 1 : Entered(k)' = Entered(k)
<1>1. /\ next \in Nat \ {0} /\ depth \in Nat /\ depth > 0 /\ pending \in BOOLEAN
      /\ Level(document, next) = depth - (IF pending THEN 1 ELSE 0)
    BY Stand DEF CloseStep, Closing
<1>2. depth' = depth - 1 /\ pending' = FALSE /\ document' = document
    BY <1>1 DEF CloseStep, Closed
<1>3. ASSUME NEW k \in 1 .. depth - 1 PROVE Entered(k)' = Entered(k)
    <2>1. k # depth
        BY <1>1
    <2>2. CASE pending
        BY <1>2, <2>1, <2>2 DEF Entered, CloseStep, Closed
    <2>3. CASE ~pending
        <3>1. next' = next + 1 /\ Upcoming.kind = "end"
            BY <2>3 DEF CloseStep, Closed, Closing
        <3>2. Above(document, next + 1, k) = Above(document, next, k)
            BY <1>1, <3>1, AboveStep DEF Upcoming
        <3> QED BY <1>2, <2>1, <3>1, <3>2, <2>3 DEF Entered
    <2> QED BY <1>1, <2>2, <2>3
<1> QED BY <1>1, <1>2, <1>3

\* What is shown when nothing is pending, and when an empty element is.
LEMMA ShownIs ==
    ASSUME Standing, Reading
    PROVE  /\ Shown \in Nat /\ Shown <= next /\ Shown >= next - 1
           /\ ~pending => Shown = next
           /\ pending => Shown = next - 1
BY Stand DEF Shown

\* The event that is shown closes the innermost element, and no other.
LEMMA ClosesInnermost ==
    ASSUME Standing, Chained, Closing, Top.at # "document"
    PROVE  /\ Entered(depth) \in 1 .. next - 1 /\ IsOpen(document[Entered(depth)])
           /\ Tree(document).close[Entered(depth)] = Shown
           /\ Shown \in 1 .. Len(document)
           /\ \A j \in 1 .. next - 1 :
                 IsOpen(document[j]) /\ Tree(document).close[j] = Shown => j = Entered(depth)
<1> DEFINE t == Tree(document)
<1>0. Reading
    BY DEF Closing
<1>1. /\ document \in Seq(Event) /\ next \in 1 .. Len(document) + 1 /\ next \in Nat \ {0}
      /\ Len(document) \in Nat /\ depth \in Nat /\ pending \in BOOLEAN /\ depth > 0
      /\ Level(document, next) = depth - (IF pending THEN 1 ELSE 0)
    BY <1>0, Stand
<1>2. /\ \A i \in 1 .. Len(document) : document[i].kind # "start" => t.close[i] = i
      /\ \A i \in 1 .. Len(document) : document[i].kind = "start" =>
            /\ t.close[i] \in i + 1 .. Len(document) + 1
            /\ t.close[i] <= Len(document) =>
                  /\ document[t.close[i]].kind = "end"
                  /\ Level(document, t.close[i]) = Level(document, i) + 1
            /\ \A j \in i + 1 .. Len(document) :
                  document[j].kind = "end" /\ Level(document, j) = Level(document, i) + 1 =>
                        t.close[i] <= j
    BY <1>1, TreeIs
<1>3. /\ pending => next > 1 /\ document[next - 1].kind = "empty"
      /\ \A k \in 1 .. depth : InChain(k)
      /\ \A j \in 1 .. next - 1 : IsOpen(document[j]) => Settled(j)
    BY <1>0 DEF Chained
<1> HIDE DEF t
<1>4. CASE pending
    <2>1. Shown = next - 1 /\ Entered(depth) = next - 1 /\ next - 1 \in 1 .. Len(document)
        BY <1>1, <1>3, <1>4 DEF Shown, Entered
    <2>2. IsOpen(document[next - 1]) /\ t.close[next - 1] = next - 1
        BY <1>2, <1>3, <1>4, <2>1 DEF IsOpen
    <2>3. ASSUME NEW j \in 1 .. next - 1, IsOpen(document[j]), t.close[j] = next - 1
          PROVE  j = next - 1
        <3>0. j \in 1 .. Len(document)
            BY <1>1
        <3>1. CASE document[j].kind # "start"
            BY <1>2, <2>3, <3>0, <3>1
        <3>2. CASE document[j].kind = "start"
            <4>1. document[next - 1].kind = "end"
                BY <1>2, <2>1, <2>3, <3>0, <3>2
            <4> QED BY <1>3, <1>4, <4>1
        <3> QED BY <3>1, <3>2
    <2> QED BY <2>1, <2>2, <2>3, <1>1 DEF t
<1>5. CASE ~pending
    <2>1. /\ Shown = next /\ document[next].kind = "end" /\ next \in 1 .. Len(document)
          /\ Level(document, next) = depth
        BY <1>1, <1>5 DEF Shown, Closing, AtEnd, Upcoming
    <2>2. InChain(depth) /\ Entered(depth) = Above(document, next, depth)
        BY <1>1, <1>3, <1>5 DEF Entered
    <2> DEFINE a == Entered(depth)
    <2>3. a \in 1 .. next - 1 /\ IsOpen(document[a]) /\ t.close[a] >= next
        BY <2>1, <2>2 DEF InChain, t
    <2>4. document[a].kind = "start" /\ Level(document, a) = depth - 1
        <3>1. a \in Starts(document, next, depth) \cup {0}
            BY <1>1, <2>2, AboveIs
        <3> QED BY <2>3, <3>1 DEF Starts
    <2> HIDE DEF a
    <2>5. t.close[a] = next
        <3>1. a \in 1 .. Len(document) /\ next \in a + 1 .. Len(document)
            BY <1>1, <2>1, <2>3
        <3>2. Level(document, next) = Level(document, a) + 1
            BY <1>1, <2>1, <2>4
        <3>3. t.close[a] <= next /\ t.close[a] \in a + 1 .. Len(document) + 1
            BY <1>2, <2>1, <2>4, <3>1, <3>2
        <3> QED BY <1>1, <2>3, <3>3
    <2>6. ASSUME NEW j \in 1 .. next - 1, IsOpen(document[j]), t.close[j] = next
          PROVE  j = a
        <3>0. j \in 1 .. Len(document) /\ j # next
            BY <1>1
        <3>1. document[j].kind = "start"
            BY <1>2, <2>6, <3>0
        <3>2. Level(document, next) = Level(document, j) + 1
            BY <1>1, <1>2, <2>1, <2>6, <3>0, <3>1
        <3>3. PICK k \in 1 .. depth : j = Entered(k)
            <4>1. Settled(j)
                BY <1>3, <2>6
            <4>2. ~(t.close[j] < Shown)
                BY <1>1, <2>1, <2>6
            <4> QED BY <4>1, <4>2 DEF Settled, t
        <3>4. j = Above(document, next, k)
            BY <1>5, <3>3 DEF Entered
        <3>5. j \in Starts(document, next, k) \cup {0}
            BY <1>1, <3>4, AboveIs
        <3>6. Level(document, j) = k - 1
            BY <3>5 DEF Starts
        <3>7. k = depth
            BY <1>1, <2>1, <3>2, <3>3, <3>6
        <3> QED BY <3>3, <3>7 DEF a
    <2> QED BY <1>1, <2>1, <2>3, <2>5, <2>6 DEF a, t
<1> QED BY <1>1, <1>4, <1>5

-----------------------------------------------------------------------------
(* The elements an element has.                                            *)

LEMMA KidsPassed ==
    ASSUME Standing, PassStep
    PROVE  Shown' = Shown + 1 /\ \A e \in Nat : Kids(e)' = Kids(e) /\ Done(e)' = Done(e)
<1> DEFINE t == Tree(document)
<1>1. /\ document \in Seq(Event) /\ next \in 1 .. Len(document) /\ Len(document) \in Nat
      /\ Reading /\ ~pending /\ ~pending' /\ next' = next + 1 /\ document' = document
      /\ ~IsOpen(document[next]) /\ document[next].kind # "end"
    BY Stand DEF PassStep, AtEnd, Upcoming
<1>2. Shown = next /\ Shown' = next + 1
    BY <1>1 DEF Shown
<1>3. ASSUME NEW e \in Nat PROVE Kids(e)' = Kids(e) /\ Done(e)' = Done(e)
    <2>1. (next + 1) - 1 = next
        BY <1>1
    <2>2. Kids(e)' = {j \in e + 1 .. next : IsOpen(document[j]) /\ t.parent[j] = e}
        BY <1>1, <2>1 DEF Kids
    <2>3. Kids(e) = {j \in e + 1 .. next - 1 : IsOpen(document[j]) /\ t.parent[j] = e}
        BY DEF Kids
    <2>4. Kids(e)' = Kids(e)
        BY <1>1, <2>2, <2>3
    <2>5. ASSUME NEW j \in Kids(e) PROVE t.close[j] < next + 1 <=> t.close[j] < next
        <3>1. j \in 1 .. Len(document) /\ j # next
            BY <1>1, <2>3
        <3>2. t.close[j] \in Nat /\ t.close[j] # next
            BY <1>1, <3>1, CloseIs
        <3> QED BY <1>1, <3>2
    <2>6. Done(e)' = {j \in Kids(e)' : t.close[j] < next + 1}
        BY <1>1, <1>2 DEF Done
    <2>7. Done(e) = {j \in Kids(e) : t.close[j] < next}
        BY <1>2 DEF Done
    <2> HIDE DEF t
    <2> QED BY <2>4, <2>5, <2>6, <2>7
<1> QED BY <1>1, <1>2, <1>3

LEMMA KidsOpened ==
    ASSUME Standing, OpenStep
    PROVE  /\ Tree(document).parent[next] = Outer
           /\ \A e \in 0 .. next - 1 :
                 /\ Kids(e)' = Kids(e) \cup (IF e = Outer THEN {next} ELSE {})
                 /\ Done(e)' = Done(e)
           /\ \A e : e = next => Kids(e)' = {} /\ Done(e)' = {}
<1> DEFINE t == Tree(document)
<1>1. /\ document \in Seq(Event) /\ next \in 1 .. Len(document) /\ Len(document) \in Nat
      /\ Reading /\ ~pending /\ next' = next + 1 /\ document' = document
      /\ pending' = (document[next].kind = "empty") /\ IsOpen(document[next])
      /\ depth \in Nat /\ Level(document, next) = depth /\ Above(document, next, 0) = 0
    BY Stand DEF OpenStep, AtEnd, Upcoming
<1>2. Shown = next /\ Shown' = IF document[next].kind = "empty" THEN next ELSE next + 1
    <2>1. (next + 1) - 1 = next
        BY <1>1
    <2>2. Shown' = IF pending' THEN next' - 1 ELSE next'
        BY DEF Shown
    <2>3. CASE document[next].kind = "empty"
        <3>1. pending' = TRUE
            BY <1>1, <2>3
        <3> QED BY <1>1, <2>1, <2>2, <2>3, <3>1 DEF Shown
    <2>4. CASE document[next].kind # "empty"
        <3>1. pending' = FALSE
            BY <1>1, <2>4
        <3> QED BY <1>1, <2>2, <2>4, <3>1 DEF Shown
    <2> QED BY <2>3, <2>4
<1>3. t.parent[next] = Outer
    <2>1. t.parent[next] = Above(document, next, depth)
        BY <1>1, ParentIs
    <2> QED BY <1>1, <2>1 DEF Outer, Entered
<1>4. (next + 1) - 1 = next
    BY <1>1
<1>5. ASSUME NEW e \in 0 .. next - 1
      PROVE  /\ Kids(e)' = Kids(e) \cup (IF e = Outer THEN {next} ELSE {})
             /\ Done(e)' = Done(e)
    <2>1. Kids(e)' = {j \in e + 1 .. next : IsOpen(document[j]) /\ t.parent[j] = e}
        BY <1>1, <1>4 DEF Kids
    <2>2. Kids(e) = {j \in e + 1 .. next - 1 : IsOpen(document[j]) /\ t.parent[j] = e}
        BY DEF Kids
    <2>3. Done(e)' = {j \in Kids(e)' : t.close[j] < Shown'}
        BY <1>1 DEF Done
    <2>4. Done(e) = {j \in Kids(e) : t.close[j] < next}
        BY <1>2 DEF Done
    <2> HIDE DEF t
    <2>5. Kids(e)' = Kids(e) \cup (IF e = Outer THEN {next} ELSE {})
        <3>1. e + 1 .. next = (e + 1 .. next - 1) \cup {next}
            BY <1>1
        <3> QED BY <1>1, <1>3, <2>1, <2>2, <3>1
    <2>6. ASSUME NEW j \in 1 .. next - 1 PROVE t.close[j] < Shown' <=> t.close[j] < next
        <3>1. j \in 1 .. Len(document) /\ j # next
            BY <1>1
        <3>2. /\ t.close[j] \in Nat
              /\ \A m \in 1 .. Len(document) : t.close[j] = m /\ m # j => document[m].kind = "end"
            BY <1>1, <3>1, CloseIs DEF t
        <3>3. t.close[j] # next
            BY <1>1, <3>1, <3>2 DEF IsOpen
        <3> QED BY <1>1, <1>2, <3>2, <3>3
    <2>7. ~(t.close[next] < Shown')
        <3>1. /\ t.close[next] \in Nat
              /\ document[next].kind # "start" => t.close[next] = next
              /\ document[next].kind = "start" => t.close[next] > next
            BY <1>1, CloseIs DEF t
        <3> QED BY <1>1, <1>2, <3>1 DEF IsOpen
    <2>8. Kids(e) \subseteq 1 .. next - 1
        BY <2>2
    <2> QED BY <2>3, <2>4, <2>5, <2>6, <2>7, <2>8
<1>6. ASSUME NEW e, e = next PROVE Kids(e)' = {} /\ Done(e)' = {}
    <2>1. Kids(e)' = {j \in e + 1 .. next : IsOpen(document[j]) /\ t.parent[j] = e}
        BY <1>1, <1>4 DEF Kids
    <2>2. Kids(e)' = {}
        BY <1>1, <1>6, <2>1
    <2> QED BY <2>2 DEF Done
<1> QED BY <1>3, <1>5, <1>6

LEMMA KidsClosed ==
    ASSUME Standing, Chained, CloseStep
    PROVE  /\ Shown' = Shown + 1
           /\ \A e \in 0 .. next - 1 :
                 /\ Kids(e)' = Kids(e)
                 /\ Done(e)' = Done(e) \cup
                        (IF e = Tree(document).parent[Entered(depth)] THEN {Entered(depth)} ELSE {})
<1> DEFINE t == Tree(document) a == Entered(depth)
<1>1. /\ document \in Seq(Event) /\ next \in 1 .. Len(document) + 1 /\ Len(document) \in Nat
      /\ pending \in BOOLEAN /\ document' = document
    BY Stand DEF CloseStep, Closing
<1>2. ~pending' /\ next' = IF pending THEN next ELSE next + 1
    BY DEF CloseStep, Closed
<1>3. ~pending => next \in 1 .. Len(document) /\ ~IsOpen(document[next])
    BY <1>1 DEF CloseStep, Closing, AtEnd, Upcoming, IsOpen
<1>4. /\ a \in 1 .. next - 1 /\ IsOpen(document[a]) /\ t.close[a] = Shown
      /\ \A j \in 1 .. next - 1 : IsOpen(document[j]) /\ t.close[j] = Shown => j = a
    BY ClosesInnermost DEF CloseStep
<1>5. Shown \in Nat /\ Shown' = Shown + 1
    <2>1. (next - 1) + 1 = next /\ next \in Nat \ {0}
        BY <1>1
    <2> QED BY <1>1, <1>2, <2>1 DEF Shown
<1>6. ASSUME NEW e \in 0 .. next - 1
      PROVE  /\ Kids(e)' = Kids(e)
             /\ Done(e)' = Done(e) \cup (IF e = t.parent[a] THEN {a} ELSE {})
    <2>1. Kids(e) = {j \in e + 1 .. next - 1 : IsOpen(document[j]) /\ t.parent[j] = e}
        BY DEF Kids
    <2>2. Kids(e)' = Kids(e)
        <3>1. Kids(e)' = {j \in e + 1 .. next' - 1 : IsOpen(document[j]) /\ t.parent[j] = e}
            BY <1>1 DEF Kids
        <3>2. CASE pending
            BY <1>2, <2>1, <3>1, <3>2
        <3>3. CASE ~pending
            <4>1. next' - 1 = next /\ e + 1 .. next = (e + 1 .. next - 1) \cup {next}
                BY <1>1, <1>2, <3>3
            <4> QED BY <1>3, <2>1, <3>1, <3>3, <4>1
        <3> QED BY <3>2, <3>3
    <2>3. Done(e)' = {j \in Kids(e) : t.close[j] < Shown + 1}
        BY <1>1, <1>5, <2>2 DEF Done
    <2>4. Done(e) = {j \in Kids(e) : t.close[j] < Shown}
        BY DEF Done
    <2>5. \A j \in Kids(e) : t.close[j] < Shown + 1 <=> t.close[j] < Shown \/ j = a
        <3> TAKE j \in Kids(e)
        <3>1. j \in 1 .. next - 1 /\ IsOpen(document[j]) /\ j \in 1 .. Len(document)
            BY <1>1, <2>1
        <3>2. t.close[j] \in Nat
            BY <1>1, <3>1, CloseIs
        <3> HIDE DEF a, t
        <3> QED BY <1>4, <1>5, <3>1, <3>2
    <2>6. a \in Kids(e) <=> e = t.parent[a]
        <3>1. t.parent[a] \in 0 .. a - 1
            <4>1. a \in 1 .. Len(document)
                BY <1>1, <1>4
            <4> HIDE DEF a
            <4> QED BY <1>1, <4>1, CloseIs
        <3> HIDE DEF a, t
        <3> QED BY <1>1, <1>4, <2>1, <3>1
    <2> HIDE DEF a, t
    <2> QED BY <2>2, <2>3, <2>4, <2>5, <2>6
<1> QED BY <1>5, <1>6

\* An element is behind the ones it is in.
LEMMA ChainGrows ==
    ASSUME Standing, Chained, Reading
    PROVE  \A m \in 1 .. depth : \A k \in 1 .. m - 1 : Entered(k) < Entered(m)
<1> SUFFICES ASSUME NEW m \in 1 .. depth PROVE \A k \in 1 .. m - 1 : Entered(k) < Entered(m)
    OBVIOUS
<1>1. document \in Seq(Event) /\ next \in 1 .. Len(document) + 1 /\ depth \in Nat
    BY Stand
<1>2. \A k \in 1 .. depth :
        /\ Entered(k) \in 1 .. next - 1
        /\ Tree(document).parent[Entered(k)] = IF k = 1 THEN 0 ELSE Entered(k - 1)
    BY DEF Chained, InChain
<1>3. \A k \in 2 .. depth : Entered(k - 1) < Entered(k)
    <2> TAKE k \in 2 .. depth
    <2>1. Entered(k) \in 1 .. Len(document) /\ k \in 1 .. depth /\ k # 1
        BY <1>1, <1>2
    <2>2. Tree(document).parent[Entered(k)] \in 0 .. Entered(k) - 1
        BY <1>1, <2>1, CloseIs
    <2> QED BY <1>2, <2>1, <2>2
<1> DEFINE Bad == {k \in 1 .. m - 1 : ~(Entered(k) < Entered(m))}
<1> SUFFICES ASSUME Bad # {} PROVE FALSE
    OBVIOUS
<1>4. PICK k \in Bad : \A j \in Bad : j <= k
    <2>1. Bad \subseteq 0 .. m /\ m \in Nat
        BY <1>1
    <2> HIDE DEF Bad
    <2> QED BY <2>1, GreatestNumber
<1>5. k \in 1 .. m - 1 /\ ~(Entered(k) < Entered(m)) /\ k + 1 \in 2 .. depth /\ (k + 1) - 1 = k
    BY <1>1
<1>6. Entered(k) < Entered(k + 1)
    BY <1>3, <1>5
<1>7. k + 1 # m /\ k + 1 \in 1 .. m - 1
    BY <1>5, <1>6
<1>8. Entered(k + 1) < Entered(m)
    BY <1>4, <1>5, <1>7
<1>9. Entered(k) \in Int /\ Entered(k + 1) \in Int /\ Entered(m) \in Int
    BY <1>1, <1>2, <1>5
<1> QED BY <1>5, <1>6, <1>8, <1>9

LEMMA ChainPassed ==
    ASSUME Standing, Chained, PassStep
    PROVE  Chained'
<1> DEFINE t == Tree(document)
<1>1. /\ document \in Seq(Event) /\ next \in 1 .. Len(document) /\ Len(document) \in Nat
      /\ Reading /\ ~pending /\ ~pending' /\ next' = next + 1 /\ document' = document
      /\ ~IsOpen(document[next]) /\ document[next].kind # "end" /\ depth' = depth /\ depth \in Nat
    BY Stand DEF PassStep, AtEnd, Upcoming
<1>2. Shown = next /\ Shown' = next + 1
    BY <1>1 DEF Shown
<1>3. \A k : Entered(k)' = Entered(k)
    BY EnteredPassed
<1>4. \A e \in Nat : Kids(e)' = Kids(e)
    BY KidsPassed
<1>5. \A j \in 1 .. next - 1 : t.close[j] \in Nat /\ t.close[j] # next
    <2> TAKE j \in 1 .. next - 1
    <2>1. j \in 1 .. Len(document) /\ j # next
        BY <1>1
    <2>2. /\ t.close[j] \in Nat
          /\ \A m \in 1 .. Len(document) : t.close[j] = m /\ m # j => document[m].kind = "end"
        BY <1>1, <2>1, CloseIs
    <2> QED BY <1>1, <2>1, <2>2
<1>6. ASSUME NEW k \in 1 .. depth PROVE InChain(k)'
    <2>1. InChain(k) /\ (k > 1 => InChain(k - 1))
        BY <1>1 DEF Chained
    <2>2. Entered(k)' = Entered(k) /\ Entered(k - 1)' = Entered(k - 1)
        BY <1>3
    <2>3. Entered(k) \in 1 .. next - 1 /\ IsOpen(document[Entered(k)]) /\ t.close[Entered(k)] >= next
        BY <1>2, <2>1 DEF InChain
    <2>4. t.close[Entered(k)] >= next + 1
        BY <1>1, <1>5, <2>3
    <2>5. k > 1 => Entered(k - 1) \in Nat /\ Kids(Entered(k - 1))' = Kids(Entered(k - 1))
        <3> SUFFICES ASSUME k > 1 PROVE Entered(k - 1) \in Nat /\ Kids(Entered(k - 1))' = Kids(Entered(k - 1))
            OBVIOUS
        <3> DEFINE e == Entered(k - 1)
        <3>1. e \in Nat /\ e' = e
            BY <2>1, <2>2 DEF InChain
        <3>2. Kids(e)' = Kids(e)
            BY <1>3, <1>4, <3>1
        <3> QED BY <3>1, <3>2
    <2> QED BY <1>1, <1>2, <2>1, <2>2, <2>3, <2>4, <2>5 DEF InChain
<1>7. ASSUME NEW j \in 1 .. next - 1, IsOpen(document[j]) PROVE Settled(j)'
    <2>1. Settled(j)
        BY <1>1, <1>7 DEF Chained
    <2>2. \A k : Entered(k)' = Entered(k)
        BY <1>3
    <2>3. t.close[j] < next => t.close[j] < next + 1
        BY <1>1, <1>5
    <2> QED BY <1>1, <1>2, <2>1, <2>2, <2>3 DEF Settled
<1>8. \A j \in 1 .. next' - 1 : IsOpen(document'[j]) => j \in 1 .. next - 1
    BY <1>1
<1> QED BY <1>1, <1>6, <1>7, <1>8 DEF Chained

LEMMA ChainOpened ==
    ASSUME Standing, Chained, OpenStep
    PROVE  Chained'
<1> DEFINE t == Tree(document)
<1>1. /\ document \in Seq(Event) /\ next \in 1 .. Len(document) /\ Len(document) \in Nat
      /\ Reading /\ ~pending /\ next' = next + 1 /\ document' = document
      /\ pending' = (document[next].kind = "empty") /\ IsOpen(document[next])
      /\ depth \in Nat /\ depth' = depth + 1 /\ (next + 1) - 1 = next
    BY Stand DEF OpenStep, AtEnd, Upcoming
<1>2. Shown = next /\ Shown' \in {next, next + 1} /\ (document[next].kind = "start" => Shown' = next + 1)
    BY <1>1 DEF Shown
<1>3. /\ \A k \in 1 .. depth : Entered(k)' = Entered(k)
      /\ \A k : k = depth + 1 => Entered(k)' = next
    BY EnteredOpened
<1>4. /\ t.parent[next] = Outer
      /\ \A e \in 0 .. next - 1 : Kids(e)' = Kids(e) \cup (IF e = Outer THEN {next} ELSE {})
      /\ \A e : e = next => Kids(e)' = {}
    BY KidsOpened
<1>5. \A j \in 1 .. next - 1 : t.close[j] \in Nat /\ t.close[j] # next
    <2> TAKE j \in 1 .. next - 1
    <2>1. j \in 1 .. Len(document) /\ j # next
        BY <1>1
    <2>2. /\ t.close[j] \in Nat
          /\ \A m \in 1 .. Len(document) : t.close[j] = m /\ m # j => document[m].kind = "end"
        BY <1>1, <2>1, CloseIs
    <2> QED BY <1>1, <2>1, <2>2 DEF IsOpen
<1>6. t.close[next] >= Shown' /\ t.close[next] \in Nat
    <2>1. /\ t.close[next] \in Nat
          /\ document[next].kind # "start" => t.close[next] = next
          /\ document[next].kind = "start" => t.close[next] > next
        BY <1>1, CloseIs
    <2>2. CASE document[next].kind = "start"
        BY <1>1, <1>2, <2>1, <2>2
    <2>3. CASE document[next].kind # "start"
        <3>1. pending' = TRUE /\ next' - 1 = next
            BY <1>1, <2>3 DEF IsOpen
        <3>2. Shown' = next
            BY <3>1 DEF Shown
        <3> QED BY <1>1, <2>1, <2>3, <3>2
    <2> QED BY <2>2, <2>3
<1>7. \A k \in 1 .. depth : Entered(k) \in 1 .. next - 1
    BY <1>1 DEF Chained, InChain
<1>8. Outer = IF depth = 0 THEN 0 ELSE Entered(depth)
    BY DEF Outer
<1>9. ASSUME NEW k \in 1 .. depth PROVE InChain(k)'
    <2>1. InChain(k) /\ (k > 1 => InChain(k - 1))
        BY <1>1 DEF Chained
    <2>2. Entered(k)' = Entered(k) /\ (k > 1 => Entered(k - 1)' = Entered(k - 1))
        BY <1>1, <1>3
    <2>3. Entered(k) \in 1 .. next - 1 /\ IsOpen(document[Entered(k)]) /\ t.close[Entered(k)] >= next
        BY <1>2, <2>1 DEF InChain
    <2>4. t.close[Entered(k)] >= Shown'
        BY <1>1, <1>2, <1>5, <2>3
    <2>5. k > 1 => Kids(Entered(k - 1))' = Kids(Entered(k - 1))
        <3> SUFFICES ASSUME k > 1 PROVE Kids(Entered(k - 1))' = Kids(Entered(k - 1))
            OBVIOUS
        <3>1. \A m \in 1 .. depth : \A l \in 1 .. m - 1 : Entered(l) < Entered(m)
            BY <1>1, ChainGrows
        <3>2. k - 1 \in 1 .. depth /\ k - 1 \in 1 .. depth - 1 /\ depth \in 1 .. depth
            BY <1>1
        <3>3. Entered(k - 1) # Outer /\ Entered(k - 1) \in 0 .. next - 1
            <4>1. Entered(k - 1) < Entered(depth) /\ Entered(k - 1) \in 1 .. next - 1
                  /\ Entered(depth) \in 1 .. next - 1
                BY <1>7, <3>1, <3>2
            <4> QED BY <1>1, <1>8, <4>1
        <3> DEFINE e == Entered(k - 1)
        <3>4. e' = e
            BY <2>2
        <3>5. \A x : x = e => Kids(x)' = Kids(x)
            BY <1>4, <3>3
        <3> QED BY <3>4, <3>5
    <2> QED BY <1>1, <1>2, <2>1, <2>2, <2>3, <2>4, <2>5 DEF InChain
<1>10. ASSUME NEW k, k = depth + 1 PROVE InChain(k)'
    <2>1. Entered(k)' = next
        BY <1>3, <1>10
    <2>2. k > 1 => k - 1 \in 1 .. depth /\ Entered(k - 1)' = Entered(k - 1) /\ k - 1 = depth
        BY <1>1, <1>3, <1>10
    <2>3. next \in 1 .. next' - 1
        BY <1>1
    <2>4. t.parent[next] = IF k = 1 THEN 0 ELSE Entered(k - 1)
        BY <1>1, <1>4, <1>8, <1>10, <2>2
    <2>5. ASSUME k > 1, NEW j \in Kids(Entered(k - 1))' PROVE j <= next
        <3>1. j \in (Entered(k - 1)' + 1) .. next' - 1
            BY <2>5 DEF Kids
        <3>2. Entered(k - 1)' \in Nat
            BY <1>7, <2>2, <2>5
        <3> QED BY <1>1, <3>1, <3>2
    <2>6. k > 1 => \A j \in Kids(Entered(k - 1))' : j <= Entered(k)'
        BY <2>1, <2>5
    <2>7. k = 1 \/ k > 1
        BY <1>1, <1>10
    <2>8. Tree(document)'.parent[Entered(k)'] = IF k = 1 THEN 0 ELSE Entered(k - 1)'
        BY <1>1, <2>1, <2>2, <2>4, <2>7
    <2>9. Tree(document)'.close[Entered(k)'] >= Shown'
        BY <1>1, <1>6, <2>1
    <2>10. Entered(k)' \in 1 .. next' - 1 /\ IsOpen(document'[Entered(k)'])
        BY <1>1, <2>1, <2>3
    <2> QED BY <2>6, <2>8, <2>9, <2>10 DEF InChain
<1>11. ASSUME NEW j \in 1 .. next - 1, IsOpen(document[j]) PROVE Settled(j)'
    <2>1. Settled(j) /\ depth > 0
        BY <1>1, <1>11 DEF Chained, Settled
    <2>2. Entered(1)' = Entered(1)
        BY <1>1, <1>3, <2>1
    <2>3. t.close[j] < next => t.close[j] < Shown'
        BY <1>1, <1>2, <1>5
    <2>4. (\E k \in 1 .. depth : j = Entered(k)) => \E k \in 1 .. depth + 1 : j = Entered(k)'
        <3> SUFFICES ASSUME NEW k \in 1 .. depth, j = Entered(k)
                     PROVE  \E m \in 1 .. depth + 1 : j = Entered(m)'
            OBVIOUS
        <3>1. k \in 1 .. depth + 1 /\ j = Entered(k)'
            BY <1>1, <1>3
        <3> QED BY <3>1
    <2>5. depth' > 0
        BY <1>1
    <2> QED BY <1>1, <1>2, <2>1, <2>2, <2>3, <2>4, <2>5 DEF Settled
<1>12. ASSUME NEW j, j = next PROVE Settled(j)'
    <2>1. Entered(1)' <= next /\ (Outer = 0 => Entered(1)' = next)
        <3>1. CASE depth = 0
            <4>1. Entered(1)' = next
                BY <1>1, <1>3, <3>1
            <4> QED BY <1>1, <4>1
        <3>2. CASE depth # 0
            <4>1. 1 \in 1 .. depth /\ depth \in 1 .. depth
                BY <1>1, <3>2
            <4>2. Entered(1)' = Entered(1) /\ Entered(1) \in 1 .. next - 1 /\ Entered(depth) \in 1 .. next - 1
                BY <1>3, <1>7, <4>1
            <4> QED BY <1>1, <1>8, <3>2, <4>2
        <3> QED BY <3>1, <3>2
    <2>2. \E k \in 1 .. depth' : j = Entered(k)'
        <3>1. PICK k : k = depth + 1
            OBVIOUS
        <3>2. k \in 1 .. depth' /\ Entered(k)' = j
            BY <1>1, <1>3, <1>12, <3>1
        <3> QED BY <3>2
    <2>3. depth' > 0
        BY <1>1
    <2>4. Tree(document)'.parent[j] = Outer
        BY <1>1, <1>4, <1>12
    <2> QED BY <2>1, <2>2, <2>3, <2>4, <1>12 DEF Settled
<1>13. \A k \in 1 .. depth' : InChain(k)'
    <2> TAKE k \in 1 .. depth'
    <2>1. k \in 1 .. depth \/ k = depth + 1
        BY <1>1
    <2> QED BY <1>9, <1>10, <2>1
<1>14. \A j \in 1 .. next' - 1 : IsOpen(document'[j]) => Settled(j)'
    <2> SUFFICES ASSUME NEW j \in 1 .. next' - 1, IsOpen(document'[j]) PROVE Settled(j)'
        OBVIOUS
    <2>1. j \in 1 .. next - 1 \/ j = next
        BY <1>1
    <2>2. IsOpen(document[j])
        BY <1>1
    <2> QED BY <1>11, <1>12, <2>1, <2>2
<1>15. pending' => next' > 1 /\ document'[next' - 1].kind = "empty"
    <2>1. next' > 1 /\ next' - 1 = next
        BY <1>1
    <2>2. pending' => document[next].kind = "empty"
        BY <1>1
    <2> QED BY <1>1, <2>1, <2>2
<1> QED BY <1>13, <1>14, <1>15 DEF Chained

LEMMA ChainClosed ==
    ASSUME Standing, Chained, CloseStep, depth > 1
    PROVE  Chained'
<1> DEFINE t == Tree(document) a == Entered(depth)
<1>1. /\ document \in Seq(Event) /\ next \in 1 .. Len(document) + 1 /\ Len(document) \in Nat
      /\ pending \in BOOLEAN /\ document' = document /\ Reading /\ depth \in Nat
    BY Stand DEF CloseStep, Closing
<1>2. ~pending' /\ (pending' = FALSE) /\ next' = IF pending THEN next ELSE next + 1
    BY DEF CloseStep, Closed
<1>3. ~pending => next \in 1 .. Len(document) /\ ~IsOpen(document[next])
    BY <1>1 DEF CloseStep, Closing, AtEnd, Upcoming, IsOpen
<1>4. /\ a \in 1 .. next - 1 /\ IsOpen(document[a]) /\ t.close[a] = Shown
      /\ \A j \in 1 .. next - 1 : IsOpen(document[j]) /\ t.close[j] = Shown => j = a
    BY ClosesInnermost DEF CloseStep
<1>5. /\ Shown' = Shown + 1 /\ Shown \in Nat
      /\ \A e \in 0 .. next - 1 : Kids(e)' = Kids(e)
    BY <1>1, KidsClosed, ShownIs
<1>6. /\ depth' = depth - 1
      /\ \A k \in 1 .. depth - 1 : Entered(k)' = Entered(k)
    BY EnteredClosed
<1>7. /\ \A k \in 1 .. depth : Entered(k) \in 1 .. next - 1
      /\ \A k \in 1 .. depth - 1 : Entered(k) < a
    <2>1. \A m \in 1 .. depth : \A k \in 1 .. m - 1 : Entered(k) < Entered(m)
        BY <1>1, ChainGrows
    <2>2. depth \in 1 .. depth
        BY <1>1
    <2> QED BY <1>1, <2>1, <2>2 DEF Chained, InChain
<1>8. \A j \in 1 .. next - 1 : t.close[j] \in Nat
    BY <1>1, CloseIs
<1> HIDE DEF a
<1>9. ASSUME NEW k \in 1 .. depth - 1 PROVE InChain(k)'
    <2>1. InChain(k) /\ k \in 1 .. depth
        BY <1>1 DEF Chained
    <2>2. Entered(k)' = Entered(k) /\ (k > 1 => Entered(k - 1)' = Entered(k - 1))
        BY <1>1, <1>6
    <2>3. Entered(k) \in 1 .. next - 1 /\ IsOpen(document[Entered(k)]) /\ t.close[Entered(k)] >= Shown
        BY <2>1 DEF InChain
    <2>4. t.close[Entered(k)] >= Shown + 1
        <3>1. Entered(k) # a
            BY <1>1, <1>4, <1>7, <2>3
        <3>2. t.close[Entered(k)] # Shown
            BY <1>4, <2>3, <3>1
        <3> QED BY <1>5, <1>8, <2>3, <3>2
    <2>5. k > 1 => Kids(Entered(k - 1))' = Kids(Entered(k - 1))
        <3> SUFFICES ASSUME k > 1 PROVE Kids(Entered(k - 1))' = Kids(Entered(k - 1))
            OBVIOUS
        <3>1. Entered(k - 1) \in 0 .. next - 1
            BY <1>1, <1>7
        <3> DEFINE e == Entered(k - 1)
        <3>2. e' = e
            BY <2>2
        <3>3. \A x : x = e => Kids(x)' = Kids(x)
            BY <1>5, <3>1
        <3> QED BY <3>2, <3>3
    <2>6. Entered(k) \in 1 .. next' - 1
        BY <1>1, <1>2, <2>3
    <2>7. \/ k = 1
          \/ k > 1 /\ t.parent[Entered(k)] = Entered(k - 1) /\ \A j \in Kids(Entered(k - 1)) : j <= Entered(k)
        BY <2>1 DEF InChain
    <2>8. CASE k = 1
        BY <1>1, <1>5, <2>1, <2>2, <2>3, <2>4, <2>6, <2>8 DEF InChain
    <2>9. CASE k > 1
        BY <1>1, <1>5, <2>1, <2>2, <2>3, <2>4, <2>5, <2>6, <2>7, <2>9 DEF InChain
    <2> QED BY <2>7, <2>8, <2>9
<1>10. ASSUME NEW j \in 1 .. next - 1, IsOpen(document[j]) PROVE Settled(j)'
    <2>1. Settled(j)
        BY <1>1, <1>10 DEF Chained
    <2>2. Entered(1)' = Entered(1) /\ depth' > 0
        BY <1>1, <1>6
    <2>3. t.close[j] < Shown + 1 \/ \E k \in 1 .. depth - 1 : j = Entered(k)'
        <3>1. CASE t.close[j] < Shown
            BY <1>5, <1>8, <3>1
        <3>2. CASE ~(t.close[j] < Shown)
            <4>1. PICK k \in 1 .. depth : j = Entered(k)
                BY <2>1, <3>2 DEF Settled
            <4>2. CASE k = depth
                <5>1. t.close[j] = Shown
                    BY <1>4, <4>1, <4>2 DEF a
                <5> QED BY <1>5, <5>1
            <4>3. CASE k # depth
                <5>1. k \in 1 .. depth - 1
                    BY <1>1, <4>3
                <5>2. j = Entered(k)'
                    BY <1>6, <4>1, <5>1
                <5> QED BY <5>1, <5>2
            <4> QED BY <4>2, <4>3
        <3> QED BY <3>1, <3>2
    <2> QED BY <1>1, <1>5, <1>6, <2>1, <2>2, <2>3 DEF Settled
<1>11. \A j \in 1 .. next' - 1 : IsOpen(document'[j]) => j \in 1 .. next - 1
    BY <1>1, <1>2, <1>3
<1> QED BY <1>1, <1>2, <1>6, <1>9, <1>10, <1>11 DEF Chained

-----------------------------------------------------------------------------
(* What a step does to the calls.                                          *)

\* As far as call n the calls are the same.
SameUpTo(n) == \A i \in 1 .. n : stack'[i] = stack[i]

Moves(f) ==
    /\ PassStep /\ f.at = Top.at
    /\ Len(stack') = Len(stack) /\ stack'[Len(stack)] = f /\ SameUpTo(Len(stack) - 1)

\* A call goes on as f and calls c, for an element that is of c's part.
Pushes(f, c) ==
    /\ OpenStep /\ Top.at # "skip" /\ f.at = Top.at /\ c.at # "document"
    /\ c.at # "skip" => PartOf(next) = c.at
    /\ c.at = "skip" => PartOf(next) \notin DOMAIN Grammar \cup {"leaf"}
    /\ Len(stack') = Len(stack) + 1 /\ stack'[Len(stack) + 1] = c
    /\ stack'[Len(stack)] = f /\ SameUpTo(Len(stack) - 1)

Deepens ==
    /\ OpenStep /\ Top.at = "skip"
    /\ Len(stack') = Len(stack) /\ stack'[Len(stack)].at = "skip" /\ SameUpTo(Len(stack) - 1)

\* A call returns to its caller, which goes on as f.
Pops(f) ==
    /\ CloseStep /\ depth = Len(stack) - 1 /\ f.at = Caller.at /\ Caller.at # "document"
    /\ Len(stack') = Len(stack) - 1 /\ stack'[Len(stack) - 1] = f /\ SameUpTo(Len(stack) - 2)

Rises ==
    /\ CloseStep /\ Top.at = "skip" /\ depth > Len(stack) - 1
    /\ Len(stack') = Len(stack) /\ stack'[Len(stack)].at = "skip" /\ SameUpTo(Len(stack) - 1)

\* A call that returns is two elements deep.
LEMMA PopsFrom ==
    ASSUME Standing, NEW f, Pops(f)
    PROVE  /\ Len(stack) \in Nat /\ Len(stack) > 2 /\ depth > 1 /\ depth = Len(stack) - 1
           /\ Caller = stack[Len(stack) - 1] /\ depth \in Nat
<1>1. Reading /\ Top.at # "document" /\ Caller.at # "document" /\ depth = Len(stack) - 1
    BY DEF Pops, CloseStep, Closing
<1>2. Len(stack) \in Nat \ {0} /\ Len(stack) > 1 /\ depth \in Nat
    BY <1>1, Stand
<1>3. stack[1].at = "document"
    BY DEF Standing, Typed, TypedStack
<1>4. Len(stack) # 2
    <2>1. Len(stack) = 2 => Len(stack) - 1 = 1
        OBVIOUS
    <2> QED BY <1>1, <1>3, <2>1 DEF Caller
<1> QED BY <1>1, <1>2, <1>4 DEF Caller

LEMMA RisesFrom ==
    ASSUME Standing, Rises
    PROVE  Len(stack) \in Nat /\ Len(stack) > 1 /\ depth > 1 /\ depth > Len(stack) - 1 /\ depth \in Nat
<1>1. Reading /\ Top.at # "document"
    BY DEF Rises, CloseStep, Closing
<1>2. Len(stack) \in Nat \ {0} /\ Len(stack) > 1 /\ depth \in Nat
    BY <1>1, Stand
<1> QED BY <1>2 DEF Rises

-----------------------------------------------------------------------------

\* A call that is not the innermost does not skip.
LEMMA OnlyLastSkips ==
    ASSUME Standing, Reading
    PROVE  /\ Len(stack) \in Nat \ {0} /\ \A i \in 1 .. Len(stack) - 1 : stack[i].at # "skip"
           /\ Top = stack[Len(stack)]
<1>1. Calls(stack) /\ Len(stack) \in Nat \ {0}
    BY Stand DEF Standing, Agreement
<1>2. \A i \in 1 .. Len(stack) : stack[i].at = "skip" => i = Len(stack)
    BY <1>1 DEF Calls
<1> QED BY <1>1, <1>2 DEF Top

LEMMA SuitedMoved ==
    ASSUME Standing, Suited, NEW f, Moves(f)
    PROVE  Suited'
<1>1. PassStep /\ Reading /\ document' = document /\ depth' = depth
    BY DEF Moves, PassStep
<1>2. \A k : Entered(k)' = Entered(k)
    BY <1>1, EnteredPassed
<1>3. Len(stack) \in Nat \ {0} /\ Len(stack') = Len(stack) /\ stack'[Len(stack)].at = stack[Len(stack)].at
      /\ \A i \in 1 .. Len(stack) - 1 : stack'[i] = stack[i]
    BY <1>1, Stand DEF Moves, SameUpTo, Top
<1>4. ASSUME NEW k \in 1 .. depth PROVE Suits(stack', k, PartOf(Entered(k)))
    <2>1. Suits(stack, k, PartOf(Entered(k))) /\ k \in Nat
        BY <1>1, Stand DEF Suited
    <2>2. k < Len(stack) => stack'[k + 1].at = stack[k + 1].at
        BY <1>3, <2>1
    <2> QED BY <1>3, <2>1, <2>2 DEF Suits
<1>5. ASSUME NEW k \in 1 .. depth PROVE PartOf(Entered(k))' = PartOf(Entered(k))
    BY <1>1, <1>2 DEF PartOf
<1> QED BY <1>1, <1>4, <1>5 DEF Suited

LEMMA SuitedPushed ==
    ASSUME Standing, Suited, NEW f, NEW c, Pushes(f, c)
    PROVE  Suited'
<1>1. OpenStep /\ Reading /\ document' = document /\ depth' = depth + 1 /\ Top.at # "skip"
    BY DEF Pushes, OpenStep
<1>2. /\ \A k \in 1 .. depth : Entered(k)' = Entered(k)
      /\ \A k : k = depth + 1 => Entered(k)' = next
    BY <1>1, EnteredOpened
<1>3. /\ Len(stack) \in Nat \ {0} /\ Len(stack') = Len(stack) + 1 /\ depth = Len(stack) - 1
      /\ stack'[Len(stack)].at = stack[Len(stack)].at
      /\ \A i \in 1 .. Len(stack) - 1 : stack'[i] = stack[i]
      /\ stack'[Len(stack) + 1] = c
      /\ stack[Len(stack)].at # "skip"
    BY <1>1, Stand DEF Pushes, SameUpTo, Top
<1>4. ASSUME NEW k \in 1 .. depth PROVE Suits(stack', k, PartOf(Entered(k)))
    <2>1. Suits(stack, k, PartOf(Entered(k))) /\ k \in Nat
        BY <1>1, Stand DEF Suited
    <2>2. k < Len(stack) /\ k < Len(stack') /\ stack'[k + 1].at = stack[k + 1].at
        BY <1>3, <2>1
    <2> QED BY <2>1, <2>2 DEF Suits
<1>5. ASSUME NEW k \in 1 .. depth PROVE PartOf(Entered(k))' = PartOf(Entered(k))
    BY <1>1, <1>2 DEF PartOf
<1>6. ASSUME NEW k, k = depth + 1 PROVE Suits(stack', k, PartOf(Entered(k))')
    <2>1. PartOf(Entered(k))' = PartOf(next)
        BY <1>1, <1>2, <1>6 DEF PartOf
    <2>2. k < Len(stack') /\ k + 1 = Len(stack) + 1 /\ stack'[k + 1] = c
        BY <1>3, <1>6
    <2> QED BY <2>1, <2>2 DEF Suits, Pushes
<1>7. \A k \in 1 .. depth' : k \in 1 .. depth \/ k = depth + 1
    BY <1>1, <1>3
<1> QED BY <1>1, <1>4, <1>5, <1>6, <1>7 DEF Suited

LEMMA SuitedDeepened ==
    ASSUME Standing, Suited, Deepens
    PROVE  Suited'
<1>1. OpenStep /\ Reading /\ ~pending /\ ~AtEnd /\ IsOpen(Upcoming) /\ document' = document
      /\ depth' = depth + 1 /\ Top.at = "skip"
    BY DEF Deepens, OpenStep
<1>2. /\ \A k \in 1 .. depth : Entered(k)' = Entered(k)
      /\ \A k : k = depth + 1 => Entered(k)' = next
    BY <1>1, EnteredOpened
<1>3. /\ Len(stack) \in Nat \ {0} /\ Len(stack') = Len(stack) /\ depth >= Len(stack) - 1 /\ depth \in Nat
      /\ stack'[Len(stack)].at = stack[Len(stack)].at
      /\ \A i \in 1 .. Len(stack) - 1 : stack'[i] = stack[i]
    BY <1>1, Stand DEF Deepens, SameUpTo, Top
<1>4. ASSUME NEW k \in 1 .. depth PROVE Suits(stack', k, PartOf(Entered(k)))
    <2>1. Suits(stack, k, PartOf(Entered(k))) /\ k \in Nat
        BY <1>1, Stand DEF Suited
    <2>2. k < Len(stack) => stack'[k + 1].at = stack[k + 1].at
        BY <1>3, <2>1
    <2> QED BY <1>3, <2>1, <2>2 DEF Suits
<1>5. ASSUME NEW k \in 1 .. depth PROVE PartOf(Entered(k))' = PartOf(Entered(k))
    BY <1>1, <1>2 DEF PartOf
<1>6. ASSUME NEW k, k = depth + 1 PROVE Suits(stack', k, PartOf(Entered(k))')
    <2>1. PartOf(Entered(k))' = PartOf(next)
        BY <1>1, <1>2, <1>6 DEF PartOf
    <2>2. PartOf(next) = "below"
        BY <1>1, PartOfNext
    <2>3. ~(k < Len(stack'))
        BY <1>3, <1>6
    <2>4. "below" \notin DOMAIN Grammar \cup {"leaf"}
        BY Meanings
    <2> QED BY <2>1, <2>2, <2>3, <2>4 DEF Suits
<1>7. \A k \in 1 .. depth' : k \in 1 .. depth \/ k = depth + 1
    BY <1>1, <1>3
<1> QED BY <1>1, <1>4, <1>5, <1>6, <1>7 DEF Suited

LEMMA SuitedPopped ==
    ASSUME Standing, Suited, NEW f, Pops(f)
    PROVE  Suited'
<1>1. CloseStep /\ Reading /\ document' = document
    BY DEF Pops, CloseStep, Closing
<1>2. depth' = depth - 1 /\ \A k \in 1 .. depth - 1 : Entered(k)' = Entered(k)
    BY <1>1, EnteredClosed
<1>3. /\ Len(stack) \in Nat /\ Len(stack) > 2 /\ depth \in Nat /\ depth = Len(stack) - 1
      /\ Len(stack') = Len(stack) - 1
      /\ stack'[Len(stack) - 1].at = stack[Len(stack) - 1].at
      /\ \A i \in 1 .. Len(stack) - 2 : stack'[i] = stack[i]
    BY PopsFrom DEF Pops, SameUpTo
<1>4. ASSUME NEW k \in 1 .. depth - 1 PROVE Suits(stack', k, PartOf(Entered(k)))
    <2>1. Suits(stack, k, PartOf(Entered(k))) /\ k \in Nat
        BY <1>1, <1>3 DEF Suited
    <2>2. k < Len(stack) /\ k < Len(stack') /\ stack'[k + 1].at = stack[k + 1].at
        BY <1>3, <2>1
    <2> QED BY <2>1, <2>2 DEF Suits
<1>5. ASSUME NEW k \in 1 .. depth - 1 PROVE PartOf(Entered(k))' = PartOf(Entered(k))
    BY <1>1, <1>2 DEF PartOf
<1> QED BY <1>2, <1>4, <1>5 DEF Suited

LEMMA SuitedRisen ==
    ASSUME Standing, Suited, Rises
    PROVE  Suited'
<1>1. CloseStep /\ Reading /\ document' = document
    BY DEF Rises, CloseStep, Closing
<1>2. depth' = depth - 1 /\ \A k \in 1 .. depth - 1 : Entered(k)' = Entered(k)
    BY <1>1, EnteredClosed
<1>3. /\ Len(stack) \in Nat /\ Len(stack) > 1 /\ depth \in Nat
      /\ Len(stack') = Len(stack)
      /\ stack'[Len(stack)].at = stack[Len(stack)].at
      /\ \A i \in 1 .. Len(stack) - 1 : stack'[i] = stack[i]
    BY RisesFrom DEF Rises, SameUpTo, Top
<1>4. ASSUME NEW k \in 1 .. depth - 1 PROVE Suits(stack', k, PartOf(Entered(k)))
    <2>1. Suits(stack, k, PartOf(Entered(k))) /\ k \in Nat
        BY <1>1, <1>3 DEF Suited
    <2>2. k < Len(stack) => stack'[k + 1].at = stack[k + 1].at
        BY <1>3, <2>1
    <2> QED BY <1>3, <2>1, <2>2 DEF Suits
<1>5. ASSUME NEW k \in 1 .. depth - 1 PROVE PartOf(Entered(k))' = PartOf(Entered(k))
    BY <1>1, <1>2 DEF PartOf
<1> QED BY <1>2, <1>4, <1>5 DEF Suited

-----------------------------------------------------------------------------
(* What the calls hold, through a step.                                    *)

\* What the calls hold, of the elements they are in.
Holds(k) == Fits(stack[k + 1], Tree(document), Kids(Entered(k)), Done(Entered(k)))

\* One event more is heard.
LEMMA SpokenStep ==
    ASSUME NEW d \in Seq(Event), NEW n \in 1 .. Len(d), NEW e \in 1 .. n - 1
    PROVE  Spoken(d, e, n + 1) = Spoken(d, e, n) \o Said(d[n])
<1>1. Len(d) \in Nat /\ n \in Nat /\ e \in Nat
    OBVIOUS
<1>2. (n + 1) - e - 1 = (n - e - 1) + 1 /\ n - e - 1 \in Nat /\ e + ((n - e - 1) + 1) = n
    BY <1>1
<1> DEFINE m == n - e - 1
           s == [k \in 1 .. m |-> Said(d[e + k])]
           u == [k \in 1 .. m + 1 |-> Said(d[e + k])]
<1>3. Spoken(d, e, n) = FlattenSeq(s) /\ Spoken(d, e, n + 1) = FlattenSeq(u)
    BY <1>2 DEF Spoken
<1>4. u[m + 1] = Said(d[n])
    BY <1>2
<1>5. IsSequence(Said(d[n]))
    <2>1. d[n] \in Event
        OBVIOUS
    <2>2. IsText(d[n]) => d[n].pieces \in Seq(Piece)
        BY <2>1 DEF Event, OpenEvent, TextEvent, ReferenceEvent, DeclarationEvent, PlainEvent,
                    BrokenEvent, IsText, Text
    <2>3. <<>> \in Seq(Piece)
        OBVIOUS
    <2>4. Said(d[n]) \in Seq(Piece)
        BY <2>2, <2>3 DEF Said
    <2> QED BY <2>4 DEF IsSequence
<1>6. s = [k \in 1 .. m |-> s[k]] /\ u = [k \in 1 .. m + 1 |-> u[k]] /\ m \in Nat
    BY <1>2
<1>7. \A k \in 1 .. m : s[k] = u[k]
    BY <1>6
<1>8. IsSequence(u[m + 1])
    BY <1>4, <1>5
<1>9. FlattenSeq(u) = FlattenSeq(s) \o u[m + 1]
    <2> HIDE DEF s, u, m
    <2> QED BY <1>6, <1>7, <1>8, FlattenStep
<1> QED BY <1>3, <1>4, <1>9

LEMMA NoneSpoken ==
    ASSUME NEW d, NEW e \in Nat
    PROVE  Spoken(d, e, e + 1) = <<>> /\ Spoken(d, e, e) = <<>>
<1>1. (e + 1) - e - 1 = 0 /\ e - e - 1 = -1
    OBVIOUS
<1>2. 1 .. 0 = {} /\ 1 .. -1 = {}
    OBVIOUS
<1>3. [k \in 1 .. 0 |-> Said(d[e + k])] = <<>> /\ [k \in 1 .. -1 |-> Said(d[e + k])] = <<>>
    BY <1>2
<1>4. FlattenSeq(<<>>) = <<>>
    BY DEF FlattenSeq
<1> QED BY <1>1, <1>3, <1>4 DEF Spoken

LEMMA FilledMoved ==
    ASSUME Standing, Chained, Filled, NEW f, Moves(f),
           Top.at = "leaf" => f.field = Top.field /\ f.text = Top.text \o Said(Upcoming),
           Top.at # "leaf" => f = Top
    PROVE  Filled'
<1> DEFINE t == Tree(document)
<1>1. /\ PassStep /\ Reading /\ document' = document /\ depth' = depth /\ next' = next + 1
      /\ ~AtEnd /\ Upcoming = document[next]
    BY DEF Moves, PassStep, Upcoming
<1>2. /\ document \in Seq(Event) /\ next \in 1 .. Len(document) /\ next \in Nat \ {0} /\ depth \in Nat
      /\ Len(stack) \in Nat \ {0} /\ Len(stack) - 1 <= depth
      /\ Top.at = "leaf" => depth > 0
    BY <1>1, Stand DEF AtEnd
<1>3. \A k : Entered(k)' = Entered(k)
    BY <1>1, EnteredPassed
<1>4. \A e \in Nat : Kids(e)' = Kids(e) /\ Done(e)' = Done(e)
    BY <1>1, KidsPassed
<1>5. /\ Len(stack') = Len(stack) /\ stack'[Len(stack)] = f /\ f.at = Top.at
      /\ \A i \in 1 .. Len(stack) - 1 : stack'[i] = stack[i]
      /\ Top = stack[Len(stack)] /\ Top' = f
    BY DEF Moves, SameUpTo, Top
<1>6. \A k \in 1 .. depth : Entered(k) \in 1 .. next - 1
    BY <1>1 DEF Chained, InChain
<1>7. ASSUME NEW k \in 1 .. Len(stack) - 1
      PROVE  Fits(stack'[k + 1], t, Kids(Entered(k))', Done(Entered(k))')
    <2>1. Fits(stack[k + 1], t, Kids(Entered(k)), Done(Entered(k)))
        BY <1>1, <1>7 DEF Filled
    <2> DEFINE e == Entered(k)
    <2>2. e \in Nat /\ e' = e
        BY <1>2, <1>3, <1>6
    <2>3. \A x : x = e => Kids(x)' = Kids(x) /\ Done(x)' = Done(x)
        BY <1>4, <2>2
    <2>4. Kids(e)' = Kids(e) /\ Done(e)' = Done(e)
        BY <2>2, <2>3
    <2>5. Fits(stack'[k + 1], t, Kids(e), Done(e))
        <3>1. CASE k + 1 = Len(stack) /\ Top.at = "leaf"
            BY <1>5, <3>1 DEF Fits
        <3>2. CASE ~(k + 1 = Len(stack) /\ Top.at = "leaf")
            <4>1. k + 1 \in 1 .. Len(stack) - 1 \/ k + 1 = Len(stack)
                BY <1>2
            <4>2. stack'[k + 1] = stack[k + 1]
                BY <1>5, <3>2, <4>1
            <4> QED BY <2>1, <4>2
        <3> QED BY <3>1, <3>2
    <2> QED BY <2>4, <2>5
<1>8. ASSUME Top.at = "leaf"
      PROVE  /\ document[Entered(depth)].name = f.field /\ document[Entered(depth)].binding = "target"
             /\ f.text = Spoken(document, Entered(depth), next + 1)
    <2>1. /\ document[Entered(depth)].name = Top.field /\ document[Entered(depth)].binding = "target"
          /\ Top.text = Spoken(document, Entered(depth), next)
        BY <1>1, <1>8 DEF Filled
    <2>2. Entered(depth) \in 1 .. next - 1
        BY <1>2, <1>6, <1>8
    <2>3. Spoken(document, Entered(depth), next + 1) =
                Spoken(document, Entered(depth), next) \o Said(document[next])
        BY <1>2, <2>2, SpokenStep
    <2> QED BY <1>1, <1>8, <2>1, <2>3
<1>9. Entered(depth)' = Entered(depth)
    BY <1>1, <1>3
<1> QED BY <1>1, <1>5, <1>7, <1>8, <1>9 DEF Filled

LEMMA FilledPushed ==
    ASSUME Standing, Chained, Filled, NEW f, NEW c, Pushes(f, c),
           depth > 0 => Fits(f, Tree(document), Kids(Outer) \cup {next}, Done(Outer)),
           Fits(c, Tree(document), {}, {}),
           c.at = "leaf" => /\ Upcoming.name = c.field /\ Upcoming.binding = "target"
                            /\ c.text = <<>>
    PROVE  Filled'
<1> DEFINE t == Tree(document)
<1>1. /\ OpenStep /\ Reading /\ document' = document /\ depth' = depth + 1 /\ next' = next + 1
      /\ ~AtEnd /\ Upcoming = document[next] /\ Top.at # "skip"
    BY DEF Pushes, OpenStep, Upcoming
<1>2. /\ document \in Seq(Event) /\ next \in 1 .. Len(document) /\ next \in Nat \ {0} /\ depth \in Nat
      /\ Len(stack) \in Nat \ {0} /\ Len(stack) - 1 = depth
    BY <1>1, Stand DEF AtEnd
<1>3. /\ \A k \in 1 .. depth : Entered(k)' = Entered(k)
      /\ \A k : k = depth + 1 => Entered(k)' = next
    BY <1>1, EnteredOpened
<1>4. /\ \A e \in 0 .. next - 1 :
            /\ Kids(e)' = Kids(e) \cup (IF e = Outer THEN {next} ELSE {})
            /\ Done(e)' = Done(e)
      /\ \A e : e = next => Kids(e)' = {} /\ Done(e)' = {}
    BY <1>1, KidsOpened
<1>5. /\ Len(stack') = Len(stack) + 1 /\ stack'[Len(stack)] = f /\ f.at = Top.at
      /\ \A i \in 1 .. Len(stack) - 1 : stack'[i] = stack[i]
      /\ stack'[Len(stack) + 1] = c /\ Top' = c
    BY DEF Pushes, SameUpTo, Top
<1>6. /\ \A k \in 1 .. depth : Entered(k) \in 1 .. next - 1
      /\ \A k \in 1 .. depth - 1 : Entered(k) < Entered(depth)
    <2>1. depth > 0 => depth \in 1 .. depth
        BY <1>2
    <2>2. \A m \in 1 .. depth : \A k \in 1 .. m - 1 : Entered(k) < Entered(m)
        BY <1>1, ChainGrows
    <2> QED BY <1>1, <1>2, <2>1, <2>2 DEF Chained, InChain
<1>7. ASSUME NEW k \in 1 .. depth
      PROVE  Fits(stack'[k + 1], t, Kids(Entered(k))', Done(Entered(k))')
    <2>1. Fits(stack[k + 1], t, Kids(Entered(k)), Done(Entered(k)))
        BY <1>1, <1>2, <1>7 DEF Filled
    <2> DEFINE e == Entered(k)
    <2>2. e \in 0 .. next - 1 /\ e' = e
        BY <1>2, <1>3, <1>6
    <2>3. \A x : x = e => /\ Kids(x)' = Kids(x) \cup (IF x = Outer THEN {next} ELSE {})
                          /\ Done(x)' = Done(x)
        BY <1>4, <2>2
    <2>4. Kids(e)' = Kids(e) \cup (IF e = Outer THEN {next} ELSE {}) /\ Done(e)' = Done(e)
        BY <2>2, <2>3
    <2>5. Outer = Entered(depth)
        BY <1>2 DEF Outer
    <2>6. CASE k = depth
        <3>1. stack'[k + 1] = f
            BY <1>2, <1>5, <2>6
        <3>2. e = Outer
            BY <2>5, <2>6
        <3>3. Fits(f, t, Kids(e) \cup {next}, Done(e))
            BY <1>2, <3>2
        <3> QED BY <2>4, <3>1, <3>2, <3>3
    <2>7. CASE k # depth
        <3>1. k \in 1 .. depth - 1 /\ k + 1 \in 1 .. Len(stack) - 1 /\ depth \in 1 .. depth
            BY <1>2, <2>7
        <3>2. e < Outer /\ Outer \in Nat
            BY <1>2, <1>6, <2>5, <3>1
        <3>3. e # Outer
            BY <2>2, <3>2
        <3>4. stack'[k + 1] = stack[k + 1]
            BY <1>5, <3>1
        <3> QED BY <2>1, <2>4, <3>3, <3>4
    <2> QED BY <2>6, <2>7
<1>8. ASSUME NEW k, k = depth + 1
      PROVE  /\ Fits(stack'[k + 1], t, Kids(Entered(k))', Done(Entered(k))')
             /\ c.at = "leaf" =>
                   /\ document[Entered(k)'].name = c.field /\ document[Entered(k)'].binding = "target"
                   /\ c.text = Spoken(document, Entered(k)', next + 1)
    <2>1. stack'[k + 1] = c
        BY <1>2, <1>5, <1>8
    <2>2. Entered(k)' = next
        BY <1>3, <1>8
    <2>3. Kids(Entered(k))' = {} /\ Done(Entered(k))' = {}
        <3>1. PICK x : x = next
            OBVIOUS
        <3>2. Kids(x)' = {} /\ Done(x)' = {} /\ Entered(k)' = x
            BY <1>4, <2>2, <3>1
        <3> QED BY <3>2
    <2>4. Spoken(document, next, next + 1) = <<>>
        BY <1>2, NoneSpoken
    <2> QED BY <1>1, <2>1, <2>2, <2>3, <2>4
<1>9. \A k \in 1 .. Len(stack') - 1 : k \in 1 .. depth \/ k = depth + 1
    BY <1>2, <1>5
<1>10. PICK k : k = depth + 1
    OBVIOUS
<1>11. Entered(depth)' = Entered(k)'
    BY <1>1, <1>10
<1>12. \A i \in 1 .. Len(stack') - 1 :
            Fits(stack'[i + 1], t, Kids(Entered(i))', Done(Entered(i))')
    BY <1>7, <1>8, <1>9
<1>13. Top'.at = "leaf" =>
            /\ document[Entered(depth)'].name = Top'.field /\ document[Entered(depth)'].binding = "target"
            /\ Top'.text = Spoken(document, Entered(depth)', next + 1)
    BY <1>5, <1>8, <1>10, <1>11
<1> QED BY <1>1, <1>12, <1>13 DEF Filled

LEMMA FilledDeepened ==
    ASSUME Standing, Chained, Filled, Deepens
    PROVE  Filled'
<1> DEFINE t == Tree(document)
<1>1. /\ OpenStep /\ Reading /\ document' = document /\ depth' = depth + 1 /\ next' = next + 1
      /\ ~AtEnd /\ Top.at = "skip"
    BY DEF Deepens, OpenStep
<1>2. /\ document \in Seq(Event) /\ next \in 1 .. Len(document) /\ next \in Nat \ {0} /\ depth \in Nat
      /\ Len(stack) \in Nat \ {0} /\ Len(stack) - 1 <= depth
    BY <1>1, Stand DEF AtEnd
<1>3. \A k \in 1 .. depth : Entered(k)' = Entered(k)
    BY <1>1, EnteredOpened
<1>4. \A e \in 0 .. next - 1 :
            /\ Kids(e)' = Kids(e) \cup (IF e = Outer THEN {next} ELSE {})
            /\ Done(e)' = Done(e)
    BY <1>1, KidsOpened
<1>5. /\ Len(stack') = Len(stack) /\ stack'[Len(stack)].at = "skip"
      /\ \A i \in 1 .. Len(stack) - 1 : stack'[i] = stack[i]
      /\ Top'.at = "skip"
    BY DEF Deepens, SameUpTo, Top
<1>6. /\ \A k \in 1 .. depth : Entered(k) \in 1 .. next - 1
      /\ \A k \in 1 .. depth - 1 : Entered(k) < Entered(depth)
    <2>1. depth > 0 => depth \in 1 .. depth
        BY <1>2
    <2>2. \A m \in 1 .. depth : \A k \in 1 .. m - 1 : Entered(k) < Entered(m)
        BY <1>1, ChainGrows
    <2> QED BY <1>1, <1>2, <2>1, <2>2 DEF Chained, InChain
<1>7. ASSUME NEW k \in 1 .. Len(stack) - 1
      PROVE  Fits(stack'[k + 1], t, Kids(Entered(k))', Done(Entered(k))')
    <2>1. CASE k + 1 = Len(stack)
        <3>1. stack'[k + 1].at = "skip"
            BY <1>5, <2>1
        <3> QED BY <3>1 DEF Fits
    <2>2. CASE k + 1 # Len(stack)
        <3>1. k \in 1 .. depth - 1 /\ k \in 1 .. depth /\ k + 1 \in 1 .. Len(stack) - 1 /\ depth \in 1 .. depth
            BY <1>2, <2>2
        <3>2. Fits(stack[k + 1], t, Kids(Entered(k)), Done(Entered(k)))
            BY <1>1, <1>7 DEF Filled
        <3> DEFINE e == Entered(k)
        <3>3. e \in 0 .. next - 1 /\ e' = e
            BY <1>2, <1>3, <1>6, <3>1
        <3>4. \A x : x = e => /\ Kids(x)' = Kids(x) \cup (IF x = Outer THEN {next} ELSE {})
                              /\ Done(x)' = Done(x)
            BY <1>4, <3>3
        <3>5. Kids(e)' = Kids(e) \cup (IF e = Outer THEN {next} ELSE {}) /\ Done(e)' = Done(e)
            BY <3>3, <3>4
        <3>6. Outer = Entered(depth)
            BY <1>2, <3>1 DEF Outer
        <3>7. e < Outer /\ Outer \in Nat
            BY <1>2, <1>6, <3>1, <3>6
        <3>8. e # Outer
            BY <3>3, <3>7
        <3>9. stack'[k + 1] = stack[k + 1]
            BY <1>5, <3>1
        <3> QED BY <3>2, <3>5, <3>8, <3>9
    <2> QED BY <2>1, <2>2
<1> QED BY <1>1, <1>5, <1>7 DEF Filled

LEMMA FilledPopped ==
    ASSUME Standing, Chained, Filled, NEW f, Pops(f),
           Fits(f, Tree(document), Kids(Entered(depth - 1)),
                Done(Entered(depth - 1)) \cup {Entered(depth)})
    PROVE  Filled'
<1> DEFINE t == Tree(document)
<1>1. /\ CloseStep /\ Reading /\ document' = document /\ Top.at # "document"
    BY DEF Pops, CloseStep, Closing
<1>2. /\ document \in Seq(Event) /\ next \in Nat \ {0}
      /\ Len(stack) \in Nat /\ Len(stack) > 2 /\ depth \in Nat /\ depth = Len(stack) - 1 /\ depth > 1
      /\ Caller = stack[Len(stack) - 1]
    BY <1>1, Stand, PopsFrom
<1>3. depth' = depth - 1 /\ \A k \in 1 .. depth - 1 : Entered(k)' = Entered(k)
    BY <1>1, EnteredClosed
<1>4. \A e \in 0 .. next - 1 :
            /\ Kids(e)' = Kids(e)
            /\ Done(e)' = Done(e) \cup (IF e = t.parent[Entered(depth)] THEN {Entered(depth)} ELSE {})
    BY <1>1, KidsClosed
<1>5. /\ Len(stack') = Len(stack) - 1 /\ stack'[Len(stack) - 1] = f /\ f.at = Caller.at
      /\ \A i \in 1 .. Len(stack) - 2 : stack'[i] = stack[i]
      /\ Top' = f
    BY DEF Pops, SameUpTo, Top
<1>6. /\ \A k \in 1 .. depth : Entered(k) \in 1 .. next - 1
      /\ \A k \in 1 .. depth - 2 : Entered(k) < Entered(depth - 1)
      /\ t.parent[Entered(depth)] = Entered(depth - 1)
    <2>1. depth - 1 \in 1 .. depth /\ depth \in 1 .. depth /\ depth # 1 /\ (depth - 1) - 1 = depth - 2
        BY <1>2
    <2>2. \A m \in 1 .. depth : \A k \in 1 .. m - 1 : Entered(k) < Entered(m)
        BY <1>1, ChainGrows
    <2>3. \A k \in 1 .. depth : InChain(k)
        BY <1>1 DEF Chained
    <2>4. t.parent[Entered(depth)] = Entered(depth - 1)
        BY <2>1, <2>3 DEF InChain
    <2>5. \A k \in 1 .. depth - 2 : Entered(k) < Entered(depth - 1)
        BY <2>1, <2>2
    <2> QED BY <2>3, <2>4, <2>5 DEF InChain
<1>7. ASSUME NEW k \in 1 .. Len(stack) - 2
      PROVE  Fits(stack'[k + 1], t, Kids(Entered(k))', Done(Entered(k))')
    <2> DEFINE e == Entered(k)
    <2>0. k \in 1 .. depth /\ k \in 1 .. depth - 1
        BY <1>2
    <2>1. e \in 0 .. next - 1 /\ e' = e
        BY <1>2, <1>3, <1>6, <2>0
    <2>2. \A x : x = e => /\ Kids(x)' = Kids(x)
                          /\ Done(x)' = Done(x) \cup
                                (IF x = t.parent[Entered(depth)] THEN {Entered(depth)} ELSE {})
        BY <1>4, <2>1
    <2>3. /\ Kids(e)' = Kids(e)
          /\ Done(e)' = Done(e) \cup (IF e = Entered(depth - 1) THEN {Entered(depth)} ELSE {})
        BY <1>6, <2>1, <2>2
    <2>4. CASE k = depth - 1
        <3>1. stack'[k + 1] = f
            BY <1>2, <1>5, <2>4
        <3> QED BY <2>3, <2>4, <3>1
    <2>5. CASE k # depth - 1
        <3>1. k \in 1 .. depth - 2 /\ k + 1 \in 1 .. Len(stack) - 2 /\ k \in 1 .. Len(stack) - 1
              /\ depth - 1 \in 1 .. depth
            BY <1>2, <2>5
        <3>2. e < Entered(depth - 1) /\ e \in Int /\ Entered(depth - 1) \in Int
            BY <1>2, <1>6, <2>1, <3>1
        <3>3. e # Entered(depth - 1)
            BY <3>2
        <3>4. Fits(stack[k + 1], t, Kids(e), Done(e))
            BY <1>1, <3>1 DEF Filled
        <3>5. stack'[k + 1] = stack[k + 1]
            BY <1>5, <3>1
        <3> QED BY <2>3, <3>3, <3>4, <3>5
    <2> QED BY <2>4, <2>5
<1>8. Top'.at # "leaf"
    <2>1. Top.at \in Callees(Caller.at)
        BY <1>1, TypedCalls DEF Standing, Typed
    <2>2. Caller.at # "leaf"
        BY <2>1 DEF Callees
    <2> QED BY <1>5, <2>2
<1>9. \A k \in 1 .. Len(stack') - 1 : k \in 1 .. Len(stack) - 2
    BY <1>2, <1>5
<1> QED BY <1>1, <1>7, <1>8, <1>9 DEF Filled

LEMMA FilledRisen ==
    ASSUME Standing, Chained, Filled, Rises
    PROVE  Filled'
<1> DEFINE t == Tree(document)
<1>1. /\ CloseStep /\ Reading /\ document' = document /\ Top.at # "document"
    BY DEF Rises, CloseStep, Closing
<1>2. /\ document \in Seq(Event) /\ next \in Nat \ {0}
      /\ Len(stack) \in Nat /\ Len(stack) > 1 /\ depth \in Nat /\ depth > Len(stack) - 1 /\ depth > 1
    BY <1>1, Stand, RisesFrom
<1>3. depth' = depth - 1 /\ \A k \in 1 .. depth - 1 : Entered(k)' = Entered(k)
    BY <1>1, EnteredClosed
<1>4. \A e \in 0 .. next - 1 :
            /\ Kids(e)' = Kids(e)
            /\ Done(e)' = Done(e) \cup (IF e = t.parent[Entered(depth)] THEN {Entered(depth)} ELSE {})
    BY <1>1, KidsClosed
<1>5. /\ Len(stack') = Len(stack) /\ stack'[Len(stack)].at = "skip"
      /\ \A i \in 1 .. Len(stack) - 1 : stack'[i] = stack[i]
      /\ Top'.at = "skip"
    BY DEF Rises, SameUpTo, Top
<1>6. /\ \A k \in 1 .. depth : Entered(k) \in 1 .. next - 1
      /\ \A k \in 1 .. depth - 2 : Entered(k) < Entered(depth - 1)
      /\ t.parent[Entered(depth)] = Entered(depth - 1)
    <2>1. depth - 1 \in 1 .. depth /\ depth \in 1 .. depth /\ depth # 1 /\ (depth - 1) - 1 = depth - 2
        BY <1>2
    <2>2. \A m \in 1 .. depth : \A k \in 1 .. m - 1 : Entered(k) < Entered(m)
        BY <1>1, ChainGrows
    <2>3. \A k \in 1 .. depth : InChain(k)
        BY <1>1 DEF Chained
    <2>4. t.parent[Entered(depth)] = Entered(depth - 1)
        BY <2>1, <2>3 DEF InChain
    <2>5. \A k \in 1 .. depth - 2 : Entered(k) < Entered(depth - 1)
        BY <2>1, <2>2
    <2> QED BY <2>3, <2>4, <2>5 DEF InChain
<1>7. ASSUME NEW k \in 1 .. Len(stack) - 1
      PROVE  Fits(stack'[k + 1], t, Kids(Entered(k))', Done(Entered(k))')
    <2>1. CASE k + 1 = Len(stack)
        <3>1. stack'[k + 1].at = "skip"
            BY <1>5, <2>1
        <3> QED BY <3>1 DEF Fits
    <2>2. CASE k + 1 # Len(stack)
        <3> DEFINE e == Entered(k)
        <3>0. /\ k \in 1 .. depth - 2 /\ k \in 1 .. depth - 1 /\ k \in 1 .. depth
              /\ k + 1 \in 1 .. Len(stack) - 1 /\ depth - 1 \in 1 .. depth
            BY <1>2, <2>2
        <3>1. e \in 0 .. next - 1 /\ e' = e
            BY <1>2, <1>3, <1>6, <3>0
        <3>2. \A x : x = e => /\ Kids(x)' = Kids(x)
                              /\ Done(x)' = Done(x) \cup
                                    (IF x = t.parent[Entered(depth)] THEN {Entered(depth)} ELSE {})
            BY <1>4, <3>1
        <3>3. /\ Kids(e)' = Kids(e)
              /\ Done(e)' = Done(e) \cup (IF e = Entered(depth - 1) THEN {Entered(depth)} ELSE {})
            BY <1>6, <3>1, <3>2
        <3>4. e < Entered(depth - 1) /\ e \in Int /\ Entered(depth - 1) \in Int
            BY <1>2, <1>6, <3>0, <3>1
        <3>5. e # Entered(depth - 1)
            BY <3>4
        <3>6. Fits(stack[k + 1], t, Kids(e), Done(e))
            BY <1>1 DEF Filled
        <3>7. stack'[k + 1] = stack[k + 1]
            BY <1>5, <3>0
        <3> QED BY <3>3, <3>5, <3>6, <3>7
    <2> QED BY <2>1, <2>2
<1> QED BY <1>1, <1>5, <1>7 DEF Filled

-----------------------------------------------------------------------------
(* No fault is passed.                                                     *)

LEMMA CleanPassed ==
    ASSUME Standing, Clean, PassStep, EventFaults(Tree(document), next) = {}
    PROVE  Clean'
<1> DEFINE t == Tree(document)
<1>1. /\ document \in Seq(Event) /\ next \in 1 .. Len(document) /\ Len(document) \in Nat
      /\ Reading /\ ~pending /\ ~pending' /\ next' = next + 1 /\ document' = document
      /\ ~IsOpen(document[next]) /\ document[next].kind # "end"
    BY Stand DEF PassStep, AtEnd, Upcoming
<1>2. Shown = next /\ Shown' = next + 1
    BY <1>1 DEF Shown
<1>3. \A j \in 1 .. next - 1 : t.close[j] \in Nat /\ t.close[j] # next
    <2> TAKE j \in 1 .. next - 1
    <2>1. j \in 1 .. Len(document) /\ j # next
        BY <1>1
    <2>2. /\ t.close[j] \in Nat
          /\ \A m \in 1 .. Len(document) : t.close[j] = m /\ m # j => document[m].kind = "end"
        BY <1>1, <2>1, CloseIs
    <2> QED BY <1>1, <2>1, <2>2
<1>4. ASSUME NEW i \in 1 .. next' - 1
      PROVE  /\ EventFaults(t, i) = {}
             /\ IsOpen(document[i]) =>
                   /\ PlaceFaults(t, i) = {}
                   /\ t.close[i] < Shown' => ValueFaults(t, i) = {}
    <2>1. CASE i = next
        BY <1>1, <2>1
    <2>2. CASE i # next
        <3>1. i \in 1 .. next - 1
            BY <1>1, <2>2
        <3>2. t.close[i] < Shown' => t.close[i] < Shown
            BY <1>1, <1>2, <1>3, <3>1
        <3> QED BY <1>1, <3>1, <3>2 DEF Clean
    <2> QED BY <2>1, <2>2
<1> QED BY <1>1, <1>4 DEF Clean

LEMMA CleanOpened ==
    ASSUME Standing, Clean, OpenStep, EventFaults(Tree(document), next) = {},
           PlaceFaults(Tree(document), next) = {}
    PROVE  Clean'
<1> DEFINE t == Tree(document)
<1>1. /\ document \in Seq(Event) /\ next \in 1 .. Len(document) /\ Len(document) \in Nat
      /\ Reading /\ ~pending /\ next' = next + 1 /\ document' = document
      /\ pending' = (document[next].kind = "empty") /\ IsOpen(document[next])
    BY Stand DEF OpenStep, AtEnd, Upcoming
<1>2. Shown = next /\ Shown' = IF document[next].kind = "empty" THEN next ELSE next + 1
    <2>1. (next + 1) - 1 = next
        BY <1>1
    <2>2. Shown' = IF pending' THEN next' - 1 ELSE next'
        BY DEF Shown
    <2>3. CASE document[next].kind = "empty"
        <3>1. pending' = TRUE
            BY <1>1, <2>3
        <3> QED BY <1>1, <2>1, <2>2, <2>3, <3>1 DEF Shown
    <2>4. CASE document[next].kind # "empty"
        <3>1. pending' = FALSE
            BY <1>1, <2>4
        <3> QED BY <1>1, <2>2, <2>4, <3>1 DEF Shown
    <2> QED BY <2>3, <2>4
<1>3. \A j \in 1 .. next - 1 : t.close[j] \in Nat /\ t.close[j] # next
    <2> TAKE j \in 1 .. next - 1
    <2>1. j \in 1 .. Len(document) /\ j # next
        BY <1>1
    <2>2. /\ t.close[j] \in Nat
          /\ \A m \in 1 .. Len(document) : t.close[j] = m /\ m # j => document[m].kind = "end"
        BY <1>1, <2>1, CloseIs
    <2> QED BY <1>1, <2>1, <2>2 DEF IsOpen
<1>4. ~(t.close[next] < Shown')
    <2>1. /\ t.close[next] \in Nat
          /\ document[next].kind # "start" => t.close[next] = next
          /\ document[next].kind = "start" => t.close[next] > next
        BY <1>1, CloseIs
    <2> QED BY <1>1, <1>2, <2>1 DEF IsOpen
<1>5. ASSUME NEW i \in 1 .. next' - 1
      PROVE  /\ EventFaults(t, i) = {}
             /\ IsOpen(document[i]) =>
                   /\ PlaceFaults(t, i) = {}
                   /\ t.close[i] < Shown' => ValueFaults(t, i) = {}
    <2>1. CASE i = next
        BY <1>1, <1>4, <2>1
    <2>2. CASE i # next
        <3>1. i \in 1 .. next - 1
            BY <1>1, <2>2
        <3>2. t.close[i] < Shown' => t.close[i] < Shown
            BY <1>1, <1>2, <1>3, <3>1
        <3> QED BY <1>1, <3>1, <3>2 DEF Clean
    <2> QED BY <2>1, <2>2
<1> QED BY <1>1, <1>5 DEF Clean

LEMMA CleanClosed ==
    ASSUME Standing, Chained, Clean, CloseStep,
           ValueFaults(Tree(document), Entered(depth)) = {}
    PROVE  Clean'
<1> DEFINE t == Tree(document) a == Entered(depth)
<1>1. /\ document \in Seq(Event) /\ next \in 1 .. Len(document) + 1 /\ Len(document) \in Nat
      /\ pending \in BOOLEAN /\ document' = document /\ Reading
    BY Stand DEF CloseStep, Closing
<1>2. next' = IF pending THEN next ELSE next + 1
    BY DEF CloseStep, Closed
<1>3. ~pending => next \in 1 .. Len(document) /\ document[next].kind = "end"
    BY <1>1 DEF CloseStep, Closing, AtEnd, Upcoming
<1>4. /\ a \in 1 .. next - 1 /\ IsOpen(document[a]) /\ t.close[a] = Shown
      /\ \A j \in 1 .. next - 1 : IsOpen(document[j]) /\ t.close[j] = Shown => j = a
    BY ClosesInnermost DEF CloseStep
<1>5. Shown' = Shown + 1 /\ Shown \in Nat
    BY <1>1, KidsClosed, ShownIs
<1>6. \A j \in 1 .. next - 1 : t.close[j] \in Nat
    BY <1>1, CloseIs
<1> HIDE DEF a
<1>7. ASSUME NEW i \in 1 .. next' - 1
      PROVE  /\ EventFaults(t, i) = {}
             /\ IsOpen(document[i]) =>
                   /\ PlaceFaults(t, i) = {}
                   /\ t.close[i] < Shown' => ValueFaults(t, i) = {}
    <2>1. CASE i \in 1 .. next - 1
        <3>1. /\ EventFaults(t, i) = {}
              /\ IsOpen(document[i]) =>
                    /\ PlaceFaults(t, i) = {}
                    /\ t.close[i] < Shown => ValueFaults(t, i) = {}
            BY <1>1, <2>1 DEF Clean
        <3>2. IsOpen(document[i]) /\ t.close[i] < Shown' => i = a \/ t.close[i] < Shown
            BY <1>4, <1>5, <1>6, <2>1
        <3>3. ValueFaults(t, a) = {}
            BY DEF a
        <3> QED BY <3>1, <3>2, <3>3
    <2>2. CASE i \notin 1 .. next - 1
        <3>1. i = next /\ ~pending
            BY <1>1, <1>2, <2>2
        <3>2. document[i].kind = "end" /\ t.event = document
            BY <1>1, <1>3, <3>1, TreeIs
        <3>3. ~IsOpen(document[i]) /\ EventFaults(t, i) = {}
            BY <3>2 DEF EventFaults, IsOpen, IsText
        <3> QED BY <3>3
    <2> QED BY <2>1, <2>2
<1> QED BY <1>1, <1>7 DEF Clean

-----------------------------------------------------------------------------
(* What the scanner refuses.                                               *)

\* Counting the attributes refuses for one that is counted.
LEMMA CountedOutIs ==
    ASSUME NEW e, e.attributes \in Seq(Attribute),
           NEW counted, counted = 1 .. Min({Len(e.attributes), MaxAttributes + 1})
    PROVE  \/ /\ CountedOut(e) = "none" /\ Len(e.attributes) <= MaxAttributes
              /\ \A k \in counted : ~(e.attributes[k].raw < 0)
           \/ CountedOut(e) = "malformed.attribute" /\ \E k \in counted : e.attributes[k].raw < 0
           \/ /\ CountedOut(e) = "over_limit.attributes_per_element"
              /\ Len(e.attributes) > MaxAttributes
<1> DEFINE a == e.attributes
           wrong == {k \in DOMAIN a : k > MaxAttributes \/ a[k].raw < 0}
<1>1. MaxAttributes \in Nat /\ Len(a) \in Nat /\ DOMAIN a = 1 .. Len(a)
    BY LimitsAssumption
<1>2. CountedOut(e) = IF wrong = {} THEN "none"
                      ELSE IF a[Min(wrong)].raw < 0 THEN "malformed.attribute"
                      ELSE "over_limit.attributes_per_element"
    BY DEF CountedOut
<1>3. counted \subseteq DOMAIN a /\ counted \subseteq 1 .. MaxAttributes + 1
      /\ \A k \in 1 .. Len(a) : k <= MaxAttributes + 1 => k \in counted
    <2>1. PICK m : m = Min({Len(a), MaxAttributes + 1})
        OBVIOUS
    <2>2. counted = 1 .. m
        BY <2>1
    <2>3. MaxAttributes + 1 \in Nat
        BY <1>1
    <2>4. m \in Nat /\ m <= Len(a) /\ m <= MaxAttributes + 1 /\ (m = Len(a) \/ m = MaxAttributes + 1)
        <3> HIDE DEF a
        <3> QED BY <1>1, <2>1, <2>3, SmallerOf
    <2>5. \A k \in 1 .. Len(a) : k <= MaxAttributes + 1 => k \in 1 .. m
        BY <1>1, <2>4
    <2>6. 1 .. m \subseteq 1 .. Len(a) /\ 1 .. m \subseteq 1 .. MaxAttributes + 1
        BY <1>1, <2>4
    <2> HIDE DEF a
    <2> QED BY <1>1, <2>2, <2>5, <2>6
<1>4. CASE wrong = {}
    <2>1. CountedOut(e) = "none"
        BY <1>2, <1>4
    <2>2. \A k \in 1 .. Len(a) : ~(k > MaxAttributes) /\ ~(a[k].raw < 0)
        BY <1>1, <1>4
    <2>3. Len(a) <= MaxAttributes
        <3>1. CASE Len(a) = 0
            BY <1>1, <3>1
        <3>2. CASE Len(a) # 0
            <4>1. Len(a) \in 1 .. Len(a)
                BY <1>1, <3>2
            <4> QED BY <1>1, <2>2, <4>1
        <3> QED BY <3>1, <3>2
    <2> QED BY <1>1, <1>3, <2>1, <2>2, <2>3
<1>5. CASE wrong # {}
    <2> DEFINE m == Min(wrong)
    <2>1. m \in wrong /\ \A n \in wrong : m <= n
        <3>1. wrong \subseteq Nat
            BY <1>1
        <3> HIDE DEF wrong
        <3> QED BY <1>5, <3>1, MinIs
    <2>2. m \in 1 .. Len(a) /\ (m > MaxAttributes \/ a[m].raw < 0)
        BY <1>1, <2>1
    <2> HIDE DEF m
    <2>3. CASE a[m].raw < 0
        <3>1. m <= MaxAttributes + 1
            <4> SUFFICES ASSUME ~(m <= MaxAttributes + 1) PROVE FALSE
                OBVIOUS
            <4>1. MaxAttributes + 1 \in 1 .. Len(a) /\ MaxAttributes + 1 > MaxAttributes
                  /\ ~(m <= MaxAttributes + 1)
                BY <1>1, <2>2
            <4>2. MaxAttributes + 1 \in wrong
                BY <1>1, <4>1
            <4> QED BY <2>1, <4>1, <4>2
        <3>2. m \in counted
            BY <1>3, <2>2, <3>1
        <3>3. CountedOut(e) = "malformed.attribute"
            BY <1>2, <1>5, <2>3 DEF m
        <3> QED BY <2>3, <3>2, <3>3
    <2>4. CASE ~(a[m].raw < 0)
        <3>1. CountedOut(e) = "over_limit.attributes_per_element"
            BY <1>2, <1>5, <2>4 DEF m
        <3>2. Len(a) > MaxAttributes
            BY <1>1, <2>2, <2>4
        <3> QED BY <3>1, <3>2
    <2> QED BY <2>3, <2>4
<1> QED BY <1>4, <1>5

LEMMA ReadOutIs ==
    ASSUME NEW e, e.attributes \in Seq(Attribute)
    PROVE  \/ /\ ReadOut(e) = "none"
              /\ \A k \in DOMAIN e.attributes :
                    ~(e.attributes[k].value < 0) /\ ~(TextBefore(e, k) + e.attributes[k].raw > MaxText)
           \/ /\ ReadOut(e) = "malformed.entity"
              /\ \E k \in DOMAIN e.attributes : e.attributes[k].value < 0
           \/ /\ ReadOut(e) = "over_limit.text_bytes"
              /\ \E k \in DOMAIN e.attributes : TextBefore(e, k) + e.attributes[k].raw > MaxText
<1> DEFINE a == e.attributes
           over(k) == TextBefore(e, k) + a[k].raw > MaxText
           wrong == {k \in DOMAIN a : over(k) \/ a[k].value < 0}
<1>1. ReadOut(e) = IF wrong = {} THEN "none"
                   ELSE IF over(Min(wrong)) THEN "over_limit.text_bytes" ELSE "malformed.entity"
    BY DEF ReadOut
<1>2. CASE wrong = {}
    <2>1. \A k \in DOMAIN a : ~over(k) /\ ~(a[k].value < 0)
        BY <1>2
    <2> QED BY <1>1, <1>2, <2>1
<1>3. CASE wrong # {}
    <2> DEFINE m == Min(wrong)
    <2>1. m \in wrong
        <3>1. wrong \subseteq Nat
            OBVIOUS
        <3> HIDE DEF wrong
        <3> QED BY <1>3, <3>1, MinIs
    <2>2. m \in DOMAIN a /\ (over(m) \/ a[m].value < 0)
        BY <2>1
    <2>3. CASE over(m)
        <3>1. ReadOut(e) = "over_limit.text_bytes"
            BY <1>1, <1>3, <2>3
        <3> QED BY <2>2, <2>3, <3>1
    <2>4. CASE ~over(m)
        <3>1. ReadOut(e) = "malformed.entity"
            BY <1>1, <1>3, <2>4
        <3> QED BY <2>2, <2>4, <3>1
    <2> QED BY <2>3, <2>4
<1> QED BY <1>2, <1>3

\* The scanner refuses for a fault of the event, and passes none that has one.
ScannedWell(e, faults) ==
    /\ Refusal(e) = "none" => faults = {}
    /\ Refusal(e) # "none" => Refusal(e) \in faults

LEMMA OpenScanned ==
    ASSUME Standing, Reading, ~pending, ~AtEnd, IsOpen(Upcoming)
    PROVE  ScannedWell(Upcoming, EventFaults(Tree(document), next))
<1> DEFINE t == Tree(document) e == Upcoming a == e.attributes
           counted == 1 .. Min({Len(a), MaxAttributes + 1})
<1>1. /\ document \in Seq(Event) /\ next \in 1 .. Len(document) /\ next \in Nat \ {0} /\ Len(document) \in Nat
      /\ Level(document, next) = depth /\ depth \in Nat
    BY Stand DEF AtEnd
<1>2. e \in Event /\ e = document[next] /\ t.event = document /\ t.level[next] = Level(document, next)
    <2>1. t.event = document
        BY <1>1, TreeIs
    <2>2. t.level = [i \in 1 .. Len(document) + 1 |-> Level(document, i)]
        BY DEF Tree
    <2> QED BY <1>1, <2>1, <2>2 DEF Upcoming
<1>3. e \in OpenEvent /\ a \in Seq(Attribute)
    BY <1>2 DEF Event, OpenEvent, TextEvent, ReferenceEvent, DeclarationEvent, PlainEvent, BrokenEvent, IsOpen
<1>4. Cardinality({j \in 1 .. next : IsOpen(document[j])}) = elements + 1
    <2> DEFINE S == {j \in 1 .. next : IsOpen(document[j])}
    <2>1. /\ Cardinality(S \cap 1 .. next - 1) \in Nat
          /\ Cardinality(S \cap 1 .. next) = Cardinality(S \cap 1 .. next - 1) + 1
        <3>1. next \in S
            BY <1>1, <1>2
        <3> HIDE DEF S
        <3> QED BY <1>1, <3>1, PrefixCount
    <2>2. S \cap 1 .. next = S /\ S \cap 1 .. next - 1 = {j \in 1 .. next - 1 : IsOpen(document[j])}
        BY <1>1
    <2>3. elements = Cardinality({j \in 1 .. next - 1 : IsOpen(document[j])})
        BY DEF Standing, Counted
    <2> QED BY <2>1, <2>2, <2>3
<1>5. \A k : ChargedAt(document, next, k) = TextBefore(e, k)
    <2>1. text = Charged(document, next)
        BY DEF Standing, Counted
    <2> QED BY <1>2, <2>1 DEF ChargedAt, TextBefore
<1>6. EventFaults(t, next) = OpenFaults(t, next)
    BY <1>2, OpenEventFaults
<1>7. Refusal(e) = OpenRefusal(e)
    BY DEF Refusal, IsOpen, IsText
<1> DEFINE F == OpenFaults(t, next)
<1>8. /\ "malformed.unbound_prefix" \in F <=> e.binding = "unknown"
      /\ "over_limit.elements" \in F <=> elements + 1 > MaxElements
      /\ "over_limit.depth" \in F <=> depth + 1 > MaxDepth
      /\ "malformed.attribute" \in F <=> \E k \in counted : a[k].raw < 0
      /\ "over_limit.attributes_per_element" \in F <=> Len(a) > MaxAttributes
      /\ "malformed.entity" \in F <=> \E k \in DOMAIN a : a[k].value < 0
      /\ "over_limit.text_bytes" \in F <=> \E k \in DOMAIN a : TextBefore(e, k) + a[k].raw > MaxText
      /\ F \subseteq
                {"malformed.unbound_prefix", "over_limit.elements", "over_limit.depth",
                 "malformed.attribute", "over_limit.attributes_per_element",
                 "malformed.entity", "over_limit.text_bytes"}
    <2>1. /\ "malformed.unbound_prefix" \in F <=> t.event[next].binding = "unknown"
          /\ "over_limit.elements" \in F <=>
                 Cardinality({j \in 1 .. next : IsOpen(t.event[j])}) > MaxElements
          /\ "over_limit.depth" \in F <=> t.level[next] + 1 > MaxDepth
          /\ "malformed.attribute" \in F <=>
                 \E k \in 1 .. Min({Len(t.event[next].attributes), MaxAttributes + 1}) :
                     t.event[next].attributes[k].raw < 0
          /\ "over_limit.attributes_per_element" \in F <=>
                 Len(t.event[next].attributes) > MaxAttributes
          /\ "malformed.entity" \in F <=>
                 \E k \in DOMAIN t.event[next].attributes : t.event[next].attributes[k].value < 0
          /\ "over_limit.text_bytes" \in F <=>
                 \E k \in DOMAIN t.event[next].attributes :
                     ChargedAt(t.event, next, k) + t.event[next].attributes[k].raw > MaxText
          /\ F \subseteq
                {"malformed.unbound_prefix", "over_limit.elements", "over_limit.depth",
                 "malformed.attribute", "over_limit.attributes_per_element",
                 "malformed.entity", "over_limit.text_bytes"}
        <3> HIDE DEF t
        <3> QED BY OpenFaultsAre
    <2> HIDE DEF F, t
    <2>2. "malformed.unbound_prefix" \in F <=> e.binding = "unknown"
        BY <1>2, <2>1
    <2>3. "over_limit.elements" \in F <=> elements + 1 > MaxElements
        BY <1>2, <1>4, <2>1
    <2>4. "over_limit.depth" \in F <=> depth + 1 > MaxDepth
        BY <1>1, <1>2, <2>1
    <2>5. "malformed.attribute" \in F <=> \E k \in counted : a[k].raw < 0
        BY <1>2, <2>1
    <2>6. "over_limit.attributes_per_element" \in F <=> Len(a) > MaxAttributes
        BY <1>2, <2>1
    <2>7. "malformed.entity" \in F <=> \E k \in DOMAIN a : a[k].value < 0
        BY <1>2, <2>1
    <2>8. "over_limit.text_bytes" \in F <=> \E k \in DOMAIN a : TextBefore(e, k) + a[k].raw > MaxText
        BY <1>2, <1>5, <2>1
    <2> QED BY <2>1, <2>2, <2>3, <2>4, <2>5, <2>6, <2>7, <2>8
<1>9. \/ /\ CountedOut(e) = "none" /\ Len(a) <= MaxAttributes
         /\ \A k \in counted : ~(a[k].raw < 0)
      \/ CountedOut(e) = "malformed.attribute" /\ \E k \in counted : a[k].raw < 0
      \/ CountedOut(e) = "over_limit.attributes_per_element" /\ Len(a) > MaxAttributes
    BY <1>3, CountedOutIs
<1>10. \/ /\ ReadOut(e) = "none"
          /\ \A k \in DOMAIN a :
                ~(a[k].value < 0) /\ ~(TextBefore(e, k) + a[k].raw > MaxText)
       \/ /\ ReadOut(e) = "malformed.entity" /\ \E k \in DOMAIN a : a[k].value < 0
       \/ /\ ReadOut(e) = "over_limit.text_bytes"
          /\ \E k \in DOMAIN a : TextBefore(e, k) + a[k].raw > MaxText
    BY <1>3, ReadOutIs
<1>11. Len(a) \in Nat /\ MaxAttributes \in Nat
    BY <1>3, LimitsAssumption
<1> HIDE DEF F, e, t, counted
<1>12. ScannedWell(e, F)
    <2>1. CASE e.binding = "unknown"
        <3>1. Refusal(e) = "malformed.unbound_prefix"
            BY <1>7, <2>1 DEF OpenRefusal
        <3> QED BY <1>8, <2>1, <3>1 DEF ScannedWell
    <2>2. CASE e.binding # "unknown" /\ elements + 1 > MaxElements
        <3>1. Refusal(e) = "over_limit.elements"
            BY <1>7, <2>2 DEF OpenRefusal
        <3> QED BY <1>8, <2>2, <3>1 DEF ScannedWell
    <2>3. CASE e.binding # "unknown" /\ ~(elements + 1 > MaxElements) /\ depth + 1 > MaxDepth
        <3>1. Refusal(e) = "over_limit.depth"
            BY <1>7, <2>3 DEF OpenRefusal
        <3> QED BY <1>8, <2>3, <3>1 DEF ScannedWell
    <2>4. CASE e.binding # "unknown" /\ ~(elements + 1 > MaxElements) /\ ~(depth + 1 > MaxDepth)
        <3>1. Refusal(e) = IF CountedOut(e) # "none" THEN CountedOut(e) ELSE ReadOut(e)
            BY <1>7, <2>4 DEF OpenRefusal
        <3>2. CASE CountedOut(e) = "malformed.attribute" /\ \E k \in counted : a[k].raw < 0
            BY <1>8, <3>1, <3>2 DEF ScannedWell
        <3>3. CASE CountedOut(e) = "over_limit.attributes_per_element" /\ Len(a) > MaxAttributes
            BY <1>8, <3>1, <3>3 DEF ScannedWell
        <3>4. CASE /\ CountedOut(e) = "none" /\ Len(a) <= MaxAttributes
                   /\ \A k \in counted : ~(a[k].raw < 0)
            <4>1. Refusal(e) = ReadOut(e)
                BY <3>1, <3>4
            <4>2. CASE ReadOut(e) = "malformed.entity" /\ \E k \in DOMAIN a : a[k].value < 0
                BY <1>8, <4>1, <4>2 DEF ScannedWell
            <4>3. CASE /\ ReadOut(e) = "over_limit.text_bytes"
                       /\ \E k \in DOMAIN a : TextBefore(e, k) + a[k].raw > MaxText
                BY <1>8, <4>1, <4>3 DEF ScannedWell
            <4>4. CASE /\ ReadOut(e) = "none"
                       /\ \A k \in DOMAIN a :
                            ~(a[k].value < 0) /\ ~(TextBefore(e, k) + a[k].raw > MaxText)
                <5>1. F = {}
                    <6>1. ~(Len(a) > MaxAttributes)
                        BY <1>11, <3>4
                    <6> QED BY <1>8, <2>4, <3>4, <4>4, <6>1
                <5> QED BY <4>1, <4>4, <5>1 DEF ScannedWell
            <4> QED BY <1>10, <4>2, <4>3, <4>4
        <3> QED BY <1>9, <3>2, <3>3, <3>4
    <2> QED BY <2>1, <2>2, <2>3, <2>4
<1> QED BY <1>6, <1>12 DEF F, e, t

LEMMA Scanned ==
    ASSUME Standing, Reading, ~pending, ~AtEnd
    PROVE  ScannedWell(Upcoming, EventFaults(Tree(document), next))
<1> DEFINE t == Tree(document)
<1>1. CASE IsOpen(Upcoming)
    BY <1>1, OpenScanned
<1>2. CASE ~IsOpen(Upcoming)
    <2>1. /\ document \in Seq(Event) /\ next \in 1 .. Len(document)
        BY Stand DEF AtEnd
    <2>2. t.event = document /\ Upcoming = document[next] /\ text = Charged(document, next)
        BY <2>1, TreeIs DEF Upcoming, Standing, Counted
    <2> SUFFICES ASSUME NEW e, e = document[next]
                 PROVE  ScannedWell(e, EventFaults(t, next))
        BY <2>2
    <2>3. e \in Event /\ ~IsOpen(e) /\ t.event[next] = e /\ Charged(t.event, next) = text
        BY <1>2, <2>1, <2>2
    <2> HIDE DEF t
    <2>4. CASE IsText(e)
        <3>1. Refusal(e) = TextRefusal(e)
            BY <2>3, <2>4 DEF Refusal, IsOpen, IsText
        <3>2. EventFaults(t, next) =
                IF e.kind = "reference" /\ e.pieces = <<>> THEN {"malformed.entity"}
                ELSE IF text + (IF e.kind = "reference" THEN Len(e.pieces) ELSE e.raw) > MaxText
                     THEN {"over_limit.text_bytes"} ELSE {}
            BY <2>3, <2>4 DEF EventFaults, IsOpen, IsText
        <3> QED BY <3>1, <3>2 DEF ScannedWell, TextRefusal, OverText
    <2>5. CASE ~IsText(e)
        <3>1. e \in DeclarationEvent \cup PlainEvent \cup BrokenEvent
            BY <2>3, <2>5 DEF Event, OpenEvent, TextEvent, ReferenceEvent, IsOpen, IsText
        <3>2. CASE e \in DeclarationEvent
            <4>1. e.kind = "declaration" /\ e.encoding \in {"none", "utf8", "other", "broken"}
                BY <3>2 DEF DeclarationEvent
            <4>2. Refusal(e) = [none |-> "none", utf8 |-> "none", other |-> "unsupported.encoding",
                                broken |-> "malformed.attribute"][e.encoding]
                BY <4>1 DEF Refusal, IsOpen, IsText
            <4>3. EventFaults(t, next) = IF e.encoding = "other" THEN {"unsupported.encoding"}
                                         ELSE IF e.encoding = "broken" THEN {"malformed.attribute"}
                                         ELSE {}
                BY <2>3, <4>1 DEF EventFaults, IsOpen, IsText
            <4> QED BY <4>1, <4>2, <4>3 DEF ScannedWell
        <3>3. CASE e \in PlainEvent
            <4>1. e.kind \in {"end", "comment", "doctype", "instruction"}
                BY <3>3 DEF PlainEvent
            <4>2. Refusal(e) = IF e.kind = "doctype" THEN "unsupported.dtd"
                               ELSE IF e.kind = "instruction" THEN "unsupported.processing_instruction"
                               ELSE "none"
                BY <4>1 DEF Refusal, IsOpen, IsText
            <4>3. EventFaults(t, next) = IF e.kind = "doctype" THEN {"unsupported.dtd"}
                               ELSE IF e.kind = "instruction" THEN {"unsupported.processing_instruction"}
                               ELSE {}
                BY <2>3, <4>1 DEF EventFaults, IsOpen, IsText
            <4> QED BY <4>1, <4>2, <4>3 DEF ScannedWell
        <3>4. CASE e \in BrokenEvent
            <4>1. e.kind = "broken" /\ e.error \in {"Escape", "Encoding", "InvalidAttr", "Namespace", "Syntax"}
                BY <3>4 DEF BrokenEvent
            <4>2. Refusal(e) = ReaderError[e.error]
                BY <4>1 DEF Refusal, IsOpen, IsText
            <4>3. EventFaults(t, next) = {ReaderError[e.error]} /\ ReaderError[e.error] # "none"
                BY <2>3, <4>1 DEF EventFaults, IsOpen, IsText, ReaderError
            <4> QED BY <4>2, <4>3 DEF ScannedWell
        <3> QED BY <3>1, <3>2, <3>3, <3>4
    <2> QED BY <2>4, <2>5
<1> QED BY <1>1, <1>2

-----------------------------------------------------------------------------
(* Values, as the elements they are of open and close.                     *)

\* Nothing in order is nothing.
LEMMA NothingInOrder ==
    ASSUME NEW t
    PROVE  /\ InOrder({}) = <<>> /\ DispatchList(t, {}) = <<>> /\ AttachmentList(t, {}) = <<>>
           /\ \A name : LeafOf(t, {}, name) = {}
           /\ \A part : Under(t, {}, part) = {}
<1>1. InOrder({}) = <<>>
    <2>1. Cardinality({}) = 0
        BY FS_EmptySet
    <2>2. 1 .. 0 = {}
        OBVIOUS
    <2> QED BY <2>1, <2>2 DEF InOrder
<1>2. DOMAIN <<>> = {}
    OBVIOUS
<1>3. DispatchList(t, {}) = <<>> /\ AttachmentList(t, {}) = <<>>
    BY <1>1, <1>2 DEF DispatchList, AttachmentList
<1>4. \A name : LeafOf(t, {}, name) = {}
    BY DEF LeafOf
<1>5. \A part : Under(t, {}, part) = {}
    BY DEF Under
<1> QED BY <1>1, <1>3, <1>4, <1>5

\* A call that has just been made has seen nothing of its element.
LEMMA FreshFits ==
    ASSUME NEW t
    PROVE  /\ Fits(ConsignmentCall, t, {}, {}) /\ Fits(DispatchCall, t, {}, {})
           /\ Fits(SkipCall, t, {}, {})
           /\ \A field : Fits(LeafCall(field), t, {}, {})
           /\ \A at \in {"FEJRESZ", "MELLEKLET"} : Fits(SlotsCall(at), t, {}, {})
           /\ \A at \in {"EXPEDIALASOK", "MELLEKLETEK"} : Fits(ListCall(at), t, {}, {})
<1>1. Fits(ConsignmentCall, t, {}, {})
    <2> DEFINE c == ConsignmentCall
    <2>1. /\ c.at = "KULDEMENY" /\ c.header = {} /\ c.receipt = FALSE /\ c.openings = FALSE
          /\ c.returned = FALSE /\ c.dispatches = <<>> /\ c.seen = {} /\ c.reached = 1
        BY DEF ConsignmentCall, Absent
    <2> HIDE DEF c
    <2>2. ConsignmentFits(c, t, {}, {})
        <3>1. {} = {HeaderAt(t, j) : j \in {} \cap At(t, "FEJRESZ")}
            OBVIOUS
        <3>2. DispatchList(t, Under(t, {} \cap At(t, "EXPEDIALASOK"), "EXPEDIALAS")) = <<>>
            <4>1. {} \cap At(t, "EXPEDIALASOK") = {}
                OBVIOUS
            <4> QED BY <4>1, NothingInOrder
        <3> QED BY <2>1, <3>1, <3>2 DEF ConsignmentFits
    <2> QED BY <2>1, <2>2 DEF Fits, c
<1>2. Fits(DispatchCall, t, {}, {})
    <2> DEFINE c == DispatchCall
    <2>1. /\ c.at = "EXPEDIALAS" /\ c.count = {} /\ c.attachments = <<>> /\ c.present = FALSE
          /\ c.handling = FALSE
        BY DEF DispatchCall, Absent
    <2> HIDE DEF c
    <2>2. DispatchFits(c, t, {}, {})
        <3>1. {Numeral[x] : x \in LeafOf(t, {}, "MELLEKLETEK_SZAMA")} = {}
            BY NothingInOrder
        <3>2. AttachmentList(t, Under(t, {} \cap At(t, "MELLEKLETEK"), "MELLEKLET")) = <<>>
            <4>1. {} \cap At(t, "MELLEKLETEK") = {}
                OBVIOUS
            <4> QED BY <4>1, NothingInOrder
        <3> QED BY <2>1, <3>1, <3>2 DEF DispatchFits
    <2> QED BY <2>1, <2>2 DEF Fits, c
<1>3. Fits(SkipCall, t, {}, {}) /\ \A field : Fits(LeafCall(field), t, {}, {})
    BY DEF Fits, SkipCall, LeafCall
<1>4. ASSUME NEW at \in {"FEJRESZ", "MELLEKLET"} PROVE Fits(SlotsCall(at), t, {}, {})
    <2>1. \A name \in Field : SlotsCall(at).slots[name] = {}
        BY DEF SlotsCall, Absent
    <2>2. SlotsFit(SlotsCall(at), t, {})
        BY <2>1, NothingInOrder DEF SlotsFit
    <2>3. SlotsCall(at).at = at
        BY DEF SlotsCall
    <2> QED BY <2>2, <2>3 DEF Fits
<1>5. ASSUME NEW at \in {"EXPEDIALASOK", "MELLEKLETEK"} PROVE Fits(ListCall(at), t, {}, {})
    <2>1. ListCall(at).at = at /\ ListCall(at).list = <<>>
        BY DEF ListCall
    <2>2. {} \cap At(t, "EXPEDIALAS") = {} /\ {} \cap At(t, "MELLEKLET") = {}
        OBVIOUS
    <2> QED BY <2>1, <2>2, NothingInOrder DEF Fits
<1> QED BY <1>1, <1>2, <1>3, <1>4, <1>5

\* An element that no call notes when it opens.
LEMMA FitsKid ==
    ASSUME NEW t, NEW f, NEW K, NEW D, Fits(f, t, K, D), NEW n,
           t.part[n] \notin Range(Blocks) \cup {"MELLEKLETEK", "instructions"}
    PROVE  Fits(f, t, K \cup {n}, D)
<1>1. \A part \in Range(Blocks) \cup {"MELLEKLETEK", "instructions"} :
            (K \cup {n}) \cap At(t, part) = K \cap At(t, part)
    BY DEF At
<1>2. \A k \in DOMAIN Blocks : (K \cup {n}) \cap At(t, Blocks[k]) = K \cap At(t, Blocks[k])
    BY <1>1 DEF Range
<1>3. /\ (K \cup {n}) \cap At(t, "ERKEZTETES") = K \cap At(t, "ERKEZTETES")
      /\ (K \cup {n}) \cap At(t, "BONTASOK") = K \cap At(t, "BONTASOK")
      /\ (K \cup {n}) \cap At(t, "TERTIVEVENY") = K \cap At(t, "TERTIVEVENY")
    BY <1>1, BlockNames
<1>4. ConsignmentFits(f, t, K, D) => ConsignmentFits(f, t, K \cup {n}, D)
    <2>1. {k \in DOMAIN Blocks : (K \cup {n}) \cap At(t, Blocks[k]) # {}} =
            {k \in DOMAIN Blocks : K \cap At(t, Blocks[k]) # {}}
        BY <1>2
    <2> QED BY <1>3, <2>1 DEF ConsignmentFits
<1>5. DispatchFits(f, t, K, D) => DispatchFits(f, t, K \cup {n}, D)
    BY <1>1 DEF DispatchFits
<1> QED BY <1>4, <1>5 DEF Fits

\* An element that no call reads anything of when it closes.
LEMMA FitsSkipped ==
    ASSUME NEW t, NEW f, NEW K, NEW D, Fits(f, t, K, D), NEW a,
           t.part[a] \notin DOMAIN Grammar \cup {"leaf"},
           f.at \in {"FEJRESZ", "MELLEKLET"} =>
                ~(t.event[a].binding = "target" /\ t.event[a].name \in Field),
           f.at = "EXPEDIALAS" =>
                ~(t.event[a].binding = "target" /\ t.event[a].name = "MELLEKLETEK_SZAMA")
    PROVE  Fits(f, t, K, D \cup {a})
<1>1. \A part \in DOMAIN Grammar : (D \cup {a}) \cap At(t, part) = D \cap At(t, part)
    BY DEF At
<1>2. /\ (D \cup {a}) \cap At(t, "FEJRESZ") = D \cap At(t, "FEJRESZ")
      /\ (D \cup {a}) \cap At(t, "EXPEDIALASOK") = D \cap At(t, "EXPEDIALASOK")
      /\ (D \cup {a}) \cap At(t, "EXPEDIALAS") = D \cap At(t, "EXPEDIALAS")
      /\ (D \cup {a}) \cap At(t, "MELLEKLETEK") = D \cap At(t, "MELLEKLETEK")
      /\ (D \cup {a}) \cap At(t, "MELLEKLET") = D \cap At(t, "MELLEKLET")
    BY <1>1, Meanings
<1>3. \A name : ~(t.event[a].binding = "target" /\ t.event[a].name = name) =>
            LeafOf(t, D \cup {a}, name) = LeafOf(t, D, name)
    <2> TAKE name
    <2> HAVE ~(t.event[a].binding = "target" /\ t.event[a].name = name)
    <2>1. {j \in D \cup {a} : t.event[j].name = name /\ t.event[j].binding = "target"} =
            {j \in D : t.event[j].name = name /\ t.event[j].binding = "target"}
        OBVIOUS
    <2> QED BY <2>1 DEF LeafOf
<1>4. ConsignmentFits(f, t, K, D) => ConsignmentFits(f, t, K, D \cup {a})
    BY <1>2 DEF ConsignmentFits
<1>5. ~(t.event[a].binding = "target" /\ t.event[a].name \in Field) /\ SlotsFit(f, t, D) =>
            SlotsFit(f, t, D \cup {a})
    BY <1>3 DEF SlotsFit
<1>6. ~(t.event[a].binding = "target" /\ t.event[a].name = "MELLEKLETEK_SZAMA")
            /\ DispatchFits(f, t, K, D) => DispatchFits(f, t, K, D \cup {a})
    BY <1>2, <1>3 DEF DispatchFits
<1> QED BY <1>2, <1>4, <1>5, <1>6 DEF Fits

\* A list of values grows by that of the element that closes.
LEMMA ListStep ==
    ASSUME NEW t, NEW S, NEW a, Behind(S, a)
    PROVE  /\ DispatchList(t, S \cup {a}) = Append(DispatchList(t, S), DispatchAt(t, a))
           /\ AttachmentList(t, S \cup {a}) = Append(AttachmentList(t, S), AttachmentAt(t, a))
<1> DEFINE T == S \cup {a}
           c == Cardinality(S)
<1>0. T = S \cup {a} /\ c = Cardinality(S)
    OBVIOUS
<1> HIDE DEF T, c
<1>1. /\ c \in Nat /\ DOMAIN InOrder(S) = 1 .. c /\ DOMAIN InOrder(T) = 1 .. c + 1
      /\ \A k \in 1 .. c : InOrder(T)[k] = InOrder(S)[k]
      /\ InOrder(T)[c + 1] = a
    BY <1>0, InOrderStep
<1>2. DispatchList(t, T) = Append(DispatchList(t, S), DispatchAt(t, a))
    <2> DEFINE x == DispatchList(t, S)
               y == DispatchList(t, T)
               z == DispatchAt(t, a)
    <2>1. /\ x = [k \in 1 .. c |-> x[k]] /\ y = [k \in 1 .. c + 1 |-> y[k]]
          /\ \A k \in 1 .. c : y[k] = x[k]
          /\ y[c + 1] = z
        BY <1>1 DEF DispatchList
    <2> HIDE DEF x, y, z
    <2>2. IsSequence(x) /\ Len(x) = c /\ IsSequence(y) /\ Len(y) = c + 1
        BY <1>1, <2>1, SequenceBy
    <2>3. IsSequence(<<z>>) /\ Len(<<z>>) = 1
        <3>1. <<z>> \in Seq({z})
            OBVIOUS
        <3> QED BY <3>1 DEF IsSequence
    <2>4. Append(x, z) = x \o <<z>>
        BY <2>2 DEF IsSequence
    <2>5. /\ IsSequence(x \o <<z>>) /\ Len(x \o <<z>>) = c + 1
          /\ \A i \in 1 .. c : (x \o <<z>>)[i] = x[i]
          /\ \A i \in 1 .. 1 : (x \o <<z>>)[c + i] = <<z>>[i]
        BY <2>2, <2>3, Joined
    <2>6. \A i \in 1 .. c + 1 : y[i] = (x \o <<z>>)[i]
        <3> TAKE i \in 1 .. c + 1
        <3>1. i \in 1 .. c \/ i = c + 1
            BY <1>1
        <3>2. (x \o <<z>>)[c + 1] = z
            BY <2>5
        <3> QED BY <2>1, <2>5, <3>1, <3>2
    <2>7. y = x \o <<z>>
        BY <2>2, <2>5, <2>6, SameSequence
    <2> QED BY <2>4, <2>7 DEF x, y, z
<1>3. AttachmentList(t, T) = Append(AttachmentList(t, S), AttachmentAt(t, a))
    <2> DEFINE x == AttachmentList(t, S)
               y == AttachmentList(t, T)
               z == AttachmentAt(t, a)
    <2>1. /\ x = [k \in 1 .. c |-> x[k]] /\ y = [k \in 1 .. c + 1 |-> y[k]]
          /\ \A k \in 1 .. c : y[k] = x[k]
          /\ y[c + 1] = z
        BY <1>1 DEF AttachmentList
    <2> HIDE DEF x, y, z
    <2>2. IsSequence(x) /\ Len(x) = c /\ IsSequence(y) /\ Len(y) = c + 1
        BY <1>1, <2>1, SequenceBy
    <2>3. IsSequence(<<z>>) /\ Len(<<z>>) = 1
        <3>1. <<z>> \in Seq({z})
            OBVIOUS
        <3> QED BY <3>1 DEF IsSequence
    <2>4. Append(x, z) = x \o <<z>>
        BY <2>2 DEF IsSequence
    <2>5. /\ IsSequence(x \o <<z>>) /\ Len(x \o <<z>>) = c + 1
          /\ \A i \in 1 .. c : (x \o <<z>>)[i] = x[i]
          /\ \A i \in 1 .. 1 : (x \o <<z>>)[c + i] = <<z>>[i]
        BY <2>2, <2>3, Joined
    <2>6. \A i \in 1 .. c + 1 : y[i] = (x \o <<z>>)[i]
        <3> TAKE i \in 1 .. c + 1
        <3>1. i \in 1 .. c \/ i = c + 1
            BY <1>1
        <3>2. (x \o <<z>>)[c + 1] = z
            BY <2>5
        <3> QED BY <2>1, <2>5, <3>1, <3>2
    <2>7. y = x \o <<z>>
        BY <2>2, <2>5, <2>6, SameSequence
    <2> QED BY <2>4, <2>7 DEF x, y, z
<1> QED BY <1>2, <1>3 DEF T

\* A block is accepted.
Accepted(f, position) ==
    [f EXCEPT
        !.seen = @ \cup {position}, !.reached = position,
        !.receipt = @ \/ Blocks[position] = "ERKEZTETES",
        !.openings = @ \/ Blocks[position] = "BONTASOK",
        !.returned = @ \/ Blocks[position] = "TERTIVEVENY"]

LEMMA FitsBlock ==
    ASSUME NEW t, NEW f \in Frame, NEW K, NEW D, f.at = "KULDEMENY", ConsignmentFits(f, t, K, D),
           NEW position \in DOMAIN Blocks, position \notin f.seen, ~(position < f.reached),
           NEW n \in DOMAIN t.part, t.part[n] = Blocks[position],
           NEW g, g = Accepted(f, position)
    PROVE  g.at = "KULDEMENY" /\ ConsignmentFits(g, t, K \cup {n}, D)
<1>1. f \in ConsignmentFrame
    BY FrameOf
<1>2. /\ g.at = "KULDEMENY" /\ g.header = f.header /\ g.dispatches = f.dispatches
      /\ g.seen = f.seen \cup {position} /\ g.reached = position
      /\ g.receipt = (f.receipt \/ Blocks[position] = "ERKEZTETES")
      /\ g.openings = (f.openings \/ Blocks[position] = "BONTASOK")
      /\ g.returned = (f.returned \/ Blocks[position] = "TERTIVEVENY")
    BY <1>1 DEF ConsignmentFrame, Accepted
<1>3. \A part : (K \cup {n}) \cap At(t, part) # {} <=>
                K \cap At(t, part) # {} \/ Blocks[position] = part
    BY DEF At
<1>4. \A k \in DOMAIN Blocks : Blocks[position] = Blocks[k] <=> k = position
    BY BlockNames
<1>5. g.seen = {k \in DOMAIN Blocks : (K \cup {n}) \cap At(t, Blocks[k]) # {}}
    <2>1. f.seen = {k \in DOMAIN Blocks : K \cap At(t, Blocks[k]) # {}}
        BY DEF ConsignmentFits
    <2> QED BY <1>2, <1>3, <1>4, <2>1
<1>6. \A k \in g.seen : k <= g.reached
    <2>1. \A k \in f.seen : k <= f.reached
        BY DEF ConsignmentFits
    <2>2. f.seen \subseteq 1 .. 5 /\ f.reached \in 1 .. 5 /\ position \in 1 .. 5
        BY <1>1, BlockNames DEF ConsignmentFrame
    <2> QED BY <1>2, <2>1, <2>2
<1>7. g.reached \in g.seen \cup {1}
    BY <1>2
<1>8. /\ g.receipt <=> (K \cup {n}) \cap At(t, "ERKEZTETES") # {}
      /\ g.openings <=> (K \cup {n}) \cap At(t, "BONTASOK") # {}
      /\ g.returned <=> (K \cup {n}) \cap At(t, "TERTIVEVENY") # {}
    <2>1. /\ f.receipt <=> K \cap At(t, "ERKEZTETES") # {}
          /\ f.openings <=> K \cap At(t, "BONTASOK") # {}
          /\ f.returned <=> K \cap At(t, "TERTIVEVENY") # {}
        BY DEF ConsignmentFits
    <2> QED BY <1>2, <1>3, <2>1
<1> QED BY <1>2, <1>5, <1>6, <1>7, <1>8 DEF ConsignmentFits

\* The attachments of a dispatch open, or its instructions.
LEMMA FitsNoted ==
    ASSUME NEW t, NEW f \in Frame, NEW K, NEW D, f.at = "EXPEDIALAS", DispatchFits(f, t, K, D),
           NEW n \in DOMAIN t.part
    PROVE  /\ t.part[n] = "MELLEKLETEK" =>
                /\ [f EXCEPT !.present = TRUE].at = "EXPEDIALAS"
                /\ DispatchFits([f EXCEPT !.present = TRUE], t, K \cup {n}, D)
           /\ t.part[n] = "instructions" =>
                /\ [f EXCEPT !.handling = TRUE].at = "EXPEDIALAS"
                /\ DispatchFits([f EXCEPT !.handling = TRUE], t, K \cup {n}, D)
<1>1. f \in DispatchFrame
    BY FrameOf
<1>2. \A part : (K \cup {n}) \cap At(t, part) # {} <=>
                K \cap At(t, part) # {} \/ t.part[n] = part
    BY DEF At
<1>3. ASSUME t.part[n] = "MELLEKLETEK"
      PROVE  /\ [f EXCEPT !.present = TRUE].at = "EXPEDIALAS"
             /\ DispatchFits([f EXCEPT !.present = TRUE], t, K \cup {n}, D)
    <2> DEFINE g == [f EXCEPT !.present = TRUE]
    <2>1. /\ g.at = "EXPEDIALAS" /\ g.count = f.count /\ g.attachments = f.attachments
          /\ g.handling = f.handling /\ g.present = TRUE
        BY <1>1 DEF DispatchFrame
    <2> HIDE DEF g
    <2>2. DispatchFits(g, t, K \cup {n}, D)
        BY <1>2, <1>3, <2>1 DEF DispatchFits
    <2> QED BY <2>1, <2>2 DEF g
<1>4. ASSUME t.part[n] = "instructions"
      PROVE  /\ [f EXCEPT !.handling = TRUE].at = "EXPEDIALAS"
             /\ DispatchFits([f EXCEPT !.handling = TRUE], t, K \cup {n}, D)
    <2> DEFINE g == [f EXCEPT !.handling = TRUE]
    <2>1. /\ g.at = "EXPEDIALAS" /\ g.count = f.count /\ g.attachments = f.attachments
          /\ g.present = f.present /\ g.handling = TRUE
        BY <1>1 DEF DispatchFrame
    <2> HIDE DEF g
    <2>2. DispatchFits(g, t, K \cup {n}, D)
        BY <1>2, <1>4, <2>1 DEF DispatchFits
    <2> QED BY <2>1, <2>2 DEF g
<1> QED BY <1>3, <1>4

\* What the leaves of an element say once one more has closed.
LEMMA LeafStep ==
    ASSUME NEW t, NEW D, NEW a, t.event[a].binding = "target", NEW name, NEW E, E = D \cup {a}
    PROVE  /\ t.event[a].name = name =>
                LeafOf(t, E, name) = LeafOf(t, D, name) \cup {Content(t, a)}
           /\ t.event[a].name # name => LeafOf(t, E, name) = LeafOf(t, D, name)
<1> DEFINE named(S) == {j \in S : t.event[j].name = name /\ t.event[j].binding = "target"}
<1>1. \A S : LeafOf(t, S, name) = {Content(t, j) : j \in named(S)}
    BY DEF LeafOf
<1>2. t.event[a].name = name => named(E) = named(D) \cup {a}
    OBVIOUS
<1>3. t.event[a].name # name => named(E) = named(D)
    OBVIOUS
<1> HIDE DEF named
<1>4. t.event[a].name = name => LeafOf(t, E, name) = LeafOf(t, D, name) \cup {Content(t, a)}
    <2> HAVE t.event[a].name = name
    <2>1. LeafOf(t, E, name) = {Content(t, j) : j \in named(D) \cup {a}}
        BY <1>1, <1>2
    <2>2. {Content(t, j) : j \in named(D) \cup {a}} =
                {Content(t, j) : j \in named(D)} \cup {Content(t, a)}
        OBVIOUS
    <2> QED BY <1>1, <2>1, <2>2
<1>5. t.event[a].name # name => LeafOf(t, E, name) = LeafOf(t, D, name)
    BY <1>1, <1>3
<1> QED BY <1>4, <1>5

\* Slots::put().
LEMMA FitsSlot ==
    ASSUME NEW t, NEW f \in Frame, NEW D, f.at \in {"FEJRESZ", "MELLEKLET"}, SlotsFit(f, t, D),
           NEW name \in Field, f.slots[name] = Absent,
           NEW a, t.event[a].binding = "target", t.event[a].name = name,
           NEW v, v = Content(t, a)
    PROVE  /\ [f EXCEPT !.slots[name] = Present(v)].at = f.at
           /\ SlotsFit([f EXCEPT !.slots[name] = Present(v)], t, D \cup {a})
<1> DEFINE g == [f EXCEPT !.slots[name] = Present(v)]
<1>1. f \in SlotsFrame
    BY FrameOf
<1>2. /\ g.at = f.at /\ g.slots[name] = {v}
      /\ \A n \in Field : n # name => g.slots[n] = f.slots[n]
    BY <1>1 DEF SlotsFrame, Slots, Present
<1> HIDE DEF g
<1>3. f.slots[name] = LeafOf(t, D, name) /\ f.slots[name] = {}
    BY DEF SlotsFit, Absent
<1>4. ASSUME NEW n \in Field
      PROVE  g.slots[n] = LeafOf(t, D \cup {a}, n) /\ \A x, y \in g.slots[n] : x = y
    <2>1. CASE n = name
        <3>1. LeafOf(t, D \cup {a}, name) = LeafOf(t, D, name) \cup {Content(t, a)}
            BY LeafStep
        <3> QED BY <1>2, <1>3, <2>1, <3>1
    <2>2. CASE n # name
        <3>1. LeafOf(t, D \cup {a}, n) = LeafOf(t, D, n)
            BY <2>2, LeafStep
        <3> QED BY <1>2, <2>2, <3>1 DEF SlotsFit
    <2> QED BY <2>1, <2>2
<1>5. SlotsFit(g, t, D \cup {a})
    BY <1>4 DEF SlotsFit
<1> QED BY <1>2, <1>5 DEF g

\* The count of a dispatch.
LEMMA FitsCount ==
    ASSUME NEW t, NEW f \in Frame, NEW K, NEW D, f.at = "EXPEDIALAS", DispatchFits(f, t, K, D),
           f.count = Absent, NEW a \in DOMAIN t.part, t.part[a] = "leaf",
           t.event[a].binding = "target", t.event[a].name = "MELLEKLETEK_SZAMA",
           NEW v, v = Content(t, a)
    PROVE  /\ [f EXCEPT !.count = Present(Numeral[v])].at = f.at
           /\ DispatchFits([f EXCEPT !.count = Present(Numeral[v])], t, K, D \cup {a})
<1> DEFINE g == [f EXCEPT !.count = Present(Numeral[v])]
           name == "MELLEKLETEK_SZAMA"
<1>1. f \in DispatchFrame
    BY FrameOf
<1>2. /\ g.at = f.at /\ g.count = {Numeral[v]} /\ g.attachments = f.attachments
      /\ g.present = f.present /\ g.handling = f.handling
    BY <1>1 DEF DispatchFrame, Present
<1> HIDE DEF g
<1>3. LeafOf(t, D, name) = {}
    <2>1. {Numeral[c] : c \in LeafOf(t, D, name)} = {}
        BY DEF DispatchFits, Absent
    <2> QED BY <2>1
<1>4. LeafOf(t, D \cup {a}, name) = {v}
    <2>1. LeafOf(t, D \cup {a}, name) = LeafOf(t, D, name) \cup {Content(t, a)}
        BY LeafStep
    <2> QED BY <1>3, <2>1
<1>5. g.count = {Numeral[c] : c \in LeafOf(t, D \cup {a}, name)}
    BY <1>2, <1>4
<1>6. (D \cup {a}) \cap At(t, "MELLEKLETEK") = D \cap At(t, "MELLEKLETEK")
    BY DEF At
<1>7. DispatchFits(g, t, K, D \cup {a})
    BY <1>2, <1>5, <1>6 DEF DispatchFits
<1> QED BY <1>2, <1>7 DEF g

\* The header closes.
LEMMA FitsHeader ==
    ASSUME NEW t, NEW f \in Frame, NEW K, NEW D, f.at = "KULDEMENY", ConsignmentFits(f, t, K, D),
           NEW a \in DOMAIN t.part, t.part[a] = "FEJRESZ", D \cap At(t, "FEJRESZ") = {},
           NEW v, v = HeaderAt(t, a)
    PROVE  /\ [f EXCEPT !.header = Present(v)].at = f.at
           /\ ConsignmentFits([f EXCEPT !.header = Present(v)], t, K, D \cup {a})
<1> DEFINE g == [f EXCEPT !.header = Present(v)]
<1>1. f \in ConsignmentFrame
    BY FrameOf
<1>2. /\ g.at = f.at /\ g.header = {v} /\ g.receipt = f.receipt /\ g.openings = f.openings
      /\ g.returned = f.returned /\ g.dispatches = f.dispatches /\ g.seen = f.seen
      /\ g.reached = f.reached
    BY <1>1 DEF ConsignmentFrame, Present
<1> HIDE DEF g
<1>3. (D \cup {a}) \cap At(t, "FEJRESZ") = {a}
    BY DEF At
<1>4. (D \cup {a}) \cap At(t, "EXPEDIALASOK") = D \cap At(t, "EXPEDIALASOK")
    BY DEF At
<1>5. g.header = {HeaderAt(t, j) : j \in (D \cup {a}) \cap At(t, "FEJRESZ")}
    BY <1>2, <1>3
<1>6. ConsignmentFits(g, t, K, D \cup {a})
    BY <1>2, <1>4, <1>5 DEF ConsignmentFits
<1> QED BY <1>2, <1>6 DEF g

\* The dispatches close, all at once.
LEMMA FitsDispatches ==
    ASSUME NEW t, NEW f \in Frame, NEW K, NEW D, f.at = "KULDEMENY", ConsignmentFits(f, t, K, D),
           NEW a \in DOMAIN t.part, t.part[a] = "EXPEDIALASOK", D \cap At(t, "EXPEDIALASOK") = {},
           NEW v, v = DispatchList(t, Under(t, {a}, "EXPEDIALAS"))
    PROVE  /\ [f EXCEPT !.dispatches = v].at = f.at
           /\ ConsignmentFits([f EXCEPT !.dispatches = v], t, K, D \cup {a})
<1> DEFINE g == [f EXCEPT !.dispatches = v]
<1>1. f \in ConsignmentFrame
    BY FrameOf
<1>2. /\ g.at = f.at /\ g.header = f.header /\ g.receipt = f.receipt /\ g.openings = f.openings
      /\ g.returned = f.returned /\ g.dispatches = v /\ g.seen = f.seen
      /\ g.reached = f.reached
    BY <1>1 DEF ConsignmentFrame
<1> HIDE DEF g
<1>3. (D \cup {a}) \cap At(t, "EXPEDIALASOK") = {a}
    BY DEF At
<1>4. (D \cup {a}) \cap At(t, "FEJRESZ") = D \cap At(t, "FEJRESZ")
    BY DEF At
<1>6. ConsignmentFits(g, t, K, D \cup {a})
    BY <1>2, <1>3, <1>4 DEF ConsignmentFits
<1> QED BY <1>2, <1>6 DEF g

\* The attachments of a dispatch close, all at once.
LEMMA FitsAttachments ==
    ASSUME NEW t, NEW f \in Frame, NEW K, NEW D, f.at = "EXPEDIALAS", DispatchFits(f, t, K, D),
           NEW a \in DOMAIN t.part, t.part[a] = "MELLEKLETEK", D \cap At(t, "MELLEKLETEK") = {},
           t.event[a].name # "MELLEKLETEK_SZAMA",
           NEW v, v = AttachmentList(t, Under(t, {a}, "MELLEKLET"))
    PROVE  /\ [f EXCEPT !.attachments = v].at = f.at
           /\ DispatchFits([f EXCEPT !.attachments = v], t, K, D \cup {a})
<1> DEFINE g == [f EXCEPT !.attachments = v]
           name == "MELLEKLETEK_SZAMA"
<1>1. f \in DispatchFrame
    BY FrameOf
<1>2. /\ g.at = f.at /\ g.count = f.count /\ g.attachments = v
      /\ g.present = f.present /\ g.handling = f.handling
    BY <1>1 DEF DispatchFrame
<1> HIDE DEF g
<1>3. LeafOf(t, D \cup {a}, name) = LeafOf(t, D, name)
    <2>1. {j \in D \cup {a} : t.event[j].name = name /\ t.event[j].binding = "target"} =
            {j \in D : t.event[j].name = name /\ t.event[j].binding = "target"}
        OBVIOUS
    <2> QED BY <2>1 DEF LeafOf
<1>4. (D \cup {a}) \cap At(t, "MELLEKLETEK") = {a}
    BY DEF At
<1>5. DispatchFits(g, t, K, D \cup {a})
    BY <1>2, <1>3, <1>4 DEF DispatchFits
<1> QED BY <1>2, <1>5 DEF g

\* A call that has a list goes on with another.
LEMMA FrameListed ==
    ASSUME NEW f \in Frame, NEW v
    PROVE  /\ [f EXCEPT !.list = v].at = f.at
           /\ f.at \in {"EXPEDIALASOK", "MELLEKLETEK"} => [f EXCEPT !.list = v].list = v
<1>1. [f EXCEPT !.list = v].at = f.at
    BY FrameKeepsName
<1>2. f.at \in {"EXPEDIALASOK", "MELLEKLETEK"} => [f EXCEPT !.list = v].list = v
    BY FrameOf DEF DispatchesFrame, AttachmentsFrame
<1> QED BY <1>1, <1>2

\* An element of a list closes.
Listed(t, D, a, part) ==
    /\ DispatchList(t, (D \cup {a}) \cap At(t, part)) =
            Append(DispatchList(t, D \cap At(t, part)), DispatchAt(t, a))
    /\ AttachmentList(t, (D \cup {a}) \cap At(t, part)) =
            Append(AttachmentList(t, D \cap At(t, part)), AttachmentAt(t, a))

LEMMA FitsListed ==
    ASSUME NEW t, NEW D, NEW a \in DOMAIN t.part, Behind(D, a), NEW part, t.part[a] = part
    PROVE  Listed(t, D, a, part)
<1>1. PICK S : S = D \cap At(t, part)
    OBVIOUS
<1>2. (D \cup {a}) \cap At(t, part) = S \cup {a}
    BY <1>1 DEF At
<1>3. Behind(S, a)
    BY <1>1, BehindPart
<1>4. /\ DispatchList(t, S \cup {a}) = Append(DispatchList(t, S), DispatchAt(t, a))
      /\ AttachmentList(t, S \cup {a}) = Append(AttachmentList(t, S), AttachmentAt(t, a))
    BY <1>3, ListStep
<1> QED BY <1>1, <1>2, <1>4 DEF Listed

-----------------------------------------------------------------------------
(* What a call returns, and what it refuses.                               *)

LEMMA LeafIs == ASSUME NEW t, NEW a, NEW name PROVE LeafOf(t, Children(t, a), name) = Leaf(t, a, name)
BY DEF LeafOf, Leaf

\* The slots of a header or of an attachment whose children have all closed.
LEMMA SlotsAre ==
    ASSUME NEW t, NEW f, NEW a, SlotsFit(f, t, Children(t, a)), NEW name \in Field
    PROVE  f.slots[name] = Leaf(t, a, name) /\ \A x, y \in Leaf(t, a, name) : x = y
<1>1. f.slots[name] = LeafOf(t, Children(t, a), name) /\ \A x, y \in f.slots[name] : x = y
    BY DEF SlotsFit
<1> QED BY <1>1, LeafIs

LEMMA HeaderNames ==
    /\ HeaderRequired \subseteq Field /\ HeaderOptional \subseteq Field
    /\ HeaderRequired = {"KRX_VERZIOSZAM", "FORRASRENDSZER_AZONOSITO", "KULDEMENY_AZONOSITO",
                   "KULDEMENY_LETREHOZASANAK_IDEJE", "KULDEMENY_TIPUS"}
    /\ HeaderOptional = {"TESZT", "VONALKOD", "KULDEMENY_HIVATKOZASI_AZONOSITO", "HIBAKOD",
                   "KULDEMENY_MEGJEGYZES"}
BY DEF Field, HeaderRequired, HeaderOptional

LEMMA AttachmentNames ==
    /\ AttachmentRequired \subseteq Field /\ AttachmentOptional \subseteq Field
    /\ AttachmentRequired = {"CSATOLMANY_SZAMA", "FAJL_NEV", "MERET", "ELHELYEZKEDES"}
    /\ AttachmentOptional = {"MELLEKLET_LEIRASA", "MENNYISEG", "MENNYISEGI_EGYSEG"}
BY DEF Field, AttachmentRequired, AttachmentOptional

\* The checks of a header, one by one.
LEMMA HeaderChecksAre ==
    ASSUME NEW slots
    PROVE  /\ Wrong(HeaderChecks(slots)) = {} =>
                /\ \A name \in HeaderRequired : slots[name] # {}
                /\ slots["FORRASRENDSZER_AZONOSITO"] \subseteq Tokens(SourceSystem)
                /\ slots["KULDEMENY_TIPUS"] \subseteq Tokens(ConsignmentKind)
                /\ slots["TESZT"] \subseteq Yes \cup No
           /\ \A k \in Wrong(HeaderChecks(slots)) : \A w \in HeaderChecks(slots)[k] :
                \/ w[1] = "malformed.missing_element" /\ \E name \in HeaderRequired : slots[name] = {}
                \/ /\ w[1] = "malformed.enumeration"
                   /\ ~(/\ slots["FORRASRENDSZER_AZONOSITO"] \subseteq Tokens(SourceSystem)
                        /\ slots["KULDEMENY_TIPUS"] \subseteq Tokens(ConsignmentKind))
                \/ w[1] = "malformed.boolean" /\ ~(slots["TESZT"] \subseteq Yes \cup No)
<1> DEFINE missing(f) == IF slots[f] = Absent THEN {<<"malformed.missing_element", f>>} ELSE {}
           strange(f, tokens) ==
              IF slots[f] \subseteq tokens THEN {} ELSE {<<"malformed.enumeration", f>>}
           boolean == IF slots["TESZT"] \subseteq Yes \cup No THEN {}
                      ELSE {<<"malformed.boolean", "TESZT">>}
           checks == HeaderChecks(slots)
<1>1. checks =
        <<missing("KRX_VERZIOSZAM"), missing("FORRASRENDSZER_AZONOSITO"),
          strange("FORRASRENDSZER_AZONOSITO", Tokens(SourceSystem)),
          missing("KULDEMENY_AZONOSITO"), missing("KULDEMENY_LETREHOZASANAK_IDEJE"),
          missing("KULDEMENY_TIPUS"), strange("KULDEMENY_TIPUS", Tokens(ConsignmentKind)),
          boolean>>
    BY DEF HeaderChecks
<1>2. DOMAIN checks = 1 .. 8 /\ Wrong(checks) = {i \in 1 .. 8 : checks[i] # {}}
    BY HeaderChecksTyped DEF Wrong
<1>3. \A f : /\ missing(f) = {} => slots[f] # {}
             /\ \A w \in missing(f) : w[1] = "malformed.missing_element" /\ slots[f] = {}
    <2> TAKE f
    <2>1. \A w \in {<<"malformed.missing_element", f>>} : w[1] = "malformed.missing_element"
        OBVIOUS
    <2>2. CASE slots[f] = {}
        <3>1. missing(f) = {<<"malformed.missing_element", f>>}
            BY <2>2 DEF Absent
        <3> HIDE DEF missing
        <3> QED BY <2>1, <2>2, <3>1
    <2>3. CASE slots[f] # {}
        <3>1. missing(f) = {}
            BY <2>3 DEF Absent
        <3> HIDE DEF missing
        <3> QED BY <2>3, <3>1
    <2> QED BY <2>2, <2>3
<1>4. \A f, tokens : /\ strange(f, tokens) = {} => slots[f] \subseteq tokens
                     /\ \A w \in strange(f, tokens) :
                           w[1] = "malformed.enumeration" /\ ~(slots[f] \subseteq tokens)
    <2> TAKE f, tokens
    <2>1. \A w \in {<<"malformed.enumeration", f>>} : w[1] = "malformed.enumeration"
        OBVIOUS
    <2>2. CASE ~(slots[f] \subseteq tokens)
        <3>1. strange(f, tokens) = {<<"malformed.enumeration", f>>}
            BY <2>2, Zenon
        <3> HIDE DEF strange
        <3>2. strange(f, tokens) # {}
            BY <3>1
        <3> QED BY <2>1, <2>2, <3>1, <3>2
    <2>3. CASE slots[f] \subseteq tokens
        <3>1. strange(f, tokens) = {}
            BY <2>3, Zenon
        <3> HIDE DEF strange
        <3> QED BY <2>3, <3>1
    <2> QED BY <2>2, <2>3
<1>5. /\ boolean = {} => slots["TESZT"] \subseteq Yes \cup No
      /\ \A w \in boolean : w[1] = "malformed.boolean" /\ ~(slots["TESZT"] \subseteq Yes \cup No)
    <2>1. \A w \in {<<"malformed.boolean", "TESZT">>} : w[1] = "malformed.boolean"
        OBVIOUS
    <2>2. CASE ~(slots["TESZT"] \subseteq Yes \cup No)
        <3>1. boolean = {<<"malformed.boolean", "TESZT">>}
            BY <2>2, Zenon
        <3> HIDE DEF boolean
        <3>2. boolean # {}
            BY <3>1
        <3> QED BY <2>1, <2>2, <3>1, <3>2
    <2>3. CASE slots["TESZT"] \subseteq Yes \cup No
        <3>1. boolean = {}
            BY <2>3, Zenon
        <3> HIDE DEF boolean
        <3> QED BY <2>3, <3>1
    <2> QED BY <2>2, <2>3
<1> HIDE DEF missing, strange, boolean, checks
<1>6. /\ checks[1] = missing("KRX_VERZIOSZAM") /\ checks[2] = missing("FORRASRENDSZER_AZONOSITO")
      /\ checks[3] = strange("FORRASRENDSZER_AZONOSITO", Tokens(SourceSystem))
      /\ checks[4] = missing("KULDEMENY_AZONOSITO")
      /\ checks[5] = missing("KULDEMENY_LETREHOZASANAK_IDEJE")
      /\ checks[6] = missing("KULDEMENY_TIPUS")
      /\ checks[7] = strange("KULDEMENY_TIPUS", Tokens(ConsignmentKind)) /\ checks[8] = boolean
    BY <1>1
<1>7. ASSUME Wrong(checks) = {}
      PROVE  /\ \A name \in HeaderRequired : slots[name] # {}
             /\ slots["FORRASRENDSZER_AZONOSITO"] \subseteq Tokens(SourceSystem)
             /\ slots["KULDEMENY_TIPUS"] \subseteq Tokens(ConsignmentKind)
             /\ slots["TESZT"] \subseteq Yes \cup No
    <2>1. \A i \in 1 .. 8 : checks[i] = {}
        BY <1>2, <1>7
    <2>2. \A name \in HeaderRequired : slots[name] # {}
        BY <1>3, <1>6, <2>1, HeaderNames
    <2> QED BY <1>4, <1>5, <1>6, <2>1, <2>2
<1>8. ASSUME NEW k \in Wrong(checks), NEW w \in checks[k]
      PROVE  \/ w[1] = "malformed.missing_element" /\ \E name \in HeaderRequired : slots[name] = {}
             \/ /\ w[1] = "malformed.enumeration"
                /\ ~(/\ slots["FORRASRENDSZER_AZONOSITO"] \subseteq Tokens(SourceSystem)
                     /\ slots["KULDEMENY_TIPUS"] \subseteq Tokens(ConsignmentKind))
             \/ w[1] = "malformed.boolean" /\ ~(slots["TESZT"] \subseteq Yes \cup No)
    <2>1. k \in 1 .. 8
        BY <1>2
    <2>2. k = 1 \/ k = 2 \/ k = 3 \/ k = 4 \/ k = 5 \/ k = 6 \/ k = 7 \/ k = 8
        BY <2>1
    <2>3. CASE k \in {1, 2, 4, 5, 6}
        <3>1. PICK f \in HeaderRequired : w \in missing(f)
            BY <1>6, <2>3, HeaderNames
        <3> QED BY <1>3, <3>1
    <2>4. CASE k = 3 \/ k = 7
        BY <1>4, <1>6, <2>4
    <2>5. CASE k = 8
        BY <1>5, <1>6, <2>5
    <2> QED BY <2>2, <2>3, <2>4, <2>5
<1> QED BY <1>7, <1>8 DEF checks

LEMMA AttachmentChecksAre ==
    ASSUME NEW slots
    PROVE  /\ Wrong(AttachmentChecks(slots)) = {} =>
                /\ \A name \in AttachmentRequired : slots[name] # {}
                /\ slots["CSATOLMANY_SZAMA"] \subseteq DOMAIN Numeral
           /\ \A k \in Wrong(AttachmentChecks(slots)) : \A w \in AttachmentChecks(slots)[k] :
                \/ /\ w[1] = "malformed.missing_element"
                   /\ \E name \in AttachmentRequired : slots[name] = {}
                \/ w[1] = "malformed.integer" /\ ~(slots["CSATOLMANY_SZAMA"] \subseteq DOMAIN Numeral)
<1> DEFINE missing(f) == IF slots[f] = Absent THEN {<<"malformed.missing_element", f>>} ELSE {}
           integer == IF slots["CSATOLMANY_SZAMA"] \subseteq DOMAIN Numeral THEN {}
                      ELSE {<<"malformed.integer", "CSATOLMANY_SZAMA">>}
           checks == AttachmentChecks(slots)
<1>1. checks =
        <<missing("CSATOLMANY_SZAMA"), integer, missing("FAJL_NEV"), missing("MERET"),
          missing("ELHELYEZKEDES")>>
    BY DEF AttachmentChecks
<1>2. DOMAIN checks = 1 .. 5 /\ Wrong(checks) = {i \in 1 .. 5 : checks[i] # {}}
    BY AttachmentChecksTyped DEF Wrong
<1>3. \A f : /\ missing(f) = {} => slots[f] # {}
             /\ \A w \in missing(f) : w[1] = "malformed.missing_element" /\ slots[f] = {}
    <2> TAKE f
    <2>1. \A w \in {<<"malformed.missing_element", f>>} : w[1] = "malformed.missing_element"
        OBVIOUS
    <2>2. CASE slots[f] = {}
        <3>1. missing(f) = {<<"malformed.missing_element", f>>}
            BY <2>2 DEF Absent
        <3> HIDE DEF missing
        <3> QED BY <2>1, <2>2, <3>1
    <2>3. CASE slots[f] # {}
        <3>1. missing(f) = {}
            BY <2>3 DEF Absent
        <3> HIDE DEF missing
        <3> QED BY <2>3, <3>1
    <2> QED BY <2>2, <2>3
<1>4. /\ integer = {} => slots["CSATOLMANY_SZAMA"] \subseteq DOMAIN Numeral
      /\ \A w \in integer :
            w[1] = "malformed.integer" /\ ~(slots["CSATOLMANY_SZAMA"] \subseteq DOMAIN Numeral)
    <2>1. \A w \in {<<"malformed.integer", "CSATOLMANY_SZAMA">>} : w[1] = "malformed.integer"
        OBVIOUS
    <2>2. CASE ~(slots["CSATOLMANY_SZAMA"] \subseteq DOMAIN Numeral)
        <3>1. integer = {<<"malformed.integer", "CSATOLMANY_SZAMA">>}
            BY <2>2, Zenon
        <3> HIDE DEF integer
        <3>2. integer # {}
            BY <3>1
        <3> QED BY <2>1, <2>2, <3>1, <3>2
    <2>3. CASE slots["CSATOLMANY_SZAMA"] \subseteq DOMAIN Numeral
        <3>1. integer = {}
            BY <2>3, Zenon
        <3> HIDE DEF integer
        <3> QED BY <2>3, <3>1
    <2> QED BY <2>2, <2>3
<1> HIDE DEF missing, integer, checks
<1>5. /\ checks[1] = missing("CSATOLMANY_SZAMA") /\ checks[2] = integer
      /\ checks[3] = missing("FAJL_NEV") /\ checks[4] = missing("MERET")
      /\ checks[5] = missing("ELHELYEZKEDES")
    BY <1>1
<1>6. ASSUME Wrong(checks) = {}
      PROVE  /\ \A name \in AttachmentRequired : slots[name] # {}
             /\ slots["CSATOLMANY_SZAMA"] \subseteq DOMAIN Numeral
    <2>1. \A i \in 1 .. 5 : checks[i] = {}
        BY <1>2, <1>6
    <2>2. \A name \in AttachmentRequired : slots[name] # {}
        BY <1>3, <1>5, <2>1, AttachmentNames
    <2> QED BY <1>4, <1>5, <2>1, <2>2
<1>7. ASSUME NEW k \in Wrong(checks), NEW w \in checks[k]
      PROVE  \/ /\ w[1] = "malformed.missing_element"
                /\ \E name \in AttachmentRequired : slots[name] = {}
             \/ w[1] = "malformed.integer" /\ ~(slots["CSATOLMANY_SZAMA"] \subseteq DOMAIN Numeral)
    <2>1. k \in 1 .. 5
        BY <1>2
    <2>2. k = 1 \/ k = 2 \/ k = 3 \/ k = 4 \/ k = 5
        BY <2>1
    <2>3. CASE k \in {1, 3, 4, 5}
        <3>1. PICK f \in AttachmentRequired : w \in missing(f)
            BY <1>5, <2>3, AttachmentNames
        <3> QED BY <1>3, <3>1
    <2>4. CASE k = 2
        BY <1>4, <1>5, <2>4
    <2> QED BY <2>2, <2>3, <2>4
<1> QED BY <1>6, <1>7 DEF checks

\* A header whose children have all closed is what it says, or a fault of it
\* is refused.
LEMMA HeaderCloses ==
    ASSUME NEW t, NEW a, t.part[a] = "FEJRESZ", NEW f, SlotsFit(f, t, Children(t, a))
    PROVE  /\ Wrong(HeaderChecks(f.slots)) = {} =>
                ValueFaults(t, a) = {} /\ IntoHeader(f.slots) = HeaderAt(t, a)
           /\ \A k \in Wrong(HeaderChecks(f.slots)) : \A w \in HeaderChecks(f.slots)[k] :
                w[1] \in ValueFaults(t, a)
<1> DEFINE s == f.slots
           m == IF \E n \in HeaderRequired : Leaf(t, a, n) = {} THEN {"malformed.missing_element"} ELSE {}
           e == IF /\ Leaf(t, a, "FORRASRENDSZER_AZONOSITO") \subseteq Tokens(SourceSystem)
                   /\ Leaf(t, a, "KULDEMENY_TIPUS") \subseteq Tokens(ConsignmentKind)
                THEN {} ELSE {"malformed.enumeration"}
           b == IF Leaf(t, a, "TESZT") \subseteq Yes \cup No THEN {} ELSE {"malformed.boolean"}
<1>1. \A name \in Field : s[name] = Leaf(t, a, name) /\ \A x, y \in Leaf(t, a, name) : x = y
    BY SlotsAre
<1>2. \A name \in HeaderRequired \cup HeaderOptional :
            name \in Field /\ s[name] = Leaf(t, a, name) /\ \A x, y \in Leaf(t, a, name) : x = y
    BY <1>1, HeaderNames
<1>3. ValueFaults(t, a) = m \cup e \cup b
    BY ValueFaultsAre
<1>4. /\ s["FORRASRENDSZER_AZONOSITO"] = Leaf(t, a, "FORRASRENDSZER_AZONOSITO")
      /\ s["KULDEMENY_TIPUS"] = Leaf(t, a, "KULDEMENY_TIPUS")
      /\ s["TESZT"] = Leaf(t, a, "TESZT") /\ s["KRX_VERZIOSZAM"] = Leaf(t, a, "KRX_VERZIOSZAM")
      /\ s["KULDEMENY_AZONOSITO"] = Leaf(t, a, "KULDEMENY_AZONOSITO")
      /\ s["KULDEMENY_LETREHOZASANAK_IDEJE"] = Leaf(t, a, "KULDEMENY_LETREHOZASANAK_IDEJE")
      /\ s["VONALKOD"] = Leaf(t, a, "VONALKOD") /\ s["HIBAKOD"] = Leaf(t, a, "HIBAKOD")
      /\ s["KULDEMENY_HIVATKOZASI_AZONOSITO"] = Leaf(t, a, "KULDEMENY_HIVATKOZASI_AZONOSITO")
      /\ s["KULDEMENY_MEGJEGYZES"] = Leaf(t, a, "KULDEMENY_MEGJEGYZES")
    BY <1>2, HeaderNames
<1>5. \A x, y \in Leaf(t, a, "TESZT") : x = y
    BY <1>2, HeaderNames
<1> HIDE DEF s
<1>6. ASSUME Wrong(HeaderChecks(s)) = {}
      PROVE  ValueFaults(t, a) = {} /\ IntoHeader(s) = HeaderAt(t, a)
    <2>1. /\ \A name \in HeaderRequired : s[name] # {}
          /\ s["FORRASRENDSZER_AZONOSITO"] \subseteq Tokens(SourceSystem)
          /\ s["KULDEMENY_TIPUS"] \subseteq Tokens(ConsignmentKind)
          /\ s["TESZT"] \subseteq Yes \cup No
        BY <1>6, HeaderChecksAre
    <2>2. m = {}
        BY <1>2, <2>1
    <2>3. e = {}
        BY <1>4, <2>1
    <2>4. b = {}
        BY <1>4, <2>1
    <2>5. ValueFaults(t, a) = {}
        <3> HIDE DEF m, e, b
        <3> QED BY <1>3, <2>2, <2>3, <2>4
    <2>6. \A option, values : option # {} /\ option \subseteq Tokens(values) =>
                Head(The(option)) = The(option)[1]
        <3> TAKE option, values
        <3> HAVE option # {} /\ option \subseteq Tokens(values)
        <3>1. The(option) \in Tokens(values)
            BY TheIs
        <3>2. PICK v \in values : The(option) = <<v>>
            BY <3>1 DEF Tokens
        <3> QED BY <3>2
    <2>7. /\ Head(The(s["FORRASRENDSZER_AZONOSITO"])) = The(s["FORRASRENDSZER_AZONOSITO"])[1]
          /\ Head(The(s["KULDEMENY_TIPUS"])) = The(s["KULDEMENY_TIPUS"])[1]
        <3>1. s["FORRASRENDSZER_AZONOSITO"] # {} /\ s["KULDEMENY_TIPUS"] # {}
            BY <2>1, HeaderNames
        <3> QED BY <2>1, <2>6, <3>1
    <2>8. (s["TESZT"] # Absent /\ s["TESZT"] \subseteq Yes) = (Leaf(t, a, "TESZT") \cap Yes # {})
        BY <1>4, <1>5 DEF Absent
    <2>9. (s["TESZT"] # Absent) = (Leaf(t, a, "TESZT") # Absent)
        BY <1>4
    <2>10. IntoHeader(s) = HeaderAt(t, a)
        BY <1>4, <2>7, <2>8, <2>9 DEF IntoHeader, HeaderAt
    <2> QED BY <2>5, <2>10
<1>7. ASSUME NEW k \in Wrong(HeaderChecks(s)), NEW w \in HeaderChecks(s)[k]
      PROVE  w[1] \in ValueFaults(t, a)
    <2>1. \/ w[1] = "malformed.missing_element" /\ \E name \in HeaderRequired : s[name] = {}
          \/ /\ w[1] = "malformed.enumeration"
             /\ ~(/\ s["FORRASRENDSZER_AZONOSITO"] \subseteq Tokens(SourceSystem)
                  /\ s["KULDEMENY_TIPUS"] \subseteq Tokens(ConsignmentKind))
          \/ w[1] = "malformed.boolean" /\ ~(s["TESZT"] \subseteq Yes \cup No)
        BY HeaderChecksAre
    <2>2. CASE w[1] = "malformed.missing_element" /\ \E name \in HeaderRequired : s[name] = {}
        <3>1. m = {"malformed.missing_element"}
            BY <1>2, <2>2
        <3> HIDE DEF m, e, b
        <3> QED BY <1>3, <2>2, <3>1
    <2>3. CASE /\ w[1] = "malformed.enumeration"
               /\ ~(/\ s["FORRASRENDSZER_AZONOSITO"] \subseteq Tokens(SourceSystem)
                    /\ s["KULDEMENY_TIPUS"] \subseteq Tokens(ConsignmentKind))
        <3>1. e = {"malformed.enumeration"}
            BY <1>4, <2>3
        <3> HIDE DEF m, e, b
        <3> QED BY <1>3, <2>3, <3>1
    <2>4. CASE w[1] = "malformed.boolean" /\ ~(s["TESZT"] \subseteq Yes \cup No)
        <3>1. b = {"malformed.boolean"}
            BY <1>4, <2>4
        <3> HIDE DEF m, e, b
        <3> QED BY <1>3, <2>4, <3>1
    <2> QED BY <2>1, <2>2, <2>3, <2>4
<1> QED BY <1>6, <1>7 DEF s

\* An attachment, likewise.
LEMMA AttachmentCloses ==
    ASSUME NEW t, NEW a, t.part[a] = "MELLEKLET", NEW f, SlotsFit(f, t, Children(t, a))
    PROVE  /\ Wrong(AttachmentChecks(f.slots)) = {} =>
                ValueFaults(t, a) = {} /\ IntoAttachment(f.slots) = AttachmentAt(t, a)
           /\ \A k \in Wrong(AttachmentChecks(f.slots)) : \A w \in AttachmentChecks(f.slots)[k] :
                w[1] \in ValueFaults(t, a)
<1> DEFINE s == f.slots
           m == IF \E n \in AttachmentRequired : Leaf(t, a, n) = {}
                THEN {"malformed.missing_element"} ELSE {}
           e == IF Leaf(t, a, "CSATOLMANY_SZAMA") \subseteq DOMAIN Numeral
                THEN {} ELSE {"malformed.integer"}
<1>1. \A name \in Field : s[name] = Leaf(t, a, name)
    BY SlotsAre
<1>2. \A name \in AttachmentRequired \cup AttachmentOptional : s[name] = Leaf(t, a, name)
    BY <1>1, AttachmentNames
<1>3. ValueFaults(t, a) = m \cup e
    BY ValueFaultsAre
<1>4. /\ s["CSATOLMANY_SZAMA"] = Leaf(t, a, "CSATOLMANY_SZAMA")
      /\ s["FAJL_NEV"] = Leaf(t, a, "FAJL_NEV") /\ s["MERET"] = Leaf(t, a, "MERET")
      /\ s["ELHELYEZKEDES"] = Leaf(t, a, "ELHELYEZKEDES")
      /\ s["MELLEKLET_LEIRASA"] = Leaf(t, a, "MELLEKLET_LEIRASA")
      /\ s["MENNYISEG"] = Leaf(t, a, "MENNYISEG")
      /\ s["MENNYISEGI_EGYSEG"] = Leaf(t, a, "MENNYISEGI_EGYSEG")
    BY <1>2, AttachmentNames
<1> HIDE DEF s
<1>5. ASSUME Wrong(AttachmentChecks(s)) = {}
      PROVE  ValueFaults(t, a) = {} /\ IntoAttachment(s) = AttachmentAt(t, a)
    <2>1. /\ \A name \in AttachmentRequired : s[name] # {}
          /\ s["CSATOLMANY_SZAMA"] \subseteq DOMAIN Numeral
        BY <1>5, AttachmentChecksAre
    <2>2. m = {}
        BY <1>2, <2>1
    <2>3. e = {}
        BY <1>4, <2>1
    <2>4. ValueFaults(t, a) = {}
        <3> HIDE DEF m, e
        <3> QED BY <1>3, <2>2, <2>3
    <2>5. IntoAttachment(s) = AttachmentAt(t, a)
        BY <1>4 DEF IntoAttachment, AttachmentAt
    <2> QED BY <2>4, <2>5
<1>6. ASSUME NEW k \in Wrong(AttachmentChecks(s)), NEW w \in AttachmentChecks(s)[k]
      PROVE  w[1] \in ValueFaults(t, a)
    <2>1. \/ w[1] = "malformed.missing_element" /\ \E name \in AttachmentRequired : s[name] = {}
          \/ w[1] = "malformed.integer" /\ ~(s["CSATOLMANY_SZAMA"] \subseteq DOMAIN Numeral)
        BY AttachmentChecksAre
    <2>2. CASE w[1] = "malformed.missing_element" /\ \E name \in AttachmentRequired : s[name] = {}
        <3>1. m = {"malformed.missing_element"}
            BY <1>2, <2>2
        <3> HIDE DEF m, e
        <3> QED BY <1>3, <2>2, <3>1
    <2>3. CASE w[1] = "malformed.integer" /\ ~(s["CSATOLMANY_SZAMA"] \subseteq DOMAIN Numeral)
        <3>1. e = {"malformed.integer"}
            BY <1>4, <2>3
        <3> HIDE DEF m, e
        <3> QED BY <1>3, <2>3, <3>1
    <2> QED BY <2>1, <2>2, <2>3
<1> QED BY <1>5, <1>6 DEF s

\* A dispatch whose children have all closed is what it says.
LEMMA DispatchCloses ==
    ASSUME NEW t, NEW a, NEW f \in Frame, f.at = "EXPEDIALAS",
           DispatchFits(f, t, Children(t, a), Children(t, a))
    PROVE  IntoDispatch(f) = DispatchAt(t, a)
<1> DEFINE lists == Children(t, a) \cap At(t, "MELLEKLETEK")
           S == {j \in At(t, "MELLEKLET") : t.parent[j] \in lists}
<1>1. f \in DispatchFrame
    BY FrameOf
<1>2. /\ f.count = {Numeral[c] : c \in Leaf(t, a, "MELLEKLETEK_SZAMA")}
      /\ f.present = (lists # {}) /\ f.handling = (Children(t, a) \cap At(t, "instructions") # {})
      /\ f.attachments = AttachmentList(t, Under(t, lists, "MELLEKLET"))
    BY <1>1, LeafIs DEF DispatchFits, DispatchFrame
<1>3. Under(t, lists, "MELLEKLET") = S
    BY DEF Under
<1>4. f.attachments = [k \in DOMAIN InOrder(S) |-> AttachmentAt(t, InOrder(S)[k])]
    BY <1>2, <1>3 DEF AttachmentList
<1>5. DispatchAt(t, a) =
        [declared_attachment_count |-> {Numeral[c] : c \in Leaf(t, a, "MELLEKLETEK_SZAMA")},
         attachments |-> [k \in DOMAIN InOrder(S) |-> AttachmentAt(t, InOrder(S)[k])],
         attachments_present |-> lists # {},
         handling_instructions_unqualified |->
            Children(t, a) \cap At(t, "instructions") # {}]
    BY DEF DispatchAt
<1> HIDE DEF lists, S
<1> QED BY <1>2, <1>4, <1>5 DEF IntoDispatch

-----------------------------------------------------------------------------
(* What every step keeps.                                                  *)

Kept == Chained /\ Suited /\ Filled /\ Clean

\* The reader goes on.
KeepsOn == Kept' /\ outcome' = outcome

\* A refusal for a fault that shows now.
RefusesWell ==
    /\ Reading /\ document' = document
    /\ outcome'.kind = "refused" /\ outcome'.code \in FaultsAt(Tree(document), Shown)
    /\ Shown \in 1 .. Len(document)

LEMMA FaultShown ==
    ASSUME NEW t, NEW i, NEW code
    PROVE  /\ code \in EventFaults(t, i) => code \in FaultsAt(t, i)
           /\ IsOpen(t.event[i]) /\ code \in PlaceFaults(t, i) => code \in FaultsAt(t, i)
           /\ \A a \in 1 .. i : IsOpen(t.event[a]) /\ t.close[a] = i /\ code \in ValueFaults(t, a)
                 => code \in FaultsAt(t, i)
<1>1. code \in EventFaults(t, i) => code \in FaultsAt(t, i)
    BY DEF FaultsAt
<1>2. IsOpen(t.event[i]) /\ code \in PlaceFaults(t, i) => code \in FaultsAt(t, i)
    BY DEF FaultsAt
<1>3. ASSUME NEW a \in 1 .. i, IsOpen(t.event[a]), t.close[a] = i, code \in ValueFaults(t, a)
      PROVE  code \in FaultsAt(t, i)
    BY <1>3 DEF FaultsAt
<1> QED BY <1>1, <1>2, <1>3

LEMMA RefusedWell ==
    ASSUME Reading, NEW code, NEW about, Refuse(code, about), Shown \in 1 .. Len(document),
           code \in FaultsAt(Tree(document), Shown)
    PROVE  RefusesWell
BY DEF Refuse, RefusesWell

LEMMA KeptMoved ==
    ASSUME Standing, Kept, NEW f, Moves(f), Passes(Upcoming),
           Top.at = "leaf" => f.field = Top.field /\ f.text = Top.text \o Said(Upcoming),
           Top.at # "leaf" => f = Top
    PROVE  Kept'
<1>1. PassStep
    BY DEF Moves
<1>2. EventFaults(Tree(document), next) = {}
    BY <1>1, Scanned DEF ScannedWell, Passes, PassStep
<1>3. Chained'
    BY <1>1, ChainPassed DEF Kept
<1>4. Suited'
    BY SuitedMoved DEF Kept
<1>5. Filled'
    BY FilledMoved DEF Kept
<1>6. Clean'
    BY <1>1, <1>2, CleanPassed DEF Kept
<1> QED BY <1>3, <1>4, <1>5, <1>6 DEF Kept

LEMMA KeptPushed ==
    ASSUME Standing, Kept, NEW f, NEW c, Pushes(f, c), Passes(Upcoming),
           PlaceFaults(Tree(document), next) = {},
           depth > 0 => Fits(f, Tree(document), Kids(Outer) \cup {next}, Done(Outer)),
           Fits(c, Tree(document), {}, {}),
           c.at = "leaf" => /\ Upcoming.name = c.field /\ Upcoming.binding = "target"
                            /\ c.text = <<>>
    PROVE  Kept'
<1>1. OpenStep
    BY DEF Pushes
<1>2. EventFaults(Tree(document), next) = {}
    BY <1>1, Scanned DEF ScannedWell, Passes, OpenStep
<1>3. Chained'
    BY <1>1, ChainOpened DEF Kept
<1>4. Suited'
    BY SuitedPushed DEF Kept
<1>5. Filled'
    BY FilledPushed DEF Kept
<1>6. Clean'
    BY <1>1, <1>2, CleanOpened DEF Kept
<1> QED BY <1>3, <1>4, <1>5, <1>6 DEF Kept

LEMMA KeptDeepened ==
    ASSUME Standing, Kept, Deepens, Passes(Upcoming), PlaceFaults(Tree(document), next) = {}
    PROVE  Kept'
<1>1. OpenStep
    BY DEF Deepens
<1>2. EventFaults(Tree(document), next) = {}
    BY <1>1, Scanned DEF ScannedWell, Passes, OpenStep
<1>3. Chained'
    BY <1>1, ChainOpened DEF Kept
<1>4. Suited'
    BY SuitedDeepened DEF Kept
<1>5. Filled'
    BY FilledDeepened DEF Kept
<1>6. Clean'
    BY <1>1, <1>2, CleanOpened DEF Kept
<1> QED BY <1>3, <1>4, <1>5, <1>6 DEF Kept

LEMMA KeptPopped ==
    ASSUME Standing, Kept, NEW f, Pops(f),
           Fits(f, Tree(document), Kids(Entered(depth - 1)),
                Done(Entered(depth - 1)) \cup {Entered(depth)}),
           ValueFaults(Tree(document), Entered(depth)) = {}
    PROVE  Kept'
<1>1. CloseStep /\ depth > 1
    BY PopsFrom DEF Pops
<1>3. Chained'
    BY <1>1, ChainClosed DEF Kept
<1>4. Suited'
    BY SuitedPopped DEF Kept
<1>5. Filled'
    BY FilledPopped DEF Kept
<1>6. Clean'
    BY <1>1, CleanClosed DEF Kept
<1> QED BY <1>3, <1>4, <1>5, <1>6 DEF Kept

LEMMA KeptRisen ==
    ASSUME Standing, Kept, Rises, ValueFaults(Tree(document), Entered(depth)) = {}
    PROVE  Kept'
<1>1. CloseStep /\ depth > 1
    BY RisesFrom DEF Rises
<1>3. Chained'
    BY <1>1, ChainClosed DEF Kept
<1>4. Suited'
    BY SuitedRisen DEF Kept
<1>5. Filled'
    BY FilledRisen DEF Kept
<1>6. Clean'
    BY <1>1, CleanClosed DEF Kept
<1> QED BY <1>3, <1>4, <1>5, <1>6 DEF Kept

-----------------------------------------------------------------------------
(* An element opens.                                                       *)

\* Every element is a child of the one the innermost call is in.
LEMMA OpeningEvent ==
    ASSUME Standing, NEW calls, Opening(calls)
    PROVE  /\ Reading /\ ~pending /\ ~AtEnd /\ IsOpen(Upcoming) /\ Passes(Upcoming) /\ Top.at \in calls
           /\ Shown = next /\ next \in 1 .. Len(document) /\ next \in DOMAIN Tree(document).part
           /\ next \in Nat \ {0} /\ document \in Seq(Event)
           /\ Tree(document).event = document /\ Upcoming = document[next]
           /\ Top = stack[Len(stack)] /\ Top \in Frame
<1>1. /\ Reading /\ ~pending /\ ~AtEnd /\ IsOpen(Upcoming) /\ Passes(Upcoming) /\ Top.at \in calls
    BY DEF Opening, Incoming, InCall
<1>2. /\ document \in Seq(Event) /\ next \in 1 .. Len(document) + 1 /\ next \in Nat \ {0}
      /\ Len(document) \in Nat
    BY <1>1, Stand
<1>3. next \in 1 .. Len(document)
    BY <1>1, <1>2 DEF AtEnd
<1>4. next \in DOMAIN Tree(document).part
    BY <1>1, PartOfNext
<1>5. Top \in Frame
    BY TypedCalls DEF Standing, Typed, Reading
<1> QED BY <1>1, <1>2, <1>3, <1>4, <1>5, TreeIs DEF Shown, Upcoming, Top

LEMMA OpeningScene ==
    ASSUME Standing, Kept, NEW calls, Opening(calls), "skip" \notin calls, "document" \notin calls,
           NEW t, t = Tree(document), NEW p, p = Outer
    PROVE  /\ depth \in Nat \ {0} /\ depth = Len(stack) - 1 /\ p = Entered(depth)
           /\ t.parent[next] = p /\ p \in 1 .. next - 1
           /\ t.part[p] = Top.at /\ t.part[next] = Part(Top.at, Upcoming)
           /\ Fits(Top, t, Kids(p), Done(p))
<1>1. /\ Reading /\ ~pending /\ ~AtEnd /\ IsOpen(Upcoming) /\ Top.at \notin {"document", "skip"}
      /\ Top = stack[Len(stack)] /\ document \in Seq(Event) /\ next \in 1 .. Len(document)
    BY OpeningEvent
<1>2. /\ depth \in Nat \ {0} /\ depth = Len(stack) - 1 /\ Len(stack) \in Nat \ {0}
      /\ Level(document, next) = depth
    <2>1. depth \in Nat /\ depth > 0
        BY <1>1, Stand
    <2>2. depth = Len(stack) - 1 /\ Len(stack) \in Nat \ {0}
        BY <1>1, Stand
    <2>3. Level(document, next) = depth - 0
        BY <1>1, Stand
    <2> QED BY <2>1, <2>2, <2>3
<1>3. p = Entered(depth) /\ depth \in 1 .. depth
    BY <1>2 DEF Outer
<1>4. p \in 1 .. next - 1
    BY <1>1, <1>3 DEF Kept, Chained, InChain
<1>5. t.parent[next] = p
    <2>1. t.parent[next] = Above(document, next, Level(document, next))
        BY <1>1, ParentIs
    <2> QED BY <1>1, <1>2, <1>3, <2>1 DEF Entered
<1>6. t.part[p] = Top.at
    <2>1. Suits(stack, depth, PartOf(p))
        BY <1>1, <1>3 DEF Kept, Suited
    <2>2. depth < Len(stack) /\ depth + 1 = Len(stack)
        BY <1>2
    <2> QED BY <1>1, <2>1, <2>2 DEF Suits, PartOf
<1>7. t.part[next] = Part(Top.at, Upcoming)
    BY <1>1, PartOfNext DEF PartOf
<1>8. Fits(Top, t, Kids(p), Done(p))
    <2>1. \A k \in 1 .. Len(stack) - 1 :
              Fits(stack[k + 1], Tree(document), Kids(Entered(k)), Done(Entered(k)))
        BY <1>1 DEF Kept, Filled
    <2>2. depth + 1 = Len(stack) /\ depth \in 1 .. Len(stack) - 1
        BY <1>2
    <2>3. Fits(stack[depth + 1], Tree(document), Kids(Entered(depth)), Done(Entered(depth)))
        BY <2>1, <2>2
    <2> QED BY <1>1, <1>3, <2>2, <2>3
<1> QED BY <1>2, <1>3, <1>4, <1>5, <1>6, <1>7, <1>8

LEMMA CallPushes ==
    ASSUME Standing, NEW calls, Opening(calls), "skip" \notin calls,
           NEW c \in Frame, OpenedFor(c), c.at # "document",
           c.at # "skip" => PartOf(next) = c.at,
           c.at = "skip" => PartOf(next) \notin DOMAIN Grammar \cup {"leaf"}
    PROVE  Pushes(Top, c)
<1>1. Reading /\ ~pending /\ ~AtEnd /\ IsOpen(Upcoming) /\ Top.at # "skip" /\ Top = stack[Len(stack)]
    BY OpeningEvent
<1>2. stack' = Append(stack, c) /\ Opened /\ document' = document
    BY DEF OpenedFor, Call
<1>3. stack \in Seq(Frame) /\ Len(stack) \in Nat \ {0}
    BY <1>1, Stand DEF Standing, Typed, TypedStack
<1>4. /\ Len(stack') = Len(stack) + 1 /\ stack'[Len(stack) + 1] = c
      /\ stack'[Len(stack)] = Top
      /\ \A i \in 1 .. Len(stack) - 1 : stack'[i] = stack[i]
    <2>1. stack' = stack \o <<c>>
        BY <1>2, <1>3
    <2>2. /\ Len(stack') = Len(stack) + 1 /\ stack'[Len(stack) + 1] = c
          /\ \A i \in 1 .. Len(stack) : stack'[i] = stack[i]
        BY <1>3, <2>1, PushedLast
    <2> QED BY <1>1, <1>3, <2>2
<1>5. OpenStep
    BY <1>1, <1>2 DEF OpenStep, Opened
<1>6. SameUpTo(Len(stack) - 1)
    BY <1>4 DEF SameUpTo
<1> QED BY <1>1, <1>4, <1>5, <1>6 DEF Pushes

LEMMA NotePushes ==
    ASSUME Standing, NEW calls, Opening(calls), "skip" \notin calls, "document" \notin calls,
           Opened, document' = document, NEW f, f.at = Top.at, NEW c, c.at # "document",
           stack' = Append(Front(stack), f) \o <<c>>,
           c.at # "skip" => PartOf(next) = c.at,
           c.at = "skip" => PartOf(next) \notin DOMAIN Grammar \cup {"leaf"}
    PROVE  Pushes(f, c)
<1> DEFINE u == [stack EXCEPT ![Len(stack)] = f]
<1>1. /\ Reading /\ ~pending /\ ~AtEnd /\ IsOpen(Upcoming) /\ Top.at \notin {"skip", "document"}
      /\ Top = stack[Len(stack)]
    BY OpeningEvent
<1>2. Calls(stack)
    BY OpeningSeen DEF Standing
<1>3. Append(Front(stack), f) = u
    BY <1>1, <1>2, Replaced
<1>4. PICK S : stack \in Seq(S) /\ c \in S /\ f \in S
    <2>1. stack \in Seq(Frame)
        BY DEF Standing, Typed, TypedStack
    <2>2. stack \in Seq(Frame \cup {c, f})
        BY <2>1
    <2> QED BY <2>2
<1>5. /\ u \in Seq(S) /\ Len(u) = Len(stack) /\ Len(stack) \in Nat \ {0}
      /\ \A i \in 1 .. Len(stack) : u[i] = IF i = Len(stack) THEN f ELSE stack[i]
    BY <1>2, <1>4, ReplacedLast DEF Calls
<1> HIDE DEF u
<1>6. /\ Len(stack') = Len(stack) + 1 /\ stack'[Len(stack) + 1] = c
      /\ \A i \in 1 .. Len(stack) : stack'[i] = u[i]
    <2>1. stack' = u \o <<c>>
        BY <1>3
    <2>2. /\ Len(stack') = Len(u) + 1 /\ stack'[Len(u) + 1] = c
          /\ \A i \in 1 .. Len(u) : stack'[i] = u[i]
        BY <1>4, <1>5, <2>1, PushedLast
    <2> QED BY <1>5, <2>2
<1>7. stack'[Len(stack)] = f
    BY <1>5, <1>6
<1>8. SameUpTo(Len(stack) - 1)
    <2> SUFFICES ASSUME NEW i \in 1 .. Len(stack) - 1 PROVE stack'[i] = stack[i]
        BY DEF SameUpTo
    <2>1. i \in 1 .. Len(stack) /\ i # Len(stack)
        BY <1>5
    <2> QED BY <1>5, <1>6, <2>1
<1>9. OpenStep
    BY <1>1 DEF OpenStep, Opened
<1> QED BY <1>1, <1>6, <1>7, <1>8, <1>9 DEF Pushes

\* A call of one that reads its element, for an element nothing is noted of yet.
LEMMA KeptCalled ==
    ASSUME Standing, Kept, NEW calls, Opening(calls),
           "skip" \notin calls, "document" \notin calls, "leaf" \notin calls,
           NEW c \in Frame, OpenedFor(c), c.at # "document",
           PartOf(next) \notin Range(Blocks) \cup {"MELLEKLETEK", "instructions"},
           c.at # "skip" => PartOf(next) = c.at,
           c.at = "skip" => PartOf(next) \notin DOMAIN Grammar \cup {"leaf"},
           Fits(c, Tree(document), {}, {}),
           c.at = "leaf" => /\ Upcoming.name = c.field /\ Upcoming.binding = "target"
                            /\ c.text = <<>>
    PROVE  Kept'
<1> DEFINE t == Tree(document)
           p == Outer
<1>1. /\ p # 0 /\ t.parent[next] = p /\ t.part[p] = Top.at /\ Fits(Top, t, Kids(p), Done(p))
      /\ Top.at # "leaf" /\ next \in Nat /\ Passes(Upcoming)
    <2>1. p \in 1 .. next - 1 /\ t.parent[next] = p /\ t.part[p] = Top.at /\ Fits(Top, t, Kids(p), Done(p))
        BY OpeningScene
    <2> HIDE DEF t, p
    <2> QED BY <2>1, OpeningEvent
<1>2. t.part[next] \notin Range(Blocks) \cup {"MELLEKLETEK", "instructions"}
    BY DEF PartOf
<1> HIDE DEF t, p
<1>3. PlaceFaults(t, next) = {}
    BY <1>1, <1>2, PlaceFaultsAre
<1>4. Fits(Top, t, Kids(p) \cup {next}, Done(p))
    BY <1>1, <1>2, FitsKid
<1>5. Pushes(Top, c)
    BY CallPushes
<1> QED BY <1>1, <1>3, <1>4, <1>5, KeptPushed DEF t, p

LEMMA OpenLeafKeeps == ASSUME Standing, Kept, OpenLeaf PROVE Kept'
<1> DEFINE c == LeafCall(Upcoming.name)
<1>1. /\ OpenedFor(c) /\ Opened /\ c.at = "leaf" /\ c.field = Upcoming.name /\ c.text = <<>>
    BY DEF OpenLeaf, OpenedFor, LeafCall
<1>2. PICK calls : /\ Opening(calls) /\ "skip" \notin calls /\ "document" \notin calls
                   /\ "leaf" \notin calls
                   /\ Upcoming.binding = "target" /\ Upcoming.name \in Field
                   /\ \/ calls = {"FEJRESZ", "MELLEKLET"}
                      \/ calls = {"EXPEDIALAS"} /\ Upcoming.name = "MELLEKLETEK_SZAMA"
    BY DEF OpenLeaf, Known, Names, Field
<1>3. PartOf(next) = "leaf"
    BY <1>1, <1>2, PartOfChild, Meanings
<1>4. c \in Frame
    <2>1. c \in LeafFrame
        BY <1>2 DEF LeafCall, LeafFrame, Text
    <2> QED BY <2>1, Frames
<1>5. Fits(c, Tree(document), {}, {})
    BY FreshFits
<1>6. "leaf" \notin Range(Blocks) \cup {"MELLEKLETEK", "instructions"}
    BY BlockNames
<1> HIDE DEF c
<1> QED BY <1>1, <1>2, <1>3, <1>4, <1>5, <1>6, KeptCalled

LEMMA OpenDispatchKeeps == ASSUME Standing, Kept, OpenDispatch PROVE Kept'
<1>1. /\ Opening({"EXPEDIALASOK"}) /\ Names("EXPEDIALAS") /\ OpenedFor(DispatchCall)
      /\ Opened /\ DispatchCall.at = "EXPEDIALAS"
    BY DEF OpenDispatch, OpenedFor, DispatchCall
<1>2. PartOf(next) = "EXPEDIALAS"
    BY <1>1, PartOfChild, Meanings DEF Names
<1>3. DispatchCall \in Frame
    <2>1. DispatchCall \in DispatchFrame
        BY DEF DispatchCall, DispatchFrame, Absent
    <2> QED BY <2>1, Frames
<1>4. "EXPEDIALAS" \notin Range(Blocks) \cup {"MELLEKLETEK", "instructions"}
    BY BlockNames
<1>5. Fits(DispatchCall, Tree(document), {}, {})
    BY FreshFits
<1> QED BY <1>1, <1>2, <1>3, <1>4, <1>5, KeptCalled

LEMMA OpenAttachmentKeeps == ASSUME Standing, Kept, OpenAttachment PROVE Kept'
<1> DEFINE c == SlotsCall("MELLEKLET")
<1>1. /\ Opening({"MELLEKLETEK"}) /\ Names("MELLEKLET") /\ OpenedFor(c)
      /\ Opened /\ c.at = "MELLEKLET"
    BY DEF OpenAttachment, OpenedFor, SlotsCall
<1>2. PartOf(next) = "MELLEKLET"
    BY <1>1, PartOfChild, Meanings DEF Names
<1>3. c \in Frame
    <2>1. c \in SlotsFrame
        BY DEF SlotsCall, SlotsFrame, Absent, Slots
    <2> QED BY <2>1, Frames
<1>4. "MELLEKLET" \notin Range(Blocks) \cup {"MELLEKLETEK", "instructions"}
    BY BlockNames
<1>5. Fits(c, Tree(document), {}, {})
    BY FreshFits
<1> HIDE DEF c
<1> QED BY <1>1, <1>2, <1>3, <1>4, <1>5, KeptCalled

LEMMA OpenUnknownKeeps == ASSUME Standing, Kept, OpenUnknown PROVE Kept'
<1>1. OpenedFor(SkipCall) /\ Opened /\ SkipCall.at = "skip"
    BY DEF OpenUnknown, SkipUnknown, OpenedFor, SkipCall
<1>2. PICK calls : /\ Opening(calls) /\ "skip" \notin calls /\ "document" \notin calls
                   /\ "leaf" \notin calls /\ calls \subseteq DOMAIN Grammar
    BY Meanings DEF OpenUnknown
<1>3. PartOf(next) = Part(Top.at, Upcoming) /\ Top.at \in DOMAIN Grammar
    BY <1>1, <1>2, PartOfChild
<1>4. \/ Top.at = "KULDEMENY" /\ \A b \in Range(Blocks) : ~Names(b)
      \/ Top.at \in {"FEJRESZ", "MELLEKLET"} /\ ~Known
      \/ Top.at = "EXPEDIALASOK" /\ ~Names("EXPEDIALAS")
      \/ /\ Top.at = "EXPEDIALAS" /\ ~Unqualified
         /\ ~Names("MELLEKLETEK_SZAMA") /\ ~Names("MELLEKLETEK")
      \/ Top.at = "MELLEKLETEK" /\ ~Names("MELLEKLET")
    BY DEF OpenUnknown, Opening, InCall
<1>5. PartOf(next) = "unknown"
    <2>1. CASE Upcoming.binding # "target"
        BY <1>3, <1>4, <2>1, Meanings DEF Unqualified
    <2>2. CASE Upcoming.binding = "target"
        BY <1>3, <1>4, <2>2, Meanings DEF Names, Known
    <2> QED BY <2>1, <2>2
<1>6. /\ "unknown" \notin DOMAIN Grammar \cup {"leaf"}
      /\ "unknown" \notin Range(Blocks) \cup {"MELLEKLETEK", "instructions"}
    BY Meanings, BlockNames
<1>7. SkipCall \in Frame /\ Fits(SkipCall, Tree(document), {}, {})
    <2>1. SkipCall \in SkipFrame
        BY DEF SkipCall, SkipFrame
    <2> QED BY <2>1, Frames, FreshFits
<1> QED BY <1>1, <1>2, <1>5, <1>6, <1>7, KeptCalled

LEMMA OpenInLeafKeeps == ASSUME Standing, Kept, OpenInLeaf PROVE RefusesWell
<1> DEFINE t == Tree(document)
           p == Outer
<1>1. Opening({"leaf"}) /\ Refuse("malformed.unexpected_child", Present(Top.field))
    BY DEF OpenInLeaf
<1>2. p \in 1 .. next - 1 /\ t.parent[next] = p /\ t.part[p] = Top.at /\ t.part[next] = Part(Top.at, Upcoming)
    BY <1>1, OpeningScene
<1>3. /\ Reading /\ IsOpen(t.event[next]) /\ Top.at = "leaf" /\ Shown = next
      /\ next \in 1 .. Len(document) /\ next \in Nat
    BY <1>1, OpeningEvent
<1> HIDE DEF t, p
<1>4. t.part[next] = "below"
    BY <1>2, <1>3, Meanings DEF Part
<1>5. "below" \notin Range(Blocks) \cup {"MELLEKLETEK"} /\ p # 0
    BY <1>2, BlockNames
<1>6. PlaceFaults(t, next) = {"malformed.unexpected_child"}
    BY <1>2, <1>3, <1>4, <1>5, PlaceFaultsAre
<1>7. "malformed.unexpected_child" \in FaultsAt(t, next)
    BY <1>3, <1>6, FaultShown
<1> QED BY <1>1, <1>3, <1>7, RefusedWell DEF t

LEMMA OpenSkippedKeeps == ASSUME Standing, Kept, OpenSkipped PROVE Kept'
<1> DEFINE f == [Top EXCEPT !.open = @ + 1]
           t == Tree(document)
           p == Entered(depth)
<1>1. /\ Opening({"skip"}) /\ Opened /\ document' = document
      /\ stack' = [stack EXCEPT ![Len(stack)] = f]
    BY DEF OpenSkipped, Continue
<1>2. /\ Reading /\ ~pending /\ ~AtEnd /\ IsOpen(Upcoming) /\ Top.at = "skip" /\ Passes(Upcoming)
      /\ next \in 1 .. Len(document) /\ next \in Nat /\ document \in Seq(Event)
      /\ Top = stack[Len(stack)] /\ Top \in Frame
    BY <1>1, OpeningEvent
<1>3. f.at = "skip"
    BY <1>2, FrameOf DEF SkipFrame
<1>4. stack \in Seq(Frame) /\ Len(stack) \in Nat \ {0}
    BY <1>2, Stand DEF Standing, Typed, TypedStack
<1> HIDE DEF f
<1>5. PICK S : stack \in Seq(S) /\ f \in S
    <2>1. stack \in Seq(Frame \cup {f})
        BY <1>4
    <2> QED BY <2>1
<1>6. /\ Len(stack') = Len(stack)
      /\ \A i \in 1 .. Len(stack) : stack'[i] = IF i = Len(stack) THEN f ELSE stack[i]
    <2>1. Len(stack) > 0
        BY <1>4
    <2> QED BY <1>1, <1>5, <2>1, ReplacedLast
<1>7. Deepens
    <2>1. SameUpTo(Len(stack) - 1)
        BY <1>4, <1>6 DEF SameUpTo
    <2>2. OpenStep
        BY <1>1, <1>2 DEF OpenStep, Opened
    <2>3. stack'[Len(stack)] = f
        BY <1>4, <1>6
    <2> QED BY <1>2, <1>3, <1>6, <2>1, <2>2, <2>3 DEF Deepens
<1>8. /\ depth \in 1 .. depth /\ Level(document, next) = depth /\ depth >= Len(stack) - 1
    <2>1. depth \in Nat /\ depth > 0 /\ Len(stack) - 1 <= depth
        BY <1>2, Stand
    <2>2. Level(document, next) = depth - 0
        BY <1>2, Stand
    <2> QED BY <1>4, <2>1, <2>2
<1>9. p \in 1 .. next - 1
    BY <1>2, <1>8 DEF Kept, Chained, InChain
<1>10. t.parent[next] = p
    <2>1. t.parent[next] = Above(document, next, Level(document, next))
        BY <1>2, ParentIs
    <2> QED BY <1>2, <1>8, <2>1 DEF Entered
<1>11. t.part[p] \notin DOMAIN Grammar \cup {"leaf"}
    <2>1. Suits(stack, depth, PartOf(p))
        BY <1>2, <1>8 DEF Kept, Suited
    <2>2. depth < Len(stack) => depth + 1 = Len(stack)
        BY <1>4, <1>8
    <2> HIDE DEF p
    <2>3. PartOf(p) \notin DOMAIN Grammar \cup {"leaf"}
        BY <1>2, <2>1, <2>2 DEF Suits
    <2> QED BY <2>3 DEF PartOf
<1>12. t.part[next] = "below"
    BY <1>2, PartOfNext DEF PartOf
<1>13. "below" \notin Range(Blocks) \cup {"MELLEKLETEK"}
    BY BlockNames
<1> HIDE DEF t, p
<1>14. PlaceFaults(t, next) = {}
    BY <1>2, <1>9, <1>10, <1>11, <1>12, <1>13, PlaceFaultsAre
<1> QED BY <1>2, <1>7, <1>14, KeptDeepened DEF t

LEMMA OpenRootKeeps == ASSUME Standing, Kept, OpenRoot PROVE KeepsOn \/ RefusesWell
<1> DEFINE t == Tree(document)
<1>1. Opening({"document"})
    BY DEF OpenRoot
<1>2. /\ Reading /\ ~pending /\ ~AtEnd /\ IsOpen(Upcoming) /\ Top.at = "document" /\ Passes(Upcoming)
      /\ next \in 1 .. Len(document) /\ next \in Nat /\ document \in Seq(Event) /\ Shown = next
      /\ t.event = document /\ Upcoming = document[next]
    BY <1>1, OpeningEvent
<1>3. depth = 0 /\ t.parent[next] = 0
    <2>1. depth = 0 /\ Level(document, next) = depth - 0 /\ Above(document, next, 0) = 0
        BY <1>2, Stand
    <2>2. t.parent[next] = Above(document, next, Level(document, next))
        BY <1>2, ParentIs
    <2> QED BY <2>1, <2>2
<1> HIDE DEF t
<1>4. /\ Upcoming.binding # "target" => PlaceFaults(t, next) = {"unsupported.namespace"}
      /\ Upcoming.binding = "target" /\ Upcoming.name = "KULDEMENY" => PlaceFaults(t, next) = {}
      /\ Upcoming.binding = "target" /\ Upcoming.name # "KULDEMENY" =>
            PlaceFaults(t, next) = {"malformed.root_element"}
    BY <1>2, <1>3, PlaceFaultsAre
<1>5. CASE Upcoming.binding # "target"
    <2>1. Refuse("unsupported.namespace", Absent)
        BY <1>5 DEF OpenRoot
    <2>2. "unsupported.namespace" \in FaultsAt(t, next)
        BY <1>2, <1>4, <1>5, FaultShown
    <2> QED BY <1>2, <2>1, <2>2, RefusedWell DEF t
<1>6. CASE Upcoming.binding = "target" /\ Upcoming.name # "KULDEMENY"
    <2>1. Refuse("malformed.root_element", Present("KULDEMENY"))
        BY <1>6 DEF OpenRoot
    <2>2. "malformed.root_element" \in FaultsAt(t, next)
        BY <1>2, <1>4, <1>6, FaultShown
    <2> QED BY <1>2, <2>1, <2>2, RefusedWell DEF t
<1>7. CASE Upcoming.binding = "target" /\ Upcoming.name = "KULDEMENY"
    <2>1. OpenedFor(ConsignmentCall) /\ ConsignmentCall.at = "KULDEMENY"
        BY <1>7 DEF OpenRoot, ConsignmentCall
    <2>2. PartOf(next) = "KULDEMENY"
        BY <1>2, PartOfNext
    <2>3. ConsignmentCall \in Frame
        BY FreshFrames, Frames
    <2>4. Fits(ConsignmentCall, t, {}, {})
        BY FreshFits
    <2>5. Pushes(Top, ConsignmentCall)
        BY <1>1, <2>1, <2>2, <2>3, CallPushes
    <2>6. ~(depth > 0)
        BY <1>3
    <2>10. outcome' = outcome
        BY <2>1 DEF OpenedFor
    <2> QED BY <1>2, <1>4, <1>7, <2>1, <2>4, <2>5, <2>6, <2>10, KeptPushed DEF KeepsOn, t
<1> QED BY <1>5, <1>6, <1>7

\* Another element of its name: one of its part in the same element.
LEMMA TwinsOpening ==
    ASSUME Standing, NEW calls, Opening(calls), NEW t, t = Tree(document),
           NEW p, p = t.parent[next], NEW part, part = t.part[next],
           part \in Range(Blocks) \cup {"MELLEKLETEK"}
    PROVE  Twins(t, next) = Kids(p) \cap At(t, part)
<1>1. /\ document \in Seq(Event) /\ next \in 1 .. Len(document) /\ Len(document) \in Nat
      /\ t.event = document
    BY OpeningEvent
<1>2. part # "none"
    BY BlockNames
<1>3. \A j \in 1 .. next - 1 : j \in 1 .. Len(document)
    BY <1>1
<1>4. ASSUME NEW j \in 1 .. next - 1
      PROVE  /\ j \in DOMAIN t.part /\ t.parent[j] \in 0 .. j - 1
             /\ t.part[j] # "none" <=> IsOpen(document[j])
             /\ t.part[j] = part => document[j].name = document[next].name
    <2>1. j \in 1 .. Len(document)
        BY <1>3
    <2>2. /\ DOMAIN t.part = 1 .. Len(document)
          /\ t.part[j] # "none" <=> IsOpen(document[j])
          /\ t.part[j] \in Range(Blocks) => document[j].name = t.part[j]
          /\ t.part[j] = "MELLEKLETEK" => document[j].name = t.part[j]
        BY <1>1, <2>1, PartMeans
    <2>3. /\ t.part[next] \in Range(Blocks) => document[next].name = t.part[next]
          /\ t.part[next] = "MELLEKLETEK" => document[next].name = t.part[next]
        BY <1>1, PartMeans
    <2>4. t.parent[j] \in 0 .. j - 1
        BY <1>1, <2>1, ParentIs
    <2> QED BY <2>1, <2>2, <2>3, <2>4
<1>5. ASSUME NEW j \in Twins(t, next) PROVE j \in Kids(p) \cap At(t, part)
    <2>1. j \in 1 .. next - 1 /\ t.part[j] = part /\ t.parent[j] = p
        BY <1>5 DEF Twins
    <2>2. IsOpen(document[j]) /\ j \in DOMAIN t.part /\ p \in 0 .. j - 1
        BY <1>2, <1>4, <2>1
    <2>3. j \in p + 1 .. next - 1
        BY <1>1, <2>1, <2>2
    <2> QED BY <2>1, <2>2, <2>3 DEF Kids, At
<1>6. ASSUME NEW j \in Kids(p) \cap At(t, part) PROVE j \in Twins(t, next)
    <2>1. j \in p + 1 .. next - 1 /\ t.part[j] = part /\ t.parent[j] = p
        BY <1>6 DEF Kids, At
    <2>2. p \in 0 .. next - 1
        BY <1>1, ParentIs
    <2>3. j \in 1 .. next - 1
        BY <1>1, <2>1, <2>2
    <2>4. document[j].name = document[next].name
        BY <1>4, <2>1, <2>3
    <2> QED BY <1>1, <2>1, <2>3, <2>4 DEF Twins
<1> QED BY <1>5, <1>6

LEMMA OpenInstructionsKeeps == ASSUME Standing, Kept, OpenInstructions PROVE Kept'
<1> DEFINE f == [Top EXCEPT !.handling = TRUE]
           t == Tree(document)
           p == Outer
<1>1. /\ Opening({"EXPEDIALAS"}) /\ Unqualified /\ Opened /\ SkipCall.at = "skip"
      /\ stack' = Append(Front(stack), f) \o <<SkipCall>> /\ document' = document
    BY DEF OpenInstructions, SkipCall
<1>2. PartOf(next) = "instructions" /\ PartOf(next) \notin DOMAIN Grammar \cup {"leaf"}
    BY <1>1, PartOfChild, Meanings DEF Unqualified
<1>3. /\ Top \in Frame /\ Top.at = "EXPEDIALAS" /\ next \in DOMAIN t.part /\ next \in Nat
      /\ Passes(Upcoming)
    BY <1>1, OpeningEvent
<1>4. p \in 1 .. next - 1 /\ t.parent[next] = p /\ t.part[p] = Top.at /\ Fits(Top, t, Kids(p), Done(p))
    BY <1>1, OpeningScene
<1>5. t.part[next] = "instructions"
    BY <1>2 DEF PartOf
<1>6. "instructions" \notin Range(Blocks) \cup {"MELLEKLETEK"}
    BY BlockNames
<1> HIDE DEF t, p
<1>7. f.at = "EXPEDIALAS" /\ DispatchFits(f, t, Kids(p) \cup {next}, Done(p))
    <2>1. DispatchFits(Top, t, Kids(p), Done(p))
        BY <1>3, <1>4 DEF Fits
    <2> QED BY <1>3, <1>5, <2>1, FitsNoted
<1> HIDE DEF f
<1>8. Fits(f, t, Kids(p) \cup {next}, Done(p))
    BY <1>7 DEF Fits
<1>9. PlaceFaults(t, next) = {}
    BY <1>3, <1>4, <1>5, <1>6, PlaceFaultsAre
<1>10. Pushes(f, SkipCall)
    BY <1>1, <1>2, <1>3, <1>7, NotePushes
<1>11. Fits(SkipCall, t, {}, {})
    BY FreshFits
<1> QED BY <1>1, <1>3, <1>8, <1>9, <1>10, <1>11, KeptPushed DEF t, p

LEMMA OpenAttachmentsKeeps == ASSUME Standing, Kept, OpenAttachments PROVE KeepsOn \/ RefusesWell
<1> DEFINE f == [Top EXCEPT !.present = TRUE]
           c == ListCall("MELLEKLETEK")
           t == Tree(document)
           p == Outer
<1>1. /\ Opening({"EXPEDIALAS"}) /\ Names("MELLEKLETEK") /\ c.at = "MELLEKLETEK"
    BY DEF OpenAttachments, ListCall
<1>2. /\ Reading /\ Top \in Frame /\ Top.at = "EXPEDIALAS" /\ next \in DOMAIN t.part /\ next \in Nat
      /\ Passes(Upcoming) /\ next \in 1 .. Len(document) /\ Shown = next /\ IsOpen(t.event[next])
    BY <1>1, OpeningEvent
<1>3. /\ p \in 1 .. next - 1 /\ t.parent[next] = p /\ t.part[p] = Top.at
      /\ Fits(Top, t, Kids(p), Done(p)) /\ t.part[next] = Part(Top.at, Upcoming)
    BY <1>1, OpeningScene
<1> HIDE DEF t, p
<1>4. t.part[next] = "MELLEKLETEK"
    BY <1>1, <1>2, <1>3, Meanings DEF Names
<1>5. DispatchFits(Top, t, Kids(p), Done(p))
    BY <1>2, <1>3 DEF Fits
<1>6. Twins(t, next) # {} <=> Top.present
    <2>1. Twins(t, next) = Kids(p) \cap At(t, "MELLEKLETEK")
        BY <1>1, <1>3, <1>4, TwinsOpening DEF t
    <2>2. Top.present <=> Kids(p) \cap At(t, "MELLEKLETEK") # {}
        BY <1>5 DEF DispatchFits
    <2> QED BY <2>1, <2>2
<1>7. PlaceFaults(t, next) = IF Top.present THEN {"malformed.duplicate_element"} ELSE {}
    <2>1. "MELLEKLETEK" \notin Range(Blocks)
        BY BlockNames
    <2> QED BY <1>2, <1>3, <1>4, <1>6, <2>1, PlaceFaultsAre
<1>8. CASE Top.present
    <2>1. Refuse("malformed.duplicate_element", Present("MELLEKLETEK"))
        BY <1>8 DEF OpenAttachments
    <2>2. "malformed.duplicate_element" \in FaultsAt(t, next)
        BY <1>2, <1>7, <1>8, FaultShown
    <2> QED BY <1>2, <2>1, <2>2, RefusedWell DEF t
<1>9. CASE ~Top.present
    <2>1. Opened /\ document' = document /\ stack' = Append(Front(stack), f) \o <<c>>
        BY <1>9 DEF OpenAttachments
    <2>2. f.at = "EXPEDIALAS" /\ DispatchFits(f, t, Kids(p) \cup {next}, Done(p))
        BY <1>2, <1>4, <1>5, FitsNoted
    <2> HIDE DEF f, c
    <2>3. Fits(f, t, Kids(p) \cup {next}, Done(p))
        BY <2>2 DEF Fits
    <2>4. PartOf(next) = "MELLEKLETEK"
        BY <1>4 DEF PartOf, t
    <2>5. Pushes(f, c)
        BY <1>1, <1>2, <2>1, <2>2, <2>4, NotePushes
    <2>6. Fits(c, t, {}, {})
        BY FreshFits DEF c
    <2>10. outcome' = outcome
        BY <1>9 DEF OpenAttachments
    <2> QED BY <1>1, <1>2, <1>7, <1>9, <2>3, <2>5, <2>6, <2>10, KeptPushed DEF KeepsOn, t, p
<1> QED BY <1>8, <1>9

\* A later block stands before the next element exactly when a later position
\* was seen in the same element: there is one root only.
LEMMA LateOpening ==
    ASSUME Standing, Kept, Opening({"KULDEMENY"}), NEW t, t = Tree(document), NEW p, p = Outer,
           NEW position \in DOMAIN Blocks, t.part[next] = Blocks[position]
    PROVE  /\ Late(t, next) =>
                \E k \in DOMAIN Blocks : k > position /\ Kids(p) \cap At(t, Blocks[k]) # {}
           /\ \A k \in DOMAIN Blocks :
                k > position /\ Kids(p) \cap At(t, Blocks[k]) # {} => Late(t, next)
<1>1. /\ Reading /\ document \in Seq(Event) /\ next \in 1 .. Len(document) /\ next \in Nat
      /\ Len(document) \in Nat
    BY OpeningEvent
<1>2. /\ p \in 1 .. next - 1 /\ t.parent[next] = p /\ t.part[p] = "KULDEMENY"
    <2>1. p \in 1 .. next - 1 /\ t.parent[next] = p /\ t.part[p] = Top.at
        BY OpeningScene
    <2>2. Top.at \in {"KULDEMENY"}
        BY OpeningEvent
    <2> QED BY <2>1, <2>2
<1>3. Place(t.part[next]) = position
    BY PlaceIs
<1>4. \A q \in 1 .. next - 1 : t.part[q] = "KULDEMENY" => q = Entered(1)
    <2> SUFFICES ASSUME NEW q \in 1 .. next - 1, t.part[q] = "KULDEMENY" PROVE q = Entered(1)
        OBVIOUS
    <2>1. q \in 1 .. Len(document)
        BY <1>1
    <2>2. /\ t.part[q] # "none" <=> IsOpen(document[q])
          /\ t.part[q] = "KULDEMENY" => t.parent[q] = 0
        BY <1>1, <2>1, PartMeans
    <2>3. Settled(q)
        BY <1>1, <2>2 DEF Kept, Chained
    <2> QED BY <2>2, <2>3 DEF Settled
<1>5. ASSUME Late(t, next)
      PROVE  \E k \in DOMAIN Blocks : k > position /\ Kids(p) \cap At(t, Blocks[k]) # {}
    <2>1. PICK j \in 1 .. next - 1 : t.part[j] \in Range(Blocks) /\ Place(t.part[j]) > position
        BY <1>3, <1>5 DEF Late
    <2>2. PICK k \in DOMAIN Blocks : t.part[j] = Blocks[k]
        BY <2>1 DEF Range
    <2>3. k > position
        BY <2>1, <2>2, PlaceIs
    <2>4. j \in 1 .. Len(document)
        BY <1>1
    <2> DEFINE q == t.parent[j]
    <2>5. /\ DOMAIN t.part = 1 .. Len(document) /\ IsOpen(document[j])
          /\ q # 0 /\ t.part[q] = "KULDEMENY"
        <3>1. /\ DOMAIN t.part = 1 .. Len(document)
              /\ t.part[j] # "none" <=> IsOpen(document[j])
              /\ t.part[j] \in Range(Blocks) => q # 0 /\ t.part[q] = "KULDEMENY"
            BY <1>1, <2>4, PartMeans
        <3> QED BY <2>1, <3>1, BlockNames
    <2>6. q \in 0 .. j - 1
        BY <1>1, <2>4, ParentIs
    <2>7. q \in 1 .. next - 1
        BY <1>1, <2>5, <2>6
    <2>8. q = p
        BY <1>2, <1>4, <2>5, <2>7
    <2> HIDE DEF q
    <2>9. j \in Kids(p)
        <3>1. j \in p + 1 .. next - 1
            BY <1>1, <2>6, <2>8
        <3> QED BY <2>5, <2>8, <3>1 DEF Kids, q
    <2>10. j \in At(t, Blocks[k])
        BY <2>2, <2>4, <2>5 DEF At
    <2> QED BY <2>3, <2>9, <2>10
<1>6. ASSUME NEW k \in DOMAIN Blocks, k > position, NEW j \in Kids(p) \cap At(t, Blocks[k])
      PROVE  Late(t, next)
    <2>1. j \in 1 .. next - 1 /\ t.part[j] = Blocks[k]
        BY <1>1, <1>2 DEF Kids, At
    <2>2. Place(t.part[j]) = k /\ t.part[j] \in Range(Blocks)
        BY <2>1, PlaceIs DEF Range
    <2> QED BY <1>3, <1>6, <2>1, <2>2 DEF Late
<1> QED BY <1>5, <1>6

LEMMA OpenBlockKeeps ==
    ASSUME Standing, Kept, NEW position \in DOMAIN Blocks, OpenBlock(position)
    PROVE  KeepsOn \/ RefusesWell
<1> DEFINE field == Blocks[position]
           accepted == [Top EXCEPT
              !.seen = @ \cup {position}, !.reached = position,
              !.receipt = @ \/ field = "ERKEZTETES", !.openings = @ \/ field = "BONTASOK",
              !.returned = @ \/ field = "TERTIVEVENY"]
           callee == CASE field = "FEJRESZ" -> SlotsCall(field)
                       [] field = "EXPEDIALASOK" -> ListCall(field)
                       [] OTHER -> SkipCall
           t == Tree(document)
           p == Outer
<1>1. Opening({"KULDEMENY"}) /\ Names(field)
    BY DEF OpenBlock
<1>2. /\ Reading /\ Top \in Frame /\ Top.at = "KULDEMENY" /\ next \in DOMAIN t.part /\ next \in Nat
      /\ Passes(Upcoming) /\ next \in 1 .. Len(document) /\ Shown = next /\ IsOpen(t.event[next])
    BY <1>1, OpeningEvent
<1>3. /\ p \in 1 .. next - 1 /\ t.parent[next] = p /\ t.part[p] = Top.at
      /\ Fits(Top, t, Kids(p), Done(p)) /\ t.part[next] = Part(Top.at, Upcoming)
    BY <1>1, OpeningScene
<1> HIDE DEF t, p
<1>4. field \in Range(Blocks) /\ position \in 1 .. 5
    BY BlockNames DEF Range
<1>5. t.part[next] = field
    BY <1>1, <1>2, <1>3, <1>4, Meanings DEF Names
<1>6. ConsignmentFits(Top, t, Kids(p), Done(p))
    BY <1>2, <1>3 DEF Fits
<1>7. /\ \A k : k \in Top.seen <=> k \in DOMAIN Blocks /\ Kids(p) \cap At(t, Blocks[k]) # {}
      /\ \A k \in Top.seen : k <= Top.reached
      /\ Top.reached \in Top.seen \cup {1} /\ Top.reached \in DOMAIN Blocks
    <2>1. Top.seen = {k \in DOMAIN Blocks : Kids(p) \cap At(t, Blocks[k]) # {}}
        BY <1>6 DEF ConsignmentFits
    <2>2. \A k \in Top.seen : k <= Top.reached
        BY <1>6 DEF ConsignmentFits
    <2>3. Top.reached \in Top.seen \cup {1}
        BY <1>6 DEF ConsignmentFits
    <2>4. Top.reached \in DOMAIN Blocks
        BY <1>2, FrameOf DEF ConsignmentFrame
    <2> QED BY <2>1, <2>2, <2>3, <2>4
<1>8. Twins(t, next) # {} <=> position \in Top.seen
    <2>1. Twins(t, next) = Kids(p) \cap At(t, field)
        BY <1>1, <1>3, <1>4, <1>5, TwinsOpening DEF t
    <2> QED BY <1>7, <2>1
<1>9. Late(t, next) <=> position < Top.reached
    <2>1. ASSUME Late(t, next) PROVE position < Top.reached
        <3>1. PICK k \in DOMAIN Blocks : k > position /\ Kids(p) \cap At(t, Blocks[k]) # {}
            BY <1>1, <1>5, <2>1, LateOpening DEF t, p
        <3>2. k <= Top.reached
            BY <1>7, <3>1
        <3>3. k \in 1 .. 5 /\ Top.reached \in 1 .. 5
            BY <1>7, BlockNames
        <3> QED BY <1>4, <3>1, <3>2, <3>3
    <2>2. ASSUME position < Top.reached PROVE Late(t, next)
        <3>1. Top.reached \in 1 .. 5
            BY <1>7, BlockNames
        <3>2. Top.reached \in Top.seen
            BY <1>4, <1>7, <2>2, <3>1
        <3>3. Kids(p) \cap At(t, Blocks[Top.reached]) # {}
            BY <1>7, <3>2
        <3> QED BY <1>1, <1>4, <1>5, <1>7, <2>2, <3>1, <3>3, LateOpening DEF t, p
    <2> QED BY <2>1, <2>2
<1>10. PlaceFaults(t, next) =
            IF position \in Top.seen THEN {"malformed.duplicate_element"}
            ELSE IF position < Top.reached THEN {"malformed.element_order"} ELSE {}
    <2>1. p # 0 /\ t.part[p] # "leaf" /\ t.part[next] \in Range(Blocks) \cup {"MELLEKLETEK"}
        BY <1>2, <1>3, <1>4, <1>5
    <2>2. PlaceFaults(t, next) =
                    IF Twins(t, next) # {} THEN {"malformed.duplicate_element"}
                    ELSE IF t.part[next] \in Range(Blocks) /\ Late(t, next) THEN {"malformed.element_order"}
                         ELSE {}
        BY <1>2, <1>3, <2>1, PlaceFaultsAre
    <2> HIDE DEF field
    <2> QED BY <1>4, <1>5, <1>8, <1>9, <2>2
<1>11. CASE position \in Top.seen
    <2>1. Refuse("malformed.duplicate_element", Present(field))
        BY <1>11 DEF OpenBlock
    <2>2. "malformed.duplicate_element" \in FaultsAt(t, next)
        BY <1>2, <1>10, <1>11, FaultShown
    <2> HIDE DEF field
    <2> QED BY <1>2, <2>1, <2>2, RefusedWell DEF t
<1>12. CASE position \notin Top.seen /\ position < Top.reached
    <2>1. Refuse("malformed.element_order", Present(field))
        BY <1>12 DEF OpenBlock
    <2>2. "malformed.element_order" \in FaultsAt(t, next)
        BY <1>2, <1>10, <1>12, FaultShown
    <2> HIDE DEF field
    <2> QED BY <1>2, <2>1, <2>2, RefusedWell DEF t
<1>13. CASE position \notin Top.seen /\ ~(position < Top.reached)
    <2>1. Opened /\ document' = document /\ stack' = Append(Front(stack), accepted) \o <<callee>>
        BY <1>13 DEF OpenBlock
    <2>2. accepted.at = "KULDEMENY" /\ ConsignmentFits(accepted, t, Kids(p) \cup {next}, Done(p))
        <3>1. accepted = Accepted(Top, position)
            BY DEF Accepted
        <3>2. t.part[next] = Blocks[position]
            BY <1>5
        <3> HIDE DEF accepted, field
        <3>3. PICK K : K = Kids(p) OBVIOUS
        <3>4. PICK D : D = Done(p) OBVIOUS
        <3>5. PICK F : F = Top OBVIOUS
        <3>6. F \in Frame /\ F.at = "KULDEMENY" /\ position \notin F.seen /\ ~(position < F.reached)
            BY <1>2, <1>13, <3>5
        <3>7. ConsignmentFits(F, t, K, D)
            BY <1>6, <3>3, <3>4, <3>5
        <3>8. accepted = Accepted(F, position)
            BY <3>1, <3>5
        <3>9. next \in DOMAIN t.part
            BY <1>2
        <3>10. accepted.at = "KULDEMENY" /\ ConsignmentFits(accepted, t, K \cup {next}, D)
            BY <3>2, <3>6, <3>7, <3>8, <3>9, FitsBlock
        <3> QED BY <3>3, <3>4, <3>10
    <2>3. callee = IF field = "FEJRESZ" THEN SlotsCall(field)
                   ELSE IF field = "EXPEDIALASOK" THEN ListCall(field) ELSE SkipCall
        OBVIOUS
    <2>4. callee.at = IF field \in {"FEJRESZ", "EXPEDIALASOK"} THEN field ELSE "skip"
        BY DEF SlotsCall, ListCall, SkipCall
    <2> HIDE DEF field, callee, accepted
    <2>5. PartOf(next) = field
        BY <1>5 DEF PartOf, t
    <2>6. /\ callee.at # "skip" => PartOf(next) = callee.at
          /\ callee.at = "skip" => PartOf(next) \notin DOMAIN Grammar \cup {"leaf"}
          /\ callee.at \notin {"document", "leaf"}
        BY <1>4, <2>4, <2>5, BlockNames, Meanings
    <2>7. Fits(callee, t, {}, {})
        BY <2>3, FreshFits
    <2>8. Fits(accepted, t, Kids(p) \cup {next}, Done(p))
        BY <2>2 DEF Fits
    <2>9. Pushes(accepted, callee)
        BY <1>1, <1>2, <2>1, <2>2, <2>6, NotePushes
    <2>10. outcome' = outcome
        BY <1>13 DEF OpenBlock
    <2> QED BY <1>2, <1>10, <1>13, <2>6, <2>7, <2>8, <2>9, <2>10, KeptPushed DEF KeepsOn, t, p
<1> QED BY <1>11, <1>12, <1>13

-----------------------------------------------------------------------------
(* An element closes.                                                      *)

\* What is shown closes the innermost element, whose children are all closed.
LEMMA ClosingEvent ==
    ASSUME Standing, Kept, Closing, Top.at # "document",
           NEW t, t = Tree(document), NEW a, a = Entered(depth)
    PROVE  /\ Reading /\ document \in Seq(Event) /\ depth \in Nat \ {0} /\ Len(document) \in Nat
           /\ t.event = document /\ a \in 1 .. next - 1 /\ next \in Nat
           /\ a \in 1 .. Len(document) /\ a \in DOMAIN t.part /\ IsOpen(document[a])
           /\ t.close[a] = Shown /\ Shown \in 1 .. Len(document) /\ a \in 1 .. Shown
           /\ Kids(a) = Children(t, a) /\ Done(a) = Children(t, a)
<1>1. Reading
    BY DEF Closing
<1>2. /\ document \in Seq(Event) /\ next \in 1 .. Len(document) + 1 /\ next \in Nat \ {0}
      /\ Len(document) \in Nat /\ depth \in Nat /\ depth > 0 /\ pending \in BOOLEAN
    BY <1>1, Stand
<1>3. /\ a \in 1 .. next - 1 /\ IsOpen(document[a]) /\ t.close[a] = Shown
      /\ Shown \in 1 .. Len(document)
    BY ClosesInnermost DEF Kept
<1>4. a \in 1 .. Len(document) /\ depth \in Nat \ {0} /\ depth \in 1 .. depth
    BY <1>2, <1>3
<1>5. a \in DOMAIN t.part /\ t.event = document
    BY <1>2, <1>4, PartMeans, TreeIs
<1>6. t.close[a] >= a
    BY <1>2, <1>4, CloseIs
<1>7. a \in 1 .. Shown
    BY <1>2, <1>3, <1>6
<1>8. Kids(a) = Children(t, a)
    <2>1. CASE pending
        <3>1. a = next - 1 /\ Shown = next - 1
            BY <1>1, <2>1, ShownIs DEF Entered
        <3>2. Kids(a) = {}
            BY <1>2, <3>1 DEF Kids
        <3>3. Children(t, a) = {}
            BY <1>2, <1>3, <3>1 DEF Children
        <3> QED BY <3>2, <3>3
    <2>2. CASE ~pending
        <3>1. Shown = next
            BY <2>2 DEF Shown
        <3> QED BY <1>3, <1>5, <3>1 DEF Kids, Children
    <2> QED BY <2>1, <2>2
<1>9. Done(a) = Kids(a)
    <2> SUFFICES ASSUME NEW j \in Kids(a) PROVE t.close[j] < Shown
        BY DEF Done
    <2>1. j \in a + 1 .. next - 1 /\ IsOpen(document[j])
        BY DEF Kids
    <2>2. j \in 1 .. next - 1 /\ j > a
        BY <1>2, <1>3, <2>1
    <2>3. Settled(j)
        BY <1>1, <2>1, <2>2 DEF Kept, Chained
    <2>4. ASSUME NEW k \in 1 .. depth, j = Entered(k) PROVE FALSE
        <3>1. CASE k = depth
            BY <1>2, <1>3, <2>2, <2>4, <3>1
        <3>2. CASE k # depth
            <4>1. k \in 1 .. depth - 1
                BY <1>2, <3>2
            <4>2. Entered(k) < Entered(depth)
                BY <1>1, <1>4, <4>1, ChainGrows DEF Kept
            <4> QED BY <1>2, <1>3, <2>2, <2>4, <4>2
        <3> QED BY <3>1, <3>2
    <2> QED BY <2>3, <2>4 DEF Settled
<1> QED BY <1>1, <1>2, <1>3, <1>4, <1>5, <1>7, <1>8, <1>9

\* The element it is in: all its other children are closed and stand before it.
LEMMA ClosingChild ==
    ASSUME Standing, Kept, Closing, Top.at # "document", depth > 1,
           NEW t, t = Tree(document), NEW a, a = Entered(depth), NEW p, p = Entered(depth - 1)
    PROVE  /\ t.parent[a] = p /\ p \in 1 .. a - 1 /\ IsOpen(document[p])
           /\ Behind(Done(p), a)
           /\ \A j : j \in Done(p) <=> j \in 1 .. a - 1 /\ IsOpen(document[j]) /\ t.parent[j] = p
<1>1. /\ Reading /\ document \in Seq(Event) /\ depth \in Nat \ {0} /\ Len(document) \in Nat
      /\ t.event = document /\ a \in 1 .. next - 1 /\ next \in Nat
      /\ a \in 1 .. Len(document) /\ t.close[a] = Shown /\ Shown \in 1 .. Len(document)
    BY ClosingEvent
<1>2. depth \in 1 .. depth /\ depth - 1 \in 1 .. depth /\ depth # 1 /\ depth - 1 \in 1 .. depth - 1
    BY <1>1
<1>3. InChain(depth) /\ InChain(depth - 1)
    BY <1>1, <1>2 DEF Kept, Chained
<1>4. t.parent[a] = p /\ \A j \in Kids(p) : j <= a
    BY <1>2, <1>3 DEF InChain
<1>5. p \in 1 .. next - 1 /\ IsOpen(document[p])
    BY <1>3 DEF InChain
<1>6. p < a
    BY <1>1, <1>2, ChainGrows DEF Kept
<1>7. p \in 1 .. a - 1
    BY <1>1, <1>5, <1>6
<1>8. ASSUME NEW j \in Done(p)
      PROVE  j \in 1 .. a - 1 /\ IsOpen(document[j]) /\ t.parent[j] = p
    <2>1. j \in Kids(p) /\ t.close[j] < Shown
        BY <1>8 DEF Done
    <2>2. j \in p + 1 .. next - 1 /\ IsOpen(document[j]) /\ t.parent[j] = p /\ j <= a
        BY <1>4, <2>1 DEF Kids
    <2>3. j # a
        BY <1>1, <2>1
    <2> QED BY <1>1, <1>5, <2>2, <2>3
<1>9. ASSUME NEW j \in 1 .. a - 1, IsOpen(document[j]), t.parent[j] = p
      PROVE  j \in Done(p)
    <2>1. j \in 1 .. Len(document) /\ j \in 1 .. next - 1
        BY <1>1
    <2>2. t.parent[j] \in 0 .. j - 1
        BY <1>1, <2>1, ParentIs
    <2>3. j \in p + 1 .. next - 1
        BY <1>1, <1>5, <1>9, <2>1, <2>2
    <2>4. j \in Kids(p)
        BY <1>9, <2>3 DEF Kids
    <2>5. Settled(j)
        BY <1>1, <1>9, <2>1 DEF Kept, Chained
    <2>6. ASSUME NEW k \in 1 .. depth, j = Entered(k) PROVE FALSE
        <3>1. CASE k = depth
            BY <1>1, <1>9, <2>6, <3>1
        <3>2. CASE k = depth - 1
            BY <1>1, <1>5, <2>3, <2>6, <3>2
        <3>3. CASE k # depth /\ k # depth - 1
            <4>1. k \in 1 .. (depth - 1) - 1
                BY <1>1, <3>3
            <4>2. Entered(k) < Entered(depth - 1)
                BY <1>1, <1>2, <4>1, ChainGrows DEF Kept
            <4> QED BY <1>1, <1>5, <2>3, <2>6, <4>2
        <3> QED BY <3>1, <3>2, <3>3
    <2>7. t.close[j] < Shown
        BY <2>5, <2>6 DEF Settled
    <2> QED BY <2>4, <2>7 DEF Done
<1>10. Behind(Done(p), a)
    <2>1. Done(p) \subseteq 1 .. a - 1
        BY <1>8
    <2>2. IsFiniteSet(1 .. a - 1)
        BY <1>1, FS_Interval
    <2>3. IsFiniteSet(Done(p))
        BY <2>1, <2>2, FS_Subset
    <2>4. \A j \in Done(p) : j \in Nat /\ j < a
        BY <1>1, <2>1
    <2> QED BY <1>1, <2>1, <2>3, <2>4 DEF Behind
<1> QED BY <1>4, <1>5, <1>7, <1>8, <1>9, <1>10

\* The call that ends reads its element, and its caller the one that is in.
LEMMA ClosingScene ==
    ASSUME Standing, Kept, NEW calls, Closing, InCall(calls), "document" \notin calls,
           "skip" \notin calls,
           NEW t, t = Tree(document), NEW a, a = Entered(depth)
    PROVE  /\ Top.at \in calls /\ Top \in Frame /\ depth = Len(stack) - 1 /\ t.part[a] = Top.at
           /\ Fits(Top, t, Children(t, a), Children(t, a))
           /\ Top.at = "leaf" => /\ document[a].name = Top.field /\ document[a].binding = "target"
                                 /\ Content(t, a) = Trim(Top.text)
<1>1. Top.at \in calls /\ Top.at \notin {"document", "skip"}
    BY DEF InCall
<1>2. /\ Reading /\ document \in Seq(Event) /\ depth \in Nat \ {0} /\ next \in Nat
      /\ a \in 1 .. next - 1 /\ t.event = document /\ t.close[a] = Shown
      /\ Kids(a) = Children(t, a) /\ Done(a) = Children(t, a)
    BY <1>1, ClosingEvent
<1>3. Len(stack) \in Nat \ {0} /\ depth = Len(stack) - 1 /\ Top = stack[Len(stack)] /\ Top \in Frame
    BY <1>1, <1>2, Stand, TypedCalls DEF Standing, Typed, Top
<1>4. depth \in 1 .. depth /\ depth < Len(stack) /\ depth + 1 = Len(stack) /\ depth \in 1 .. Len(stack) - 1
    <2>1. PICK n : n = Len(stack) /\ n \in Nat \ {0} /\ depth = n - 1
        BY <1>3
    <2>2. depth \in Nat \ {0}
        BY <1>2
    <2>3. depth \in 1 .. depth /\ depth < n /\ depth + 1 = n /\ depth \in 1 .. n - 1
        BY <2>1, <2>2
    <2> QED BY <2>1, <2>3
<1>5. t.part[a] = Top.at
    <2>1. Suits(stack, depth, PartOf(a))
        BY <1>2, <1>4 DEF Kept, Suited
    <2> QED BY <1>1, <1>3, <1>4, <2>1 DEF Suits, PartOf
<1>6. Fits(Top, t, Kids(a), Done(a))
    <2>1. Fits(stack[depth + 1], Tree(document), Kids(Entered(depth)), Done(Entered(depth)))
        BY <1>2, <1>4 DEF Kept, Filled
    <2> QED BY <1>3, <1>4, <2>1
<1>7. ASSUME Top.at = "leaf"
      PROVE  /\ document[a].name = Top.field /\ document[a].binding = "target"
             /\ Content(t, a) = Trim(Top.text)
    <2>1. /\ document[a].name = Top.field /\ document[a].binding = "target"
          /\ Top.text = Spoken(document, a, next)
        BY <1>2, <1>7 DEF Kept, Filled
    <2>2. Content(t, a) = Trim(Spoken(document, a, Shown))
        BY <1>2 DEF Content, Spoken
    <2>3. Spoken(document, a, Shown) = Spoken(document, a, next)
        <3>1. CASE pending
            <4>1. a = next - 1 /\ Shown = next - 1
                BY <1>2, <3>1, ShownIs DEF Entered
            <4>2. Shown = a /\ next = a + 1 /\ a \in Nat
                BY <1>2, <4>1
            <4> QED BY <4>2, NoneSpoken
        <3>2. CASE ~pending
            BY <3>2 DEF Shown
        <3> QED BY <3>1, <3>2
    <2> QED BY <2>1, <2>2, <2>3
<1> QED BY <1>1, <1>2, <1>3, <1>5, <1>6, <1>7

LEMMA ClosingCaller ==
    ASSUME Standing, Kept, Closing, Top.at # "document", depth = Len(stack) - 1, depth > 1,
           NEW t, t = Tree(document), NEW p, p = Entered(depth - 1)
    PROVE  /\ Caller \in Frame /\ Caller.at \notin {"document", "skip"}
           /\ t.part[p] = Caller.at /\ Fits(Caller, t, Kids(p), Done(p))
<1>1. /\ Reading /\ depth \in Nat \ {0}
    BY ClosingEvent
<1>2. /\ Len(stack) \in Nat \ {0} /\ \A i \in 1 .. Len(stack) - 1 : stack[i].at # "skip"
      /\ Caller = stack[Len(stack) - 1] /\ Caller \in Frame
    <2>1. Caller \in Frame
        BY TypedCalls DEF Standing, Typed
    <2> QED BY <1>1, <2>1, OnlyLastSkips DEF Caller
<1>3. /\ depth - 1 \in 1 .. depth /\ depth - 1 < Len(stack) /\ (depth - 1) + 1 = Len(stack) - 1
      /\ depth - 1 \in 1 .. Len(stack) - 1 /\ Len(stack) - 1 \in 1 .. Len(stack) - 1
      /\ Len(stack) - 1 \in 2 .. Len(stack)
    BY <1>1, <1>2
<1>4. Caller.at # "skip"
    BY <1>2, <1>3
<1>5. t.part[p] = Caller.at
    <2>1. Suits(stack, depth - 1, PartOf(p))
        BY <1>1, <1>3 DEF Kept, Suited
    <2> QED BY <1>2, <1>3, <1>4, <2>1 DEF Suits, PartOf
<1>6. Fits(Caller, t, Kids(p), Done(p))
    <2>1. Fits(stack[(depth - 1) + 1], Tree(document), Kids(Entered(depth - 1)), Done(Entered(depth - 1)))
        BY <1>1, <1>3 DEF Kept, Filled
    <2> QED BY <1>2, <1>3, <2>1
<1>7. Caller.at # "document"
    <2>1. TypedStack(stack)
        BY DEF Standing, Typed
    <2>2. stack[Len(stack) - 1].at \in Callees(stack[(Len(stack) - 1) - 1].at)
        BY <1>3, <2>1 DEF TypedStack
    <2>3. \A at : "document" \notin Callees(at)
        BY DEF Callees
    <2> QED BY <1>2, <2>2, <2>3
<1> QED BY <1>2, <1>4, <1>5, <1>6, <1>7

\* A call that is not the root's is two elements deep.
LEMMA ClosingDeep ==
    ASSUME Standing, Closing, Top.at \notin {"document", "skip", "KULDEMENY"}
    PROVE  depth > 1 /\ depth = Len(stack) - 1
<1>1. Reading
    BY DEF Closing
<1>2. PICK n : n = Len(stack) /\ n \in Nat \ {0} /\ depth = n - 1 /\ n > 1
    BY <1>1, Stand
<1>3. /\ stack[1].at = "document" /\ Top.at \in Callees(Caller.at) /\ Caller = stack[n - 1]
    BY <1>1, <1>2, TypedCalls DEF Standing, Typed, TypedStack, Caller
<1>4. Caller.at # "document"
    BY <1>3 DEF Callees
<1>5. n # 2
    BY <1>3, <1>4
<1> QED BY <1>2, <1>5

LEMMA ReturnPops ==
    ASSUME Standing, Closing, Top.at \notin {"document", "skip", "KULDEMENY"}, Caller.at # "document",
           NEW f, f.at = Caller.at, ClosedWith(f)
    PROVE  Pops(f)
<1>1. Reading /\ depth > 1 /\ depth = Len(stack) - 1
    BY ClosingDeep DEF Closing
<1>2. /\ Closed /\ stack' = [Front(stack) EXCEPT ![Len(stack) - 1] = f]
      /\ document' = document
    BY DEF ClosedWith, Return
<1>3. TypedStack(stack) /\ Len(stack) > 1 /\ Caller = stack[Len(stack) - 1] /\ Len(stack) \in Nat
    BY TypedCalls DEF Standing, Typed, Caller
<1>4. /\ TypedStack(Front(stack)) /\ Len(Front(stack)) = Len(stack) - 1
      /\ \A i \in 1 .. Len(stack) - 1 : Front(stack)[i] = stack[i]
    BY <1>3, TypedFront
<1>5. PICK S : Front(stack) \in Seq(S) /\ f \in S
    <2>1. Front(stack) \in Seq(Frame)
        BY <1>4 DEF TypedStack
    <2>2. Front(stack) \in Seq(Frame \cup {f})
        BY <2>1
    <2> QED BY <2>2
<1>6. PICK u : u = Front(stack)
    OBVIOUS
<1>7. /\ Len(stack') = Len(stack) - 1
      /\ \A i \in 1 .. Len(stack) - 1 : stack'[i] = IF i = Len(stack) - 1 THEN f ELSE stack[i]
    <2>1. stack' = [u EXCEPT ![Len(u)] = f] /\ u \in Seq(S) /\ f \in S /\ Len(u) > 0
        <3>1. Len(u) = Len(stack) - 1 /\ u \in Seq(S) /\ f \in S
            BY <1>4, <1>5, <1>6
        <3>2. Len(u) > 0
            BY <1>3, <3>1
        <3>3. stack' = [u EXCEPT ![Len(u)] = f]
            BY <1>2, <1>6, <3>1
        <3> QED BY <3>1, <3>2, <3>3
    <2>2. /\ Len(stack') = Len(u)
          /\ \A i \in 1 .. Len(u) : stack'[i] = IF i = Len(u) THEN f ELSE u[i]
        BY <2>1, ReplacedLast
    <2> QED BY <1>4, <1>6, <2>2
<1>8. stack'[Len(stack) - 1] = f
    BY <1>3, <1>7
<1>9. SameUpTo(Len(stack) - 2)
    <2> SUFFICES ASSUME NEW i \in 1 .. Len(stack) - 2 PROVE stack'[i] = stack[i]
        BY DEF SameUpTo
    <2>1. i \in 1 .. Len(stack) - 1 /\ i # Len(stack) - 1
        BY <1>3
    <2> QED BY <1>7, <2>1
<1>10. CloseStep
    BY <1>2 DEF CloseStep
<1> QED BY <1>1, <1>7, <1>8, <1>9, <1>10 DEF Pops

\* The call returns, and what its element is noted as is what it says.
LEMMA KeptReturned ==
    ASSUME Standing, Kept, Closing, Top.at \notin {"document", "skip", "KULDEMENY"},
           Caller.at # "document", NEW f, f.at = Caller.at, ClosedWith(f),
           NEW t, t = Tree(document), NEW a, a = Entered(depth), NEW p, p = Entered(depth - 1),
           Fits(f, t, Kids(p), Done(p) \cup {a}), ValueFaults(t, a) = {}
    PROVE  Kept'
<1>1. Pops(f)
    BY ReturnPops
<1> QED BY <1>1, KeptPopped

LEMMA ClosingRefused ==
    ASSUME Standing, Kept, Closing, Top.at # "document",
           NEW t, t = Tree(document), NEW a, a = Entered(depth),
           NEW code, NEW about, Refuse(code, about), code \in ValueFaults(t, a)
    PROVE  RefusesWell
<1>1. /\ Reading /\ t.event = document /\ IsOpen(document[a])
      /\ t.close[a] = Shown /\ Shown \in 1 .. Len(document) /\ a \in 1 .. Shown
    BY ClosingEvent
<1>2. code \in FaultsAt(t, Shown)
    BY <1>1, FaultShown
<1> QED BY <1>1, <1>2, RefusedWell

\* What two children of one element have in common, by their part.
LEMMA SameName ==
    ASSUME NEW d \in Seq(Event), NEW t, t = Tree(d), NEW i \in 1 .. Len(d), NEW j \in 1 .. Len(d),
           t.part[i] = t.part[j], t.part[i] \in Range(Blocks) \cup {"MELLEKLETEK"}
    PROVE  d[i].name = d[j].name
<1>1. /\ t.part[i] \in Range(Blocks) => d[i].name = t.part[i]
      /\ t.part[i] = "MELLEKLETEK" => d[i].name = t.part[i]
    BY PartMeans
<1>2. /\ t.part[j] \in Range(Blocks) => d[j].name = t.part[j]
      /\ t.part[j] = "MELLEKLETEK" => d[j].name = t.part[j]
    BY PartMeans
<1> QED BY <1>1, <1>2

\* A block, and the attachments of a dispatch, are the first of their part.
LEMMA FirstOfItsPart ==
    ASSUME Standing, Kept, Closing, Top.at \notin {"document", "skip", "KULDEMENY"},
           Caller.at # "leaf", Caller.at # "document",
           NEW t, t = Tree(document), NEW a, a = Entered(depth), NEW p, p = Entered(depth - 1),
           NEW part, part = t.part[a], part \in Range(Blocks) \cup {"MELLEKLETEK"}
    PROVE  Done(p) \cap At(t, part) = {}
<1>1. depth > 1 /\ depth = Len(stack) - 1
    BY ClosingDeep
<1>2. /\ Reading /\ document \in Seq(Event) /\ t.event = document /\ a \in 1 .. next - 1
      /\ a \in 1 .. Len(document) /\ IsOpen(document[a]) /\ Len(document) \in Nat /\ next \in Nat
    BY ClosingEvent
<1>3. /\ t.parent[a] = p /\ p \in 1 .. a - 1
      /\ \A j : j \in Done(p) <=> j \in 1 .. a - 1 /\ IsOpen(document[j]) /\ t.parent[j] = p
    BY <1>1, ClosingChild
<1>4. t.part[p] = Caller.at
    BY <1>1, ClosingCaller
<1>5. PlaceFaults(t, a) = {}
    BY <1>2 DEF Kept, Clean
<1>6. Twins(t, a) = {}
    <2>1. p # 0 /\ t.part[p] # "leaf" /\ a \in Nat
        BY <1>2, <1>3, <1>4
    <2>2. PlaceFaults(t, a) =
                    IF Twins(t, a) # {} THEN {"malformed.duplicate_element"}
                    ELSE IF t.part[a] \in Range(Blocks) /\ Late(t, a) THEN {"malformed.element_order"}
                         ELSE {}
        BY <1>3, <2>1, PlaceFaultsAre
    <2> QED BY <1>5, <2>2
<1>7. ASSUME NEW j \in Done(p) \cap At(t, part) PROVE FALSE
    <2>1. j \in 1 .. a - 1 /\ t.parent[j] = p /\ t.part[j] = part
        BY <1>3, <1>7 DEF At
    <2>2. j \in 1 .. Len(document)
        BY <1>2, <2>1
    <2>3. document[j].name = document[a].name
        BY <1>2, <2>1, <2>2, SameName
    <2>4. j \in Twins(t, a)
        BY <1>2, <1>3, <2>1, <2>3 DEF Twins
    <2> QED BY <1>6, <2>4
<1> QED BY <1>7

\* Another leaf of its name, in the same element, is one that has closed.
LEMMA TwinsClosing ==
    ASSUME Standing, Kept, Closing, Top.at = "leaf",
           Caller.at \in {"FEJRESZ", "MELLEKLET", "EXPEDIALAS"},
           NEW t, t = Tree(document), NEW a, a = Entered(depth), NEW p, p = Entered(depth - 1),
           NEW name, name = document[a].name
    PROVE  /\ Twins(t, a) = {} <=> LeafOf(t, Done(p), name) = {}
           /\ t.part[p] = Caller.at /\ t.parent[a] = p /\ t.part[a] = "leaf"
           /\ Caller.at = "EXPEDIALAS" => name = "MELLEKLETEK_SZAMA"
           /\ Caller.at \in {"FEJRESZ", "MELLEKLET"} => name \in Field
           /\ t.event[a].name = name /\ t.event[a].binding = "target"
<1>1. depth > 1 /\ depth = Len(stack) - 1
    BY ClosingDeep
<1>2. /\ Reading /\ document \in Seq(Event) /\ t.event = document /\ a \in 1 .. next - 1
      /\ a \in 1 .. Len(document) /\ IsOpen(document[a]) /\ Len(document) \in Nat /\ next \in Nat
    BY ClosingEvent
<1>3. /\ t.parent[a] = p /\ p \in 1 .. a - 1
      /\ \A j : j \in Done(p) <=> j \in 1 .. a - 1 /\ IsOpen(document[j]) /\ t.parent[j] = p
    BY <1>1, ClosingChild
<1>4. t.part[p] = Caller.at
    BY <1>1, ClosingCaller
<1>5. t.part[a] = "leaf"
    BY <1>2, ClosingScene DEF InCall
<1>6. ASSUME NEW j \in 1 .. a - 1, t.parent[j] = p, IsOpen(document[j])
      PROVE  /\ Caller.at \in {"FEJRESZ", "MELLEKLET"} =>
                    (t.part[j] = "leaf" <=> document[j].binding = "target" /\ document[j].name \in Field)
             /\ Caller.at = "EXPEDIALAS" =>
                    (t.part[j] = "leaf" <=> document[j].binding = "target"
                                            /\ document[j].name = "MELLEKLETEK_SZAMA")
    <2>1. j \in 1 .. Len(document) /\ t.parent[j] # 0
        BY <1>2, <1>3, <1>6
    <2> DEFINE q == t.parent[j]
    <2>2. /\ t.part[q] \in {"FEJRESZ", "MELLEKLET"} /\ IsOpen(document[j]) /\ q # 0 =>
                 (t.part[j] = "leaf" <=> document[j].binding = "target" /\ document[j].name \in Field)
          /\ t.part[q] = "EXPEDIALAS" /\ IsOpen(document[j]) /\ q # 0 =>
                 (t.part[j] = "leaf" <=> document[j].binding = "target"
                                         /\ document[j].name = "MELLEKLETEK_SZAMA")
        BY <1>2, <2>1, PartMeans
    <2> QED BY <1>4, <1>6, <2>1, <2>2
<1>7. /\ document[a].binding = "target"
      /\ Caller.at \in {"FEJRESZ", "MELLEKLET"} => name \in Field
      /\ Caller.at = "EXPEDIALAS" => name = "MELLEKLETEK_SZAMA"
    <2>1. /\ document[a].binding = "target"
          /\ \/ t.part[p] \in {"FEJRESZ", "MELLEKLET"} /\ document[a].name \in Field
             \/ t.part[p] = "EXPEDIALAS" /\ document[a].name = "MELLEKLETEK_SZAMA"
        BY <1>2, <1>3, <1>5, PartMeans
    <2> QED BY <1>4, <2>1
<1>8. \A j \in 1 .. a - 1 : t.part[j] = "leaf" => IsOpen(document[j])
    <2> SUFFICES ASSUME NEW j \in 1 .. a - 1, t.part[j] = "leaf" PROVE IsOpen(document[j])
        OBVIOUS
    <2>1. j \in 1 .. Len(document)
        BY <1>2
    <2>2. t.part[j] # "none" <=> IsOpen(document[j])
        BY <1>2, <2>1, PartMeans
    <2> QED BY <2>2
<1>9. \A j : j \in Twins(t, a) <=>
                j \in Done(p) /\ t.event[j].name = name /\ t.event[j].binding = "target"
    <2>1. ASSUME NEW j \in Twins(t, a)
          PROVE  j \in Done(p) /\ t.event[j].name = name /\ t.event[j].binding = "target"
        <3>1. j \in 1 .. a - 1 /\ t.part[j] = "leaf" /\ t.parent[j] = p /\ document[j].name = name
            BY <1>2, <1>3, <1>5, <2>1 DEF Twins
        <3>2. IsOpen(document[j])
            BY <1>8, <3>1
        <3>3. document[j].binding = "target"
            BY <1>6, <3>1, <3>2
        <3> QED BY <1>2, <1>3, <3>1, <3>2, <3>3
    <2>2. ASSUME NEW j \in Done(p), t.event[j].name = name, t.event[j].binding = "target"
          PROVE  j \in Twins(t, a)
        <3>1. j \in 1 .. a - 1 /\ IsOpen(document[j]) /\ t.parent[j] = p
            BY <1>3, <2>2
        <3>2. t.part[j] = "leaf"
            BY <1>2, <1>6, <1>7, <2>2, <3>1
        <3> QED BY <1>2, <1>3, <1>5, <2>2, <3>1, <3>2 DEF Twins
    <2> QED BY <2>1, <2>2
<1>10. Twins(t, a) = {} <=> LeafOf(t, Done(p), name) = {}
    BY <1>9 DEF LeafOf
<1> QED BY <1>2, <1>3, <1>4, <1>5, <1>7, <1>10

LEMMA CloseSlotKeeps == ASSUME Standing, Kept, CloseSlot PROVE KeepsOn \/ RefusesWell
<1> DEFINE t == Tree(document)
           a == Entered(depth)
           p == Entered(depth - 1)
           v == Trim(Top.text)
           f == [Caller EXCEPT !.slots[Top.field] = Present(v)]
<1>1. /\ Closing /\ InCall({"leaf"}) /\ Top.at = "leaf" /\ Caller \in Frame
      /\ Caller.at \in {"FEJRESZ", "MELLEKLET"}
    BY ClosingLeaf DEF CloseSlot, Standing, InCall
<1>2. depth > 1 /\ depth = Len(stack) - 1
    BY <1>1, ClosingDeep
<1>3. /\ Top \in Frame /\ document[a].name = Top.field /\ document[a].binding = "target"
      /\ Content(t, a) = v
    BY <1>1, ClosingScene
<1>4. /\ t.part[p] = Caller.at /\ Fits(Caller, t, Kids(p), Done(p))
    BY <1>1, <1>2, ClosingCaller
<1> HIDE DEF t, a, p, v
<1>5. PICK name : name = document[a].name
    OBVIOUS
<1>6. /\ Twins(t, a) = {} <=> LeafOf(t, Done(p), name) = {}
      /\ t.parent[a] = p /\ t.part[a] = "leaf" /\ name \in Field
      /\ t.event[a].name = name /\ t.event[a].binding = "target"
    BY <1>1, <1>5, TwinsClosing DEF t, a, p
<1>7. SlotsFit(Caller, t, Done(p))
    BY <1>1, <1>4 DEF Fits
<1>8. Caller.slots[name] = LeafOf(t, Done(p), name) /\ name = Top.field
    BY <1>3, <1>5, <1>6, <1>7 DEF SlotsFit
<1>9. ValueFaults(t, a) = IF Caller.slots[name] = Absent THEN {} ELSE {"malformed.duplicate_element"}
    <2>1. ValueFaults(t, a) =
                (IF Twins(t, a) = {} THEN {} ELSE {"malformed.duplicate_element"})
                \cup (IF \/ t.part[t.parent[a]] # "EXPEDIALAS"
                         \/ Content(t, a) \in DOMAIN Numeral THEN {} ELSE {"malformed.integer"})
        BY <1>6, ValueFaultsAre
    <2>2. t.part[t.parent[a]] # "EXPEDIALAS"
        BY <1>1, <1>4, <1>6
    <2> QED BY <1>6, <1>8, <2>1, <2>2 DEF Absent
<1>10. CASE Caller.slots[Top.field] # Absent
    <2>1. Refuse("malformed.duplicate_element", Present(Top.field))
        BY <1>10 DEF CloseSlot
    <2>2. "malformed.duplicate_element" \in ValueFaults(t, a)
        BY <1>8, <1>9, <1>10
    <2>3. Top.at # "document"
        BY <1>1
    <2> QED BY <1>1, <2>1, <2>2, <2>3, ClosingRefused DEF t, a
<1>11. CASE Caller.slots[Top.field] = Absent
    <2>1. ClosedWith(f)
        BY <1>11 DEF CloseSlot, v
    <2>2. f = [Caller EXCEPT !.slots[name] = Present(v)]
        BY <1>8
    <2>3. /\ [Caller EXCEPT !.slots[name] = Present(v)].at = Caller.at
          /\ SlotsFit([Caller EXCEPT !.slots[name] = Present(v)], t, Done(p) \cup {a})
        BY <1>1, <1>3, <1>6, <1>7, <1>8, <1>11, FitsSlot
    <2>4. f.at = Caller.at /\ SlotsFit(f, t, Done(p) \cup {a})
        BY <2>2, <2>3
    <2> HIDE DEF f
    <2>5. Fits(f, t, Kids(p), Done(p) \cup {a})
        BY <1>1, <2>4 DEF Fits
    <2>6. ValueFaults(t, a) = {}
        BY <1>8, <1>9, <1>11
    <2>7. Top.at \notin {"document", "skip", "KULDEMENY"} /\ Caller.at # "document"
        BY <1>1
    <2>9. outcome' = outcome
        BY <2>1 DEF ClosedWith
    <2> QED BY <1>1, <2>1, <2>4, <2>5, <2>6, <2>7, <2>9, KeptReturned
           DEF KeepsOn, t, a, p
<1> QED BY <1>10, <1>11

LEMMA CloseCountKeeps == ASSUME Standing, Kept, CloseCount PROVE KeepsOn \/ RefusesWell
<1> DEFINE t == Tree(document)
           a == Entered(depth)
           p == Entered(depth - 1)
           v == Trim(Top.text)
           f == [Caller EXCEPT !.count = Present(Numeral[v])]
<1>1. /\ Closing /\ InCall({"leaf"}) /\ Top.at = "leaf" /\ Caller \in Frame
      /\ Caller.at = "EXPEDIALAS"
    BY ClosingLeaf DEF CloseCount, Standing, InCall
<1>2. depth > 1 /\ depth = Len(stack) - 1
    BY <1>1, ClosingDeep
<1>3. Content(t, a) = v
    BY <1>1, ClosingScene
<1>4. /\ t.part[p] = Caller.at /\ Fits(Caller, t, Kids(p), Done(p))
    BY <1>1, <1>2, ClosingCaller
<1>5. a \in DOMAIN t.part
    BY <1>1, ClosingEvent
<1> HIDE DEF t, a, p, v
<1>6. PICK name : name = document[a].name
    OBVIOUS
<1>7. /\ Twins(t, a) = {} <=> LeafOf(t, Done(p), name) = {}
      /\ t.parent[a] = p /\ t.part[a] = "leaf" /\ name = "MELLEKLETEK_SZAMA"
      /\ t.event[a].name = name /\ t.event[a].binding = "target"
    BY <1>1, <1>6, TwinsClosing DEF t, a, p
<1>8. DispatchFits(Caller, t, Kids(p), Done(p))
    BY <1>1, <1>4 DEF Fits
<1>9. Caller.count = Absent <=> Twins(t, a) = {}
    <2>1. Caller.count = {Numeral[c] : c \in LeafOf(t, Done(p), "MELLEKLETEK_SZAMA")}
        BY <1>8 DEF DispatchFits
    <2> QED BY <1>7, <2>1 DEF Absent
<1>10. ValueFaults(t, a) =
            (IF Caller.count = Absent THEN {} ELSE {"malformed.duplicate_element"})
            \cup (IF v \in DOMAIN Numeral THEN {} ELSE {"malformed.integer"})
    <2>1. ValueFaults(t, a) =
                (IF Twins(t, a) = {} THEN {} ELSE {"malformed.duplicate_element"})
                \cup (IF \/ t.part[t.parent[a]] # "EXPEDIALAS"
                         \/ Content(t, a) \in DOMAIN Numeral THEN {} ELSE {"malformed.integer"})
        BY <1>7, ValueFaultsAre
    <2>2. t.part[t.parent[a]] = "EXPEDIALAS"
        BY <1>1, <1>4, <1>7
    <2> QED BY <1>3, <1>9, <2>1, <2>2
<1>11. Top.at # "document"
    BY <1>1
<1>12. CASE Caller.count # Absent
    <2>1. Refuse("malformed.duplicate_element", Present(Top.field))
        BY <1>12 DEF CloseCount
    <2>2. "malformed.duplicate_element" \in ValueFaults(t, a)
        BY <1>10, <1>12
    <2> QED BY <1>1, <1>11, <2>1, <2>2, ClosingRefused DEF t, a
<1>13. CASE Caller.count = Absent /\ v \notin DOMAIN Numeral
    <2>1. Refuse("malformed.integer", Present(Top.field))
        BY <1>13 DEF CloseCount, v
    <2>2. "malformed.integer" \in ValueFaults(t, a)
        BY <1>10, <1>13
    <2> QED BY <1>1, <1>11, <2>1, <2>2, ClosingRefused DEF t, a
<1>14. CASE Caller.count = Absent /\ v \in DOMAIN Numeral
    <2>1. ClosedWith(f)
        BY <1>14 DEF CloseCount, v
    <2>2. v = Content(t, a)
        BY <1>3
    <2>3. f.at = Caller.at /\ DispatchFits(f, t, Kids(p), Done(p) \cup {a})
        BY <1>1, <1>5, <1>7, <1>8, <1>14, <2>2, FitsCount
    <2> HIDE DEF f
    <2>4. Fits(f, t, Kids(p), Done(p) \cup {a})
        BY <1>1, <2>3 DEF Fits
    <2>5. ValueFaults(t, a) = {}
        BY <1>10, <1>14
    <2>6. Top.at \notin {"document", "skip", "KULDEMENY"} /\ Caller.at # "document"
        BY <1>1
    <2>9. outcome' = outcome
        BY <2>1 DEF ClosedWith
    <2> QED BY <1>1, <2>1, <2>3, <2>4, <2>5, <2>6, <2>9, KeptReturned
           DEF KeepsOn, t, a, p
<1> QED BY <1>12, <1>13, <1>14

\* The first check that fails gives its code.
LEMMA RefusedFirst ==
    ASSUME Standing, Kept, Closing, Top.at # "document",
           NEW t, t = Tree(document), NEW a, a = Entered(depth),
           NEW checks, DOMAIN checks \subseteq Nat, Wrong(checks) # {}, RefuseFirst(checks),
           \A k \in Wrong(checks) : \A w \in checks[k] : w[1] \in ValueFaults(t, a)
    PROVE  RefusesWell
<1> DEFINE first == The(checks[Min(Wrong(checks))])
<1>1. Min(Wrong(checks)) \in Wrong(checks)
    <2>1. Wrong(checks) \subseteq Nat
        BY DEF Wrong
    <2> QED BY <2>1, MinIs
<1>2. first \in checks[Min(Wrong(checks))]
    <2>1. checks[Min(Wrong(checks))] # {}
        BY <1>1 DEF Wrong
    <2> QED BY <2>1 DEF The
<1>3. Refuse(first[1], Present(first[2]))
    BY DEF RefuseFirst
<1>4. first[1] \in ValueFaults(t, a)
    BY <1>1, <1>2
<1> HIDE DEF first
<1> QED BY <1>3, <1>4, ClosingRefused

LEMMA CloseHeaderKeeps == ASSUME Standing, Kept, CloseHeader PROVE KeepsOn \/ RefusesWell
<1> DEFINE t == Tree(document)
           a == Entered(depth)
           p == Entered(depth - 1)
           checks == HeaderChecks(Top.slots)
           v == IntoHeader(Top.slots)
           f == [Caller EXCEPT !.header = Present(v)]
<1>1. Closing /\ InCall({"FEJRESZ"}) /\ Top.at = "FEJRESZ"
    BY DEF CloseHeader, InCall
<1>2. Caller \in Frame /\ Caller.at = "KULDEMENY"
    <2>1. Caller \in Frame /\ Top.at \in Callees(Caller.at)
        BY <1>1, ClosingStands
    <2> QED BY <1>1, <2>1 DEF Callees
<1>3. depth > 1 /\ depth = Len(stack) - 1
    BY <1>1, ClosingDeep
<1>4. t.part[a] = "FEJRESZ" /\ Fits(Top, t, Children(t, a), Children(t, a))
    BY <1>1, ClosingScene
<1>5. /\ t.part[p] = Caller.at /\ Fits(Caller, t, Kids(p), Done(p))
    BY <1>1, <1>3, ClosingCaller
<1>6. a \in DOMAIN t.part
    BY <1>1, ClosingEvent
<1>7. Done(p) \cap At(t, "FEJRESZ") = {}
    BY <1>1, <1>2, <1>4, FirstOfItsPart, BlockNames
<1> HIDE DEF t, a, p
<1>8. SlotsFit(Top, t, Children(t, a))
    BY <1>1, <1>4 DEF Fits
<1>9. /\ Wrong(checks) = {} => ValueFaults(t, a) = {} /\ v = HeaderAt(t, a)
      /\ \A k \in Wrong(checks) : \A w \in checks[k] : w[1] \in ValueFaults(t, a)
    BY <1>4, <1>8, HeaderCloses
<1>10. CASE Wrong(checks) # {}
    <2>1. RefuseFirst(checks)
        BY <1>10 DEF CloseHeader
    <2>2. DOMAIN checks \subseteq Nat
        BY HeaderChecksTyped
    <2> HIDE DEF checks
    <2>3. Top.at # "document"
        BY <1>1
    <2> QED BY <1>1, <1>9, <1>10, <2>1, <2>2, <2>3, RefusedFirst DEF t, a
<1>11. CASE Wrong(checks) = {}
    <2>1. ClosedWith(f)
        BY <1>11 DEF CloseHeader
    <2> HIDE DEF checks, v
    <2>2. ConsignmentFits(Caller, t, Kids(p), Done(p))
        BY <1>2, <1>5 DEF Fits
    <2>3. f.at = Caller.at /\ ConsignmentFits(f, t, Kids(p), Done(p) \cup {a})
        BY <1>2, <1>4, <1>6, <1>7, <1>9, <1>11, <2>2, FitsHeader
    <2> HIDE DEF f
    <2>4. Fits(f, t, Kids(p), Done(p) \cup {a})
        BY <1>2, <2>3 DEF Fits
    <2>5. Top.at \notin {"document", "skip", "KULDEMENY"} /\ Caller.at # "document"
        BY <1>1, <1>2
    <2>9. outcome' = outcome
        BY <2>1 DEF ClosedWith
    <2> QED BY <1>1, <1>9, <1>11, <2>1, <2>3, <2>4, <2>5, <2>9, KeptReturned
           DEF KeepsOn, t, a, p
<1> QED BY <1>10, <1>11

LEMMA CloseAttachmentKeeps == ASSUME Standing, Kept, CloseAttachment PROVE KeepsOn \/ RefusesWell
<1> DEFINE t == Tree(document)
           a == Entered(depth)
           p == Entered(depth - 1)
           checks == AttachmentChecks(Top.slots)
           v == Append(Caller.list, IntoAttachment(Top.slots))
           f == [Caller EXCEPT !.list = v]
<1>1. Closing /\ InCall({"MELLEKLET"}) /\ Top.at = "MELLEKLET"
    BY DEF CloseAttachment, InCall
<1>2. Caller \in Frame /\ Caller.at = "MELLEKLETEK"
    <2>1. Caller \in Frame /\ Top.at \in Callees(Caller.at)
        BY <1>1, ClosingStands
    <2> QED BY <1>1, <2>1 DEF Callees
<1>3. depth > 1 /\ depth = Len(stack) - 1
    BY <1>1, ClosingDeep
<1>4. t.part[a] = "MELLEKLET" /\ Fits(Top, t, Children(t, a), Children(t, a))
    BY <1>1, ClosingScene
<1>5. /\ t.part[p] = Caller.at /\ Fits(Caller, t, Kids(p), Done(p))
    BY <1>1, <1>3, ClosingCaller
<1>6. a \in DOMAIN t.part
    BY <1>1, ClosingEvent
<1>7. Behind(Done(p), a)
    BY <1>1, <1>3, ClosingChild
<1> HIDE DEF t, a, p
<1>8. SlotsFit(Top, t, Children(t, a))
    BY <1>1, <1>4 DEF Fits
<1>9. /\ Wrong(checks) = {} => ValueFaults(t, a) = {} /\ IntoAttachment(Top.slots) = AttachmentAt(t, a)
      /\ \A k \in Wrong(checks) : \A w \in checks[k] : w[1] \in ValueFaults(t, a)
    BY <1>4, <1>8, AttachmentCloses
<1>10. CASE Wrong(checks) # {}
    <2>1. RefuseFirst(checks)
        BY <1>10 DEF CloseAttachment
    <2>2. DOMAIN checks \subseteq Nat
        BY AttachmentChecksTyped
    <2> HIDE DEF checks
    <2>3. Top.at # "document"
        BY <1>1
    <2> QED BY <1>1, <1>9, <1>10, <2>1, <2>2, <2>3, RefusedFirst DEF t, a
<1>11. CASE Wrong(checks) = {}
    <2>1. ClosedWith(f)
        BY <1>11 DEF CloseAttachment
    <2> HIDE DEF checks
    <2>2. Caller.list = AttachmentList(t, Done(p) \cap At(t, "MELLEKLET"))
        BY <1>2, <1>5 DEF Fits
    <2>3. v = Append(Caller.list, AttachmentAt(t, a))
        BY <1>9, <1>11
    <2> HIDE DEF v
    <2>4. f.at = Caller.at /\ f.list = AttachmentList(t, (Done(p) \cup {a}) \cap At(t, "MELLEKLET"))
        <3>1. f.at = Caller.at /\ f.list = v
            BY <1>2, FrameListed
        <3>2. PICK D : D = Done(p)
            OBVIOUS
        <3>3. Behind(D, a) /\ a \in DOMAIN t.part /\ t.part[a] = "MELLEKLET"
            BY <1>4, <1>6, <1>7, <3>2
        <3>4. Listed(t, D, a, "MELLEKLET")
            BY <3>3, FitsListed
        <3>5. AttachmentList(t, (D \cup {a}) \cap At(t, "MELLEKLET")) =
                    Append(AttachmentList(t, D \cap At(t, "MELLEKLET")), AttachmentAt(t, a))
            BY <3>4 DEF Listed
        <3> QED BY <2>2, <2>3, <3>1, <3>2, <3>5
    <2> HIDE DEF f
    <2>5. Fits(f, t, Kids(p), Done(p) \cup {a})
        BY <1>2, <2>4 DEF Fits
    <2>6. Top.at \notin {"document", "skip", "KULDEMENY"} /\ Caller.at # "document"
        BY <1>1, <1>2
    <2>9. outcome' = outcome
        BY <2>1 DEF ClosedWith
    <2> QED BY <1>1, <1>9, <1>11, <2>1, <2>4, <2>5, <2>6, <2>9, KeptReturned
           DEF KeepsOn, t, a, p
<1> QED BY <1>10, <1>11

\* The elements of a part in the one at a are children of it.
LEMMA UnderIs ==
    ASSUME NEW d \in Seq(Event), NEW t, t = Tree(d), NEW a, a # 0, NEW part, part # "none"
    PROVE  Under(t, {a}, part) = Children(t, a) \cap At(t, part)
<1>1. DOMAIN t.part = 1 .. Len(d) /\ t.event = d
    BY TreeParts, TreeIs
<1>2. ASSUME NEW j \in Under(t, {a}, part) PROVE j \in Children(t, a) \cap At(t, part)
    <2>1. j \in 1 .. Len(d) /\ t.part[j] = part /\ t.parent[j] = a /\ j \in At(t, part)
        BY <1>1, <1>2 DEF Under, At
    <2>2. PICK p, q : p = t.parent[j] /\ q = t.part[j]
        OBVIOUS
    <2>3. q # "none" <=> IsOpen(d[j])
        BY <2>1, <2>2, PartMeans
    <2>4. IsOpen(d[j])
        BY <2>1, <2>2, <2>3
    <2>5. a \in 1 .. j - 1 /\ j < t.close[a]
        BY <2>1, <2>4, ParentEncloses
    <2>6. a \in 1 .. Len(d)
        BY <2>1, <2>5
    <2>7. t.close[a] \in Nat
        BY <2>6, CloseIs
    <2>8. j \in a + 1 .. t.close[a] - 1
        BY <2>1, <2>5, <2>6, <2>7
    <2> QED BY <1>1, <2>1, <2>4, <2>8 DEF Children
<1>3. ASSUME NEW j \in Children(t, a) \cap At(t, part) PROVE j \in Under(t, {a}, part)
    BY <1>3 DEF Children, Under
<1> QED BY <1>2, <1>3

LEMMA CloseAttachmentsKeeps == ASSUME Standing, Kept, CloseAttachments PROVE Kept'
<1> DEFINE t == Tree(document)
           a == Entered(depth)
           p == Entered(depth - 1)
           v == Top.list
           f == [Caller EXCEPT !.attachments = v]
<1>1. Closing /\ InCall({"MELLEKLETEK"}) /\ Top.at = "MELLEKLETEK" /\ ClosedWith(f)
    BY DEF CloseAttachments, InCall
<1> HIDE DEF f
<1>2. Caller \in Frame /\ Caller.at = "EXPEDIALAS"
    <2>1. Caller \in Frame /\ Top.at \in Callees(Caller.at)
        BY <1>1, ClosingStands
    <2> QED BY <1>1, <2>1 DEF Callees
<1>3. depth > 1 /\ depth = Len(stack) - 1
    BY <1>1, ClosingDeep
<1>4. t.part[a] = "MELLEKLETEK" /\ Fits(Top, t, Children(t, a), Children(t, a))
    BY <1>1, ClosingScene
<1>5. /\ t.part[p] = Caller.at /\ Fits(Caller, t, Kids(p), Done(p))
    BY <1>1, <1>3, ClosingCaller
<1>6. a \in DOMAIN t.part /\ document \in Seq(Event) /\ a \in 1 .. Len(document) /\ t.event = document
    BY <1>1, ClosingEvent
<1>7. Done(p) \cap At(t, "MELLEKLETEK") = {}
    BY <1>1, <1>2, <1>4, FirstOfItsPart
<1>8. Under(t, {a}, "MELLEKLET") = Children(t, a) \cap At(t, "MELLEKLET")
    <2>1. a # 0
        BY <1>6
    <2> QED BY <1>6, <2>1, UnderIs
<1>9. t.event[a].name # "MELLEKLETEK_SZAMA"
    <2>1. PICK q, part : q = t.parent[a] /\ part = t.part[a]
        OBVIOUS
    <2>2. t = Tree(document)
        OBVIOUS
    <2> HIDE DEF t, a
    <2>3. part = "MELLEKLETEK" => document[a].name = part
        BY <1>6, <2>1, <2>2, PartMeans
    <2> QED BY <1>4, <1>6, <2>1, <2>3
<1>10. ValueFaults(t, a) = {}
    BY <1>4, ValueFaultsAre
<1> HIDE DEF t, a, p, v
<1>11. v = AttachmentList(t, Under(t, {a}, "MELLEKLET"))
    BY <1>1, <1>4, <1>8 DEF Fits, v
<1>12. DispatchFits(Caller, t, Kids(p), Done(p))
    BY <1>2, <1>5 DEF Fits
<1>13. f.at = Caller.at /\ DispatchFits(f, t, Kids(p), Done(p) \cup {a})
    <2>1. PICK T, e, F, K, D, w : T = t /\ e = a /\ F = Caller /\ K = Kids(p) /\ D = Done(p) /\ w = v
        OBVIOUS
    <2>2. /\ F \in Frame /\ F.at = "EXPEDIALAS" /\ DispatchFits(F, T, K, D) /\ e \in DOMAIN T.part
          /\ T.part[e] = "MELLEKLETEK" /\ D \cap At(T, "MELLEKLETEK") = {} /\ T.event[e].name # "MELLEKLETEK_SZAMA"
        BY <1>2, <1>4, <1>6, <1>7, <1>9, <1>12, <2>1
    <2>3. w = AttachmentList(T, Under(T, {e}, "MELLEKLET"))
        BY <1>11, <2>1
    <2>4. /\ [F EXCEPT !.attachments = w].at = F.at
          /\ DispatchFits([F EXCEPT !.attachments = w], T, K, D \cup {e})
        <3> HIDE <2>1
        <3> QED BY ONLY <2>2, <2>3, FitsAttachments
    <2>5. f = [F EXCEPT !.attachments = w]
        BY <2>1 DEF f
    <2> QED BY <2>1, <2>4, <2>5
<1>14. Fits(f, t, Kids(p), Done(p) \cup {a})
    BY <1>2, <1>13 DEF Fits
<1>15. Top.at \notin {"document", "skip", "KULDEMENY"} /\ Caller.at # "document"
    BY <1>1, <1>2
<1> QED BY <1>1, <1>10, <1>13, <1>14, <1>15, KeptReturned DEF t, a, p

LEMMA CloseDispatchesKeeps == ASSUME Standing, Kept, CloseDispatches PROVE Kept'
<1> DEFINE t == Tree(document)
           a == Entered(depth)
           p == Entered(depth - 1)
           v == Top.list
           f == [Caller EXCEPT !.dispatches = v]
<1>1. Closing /\ InCall({"EXPEDIALASOK"}) /\ Top.at = "EXPEDIALASOK" /\ ClosedWith(f)
    BY DEF CloseDispatches, InCall
<1> HIDE DEF f
<1>2. Caller \in Frame /\ Caller.at = "KULDEMENY"
    <2>1. Caller \in Frame /\ Top.at \in Callees(Caller.at)
        BY <1>1, ClosingStands
    <2> QED BY <1>1, <2>1 DEF Callees
<1>3. depth > 1 /\ depth = Len(stack) - 1
    BY <1>1, ClosingDeep
<1>4. t.part[a] = "EXPEDIALASOK" /\ Fits(Top, t, Children(t, a), Children(t, a))
    BY <1>1, ClosingScene
<1>5. /\ t.part[p] = Caller.at /\ Fits(Caller, t, Kids(p), Done(p))
    BY <1>1, <1>3, ClosingCaller
<1>6. a \in DOMAIN t.part /\ document \in Seq(Event) /\ a \in 1 .. Len(document)
    BY <1>1, ClosingEvent
<1>7. Done(p) \cap At(t, "EXPEDIALASOK") = {}
    BY <1>1, <1>2, <1>4, FirstOfItsPart, BlockNames
<1>8. Under(t, {a}, "EXPEDIALAS") = Children(t, a) \cap At(t, "EXPEDIALAS")
    <2>1. a # 0
        BY <1>6
    <2> QED BY <1>6, <2>1, UnderIs
<1>10. ValueFaults(t, a) = {}
    BY <1>4, ValueFaultsAre
<1> HIDE DEF t, a, p, v
<1>11. v = DispatchList(t, Under(t, {a}, "EXPEDIALAS"))
    BY <1>1, <1>4, <1>8 DEF Fits, v
<1>12. ConsignmentFits(Caller, t, Kids(p), Done(p))
    BY <1>2, <1>5 DEF Fits
<1>13. f.at = Caller.at /\ ConsignmentFits(f, t, Kids(p), Done(p) \cup {a})
    <2>1. PICK T, e, F, K, D, w : T = t /\ e = a /\ F = Caller /\ K = Kids(p) /\ D = Done(p) /\ w = v
        OBVIOUS
    <2>2. /\ F \in Frame /\ F.at = "KULDEMENY" /\ ConsignmentFits(F, T, K, D) /\ e \in DOMAIN T.part
          /\ T.part[e] = "EXPEDIALASOK" /\ D \cap At(T, "EXPEDIALASOK") = {}
        BY <1>2, <1>4, <1>6, <1>7, <1>12, <2>1
    <2>3. w = DispatchList(T, Under(T, {e}, "EXPEDIALAS"))
        BY <1>11, <2>1
    <2>4. /\ [F EXCEPT !.dispatches = w].at = F.at
          /\ ConsignmentFits([F EXCEPT !.dispatches = w], T, K, D \cup {e})
        <3> HIDE <2>1
        <3> QED BY ONLY <2>2, <2>3, FitsDispatches
    <2>5. f = [F EXCEPT !.dispatches = w]
        BY <2>1 DEF f
    <2> QED BY <2>1, <2>4, <2>5
<1>14. Fits(f, t, Kids(p), Done(p) \cup {a})
    BY <1>2, <1>13 DEF Fits
<1>15. Top.at \notin {"document", "skip", "KULDEMENY"} /\ Caller.at # "document"
    BY <1>1, <1>2
<1> QED BY <1>1, <1>10, <1>13, <1>14, <1>15, KeptReturned DEF t, a, p

LEMMA CloseDispatchKeeps == ASSUME Standing, Kept, CloseDispatch PROVE Kept'
<1> DEFINE t == Tree(document)
           a == Entered(depth)
           p == Entered(depth - 1)
           v == Append(Caller.list, IntoDispatch(Top))
           f == [Caller EXCEPT !.list = v]
<1>1. Closing /\ InCall({"EXPEDIALAS"}) /\ Top.at = "EXPEDIALAS" /\ ClosedWith(f)
    BY DEF CloseDispatch, InCall
<1>2. Caller \in Frame /\ Caller.at = "EXPEDIALASOK"
    <2>1. Caller \in Frame /\ Top.at \in Callees(Caller.at)
        BY <1>1, ClosingStands
    <2> QED BY <1>1, <2>1 DEF Callees
<1>3. depth > 1 /\ depth = Len(stack) - 1
    BY <1>1, ClosingDeep
<1>4. Top \in Frame /\ t.part[a] = "EXPEDIALAS" /\ Fits(Top, t, Children(t, a), Children(t, a))
    BY <1>1, ClosingScene
<1>5. /\ t.part[p] = Caller.at /\ Fits(Caller, t, Kids(p), Done(p))
    BY <1>1, <1>3, ClosingCaller
<1>6. a \in DOMAIN t.part
    BY <1>1, ClosingEvent
<1>7. Behind(Done(p), a)
    BY <1>1, <1>3, ClosingChild
<1>8. ValueFaults(t, a) = {}
    BY <1>4, ValueFaultsAre
<1> HIDE DEF t, a, p
<1>9. IntoDispatch(Top) = DispatchAt(t, a)
    <2>1. DispatchFits(Top, t, Children(t, a), Children(t, a))
        BY <1>1, <1>4 DEF Fits
    <2> QED BY <1>1, <1>4, <2>1, DispatchCloses
<1>10. Caller.list = DispatchList(t, Done(p) \cap At(t, "EXPEDIALAS"))
    BY <1>2, <1>5 DEF Fits
<1>11. v = Append(Caller.list, DispatchAt(t, a))
    BY <1>9
<1> HIDE DEF v
<1>12. f.at = Caller.at /\ f.list = v
    BY <1>2, FrameListed
<1> HIDE DEF f
<1>13. f.list = DispatchList(t, (Done(p) \cup {a}) \cap At(t, "EXPEDIALAS"))
    <2>1. PICK D : D = Done(p)
        OBVIOUS
    <2>2. Behind(D, a) /\ a \in DOMAIN t.part /\ t.part[a] = "EXPEDIALAS"
        BY <1>4, <1>6, <1>7, <2>1
    <2>3. Listed(t, D, a, "EXPEDIALAS")
        BY <2>2, FitsListed
    <2>4. DispatchList(t, (D \cup {a}) \cap At(t, "EXPEDIALAS")) =
                Append(DispatchList(t, D \cap At(t, "EXPEDIALAS")), DispatchAt(t, a))
        BY <2>3 DEF Listed
    <2> QED BY <1>10, <1>11, <1>12, <2>1, <2>4
<1>14. Fits(f, t, Kids(p), Done(p) \cup {a})
    BY <1>2, <1>12, <1>13 DEF Fits
<1>15. Top.at \notin {"document", "skip", "KULDEMENY"} /\ Caller.at # "document"
    BY <1>1, <1>2
<1> QED BY <1>1, <1>8, <1>12, <1>14, <1>15, KeptReturned DEF t, a, p, v, f

\* Where a call that skips is, and what it skips.
LEMMA SkippedStands ==
    ASSUME Standing, Kept, Closing, Top.at = "skip",
           NEW t, t = Tree(document), NEW a, a = Entered(depth)
    PROVE  /\ Reading /\ Len(stack) \in Nat /\ Len(stack) > 1 /\ depth \in Nat /\ Top.open \in Nat \ {0}
           /\ Top.open = 1 <=> depth = Len(stack) - 1
           /\ Top.open # 1 <=> depth > Len(stack) - 1
           /\ Top = stack[Len(stack)] /\ Caller = stack[Len(stack) - 1] /\ Caller \in Frame
           /\ Caller.at \notin {"document", "skip", "leaf"} /\ Len(stack) > 2
           /\ t.part[a] \notin DOMAIN Grammar \cup {"leaf"} /\ ValueFaults(t, a) = {}
<1>1. Reading
    BY DEF Closing
<1>2. TypedStack(stack) /\ Top \in Frame /\ Caller \in Frame /\ Top.at \in Callees(Caller.at)
    BY TypedCalls DEF Standing, Typed
<1>3. PICK n : n = Len(stack) /\ n \in Nat \ {0} /\ n > 1 /\ depth \in Nat /\ n - 1 <= depth
    BY <1>1, Stand
<1>4. Top = stack[n] /\ Caller = stack[n - 1] /\ stack[1].at = "document"
    BY <1>2, <1>3 DEF Top, Caller, TypedStack
<1>5. Top.open \in Nat \ {0}
    BY <1>2, FrameOf DEF SkipFrame
<1>6. depth = n - 1 + Top.open - 1
    <2>1. depth = Height(stack)
        BY <1>1 DEF Standing, Agreement
    <2> QED BY <1>3, <1>4, <1>5, <2>1 DEF Height, Skips
<1>7. Caller.at \notin {"document", "skip", "leaf"}
    BY <1>2 DEF Callees
<1>8. n # 2
    BY <1>4, <1>7
<1>9. t.part[a] \notin DOMAIN Grammar \cup {"leaf"}
    <2>1. depth \in 1 .. depth
        BY <1>3
    <2>2. Suits(stack, depth, PartOf(a))
        BY <1>1, <2>1 DEF Kept, Suited
    <2>3. depth < Len(stack) => depth + 1 = Len(stack)
        BY <1>3
    <2>4. depth < Len(stack) => stack[depth + 1].at = "skip"
        BY <1>3, <1>4, <2>3
    <2> QED BY <2>2, <2>4 DEF Suits, PartOf
<1>10. ValueFaults(t, a) = {}
    <2>1. t.part[a] \notin {"FEJRESZ", "MELLEKLET", "KULDEMENY", "leaf"}
        BY <1>9, Meanings
    <2> QED BY <2>1, ValueFaultsAre
<1>11. /\ Top.open = 1 <=> depth = Len(stack) - 1
       /\ Top.open # 1 <=> depth > Len(stack) - 1
    <2> HIDE DEF Top
    <2> QED BY <1>3, <1>5, <1>6
<1>12. Len(stack) > 2 /\ Len(stack) \in Nat
    BY <1>3, <1>8
<1> QED BY <1>1, <1>2, <1>3, <1>4, <1>5, <1>7, <1>9, <1>10, <1>11, <1>12

LEMMA CloseSkippedKeeps == ASSUME Standing, Kept, CloseSkipped PROVE Kept'
<1> DEFINE t == Tree(document)
           a == Entered(depth)
           p == Entered(depth - 1)
<1>1. Closing /\ Top.at = "skip" /\ Closed /\ document' = document
    BY DEF CloseSkipped, InCall
<1>2. CloseStep
    BY <1>1 DEF CloseStep
<1>3. /\ Reading /\ Len(stack) \in Nat /\ Len(stack) > 2 /\ depth \in Nat /\ Top.open \in Nat \ {0}
      /\ Top.open = 1 <=> depth = Len(stack) - 1
      /\ Top.open # 1 <=> depth > Len(stack) - 1
      /\ Top = stack[Len(stack)] /\ Caller = stack[Len(stack) - 1] /\ Caller \in Frame
      /\ Caller.at \notin {"document", "skip", "leaf"}
      /\ t.part[a] \notin DOMAIN Grammar \cup {"leaf"} /\ ValueFaults(t, a) = {}
    BY <1>1, SkippedStands
<1>4. TypedStack(stack)
    BY DEF Standing, Typed
<1>5. CASE Top.open = 1
    <2>1. stack' = Front(stack)
        BY <1>5 DEF CloseSkipped
    <2>2. /\ Len(Front(stack)) = Len(stack) - 1
          /\ \A i \in 1 .. Len(stack) - 1 : Front(stack)[i] = stack[i]
        BY <1>3, <1>4, TypedFront
    <2>3. depth = Len(stack) - 1 /\ depth > 1
        BY <1>3, <1>5
    <2>4. stack'[Len(stack) - 1] = Caller
        <3>1. Len(stack) - 1 \in 1 .. Len(stack) - 1
            BY <1>3
        <3> QED BY <1>3, <2>1, <2>2, <3>1
    <2>5. SameUpTo(Len(stack) - 2)
        <3> SUFFICES ASSUME NEW i \in 1 .. Len(stack) - 2 PROVE stack'[i] = stack[i]
            BY DEF SameUpTo
        <3>1. i \in 1 .. Len(stack) - 1
            BY <1>3
        <3> QED BY <2>1, <2>2, <3>1
    <2>6. Pops(Caller)
        BY <1>2, <1>3, <2>1, <2>2, <2>3, <2>4, <2>5 DEF Pops
    <2>7. /\ t.part[p] = Caller.at /\ Fits(Caller, t, Kids(p), Done(p))
        BY <1>1, <2>3, ClosingCaller
    <2>8. /\ document \in Seq(Event) /\ t.event = document /\ a \in 1 .. Len(document)
          /\ IsOpen(document[a])
        BY <1>1, ClosingEvent
    <2>9. t.parent[a] = p /\ p # 0
        <3>1. t.parent[a] = p /\ p \in 1 .. a - 1
            BY <1>1, <2>3, ClosingChild
        <3> QED BY <2>8, <3>1
    <2>10. t = Tree(document)
        OBVIOUS
    <2> HIDE DEF t, a, p
    <2>11. PICK q, part : q = t.parent[a] /\ part = t.part[a]
        OBVIOUS
    <2>12. /\ t.part[q] \in {"FEJRESZ", "MELLEKLET"} /\ IsOpen(document[a]) /\ q # 0 =>
                 (part = "leaf" <=> document[a].binding = "target" /\ document[a].name \in Field)
           /\ t.part[q] = "EXPEDIALAS" /\ IsOpen(document[a]) /\ q # 0 =>
                 (part = "leaf" <=> document[a].binding = "target" /\ document[a].name = "MELLEKLETEK_SZAMA")
        BY <2>8, <2>10, <2>11, PartMeans
    <2>13. /\ Caller.at \in {"FEJRESZ", "MELLEKLET"} =>
                    ~(t.event[a].binding = "target" /\ t.event[a].name \in Field)
           /\ Caller.at = "EXPEDIALAS" =>
                    ~(t.event[a].binding = "target" /\ t.event[a].name = "MELLEKLETEK_SZAMA")
        BY <1>3, <2>7, <2>8, <2>9, <2>11, <2>12
    <2>14. Fits(Caller, t, Kids(p), Done(p) \cup {a})
        BY <1>3, <2>7, <2>13, FitsSkipped
    <2> QED BY <1>3, <2>6, <2>14, KeptPopped DEF t, a, p
<1>6. CASE Top.open # 1
    <2> DEFINE g == [Top EXCEPT !.open = @ - 1]
    <2>1. stack' = [stack EXCEPT ![Len(stack)] = g]
        BY <1>6 DEF CloseSkipped, Continue
    <2>2. g.at = "skip"
        BY <1>1, <1>3, <1>4, TypedCalls, FrameOf DEF SkipFrame
    <2> HIDE DEF g
    <2>3. PICK S : stack \in Seq(S) /\ g \in S
        <3>1. stack \in Seq(Frame \cup {g})
            BY <1>4 DEF TypedStack
        <3> QED BY <3>1
    <2>4. /\ Len(stack') = Len(stack)
          /\ \A i \in 1 .. Len(stack) : stack'[i] = IF i = Len(stack) THEN g ELSE stack[i]
        BY <1>3, <2>1, <2>3, ReplacedLast
    <2>5. stack'[Len(stack)].at = "skip" /\ SameUpTo(Len(stack) - 1)
        BY <1>3, <2>2, <2>4 DEF SameUpTo
    <2>6. Rises
        BY <1>1, <1>2, <1>3, <1>6, <2>4, <2>5 DEF Rises
    <2> QED BY <1>3, <2>6, KeptRisen
<1> QED BY <1>5, <1>6

LEMMA PassOverKeeps == ASSUME Standing, Kept, PassOver PROVE Kept'
<1>1. /\ Reading /\ ~pending /\ ~AtEnd /\ Passes(Upcoming) /\ next' = next + 1
      /\ UNCHANGED <<document, depth, pending, stack, outcome>>
      /\ \/ Upcoming.kind \in {"declaration", "comment"}
         \/ IsText(Upcoming) /\ Upcoming.pieces = <<>>
    BY DEF PassOver, Incoming
<1>2. ~IsOpen(Upcoming) /\ Upcoming.kind # "end" /\ Said(Upcoming) = <<>>
    BY <1>1 DEF IsOpen, IsText, Said
<1>3. TypedStack(stack) /\ Top \in Frame
    BY TypedCalls DEF Standing, Typed
<1>4. Moves(Top)
    BY <1>1, <1>2 DEF Moves, PassStep, SameUpTo, Top
<1>5. Top.at = "leaf" => Top.text = Top.text \o Said(Upcoming)
    <2>1. SUFFICES ASSUME Top.at = "leaf" PROVE Top.text = Top.text \o <<>>
        BY <1>2
    <2>2. Top.text \in Seq(Piece)
        BY <1>3, <2>1, FrameOf DEF LeafFrame, Text
    <2> QED BY <2>2
<1> QED BY <1>1, <1>4, <1>5, KeptMoved

LEMMA TakeTextKeeps == ASSUME Standing, Kept, TakeText PROVE Kept'
<1> DEFINE f == IF InCall({"leaf"}) THEN [Top EXCEPT !.text = @ \o Upcoming.pieces] ELSE Top
<1>1. /\ Reading /\ ~pending /\ ~AtEnd /\ Passes(Upcoming) /\ next' = next + 1
      /\ UNCHANGED <<document, depth, pending, outcome>> /\ IsText(Upcoming)
      /\ IF InCall({"leaf"}) THEN Continue([Top EXCEPT !.text = @ \o Upcoming.pieces])
         ELSE UNCHANGED stack
    BY DEF TakeText, Incoming
<1>2. ~IsOpen(Upcoming) /\ Upcoming.kind # "end" /\ Said(Upcoming) = Upcoming.pieces
    BY <1>1 DEF IsOpen, IsText, Said
<1>3. TypedStack(stack) /\ Top \in Frame /\ Top = stack[Len(stack)] /\ Len(stack) \in Nat \ {0}
    BY TypedCalls DEF Standing, Typed, Top
<1>4. /\ f.at = Top.at
      /\ Top.at # "leaf" => f = Top
      /\ Top.at = "leaf" => f.field = Top.field /\ f.text = Top.text \o Said(Upcoming)
    BY <1>2, <1>3, FrameOf DEF LeafFrame, InCall
<1>5. Moves(f)
    <2>1. PassStep
        BY <1>1, <1>2 DEF PassStep
    <2>2. /\ Len(stack') = Len(stack) /\ stack'[Len(stack)] = f
          /\ \A i \in 1 .. Len(stack) - 1 : stack'[i] = stack[i]
        <3>1. CASE InCall({"leaf"})
            <4>1. stack' = [stack EXCEPT ![Len(stack)] = f]
                BY <1>1, <3>1 DEF Continue
            <4> HIDE DEF f
            <4>2. PICK S : stack \in Seq(S) /\ f \in S
                <5>1. stack \in Seq(Frame \cup {f})
                    BY <1>3 DEF TypedStack
                <5> QED BY <5>1
            <4>3. /\ Len(stack') = Len(stack)
                  /\ \A i \in 1 .. Len(stack) : stack'[i] = IF i = Len(stack) THEN f ELSE stack[i]
                BY <1>3, <4>1, <4>2, ReplacedLast
            <4> QED BY <1>3, <4>3
        <3>2. CASE ~InCall({"leaf"})
            BY <1>1, <1>3, <3>2
        <3> QED BY <3>1, <3>2
    <2> QED BY <1>4, <2>1, <2>2 DEF Moves, SameUpTo
<1> HIDE DEF f
<1> QED BY <1>1, <1>4, <1>5, KeptMoved

LEMMA ScannerRefusesWell == ASSUME Standing, Kept, ScannerRefuses PROVE RefusesWell
<1>1. Reading /\ ~pending /\ ~AtEnd /\ ~Passes(Upcoming) /\ Refuse(Refusal(Upcoming), Absent)
    BY DEF ScannerRefuses, Incoming
<1>2. Refusal(Upcoming) \in EventFaults(Tree(document), next)
    BY <1>1, Scanned DEF ScannedWell, Passes
<1>3. Refusal(Upcoming) \in FaultsAt(Tree(document), next)
    BY <1>2, FaultShown
<1>4. Shown = next /\ next \in 1 .. Len(document)
    BY <1>1, Stand DEF AtEnd, Shown
<1> QED BY <1>1, <1>3, <1>4, RefusedWell

\* The root ends without a header.
LEMMA CloseRootRefuses ==
    ASSUME Standing, Kept, CloseRoot, Top.header = Absent PROVE RefusesWell
<1> DEFINE t == Tree(document)
           a == Entered(depth)
<1>1. /\ Closing /\ InCall({"KULDEMENY"}) /\ Top.at = "KULDEMENY"
      /\ Refuse("malformed.missing_element", Present("FEJRESZ"))
    BY DEF CloseRoot, InCall
<1>2. t.part[a] = "KULDEMENY" /\ Fits(Top, t, Children(t, a), Children(t, a))
    BY <1>1, ClosingScene
<1> HIDE DEF t, a
<1>3. Top.header = {HeaderAt(t, j) : j \in Children(t, a) \cap At(t, "FEJRESZ")}
    BY <1>1, <1>2 DEF Fits, ConsignmentFits
<1>4. Children(t, a) \cap At(t, "FEJRESZ") = {}
    BY <1>3 DEF Absent
<1>5. ValueFaults(t, a) = {"malformed.missing_element"}
    BY <1>2, <1>4, ValueFaultsAre
<1>6. Top.at # "document" /\ "malformed.missing_element" \in ValueFaults(t, a)
    BY <1>1, <1>5
<1> QED BY <1>1, <1>6, ClosingRefused DEF t, a

-----------------------------------------------------------------------------
(* The verdict.                                                            *)

\* The first element that was opened is the outermost of those that are open.
LEMMA FirstEntered ==
    ASSUME Standing, Kept, Reading, NEW t, t = Tree(document), NEW first, first = FirstElement(t)
    PROVE  /\ first \in 1 .. Len(document) + 1
           /\ depth = 0 => first >= next
           /\ depth > 0 => /\ first = Entered(1) /\ first \in 1 .. next - 1 /\ first \in 1 .. Len(document)
                           /\ t.close[first] >= Shown /\ t.parent[first] = 0
<1>1. /\ document \in Seq(Event) /\ next \in 1 .. Len(document) + 1 /\ next \in Nat \ {0}
      /\ Len(document) \in Nat /\ depth \in Nat
    BY Stand
<1>2. t.event = document
    BY <1>1, TreeIs
<1>3. /\ first \in 1 .. Len(document) + 1
      /\ first \in 1 .. Len(document) => IsOpen(document[first])
      /\ \A i \in 1 .. Len(document) : IsOpen(document[i]) => first <= i
    BY <1>1, <1>2, FirstIs
<1>4. \A j \in 1 .. next - 1 : IsOpen(document[j]) => depth > 0 /\ Entered(1) <= j
    BY DEF Kept, Chained, Settled
<1>5. ASSUME depth = 0 PROVE first >= next
    <2> SUFFICES ASSUME first < next PROVE FALSE
        BY <1>1, <1>3
    <2>1. first \in 1 .. next - 1 /\ first \in 1 .. Len(document)
        BY <1>1, <1>3
    <2> QED BY <1>1, <1>3, <1>4, <1>5, <2>1
<1>6. ASSUME depth > 0
      PROVE  /\ first = Entered(1) /\ first \in 1 .. next - 1 /\ first \in 1 .. Len(document)
             /\ t.close[first] >= Shown /\ t.parent[first] = 0
    <2>1. 1 \in 1 .. depth
        BY <1>1, <1>6
    <2>2. InChain(1)
        BY <2>1 DEF Kept, Chained
    <2> DEFINE e == Entered(1)
    <2>3. e \in 1 .. next - 1 /\ IsOpen(document[e]) /\ t.close[e] >= Shown /\ t.parent[e] = 0
        BY <2>2 DEF InChain
    <2> HIDE DEF e
    <2>4. e \in 1 .. Len(document)
        BY <1>1, <2>3
    <2>5. first <= e
        BY <1>3, <2>3, <2>4
    <2>6. first \in 1 .. next - 1 /\ first \in 1 .. Len(document)
        BY <1>1, <1>3, <2>3, <2>5
    <2>7. e <= first
        BY <1>3, <1>4, <2>6 DEF e
    <2>8. first = e
        BY <1>1, <2>3, <2>5, <2>6, <2>7
    <2> QED BY <2>3, <2>6, <2>8 DEF e
<1> QED BY <1>3, <1>5, <1>6

LEMMA EarlierFaultless ==
    ASSUME Standing, Kept, Reading, NEW t, t = Tree(document)
    PROVE  FaultlessTo(t, Shown) /\ Len(document) <= MaxDocument
<1>1. /\ document \in Seq(Event) /\ next \in 1 .. Len(document) + 1 /\ next \in Nat \ {0}
      /\ Len(document) \in Nat
    BY Stand
<1>2. t.event = document
    BY <1>1, TreeIs
<1>3. Shown \in Nat /\ Shown <= next
    BY ShownIs
<1>4. /\ Len(document) <= MaxDocument
      /\ \A i \in 1 .. next - 1 :
            /\ EventFaults(t, i) = {}
            /\ IsOpen(document[i]) =>
                  /\ PlaceFaults(t, i) = {}
                  /\ t.close[i] < Shown => ValueFaults(t, i) = {}
    BY DEF Kept, Clean
<1>5. ASSUME NEW i \in 1 .. Shown - 1 PROVE FaultsAt(t, i) = {}
    <2>1. i \in 1 .. next - 1 /\ i < Shown /\ \A j \in 1 .. i : j \in 1 .. next - 1
        BY <1>1, <1>3
    <2>2. EventFaults(t, i) = {} /\ (IsOpen(t.event[i]) => PlaceFaults(t, i) = {})
        BY <1>2, <1>4, <2>1
    <2>3. \A j \in 1 .. i : IsOpen(t.event[j]) /\ t.close[j] = i => ValueFaults(t, j) = {}
        BY <1>2, <1>4, <2>1
    <2> QED BY <2>2, <2>3 DEF FaultsAt
<1> QED BY <1>4, <1>5 DEF FaultlessTo

LEMMA VerdictReads ==
    ASSUME NEW d, ~(Len(d) > MaxDocument), NEW r, r = Read(Tree(d))
    PROVE  Verdict(d) = VerdictOf(r, Faults(r))
BY DEF Verdict, VerdictOn

\* What is refused is refused for the faults that show first.
LEMMA RefusalIsExact ==
    ASSUME NEW d \in Seq(Event), NEW t, t = Tree(d), ~(Len(d) > MaxDocument), NEW s \in 1 .. Len(d),
           FaultlessTo(t, s), NEW code \in FaultsAt(t, s),
           End(t) \in 1 .. Len(d) => s <= End(t)
    PROVE  Verdict(d).kind = "refused" /\ code \in Verdict(d).codes
<1>1. PICK r, f : r = Read(t) /\ f = FirstElement(t)
    OBVIOUS
<1>2. t.event = d /\ DOMAIN d = 1 .. Len(d) /\ Len(d) \in Nat
    BY TreeIs
<1>3. \E m \in Nat : DOMAIN r.event = 1 .. m /\ s \in 1 .. m /\ \A i \in 1 .. m : FaultsAt(r, i) = FaultsAt(t, i)
    <2>1. CASE End(t) \notin 1 .. Len(d)
        <3>1. r = t
            BY <1>1, <2>1, ReadIs
        <3> QED BY <1>2, <3>1
    <2>2. CASE End(t) \in 1 .. Len(d)
        <3>1. PICK n : n = End(t)
            OBVIOUS
        <3>2. Agree(t, r, n) /\ n \in 1 .. Len(d)
            BY <1>1, <2>2, <3>1, ReadIs
        <3>3. DOMAIN r.event = 1 .. n /\ n \in Nat
            BY <3>2 DEF Agree
        <3>4. \A i \in 1 .. n : FaultsAt(r, i) = FaultsAt(t, i)
            BY <3>2, ReadFaultsAlike
        <3> QED BY <1>2, <2>2, <3>1, <3>3, <3>4
    <2> QED BY <2>1, <2>2
<1>4. PICK m \in Nat : DOMAIN r.event = 1 .. m /\ s \in 1 .. m /\ \A i \in 1 .. m : FaultsAt(r, i) = FaultsAt(t, i)
    BY <1>3
<1>5. FaultlessTo(r, s)
    <2>1. \A i \in 1 .. s - 1 : i \in 1 .. m
        BY <1>4
    <2> QED BY <1>4, <2>1 DEF FaultlessTo
<1>6. code \in FaultsAt(r, s)
    BY <1>4
<1>7. Faults(r) = FaultsAt(r, s)
    BY <1>4, <1>5, <1>6, FaultsFirst
<1>8. Verdict(d) = VerdictOf(r, Faults(r))
    BY <1>1, VerdictReads
<1>9. VerdictOf(r, FaultsAt(r, s)) = [kind |-> "refused", codes |-> FaultsAt(r, s)]
    BY <1>6 DEF VerdictOf
<1> HIDE DEF FaultsAt
<1> QED BY <1>6, <1>7, <1>8, <1>9

\* What the verdict says once it is known.
Refused(code) == Verdict(document).kind = "refused" /\ code \in Verdict(document).codes

LEMMA RefusesExactly ==
    ASSUME Standing, Kept, RefusesWell
    PROVE  Refused(outcome'.code)
<1>1. PICK t, f, s : t = Tree(document) /\ f = FirstElement(t) /\ s = Shown
    OBVIOUS
<1>2. /\ Reading /\ s \in 1 .. Len(document) /\ outcome'.code \in FaultsAt(t, s)
    BY <1>1 DEF RefusesWell
<1>3. /\ document \in Seq(Event) /\ next \in Nat \ {0} /\ Len(document) \in Nat /\ depth \in Nat
    BY <1>2, Stand
<1>4. FaultlessTo(t, s) /\ Len(document) <= MaxDocument
    BY <1>1, <1>2, EarlierFaultless
<1>5. f \in 1 .. Len(document) => t.close[f] >= s
    <2>1. s \in Nat /\ s <= next
        BY <1>1, <1>2, ShownIs
    <2>2. CASE depth = 0
        <3>1. f >= next
            BY <1>1, <1>2, <2>2, FirstEntered
        <3>2. f \in 1 .. Len(document) => t.close[f] >= f /\ t.close[f] \in Nat
            BY <1>1, <1>3, CloseIs
        <3> QED BY <1>3, <2>1, <3>1, <3>2
    <2>3. CASE depth > 0
        BY <1>1, <1>2, <2>3, FirstEntered
    <2> QED BY <1>3, <2>2, <2>3
<1>6. End(t) \in 1 .. Len(document) => s <= End(t)
    <2>1. PICK r : r = Read(t)
        OBVIOUS
    <2>2. /\ f \notin 1 .. Len(document) => End(t) \notin 1 .. Len(document)
          /\ f \in 1 .. Len(document) => End(t) = t.close[f]
        BY <1>1, <1>3, <2>1, ReadIs
    <2> QED BY <1>2, <1>5, <2>2
<1>7. PICK code : code = outcome'.code
    OBVIOUS
<1>8. ~(Len(document) > MaxDocument)
    BY <1>3, <1>4, LimitsAssumption
<1> QED BY <1>1, <1>2, <1>3, <1>4, <1>6, <1>7, <1>8, RefusalIsExact DEF Refused

\* Nothing was opened, or something was not closed, and there is nothing else.
LEMMA EndRefusesExactly ==
    ASSUME Standing, Kept, EndOfDocument
    PROVE  outcome'.kind = "refused" /\ Refused(outcome'.code)
<1>1. PICK t, f, r : t = Tree(document) /\ f = FirstElement(t) /\ r = Read(t)
    OBVIOUS
<1>2. Reading /\ ~pending /\ next > Len(document)
    BY DEF EndOfDocument, AtEnd
<1>3. /\ document \in Seq(Event) /\ next \in Nat \ {0} /\ Len(document) \in Nat /\ depth \in Nat
      /\ next \in 1 .. Len(document) + 1
      /\ Top.at = "document" => depth = 0
      /\ Top.at # "document" => depth > 0
    BY <1>2, Stand
<1>4. next = Len(document) + 1 /\ Shown = Len(document) + 1
    BY <1>2, <1>3 DEF Shown
<1>5. FaultlessTo(t, Len(document) + 1) /\ Len(document) <= MaxDocument
    BY <1>1, <1>2, <1>4, EarlierFaultless
<1>6. t.event = document /\ DOMAIN document = 1 .. Len(document)
    BY <1>1, <1>3, TreeIs
<1>7. \A i \in 1 .. Len(document) : FaultsAt(t, i) = {}
    BY <1>3, <1>5 DEF FaultlessTo
<1>8. /\ f \in 1 .. Len(document) + 1
      /\ depth = 0 => f >= next
      /\ depth > 0 => f \in 1 .. Len(document) /\ t.close[f] >= Shown
    BY <1>1, <1>2, FirstEntered
<1>9. /\ f \in 1 .. Len(document) <=> depth > 0
      /\ f \in 1 .. Len(document) => ~(t.close[f] \in 1 .. Len(document))
    BY <1>3, <1>4, <1>8
<1>10. /\ f \notin 1 .. Len(document) => End(t) \notin 1 .. Len(document)
       /\ f \in 1 .. Len(document) => End(t) = t.close[f]
       /\ End(t) \notin 1 .. Len(document) => r = t
    BY <1>1, <1>3, ReadIs
<1>11. End(t) \notin 1 .. Len(document) /\ r = t
    BY <1>9, <1>10
<1>12. Faults(r) = IF f \in 1 .. Len(document) THEN {"malformed.syntax"} ELSE {"malformed.missing_element"}
    <2>1. {i \in DOMAIN t.event : FaultsAt(t, i) # {}} = {}
        BY <1>6, <1>7
    <2> HIDE DEF FaultsAt, End, FirstElement
    <2> QED BY <1>1, <1>6, <1>11, <2>1 DEF Faults
<1>13. ~(Len(document) > MaxDocument)
    BY <1>3, <1>5, LimitsAssumption
<1>14. Verdict(document) = VerdictOf(r, Faults(r))
    BY <1>1, <1>13, VerdictReads
<1>15. VerdictOf(r, Faults(r)) = [kind |-> "refused", codes |-> Faults(r)]
    BY <1>12 DEF VerdictOf
<1>16. Verdict(document).kind = "refused" /\ Verdict(document).codes = Faults(r)
    BY <1>14, <1>15
<1>17. outcome'.kind = "refused"
       /\ outcome'.code = (IF depth > 0 THEN "malformed.syntax" ELSE "malformed.missing_element")
    BY <1>3 DEF EndOfDocument, InCall, Refuse
<1> QED BY <1>9, <1>12, <1>16, <1>17 DEF Refused

LEMMA InitRefusesExactly == ASSUME Init, ~Reading PROVE outcome.kind = "refused" /\ Refused(outcome.code)
<1>1. Len(document) > MaxDocument /\ outcome.kind = "refused" /\ outcome.code = "over_limit.document_bytes"
    BY DEF Init, Reading
<1>2. Verdict(document) = [kind |-> "refused", codes |-> {"over_limit.document_bytes"}]
    BY <1>1 DEF Verdict
<1> QED BY <1>1, <1>2 DEF Refused

-----------------------------------------------------------------------------
(* What is accepted.                                                       *)

LEMMA OnlyRootsLead ==
    ASSUME NEW d \in Seq(Event), NEW t, t = Tree(d), NEW i \in 1 .. Len(d), t.part[i] = "KULDEMENY"
    PROVE  t.parent[i] = 0
<1>1. PICK p, part : p = t.parent[i] /\ part = t.part[i]
    OBVIOUS
<1>2. part = "KULDEMENY" => p = 0
    BY <1>1, PartMeans
<1> QED BY <1>1, <1>2

\* Where the reader stands when the root closes.
LEMMA RootScene ==
    ASSUME Standing, Kept, CloseRoot, NEW t, t = Tree(document), NEW a, a = Entered(depth),
           NEW n, n = Shown
    PROVE  /\ Reading /\ Closing /\ Top.at = "KULDEMENY" /\ Top \in Frame /\ depth = 1 /\ a = FirstElement(t)
           /\ n \in 1 .. Len(document) /\ a \in 1 .. n /\ a \in 1 .. next - 1 /\ t.close[a] = n /\ IsOpen(document[a])
           /\ t.part[a] = "KULDEMENY" /\ ConsignmentFits(Top, t, Children(t, a), Children(t, a))
<1>1. Closing /\ InCall({"KULDEMENY"}) /\ Top.at = "KULDEMENY" /\ Top.at # "document"
    BY DEF CloseRoot, InCall
<1>2. /\ t.part[a] = "KULDEMENY" /\ Fits(Top, t, Children(t, a), Children(t, a)) /\ Top \in Frame
    BY <1>1, ClosingScene
<1>3. /\ Reading /\ document \in Seq(Event) /\ depth \in Nat \ {0} /\ a \in 1 .. next - 1
      /\ a \in 1 .. Len(document) /\ IsOpen(document[a]) /\ t.close[a] = n
      /\ n \in 1 .. Len(document) /\ a \in 1 .. n
    BY <1>1, ClosingEvent
<1>4. depth = 1
    <2> SUFFICES ASSUME depth > 1 PROVE FALSE
        BY <1>3
    <2>1. PICK p : p = Entered(depth - 1)
        OBVIOUS
    <2>2. t.parent[a] = p /\ p \in 1 .. a - 1
        BY <1>1, <2>1, ClosingChild
    <2>3. t.parent[a] = 0
        BY <1>2, <1>3, OnlyRootsLead
    <2> QED BY <2>2, <2>3
<1>5. a = FirstElement(t)
    <2>1. PICK f : f = FirstElement(t)
        OBVIOUS
    <2>2. depth > 0 => f = Entered(1)
        BY <1>3, <2>1, FirstEntered
    <2> QED BY <1>4, <2>1, <2>2
<1>6. ConsignmentFits(Top, t, Children(t, a), Children(t, a))
    BY <1>1, <1>2 DEF Fits
<1> QED BY <1>1, <1>2, <1>3, <1>4, <1>5, <1>6

LEMMA RootFaultless ==
    ASSUME Standing, Kept, CloseRoot, Top.header # Absent, NEW t, t = Tree(document), NEW n, n = Shown
    PROVE  FaultlessTo(t, n + 1)
<1>1. PICK a : a = Entered(depth)
    OBVIOUS
<1>2. /\ Reading /\ Closing /\ Top.at = "KULDEMENY" /\ Top.at # "document"
      /\ n \in 1 .. Len(document) /\ a \in 1 .. n /\ a \in 1 .. next - 1 /\ t.close[a] = n /\ IsOpen(document[a])
      /\ t.part[a] = "KULDEMENY" /\ ConsignmentFits(Top, t, Children(t, a), Children(t, a))
    <2>1. Top.at = "KULDEMENY"
        BY <1>1, RootScene
    <2> QED BY <1>1, <2>1, RootScene
<1>3. /\ document \in Seq(Event) /\ next \in Nat \ {0} /\ Len(document) \in Nat
      /\ next \in 1 .. Len(document) + 1
    BY <1>2, Stand
<1>4. t.event = document
    BY <1>3, TreeIs
<1>5. FaultlessTo(t, n)
    BY <1>2, EarlierFaultless
<1>6. ValueFaults(t, a) = {}
    <2>1. Top.header = {HeaderAt(t, j) : j \in Children(t, a) \cap At(t, "FEJRESZ")}
        BY <1>2 DEF ConsignmentFits
    <2>2. Children(t, a) \cap At(t, "FEJRESZ") # {}
        BY <2>1 DEF Absent
    <2> QED BY <1>2, <2>2, ValueFaultsAre
<1>7. \A i \in 1 .. next - 1 :
            /\ EventFaults(t, i) = {}
            /\ IsOpen(document[i]) => PlaceFaults(t, i) = {}
    BY <1>2 DEF Kept, Clean
<1>8. EventFaults(t, n) = {} /\ (IsOpen(t.event[n]) => PlaceFaults(t, n) = {})
    <2>1. CASE pending
        <3>1. n = next - 1 /\ n \in 1 .. next - 1
            BY <1>2, <1>3, <2>1, ShownIs
        <3> QED BY <1>4, <1>7, <3>1
    <2>2. CASE ~pending
        <3>1. n = next /\ document[n].kind = "end"
            BY <1>2, <2>2, ShownIs DEF Closing, Upcoming
        <3>2. t.event[n].kind = "end"
            BY <1>4, <3>1
        <3>3. ~IsOpen(t.event[n]) /\ ~IsText(t.event[n])
            BY <3>2 DEF IsOpen, IsText
        <3>4. EventFaults(t, n) = {}
            BY <3>2, <3>3, Zenon DEF EventFaults
        <3> QED BY <3>3, <3>4
    <2> QED BY <2>1, <2>2
<1>9. \A j \in 1 .. n : IsOpen(t.event[j]) /\ t.close[j] = n => ValueFaults(t, j) = {}
    <2> SUFFICES ASSUME NEW j \in 1 .. n, IsOpen(document[j]), t.close[j] = n PROVE ValueFaults(t, j) = {}
        BY <1>4
    <2>1. j \in 1 .. next - 1
        <3>1. CASE pending
            <4>1. n = next - 1
                BY <1>2, <3>1, ShownIs
            <4> QED BY <4>1
        <3>2. CASE ~pending
            <4>1. n = next /\ document[n].kind = "end"
                BY <1>2, <3>2, ShownIs DEF Closing, Upcoming
            <4>2. j # n
                BY <4>1 DEF IsOpen
            <4> QED BY <1>3, <4>1, <4>2
        <3> QED BY <3>1, <3>2
    <2>2. \A i \in 1 .. next - 1 : IsOpen(document[i]) /\ Tree(document).close[i] = Shown => i = Entered(depth)
        <3> HIDE DEF Tree, Entered
        <3> QED BY <1>2, ClosesInnermost DEF Kept
    <2>3. j = a
        BY <1>1, <2>1, <2>2
    <2> QED BY <1>6, <2>3
<1>10. FaultsAt(t, n) = {}
    BY <1>8, <1>9 DEF FaultsAt
<1>11. n \in Nat
    BY <1>2, <1>3
<1> QED BY <1>5, <1>10, <1>11, FaultlessStep

LEMMA FaultlessAt ==
    ASSUME NEW t, NEW n \in Nat, FaultlessTo(t, n + 1), NEW i \in 1 .. n
    PROVE  FaultsAt(t, i) = {}
<1>1. i \in 1 .. n + 1 - 1
    OBVIOUS
<1> QED BY <1>1 DEF FaultlessTo

LEMMA DomainIs ==
    ASSUME NEW d \in Seq(Event), NEW t, t = Tree(d)
    PROVE  DOMAIN t.part = 1 .. Len(d)
BY DEF Tree

LEMMA DispatchMeans ==
    ASSUME NEW d \in Seq(Event), NEW t, t = Tree(d), NEW i \in 1 .. Len(d), t.part[i] = "EXPEDIALAS",
           NEW p, p = t.parent[i]
    PROVE  IsOpen(d[i]) /\ p # 0 /\ t.part[p] = "EXPEDIALASOK"
<1>1. PICK part : part = t.part[i]
    OBVIOUS
<1>2. /\ part # "none" <=> IsOpen(d[i])
      /\ part = "EXPEDIALAS" => p # 0 /\ t.part[p] = "EXPEDIALASOK"
    BY <1>1, PartMeans
<1> QED BY <1>1, <1>2

\* The element at a is the only one, up to its end at n, that is in no other.
OnlyRoot(d, t, a, n) ==
    /\ d \in Seq(Event) /\ t = Tree(d) /\ n \in 1 .. Len(d) /\ a \in 1 .. n /\ t.close[a] = n
    /\ \A i \in 1 .. n : IsOpen(d[i]) /\ t.parent[i] = 0 => i = a

LEMMA RootIsOnly ==
    ASSUME Standing, Kept, CloseRoot, NEW t, t = Tree(document), NEW a, a = Entered(depth), NEW n, n = Shown
    PROVE  OnlyRoot(document, t, a, n)
<1>1. /\ Reading /\ Closing /\ depth = 1
      /\ n \in 1 .. Len(document) /\ a \in 1 .. n /\ a \in 1 .. next - 1 /\ t.close[a] = n
    BY RootScene
<1>2. /\ document \in Seq(Event) /\ next \in Nat \ {0} /\ Len(document) \in Nat
      /\ next \in 1 .. Len(document) + 1
    BY <1>1, Stand
<1>3. ASSUME NEW i \in 1 .. n, IsOpen(document[i]), t.parent[i] = 0 PROVE i = a
    <2>1. i \in 1 .. next - 1
        <3>1. CASE pending
            <4>1. n = next - 1
                BY <1>1, <3>1, ShownIs
            <4> QED BY <4>1
        <3>2. CASE ~pending
            <4>1. n = next /\ document[n].kind = "end"
                BY <1>1, <3>2, ShownIs DEF Closing, Upcoming
            <4>2. i # n
                BY <1>3, <4>1 DEF IsOpen
            <4> QED BY <1>2, <4>1, <4>2
        <3> QED BY <3>1, <3>2
    <2>2. Settled(i)
        BY <1>1, <1>3, <2>1 DEF Kept, Chained
    <2>3. i = Entered(1)
        BY <1>3, <2>2 DEF Settled
    <2> QED BY <1>1, <2>3
<1> QED BY <1>1, <1>2, <1>3 DEF OnlyRoot

\* The blocks that are read are the children of the root.
LEMMA BlocksRead ==
    ASSUME NEW d, NEW t, NEW a, NEW n, OnlyRoot(d, t, a, n), NEW r, Agree(t, r, n)
    PROVE  \A part \in Range(Blocks) : At(r, part) = Children(t, a) \cap At(t, part)
<1>1. /\ d \in Seq(Event) /\ t = Tree(d) /\ n \in 1 .. Len(d) /\ a \in 1 .. n /\ t.close[a] = n
      /\ \A i \in 1 .. n : IsOpen(d[i]) /\ t.parent[i] = 0 => i = a
    BY DEF OnlyRoot
<1>2. t.event = d /\ Len(d) \in Nat /\ n \in Nat
    BY <1>1, TreeIs
<1>3. \A part : \A j : j \in At(r, part) <=> j \in At(t, part) /\ j \in 1 .. n
    BY DEF Agree
<1>4. ASSUME NEW b \in Range(Blocks), NEW i \in 1 .. n, t.part[i] = b PROVE i \in Children(t, a)
    <2>1. PICK p, part : p = t.parent[i] /\ part = t.part[i]
        OBVIOUS
    <2>2. i \in 1 .. Len(d) /\ part \in Range(Blocks)
        BY <1>1, <1>2, <1>4, <2>1
    <2>3. part \in Range(Blocks) => p # 0 /\ t.part[p] = "KULDEMENY"
        BY <1>1, <2>1, <2>2, PartMeans
    <2>4. part # "none" <=> IsOpen(d[i])
        BY <1>1, <2>1, <2>2, PartMeans
    <2>5. IsOpen(d[i])
        BY <2>2, <2>4, PartsApart DEF Apart
    <2>6. p \in 1 .. i - 1 /\ d[p].kind = "start" /\ i < t.close[p]
        BY <1>1, <2>1, <2>2, <2>3, <2>5, ParentEncloses
    <2>7. p \in 1 .. n /\ p \in 1 .. Len(d) /\ IsOpen(d[p])
        BY <1>1, <1>2, <2>6 DEF IsOpen
    <2>8. t.parent[p] = 0
        BY <1>1, <2>2, <2>3, <2>7, OnlyRootsLead
    <2>9. p = a
        BY <1>1, <2>7, <2>8
    <2>10. i \in a + 1 .. t.close[a] - 1
        BY <1>1, <1>2, <2>6, <2>9
    <2> QED BY <1>2, <2>1, <2>5, <2>9, <2>10 DEF Children
<1>5. \A j \in Children(t, a) : j \in 1 .. n
    BY <1>1, ChildrenAlike
<1>6. ASSUME NEW b \in Range(Blocks) PROVE At(r, b) = Children(t, a) \cap At(t, b)
    <2>1. \A j \in At(t, b) : t.part[j] = b
        BY DEF At
    <2>2. \A j : j \in At(r, b) <=> j \in Children(t, a) /\ j \in At(t, b)
        BY <1>3, <1>4, <1>5, <2>1
    <2> QED BY <2>2
<1> QED BY <1>6

\* The dispatches that are read are those in the root's block of dispatches.
LEMMA DispatchesRead ==
    ASSUME NEW d, NEW t, NEW a, NEW n, OnlyRoot(d, t, a, n), NEW r, Agree(t, r, n)
    PROVE  /\ At(r, "EXPEDIALAS") = Under(t, Children(t, a) \cap At(t, "EXPEDIALASOK"), "EXPEDIALAS")
           /\ \A i \in At(r, "EXPEDIALAS") : i \in 1 .. n
<1>1. /\ d \in Seq(Event) /\ t = Tree(d) /\ n \in 1 .. Len(d) /\ a \in 1 .. n /\ t.close[a] = n
    BY DEF OnlyRoot
<1>2. t.event = d /\ Len(d) \in Nat /\ n \in Nat /\ DOMAIN t.part = 1 .. Len(d)
    <2>1. t.event = d /\ Len(d) \in Nat /\ n \in Nat
        BY <1>1, TreeIs
    <2>2. DOMAIN t.part = 1 .. Len(d)
        BY <1>1, DomainIs
    <2> QED BY <2>1, <2>2
<1>3. \A part : \A j : j \in At(r, part) <=> j \in At(t, part) /\ j \in 1 .. n
    BY DEF Agree
<1>4. \A j \in 1 .. n : t.close[j] \in j .. n
    BY DEF Agree
<1> DEFINE P == Children(t, a) \cap At(t, "EXPEDIALASOK")
<1>5. At(r, "EXPEDIALASOK") = P
    <2>1. "EXPEDIALASOK" \in Range(Blocks)
        BY DEF Range, Blocks
    <2> QED BY <2>1, BlocksRead
<1>6. \A j \in P : j \in 1 .. n /\ j # 0
    BY <1>3, <1>5
<1>7. ASSUME NEW i \in At(t, "EXPEDIALAS")
      PROVE  i \in 1 .. n <=> t.parent[i] \in P
    <2>1. PICK p, part : p = t.parent[i] /\ part = t.part[i]
        OBVIOUS
    <2>2. i \in 1 .. Len(d) /\ t.part[i] = "EXPEDIALAS"
        BY <1>2, <1>7 DEF At
    <2>3. IsOpen(d[i]) /\ p # 0 /\ t.part[p] = "EXPEDIALASOK"
        BY <1>1, <2>1, <2>2, DispatchMeans
    <2>6. p \in 1 .. i - 1 /\ i < t.close[p]
        BY <1>1, <2>1, <2>2, <2>3, ParentEncloses
    <2> HIDE DEF P
    <2>7. ASSUME i \in 1 .. n PROVE p \in P
        <3>1. p \in 1 .. n /\ p \in 1 .. Len(d)
            BY <1>1, <1>2, <2>6, <2>7
        <3>2. p \in At(t, "EXPEDIALASOK")
            BY <1>2, <2>3, <3>1 DEF At
        <3> QED BY <1>3, <1>5, <3>1, <3>2
    <2>8. ASSUME p \in P PROVE i \in 1 .. n
        <3>1. p \in 1 .. n
            BY <1>6, <2>8
        <3>2. t.close[p] \in p .. n
            BY <1>4, <3>1
        <3> QED BY <1>2, <2>2, <2>6, <3>1, <3>2
    <2> QED BY <2>1, <2>7, <2>8
<1> HIDE DEF P
<1>8. \A j : j \in At(r, "EXPEDIALAS") <=> j \in At(t, "EXPEDIALAS") /\ t.parent[j] \in P
    BY <1>3, <1>7
<1>9. At(r, "EXPEDIALAS") = Under(t, P, "EXPEDIALAS")
    BY <1>8 DEF Under
<1> QED BY <1>3, <1>9 DEF P

Among(S, n) == S \subseteq 1 .. n

\* The list of dispatches, of the whole document and of what is read.
LEMMA DispatchListAlike ==
    ASSUME NEW d \in Seq(Event), NEW t, t = Tree(d), NEW n \in 1 .. Len(d), NEW r, Agree(t, r, n),
           NEW S, Among(S, n)
    PROVE  DispatchList(r, S) = DispatchList(t, S)
<1>1. n \in Nat
    BY TreeIs
<1>2. InOrder(S) \in Seq(S)
    BY <1>1, InOrderIs DEF Among
<1>3. \A k \in DOMAIN InOrder(S) : InOrder(S)[k] \in 1 .. n
    <2>0. S \subseteq 1 .. n
        BY DEF Among
    <2>1. PICK s : s = InOrder(S)
        OBVIOUS
    <2>2. s \in Seq(S)
        BY <1>2, <2>1
    <2>3. \A k \in DOMAIN s : s[k] \in S
        BY <2>2
    <2> QED BY <2>0, <2>1, <2>3
<1>4. \A k \in DOMAIN InOrder(S) : DispatchAt(r, InOrder(S)[k]) = DispatchAt(t, InOrder(S)[k])
    BY <1>3, DispatchAlike
<1> QED BY <1>4 DEF DispatchList

\* There is one header at most.
LEMMA OneHeader ==
    ASSUME NEW d, NEW t, NEW a, NEW n, OnlyRoot(d, t, a, n), FaultlessTo(t, n + 1),
           NEW i \in Children(t, a) \cap At(t, "FEJRESZ"), NEW j \in Children(t, a) \cap At(t, "FEJRESZ")
    PROVE  i = j
<1>1. /\ d \in Seq(Event) /\ t = Tree(d) /\ n \in 1 .. Len(d) /\ a \in 1 .. n /\ t.close[a] = n
    BY DEF OnlyRoot
<1>2. t.event = d /\ Len(d) \in Nat /\ n \in Nat
    BY <1>1, TreeIs
<1>3. \A k \in Children(t, a) : k \in a + 1 .. n - 1 /\ IsOpen(d[k]) /\ t.parent[k] = a
    BY <1>1, <1>2 DEF Children
<1>4. "FEJRESZ" \in Range(Blocks)
    BY DEF Range, Blocks
<1>5. ASSUME NEW x \in Children(t, a) \cap At(t, "FEJRESZ"), NEW y \in Children(t, a) \cap At(t, "FEJRESZ"),
             x < y
      PROVE  FALSE
    <2>1. x \in 1 .. Len(d) /\ y \in 1 .. Len(d) /\ y \in 1 .. n + 1 - 1 /\ x \in 1 .. y - 1 /\ y \in Nat
        BY <1>1, <1>2, <1>3, <1>5
    <2>2. t.part[x] = "FEJRESZ" /\ t.part[y] = "FEJRESZ"
        BY DEF At
    <2>3. d[x].name = d[y].name
        BY <1>1, <1>4, <2>1, <2>2, SameName
    <2>4. x \in Twins(t, y)
        BY <1>2, <1>3, <2>1, <2>2, <2>3 DEF Twins
    <2>5. t.parent[y] = a /\ a # 0 /\ IsOpen(t.event[y])
        BY <1>1, <1>2, <1>3
    <2>6. t.part[a] # "leaf"
        <3>1. PICK p, part : p = t.parent[y] /\ part = t.part[y]
            OBVIOUS
        <3>2. part \in Range(Blocks) => t.part[p] = "KULDEMENY"
            BY <1>1, <2>1, <3>1, PartMeans
        <3> QED BY <1>4, <2>2, <2>5, <3>1, <3>2
    <2>7. PlaceFaults(t, y) = {"malformed.duplicate_element"}
        BY <1>4, <2>1, <2>2, <2>4, <2>5, <2>6, PlaceFaultsAre
    <2>8. FaultsAt(t, y) # {}
        BY <2>5, <2>7 DEF FaultsAt
    <2>9. y \in 1 .. n
        BY <1>2, <2>1
    <2> QED BY <1>2, <2>8, <2>9, FaultlessAt
<1>6. i \in Int /\ j \in Int
    BY <1>1, <1>2, <1>3
<1>7. ~(i < j) /\ ~(j < i)
    BY <1>5
<1> QED BY <1>6, <1>7

\* What the root's call returns is what is read.
ValueOfCall(f, count) ==
    [header |-> The(f.header), receipt_present |-> f.receipt, openings_present |-> f.openings,
     return_receipt_present |-> f.returned, dispatches |-> f.dispatches, unknown_elements |-> count]

LEMMA ConsignmentMeans ==
    ASSUME NEW d, NEW t, NEW a, NEW n, OnlyRoot(d, t, a, n), FaultlessTo(t, n + 1), NEW r, Agree(t, r, n),
           NEW f \in Frame, f.at = "KULDEMENY", f.header # Absent,
           ConsignmentFits(f, t, Children(t, a), Children(t, a))
    PROVE  Meaning(r) = ValueOfCall(f, Cardinality(At(r, "unknown")))
<1>1. d \in Seq(Event) /\ t = Tree(d) /\ n \in 1 .. Len(d) /\ a \in 1 .. n
    BY DEF OnlyRoot
<1> DEFINE C == Children(t, a)
<1>2. /\ At(r, "FEJRESZ") = C \cap At(t, "FEJRESZ") /\ At(r, "ERKEZTETES") = C \cap At(t, "ERKEZTETES")
      /\ At(r, "BONTASOK") = C \cap At(t, "BONTASOK") /\ At(r, "TERTIVEVENY") = C \cap At(t, "TERTIVEVENY")
    <2>1. {"FEJRESZ", "ERKEZTETES", "BONTASOK", "TERTIVEVENY"} \subseteq Range(Blocks)
        BY DEF Range, Blocks
    <2> QED BY <2>1, BlocksRead
<1>3. f.receipt \in BOOLEAN /\ f.openings \in BOOLEAN /\ f.returned \in BOOLEAN
    BY DEF Frame
<1>4. /\ f.header = {HeaderAt(t, j) : j \in C \cap At(t, "FEJRESZ")}
      /\ f.receipt <=> C \cap At(t, "ERKEZTETES") # {}
      /\ f.openings <=> C \cap At(t, "BONTASOK") # {}
      /\ f.returned <=> C \cap At(t, "TERTIVEVENY") # {}
      /\ f.dispatches = DispatchList(t, Under(t, C \cap At(t, "EXPEDIALASOK"), "EXPEDIALAS"))
    BY DEF ConsignmentFits
<1>5. /\ f.receipt = (At(r, "ERKEZTETES") # {}) /\ f.openings = (At(r, "BONTASOK") # {})
      /\ f.returned = (At(r, "TERTIVEVENY") # {})
    <2> HIDE DEF C
    <2> QED BY <1>2, <1>3, <1>4
<1>6. The(f.header) = HeaderAt(r, The(At(r, "FEJRESZ")))
    <2>1. PICK h : h \in C \cap At(t, "FEJRESZ")
        BY <1>4 DEF Absent
    <2>2. \A j \in C \cap At(t, "FEJRESZ") : j = h
        BY <2>1, OneHeader
    <2>3. C \cap At(t, "FEJRESZ") = {h}
        BY <2>1, <2>2
    <2>4. h \in 1 .. n
        BY <1>1, <2>1, ChildrenAlike
    <2> HIDE DEF C
    <2>5. f.header = {HeaderAt(t, h)} /\ At(r, "FEJRESZ") = {h}
        BY <1>2, <1>4, <2>3
    <2>6. The(f.header) = HeaderAt(t, h) /\ The(At(r, "FEJRESZ")) = h
        BY <2>5, TheOne
    <2>7. HeaderAt(r, h) = HeaderAt(t, h)
        BY <2>4, ValuesAlike
    <2> QED BY <2>6, <2>7
<1>7. f.dispatches = DispatchList(r, At(r, "EXPEDIALAS"))
    <2>1. PICK S : S = At(r, "EXPEDIALAS")
        OBVIOUS
    <2>2. S = Under(t, C \cap At(t, "EXPEDIALASOK"), "EXPEDIALAS") /\ Among(S, n)
        BY <2>1, DispatchesRead DEF Among
    <2>3. DispatchList(r, S) = DispatchList(t, S)
        BY <1>1, <2>2, DispatchListAlike
    <2> HIDE DEF C
    <2> QED BY <1>4, <2>1, <2>2, <2>3
<1>8. Meaning(r) =
        [header |-> HeaderAt(r, The(At(r, "FEJRESZ"))),
         receipt_present |-> At(r, "ERKEZTETES") # {},
         openings_present |-> At(r, "BONTASOK") # {},
         return_receipt_present |-> At(r, "TERTIVEVENY") # {},
         dispatches |-> DispatchList(r, At(r, "EXPEDIALAS")),
         unknown_elements |-> Cardinality(At(r, "unknown"))]
    BY Zenon DEF Meaning, DispatchList
<1> QED BY <1>5, <1>6, <1>7, <1>8, Zenon DEF ValueOfCall

LEMMA CloseRootAccepts ==
    ASSUME Standing, Kept, CloseRoot, Top.header # Absent
    PROVE  outcome' = Verdict(document) /\ document' = document /\ outcome'.kind = "accepted"
<1>1. PICK t, a, n, r : t = Tree(document) /\ a = Entered(depth) /\ n = Shown /\ r = Read(t)
    OBVIOUS
<1>2. /\ Reading /\ Closing /\ Top.at = "KULDEMENY" /\ Top \in Frame /\ a = FirstElement(t)
      /\ n \in 1 .. Len(document) /\ a \in 1 .. n /\ t.close[a] = n /\ IsOpen(document[a])
      /\ ConsignmentFits(Top, t, Children(t, a), Children(t, a))
    BY <1>1, RootScene
<1>3. /\ document \in Seq(Event) /\ next \in Nat \ {0} /\ Len(document) \in Nat
      /\ next \in 1 .. Len(document) + 1
    BY <1>2, Stand
<1>4. FaultlessTo(t, n + 1) /\ OnlyRoot(document, t, a, n)
    BY <1>1, RootFaultless, RootIsOnly
<1>5. Agree(t, r, n) /\ Faults(r) = {}
    <2>1. a \in 1 .. Len(document)
        BY <1>2, <1>3
    <2> QED BY <1>1, <1>2, <1>3, <1>4, <2>1, NoFaults
<1>6. Meaning(r) = ValueOfCall(Top, Cardinality(At(r, "unknown")))
    BY <1>2, <1>4, <1>5, ConsignmentMeans
<1>7. unknown = Cardinality(At(r, "unknown"))
    <2>1. unknown = Cardinality(At(t, "unknown") \cap 1 .. next - 1)
        BY <1>1, <1>2 DEF Standing, Counted
    <2>2. \A i : i \in At(r, "unknown") <=> i \in At(t, "unknown") /\ i \in 1 .. n
        BY <1>5 DEF Agree
    <2>3. ASSUME NEW i \in At(t, "unknown") PROVE i \in 1 .. n <=> i \in 1 .. next - 1
        <3>1. CASE pending
            <4>1. n = next - 1
                BY <1>1, <1>2, <3>1, ShownIs
            <4> QED BY <4>1
        <3>2. CASE ~pending
            <4>1. n = next /\ document[n].kind = "end"
                BY <1>1, <1>2, <3>2, ShownIs DEF Closing, Upcoming
            <4>2. t.part[n] = "none"
                BY <1>1, <1>2, <1>3, <4>1, PartIs DEF IsOpen
            <4>3. i # n
                BY <4>2 DEF At
            <4>4. i \in Int \/ ~(i \in Int)
                OBVIOUS
            <4> QED BY <1>3, <4>1, <4>3, <4>4
        <3> QED BY <3>1, <3>2
    <2>4. At(r, "unknown") = At(t, "unknown") \cap 1 .. next - 1
        BY <2>2, <2>3
    <2> QED BY <2>1, <2>4
<1>8. outcome' = [kind |-> "accepted", value |-> ValueOfCall(Top, unknown)] /\ document' = document
    BY DEF CloseRoot, Accept, ValueOfCall
<1>9. ~(Len(document) > MaxDocument)
    <2>1. Len(document) <= MaxDocument
        BY <1>1, <1>2, EarlierFaultless
    <2> QED BY <1>3, <2>1, LimitsAssumption
<1>10. Verdict(document) = VerdictOf(r, Faults(r))
    BY <1>1, <1>9, VerdictReads
<1>11. VerdictOf(r, Faults(r)) = [kind |-> "accepted", value |-> Meaning(r)]
    BY <1>5 DEF VerdictOf
<1> QED BY <1>6, <1>7, <1>8, <1>10, <1>11

LEMMA InitKept == ASSUME Init, Standing PROVE Kept
<1>1. /\ next = 1 /\ depth = 0 /\ pending = FALSE /\ stack = <<DocumentCall>>
      /\ (Reading => ~(Len(document) > MaxDocument))
    BY DEF Init, Reading
<1>2. 1 .. depth = {} /\ 1 .. next - 1 = {} /\ Len(stack) = 1 /\ 1 .. Len(stack) - 1 = {} /\ Top.at = "document"
    BY <1>1 DEF Top, DocumentCall
<1>3. Chained
    BY <1>1, <1>2 DEF Chained
<1>4. Suited
    BY <1>2 DEF Suited
<1>5. Filled
    BY <1>2 DEF Filled
<1>6. Clean
    <2>1. ASSUME Reading PROVE Len(document) <= MaxDocument
        BY <1>1, <2>1, Stand, LimitsAssumption
    <2> QED BY <1>2, <2>1 DEF Clean
<1> QED BY <1>3, <1>4, <1>5, <1>6 DEF Kept

\* Nothing is kept of a document that is no longer read.
LEMMA EndedIsKept == ASSUME ~Reading' PROVE Kept'
BY DEF Kept, Chained, Suited, Filled, Clean

\* The reader ends with what the document deserves.
Concludes ==
    /\ document' = document
    /\ \/ outcome'.kind = "refused" /\ Refused(outcome'.code)
       \/ outcome'.kind = "accepted" /\ outcome' = Verdict(document)

LEMMA RefusalConcludes == ASSUME Standing, Kept, RefusesWell PROVE Concludes
BY RefusesExactly DEF RefusesWell, Concludes

LEMMA StepsKeep == ASSUME Standing, Kept, Next, ~Returned PROVE KeepsOn \/ Concludes
<1>1. CASE ScannerRefuses \/ OpenInLeaf
    BY <1>1, ScannerRefusesWell, OpenInLeafKeeps, RefusalConcludes
<1>2. CASE PassOver \/ TakeText
    BY <1>2, PassOverKeeps, TakeTextKeeps DEF KeepsOn, PassOver, TakeText
<1>3. CASE EndOfDocument
    <2>1. document' = document
        BY <1>3 DEF EndOfDocument, Refuse
    <2> QED BY <1>3, <2>1, EndRefusesExactly DEF Concludes
<1>4. CASE OpenRoot \/ OpenAttachments \/ \E position \in DOMAIN Blocks : OpenBlock(position)
    BY <1>4, OpenRootKeeps, OpenAttachmentsKeeps, OpenBlockKeeps, RefusalConcludes
<1>5. CASE OpenLeaf \/ OpenDispatch \/ OpenAttachment \/ OpenUnknown
    <2>1. Kept'
        BY <1>5, OpenLeafKeeps, OpenDispatchKeeps, OpenAttachmentKeeps, OpenUnknownKeeps
    <2>2. outcome' = outcome
        BY <1>5 DEF OpenLeaf, OpenDispatch, OpenAttachment, OpenUnknown, SkipUnknown, OpenedFor
    <2> QED BY <2>1, <2>2 DEF KeepsOn
<1>6. CASE OpenInstructions \/ OpenSkipped
    BY <1>6, OpenInstructionsKeeps, OpenSkippedKeeps DEF KeepsOn, OpenInstructions, OpenSkipped
<1>7. CASE CloseSlot \/ CloseCount \/ CloseHeader \/ CloseAttachment
    BY <1>7, CloseSlotKeeps, CloseCountKeeps, CloseHeaderKeeps, CloseAttachmentKeeps, RefusalConcludes
<1>8. CASE CloseSkipped \/ CloseAttachments \/ CloseDispatch \/ CloseDispatches
    <2>1. Kept'
        BY <1>8, CloseSkippedKeeps, CloseAttachmentsKeeps, CloseDispatchKeeps, CloseDispatchesKeeps
    <2>2. outcome' = outcome
        BY <1>8 DEF CloseSkipped, CloseAttachments, CloseDispatch, CloseDispatches, ClosedWith
    <2> QED BY <2>1, <2>2 DEF KeepsOn
<1>9. CASE CloseRoot
    BY <1>9, CloseRootRefuses, CloseRootAccepts, RefusalConcludes DEF Concludes
<1> QED BY <1>1, <1>2, <1>3, <1>4, <1>5, <1>6, <1>7, <1>8, <1>9 DEF Next

\* Only while a document is read does anything happen.
LEMMA StepsAreReading == ASSUME Next, ~Returned PROVE Reading
<1>1. ASSUME NEW calls, Opening(calls) PROVE Reading
    BY <1>1 DEF Opening, Incoming
<1>2. Closing => Reading
    BY DEF Closing
<1>3. CASE ScannerRefuses \/ PassOver \/ TakeText \/ EndOfDocument
    BY <1>3 DEF ScannerRefuses, PassOver, TakeText, EndOfDocument, Incoming
<1>4. CASE \/ OpenRoot \/ OpenLeaf \/ OpenDispatch \/ OpenAttachments \/ OpenInstructions
           \/ OpenAttachment \/ OpenUnknown \/ OpenInLeaf \/ OpenSkipped
           \/ \E position \in DOMAIN Blocks : OpenBlock(position)
    BY <1>1, <1>4 DEF OpenRoot, OpenLeaf, OpenDispatch, OpenAttachments, OpenInstructions,
         OpenAttachment, OpenUnknown, OpenInLeaf, OpenSkipped, OpenBlock
<1>5. CASE \/ CloseSkipped \/ CloseSlot \/ CloseCount \/ CloseHeader \/ CloseAttachment
           \/ CloseAttachments \/ CloseDispatch \/ CloseDispatches \/ CloseRoot
    BY <1>2, <1>5 DEF CloseSkipped, CloseSlot, CloseCount, CloseHeader, CloseAttachment,
         CloseAttachments, CloseDispatch, CloseDispatches, CloseRoot
<1> QED BY <1>3, <1>4, <1>5 DEF Next

LEMMA NothingChanges == ASSUME Kept, UNCHANGED vars PROVE Kept'
<1>1. /\ document' = document /\ next' = next /\ depth' = depth /\ pending' = pending /\ stack' = stack
      /\ Reading' = Reading
    BY DEF vars, Reading
<1>2. Chained'
    BY <1>1 DEF Kept, Chained, InChain, Settled, Entered, Kids, Shown
<1>3. Suited'
    BY <1>1 DEF Kept, Suited, Entered, PartOf
<1>4. Filled'
    BY <1>1, ZenonT(30) DEF Kept, Filled, Entered, Kids, Done, Shown, Top
<1>5. Clean'
    BY <1>1 DEF Kept, Clean, Shown
<1> QED BY <1>2, <1>3, <1>4, <1>5 DEF Kept

LEMMA NextIsExact ==
    ASSUME Standing, Kept, VerdictIsExact, [Next]_vars
    PROVE  Kept' /\ VerdictIsExact'
<1>1. CASE Returned \/ UNCHANGED vars
    <2>1. UNCHANGED vars
        BY <1>1 DEF Returned
    <2>2. document' = document /\ outcome' = outcome
        BY <2>1 DEF vars
    <2> QED BY <2>1, <2>2, NothingChanges DEF VerdictIsExact
<1>2. CASE Next /\ ~Returned
    <2>1. Reading /\ (KeepsOn \/ Concludes)
        BY <1>2, StepsKeep, StepsAreReading
    <2>2. CASE KeepsOn
        BY <2>1, <2>2 DEF KeepsOn, Reading, VerdictIsExact
    <2>3. CASE Concludes
        <3>1. ~Reading' /\ document' = document
            BY <2>3 DEF Concludes, Reading
        <3>2. Verdict(document)' = Verdict(document)
            BY <3>1
        <3>3. VerdictIsExact'
            BY <2>3, <3>2 DEF Concludes, Refused, VerdictIsExact
        <3> QED BY <3>1, <3>3, EndedIsKept
    <2> QED BY <2>1, <2>2, <2>3
<1> QED BY <1>1, <1>2

\* A document is read as what it says.  parse() returns the value that the
\* grammar gives the document up to the end of its first element when nothing
\* is wrong with that, and otherwise a code for one of the faults that show at
\* the first event where one does: nothing that only shows later, nothing of
\* what stands behind the root, and no value that was put together otherwise.
THEOREM VerdictsAreExact == Spec => []VerdictIsExact
<1> DEFINE IInv == Standing /\ Kept /\ VerdictIsExact
<1>1. Init => IInv
    <2> SUFFICES ASSUME Init PROVE IInv
        OBVIOUS
    <2>1. elements = 0 /\ depth = 0 /\ MaxElements \in Nat /\ MaxDepth \in Nat
        BY LimitsAssumption DEF Init
    <2>2. Standing
        BY <2>1, InitTyped, InitAgrees, InitStands DEF Standing, Within
    <2>3. Kept
        BY <2>2, InitKept
    <2>4. VerdictIsExact
        <3>1. CASE Reading
            BY <3>1 DEF Reading, VerdictIsExact
        <3>2. CASE ~Reading
            BY <3>2, InitRefusesExactly DEF VerdictIsExact, Refused
        <3> QED BY <3>1, <3>2
    <2> QED BY <2>2, <2>3, <2>4
<1>2. IInv /\ [Next]_vars => IInv'
    BY NextStands, NextIsExact
<1>3. IInv => VerdictIsExact
    OBVIOUS
<1> HIDE DEF IInv
<1> QED BY <1>1, <1>2, <1>3, PTL DEF Spec

=============================================================================
