------------------------- MODULE ResponseParserProofs -------------------------
(***************************************************************************)
(* No item of an answer is swallowed, and an answer that is recorded in    *)
(* pieces leaves the events of one that was recorded at once: for every    *)
(* answer of any length and any number of crashes.                         *)
(***************************************************************************)
EXTENDS ResponseParser, FiniteSetTheorems, SequenceTheorems, TLAPS

(***************************************************************************)
(* Counting.                                                               *)
(***************************************************************************)

\* How many of the first n positions are in a set.
Count(S, n) == Cardinality({i \in 1 .. n : i \in S})

\* Counting up to n is counting a finite set.
LEMMA CountFinite ==
  ASSUME NEW n \in Nat, NEW S
  PROVE  IsFiniteSet({i \in 1 .. n : i \in S}) /\ Count(S, n) \in Nat
<1>1. IsFiniteSet(1 .. n)
  BY FS_Interval
<1>2. {i \in 1 .. n : i \in S} \in SUBSET (1 .. n)
  OBVIOUS
<1>3. IsFiniteSet({i \in 1 .. n : i \in S})
  BY <1>1, <1>2, FS_Subset
<1> QED
  BY <1>3, FS_CardinalityType DEF Count

\* One more position counts for one or for nothing.
LEMMA CountStep ==
  ASSUME NEW n \in Nat, NEW S
  PROVE  /\ Count(S, 0) = 0
         /\ Count(S, n + 1) = Count(S, n) + (IF n + 1 \in S THEN 1 ELSE 0)
<1> DEFINE A == {i \in 1 .. n : i \in S}
           B == {i \in 1 .. n + 1 : i \in S}
<1>1. Count(S, 0) = 0
  <2>1. {i \in 1 .. 0 : i \in S} = {}
    OBVIOUS
  <2> QED
    BY <2>1, FS_EmptySet DEF Count
<1>2. /\ IsFiniteSet(A) /\ Count(S, n) \in Nat
      /\ Cardinality(A) = Count(S, n) /\ Cardinality(B) = Count(S, n + 1)
  BY CountFinite DEF Count
<1>3. CASE n + 1 \in S
  <2>1. B = A \cup {n + 1} /\ n + 1 \notin A
    BY <1>3
  <2>2. Cardinality(A \cup {n + 1}) = Cardinality(A) + 1
    BY <1>2, <2>1, FS_AddElement
  <2> HIDE DEF A, B
  <2> QED
    BY <1>1, <1>2, <1>3, <2>1, <2>2
<1>4. CASE n + 1 \notin S
  <2>1. B = A
    BY <1>4
  <2>2. Count(S, n + 1) = Count(S, n)
    BY <2>1 DEF Count
  <2> HIDE DEF A, B
  <2> QED
    BY <1>1, <1>2, <1>4, <2>2
<1> QED
  BY <1>3, <1>4

\* A position in the set is counted among the first n.
LEMMA CountBelow ==
  ASSUME NEW n \in Nat, NEW S, NEW i \in 1 .. n, i \in S
  PROVE  Count(S, i) \in 1 .. Count(S, n)
<1> DEFINE A == {j \in 1 .. i : j \in S}
           B == {j \in 1 .. n : j \in S}
<1>1. IsFiniteSet(A) /\ IsFiniteSet(B) /\ Count(S, i) \in Nat /\ Count(S, n) \in Nat
  BY CountFinite
<1>2. A \in SUBSET B
  OBVIOUS
<1>3. Cardinality(A) <= Cardinality(B)
  BY <1>1, <1>2, FS_Subset
<1>4. A # {}
  OBVIOUS
<1>5. Cardinality(A) # 0
  BY <1>1, <1>4, FS_EmptySet
<1> QED
  BY <1>1, <1>3, <1>5 DEF Count

\* Tagged elements are as many as the elements.
LEMMA Tagged ==
  ASSUME NEW S, IsFiniteSet(S), NEW tag
  PROVE  /\ IsFiniteSet({<<tag, i>> : i \in S})
         /\ Cardinality({<<tag, i>> : i \in S}) = Cardinality(S)
<1> DEFINE T == {<<tag, i>> : i \in S}
           f == [i \in S |-> <<tag, i>>]
<1>1. f \in Bijection(S, T)
  BY DEF Bijection, Injection, Surjection, IsInjective
<1>2. ExistsBijection(S, T)
  BY <1>1 DEF ExistsBijection
<1> QED
  BY <1>2, FS_Bijection

\* A sequence has as many tagged positions as entries.
LEMMA TaggedPositions ==
  ASSUME NEW X, NEW s \in Seq(X), NEW tag
  PROVE  /\ IsFiniteSet({<<tag, i>> : i \in DOMAIN s})
         /\ Cardinality({<<tag, i>> : i \in DOMAIN s}) = Len(s)
<1>1. DOMAIN s = 1 .. Len(s) /\ Len(s) \in Nat
  OBVIOUS
<1>2. IsFiniteSet(DOMAIN s) /\ Cardinality(DOMAIN s) = Len(s)
  BY <1>1, FS_Interval
<1> QED
  BY <1>2, Tagged

\* The sizes of disjoint sets add up.
LEMMA Disjoint ==
  ASSUME NEW S, NEW T, IsFiniteSet(S), IsFiniteSet(T), S \cap T = {}
  PROVE  IsFiniteSet(S \cup T) /\ Cardinality(S \cup T) = Cardinality(S) + Cardinality(T)
<1>1. Cardinality(S \cap T) = 0
  BY FS_EmptySet
<1>2. Cardinality(S) \in Nat /\ Cardinality(T) \in Nat
  BY FS_CardinalityType
<1>3. /\ IsFiniteSet(S \cup T)
      /\ Cardinality(S \cup T) = Cardinality(S) + Cardinality(T) - Cardinality(S \cap T)
  BY FS_Union, Zenon
<1> QED
  BY <1>1, <1>2, <1>3

(***************************************************************************)
(* The items of an answer are counted once whatever its shapes.            *)
(***************************************************************************)
LEMMA ListedType ==
  ASSUME NEW items \in Seq(Items) \cup {None}
  PROVE  Listed(items) \in Seq(Items)
  BY DEF Listed

\* A single item is a list of at most one.
LEMMA SingleType ==
  ASSUME NEW item \in Item \cup {None}
  PROVE  Single(item) \in Seq(Items)
  BY DEF Single, Items

\* The places an answer may hold its calls in.
LEMMA AnswerParts ==
  ASSUME NEW a \in Answer
  PROVE  /\ Listed(a.tool_calls) \in Seq(Items)
         /\ Single(a.tool_call) \in Seq(Items)
         /\ Listed(a.tool_use) \in Seq(Items)
         /\ Single(a.content.tool_call) \in Seq(Items)
         /\ Listed(a.content.tool_calls) \in Seq(Items)
         /\ a.content.entries \in Seq(Entry)
<1>1. /\ a.tool_calls \in Seq(Items) \cup {None}
      /\ a.tool_use \in Seq(Items) \cup {None}
      /\ a.tool_call \in Item \cup {None}
      /\ a.content \in Content
  BY DEF Answer
<1>2. /\ a.content.tool_call \in Item \cup {None}
      /\ a.content.tool_calls \in Seq(Items) \cup {None}
      /\ a.content.entries \in Seq(Entry)
  BY <1>1 DEF Content
<1> QED
  BY <1>1, <1>2, ListedType, SingleType

\* The positions of the tool_use entries of a content.
Used(a) ==
  {i \in DOMAIN a.content.entries : a.content.entries[i].type = "tool_use"}

\* An answer uses finitely many entries.
LEMMA UsedFinite ==
  ASSUME NEW a \in Answer
  PROVE  IsFiniteSet(Used(a)) /\ Cardinality(Used(a)) \in Nat
<1>1. DOMAIN a.content.entries = 1 .. Len(a.content.entries)
      /\ Len(a.content.entries) \in Nat
  BY AnswerParts
<1>2. IsFiniteSet(DOMAIN a.content.entries)
  BY <1>1, FS_Interval
<1>3. Used(a) \in SUBSET DOMAIN a.content.entries
  BY DEF Used
<1> QED
  BY <1>2, <1>3, FS_Subset, FS_CardinalityType

\* What a content adds.
OfContent(a) ==
  CASE a.content.form = "list" ->
         [k \in 1 .. Cardinality(Used(a)) |-> a.content.entries[Nth(Used(a), k)].item]
    [] a.content.form = "json" -> Single(a.content.tool_call) \o Listed(a.content.tool_calls)
    [] OTHER -> <<>>

\* RawItems lists the places one after another.
LEMMA RawItemsParts ==
  ASSUME NEW a \in Answer
  PROVE  RawItems(a) = Listed(a.tool_calls) \o Single(a.tool_call) \o Listed(a.tool_use)
                         \o OfContent(a)
  BY DEF RawItems, OfContent, Used

\* A function on 1 .. n is a sequence of its values.
LEMMA IsSequence ==
  ASSUME NEW f, NEW n \in Nat, f = [i \in 1 .. n |-> f[i]]
  PROVE  f \in Seq({f[i] : i \in 1 .. n}) /\ Len(f) = n
  OBVIOUS

\* The content gives as many items as it uses entries.
LEMMA OfContentLength ==
  ASSUME NEW a \in Answer
  PROVE  /\ \E X : OfContent(a) \in Seq(X)
         /\ Len(OfContent(a)) =
              IF a.content.form = "list" THEN Cardinality(Used(a))
              ELSE IF a.content.form = "json"
              THEN Len(Single(a.content.tool_call) \o Listed(a.content.tool_calls))
              ELSE 0
<1>1. CASE a.content.form = "list"
  <2> DEFINE n == Cardinality(Used(a))
             f == [k \in 1 .. n |-> a.content.entries[Nth(Used(a), k)].item]
  <2>1. n \in Nat
    BY UsedFinite
  <2>2. f \in Seq({f[k] : k \in 1 .. n}) /\ Len(f) = n
    <3> HIDE DEF n
    <3>1. f = [k \in 1 .. n |-> f[k]]
      OBVIOUS
    <3> HIDE DEF f
    <3> QED
      BY <2>1, <3>1, IsSequence
  <2>3. OfContent(a) = f
    BY <1>1 DEF OfContent
  <2> HIDE DEF n, f
  <2>4. OfContent(a) \in Seq({f[k] : k \in 1 .. n})
    BY <2>2, <2>3
  <2> QED
    BY <1>1, <2>2, <2>3, <2>4 DEF n
<1>2. CASE a.content.form = "json"
  <2>1. OfContent(a) = Single(a.content.tool_call) \o Listed(a.content.tool_calls)
    BY <1>2 DEF OfContent
  <2>2. OfContent(a) \in Seq(Items)
    BY <2>1, AnswerParts
  <2> QED
    BY <1>2, <2>1, <2>2
<1>3. CASE a.content.form \notin {"list", "json"}
  <2>1. OfContent(a) = <<>>
    BY <1>3 DEF OfContent
  <2>2. OfContent(a) \in Seq(Items) /\ Len(OfContent(a)) = 0
    BY <2>1
  <2> QED
    BY <1>3, <2>2
<1> QED
  BY <1>1, <1>2, <1>3

\* The raw items are a sequence, as long as its parts.
LEMMA RawItemsLength ==
  ASSUME NEW a \in Answer
  PROVE  /\ RawItems(a) = [i \in 1 .. Len(RawItems(a)) |-> RawItems(a)[i]]
         /\ Len(RawItems(a)) \in Nat
         /\ Len(RawItems(a)) = Len(Listed(a.tool_calls)) + Len(Single(a.tool_call))
                                 + Len(Listed(a.tool_use)) + Len(OfContent(a))
<1> DEFINE p == Listed(a.tool_calls)
           q == Single(a.tool_call)
           r == Listed(a.tool_use)
           s == OfContent(a)
<1>1. PICK X : s \in Seq(X)
  BY OfContentLength
<1>2. p \in Seq(X \cup Items) /\ q \in Seq(X \cup Items) /\ r \in Seq(X \cup Items)
  BY AnswerParts
<1>3. s \in Seq(X \cup Items)
  BY <1>1
<1>4. RawItems(a) = p \o q \o r \o s
  BY RawItemsParts
<1> HIDE DEF p, q, r, s
<1>5. p \o q \in Seq(X \cup Items) /\ Len(p \o q) = Len(p) + Len(q)
  BY <1>2
<1>6. p \o q \o r \in Seq(X \cup Items) /\ Len(p \o q \o r) = Len(p) + Len(q) + Len(r)
  BY <1>2, <1>5
<1>7. /\ RawItems(a) \in Seq(X \cup Items)
      /\ Len(RawItems(a)) = Len(p) + Len(q) + Len(r) + Len(s)
  BY <1>3, <1>4, <1>6
<1>8. RawItems(a) = [i \in 1 .. Len(RawItems(a)) |-> RawItems(a)[i]]
  BY <1>7
<1> QED
  BY <1>7, <1>8 DEF p, q, r, s

\* Each item is collected, whatever shapes an answer mixes, and none twice.
LEMMA ItemsCounted ==
  ASSUME NEW a \in Answer
  PROVE  Cardinality(ItemsOf(a)) = Len(RawItems(a))
<1> DEFINE A == {<<"tool_calls", i>> : i \in DOMAIN Listed(a.tool_calls)}
           B == {<<"tool_call", i>> : i \in DOMAIN Single(a.tool_call)}
           C == {<<"tool_use", i>> : i \in DOMAIN Listed(a.tool_use)}
           D == IF a.content.form = "list"
                THEN {<<"entry", i>> : i \in Used(a)} ELSE {}
           E == IF a.content.form = "json"
                THEN {<<"json", i>> : i \in DOMAIN (Single(a.content.tool_call)
                                                     \o Listed(a.content.tool_calls))}
                ELSE {}
<1>1. IsFiniteSet(A) /\ Cardinality(A) = Len(Listed(a.tool_calls))
  BY AnswerParts, TaggedPositions
<1>2. IsFiniteSet(B) /\ Cardinality(B) = Len(Single(a.tool_call))
  BY AnswerParts, TaggedPositions
<1>3. IsFiniteSet(C) /\ Cardinality(C) = Len(Listed(a.tool_use))
  BY AnswerParts, TaggedPositions
<1>4. /\ IsFiniteSet(D)
      /\ Cardinality(D) = IF a.content.form = "list" THEN Cardinality(Used(a)) ELSE 0
  <2>1. /\ IsFiniteSet({<<"entry", i>> : i \in Used(a)})
        /\ Cardinality({<<"entry", i>> : i \in Used(a)}) = Cardinality(Used(a))
    BY UsedFinite, Tagged
  <2> QED
    BY <2>1, FS_EmptySet
<1>5. /\ IsFiniteSet(E)
      /\ Cardinality(E) =
           IF a.content.form = "json"
           THEN Len(Single(a.content.tool_call) \o Listed(a.content.tool_calls)) ELSE 0
  <2> DEFINE s == Single(a.content.tool_call) \o Listed(a.content.tool_calls)
  <2>1. s \in Seq(Items)
    BY AnswerParts
  <2> HIDE DEF s
  <2>2. /\ IsFiniteSet({<<"json", i>> : i \in DOMAIN s})
        /\ Cardinality({<<"json", i>> : i \in DOMAIN s}) = Len(s)
    BY <2>1, TaggedPositions
  <2> QED
    BY <2>2, FS_EmptySet DEF s
<1>6. ItemsOf(a) = A \cup B \cup C \cup D \cup E
  BY DEF ItemsOf, Used
<1>7. /\ A \cap B = {} /\ (A \cup B) \cap C = {} /\ (A \cup B \cup C) \cap D = {}
      /\ (A \cup B \cup C \cup D) \cap E = {}
  OBVIOUS
<1>8. Cardinality(D) + Cardinality(E) = Len(OfContent(a))
  BY <1>4, <1>5, OfContentLength, UsedFinite, AnswerParts
<1> HIDE DEF A, B, C, D, E
<1>9. IsFiniteSet(A \cup B) /\ Cardinality(A \cup B) = Cardinality(A) + Cardinality(B)
  BY <1>1, <1>2, <1>7, Disjoint
<1>10. /\ IsFiniteSet(A \cup B \cup C)
       /\ Cardinality(A \cup B \cup C) = Cardinality(A \cup B) + Cardinality(C)
  BY <1>3, <1>7, <1>9, Disjoint
<1>11. /\ IsFiniteSet(A \cup B \cup C \cup D)
       /\ Cardinality(A \cup B \cup C \cup D) = Cardinality(A \cup B \cup C) + Cardinality(D)
  BY <1>4, <1>7, <1>10, Disjoint
<1>12. Cardinality(A \cup B \cup C \cup D \cup E)
         = Cardinality(A \cup B \cup C \cup D) + Cardinality(E)
  BY <1>5, <1>7, <1>11, Disjoint
<1>13. /\ Cardinality(A) \in Nat /\ Cardinality(B) \in Nat /\ Cardinality(C) \in Nat
       /\ Cardinality(D) \in Nat /\ Cardinality(E) \in Nat
  BY <1>1, <1>2, <1>3, <1>4, <1>5, FS_CardinalityType
<1>14. Cardinality(A \cup B \cup C \cup D \cup E)
         = Cardinality(A) + Cardinality(B) + Cardinality(C) + Len(OfContent(a))
  BY <1>8, <1>9, <1>10, <1>11, <1>12, <1>13
<1>15. Len(RawItems(a)) = Cardinality(A) + Cardinality(B) + Cardinality(C) + Len(OfContent(a))
  BY <1>1, <1>2, <1>3, RawItemsLength
<1> QED
  BY <1>6, <1>14, <1>15, RawItemsLength

(***************************************************************************)
(* What the loop over the items has made of those it has seen.             *)
(***************************************************************************)
UsableItems   == {i \in DOMAIN raw : Usable(i)}
UnusableItems == {i \in DOMAIN raw : ~Usable(i)}

\* The items that make an error, and the error.
Bad == {i \in DOMAIN raw : ~Usable(i) \/ Coerce(raw[i].args) = Malformed}

ErrorOf(i) ==
  IF raw[i] = NotObject THEN <<"not an object", i>>
  ELSE IF raw[i].name = None THEN <<"no name", i>>
  ELSE <<Malformed>>

CallOf(i) == [id |-> CallId(raw[i], i), args |-> Coerce(raw[i].args)]

\* e are the errors of the first n items, in order.  There is only one such e.
Told(e, n) ==
  /\ e \in Seq({ErrorOf(i) : i \in DOMAIN raw})
  /\ Len(e) = Count(Bad, n)
  /\ \A i \in 1 .. n : i \in Bad => e[Count(Bad, i)] = ErrorOf(i)
  /\ \A k \in 1 .. Len(e) : \E i \in 1 .. n : i \in Bad /\ Count(Bad, i) = k

\* A call without an id carries the place of an item that was seen, and two calls
\* have the same id only when it was given.
IdsTold(n) ==
  /\ \A j \in DOMAIN calls :
       calls[j].id[1] = "given" \/ \E m \in 0 .. n - 1 : calls[j].id = <<"place", m>>
  /\ \A j, k \in DOMAIN calls :
       j # k /\ calls[j].id = calls[k].id => calls[j].id[1] = "given"

MalformedCalls == {j \in DOMAIN calls : calls[j].args = Malformed}

CallsTold(n) ==
  /\ calls \in Seq({CallOf(i) : i \in DOMAIN raw})
  /\ Len(calls) = Count(UsableItems, n)

ErrorsTold(n) ==
  Len(errors) = Count(UnusableItems, n) + Cardinality(MalformedCalls)

Parsed(n) == CallsTold(n) /\ ErrorsTold(n) /\ IdsTold(n) /\ Told(errors, n)

\* How many items the loop has seen.
Seen ==
  IF stage = "items" THEN next - 1 ELSE IF stage = "down" THEN 0 ELSE Len(raw)

Progress ==
  /\ answer \in Answers /\ raw = RawItems(answer)
  /\ stage \in {"items", "errors", "done", "down"}
  /\ stage = "items" => next \in 1 .. Len(raw) + 1
  /\ stage = "errors" => next \in 1 .. Len(errors) + 1
  /\ stage = "down" => next = 1 /\ calls = <<>> /\ errors = <<>>

ParsedInv == Progress /\ Parsed(Seen)

\* The parser stands somewhere in the list of items.
LEMMA RawType ==
  ASSUME Progress
  PROVE  /\ Len(raw) \in Nat /\ DOMAIN raw = 1 .. Len(raw)
         /\ Seen \in 0 .. Len(raw)
<1>1. answer \in Answer
  BY AnswersAssumption DEF Progress
<1>2. /\ raw = [i \in 1 .. Len(raw) |-> raw[i]]
      /\ Len(raw) \in Nat
  BY <1>1, RawItemsLength DEF Progress
<1> QED
  BY <1>2 DEF Progress, Seen

\* Two tellings of the same items are the same.
LEMMA ToldOnce ==
  ASSUME NEW n \in Nat, NEW d, NEW e, Told(d, n), Told(e, n)
  PROVE  d = e
<1>1. Len(d) = Len(e) /\ Len(d) \in Nat
  BY CountFinite DEF Told
<1>2. ASSUME NEW k \in 1 .. Len(d)
      PROVE  d[k] = e[k]
  <2>1. PICK i \in 1 .. n : i \in Bad /\ Count(Bad, i) = k
    BY DEF Told
  <2> QED
    BY <2>1 DEF Told
<1>3. /\ d \in Seq({ErrorOf(i) : i \in DOMAIN raw})
      /\ e \in Seq({ErrorOf(i) : i \in DOMAIN raw})
  BY DEF Told
<1> QED
  BY <1>1, <1>2, <1>3

\* Nothing has been seen.
LEMMA NothingParsed ==
  ASSUME calls = <<>>, errors = <<>>
  PROVE  Parsed(0)
<1>1. Count(UsableItems, 0) = 0 /\ Count(UnusableItems, 0) = 0 /\ Count(Bad, 0) = 0
  BY CountStep
<1>2. MalformedCalls = {}
  BY DEF MalformedCalls
<1>3. Cardinality(MalformedCalls) = 0
  BY <1>2, FS_EmptySet
<1>4. CallsTold(0)
  BY <1>1 DEF CallsTold
<1>5. ErrorsTold(0)
  BY <1>1, <1>3 DEF ErrorsTold
<1>6. IdsTold(0)
  BY DEF IdsTold
<1>7. Told(errors, 0)
  BY <1>1 DEF Told
<1> QED
  BY <1>4, <1>5, <1>6, <1>7 DEF Parsed

\* What is parsed stays parsed while nothing changes.
LEMMA ParsedKept ==
  ASSUME UNCHANGED <<raw, calls, errors>>, NEW n, Parsed(n)
  PROVE  Parsed(n)'
<1>1. raw' = raw /\ calls' = calls /\ errors' = errors
  OBVIOUS
<1>2. /\ UsableItems' = UsableItems /\ UnusableItems' = UnusableItems /\ Bad' = Bad
      /\ MalformedCalls' = MalformedCalls
      /\ \A i : ErrorOf(i)' = ErrorOf(i) /\ CallOf(i)' = CallOf(i)
  BY <1>1 DEF UsableItems, UnusableItems, Bad, Usable, MalformedCalls, ErrorOf, CallOf
<1>3. CallsTold(n)'
  BY <1>1, <1>2 DEF Parsed, CallsTold
<1>4. ErrorsTold(n)'
  BY <1>1, <1>2 DEF Parsed, ErrorsTold
<1>5. IdsTold(n)'
  BY <1>1 DEF Parsed, IdsTold
<1>6. Told(errors, n)'
  BY <1>1, <1>2 DEF Parsed, Told
<1> QED
  BY <1>3, <1>4, <1>5, <1>6 DEF Parsed

\* An item that makes an error is told after those of the earlier items, and one
\* that makes none adds nothing.
LEMMA ToldExtends ==
  ASSUME NEW n \in Nat, n + 1 \in DOMAIN raw, NEW e, Told(e, n)
  PROVE  /\ n + 1 \in Bad => Told(Append(e, ErrorOf(n + 1)), n + 1)
         /\ n + 1 \notin Bad => Told(e, n + 1)
<1> DEFINE Es == {ErrorOf(i) : i \in DOMAIN raw}
<1>1. /\ Count(Bad, n) \in Nat
      /\ Count(Bad, n + 1) = Count(Bad, n) + (IF n + 1 \in Bad THEN 1 ELSE 0)
  BY CountFinite, CountStep
<1>2. \A i \in 1 .. n : i \in Bad => Count(Bad, i) \in 1 .. Count(Bad, n)
  BY CountBelow
<1>3. /\ e \in Seq(Es) /\ Len(e) = Count(Bad, n)
      /\ ErrorOf(n + 1) \in Es
  BY DEF Told
<1>4. /\ \A i \in 1 .. n : i \in Bad => e[Count(Bad, i)] = ErrorOf(i)
      /\ \A k \in 1 .. Len(e) : \E i \in 1 .. n : i \in Bad /\ Count(Bad, i) = k
  BY DEF Told
<1>5. \A i \in 1 .. n + 1 : i \in 1 .. n \/ i = n + 1
  OBVIOUS
<1>6. CASE n + 1 \in Bad
  <2> DEFINE f == Append(e, ErrorOf(n + 1))
  <2>1. /\ f \in Seq(Es) /\ Len(f) = Count(Bad, n + 1)
        /\ f[Count(Bad, n + 1)] = ErrorOf(n + 1)
        /\ \A k \in 1 .. Count(Bad, n) : f[k] = e[k]
    <3> HIDE DEF Es
    <3> QED
      BY <1>1, <1>3, <1>6
  <2> HIDE DEF f
  <2>2. ASSUME NEW i \in 1 .. n + 1, i \in Bad
        PROVE  f[Count(Bad, i)] = ErrorOf(i)
    BY <1>2, <1>4, <1>5, <2>1, <2>2
  <2>3. ASSUME NEW k \in 1 .. Len(f)
        PROVE  \E i \in 1 .. n + 1 : i \in Bad /\ Count(Bad, i) = k
    <3>1. CASE k = Count(Bad, n + 1)
      BY <1>6, <3>1
    <3>2. CASE k \in 1 .. Len(e)
      BY <1>4, <3>2
    <3> QED
      BY <1>1, <1>3, <2>1, <3>1, <3>2
  <2>4. Told(f, n + 1)
    BY <2>1, <2>2, <2>3 DEF Told
  <2> QED
    BY <1>6, <2>4 DEF f
<1>7. CASE n + 1 \notin Bad
  <2>1. Count(Bad, n + 1) = Count(Bad, n)
    BY <1>1, <1>7
  <2>2. ASSUME NEW i \in 1 .. n + 1, i \in Bad
        PROVE  e[Count(Bad, i)] = ErrorOf(i)
    BY <1>4, <1>5, <1>7, <2>2
  <2>3. \A k \in 1 .. Len(e) : \E i \in 1 .. n + 1 : i \in Bad /\ Count(Bad, i) = k
    BY <1>4
  <2>4. Told(e, n + 1)
    BY <1>3, <2>1, <2>2, <2>3 DEF Told
  <2> QED
    BY <1>7, <2>4
<1> QED
  BY <1>6, <1>7

\* An item whose call is refused adds an error alone.
LEMMA RejectParsed ==
  ASSUME NEW n \in Nat, n + 1 \in DOMAIN raw, Parsed(n), raw' = raw, calls' = calls,
         ~Usable(n + 1), errors' = Append(errors, ErrorOf(n + 1))
  PROVE  Parsed(n + 1)'
<1>1. /\ UsableItems' = UsableItems /\ UnusableItems' = UnusableItems /\ Bad' = Bad
      /\ MalformedCalls' = MalformedCalls
      /\ \A i : ErrorOf(i)' = ErrorOf(i) /\ CallOf(i)' = CallOf(i)
  BY DEF UsableItems, UnusableItems, Bad, Usable, MalformedCalls, ErrorOf, CallOf
<1>2. n + 1 \notin UsableItems /\ n + 1 \in UnusableItems /\ n + 1 \in Bad
  BY DEF UsableItems, UnusableItems, Bad
<1>3. /\ Count(UsableItems, n) \in Nat /\ Count(UnusableItems, n) \in Nat
      /\ Count(UsableItems, n + 1) = Count(UsableItems, n)
      /\ Count(UnusableItems, n + 1) = Count(UnusableItems, n) + 1
  <2>1. /\ Count(UsableItems, n) \in Nat
        /\ Count(UsableItems, n + 1)
             = Count(UsableItems, n) + (IF n + 1 \in UsableItems THEN 1 ELSE 0)
    BY CountFinite, CountStep
  <2>2. /\ Count(UnusableItems, n) \in Nat
        /\ Count(UnusableItems, n + 1)
             = Count(UnusableItems, n) + (IF n + 1 \in UnusableItems THEN 1 ELSE 0)
    BY CountFinite, CountStep
  <2> QED
    BY <1>2, <2>1, <2>2
<1>4. CallsTold(n + 1)'
  BY <1>1, <1>3 DEF Parsed, CallsTold
<1>5. ErrorsTold(n + 1)'
  <2>1. Len(errors') = Len(errors) + 1
    BY DEF Parsed, Told
  <2>2. IsFiniteSet(MalformedCalls) /\ Cardinality(MalformedCalls) \in Nat
    <3>1. IsFiniteSet(1 .. Len(calls))
      BY FS_Interval DEF Parsed, CallsTold
    <3>2. MalformedCalls \in SUBSET (1 .. Len(calls))
      BY DEF MalformedCalls, Parsed, CallsTold
    <3> QED
      BY <3>1, <3>2, FS_Subset, FS_CardinalityType
  <2> QED
    BY <1>1, <1>3, <2>1, <2>2 DEF Parsed, ErrorsTold
<1>6. IdsTold(n + 1)'
  BY DEF Parsed, IdsTold
<1>7. Told(errors, n + 1)'
  <2>1. Told(errors', n + 1)
    BY <1>2, ToldExtends DEF Parsed
  <2> QED
    BY <1>1, <2>1 DEF Told
<1> QED
  BY <1>4, <1>5, <1>6, <1>7 DEF Parsed

\* An item with a name adds a call, and an error when its arguments cannot be read.
LEMMA AcceptParsed ==
  ASSUME NEW n \in Nat, n + 1 \in DOMAIN raw, Parsed(n), raw' = raw,
         Usable(n + 1), calls' = Append(calls, CallOf(n + 1)),
         errors' = IF Coerce(raw[n + 1].args) = Malformed
                   THEN Append(errors, <<Malformed>>) ELSE errors
  PROVE  Parsed(n + 1)'
<1> DEFINE bad == Coerce(raw[n + 1].args) = Malformed
<1>1. /\ UsableItems' = UsableItems /\ UnusableItems' = UnusableItems /\ Bad' = Bad
      /\ \A i : ErrorOf(i)' = ErrorOf(i) /\ CallOf(i)' = CallOf(i)
  BY DEF UsableItems, UnusableItems, Bad, Usable, ErrorOf, CallOf
<1>2. /\ n + 1 \in UsableItems /\ n + 1 \notin UnusableItems
      /\ n + 1 \in Bad <=> bad
  BY Zenon DEF UsableItems, UnusableItems, Bad
<1>3. /\ Count(UsableItems, n) \in Nat /\ Count(UnusableItems, n) \in Nat
      /\ Count(UsableItems, n + 1) = Count(UsableItems, n) + 1
      /\ Count(UnusableItems, n + 1) = Count(UnusableItems, n)
  <2>1. /\ Count(UsableItems, n) \in Nat
        /\ Count(UsableItems, n + 1)
             = Count(UsableItems, n) + (IF n + 1 \in UsableItems THEN 1 ELSE 0)
    BY CountFinite, CountStep
  <2>2. /\ Count(UnusableItems, n) \in Nat
        /\ Count(UnusableItems, n + 1)
             = Count(UnusableItems, n) + (IF n + 1 \in UnusableItems THEN 1 ELSE 0)
    BY CountFinite, CountStep
  <2> QED
    BY <1>2, <2>1, <2>2
<1> DEFINE Cs == {CallOf(i) : i \in DOMAIN raw}
<1>4. /\ calls \in Seq(Cs) /\ Len(calls) = Count(UsableItems, n) /\ CallOf(n + 1) \in Cs
  BY DEF Parsed, CallsTold
<1>5. /\ calls' \in Seq(Cs) /\ Len(calls') = Len(calls) + 1
      /\ calls'[Len(calls) + 1] = CallOf(n + 1)
      /\ \A j \in 1 .. Len(calls) : calls'[j] = calls[j]
      /\ DOMAIN calls' = 1 .. Len(calls) + 1 /\ DOMAIN calls = 1 .. Len(calls)
      /\ Len(calls) \in Nat
  <2> HIDE DEF Cs
  <2> QED
    BY <1>4
<1>6. CallsTold(n + 1)'
  BY <1>1, <1>3, <1>4, <1>5 DEF CallsTold
<1>7. ErrorsTold(n + 1)'
  <2> DEFINE M == MalformedCalls
  <2>1. IsFiniteSet(M) /\ Cardinality(M) \in Nat /\ Len(calls) + 1 \notin M
    <3>1. IsFiniteSet(1 .. Len(calls))
      <4>1. 1 \in Int /\ Len(calls) \in Int
        BY <1>5
      <4> QED
        BY <4>1, FS_Interval
    <3>2. M \in SUBSET (1 .. Len(calls))
      BY <1>5 DEF MalformedCalls
    <3> QED
      BY <1>5, <3>1, <3>2, FS_Subset, FS_CardinalityType
  <2>2. CallOf(n + 1).args = Coerce(raw[n + 1].args)
    BY DEF CallOf
  <2>3. CASE bad
    <3>1. MalformedCalls' = M \cup {Len(calls) + 1}
      BY <1>5, <2>2, <2>3 DEF MalformedCalls
    <3>2. Cardinality(MalformedCalls') = Cardinality(M) + 1
      BY <2>1, <3>1, FS_AddElement
    <3>3. Len(errors') = Len(errors) + 1 /\ Len(errors) \in Nat
      BY <2>3 DEF Parsed, Told
    <3> QED
      BY <1>1, <1>3, <2>1, <3>2, <3>3 DEF Parsed, ErrorsTold
  <2>4. CASE ~bad
    <3>1. MalformedCalls' = M
      BY <1>5, <2>2, <2>4 DEF MalformedCalls
    <3> QED
      BY <1>1, <1>3, <2>4, <3>1 DEF Parsed, ErrorsTold
  <2> QED
    BY <2>3, <2>4
<1>8. IdsTold(n + 1)'
  <2> DEFINE id == CallOf(n + 1).id
             last == Len(calls) + 1
  <2>1. id[1] = "given" \/ id = <<"place", n>>
    <3>1. id = CallId(raw[n + 1], n + 1) /\ (n + 1) - 1 = n
      BY DEF CallOf
    <3> QED
      BY <3>1 DEF CallId
  <2>2. ASSUME NEW j \in 1 .. Len(calls), calls[j].id = id
        PROVE  id[1] = "given"
    <3>1. calls[j].id[1] = "given" \/ \E m \in 0 .. n - 1 : calls[j].id = <<"place", m>>
      BY <1>5 DEF Parsed, IdsTold
    <3> HIDE DEF id
    <3> QED
      BY <2>1, <2>2, <3>1
  <2>3. \A j \in DOMAIN calls' : j \in DOMAIN calls \/ j = last
    BY <1>5
  <2>4. ASSUME NEW j \in DOMAIN calls'
        PROVE  calls'[j].id[1] = "given" \/ \E m \in 0 .. n : calls'[j].id = <<"place", m>>
    <3> HIDE DEF id
    <3>1. CASE j \in DOMAIN calls
      <4>1. calls[j].id[1] = "given" \/ \E m \in 0 .. n - 1 : calls[j].id = <<"place", m>>
        BY <3>1 DEF Parsed, IdsTold
      <4> QED
        BY <1>5, <3>1, <4>1
    <3>2. CASE j = last
      <4>1. calls'[j].id = id
        BY <1>5, <3>2 DEF id
      <4> QED
        BY <2>1, <4>1
    <3> QED
      BY <2>3, <3>1, <3>2
  <2>5. ASSUME NEW j \in DOMAIN calls', NEW k \in DOMAIN calls', j # k,
               calls'[j].id = calls'[k].id
        PROVE  calls'[j].id[1] = "given"
    <3>1. calls'[last].id = id
      BY <1>5
    <3> HIDE DEF id
    <3>2. CASE j \in DOMAIN calls /\ k \in DOMAIN calls
      BY <1>5, <2>5, <3>2 DEF Parsed, IdsTold
    <3>3. CASE j = last /\ k \in DOMAIN calls
      BY <1>5, <2>2, <2>5, <3>1, <3>3
    <3>4. CASE j \in DOMAIN calls /\ k = last
      BY <1>5, <2>2, <2>5, <3>1, <3>4
    <3> QED
      BY <2>3, <2>5, <3>2, <3>3, <3>4
  <2>6. (n + 1) - 1 = n
    OBVIOUS
  <2> QED
    BY <2>4, <2>5, <2>6 DEF IdsTold
<1>9. Told(errors, n + 1)'
  <2>1. bad => ErrorOf(n + 1) = <<Malformed>>
    BY DEF ErrorOf, Usable
  <2>2. Told(errors', n + 1)
    BY <1>2, <2>1, ToldExtends DEF Parsed
  <2> QED
    BY <1>1, <2>2 DEF Told
<1> QED
  BY <1>6, <1>7, <1>8, <1>9 DEF Parsed

\* Nothing is parsed yet.
LEMMA InitParsed ==
  ASSUME Init
  PROVE  ParsedInv
<1>1. answer \in Answer
  BY AnswersAssumption DEF Init
<1>2. Progress
  BY <1>1, RawItemsLength DEF Init, Fresh, Progress
<1>3. Seen = 0
  BY DEF Init, Fresh, Seen
<1>4. Parsed(0)
  BY NothingParsed DEF Init, Fresh
<1> QED
  BY <1>2, <1>3, <1>4 DEF ParsedInv

\* One item becomes a call, an error, or both.
LEMMA ParseItemParsed ==
  ASSUME ParsedInv, ParseItem
  PROVE  ParsedInv'
<1>1. /\ stage = "items" /\ next \in 1 .. Len(raw) /\ DOMAIN raw = 1 .. Len(raw)
      /\ Len(raw) \in Nat
  <2>1. stage = "items" /\ next <= Len(raw)
    BY DEF ParseItem
  <2>2. Len(raw) \in Nat /\ DOMAIN raw = 1 .. Len(raw)
    BY RawType DEF ParsedInv
  <2>3. next \in 1 .. Len(raw) + 1
    BY <2>1 DEF ParsedInv, Progress
  <2> QED
    BY <2>1, <2>2, <2>3
<1>2. PICK n \in Nat : n = next - 1
  BY <1>1
<1>3. n + 1 = next /\ n + 1 \in DOMAIN raw /\ Seen = n
  BY <1>1, <1>2 DEF Seen
<1>4. /\ raw' = raw /\ stage' = "items" /\ next' = next + 1 /\ answer' = answer
  BY <1>1 DEF ParseItem
<1>5. Seen' = n + 1
  BY <1>3, <1>4 DEF Seen
<1>6. Parsed(n)
  BY <1>3 DEF ParsedInv
<1>7. Progress'
  <2>1. next' \in 1 .. Len(raw) + 1
    BY <1>1, <1>4
  <2> QED
    BY <1>4, <2>1 DEF ParsedInv, Progress
<1>8. CASE ~Usable(n + 1)
  <2>1. calls' = calls /\ errors' = Append(errors, ErrorOf(n + 1))
    BY <1>3, <1>8 DEF ParseItem, Reject, Usable, ErrorOf
  <2>2. Parsed(n + 1)'
    BY <1>3, <1>4, <1>6, <1>8, <2>1, RejectParsed
  <2> QED
    BY <1>5, <1>7, <2>2 DEF ParsedInv
<1>9. CASE Usable(n + 1)
  <2>1. /\ calls' = Append(calls, CallOf(n + 1))
        /\ errors' = IF Coerce(raw[n + 1].args) = Malformed
                     THEN Append(errors, <<Malformed>>) ELSE errors
    BY <1>3, <1>9 DEF ParseItem, Accept, Usable, CallOf
  <2>2. Parsed(n + 1)'
    BY <1>3, <1>4, <1>6, <1>9, <2>1, AcceptParsed
  <2> QED
    BY <1>5, <1>7, <2>2 DEF ParsedInv
<1> QED
  BY <1>8, <1>9

\* Every step keeps what is parsed told.
LEMMA NextParsed ==
  ASSUME ParsedInv, [Next]_vars
  PROVE  ParsedInv'
<1>1. CASE ParseItem
  BY <1>1, ParseItemParsed
<1>2. CASE RecordText
  <2>1. UNCHANGED <<answer, raw, calls, errors>> /\ stage = "items" /\ stage' = "errors"
        /\ next' = 1 /\ next > Len(raw)
    BY <1>2 DEF RecordText
  <2>2. Seen' = Seen /\ Len(errors) \in Nat
    BY <2>1, RawType DEF ParsedInv, Progress, Seen, Parsed, Told
  <2>3. Parsed(Seen)'
    BY <2>1, <2>2, ParsedKept DEF ParsedInv
  <2> QED
    BY <2>1, <2>2, <2>3 DEF ParsedInv, Progress
<1>3. CASE RecordError
  <2>1. UNCHANGED <<answer, raw, calls, errors>> /\ stage = "errors" /\ stage' = "errors"
        /\ next' = next + 1 /\ next <= Len(errors)
    BY <1>3 DEF RecordError
  <2>2. Seen' = Seen /\ Len(errors) \in Nat
    BY <2>1 DEF ParsedInv, Seen, Parsed, Told
  <2>3. Parsed(Seen)'
    BY <2>1, <2>2, ParsedKept DEF ParsedInv
  <2> QED
    BY <2>1, <2>2, <2>3 DEF ParsedInv, Progress
<1>4. CASE Decide
  <2>1. UNCHANGED <<answer, raw, calls, errors>> /\ stage = "errors" /\ stage' = "done"
    BY <1>4 DEF Decide
  <2>2. Seen' = Seen
    BY <2>1 DEF Seen
  <2>3. Parsed(Seen)'
    BY <2>1, <2>2, ParsedKept DEF ParsedInv
  <2> QED
    BY <2>1, <2>3 DEF ParsedInv, Progress
<1>5. CASE Resume
  <2>1. UNCHANGED <<answer, raw, calls, errors, next>> /\ stage = "down" /\ stage' = "items"
    BY <1>5 DEF Resume
  <2>2. Seen' = Seen /\ next = 1
    BY <2>1 DEF ParsedInv, Progress, Seen
  <2>3. Parsed(Seen)'
    BY <2>1, <2>2, ParsedKept DEF ParsedInv
  <2> QED
    BY <2>1, <2>2, <2>3, RawType DEF ParsedInv, Progress
<1>6. CASE Crash
  <2>1. /\ UNCHANGED <<answer, raw>> /\ stage' = "down"
        /\ calls' = <<>> /\ errors' = <<>> /\ next' = 1
    BY <1>6 DEF Crash
  <2>2. Seen' = 0
    BY <2>1 DEF Seen
  <2>3. (calls = <<>> /\ errors = <<>> => Parsed(0))'
    BY NothingParsed, PTL
  <2> QED
    BY <2>1, <2>2, <2>3 DEF ParsedInv, Progress
<1>7. CASE UNCHANGED vars
  <2>1. UNCHANGED <<answer, raw, calls, errors, next, stage>>
    BY <1>7 DEF vars
  <2>2. Seen' = Seen
    BY <2>1 DEF Seen
  <2>3. Parsed(Seen)'
    BY <2>1, <2>2, ParsedKept DEF ParsedInv
  <2> QED
    BY <2>1, <2>3 DEF ParsedInv, Progress
<1> QED
  BY <1>1, <1>2, <1>3, <1>4, <1>5, <1>6, <1>7 DEF Next, Process

\* No item of an answer is lost, whatever shapes it mixes and however often it is
\* parsed again: each is a call or an error, a call that cannot be read is both.
THEOREM SpecNothingSwallowed == Spec => []NothingSwallowed
<1>1. ParsedInv => NothingSwallowed
  <2> SUFFICES ASSUME ParsedInv, stage = "errors"
               PROVE  NothingSwallowed
    BY DEF NothingSwallowed
  <2> DEFINE N == Len(raw)
  <2>1. Seen = N /\ N \in Nat /\ DOMAIN raw = 1 .. N /\ answer \in Answer
    BY RawType, AnswersAssumption DEF ParsedInv, Progress, Seen
  <2>2. Cardinality(ItemsOf(answer)) = Len(raw)
    BY <2>1, ItemsCounted DEF ParsedInv, Progress
  <2>3. Parsed(N)
    BY <2>1 DEF ParsedInv
  <2>4. /\ {i \in DOMAIN raw : Usable(i)} = {i \in 1 .. N : i \in UsableItems}
        /\ {i \in DOMAIN raw : ~Usable(i)} = {i \in 1 .. N : i \in UnusableItems}
    BY <2>1 DEF UsableItems, UnusableItems
  <2>5. /\ Count(UsableItems, N) = Cardinality({i \in DOMAIN raw : Usable(i)})
        /\ Count(UnusableItems, N) = Cardinality({i \in DOMAIN raw : ~Usable(i)})
    BY <2>4 DEF Count
  <2> HIDE DEF N
  <2> QED
    BY <2>2, <2>3, <2>5
       DEF NothingSwallowed, Parsed, CallsTold, ErrorsTold, IdsTold, MalformedCalls
<1> QED
  BY <1>1, InitParsed, NextParsed, PTL DEF Spec

(***************************************************************************)
(* What is recorded of an answer, however often it was begun.              *)
(***************************************************************************)
Shift == IF HasText(answer) THEN 1 ELSE 0

\* The events of the text and the first k errors.
Written(e, k) ==
  [i \in 1 .. Shift + k |->
     IF i <= Shift THEN <<"text">> ELSE <<"error", i - Shift, e[i - Shift]>>]

\* Before the errors of an answer are known again, its events are those of an
\* earlier attempt, which knew the same errors.
Unknown ==
  stage \in {"items", "down"} =>
    events = <<>> \/ \E e : \E k \in Nat : /\ Told(e, Len(raw)) /\ k <= Len(e)
                                           /\ events = Written(e, k)

Known ==
  stage = "errors" =>
    \E k \in Nat : /\ next - 1 <= k /\ k <= Len(errors)
                   /\ events = Written(errors, k)

EventsInv == Unknown /\ Known /\ RecordedOnce

\* The keys among the first k of them.
LEMMA WrittenKeys ==
  ASSUME NEW e, NEW k \in Nat, events = Written(e, k)
  PROVE  /\ Len(events) = Shift + k /\ events \in Seq(Range(events))
         /\ Shift = 1 => <<"text">> \in Range(events)
         /\ \A i \in 1 .. k : <<"error", i, e[i]>> \in Range(events)
         /\ \A i, x : <<"error", i, x>> \in Range(events) => i \in 1 .. k
         /\ <<"partial">> \notin Range(events)
         /\ \A x : <<"parsed", x>> \notin Range(events)
<1>1. Shift \in 0 .. 1
  BY DEF Shift
<1>2. DOMAIN events = 1 .. Shift + k
  BY <1>1 DEF Written
<1>3. \A j \in 1 .. Shift + k :
        /\ j <= Shift => events[j] = <<"text">>
        /\ j > Shift => events[j] = <<"error", j - Shift, e[j - Shift]>>
  BY <1>1 DEF Written
<1>4. Len(events) = Shift + k /\ events \in Seq(Range(events))
  <2>1. Shift + k \in Nat
    BY <1>1
  <2>2. events = [i \in 1 .. Shift + k |-> events[i]]
    BY DEF Written
  <2>3. {events[i] : i \in 1 .. Shift + k} = Range(events)
    BY <1>2 DEF Range
  <2> QED
    BY <2>1, <2>2, <2>3, IsSequence
<1>5. Shift = 1 => <<"text">> \in Range(events)
  <2>1. Shift = 1 => 1 \in DOMAIN events /\ events[1] = <<"text">>
    BY <1>2, <1>3
  <2> QED
    BY <2>1 DEF Range
<1>6. ASSUME NEW i \in 1 .. k
      PROVE  <<"error", i, e[i]>> \in Range(events)
  <2>1. /\ Shift + i \in DOMAIN events
        /\ events[Shift + i] = <<"error", i, e[i]>>
    BY <1>1, <1>2, <1>3
  <2> QED
    BY <2>1 DEF Range
<1>7. ASSUME NEW key \in Range(events)
      PROVE  \/ key = <<"text">>
             \/ \E i \in 1 .. k : key = <<"error", i, e[i]>>
  <2>1. PICK j \in 1 .. Shift + k : key = events[j]
    BY <1>2 DEF Range
  <2>2. CASE j <= Shift
    BY <1>3, <2>1, <2>2
  <2>3. CASE j > Shift
    <3>1. j - Shift \in 1 .. k
      BY <1>1, <2>3
    <3> QED
      BY <1>3, <2>1, <2>3, <3>1
  <2> QED
    BY <1>1, <2>2, <2>3
<1>8. ASSUME NEW i, NEW x, <<"error", i, x>> \in Range(events)
      PROVE  i \in 1 .. k
  BY <1>7, <1>8
<1>9. <<"partial">> \notin Range(events) /\ \A x : <<"parsed", x>> \notin Range(events)
  BY <1>7
<1> QED
  BY <1>4, <1>5, <1>6, <1>8, <1>9

\* Appending, entry by entry.
LEMMA Appended ==
  ASSUME NEW X, NEW s \in Seq(X), NEW x
  PROVE  /\ DOMAIN Append(s, x) = 1 .. Len(s) + 1
         /\ Append(s, x) = [i \in 1 .. Len(s) + 1 |-> Append(s, x)[i]]
         /\ Append(s, x)[Len(s) + 1] = x
         /\ \A i \in 1 .. Len(s) : Append(s, x)[i] = s[i]
<1> DEFINE Y == X \cup {x}
           f == Append(s, x)
<1>1. s \in Seq(Y) /\ x \in Y
  BY SeqMonotonic
<1> HIDE DEF Y
<1>2. /\ f \in Seq(Y) /\ Len(f) = Len(s) + 1
      /\ \A i \in 1 .. Len(s) : f[i] = s[i]
      /\ f[Len(s) + 1] = x
  BY <1>1, AppendProperties
<1> HIDE DEF f
<1>3. DOMAIN f = 1 .. Len(s) + 1 /\ f = [i \in 1 .. Len(s) + 1 |-> f[i]]
  BY <1>2
<1> QED
  BY <1>2, <1>3 DEF f

\* Appending is joining one entry.
LEMMA AppendedLast ==
  ASSUME NEW X, NEW s \in Seq(X), NEW x
  PROVE  Append(s, x) = s \o <<x>>
<1>1. s \in Seq(X \cup {x}) /\ x \in X \cup {x}
  BY SeqMonotonic
<1> QED
  BY <1>1, AppendIsConcat

\* What a joined sequence holds where.
LEMMA Joined ==
  ASSUME NEW X, NEW s \in Seq(X), NEW Y, NEW t \in Seq(Y)
  PROVE  s \o t = [i \in 1 .. Len(s) + Len(t) |->
                     IF i <= Len(s) THEN s[i] ELSE t[i - Len(s)]]
<1> DEFINE Z == X \cup Y
           j == s \o t
<1>1. s \in Seq(Z) /\ t \in Seq(Z)
  BY SeqMonotonic
<1> HIDE DEF Z
<1>2. /\ j \in Seq(Z) /\ Len(j) = Len(s) + Len(t)
      /\ \A i \in 1 .. Len(s) + Len(t) :
           j[i] = IF i <= Len(s) THEN s[i] ELSE t[i - Len(s)]
  BY <1>1, ConcatProperties
<1> HIDE DEF j
<1>3. j = [i \in 1 .. Len(s) + Len(t) |-> j[i]]
  BY <1>2
<1>4. j = [i \in 1 .. Len(s) + Len(t) |-> IF i <= Len(s) THEN s[i] ELSE t[i - Len(s)]]
  BY <1>2, <1>3
<1> QED
  BY <1>4 DEF j

\* One more error is written behind the last.
LEMMA WrittenNext ==
  ASSUME NEW e, NEW k \in Nat, events = Written(e, k)
  PROVE  Append(events, <<"error", k + 1, e[k + 1]>>) = Written(e, k + 1)
<1> DEFINE key == <<"error", k + 1, e[k + 1]>>
           X == Range(events) \cup {key}
<1>1. Shift \in 0 .. 1
  BY DEF Shift
<1>2. events \in Seq(X) /\ key \in X /\ Len(events) = Shift + k
  BY WrittenKeys
<1> DEFINE f == Append(events, key)
           w == Written(e, k + 1)
<1>3. /\ f = [i \in 1 .. Shift + k + 1 |-> f[i]]
      /\ f[Shift + k + 1] = key
      /\ \A i \in 1 .. Shift + k : f[i] = events[i]
  <2> HIDE DEF X, key
  <2> QED
    BY <1>1, <1>2, Appended
<1>4. w = [i \in 1 .. Shift + k + 1 |-> w[i]]
  <2>1. Shift + (k + 1) = Shift + k + 1
    BY <1>1
  <2> QED
    BY <2>1 DEF Written
<1>5. ASSUME NEW i \in 1 .. Shift + k + 1
      PROVE  f[i] = w[i]
  <2>1. i \in 1 .. Shift + (k + 1)
    BY <1>1
  <2>2. w[i] = IF i <= Shift THEN <<"text">> ELSE <<"error", i - Shift, e[i - Shift]>>
    BY <2>1 DEF Written
  <2>3. CASE i = Shift + k + 1
    <3>1. i - Shift = k + 1 /\ ~(i <= Shift)
      BY <1>1, <2>3
    <3> QED
      BY <1>3, <2>2, <2>3, <3>1
  <2>4. CASE i \in 1 .. Shift + k
    <3>1. events[i] = IF i <= Shift THEN <<"text">> ELSE <<"error", i - Shift, e[i - Shift]>>
      BY <2>4 DEF Written
    <3> HIDE DEF f, w
    <3> QED
      BY <1>3, <2>2, <2>4, <3>1
  <2>5. i = Shift + k + 1 \/ i \in 1 .. Shift + k
    BY <1>1
  <2> QED
    BY <2>3, <2>4, <2>5
<1> HIDE DEF f, w
<1>6. f = w
  BY <1>3, <1>4, <1>5
<1> QED
  BY <1>6 DEF f, w, key

\* The text is recorded unless an earlier attempt did.
LEMMA RecordTextKnown ==
  ASSUME ParsedInv, Unknown, RecordText
  PROVE  Known'
<1>1. /\ stage = "items" /\ next > Len(raw) /\ next' = 1
      /\ UNCHANGED <<answer, raw, errors>>
      /\ IF HasText(answer) THEN Commit(<<"text">>) ELSE UNCHANGED events
  BY DEF RecordText
<1>2. Seen = Len(raw) /\ Len(raw) \in Nat
  BY <1>1, RawType DEF ParsedInv, Progress, Seen
<1>3. Told(errors, Len(raw)) /\ Len(errors) \in Nat
  BY <1>2 DEF ParsedInv, Parsed, Told
<1>4. \E k \in Nat : k <= Len(errors) /\ events' = Written(errors, k)
  <2>1. CASE events = <<>>
    <3>1. CASE HasText(answer)
      <4>1. Range(events) = {}
        BY <2>1 DEF Range
      <4>2. events' = <<<<"text">>>>
        BY <1>1, <2>1, <3>1, <4>1 DEF Commit
      <4>3. Shift = 1
        BY <3>1 DEF Shift
      <4>4. Written(errors, 0) = <<<<"text">>>>
        BY <4>3 DEF Written
      <4> QED
        BY <1>3, <4>2, <4>4
    <3>2. CASE ~HasText(answer)
      <4>1. events' = <<>>
        BY <1>1, <2>1, <3>2
      <4>2. Shift = 0
        BY <3>2 DEF Shift
      <4>3. Written(errors, 0) = <<>>
        BY <4>2 DEF Written
      <4> QED
        BY <1>3, <4>1, <4>3
    <3> QED
      BY <3>1, <3>2
  <2>2. CASE events # <<>>
    <3>0. PICK e : \E k \in Nat :
            Told(e, Len(raw)) /\ k <= Len(e) /\ events = Written(e, k)
      BY <1>1, <2>2 DEF Unknown
    <3>1. PICK k \in Nat : Told(e, Len(raw)) /\ k <= Len(e) /\ events = Written(e, k)
      BY <3>0
    <3>2. e = errors
      BY <1>2, <1>3, <3>1, ToldOnce
    <3>3. Shift = 1 => <<"text">> \in Range(events)
      BY <3>1, WrittenKeys
    <3>4. events' = events
      BY <1>1, <3>3 DEF Commit, Shift
    <3> QED
      BY <3>1, <3>2, <3>4
  <2> QED
    BY <2>1, <2>2
<1>5. PICK k \in Nat : k <= Len(errors) /\ events' = Written(errors, k)
  BY <1>4
<1>6. Written(errors, k)' = Written(errors, k)
  BY <1>1 DEF Written, Shift
<1> QED
  BY <1>1, <1>5, <1>6 DEF Known

\* An error is recorded unless an earlier attempt did: then the events go on where
\* that one ended.
LEMMA RecordErrorKnown ==
  ASSUME ParsedInv, Known, RecordError
  PROVE  Known'
<1>1. /\ stage = "errors" /\ next \in 1 .. Len(errors) /\ next' = next + 1
      /\ UNCHANGED <<answer, raw, errors>> /\ Commit(<<"error", next, errors[next]>>)
  BY DEF RecordError, ErrorKey, ParsedInv, Progress
<1>2. PICK k \in Nat : next - 1 <= k /\ k <= Len(errors) /\ events = Written(errors, k)
  BY <1>1 DEF Known
<1> DEFINE key == <<"error", next, errors[next]>>
<1>3. CASE key \in Range(events)
  <2>1. next <= k
    BY <1>2, <1>3, WrittenKeys
  <2>2. events' = Written(errors, k)
    BY <1>1, <1>2, <1>3 DEF Commit
  <2>3. Written(errors, k)' = Written(errors, k)
    BY <1>1 DEF Written, Shift
  <2>4. next' - 1 <= k
    BY <1>1, <2>1
  <2> QED
    BY <1>1, <1>2, <2>2, <2>3, <2>4 DEF Known
<1>4. CASE key \notin Range(events)
  <2>1. ~(next <= k)
    BY <1>1, <1>2, <1>4, WrittenKeys
  <2>2. next = k + 1
    BY <1>1, <1>2, <2>1
  <2>3. events' = Append(events, key)
    BY <1>1, <1>4 DEF Commit
  <2>4. events' = Written(errors, k + 1)
    BY <1>2, <2>2, <2>3, WrittenNext
  <2>5. Written(errors, k + 1)' = Written(errors, k + 1)
    BY <1>1 DEF Written, Shift
  <2>6. k + 1 \in Nat /\ next' - 1 <= k + 1 /\ k + 1 <= Len(errors)
    BY <1>1, <1>2, <2>2
  <2> QED
    BY <1>1, <2>4, <2>5, <2>6 DEF Known
<1> QED
  BY <1>3, <1>4

\* The decision comes last.
LEMMA DecideRecorded ==
  ASSUME ParsedInv, Known, Decide
  PROVE  RecordedOnce'
<1> DEFINE n == Len(errors)
           texts == IF HasText(answer) THEN <<<<"text">>>> ELSE <<>>
           keys == [i \in DOMAIN errors |-> <<"error", i, errors[i]>>]
<1>1. /\ stage = "errors" /\ next > n /\ UNCHANGED <<answer, raw, calls, errors>>
      /\ \/ outcome' = "partial" /\ Commit(<<"partial">>)
         \/ outcome' = "completed" /\ UNCHANGED events
         \/ outcome' = "tools" /\ Commit(<<"parsed", calls>>)
  BY DEF Decide
<1>2. n \in Nat /\ DOMAIN errors = 1 .. n
  BY DEF ParsedInv, Parsed, Told
<1>3. next \in 1 .. n + 1
  BY <1>1 DEF ParsedInv, Progress
<1>4. events = Written(errors, n)
  <2>1. PICK k \in Nat : next - 1 <= k /\ k <= n /\ events = Written(errors, k)
    BY <1>1 DEF Known
  <2> HIDE DEF n
  <2>2. k = n
    BY <1>1, <1>2, <1>3, <2>1
  <2> QED
    BY <2>1, <2>2
<1>5. events = texts \o keys
  <2>1. Shift \in 0 .. 1 /\ Len(texts) = Shift /\ (Shift = 1 => texts[1] = <<"text">>)
    BY DEF Shift
  <2>2. keys = [i \in 1 .. n |-> <<"error", i, errors[i]>>] /\ Len(keys) = n
    BY <1>2
  <2>3. texts \in Seq({<<"text">>})
    OBVIOUS
  <2>4. keys = [i \in 1 .. n |-> keys[i]]
    BY <1>2
  <2>5. keys \in Seq({keys[i] : i \in 1 .. n})
    <3> HIDE DEF keys, n
    <3> QED
      BY <1>2, <2>4, IsSequence
  <2>6. texts \o keys = [i \in 1 .. Shift + n |->
                           IF i <= Shift THEN texts[i] ELSE keys[i - Shift]]
    <3>1. Len(texts) = Shift /\ Len(keys) = n
      BY <2>1, <2>2
    <3> HIDE DEF texts, keys, n
    <3>2. texts \o keys =
            [i \in 1 .. Len(texts) + Len(keys) |->
               IF i <= Len(texts) THEN texts[i] ELSE keys[i - Len(texts)]]
      BY <2>3, <2>5, Joined
    <3> QED
      BY <3>1, <3>2
  <2>7. ASSUME NEW i \in 1 .. Shift + n
        PROVE  Written(errors, n)[i] = IF i <= Shift THEN texts[i] ELSE keys[i - Shift]
    <3> HIDE DEF texts, keys, n
    <3>1. Written(errors, n)[i]
            = IF i <= Shift THEN <<"text">> ELSE <<"error", i - Shift, errors[i - Shift]>>
      BY DEF Written
    <3>2. CASE i <= Shift
      <4>1. Shift = 1 /\ i = 1
        BY <1>2, <2>1, <3>2
      <4> QED
        BY <2>1, <3>1, <4>1
    <3>3. CASE ~(i <= Shift)
      <4>1. i - Shift \in 1 .. n
        BY <1>2, <2>1, <3>3
      <4>2. keys[i - Shift] = <<"error", i - Shift, errors[i - Shift]>>
        BY <2>2, <4>1
      <4> QED
        BY <3>1, <3>3, <4>2
    <3> QED
      BY <3>2, <3>3
  <2>8. Written(errors, n) = [i \in 1 .. Shift + n |-> Written(errors, n)[i]]
    BY DEF Written
  <2> HIDE DEF texts, keys, n
  <2> QED
    BY <1>4, <2>6, <2>7, <2>8
<1>6. /\ events \in Seq(Range(events))
      /\ <<"partial">> \notin Range(events) /\ <<"parsed", calls>> \notin Range(events)
  BY <1>2, <1>4, WrittenKeys
<1>7. /\ texts' = texts /\ keys' = keys
  BY <1>1
<1>8. CASE outcome' = "partial" /\ Commit(<<"partial">>)
  <2>1. events' = Append(events, <<"partial">>)
    BY <1>6, <1>8 DEF Commit
  <2>2. events' = events \o <<<<"partial">>>>
    BY <1>6, <2>1, AppendedLast
  <2> HIDE DEF texts, keys
  <2>3. events' = texts' \o keys' \o <<<<"partial">>>>
    BY <1>5, <1>7, <2>2
  <2> QED
    BY <1>8, <2>3 DEF RecordedOnce, texts, keys
<1>9. CASE outcome' = "completed" /\ UNCHANGED events
  <2>1. events \o <<>> = events
    BY <1>6
  <2> HIDE DEF texts, keys
  <2>2. events' = texts' \o keys' \o <<>>
    BY <1>5, <1>7, <1>9, <2>1
  <2> QED
    BY <1>9, <2>2 DEF RecordedOnce, texts, keys
<1>10. CASE outcome' = "tools" /\ Commit(<<"parsed", calls>>)
  <2>1. events' = Append(events, <<"parsed", calls>>)
    BY <1>6, <1>10 DEF Commit
  <2>2. events' = events \o <<<<"parsed", calls'>>>>
    BY <1>1, <1>6, <2>1, AppendedLast
  <2> HIDE DEF texts, keys
  <2>3. events' = texts' \o keys' \o <<<<"parsed", calls'>>>>
    BY <1>5, <1>7, <2>2
  <2> QED
    BY <1>10, <2>3 DEF RecordedOnce, texts, keys
<1> QED
  BY <1>1, <1>8, <1>9, <1>10

\* Every step keeps the events in order.
LEMMA NextEvents ==
  ASSUME ParsedInv, EventsInv, [Next]_vars
  PROVE  EventsInv'
<1>1. CASE ParseItem \/ Resume
  <2>1. /\ UNCHANGED <<answer, raw, events>> /\ stage \in {"items", "down"}
        /\ stage' = "items"
    BY <1>1 DEF ParseItem, Resume
  <2>2. Bad' = Bad /\ \A i : ErrorOf(i)' = ErrorOf(i)
    BY <2>1 DEF Bad, ErrorOf, Usable
  <2>3. \A e, n : Told(e, n) => Told(e, n)'
    BY <2>1, <2>2 DEF Told
  <2>4. \A e, k : Written(e, k)' = Written(e, k)
    BY <2>1 DEF Written, Shift
  <2> QED
    BY <2>1, <2>3, <2>4 DEF EventsInv, Unknown, Known, RecordedOnce
<1>2. CASE RecordText
  <2>1. stage' = "errors"
    BY <1>2 DEF RecordText
  <2>2. Known'
    BY <1>2, RecordTextKnown DEF EventsInv
  <2> QED
    BY <2>1, <2>2 DEF EventsInv, Unknown, RecordedOnce
<1>3. CASE RecordError
  <2>1. stage' = "errors"
    BY <1>3 DEF RecordError
  <2>2. Known'
    BY <1>3, RecordErrorKnown DEF EventsInv
  <2> QED
    BY <2>1, <2>2 DEF EventsInv, Unknown, RecordedOnce
<1>4. CASE Decide
  <2>1. stage' = "done"
    BY <1>4 DEF Decide
  <2>2. RecordedOnce'
    BY <1>4, DecideRecorded DEF EventsInv
  <2> QED
    BY <2>1, <2>2 DEF EventsInv, Unknown, Known
<1>5. CASE Crash
  <2>1. /\ UNCHANGED <<answer, raw, events>> /\ stage \in {"items", "errors"}
        /\ stage' = "down"
    BY <1>5 DEF Crash
  <2>2. Bad' = Bad /\ \A i : ErrorOf(i)' = ErrorOf(i)
    BY <2>1 DEF Bad, ErrorOf, Usable
  <2>3. \A e, n : Told(e, n) => Told(e, n)'
    BY <2>1, <2>2 DEF Told
  <2>4. \A e, k : Written(e, k)' = Written(e, k)
    BY <2>1 DEF Written, Shift
  <2>5. events = <<>> \/ \E e : \E k \in Nat : /\ Told(e, Len(raw)) /\ k <= Len(e)
                                               /\ events = Written(e, k)
    <3>1. CASE stage = "items"
      BY <3>1 DEF EventsInv, Unknown
    <3>2. CASE stage = "errors"
      <4>1. Told(errors, Len(raw))
        BY <3>2 DEF ParsedInv, Seen, Parsed
      <4>2. \E k \in Nat : k <= Len(errors) /\ events = Written(errors, k)
        BY <3>2 DEF EventsInv, Known
      <4> QED
        BY <4>1, <4>2
    <3> QED
      BY <2>1, <3>1, <3>2
  <2>6. Unknown'
    BY <2>1, <2>3, <2>4, <2>5 DEF Unknown
  <2> QED
    BY <2>1, <2>6 DEF EventsInv, Known, RecordedOnce
<1>6. CASE UNCHANGED vars
  <2>1. UNCHANGED <<answer, raw, calls, errors, next, stage, events, outcome>>
    BY <1>6 DEF vars
  <2>2. Bad' = Bad /\ \A i : ErrorOf(i)' = ErrorOf(i)
    BY <2>1 DEF Bad, ErrorOf, Usable
  <2>3. \A e, n : Told(e, n) => Told(e, n)'
    BY <2>1, <2>2 DEF Told
  <2>4. \A e, k : Written(e, k)' = Written(e, k)
    BY <2>1 DEF Written, Shift
  <2>5. Unknown'
    BY <2>1, <2>3, <2>4 DEF EventsInv, Unknown
  <2>6. Known'
    BY <2>1, <2>4 DEF EventsInv, Known
  <2>7. RecordedOnce'
    BY <2>1 DEF EventsInv, RecordedOnce
  <2> QED
    BY <2>5, <2>6, <2>7 DEF EventsInv
<1> QED
  BY <1>1, <1>2, <1>3, <1>4, <1>5, <1>6 DEF Next, Process

\* An answer that was processed in pieces, by any number of processes, leaves the
\* events of one that was processed at once, whatever the texts of its errors.
THEOREM SpecRecordedOnce == Spec => []RecordedOnce
<1>1. Init => EventsInv
  BY DEF Init, EventsInv, Unknown, Known, RecordedOnce
<1>2. EventsInv => RecordedOnce
  BY DEF EventsInv
<1> QED
  BY <1>1, <1>2, InitParsed, NextParsed, NextEvents, PTL DEF Spec
=============================================================================
