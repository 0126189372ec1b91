---------------------------- MODULE PrepareProofs ----------------------------
(***************************************************************************)
(* Preparing and sending a document, for any page, any layouts and         *)
(* recipients, and any number of sends and saves that overlap.             *)
(*                                                                         *)
(* Three arguments that share little.  Undo and redo walk one line of      *)
(* versions because every edit commits (Timeline).  An envelope is what    *)
(* was on the screen because the template is what a send saved until       *)
(* another save disturbs it (SendsInStep).  A refusal has a cause because  *)
(* opening the review gives every signer a box, and nothing but an edit    *)
(* behind it takes one away before the send is built (ReviewInStep).       *)
(***************************************************************************)
EXTENDS Prepare, FiniteSetTheorems, SequenceTheorems, WellFoundedInduction, TLAPS

\* Every signer of the rows has a box of their own.
Tagged(rows, boxes) ==
    \A i \in DOMAIN rows : rows[i].role = "signer" => rows[i].key \in KeysOf(boxes)

\* What the API asks of the recipients.
Addressed(rows) ==
    /\ \E i \in DOMAIN rows : rows[i].role = "signer"
    /\ \A i \in DOMAIN rows : IsEmail(rows[i])
    /\ Distinct(rows)

\* An address that passes the editor and not the API.
Odd(rows) == \E i \in DOMAIN rows : rows[i].email \in Unmailable

\* A careful sender's send is one the API accepts, as it was built.
Careful(s) ==
    /\ ~s.touched => s.boxes # <<>> /\ Tagged(s.people, s.boxes)
    /\ ~s.unready => Odd(s.people) \/ Addressed(s.people)

SendsInStep ==
    /\ \A s \in sends : s.stage = "posting" /\ ~s.disturbed => template = s.boxes
    /\ \A s \in sends : s.watched => review = "sending"
    /\ \A s, t \in sends : s.watched /\ t.watched => s = t
    /\ \A s \in sends : Careful(s)

ReviewInStep ==
    review \in {"review", "sending"} /\ ~touched =>
        fields # <<>> /\ Tagged(recipients, fields)

IInv == TypeOK /\ SendsInStep /\ ReviewInStep /\ EnvelopeSound /\ RefusalsExplained

-----------------------------------------------------------------------------
(* Numbers and sequences.                                                  *)

\* Every set of naturals with a member has a least one.
LEMMA Least ==
    ASSUME NEW T \in SUBSET Nat, T # {}
    PROVE  \E x \in T : \A y \in T : x <= y
<1>1. PICK t \in T : TRUE
    OBVIOUS
<1> DEFINE Below(x) == 0 .. x
           Ups == {Below(x) : x \in T}
<1>2. IsWellFoundedOn(StrictSubsetOrdering(Nat), FiniteSubsetsOf(Nat))
    BY FS_StrictSubsetOrderingWellFounded, Zenon
<1>3. Ups \subseteq FiniteSubsetsOf(Nat) /\ Ups # {}
    <2>1. \A x \in T : IsFiniteSet(0 .. x) /\ 0 .. x \subseteq Nat
        BY FS_Interval
    <2> QED
        BY <1>1, <2>1, Zenon DEF FiniteSubsetsOf
<1>4. PICK x \in T : \A U \in Ups : ~(<<U, Below(x)>> \in StrictSubsetOrdering(Nat))
    <2>1. \A U \in Ups : \E x \in T : U = Below(x)
        BY Zenon
    <2> HIDE DEF Ups
    <2>2. \E V \in Ups : \A U \in Ups : ~(<<U, V>> \in StrictSubsetOrdering(Nat))
        BY <1>2, <1>3, WFMin, Zenon
    <2> QED
        BY <2>1, <2>2, Zenon
<1>5. ASSUME NEW y \in T, ~(x <= y)
      PROVE  FALSE
    <2>1. Below(y) \subseteq Below(x) /\ Below(y) # Below(x) /\ Below(x) \subseteq Nat
        <3>1. /\ x \in Below(x) /\ x \notin Below(y)
              /\ Below(y) \subseteq Below(x) /\ Below(x) \subseteq Nat
            BY <1>5
        <3> QED
            BY <3>1, Zenon
    <2>2. <<Below(y), Below(x)>> \in StrictSubsetOrdering(Nat)
        BY <2>1 DEF StrictSubsetOrdering
    <2> QED
        BY <1>4, <2>2, Zenon
<1> QED
    BY <1>5

\* The places of a finite set of naturals, counted from the lowest.
LEMMA NthFacts ==
    ASSUME NEW I \in SUBSET Nat, IsFiniteSet(I)
    PROVE  /\ Cardinality(I) \in Nat
           /\ \A n \in 1 .. Cardinality(I) : Nth(I, n) \in I
           /\ \A m, n \in 1 .. Cardinality(I) : Nth(I, m) = Nth(I, n) => m = n
           /\ \A i \in I : \E n \in 1 .. Cardinality(I) : Nth(I, n) = i
<1> DEFINE N == Cardinality(I)
           UpTo(i) == {j \in I : j <= i}
           rank == [i \in I |-> Cardinality(UpTo(i))]
<1>1. N \in Nat
    BY FS_CardinalityType
<1>2. ASSUME NEW i \in I
      PROVE  IsFiniteSet(UpTo(i)) /\ Cardinality(UpTo(i)) \in 1 .. N
    <2>1. UpTo(i) \subseteq I /\ {i} \subseteq UpTo(i)
        OBVIOUS
    <2> HIDE DEF UpTo
    <2>2. IsFiniteSet(UpTo(i)) /\ Cardinality(UpTo(i)) <= N /\ Cardinality(UpTo(i)) \in Nat
        BY <2>1, FS_Subset, FS_CardinalityType
    <2>3. Cardinality({i}) <= Cardinality(UpTo(i)) /\ Cardinality({i}) = 1
        BY <2>1, <2>2, FS_Subset, FS_Singleton
    <2> QED
        BY <1>1, <2>2, <2>3
<1>3. ASSUME NEW i \in I, NEW k \in I, i < k
      PROVE  Cardinality(UpTo(i)) < Cardinality(UpTo(k))
    <2>1. UpTo(i) \cup {k} \subseteq UpTo(k) /\ k \notin UpTo(i)
        <3>1. i \in Nat /\ k \in Nat /\ \A j \in I : j \in Nat
            OBVIOUS
        <3>2. \A j \in I : j <= i => j <= k
            BY <1>3, <3>1
        <3>3. k <= k /\ ~(k <= i)
            BY <1>3, <3>1
        <3> QED
            BY <3>2, <3>3, Zenon
    <2>2. IsFiniteSet(UpTo(k)) /\ IsFiniteSet(UpTo(i))
        BY <1>2
    <2> HIDE DEF UpTo
    <2>3. Cardinality(UpTo(i) \cup {k}) = Cardinality(UpTo(i)) + 1
        BY <2>1, <2>2, FS_AddElement
    <2>4. Cardinality(UpTo(i) \cup {k}) <= Cardinality(UpTo(k))
        BY <2>1, <2>2, FS_Subset
    <2> QED
        BY <1>2, <2>3, <2>4
<1>4. \A i, k \in I : Cardinality(UpTo(i)) = Cardinality(UpTo(k)) => i = k
    <2> SUFFICES ASSUME NEW i \in I, NEW k \in I, i # k
                 PROVE  Cardinality(UpTo(i)) # Cardinality(UpTo(k))
        BY Zenon
    <2>1. i < k \/ k < i
        OBVIOUS
    <2>2. Cardinality(UpTo(i)) \in Nat /\ Cardinality(UpTo(k)) \in Nat
        BY <1>1, <1>2
    <2> HIDE DEF UpTo
    <2> QED
        BY <1>3, <2>1, <2>2
<1>5. rank \in Injection(I, 1 .. N)
    <2> HIDE DEF UpTo
    <2>1. rank \in [I -> 1 .. N]
        BY <1>2
    <2> QED
        BY <1>4, <2>1, Zenon DEF Injection, IsInjective
<1>6. rank \in Surjection(I, 1 .. N)
    <2>1. IsFiniteSet(1 .. N) /\ Cardinality(1 .. N) = N
        BY <1>1, FS_Interval
    <2> HIDE DEF rank
    <2> QED
        BY <1>5, <2>1, FS_Injection
<1>7. \A n \in 1 .. N : \E i \in I : Cardinality(UpTo(i)) = n
    BY <1>6, Zenon DEF Surjection
<1>8. \A n \in 1 .. N : Nth(I, n) \in I /\ Cardinality(UpTo(Nth(I, n))) = n
    BY <1>7, Zenon DEF Nth
<1>9. ASSUME NEW i \in I
      PROVE  \E n \in 1 .. N : Nth(I, n) = i
    BY <1>2, <1>4, <1>8, Zenon
<1> QED
    BY <1>1, <1>8, <1>9, Zenon

\* A part of a sequence, in its order: its elements, and one place for each.
LEMMA OnlyFacts ==
    ASSUME NEW S, NEW s \in Seq(S), NEW I \in SUBSET DOMAIN s
    PROVE  /\ Only(s, I) \in Seq(S)
           /\ \A n \in DOMAIN Only(s, I) : \E i \in I : Only(s, I)[n] = s[i]
           /\ \A i \in I : \E n \in DOMAIN Only(s, I) : Only(s, I)[n] = s[i]
           /\ \A m, n \in DOMAIN Only(s, I) : m # n =>
                \E i, j \in I : i # j /\ Only(s, I)[m] = s[i] /\ Only(s, I)[n] = s[j]
<1>1. Len(s) \in Nat /\ DOMAIN s = 1 .. Len(s) /\ \A i \in DOMAIN s : s[i] \in S
    OBVIOUS
<1>2. I \in SUBSET Nat /\ IsFiniteSet(I)
    <2>1. IsFiniteSet(1 .. Len(s))
        BY <1>1, FS_Interval
    <2>2. I \subseteq 1 .. Len(s) /\ 1 .. Len(s) \subseteq Nat
        BY <1>1
    <2> QED
        BY <2>1, <2>2, FS_Subset
<1> DEFINE N == Cardinality(I)
           o == Only(s, I)
<1>3. /\ N \in Nat
      /\ \A n \in 1 .. N : Nth(I, n) \in I
      /\ \A m, n \in 1 .. N : Nth(I, m) = Nth(I, n) => m = n
      /\ \A i \in I : \E n \in 1 .. N : Nth(I, n) = i
    BY <1>2, NthFacts, Zenon
<1>4. DOMAIN o = 1 .. N /\ \A n \in 1 .. N : o[n] = s[Nth(I, n)]
    BY Zenon DEF Only
<1>5. o \in Seq(S)
    <2> DEFINE v == [n \in 1 .. N |-> s[Nth(I, n)]]
    <2> HIDE DEF N
    <2>1. \A n \in 1 .. N : s[Nth(I, n)] \in S
        BY <1>1, <1>3, Zenon
    <2>2. v \in Seq(S)
        BY <1>3, <2>1
    <2> QED
        BY <2>2, Zenon DEF Only, N
<1> HIDE DEF N, o
<1>6. \A n \in DOMAIN o : \E i \in I : o[n] = s[i]
    BY <1>3, <1>4, Zenon
<1>7. \A i \in I : \E n \in DOMAIN o : o[n] = s[i]
    BY <1>3, <1>4, Zenon
<1>8. ASSUME NEW m \in DOMAIN o, NEW n \in DOMAIN o, m # n
      PROVE  \E i, j \in I : i # j /\ o[m] = s[i] /\ o[n] = s[j]
    <2>1. m \in 1 .. N /\ n \in 1 .. N
        BY <1>4, Zenon
    <2>2. Nth(I, m) \in I /\ Nth(I, n) \in I /\ Nth(I, m) # Nth(I, n)
        BY <1>3, <1>8, <2>1, Zenon
    <2>3. o[m] = s[Nth(I, m)] /\ o[n] = s[Nth(I, n)]
        BY <1>4, <2>1, Zenon
    <2> QED
        BY <2>2, <2>3, Zenon
<1> QED
    BY <1>5, <1>6, <1>7, <1>8, Zenon DEF o

\* The nth identity nothing has exists, and no two of them are alike.
LEMMA FreshOf ==
    ASSUME NEW U, IsFiniteSet(U), NEW n \in Nat \ {0}
    PROVE  \E i \in 1 .. Cardinality(U) + n : i \notin U /\ Cardinality((1 .. i) \ U) = n
<1> DEFINE N == Cardinality(U) + n
           Free(i) == (1 .. i) \ U
           T == {i \in Nat : Cardinality(Free(i)) >= n}
<1>1. Cardinality(U) \in Nat /\ N \in Nat
    BY FS_CardinalityType
<1>2. ASSUME NEW i \in Nat
      PROVE  IsFiniteSet(Free(i)) /\ Cardinality(Free(i)) \in Nat
    <2>1. IsFiniteSet(1 .. i)
        BY FS_Interval
    <2>2. IsFiniteSet(Free(i))
        BY <2>1, FS_Subset
    <2> QED
        BY <2>2, FS_CardinalityType
<1>3. N \in T
    <2>1. IsFiniteSet(1 .. N) /\ Cardinality(1 .. N) = N
        BY <1>1, FS_Interval
    <2>2. Cardinality((1 .. N) \ U) = Cardinality(1 .. N) - Cardinality((1 .. N) \cap U)
        BY <2>1, FS_Difference
    <2>3. Cardinality((1 .. N) \cap U) <= Cardinality(U) /\ Cardinality((1 .. N) \cap U) \in Nat
        <3>1. (1 .. N) \cap U \subseteq U
            OBVIOUS
        <3>2. /\ IsFiniteSet((1 .. N) \cap U)
              /\ Cardinality((1 .. N) \cap U) <= Cardinality(U)
            BY <3>1, FS_Subset, Zenon
        <3> QED
            BY <3>2, FS_CardinalityType
    <2> QED
        BY <1>1, <2>1, <2>2, <2>3
<1>4. PICK i \in T : \A k \in T : i <= k
    <2>1. T \in SUBSET Nat /\ T # {}
        BY <1>3, Zenon
    <2> HIDE DEF T
    <2> QED
        BY <2>1, Least, Zenon
<1>5. i \in Nat /\ Cardinality(Free(i)) >= n
    OBVIOUS
<1>6. i # 0
    <2>1. Free(0) = {} /\ Cardinality({}) = 0
        BY FS_EmptySet
    <2> HIDE DEF Free
    <2> QED
        BY <1>5, <2>1
<1>7. i - 1 \in Nat /\ Cardinality(Free(i - 1)) < n
    <2>1. i - 1 \in Nat /\ ~(i <= i - 1)
        BY <1>5, <1>6
    <2>2. i - 1 \notin T
        BY <1>4, <2>1, Zenon
    <2> HIDE DEF Free
    <2> QED
        BY <1>2, <2>1, <2>2
<1>8. i \in 1 .. N /\ i <= N
    BY <1>1, <1>3, <1>4, <1>5, <1>6
<1>9. i \notin U /\ Cardinality(Free(i)) = n
    <2>1. CASE i \in U
        <3>1. Free(i) = Free(i - 1)
            BY <1>7, <2>1
        <3> HIDE DEF Free
        <3> QED
            BY <1>2, <1>5, <1>7, <3>1
    <2>2. CASE i \notin U
        <3>1. Free(i) = Free(i - 1) \cup {i} /\ i \notin Free(i - 1)
            BY <1>5, <1>7, <2>2
        <3>2. IsFiniteSet(Free(i - 1)) /\ Cardinality(Free(i - 1)) \in Nat
            BY <1>2, <1>7
        <3> HIDE DEF Free
        <3>3. Cardinality(Free(i)) = Cardinality(Free(i - 1)) + 1
            BY <3>1, <3>2, FS_AddElement
        <3> QED
            BY <1>5, <1>7, <2>2, <3>2, <3>3
    <2> QED
        BY <2>1, <2>2
<1> QED
    BY <1>8, <1>9, Zenon

LEMMA ToSetFacts ==
    ASSUME NEW S, NEW s \in Seq(S)
    PROVE  ToSet(s) \subseteq S /\ IsFiniteSet(ToSet(s))
<1>1. s \in [1 .. Len(s) -> S] /\ Len(s) \in Nat /\ DOMAIN s = 1 .. Len(s)
    OBVIOUS
<1>2. ToSet(s) = {s[i] : i \in 1 .. Len(s)}
    BY <1>1, Zenon DEF ToSet
<1>3. s \in Surjection(1 .. Len(s), ToSet(s))
    <2>1. s \in [1 .. Len(s) -> ToSet(s)]
        BY <1>1, <1>2
    <2> QED
        BY <1>2, <2>1, Zenon DEF Surjection
<1>4. IsFiniteSet(1 .. Len(s))
    BY <1>1, FS_Interval
<1>5. IsFiniteSet(ToSet(s))
    BY <1>3, <1>4, FS_Surjection, Zenon
<1> QED
    BY <1>1, <1>2, <1>5

\* Boxes, all of each on the page unless off; and layouts with boxes anywhere.
Placed(off) == {b \in Boxes : off \/ OnPage(b)}
Drawn == Layouts(TRUE)

LEMMA BoxFacts ==
    ASSUME NEW off, NEW b \in Placed(off)
    PROVE  /\ b \in Boxes
           /\ b.id \in Nat /\ b.key \in Nat /\ b.y \in Nat /\ b.h \in Nat /\ b.blank \in BOOLEAN
           /\ b.y < Rows /\ b.h \in 1 .. Rows /\ Rows \in Nat
           /\ b = [id |-> b.id, key |-> b.key, y |-> b.y, h |-> b.h, blank |-> b.blank]
<1>1. b \in Boxes
    BY Zenon DEF Placed
<1>2. Rows \in Nat
    BY LayoutAssumption
<1> QED
    BY <1>1, <1>2 DEF Boxes

\* A box that ends on the page is placed, whatever is allowed.
LEMMA BoxOnPage ==
    ASSUME NEW off, NEW id \in Nat, NEW key \in Nat, NEW y \in Nat, NEW h \in Nat, NEW blank \in BOOLEAN,
           h >= 1, y + h <= Rows
    PROVE  [id |-> id, key |-> key, y |-> y, h |-> h, blank |-> blank] \in Placed(off)
<1> DEFINE b == [id |-> id, key |-> key, y |-> y, h |-> h, blank |-> blank]
<1>1. b \in Boxes /\ OnPage(b)
    BY LayoutAssumption DEF Boxes, OnPage
<1> HIDE DEF b
<1>2. b \in Placed(off)
    BY <1>1, Zenon DEF Placed
<1> QED
    BY <1>2, Zenon DEF b

\* So is one that lies where a placed one does.
LEMMA SamePlace ==
    ASSUME NEW off, NEW b \in Placed(off), NEW c \in Boxes, c.y = b.y, c.h = b.h
    PROVE  c \in Placed(off)
<1>1. OnPage(b) => OnPage(c)
    BY Zenon DEF OnPage
<1> QED
    BY <1>1, Zenon DEF Placed

\* A layout is a sequence of placed boxes with identities of their own.
LEMMA LayoutFrom ==
    ASSUME NEW off, NEW s \in Seq(Placed(off)), \A i, j \in DOMAIN s : s[i].id = s[j].id => i = j
    PROVE  s \in Layouts(off)
<1>1. s \in Seq(Boxes)
    <2>1. Placed(off) \subseteq Boxes
        BY Zenon DEF Placed
    <2> HIDE DEF Placed
    <2> QED
        BY <2>1
<1>2. \A i \in DOMAIN s : s[i] \in Placed(off)
    OBVIOUS
<1>3. off \/ \A i \in DOMAIN s : OnPage(s[i])
    BY <1>2, Zenon DEF Placed
<1> QED
    BY <1>1, <1>3, Zenon DEF Layouts

\* What is in a layout.
LEMMA LayoutFacts ==
    ASSUME NEW off, NEW boxes \in Layouts(off)
    PROVE  /\ boxes \in Seq(Placed(off))
           /\ Len(boxes) \in Nat /\ DOMAIN boxes = 1 .. Len(boxes)
           /\ \A i \in DOMAIN boxes : boxes[i] \in Placed(off)
           /\ \A i, j \in DOMAIN boxes : boxes[i].id = boxes[j].id => i = j
           /\ IdsOf(boxes) \subseteq Nat /\ IsFiniteSet(IdsOf(boxes))
<1>1. /\ boxes \in Seq(Placed(off))
      /\ \A i, j \in DOMAIN boxes : boxes[i].id = boxes[j].id => i = j
    <2>1. /\ boxes \in Seq(Boxes)
          /\ \A i, j \in DOMAIN boxes : boxes[i].id = boxes[j].id => i = j
          /\ off \/ \A i \in DOMAIN boxes : OnPage(boxes[i])
        BY Zenon DEF Layouts
    <2>2. \A i \in DOMAIN boxes : boxes[i] \in Boxes
        BY <2>1
    <2>3. \A i \in DOMAIN boxes : boxes[i] \in Placed(off)
        BY <2>1, <2>2, Zenon DEF Placed
    <2> HIDE DEF Placed
    <2>4. boxes \in Seq(Placed(off))
        BY <2>1, <2>3
    <2> QED
        BY <2>1, <2>4, Zenon
<1>2. /\ Len(boxes) \in Nat /\ DOMAIN boxes = 1 .. Len(boxes)
      /\ \A i \in DOMAIN boxes : boxes[i] \in Placed(off)
    BY <1>1
<1>3. \A b \in Placed(off) : b.id \in Nat
    BY BoxFacts, Zenon
<1> DEFINE ids == [i \in 1 .. Len(boxes) |-> boxes[i].id]
<1>4. IdsOf(boxes) = {ids[i] : i \in 1 .. Len(boxes)}
    BY <1>2, Zenon DEF IdsOf
<1>5. ids \in Surjection(1 .. Len(boxes), IdsOf(boxes))
    <2>1. ids \in [1 .. Len(boxes) -> IdsOf(boxes)]
        BY <1>4
    <2> HIDE DEF ids
    <2> QED
        BY <1>4, <2>1, Zenon DEF Surjection
<1>6. IsFiniteSet(1 .. Len(boxes))
    BY <1>2, FS_Interval
<1>7. IsFiniteSet(IdsOf(boxes))
    BY <1>5, <1>6, FS_Surjection, Zenon
<1>8. IdsOf(boxes) \subseteq Nat
    BY <1>2, <1>3, Zenon DEF IdsOf
<1> QED
    BY <1>1, <1>2, <1>7, <1>8, Zenon

\* What lies on the page may be shown where anything may.
LEMMA WiderLayouts ==
    ASSUME NEW off \in BOOLEAN
    PROVE  /\ Layouts(FALSE) \subseteq Layouts(off) /\ Layouts(off) \subseteq Drawn
           /\ Seq(Layouts(off)) \subseteq Seq(Drawn)
<1>1. Layouts(FALSE) \subseteq Layouts(off) /\ Layouts(off) \subseteq Drawn
    BY Zenon DEF Layouts, Drawn
<1>2. \A S, T : S \subseteq T => Seq(S) \subseteq Seq(T)
    OBVIOUS
<1> QED
    BY <1>1, <1>2, Zenon

LEMMA StorableFacts ==
    ASSUME NEW off \in BOOLEAN, NEW boxes, Storable(boxes)
    PROVE  boxes \in Layouts(FALSE) /\ boxes \in Layouts(off) /\ boxes \in Drawn
<1>1. boxes \in Layouts(FALSE)
    BY Zenon DEF Storable
<1> QED
    BY <1>1, WiderLayouts, Zenon

\* What the editor can bring back, as layouts with boxes anywhere.
LEMMA DrawnFacts ==
    ASSUME LayoutOK
    PROVE  /\ slipped \in BOOLEAN
           /\ fields \in Drawn /\ past \in Seq(Drawn) /\ future \in Seq(Drawn)
<1>1. /\ slipped \in BOOLEAN /\ fields \in Layouts(slipped)
      /\ past \in Seq(Layouts(slipped)) /\ future \in Seq(Layouts(slipped))
    BY Zenon DEF LayoutOK
<1> QED
    BY <1>1, WiderLayouts, Zenon

LEMMA DrawnNext ==
    ASSUME LayoutOK'
    PROVE  fields' \in Drawn /\ past' \in Seq(Drawn) /\ future' \in Seq(Drawn)
<1>1. /\ slipped' \in BOOLEAN /\ fields' \in Layouts(slipped')
      /\ past' \in Seq(Layouts(slipped')) /\ future' \in Seq(Layouts(slipped'))
    BY Zenon DEF LayoutOK
<1> QED
    BY <1>1, WiderLayouts, Zenon

\* What a step that does not slip has to show of its layouts.
LEMMA StillOK ==
    ASSUME UNCHANGED slipped, slipped \in BOOLEAN,
           fields' \in Layouts(slipped), clipboard' \in Layouts(slipped), Len(clipboard') <= 1,
           past' \in Seq(Layouts(slipped)), future' \in Seq(Layouts(slipped)),
           Len(past') + Len(future') <= HISTORY_LIMIT + 1,
           held' \in Layouts(slipped), Len(held') <= 1, resizing' \in BOOLEAN
    PROVE  LayoutOK'
BY Zenon DEF LayoutOK

LEMMA HandStays ==
    ASSUME LayoutOK, UNCHANGED <<clipboard, hand>>
    PROVE  /\ UNCHANGED slipped /\ slipped \in BOOLEAN
           /\ clipboard' \in Layouts(slipped) /\ Len(clipboard') <= 1
           /\ held' \in Layouts(slipped) /\ Len(held') <= 1 /\ resizing' \in BOOLEAN
<1>1. UNCHANGED clipboard /\ UNCHANGED held /\ UNCHANGED resizing /\ UNCHANGED slipped
    BY DEF hand
<1> QED
    BY <1>1, Zenon DEF LayoutOK

\* Identities nothing has: as many as are asked for.
LEMMA FreshFacts ==
    ASSUME LayoutOK, NEW n \in Nat \ {0}
    PROVE  /\ FreshId(n) \in Nat /\ FreshId(n) \notin IdsOf(fields)
           /\ \A m \in Nat \ {0} : FreshId(m) = FreshId(n) => m = n
<1> DEFINE All == {fields, clipboard, held} \cup ToSet(past) \cup ToSet(future)
           ids == [boxes \in All |-> IdsOf(boxes)]
           Ids == {ids[boxes] : boxes \in All}
<1>1. All \subseteq Layouts(slipped) /\ IsFiniteSet(All)
    <2>1. /\ fields \in Layouts(slipped) /\ clipboard \in Layouts(slipped) /\ held \in Layouts(slipped)
          /\ past \in Seq(Layouts(slipped)) /\ future \in Seq(Layouts(slipped))
        BY DEF LayoutOK
    <2>2. /\ ToSet(past) \subseteq Layouts(slipped) /\ IsFiniteSet(ToSet(past))
          /\ ToSet(future) \subseteq Layouts(slipped) /\ IsFiniteSet(ToSet(future))
        BY <2>1, ToSetFacts, Zenon
    <2>3. IsFiniteSet({fields, clipboard, held})
        <3>1. IsFiniteSet({fields}) /\ IsFiniteSet({clipboard}) /\ IsFiniteSet({held})
            BY FS_Singleton, Zenon
        <3>2. IsFiniteSet(({fields} \cup {clipboard}) \cup {held})
            BY <3>1, FS_Union, Zenon
        <3>3. ({fields} \cup {clipboard}) \cup {held} = {fields, clipboard, held}
            OBVIOUS
        <3> QED
            BY <3>2, <3>3, Zenon
    <2>4. IsFiniteSet({fields, clipboard, held} \cup ToSet(past))
        BY <2>2, <2>3, FS_Union, Zenon
    <2>5. IsFiniteSet(All)
        BY <2>2, <2>4, FS_Union, Zenon
    <2> QED
        BY <2>1, <2>2, <2>5
<1> HIDE DEF All
<1>2. IsFiniteSet(Ids)
    <2>1. ids \in Surjection(All, Ids)
        <3>1. ids \in [All -> Ids]
            BY Zenon
        <3> QED
            BY <3>1, Zenon DEF Surjection
    <2> QED
        BY <1>1, <2>1, FS_Surjection, Zenon
<1>3. \A T \in Ids : IsFiniteSet(T)
    BY <1>1, LayoutFacts, Zenon
<1>4. UsedIds = UNION Ids
    BY Zenon DEF UsedIds, All
<1>5. IsFiniteSet(UsedIds)
    BY <1>2, <1>3, <1>4, FS_UNION, Zenon
<1>6. IdsOf(fields) \subseteq UsedIds
    BY DEF UsedIds
<1>7. ASSUME NEW m \in Nat \ {0}
      PROVE  /\ FreshId(m) \in 1 .. Cardinality(UsedIds) + m
             /\ FreshId(m) \notin UsedIds
             /\ Cardinality((1 .. FreshId(m)) \ UsedIds) = m
    <2>1. \E i \in 1 .. Cardinality(UsedIds) + m : i \notin UsedIds /\ Cardinality((1 .. i) \ UsedIds) = m
        BY <1>5, FreshOf, Zenon
    <2> QED
        BY <2>1, Zenon DEF FreshId
<1>8. FreshId(n) \in Nat
    <2>1. Cardinality(UsedIds) \in Nat /\ FreshId(n) \in 1 .. Cardinality(UsedIds) + n
        BY <1>5, <1>7, FS_CardinalityType
    <2> QED
        BY <2>1
<1>9. FreshId(n) \notin IdsOf(fields)
    BY <1>6, <1>7, Zenon
<1>10. \A m \in Nat \ {0} : FreshId(m) = FreshId(n) => m = n
    BY <1>7, Zenon
<1> QED
    BY <1>8, <1>9, <1>10, Zenon

-----------------------------------------------------------------------------
(* What each edit makes of a layout.                                       *)

\* A part of a layout is a layout.
LEMMA PartOfLayout ==
    ASSUME NEW off, NEW boxes \in Layouts(off), NEW I \in SUBSET DOMAIN boxes
    PROVE  Only(boxes, I) \in Layouts(off)
<1>1. /\ boxes \in Seq(Placed(off))
      /\ \A i, j \in DOMAIN boxes : boxes[i].id = boxes[j].id => i = j
    BY LayoutFacts, Zenon
<1> DEFINE o == Only(boxes, I)
<1>2. /\ o \in Seq(Placed(off))
      /\ \A m, n \in DOMAIN o : m # n => \E i, j \in I : i # j /\ o[m] = boxes[i] /\ o[n] = boxes[j]
    BY <1>1, OnlyFacts, Zenon
<1> HIDE DEF o
<1>3. ASSUME NEW m \in DOMAIN o, NEW n \in DOMAIN o, m # n
      PROVE  o[m].id # o[n].id
    <2>1. PICK i \in I, j \in I : i # j /\ o[m] = boxes[i] /\ o[n] = boxes[j]
        BY <1>2, <1>3, Zenon
    <2>2. i \in DOMAIN boxes /\ j \in DOMAIN boxes
        OBVIOUS
    <2>3. boxes[i].id # boxes[j].id
        BY <1>1, <2>1, <2>2, Zenon
    <2> QED
        BY <2>1, <2>3, Zenon
<1>4. o \in Layouts(off)
    BY <1>2, <1>3, LayoutFrom, Zenon
<1> QED
    BY <1>4, Zenon DEF o

\* So is one with a box more, of an identity it does not have.
LEMMA OneBoxMore ==
    ASSUME NEW off, NEW boxes \in Layouts(off), NEW b \in Placed(off), b.id \notin IdsOf(boxes)
    PROVE  Append(boxes, b) \in Layouts(off)
<1> DEFINE a == Append(boxes, b)
<1>1. /\ boxes \in Seq(Placed(off)) /\ Len(boxes) \in Nat
      /\ \A i, j \in 1 .. Len(boxes) : boxes[i].id = boxes[j].id => i = j
      /\ \A i \in 1 .. Len(boxes) : boxes[i].id # b.id
    <2>1. DOMAIN boxes = 1 .. Len(boxes)
        BY LayoutFacts, Zenon
    <2> QED
        BY <2>1, LayoutFacts, Zenon DEF IdsOf
<1>2. /\ a \in Seq(Placed(off)) /\ DOMAIN a = 1 .. Len(boxes) + 1
      /\ \A i \in 1 .. Len(boxes) : a[i] = boxes[i]
      /\ a[Len(boxes) + 1] = b
    <2>1. /\ a \in Seq(Placed(off)) /\ Len(a) = Len(boxes) + 1
          /\ \A i \in 1 .. Len(boxes) : a[i] = boxes[i]
          /\ a[Len(boxes) + 1] = b
        BY <1>1, AppendProperties
    <2> HIDE DEF a
    <2>2. DOMAIN a = 1 .. Len(a)
        BY <2>1
    <2> QED
        BY <2>1, <2>2, Zenon
<1> HIDE DEF a
<1>3. \A i \in DOMAIN a : i \in 1 .. Len(boxes) \/ i = Len(boxes) + 1
    BY <1>1, <1>2
<1>4. \A i, j \in DOMAIN a : a[i].id = a[j].id => i = j
    BY <1>1, <1>2, <1>3, Zenon
<1>5. a \in Layouts(off)
    BY <1>2, <1>4, LayoutFrom, Zenon
<1> QED
    BY <1>5, Zenon DEF a

\* And one in which a box is exchanged for one of its identity; no box loses
\* its place.
LEMMA PatchedLayout ==
    ASSUME NEW off, NEW boxes \in Layouts(off), boxes = fields, NEW b \in Placed(off)
    PROVE  /\ Patched(b.id, b) \in Layouts(off) /\ Len(Patched(b.id, b)) = Len(boxes)
           /\ \A i \in 1 .. Len(boxes) : boxes[i].id # b.id => Patched(b.id, b)[i] = boxes[i]
           /\ \A i \in 1 .. Len(boxes) : boxes[i].id = b.id => Patched(b.id, b)[i] = b
<1> DEFINE a == Patched(b.id, b)
<1>1. /\ Len(boxes) \in Nat /\ DOMAIN boxes = 1 .. Len(boxes)
      /\ \A i \in 1 .. Len(boxes) : boxes[i] \in Placed(off)
      /\ \A i, j \in 1 .. Len(boxes) : boxes[i].id = boxes[j].id => i = j
    <2>1. DOMAIN boxes = 1 .. Len(boxes)
        BY LayoutFacts, Zenon
    <2> QED
        BY <2>1, LayoutFacts, Zenon
<1>2. a = [i \in 1 .. Len(boxes) |-> IF boxes[i].id = b.id THEN b ELSE boxes[i]]
    BY Zenon DEF Patched
<1>3. DOMAIN a = 1 .. Len(boxes)
    BY <1>2, Zenon
<1>4. \A i \in 1 .. Len(boxes) : boxes[i].id # b.id => a[i] = boxes[i]
    BY <1>2, Zenon
<1>5. \A i \in 1 .. Len(boxes) : boxes[i].id = b.id => a[i] = b
    BY <1>2, Zenon
<1>6. a \in Seq(Placed(off)) /\ Len(a) = Len(boxes)
    <2>1. a \in [1 .. Len(boxes) -> Placed(off)]
        <3> DEFINE v == [i \in 1 .. Len(boxes) |-> IF boxes[i].id = b.id THEN b ELSE boxes[i]]
        <3>1. v \in [1 .. Len(boxes) -> Placed(off)]
            BY <1>1
        <3> QED
            BY <1>2, <3>1, Zenon
    <2> HIDE DEF a
    <2> QED
        BY <1>1, <2>1
<1> HIDE DEF a
<1>7. \A i \in 1 .. Len(boxes) : a[i].id = boxes[i].id
    BY <1>4, <1>5, Zenon
<1>8. \A i, j \in DOMAIN a : a[i].id = a[j].id => i = j
    BY <1>1, <1>3, <1>7, Zenon
<1>9. a \in Layouts(off)
    BY <1>6, <1>8, LayoutFrom, Zenon
<1> QED
    BY <1>4, <1>5, <1>6, <1>9, Zenon DEF a

LEMMA CommitFacts ==
    ASSUME NEW next \in Layouts(slipped), LayoutOK, Commit(next), UNCHANGED <<clipboard, hand>>
    PROVE  LayoutOK'
<1> DEFINE kept == LatestOf(past, HISTORY_LIMIT)
<1>1. HISTORY_LIMIT \in Nat \ {0} /\ fields \in Layouts(slipped) /\ past \in Seq(Layouts(slipped))
    BY LayoutAssumption DEF LayoutOK
<1>2. kept \in Seq(Layouts(slipped)) /\ Len(kept) <= HISTORY_LIMIT /\ Len(kept) \in Nat
    <2> DEFINE from == Larger(1, Len(past) - HISTORY_LIMIT + 1)
    <2>1. from \in Nat \ {0} /\ Len(past) \in Nat /\ Len(past) - from + 1 <= HISTORY_LIMIT
        BY <1>1 DEF Larger
    <2>2. \A i \in from .. Len(past) : past[i] \in Layouts(slipped)
        BY <1>1, <2>1
    <2> HIDE DEF from
    <2>3. /\ SubSeq(past, from, Len(past)) \in Seq(Layouts(slipped))
          /\ Len(SubSeq(past, from, Len(past))) = IF from <= Len(past) THEN Len(past) - from + 1 ELSE 0
        BY <2>1, <2>2, SubSeqProperties
    <2>4. kept = SubSeq(past, from, Len(past))
        BY Zenon DEF LatestOf, from
    <2> QED
        BY <1>1, <2>1, <2>3, <2>4
<1> HIDE DEF kept
<1>3. fields' = next /\ past' = Append(kept, fields) /\ future' = <<>>
    BY Zenon DEF Commit, ForgetsFuture, kept
<1>4. past' \in Seq(Layouts(slipped)) /\ Len(past') = Len(kept) + 1
    BY <1>1, <1>2, <1>3, AppendProperties
<1>5. future' \in Seq(Layouts(slipped)) /\ Len(future') = 0
    BY <1>3
<1>6. Len(past') + Len(future') <= HISTORY_LIMIT + 1
    BY <1>1, <1>2, <1>4, <1>5
<1>7. fields' \in Layouts(slipped)
    BY <1>3, Zenon
<1> QED
    BY <1>4, <1>5, <1>6, <1>7, HandStays, StillOK, Zenon

LEMMA UndoFacts ==
    ASSUME LayoutOK, Undo
    PROVE  LayoutOK'
<1>1. /\ HISTORY_LIMIT \in Nat \ {0}
      /\ fields \in Layouts(slipped)
      /\ past \in Seq(Layouts(slipped)) /\ future \in Seq(Layouts(slipped))
      /\ Len(past) + Len(future) <= HISTORY_LIMIT + 1
    BY LayoutAssumption DEF LayoutOK
<1>2. /\ past # <<>> /\ fields' = past[Len(past)] /\ past' = SubSeq(past, 1, Len(past) - 1)
      /\ future' = <<fields>> \o future /\ UNCHANGED <<clipboard, hand>>
    BY Zenon DEF Undo, Last, Front
<1>3. Len(past) \in Nat \ {0} /\ Len(future) \in Nat
    BY <1>1, <1>2
<1>4. past' \in Seq(Layouts(slipped)) /\ Len(past') = Len(past) - 1
    <2>1. \A i \in 1 .. Len(past) - 1 : past[i] \in Layouts(slipped)
        BY <1>1, <1>3
    <2>2. Len(past) - 1 \in Int
        BY <1>3
    <2> DEFINE front == SubSeq(past, 1, Len(past) - 1)
    <2>3. /\ front \in Seq(Layouts(slipped))
          /\ Len(front) = IF 1 <= Len(past) - 1 THEN Len(past) - 1 - 1 + 1 ELSE 0
        BY <2>1, <2>2, SubSeqProperties
    <2>4. past' = front
        BY <1>2, Zenon
    <2> HIDE DEF front
    <2> QED
        BY <1>3, <2>3, <2>4
<1>5. future' \in Seq(Layouts(slipped)) /\ Len(future') = Len(future) + 1
    <2>1. <<fields>> \in Seq(Layouts(slipped))
        BY <1>1
    <2>2. Len(<<fields>>) = 1
        OBVIOUS
    <2> QED
        BY <1>1, <1>2, <1>3, <2>1, <2>2, ConcatProperties
<1>6. fields' \in Layouts(slipped)
    BY <1>1, <1>2, <1>3
<1>7. Len(past') + Len(future') <= HISTORY_LIMIT + 1
    BY <1>1, <1>3, <1>4, <1>5
<1> QED
    BY <1>2, <1>4, <1>5, <1>6, <1>7, HandStays, StillOK, Zenon

LEMMA RedoFacts ==
    ASSUME LayoutOK, Redo
    PROVE  LayoutOK'
<1>1. /\ HISTORY_LIMIT \in Nat \ {0}
      /\ fields \in Layouts(slipped)
      /\ past \in Seq(Layouts(slipped)) /\ future \in Seq(Layouts(slipped))
      /\ Len(past) + Len(future) <= HISTORY_LIMIT + 1
    BY LayoutAssumption DEF LayoutOK
<1>2. /\ future # <<>> /\ fields' = Head(future) /\ future' = Tail(future)
      /\ past' = Append(past, fields) /\ UNCHANGED <<clipboard, hand>>
    BY Zenon DEF Redo
<1>3. Len(past) \in Nat /\ Len(future) \in Nat
    BY <1>1
<1>4. fields' \in Layouts(slipped) /\ future' \in Seq(Layouts(slipped)) /\ Len(future') = Len(future) - 1
    BY <1>1, <1>2, HeadTailProperties
<1>5. past' \in Seq(Layouts(slipped)) /\ Len(past') = Len(past) + 1
    BY <1>1, <1>2, AppendProperties
<1>6. Len(past') + Len(future') <= HISTORY_LIMIT + 1
    BY <1>1, <1>3, <1>4, <1>5
<1> QED
    BY <1>2, <1>4, <1>5, <1>6, HandStays, StillOK, Zenon

LEMMA KeysFacts ==
    ASSUME NEW boxes, NEW k
    PROVE  k \in KeysOf(boxes) <=> \E i \in DOMAIN boxes : boxes[i].key = k
BY Zenon DEF KeysOf, ToSet

-----------------------------------------------------------------------------
(* Copies for everyone who has none.                                       *)

\* The mth copy is of a box of the donor's, for one of the keys without any,
\* and every such key has its turn.
LEMMA Turns ==
    ASSUME NEW L \in Nat \ {0}, NEW N \in Nat
    PROVE  /\ N * L \in Nat
           /\ \A m \in 1 .. N * L : ((m - 1) % L) + 1 \in 1 .. L /\ ((m - 1) \div L) + 1 \in 1 .. N
           /\ \A k \in 1 .. N : \E m \in 1 .. N * L : ((m - 1) \div L) + 1 = k
<1>1. N * L \in Nat
    OBVIOUS
<1>2. ASSUME NEW m \in 1 .. N * L
      PROVE  ((m - 1) % L) + 1 \in 1 .. L /\ ((m - 1) \div L) + 1 \in 1 .. N
    <2>1. m - 1 \in Nat /\ m - 1 < N * L
        BY <1>1
    <2> DEFINE q == (m - 1) \div L
               r == (m - 1) % L
    <2>2. q \in Nat /\ r \in 0 .. L - 1 /\ m - 1 = L * q + r
        BY <2>1
    <2> HIDE DEF q, r
    <2>3. q < N
        <3> SUFFICES ASSUME q >= N
                     PROVE  FALSE
            BY <2>2
        <3>1. PICK d \in Nat : q = N + d
            BY <2>2
        <3>2. L * q = N * L + L * d /\ L * d \in Nat
            BY <3>1
        <3>3. L * q \in Nat
            BY <2>2
        <3> QED
            BY <1>1, <2>1, <2>2, <3>2, <3>3
    <2> QED
        BY <2>2, <2>3 DEF q, r
<1>3. ASSUME NEW k \in 1 .. N
      PROVE  \E m \in 1 .. N * L : ((m - 1) \div L) + 1 = k
    <2> DEFINE m == (k - 1) * L + 1
    <2>1. k - 1 \in Nat /\ (k - 1) * L \in Nat
        OBVIOUS
    <2>2. ((k - 1) * L) \div L = k - 1
        BY <2>1
    <2>3. (k - 1) * L + L = k * L
        OBVIOUS
    <2>4. k * L <= N * L /\ k * L \in Nat
        <3>1. PICK d \in Nat : N = k + d
            <4>1. N - k \in Nat /\ N = k + (N - k)
                OBVIOUS
            <4> QED
                BY <4>1
        <3>2. N * L = k * L + d * L /\ d * L \in Nat /\ k * L \in Nat
            BY <3>1
        <3> QED
            BY <1>1, <3>2
    <2>5. m \in 1 .. N * L
        BY <1>1, <2>1, <2>3, <2>4
    <2>6. ((m - 1) \div L) + 1 = k
        <3>1. m - 1 = (k - 1) * L
            BY <2>1
        <3> QED
            BY <2>1, <2>2, <3>1
    <2> QED
        BY <2>5, <2>6, Zenon
<1> QED
    BY <1>1, <1>2, <1>3, Zenon

\* Pushed down, but on the page.
LEMMA PushedFacts ==
    ASSUME NEW off, NEW b \in Placed(off), NEW n \in Nat
    PROVE  PushedDown(b, n) \in Nat /\ PushedDown(b, n) + b.h <= Rows
<1>1. b.y \in Nat /\ b.h \in Nat /\ b.h \in 1 .. Rows /\ Rows \in Nat
    BY BoxFacts, Zenon
<1>2. \A p, q \in Nat : (p + 1) * q \in Nat
    OBVIOUS
<1>3. PICK down \in Nat : down = (b.h + 1) * n
    BY <1>1, <1>2, Zenon
<1>4. PushedDown(b, n) = IF b.y + down < Rows - b.h THEN b.y + down ELSE Rows - b.h
    BY <1>3, Zenon DEF PushedDown, Smaller
<1> QED
    BY <1>1, <1>3, <1>4

\* A box given another identity, place and owner.
Rewrite(b, p, q, r) == [b EXCEPT !.id = p, !.y = q, !.key = r]

LEMMA Rewritten ==
    ASSUME NEW off, NEW b \in Placed(off), NEW p, NEW q, NEW r
    PROVE  Rewrite(b, p, q, r) = [id |-> p, key |-> r, y |-> q, h |-> b.h, blank |-> b.blank]
<1> DEFINE b1 == [b EXCEPT !.id = p]
           b2 == [b1 EXCEPT !.y = q]
           b3 == [b2 EXCEPT !.key = r]
<1>1. b = [id |-> b.id, key |-> b.key, y |-> b.y, h |-> b.h, blank |-> b.blank]
    BY BoxFacts, Zenon
<1>2. b1 = [id |-> p, key |-> b.key, y |-> b.y, h |-> b.h, blank |-> b.blank]
    BY <1>1
<1> HIDE DEF b1
<1>3. b2 = [id |-> p, key |-> b.key, y |-> q, h |-> b.h, blank |-> b.blank]
    BY <1>2
<1> HIDE DEF b2
<1>4. b3 = [id |-> p, key |-> r, y |-> q, h |-> b.h, blank |-> b.blank]
    BY <1>3
<1> HIDE DEF b3
<1> QED
    BY <1>4, Zenon DEF Rewrite, b1, b2, b3

\* The mth copy: a box on the page, with the mth identity nothing has, for the
\* key whose turn it is.
LEMMA CopyFacts ==
    ASSUME LayoutOK, Donor \in Seq(Placed(slipped)), NEW keys \in Seq(Nat), NEW m \in Nat \ {0},
           ((m - 1) % Len(Donor)) + 1 \in 1 .. Len(Donor), Turn(m) \in 1 .. Len(keys)
    PROVE  /\ Copy(keys, m) \in Placed(slipped)
           /\ Copy(keys, m).id = FreshId(m) /\ Copy(keys, m).key = keys[Turn(m)]
<1>1. PICK b \in Placed(slipped) : b = CopiedBox(m)
    <2>1. \A i \in 1 .. Len(Donor) : Donor[i] \in Placed(slipped)
        OBVIOUS
    <2> QED
        BY <2>1, Zenon DEF CopiedBox
<1>2. PICK id \in Nat : id = FreshId(m)
    BY FreshFacts
<1>3. PICK key \in Nat : key = keys[Turn(m)]
    OBVIOUS
<1>4. PICK y \in Nat : y = PushedDown(b, Turn(m)) /\ y + b.h <= Rows
    <2>1. Turn(m) \in Nat
        OBVIOUS
    <2> QED
        BY <2>1, PushedFacts, Zenon
<1> DEFINE c == [id |-> id, key |-> key, y |-> y, h |-> b.h, blank |-> b.blank]
<1>5. Copy(keys, m) = Rewrite(b, id, y, key)
    BY <1>1, <1>2, <1>3, <1>4, Zenon DEF Copy, Rewrite
<1>6. Rewrite(b, id, y, key) = c
    BY Rewritten
<1>7. c \in Placed(slipped)
    <2>1. b.h \in Nat /\ b.h >= 1 /\ b.blank \in BOOLEAN
        <3>1. b.h \in 1 .. Rows /\ b.blank \in BOOLEAN
            BY BoxFacts, Zenon
        <3> QED
            BY <3>1
    <2> QED
        BY <1>4, <2>1, BoxOnPage, Zenon
<1>8. c.id = id /\ c.key = key
    OBVIOUS
<1> HIDE DEF c
<1>9. Copy(keys, m) = c
    BY <1>5, <1>6, Zenon
<1> QED
    BY <1>2, <1>3, <1>7, <1>8, <1>9, Zenon

\* Copying the first recipient's boxes makes a layout in which everyone has one.
LEMMA CopiesFacts ==
    ASSUME LayoutOK, fields # <<>>, NEW keys \in Seq(Nat)
    PROVE  /\ fields \o AllCopies(keys) \in Layouts(slipped)
           /\ fields \o AllCopies(keys) # <<>>
           /\ \A n \in DOMAIN keys : keys[n] \in KeysOf(fields \o AllCopies(keys))
<1>1. /\ fields \in Layouts(slipped) /\ fields \in Seq(Placed(slipped)) /\ Len(fields) \in Nat
      /\ DOMAIN fields = 1 .. Len(fields)
      /\ \A i, j \in DOMAIN fields : fields[i].id = fields[j].id => i = j
    <2>1. fields \in Layouts(slipped)
        BY DEF LayoutOK
    <2> QED
        BY <2>1, LayoutFacts, Zenon
<1>2. 1 \in DOMAIN fields
    BY <1>1
<1> DEFINE D == Donor
           L == Len(D)
           U == Untagged(keys)
           N == Len(U)
           c == AllCopies(keys)
<1>3. D \in Seq(Placed(slipped)) /\ L \in Nat \ {0}
    <2> DEFINE I == {i \in DOMAIN fields : fields[i].key = fields[1].key}
    <2>1. D = Only(fields, I) /\ I \in SUBSET DOMAIN fields /\ 1 \in I
        BY <1>2, Zenon DEF Donor
    <2> HIDE DEF I
    <2> DEFINE o == Only(fields, I)
    <2>2. o \in Seq(Placed(slipped)) /\ \E n \in DOMAIN o : o[n] = fields[1]
        <3>1. fields \in Seq(Placed(slipped)) /\ I \in SUBSET DOMAIN fields
            BY <1>1, <2>1, Zenon
        <3>2. o \in Seq(Placed(slipped)) /\ \A i \in I : \E n \in DOMAIN o : o[n] = fields[i]
            BY <3>1, OnlyFacts, Zenon
        <3> HIDE DEF o
        <3> QED
            BY <2>1, <3>2, Zenon
    <2> HIDE DEF o
    <2>3. Len(o) \in Nat \ {0}
        BY <2>2
    <2>4. D = o
        BY <2>1, Zenon DEF o
    <2> QED
        BY <2>2, <2>3, <2>4, Zenon
<1>4. /\ U \in Seq(Nat)
      /\ \A n \in DOMAIN keys : keys[n] \in KeysOf(fields) \/ \E k \in DOMAIN U : U[k] = keys[n]
    <2> DEFINE I == {n \in DOMAIN keys : keys[n] \notin KeysOf(fields)}
    <2>1. U = Only(keys, I) /\ I \in SUBSET DOMAIN keys
        BY Zenon DEF Untagged
    <2>2. \A n \in DOMAIN keys : keys[n] \in KeysOf(fields) \/ n \in I
        BY Zenon
    <2> HIDE DEF I
    <2> DEFINE o == Only(keys, I)
    <2>3. o \in Seq(Nat) /\ \A n \in I : \E k \in DOMAIN o : o[k] = keys[n]
        BY <2>1, OnlyFacts, Zenon
    <2> HIDE DEF o
    <2>4. \A n \in DOMAIN keys : keys[n] \in KeysOf(fields) \/ \E k \in DOMAIN o : o[k] = keys[n]
        BY <2>2, <2>3, Zenon
    <2>5. U = o
        BY <2>1, Zenon DEF o
    <2> QED
        BY <2>3, <2>4, <2>5, Zenon
<1> HIDE DEF D, U
<1>5. N \in Nat /\ DOMAIN U = 1 .. N
    BY <1>4
<1>6. PICK T \in Nat :
        /\ T = N * L
        /\ \A m \in 1 .. T : ((m - 1) % L) + 1 \in 1 .. L /\ Turn(m) \in 1 .. N
        /\ \A k \in 1 .. N : \E m \in 1 .. T : Turn(m) = k
    <2> HIDE DEF L, N
    <2>1. \A m : Turn(m) = ((m - 1) \div L) + 1
        BY Zenon DEF Turn, L, D
    <2>2. /\ N * L \in Nat
          /\ \A m \in 1 .. N * L :
                ((m - 1) % L) + 1 \in 1 .. L /\ ((m - 1) \div L) + 1 \in 1 .. N
          /\ \A k \in 1 .. N : \E m \in 1 .. N * L : ((m - 1) \div L) + 1 = k
        BY <1>3, <1>5, Turns, Zenon
    <2>3. \A m \in 1 .. N * L : Turn(m) \in 1 .. N
        BY <2>1, <2>2, Zenon
    <2>4. \A k \in 1 .. N : \E m \in 1 .. N * L : Turn(m) = k
        BY <2>1, <2>2, Zenon
    <2> QED
        BY <2>2, <2>3, <2>4, Zenon
<1>7. c = [m \in 1 .. T |-> Copy(U, m)]
    BY <1>6, Zenon DEF AllCopies, U, D
<1>8. ASSUME NEW m \in 1 .. T
      PROVE  /\ m \in Nat \ {0} /\ c[m] \in Placed(slipped)
             /\ c[m].id = FreshId(m) /\ c[m].key = U[Turn(m)]
    <2>1. m \in Nat \ {0}
        BY <1>6
    <2>2. /\ Copy(U, m) \in Placed(slipped)
          /\ Copy(U, m).id = FreshId(m) /\ Copy(U, m).key = U[Turn(m)]
        BY <1>3, <1>4, <1>6, <2>1, CopyFacts, Zenon DEF D
    <2>3. c[m] = Copy(U, m)
        BY <1>7, Zenon
    <2> QED
        BY <2>1, <2>2, <2>3, Zenon
<1> HIDE DEF N, L
<1>9. c \in Seq(Placed(slipped)) /\ Len(c) = T /\ DOMAIN c = 1 .. T
    <2>1. DOMAIN c = 1 .. T
        BY <1>7, Zenon
    <2>2. c \in [1 .. T -> Placed(slipped)]
        <3> DEFINE v == [m \in 1 .. T |-> Copy(U, m)]
        <3>1. \A m \in 1 .. T : v[m] \in Placed(slipped)
            BY <1>7, <1>8, Zenon
        <3>2. v \in [1 .. T -> Placed(slipped)]
            BY <3>1
        <3> QED
            BY <1>7, <3>2, Zenon
    <2> HIDE DEF c
    <2>3. T \in Nat
        OBVIOUS
    <2> QED
        BY <2>1, <2>2, <2>3
<1> HIDE DEF c
<1> DEFINE all == fields \o c
<1>10. /\ all \in Seq(Placed(slipped)) /\ Len(all) = Len(fields) + Len(c)
       /\ \A i \in 1 .. Len(fields) : all[i] = fields[i]
       /\ \A m \in 1 .. Len(c) : all[Len(fields) + m] = c[m]
    <2>1. /\ all \in Seq(Placed(slipped)) /\ Len(all) = Len(fields) + Len(c)
          /\ \A i \in 1 .. Len(fields) + Len(c) :
                all[i] = IF i <= Len(fields) THEN fields[i] ELSE c[i - Len(fields)]
        <3>1. fields \in Seq(Placed(slipped)) /\ c \in Seq(Placed(slipped))
            BY <1>1, <1>9, Zenon
        <3> QED
            BY <3>1, ConcatProperties, Zenon
    <2> HIDE DEF all
    <2>2. Len(c) \in Nat
        BY <1>6, <1>9
    <2>3. \A i \in 1 .. Len(fields) : all[i] = fields[i]
        BY <1>1, <2>1, <2>2
    <2>4. ASSUME NEW m \in 1 .. Len(c)
          PROVE  all[Len(fields) + m] = c[m]
        <3>1. /\ Len(fields) + m \in 1 .. Len(fields) + Len(c) /\ ~(Len(fields) + m <= Len(fields))
              /\ Len(fields) + m - Len(fields) = m
            BY <1>1, <2>2
        <3> DEFINE i == Len(fields) + m
        <3>2. all[i] = IF i <= Len(fields) THEN fields[i] ELSE c[i - Len(fields)]
            BY <2>1, <3>1, Zenon
        <3> QED
            BY <1>1, <2>2, <3>1, <3>2
    <2> QED
        BY <2>1, <2>3, <2>4, Zenon
<1> HIDE DEF all
<1>11. /\ DOMAIN all = 1 .. Len(fields) + Len(c) /\ Len(c) \in Nat
       /\ \A i \in DOMAIN all : i \in 1 .. Len(fields) \/ \E m \in 1 .. Len(c) : i = Len(fields) + m
    <2>1. DOMAIN all = 1 .. Len(fields) + Len(c) /\ Len(c) \in Nat
        BY <1>6, <1>9, <1>10
    <2>2. ASSUME NEW i \in 1 .. Len(fields) + Len(c), i \notin 1 .. Len(fields)
          PROVE  \E m \in 1 .. Len(c) : i = Len(fields) + m
        <3>1. i - Len(fields) \in 1 .. Len(c) /\ i = Len(fields) + (i - Len(fields))
            BY <1>1, <2>1, <2>2
        <3> QED
            BY <3>1, Zenon
    <2> QED
        BY <2>1, <2>2, Zenon
<1>12. ASSUME NEW i \in 1 .. Len(fields), NEW m \in 1 .. Len(c)
       PROVE  fields[i].id # c[m].id
    <2>1. FreshId(m) \notin IdsOf(fields) /\ c[m].id = FreshId(m)
        BY <1>8, <1>9, FreshFacts, Zenon
    <2> QED
        BY <1>1, <2>1, Zenon DEF IdsOf
<1>13. ASSUME NEW m \in 1 .. Len(c), NEW n \in 1 .. Len(c), c[m].id = c[n].id
       PROVE  m = n
    <2>1. m \in Nat \ {0} /\ n \in Nat \ {0} /\ FreshId(m) = FreshId(n)
        BY <1>8, <1>9, <1>13, Zenon
    <2> QED
        BY <2>1, FreshFacts, Zenon
<1>14. ASSUME NEW i \in DOMAIN all, NEW j \in DOMAIN all, all[i].id = all[j].id
       PROVE  i = j
    <2>1. CASE i \in 1 .. Len(fields) /\ j \in 1 .. Len(fields)
        BY <1>1, <1>10, <1>14, <2>1, Zenon
    <2>2. CASE i \in 1 .. Len(fields) /\ \E m \in 1 .. Len(c) : j = Len(fields) + m
        <3>1. PICK m \in 1 .. Len(c) : j = Len(fields) + m
            BY <2>2
        <3>2. fields[i].id = c[m].id
            BY <1>10, <1>14, <2>2, <3>1, Zenon
        <3> QED
            BY <1>12, <2>2, <3>2, Zenon
    <2>3. CASE j \in 1 .. Len(fields) /\ \E m \in 1 .. Len(c) : i = Len(fields) + m
        <3>1. PICK m \in 1 .. Len(c) : i = Len(fields) + m
            BY <2>3
        <3>2. fields[j].id = c[m].id
            BY <1>10, <1>14, <2>3, <3>1, Zenon
        <3> QED
            BY <1>12, <2>3, <3>2, Zenon
    <2>4. CASE /\ \E m \in 1 .. Len(c) : i = Len(fields) + m
               /\ \E m \in 1 .. Len(c) : j = Len(fields) + m
        <3>1. PICK m \in 1 .. Len(c), n \in 1 .. Len(c) : i = Len(fields) + m /\ j = Len(fields) + n
            BY <2>4, Zenon
        <3>2. c[m].id = c[n].id
            BY <1>10, <1>14, <3>1, Zenon
        <3> QED
            BY <1>13, <3>1, <3>2, Zenon
    <2> QED
        BY <1>11, <2>1, <2>2, <2>3, <2>4, Zenon
<1>15. all \in Layouts(slipped)
    BY <1>10, <1>14, LayoutFrom, Zenon
<1>16. all # <<>>
    BY <1>2, <1>1, <1>10, <1>11
<1>17. ASSUME NEW n \in DOMAIN keys
       PROVE  keys[n] \in KeysOf(all)
    <2>1. CASE keys[n] \in KeysOf(fields)
        <3>1. PICK i \in DOMAIN fields : fields[i].key = keys[n]
            BY <2>1, KeysFacts, Zenon
        <3>2. i \in DOMAIN all /\ all[i] = fields[i]
            BY <1>1, <1>10, <1>11
        <3> QED
            BY <3>1, <3>2, KeysFacts, Zenon
    <2>2. CASE \E k \in DOMAIN U : U[k] = keys[n]
        <3>1. PICK k \in DOMAIN U : U[k] = keys[n]
            BY <2>2
        <3>2. PICK m \in 1 .. Len(c) : Turn(m) = k
            BY <1>5, <1>6, <1>9, Zenon
        <3>3. c[m].key = keys[n]
            BY <1>8, <1>9, <3>1, <3>2, Zenon
        <3>4. Len(fields) + m \in DOMAIN all /\ all[Len(fields) + m] = c[m]
            BY <1>1, <1>10, <1>11
        <3> QED
            BY <3>3, <3>4, KeysFacts, Zenon
    <2> QED
        BY <1>4, <2>1, <2>2, Zenon
<1> QED
    BY <1>15, <1>16, <1>17, Zenon DEF all, c

-----------------------------------------------------------------------------
(* Every edit leaves layouts the API stores.                               *)

LEMMA RowFacts ==
    ASSUME TypeOK
    PROVE  /\ recipients \in Seq(RecipientRows)
           /\ Len(recipients) \in 1 .. MaxRecipients /\ DOMAIN recipients = Rows1
           /\ \A i \in Rows1 : recipients[i] \in RecipientRows /\ recipients[i].key \in Nat
           /\ SignerKeys \in Seq(Nat)
           /\ \A i \in Rows1 : recipients[i].role = "signer" =>
                \E n \in DOMAIN SignerKeys : SignerKeys[n] = recipients[i].key
<1>1. /\ recipients \in Seq(RecipientRows)
      /\ Len(recipients) \in 1 .. MaxRecipients /\ DOMAIN recipients = Rows1
      /\ \A i \in Rows1 : recipients[i] \in RecipientRows
    <2>1. recipients \in Seq(RecipientRows) /\ recipients # <<>> /\ Len(recipients) <= MaxRecipients
        BY Zenon DEF TypeOK
    <2>2. MaxRecipients \in Nat
        BY PrepareAssumption
    <2>3. Len(recipients) \in Nat \ {0} /\ DOMAIN recipients = 1 .. Len(recipients)
        BY <2>1
    <2>4. Len(recipients) \in 1 .. MaxRecipients
        BY <2>1, <2>2, <2>3
    <2>5. \A i \in 1 .. Len(recipients) : recipients[i] \in RecipientRows
        BY <2>1
    <2> QED
        BY <2>1, <2>3, <2>4, <2>5, Zenon DEF Rows1
<1>2. \A r \in RecipientRows : r.key \in Nat
    BY DEF RecipientRows
<1> DEFINE I == {i \in Rows1 : recipients[i].role = "signer"}
           rows == Only(recipients, I)
<1>3. /\ rows \in Seq(RecipientRows)
      /\ \A i \in I : \E n \in DOMAIN rows : rows[n] = recipients[i]
    <2>1. I \in SUBSET DOMAIN recipients
        BY <1>1, Zenon
    <2> HIDE DEF I
    <2> QED
        BY <1>1, <2>1, OnlyFacts, Zenon
<1>4. SignerRows = rows
    BY Zenon DEF SignerRows
<1> HIDE DEF rows
<1>5. Len(rows) \in Nat /\ DOMAIN rows = 1 .. Len(rows) /\ \A n \in 1 .. Len(rows) : rows[n] \in RecipientRows
    BY <1>3
<1>6. SignerKeys = [n \in 1 .. Len(rows) |-> rows[n].key]
    BY <1>4, Zenon DEF SignerKeys
<1>7. SignerKeys \in Seq(Nat)
    <2> DEFINE v == [n \in 1 .. Len(rows) |-> rows[n].key]
    <2>1. \A n \in 1 .. Len(rows) : rows[n].key \in Nat
        BY <1>2, <1>5, Zenon
    <2>2. v \in Seq(Nat)
        BY <1>5, <2>1
    <2> QED
        BY <1>6, <2>2, Zenon
<1>8. ASSUME NEW i \in Rows1, recipients[i].role = "signer"
      PROVE  \E n \in DOMAIN SignerKeys : SignerKeys[n] = recipients[i].key
    <2>1. PICK n \in DOMAIN rows : rows[n] = recipients[i]
        BY <1>3, <1>8, Zenon
    <2>2. n \in DOMAIN SignerKeys /\ SignerKeys[n] = rows[n].key
        BY <1>5, <1>6, <2>1, Zenon
    <2> QED
        BY <2>1, <2>2, Zenon
<1> QED
    BY <1>1, <1>2, <1>7, <1>8, Zenon

LEMMA ShownFacts ==
    ASSUME TypeOK
    PROVE  /\ LayoutOK /\ fields \in Layouts(slipped) /\ DOMAIN fields = 1 .. Len(fields)
           /\ \A b \in ToSet(fields) : b \in Placed(slipped)
<1>1. LayoutOK /\ fields \in Layouts(slipped)
    BY Zenon DEF TypeOK, LayoutOK
<1>2. DOMAIN fields = 1 .. Len(fields) /\ \A i \in DOMAIN fields : fields[i] \in Placed(slipped)
    BY <1>1, LayoutFacts, Zenon
<1>3. \A b \in ToSet(fields) : b \in Placed(slipped)
    BY <1>2, Zenon DEF ToSet
<1> QED
    BY <1>1, <1>2, <1>3, Zenon

LEMMA NoBoxes ==
    ASSUME NEW off
    PROVE  <<>> \in Layouts(off)
<1>1. <<>> \in Seq(Placed(off)) /\ \A i, j \in DOMAIN <<>> : i = j
    OBVIOUS
<1> QED
    BY <1>1, LayoutFrom, Zenon

\* A box of the layout alone, as the clipboard and the pointer hold it.
LEMMA LoneBox ==
    ASSUME NEW b \in Placed(slipped)
    PROVE  <<b>> \in Layouts(slipped) /\ Len(<<b>>) <= 1
<1>1. <<b>> \in Seq(Placed(slipped)) /\ Len(<<b>>) = 1 /\ \A i, j \in DOMAIN <<b>> : i = j
    OBVIOUS
<1>2. <<b>> \in Layouts(slipped)
    BY <1>1, LayoutFrom, Zenon
<1>3. Len(<<b>>) <= 1
    BY <1>1
<1> QED
    BY <1>2, <1>3, Zenon

\* No box changes, only what is held of them.
LEMMA BoxesStay ==
    ASSUME LayoutOK, UNCHANGED <<fields, past, future>>, UNCHANGED slipped,
           clipboard' \in Layouts(slipped), Len(clipboard') <= 1,
           held' \in Layouts(slipped), Len(held') <= 1, resizing' \in BOOLEAN
    PROVE  LayoutOK'
<1>1. UNCHANGED fields /\ UNCHANGED past /\ UNCHANGED future
    OBVIOUS
<1>2. /\ slipped \in BOOLEAN /\ fields' \in Layouts(slipped)
      /\ past' \in Seq(Layouts(slipped)) /\ future' \in Seq(Layouts(slipped))
      /\ Len(past') + Len(future') <= HISTORY_LIMIT + 1
    BY <1>1, Zenon DEF LayoutOK
<1> QED
    BY <1>2, StillOK, Zenon

\* Placing, taking hold of, re-assigning, and copying to every signer.
LEMMA PointingKeepsLayout ==
    ASSUME TypeOK, Pointing
    PROVE  LayoutOK'
<1>1. /\ LayoutOK /\ fields \in Layouts(slipped) /\ DOMAIN fields = 1 .. Len(fields)
      /\ \A b \in ToSet(fields) : b \in Placed(slipped)
    BY ShownFacts, Zenon
<1>2. ASSUME NEW key \in Nat, NEW row \in Pointed, AddField(key, row)
      PROVE  LayoutOK'
    <2>1. PICK id \in Nat : id = FreshId(1) /\ id \notin IdsOf(fields)
        BY <1>1, FreshFacts
    <2>2. PICK y \in Nat : y = Smaller(Rows - NewHeight, Larger(0, row)) /\ y + NewHeight <= Rows
        <3> DEFINE v == Smaller(Rows - NewHeight, Larger(0, row))
        <3>1. row \in Int /\ Rows \in Nat /\ NewHeight \in 1 .. Rows
            BY LayoutAssumption
        <3>2. PICK w \in Nat : w = Larger(0, row)
            BY <3>1 DEF Larger
        <3>3. v = IF Rows - NewHeight < w THEN Rows - NewHeight ELSE w
            BY <3>2, Zenon DEF Smaller
        <3> HIDE DEF v
        <3>4. v \in Nat /\ v + NewHeight <= Rows
            BY <3>1, <3>3
        <3> QED
            BY <3>4, Zenon DEF v
    <2> DEFINE b == [id |-> id, key |-> key, y |-> y, h |-> NewHeight, blank |-> FALSE]
    <2>3. b \in Placed(slipped) /\ b.id = id
        <3>1. NewHeight \in Nat /\ NewHeight >= 1
            BY LayoutAssumption
        <3>2. b.id = id /\ FALSE \in BOOLEAN
            OBVIOUS
        <3> QED
            BY <2>2, <3>1, <3>2, BoxOnPage, Zenon
    <2>4. Commit(Append(fields, b)) /\ UNCHANGED <<clipboard, hand>>
        BY <1>2, <2>1, <2>2, Zenon DEF AddField
    <2> HIDE DEF b
    <2>5. Append(fields, b) \in Layouts(slipped)
        BY <1>1, <2>1, <2>3, OneBoxMore, Zenon
    <2> QED
        BY <1>1, <2>4, <2>5, CommitFacts, Zenon
<1>3. ASSUME NEW b \in ToSet(fields), NEW byCorner \in BOOLEAN, StartGesture(b, byCorner)
      PROVE  LayoutOK'
    <2>1. <<b>> \in Layouts(slipped) /\ Len(<<b>>) <= 1
        BY <1>1, LoneBox, Zenon
    <2>2. /\ held' = <<b>> /\ resizing' = byCorner
          /\ UNCHANGED <<fields, past, future, clipboard, slipped>>
        BY <1>3, Zenon DEF StartGesture
    <2>3. UNCHANGED <<fields, past, future>> /\ UNCHANGED clipboard /\ UNCHANGED slipped
        BY <2>2
    <2>4. held' \in Layouts(slipped) /\ Len(held') <= 1 /\ resizing' \in BOOLEAN
        BY <2>1, <2>2, Zenon
    <2>5. clipboard' \in Layouts(slipped) /\ Len(clipboard') <= 1
        BY <1>1, <2>3, Zenon DEF LayoutOK
    <2> QED
        BY <1>1, <2>3, <2>4, <2>5, BoxesStay, Zenon
<1>4. ASSUME NEW b \in ToSet(fields), NEW c \in Boxes, c.id = b.id, c.y = b.y, c.h = b.h,
             Commit(Patched(b.id, c)), UNCHANGED <<clipboard, hand>>
      PROVE  LayoutOK'
    <2>1. b \in Placed(slipped)
        BY <1>1
    <2>2. c \in Placed(slipped)
        BY <1>4, <2>1, SamePlace, Zenon
    <2>3. Patched(c.id, c) \in Layouts(slipped)
        BY <1>1, <2>2, PatchedLayout, Zenon
    <2> QED
        BY <1>1, <1>4, <2>3, CommitFacts, Zenon
<1>5. ASSUME NEW b \in ToSet(fields), NEW key \in Nat, Reassign(b, key)
      PROVE  LayoutOK'
    <2>1. /\ b \in Boxes
          /\ b = [id |-> b.id, key |-> b.key, y |-> b.y, h |-> b.h, blank |-> b.blank]
        BY <1>1, BoxFacts, Zenon
    <2> DEFINE c == [b EXCEPT !.key = key]
    <2>2. c \in Boxes /\ c.id = b.id /\ c.y = b.y /\ c.h = b.h
        BY <2>1 DEF Boxes
    <2>3. Commit(Patched(b.id, c)) /\ UNCHANGED <<clipboard, hand>>
        BY <1>5, Zenon DEF Reassign
    <2> HIDE DEF c
    <2> QED
        BY <1>4, <2>2, <2>3, Zenon
<1>6. ASSUME NEW b \in ToSet(fields), NEW blank \in BOOLEAN, EditOptions(b, blank)
      PROVE  LayoutOK'
    <2>1. /\ b \in Boxes
          /\ b = [id |-> b.id, key |-> b.key, y |-> b.y, h |-> b.h, blank |-> b.blank]
        BY <1>1, BoxFacts, Zenon
    <2> DEFINE c == [b EXCEPT !.blank = blank]
    <2>2. c \in Boxes /\ c.id = b.id /\ c.y = b.y /\ c.h = b.h
        BY <2>1 DEF Boxes
    <2>3. Commit(Patched(b.id, c)) /\ UNCHANGED <<clipboard, hand>>
        BY <1>6, Zenon DEF EditOptions
    <2> HIDE DEF c
    <2> QED
        BY <1>4, <2>2, <2>3, Zenon
<1>7. ASSUME CopyFieldsToEverySigner(SignerKeys)
      PROVE  LayoutOK'
    <2>1. CASE fields = <<>>
        <3>1. UNCHANGED <<fields, past, future>> /\ UNCHANGED <<clipboard, hand>>
            BY <1>7, <2>1, Zenon DEF CopyFieldsToEverySigner
        <3> QED
            BY <1>1, <3>1, HandStays, BoxesStay, Zenon
    <2>2. CASE fields # <<>>
        <3>1. Commit(fields \o AllCopies(SignerKeys)) /\ UNCHANGED <<clipboard, hand>>
            BY <1>7, <2>2, Zenon DEF CopyFieldsToEverySigner
        <3>2. fields \o AllCopies(SignerKeys) \in Layouts(slipped)
            BY <1>1, <2>2, RowFacts, CopiesFacts, Zenon
        <3> QED
            BY <1>1, <3>1, <3>2, CommitFacts, Zenon
    <2> QED
        BY <2>1, <2>2, Zenon
<1>8. \A i \in Rows1 : recipients[i].key \in Nat
    BY RowFacts, Zenon
<1> QED
    BY <1>2, <1>3, <1>5, <1>6, <1>7, <1>8, Zenon DEF Pointing

\* A move of the pointer keeps what it drags a box, and the same one; and on the
\* page, unless it met another box than the one held.
LEMMA DraggedFacts ==
    ASSUME NEW o \in Boxes, NEW b \in Boxes, NEW row \in Int, resizing \in BOOLEAN, b.id = o.id
    PROVE  /\ Dragged(o, b, row) \in Boxes
           /\ Dragged(o, b, row).id = b.id /\ Dragged(o, b, row).key = b.key
           /\ ~Slips(o, b) => OnPage(Dragged(o, b, row))
<1>1. /\ Rows \in Nat
      /\ o.y \in Nat /\ o.y < Rows /\ o.h \in 1 .. Rows
      /\ b.id \in Nat /\ b.key \in Nat /\ b.y \in Nat /\ b.y < Rows /\ b.h \in 1 .. Rows
      /\ b.blank \in BOOLEAN
      /\ b = [id |-> b.id, key |-> b.key, y |-> b.y, h |-> b.h, blank |-> b.blank]
    BY LayoutAssumption DEF Boxes
<1>2. CASE resizing
    <2>1. PICK h \in 1 .. Rows : h = Clamp(row - o.y, 1, Rows - o.y) /\ o.y + h <= Rows
        BY <1>1 DEF Clamp, Smaller, Larger
    <2> DEFINE d == [b EXCEPT !.h = h]
    <2>2. Dragged(o, b, row) = d
        BY <1>2, <2>1, Zenon DEF Dragged, ResizedTo
    <2>3. d \in Boxes /\ d.id = b.id /\ d.key = b.key /\ d.y = b.y /\ d.h = h
        BY <1>1 DEF Boxes
    <2>4. ~Slips(o, b) => b.y = o.y
        BY <1>2, Zenon DEF Slips
    <2> HIDE DEF d
    <2>5. ~Slips(o, b) => OnPage(d)
        BY <2>1, <2>3, <2>4 DEF OnPage
    <2> QED
        BY <2>2, <2>3, <2>5, Zenon
<1>3. CASE ~resizing
    <2>1. PICK y \in Nat : y = Clamp(row, 0, Rows - o.h) /\ y + o.h <= Rows /\ y < Rows
        BY <1>1 DEF Clamp, Smaller, Larger
    <2> DEFINE d == [b EXCEPT !.y = y]
    <2>2. Dragged(o, b, row) = d
        BY <1>3, <2>1, Zenon DEF Dragged, MovedTo
    <2>3. d \in Boxes /\ d.id = b.id /\ d.key = b.key /\ d.y = y /\ d.h = b.h
        BY <1>1, <2>1 DEF Boxes
    <2>4. ~Slips(o, b) => b.h = o.h
        BY <1>3, Zenon DEF Slips
    <2> HIDE DEF d
    <2>5. ~Slips(o, b) => OnPage(d)
        BY <2>1, <2>3, <2>4 DEF OnPage
    <2> QED
        BY <2>2, <2>3, <2>5, Zenon
<1> QED
    BY <1>2, <1>3, Zenon

LEMMA MovesKeepLayout ==
    ASSUME TypeOK, NEW row \in Pointed, PointerMoves(row)
    PROVE  LayoutOK'
<1>1. /\ LayoutOK /\ fields \in Layouts(slipped) /\ DOMAIN fields = 1 .. Len(fields)
      /\ \A i \in 1 .. Len(fields) : fields[i] \in Placed(slipped)
      /\ \A i, j \in 1 .. Len(fields) : fields[i].id = fields[j].id => i = j
      /\ Len(fields) \in Nat
    <2>1. LayoutOK /\ fields \in Layouts(slipped) /\ DOMAIN fields = 1 .. Len(fields)
        BY ShownFacts, Zenon
    <2> QED
        BY <2>1, LayoutFacts, Zenon
<1>2. /\ slipped \in BOOLEAN /\ resizing \in BOOLEAN /\ row \in Int
      /\ held \in Layouts(slipped) /\ held # <<>>
      /\ UNCHANGED past /\ UNCHANGED future /\ UNCHANGED clipboard
      /\ UNCHANGED held /\ UNCHANGED resizing
    <2>1. UNCHANGED <<past, future, clipboard, held, resizing>> /\ held # <<>>
        BY Zenon DEF PointerMoves
    <2>2. row \in Int
        BY LayoutAssumption
    <2>3. slipped \in BOOLEAN /\ resizing \in BOOLEAN /\ held \in Layouts(slipped)
        BY <1>1, Zenon DEF LayoutOK
    <2> QED
        BY <2>1, <2>2, <2>3
<1>3. PICK o \in Boxes : o = Head(held)
    <2>1. held \in Seq(Placed(slipped))
        BY <1>2, LayoutFacts, Zenon
    <2>2. Head(held) \in Placed(slipped)
        BY <1>2, <2>1, HeadTailProperties, Zenon
    <2> QED
        BY <2>2, BoxFacts, Zenon
<1>4. /\ fields' = [i \in 1 .. Len(fields) |->
                      IF fields[i].id = o.id THEN Dragged(o, fields[i], row) ELSE fields[i]]
      /\ slipped' = (slipped \/ \E i \in 1 .. Len(fields) : Slips(o, fields[i]))
    BY <1>3, Zenon DEF PointerMoves
<1>5. PICK off \in BOOLEAN :
        /\ slipped' = off
        /\ slipped => off
        /\ \A i \in 1 .. Len(fields) : Slips(o, fields[i]) => off
    BY <1>4, Zenon
<1>6. Layouts(slipped) \subseteq Layouts(off)
    <2>1. CASE off = TRUE
        BY <1>2, <2>1, WiderLayouts, Zenon DEF Drawn
    <2>2. CASE off = FALSE
        <3>1. slipped = FALSE
            BY <1>2, <1>5, <2>2, Zenon
        <3> QED
            BY <2>2, <3>1, Zenon
    <2> QED
        BY <2>1, <2>2, Zenon
<1>7. ASSUME NEW i \in 1 .. Len(fields)
      PROVE  fields'[i] \in Placed(off) /\ fields'[i].id = fields[i].id
    <2>1. fields[i] \in Boxes /\ (slipped \/ OnPage(fields[i]))
        BY <1>1, Zenon DEF Placed
    <2>2. CASE fields[i].id # o.id
        <3>1. fields'[i] = fields[i]
            BY <1>4, <2>2, Zenon
        <3> QED
            BY <1>5, <2>1, <3>1, Zenon DEF Placed
    <2>3. CASE fields[i].id = o.id
        <3>1. fields'[i] = Dragged(o, fields[i], row)
            BY <1>4, <2>3, Zenon
        <3>2. /\ Dragged(o, fields[i], row) \in Boxes /\ Dragged(o, fields[i], row).id = fields[i].id
              /\ ~Slips(o, fields[i]) => OnPage(Dragged(o, fields[i], row))
            BY <1>2, <2>1, <2>3, DraggedFacts, Zenon
        <3> QED
            BY <1>5, <3>1, <3>2, Zenon DEF Placed
    <2> QED
        BY <2>2, <2>3, Zenon
<1>8. fields' \in Layouts(off)
    <2>1. DOMAIN fields' = 1 .. Len(fields)
        BY <1>4, Zenon
    <2>2. fields' \in Seq(Placed(off))
        <3>1. fields' \in [1 .. Len(fields) -> Placed(off)]
            <4> DEFINE v == [i \in 1 .. Len(fields) |->
                              IF fields[i].id = o.id THEN Dragged(o, fields[i], row) ELSE fields[i]]
            <4>1. fields' = v
                BY <1>4, Zenon
            <4>2. \A i \in 1 .. Len(fields) : v[i] \in Placed(off)
                BY <1>7, <4>1, Zenon
            <4>3. v \in [1 .. Len(fields) -> Placed(off)]
                BY <4>2
            <4> QED
                BY <4>1, <4>3, Zenon
        <3> QED
            BY <1>1, <3>1
    <2>3. \A i, j \in DOMAIN fields' : fields'[i].id = fields'[j].id => i = j
        BY <1>1, <1>7, <2>1, Zenon
    <2> QED
        BY <2>2, <2>3, LayoutFrom, Zenon
<1>9. /\ clipboard' \in Layouts(off) /\ Len(clipboard') <= 1 /\ held' \in Layouts(off) /\ Len(held') <= 1
      /\ resizing' \in BOOLEAN /\ Len(past') + Len(future') <= HISTORY_LIMIT + 1
    <2>1. /\ clipboard \in Layouts(off) /\ Len(clipboard) <= 1 /\ held \in Layouts(off) /\ Len(held) <= 1
          /\ resizing \in BOOLEAN /\ Len(past) + Len(future) <= HISTORY_LIMIT + 1
        BY <1>1, <1>6, Zenon DEF LayoutOK
    <2> QED
        BY <1>2, <2>1, Zenon
<1>10. past' \in Seq(Layouts(off)) /\ future' \in Seq(Layouts(off))
    <2>1. past \in Seq(Layouts(slipped)) /\ future \in Seq(Layouts(slipped))
        BY <1>1, Zenon DEF LayoutOK
    <2>2. past \in Seq(Layouts(off)) /\ future \in Seq(Layouts(off))
        BY <1>6, <2>1
    <2> QED
        BY <1>2, <2>2, Zenon
<1> QED
    BY <1>5, <1>8, <1>9, <1>10, Zenon DEF LayoutOK

LEMMA ReleaseKeepsLayout ==
    ASSUME TypeOK, EndGesture
    PROVE  LayoutOK'
<1>1. /\ LayoutOK /\ held' = <<>> /\ resizing' = FALSE
      /\ UNCHANGED <<fields, past, future, clipboard, slipped>>
    BY ShownFacts, Zenon DEF EndGesture
<1>2. held' \in Layouts(slipped) /\ Len(held') <= 1 /\ resizing' \in BOOLEAN
    <2>1. Len(<<>>) <= 1 /\ FALSE \in BOOLEAN
        OBVIOUS
    <2> QED
        BY <1>1, <2>1, NoBoxes, Zenon
<1>3. UNCHANGED <<fields, past, future>> /\ UNCHANGED clipboard /\ UNCHANGED slipped
    BY <1>1
<1>4. clipboard' \in Layouts(slipped) /\ Len(clipboard') <= 1
    BY <1>1, <1>3, Zenon DEF LayoutOK
<1> QED
    BY <1>1, <1>2, <1>3, <1>4, BoxesStay, Zenon

\* The menu, and the keyboard.
LEMMA MenuKeepsLayout ==
    ASSUME TypeOK, Menu
    PROVE  LayoutOK'
<1>1. LayoutOK /\ fields \in Layouts(slipped)
    BY ShownFacts, Zenon
<1>2. CASE MakeEveryRequired
    <2>1. Commit(fields) /\ UNCHANGED <<clipboard, hand>>
        BY <1>2, Zenon DEF MakeEveryRequired
    <2> QED
        BY <1>1, <2>1, CommitFacts, Zenon
<1>3. ASSUME NEW key, ClearFieldsOf(key)
      PROVE  LayoutOK'
    <2> DEFINE I == {i \in DOMAIN fields : fields[i].key # key}
    <2>1. I \in SUBSET DOMAIN fields
        BY Zenon
    <2>2. Commit(Only(fields, I)) /\ UNCHANGED <<clipboard, hand>>
        BY <1>3, Zenon DEF ClearFieldsOf
    <2> HIDE DEF I
    <2>3. Only(fields, I) \in Layouts(slipped)
        BY <1>1, <2>1, PartOfLayout, Zenon
    <2> QED
        BY <1>1, <2>2, <2>3, CommitFacts, Zenon
<1>4. CASE RemoveAll
    <2>1. Commit(<<>>) /\ UNCHANGED <<clipboard, hand>>
        BY <1>4, Zenon DEF RemoveAll
    <2>2. <<>> \in Layouts(slipped)
        BY NoBoxes, Zenon
    <2> QED
        BY <1>1, <2>1, <2>2, CommitFacts, Zenon
<1> QED
    BY <1>2, <1>3, <1>4, Zenon DEF Menu

LEMMA KeyboardKeepsLayout ==
    ASSUME TypeOK, Keyboard
    PROVE  LayoutOK'
<1>1. /\ LayoutOK /\ fields \in Layouts(slipped)
      /\ \A b \in ToSet(fields) : b \in Placed(slipped)
    BY ShownFacts, Zenon
<1>2. CASE Undo
    BY <1>1, <1>2, UndoFacts, Zenon
<1>3. CASE Redo
    BY <1>1, <1>3, RedoFacts, Zenon
<1>4. ASSUME NEW b \in ToSet(fields), CopySelected(b)
      PROVE  LayoutOK'
    <2>1. <<b>> \in Layouts(slipped) /\ Len(<<b>>) <= 1
        BY <1>1, LoneBox, Zenon
    <2>2. clipboard' = <<b>> /\ UNCHANGED <<fields, past, future, hand>>
        BY <1>4, Zenon DEF CopySelected
    <2>3. UNCHANGED <<fields, past, future>> /\ UNCHANGED held /\ UNCHANGED resizing /\ UNCHANGED slipped
        BY <2>2 DEF hand
    <2>4. clipboard' \in Layouts(slipped) /\ Len(clipboard') <= 1
        BY <2>1, <2>2, Zenon
    <2>5. held' \in Layouts(slipped) /\ Len(held') <= 1 /\ resizing' \in BOOLEAN
        BY <1>1, <2>3, Zenon DEF LayoutOK
    <2> QED
        BY <1>1, <2>3, <2>4, <2>5, BoxesStay, Zenon
<1>5. CASE Paste
    <2>1. PICK src \in Placed(slipped) : src = Head(clipboard)
        <3>1. clipboard # <<>> /\ clipboard \in Seq(Placed(slipped))
            BY <1>1, <1>5, LayoutFacts, Zenon DEF Paste, LayoutOK
        <3> QED
            BY <3>1, HeadTailProperties, Zenon
    <2>2. PICK id \in Nat : id = FreshId(1) /\ id \notin IdsOf(fields)
        BY <1>1, FreshFacts
    <2>3. src.y \in Nat /\ src.h \in 1 .. Rows /\ Rows \in Nat /\ src.key \in Nat /\ src.blank \in BOOLEAN
        BY BoxFacts, Zenon
    <2>4. PICK y \in Nat : y = Smaller(Rows - src.h, src.y + 1) /\ y + src.h <= Rows
        BY <2>3 DEF Smaller
    <2> DEFINE b == [src EXCEPT !.id = id, !.y = y]
    <2>5. b \in Placed(slipped) /\ b.id = id
        <3> DEFINE c == [id |-> id, key |-> src.key, y |-> y, h |-> src.h, blank |-> src.blank]
        <3>1. src = [id |-> src.id, key |-> src.key, y |-> src.y, h |-> src.h, blank |-> src.blank]
            BY BoxFacts, Zenon
        <3> DEFINE b1 == [src EXCEPT !.id = id]
        <3>2. b1 = [id |-> id, key |-> src.key, y |-> src.y, h |-> src.h, blank |-> src.blank]
            BY <3>1
        <3> HIDE DEF b1
        <3>3. [b1 EXCEPT !.y = y] = c
            BY <3>2
        <3>4. b = c
            BY <3>3, Zenon DEF b1
        <3>5. c \in Placed(slipped) /\ c.id = id
            <4>1. src.h \in Nat /\ src.h >= 1
                BY <2>3
            <4>2. c.id = id
                OBVIOUS
            <4> QED
                BY <2>3, <2>4, <4>1, <4>2, BoxOnPage, Zenon
        <3> QED
            BY <3>4, <3>5, Zenon
    <2>6. Commit(Append(fields, b)) /\ UNCHANGED <<clipboard, hand>>
        BY <1>5, <2>1, <2>2, <2>4, Zenon DEF Paste
    <2> HIDE DEF b
    <2>7. Append(fields, b) \in Layouts(slipped)
        BY <1>1, <2>2, <2>5, OneBoxMore, Zenon
    <2> QED
        BY <1>1, <2>6, <2>7, CommitFacts, Zenon
<1>6. ASSUME NEW b \in ToSet(fields), DeleteSelected(b)
      PROVE  LayoutOK'
    <2> DEFINE I == {i \in DOMAIN fields : fields[i].id # b.id}
    <2>1. I \in SUBSET DOMAIN fields
        BY Zenon
    <2>2. Commit(Only(fields, I)) /\ UNCHANGED <<clipboard, hand>>
        BY <1>6, Zenon DEF DeleteSelected
    <2> HIDE DEF I
    <2>3. Only(fields, I) \in Layouts(slipped)
        BY <1>1, <2>1, PartOfLayout, Zenon
    <2> QED
        BY <1>1, <2>2, <2>3, CommitFacts, Zenon
<1> QED
    BY <1>2, <1>3, <1>4, <1>5, <1>6, Zenon DEF Keyboard

-----------------------------------------------------------------------------
(* Shapes.                                                                 *)

\* A bounded set of naturals with a member has a greatest one.
LEMMA Greatest ==
    ASSUME NEW B \in Nat, NEW T \in SUBSET (0 .. B), T # {}
    PROVE  \E x \in T : \A y \in T : y <= x
<1> DEFINE U == {u \in Nat : \A y \in T : y <= u}
<1>1. U \in SUBSET Nat /\ U # {}
    <2>1. B \in U
        OBVIOUS
    <2> QED
        BY <2>1, Zenon
<1>2. PICK u \in U : \A v \in U : u <= v
    <2> HIDE DEF U
    <2> QED
        BY <1>1, Least, Zenon
<1>3. u \in Nat /\ \A y \in T : y \in Nat /\ y <= u
    OBVIOUS
<1>4. u \in T
    <2> SUFFICES ASSUME u \notin T
                 PROVE  FALSE
        OBVIOUS
    <2>1. PICK t \in T : TRUE
        OBVIOUS
    <2>2. u # 0 /\ \A y \in T : y <= u - 1
        BY <1>3, <2>1
    <2>3. u - 1 \in Nat /\ ~(u <= u - 1)
        BY <1>3, <2>2
    <2>4. u - 1 \in U
        BY <2>2, <2>3
    <2> QED
        BY <1>2, <2>3, <2>4, Zenon
<1> QED
    BY <1>3, <1>4

LEMMA BlankRow == \A n \in Nat : blankRecipient(n) \in RecipientRows
<1> SUFFICES ASSUME NEW n \in Nat
             PROVE  blankRecipient(n) \in RecipientRows
    OBVIOUS
<1>1. PICK nobody \in Addresses : nobody = ""
    BY PrepareAssumption, Zenon
<1>2. [key |-> n, email |-> nobody, role |-> "signer"] \in RecipientRows
    BY DEF RecipientRows
<1> QED
    BY <1>1, <1>2, Zenon DEF blankRecipient

LEMMA InitTypeOK == Init => TypeOK
<1> SUFFICES ASSUME Init
             PROVE  TypeOK
    OBVIOUS
<1>1. PICK boxes \in Stored :
        /\ LayoutInit(boxes)
        /\ template = boxes
        /\ recipients = [n \in 1 .. rolesInFields(boxes) |-> blankRecipient(n)]
    BY Zenon DEF Init
<1>2. Storable(boxes) /\ KeysOf(boxes) \subseteq 1 .. MaxRecipients
    BY PrepareAssumption
<1>3. rolesInFields(boxes) \in 1 .. MaxRecipients
    <2> DEFINE K == KeysOf(boxes)
               T == {1} \cup K
    <2>1. MaxRecipients \in Nat /\ T \in SUBSET (0 .. MaxRecipients) /\ T # {} /\ T \subseteq 1 .. MaxRecipients
        <3>1. MaxRecipients \in Nat \ {0}
            BY PrepareAssumption, Zenon
        <3>2. K \subseteq 1 .. MaxRecipients
            BY <1>2, Zenon
        <3> HIDE DEF K
        <3> QED
            BY <3>1, <3>2
    <2>2. \E n \in T : \A k \in T : k <= n
        <3> HIDE DEF T
        <3> QED
            BY <2>1, Greatest, Zenon
    <2>3. rolesInFields(boxes) \in T
        BY <2>2, Zenon DEF rolesInFields
    <2> QED
        BY <2>1, <2>3, Zenon
<1>4. LayoutOK
    <2>1. /\ fields = boxes /\ past = <<>> /\ future = <<>> /\ clipboard = <<>>
          /\ held = <<>> /\ resizing = FALSE /\ slipped = FALSE
        BY <1>1, Zenon DEF LayoutInit
    <2>2. slipped \in BOOLEAN /\ resizing \in BOOLEAN
        BY <2>1
    <2>3. <<>> \in Layouts(slipped) /\ <<>> \in Seq(Layouts(slipped)) /\ Len(<<>>) = 0
        BY NoBoxes, EmptySeq, Zenon
    <2>4. /\ Len(past) + Len(future) <= HISTORY_LIMIT + 1
          /\ Len(clipboard) <= 1 /\ Len(held) <= 1
        <3>1. HISTORY_LIMIT \in Nat
            BY LayoutAssumption
        <3>2. Len(past) = 0 /\ Len(future) = 0 /\ Len(clipboard) = 0 /\ Len(held) = 0
            BY <2>1, <2>3, Zenon
        <3> QED
            BY <3>1, <3>2
    <2>5. fields \in Layouts(slipped)
        BY <1>2, <2>1, <2>2, StorableFacts, Zenon
    <2> QED
        BY <2>1, <2>2, <2>3, <2>4, <2>5, Zenon DEF LayoutOK
<1>5. recipients \in Seq(RecipientRows) \ {<<>>} /\ Len(recipients) <= MaxRecipients
    <2> DEFINE N == rolesInFields(boxes)
    <2>1. \A n \in Nat : blankRecipient(n) \in RecipientRows
        BY BlankRow, Zenon
    <2>2. N \in 1 .. MaxRecipients /\ MaxRecipients \in Nat
        BY <1>3, PrepareAssumption
    <2>3. recipients = [n \in 1 .. N |-> blankRecipient(n)]
        BY <1>1, Zenon
    <2> HIDE DEF N
    <2>4. recipients \in Seq(RecipientRows) /\ Len(recipients) = N
        BY <2>1, <2>2, <2>3
    <2> QED
        BY <2>2, <2>4
<1>6. /\ step = "setup" /\ review = "closed" /\ touched = FALSE
      /\ saves = {} /\ sends = {} /\ answer = <<>> /\ events = 0
    BY Zenon DEF Init
<1>7. Storable(template) /\ saves \subseteq Drawn /\ sends \subseteq Sends
    BY <1>1, <1>2, <1>6, Zenon
<1>8. answer \in Seq(Answers) /\ Len(answer) <= 1 /\ touched \in BOOLEAN /\ events \in 0 .. MaxEvents
    <2>1. MaxEvents \in Nat
        BY PrepareAssumption, Zenon
    <2>2. answer = <<>> /\ touched = FALSE /\ events = 0
        BY <1>6, Zenon
    <2>3. answer \in Seq(Answers) /\ Len(answer) = 0
        BY <2>2, EmptySeq, Zenon
    <2>4. touched \in BOOLEAN
        BY <2>2, Zenon
    <2>5. Len(answer) <= 1
        BY <2>3
    <2>6. events \in 0 .. MaxEvents
        BY <2>1, <2>2
    <2> QED
        BY <2>3, <2>4, <2>5, <2>6, Zenon
<1> QED
    BY <1>4, <1>5, <1>6, <1>7, <1>8, Zenon DEF TypeOK, Drawn

\* What a send may be changed to.
LEMMA SendFacts ==
    ASSUME NEW s \in Sends
    PROVE  /\ s.boxes \in Drawn /\ s.people \in Seq(RecipientRows)
           /\ s.stage \in {"saving", "posting"}
           /\ s.watched \in BOOLEAN /\ s.unready \in BOOLEAN
           /\ s.touched \in BOOLEAN /\ s.disturbed \in BOOLEAN
           /\ [s EXCEPT !.disturbed = TRUE] \in Sends
           /\ [s EXCEPT !.watched = FALSE] \in Sends
           /\ [s EXCEPT !.stage = "posting"] \in Sends
BY DEF Sends, Drawn

LEMMA VerdictType ==
    ASSUME TypeOK, NEW s \in sends, NEW accepted \in BOOLEAN
    PROVE  Verdict(s, accepted) \in Seq(Answers) /\ Len(Verdict(s, accepted)) = 1
<1>1. s \in Sends /\ Storable(template)
    BY Zenon DEF TypeOK
<1>2. template \in Layouts(FALSE)
    BY <1>1, StorableFacts, Zenon
<1> DEFINE a == [accepted |-> accepted, people |-> s.people, boxes |-> template,
                 sent |-> s.boxes, unready |-> s.unready, touched |-> s.touched,
                 disturbed |-> s.disturbed]
<1>3. a \in Answers
    BY <1>1, <1>2, SendFacts DEF Answers, Drawn
<1>4. Verdict(s, accepted) = <<a>>
    BY Zenon DEF Verdict
<1> HIDE DEF a
<1> QED
    BY <1>3, <1>4

\* The sends, after another layout was stored.
LEMMA DisturbedFacts ==
    ASSUME TypeOK
    PROVE  /\ Disturbed \subseteq Sends
           /\ \A t \in Disturbed : \E s \in sends :
                \/ s.stage # "posting" /\ t = s
                \/ s.stage = "posting" /\ t = [s EXCEPT !.disturbed = TRUE]
<1>1. sends \subseteq Sends
    BY Zenon DEF TypeOK
<1>2. ASSUME NEW t \in Disturbed
      PROVE  \E s \in sends : \/ s.stage # "posting" /\ t = s
                              \/ s.stage = "posting" /\ t = [s EXCEPT !.disturbed = TRUE]
    <2>1. PICK s \in sends : t = IF s.stage = "posting" THEN [s EXCEPT !.disturbed = TRUE] ELSE s
        BY Zenon DEF Disturbed
    <2> QED
        BY <2>1, Zenon
<1>3. ASSUME NEW t \in Disturbed
      PROVE  t \in Sends
    <2>1. PICK s \in sends : \/ s.stage # "posting" /\ t = s
                             \/ s.stage = "posting" /\ t = [s EXCEPT !.disturbed = TRUE]
        BY <1>2, Zenon
    <2>2. s \in Sends /\ [s EXCEPT !.disturbed = TRUE] \in Sends
        BY <1>1, SendFacts, Zenon
    <2> QED
        BY <2>1, <2>2, Zenon
<1> QED
    BY <1>2, <1>3, Zenon

LEMMA TypeParts ==
    ASSUME TypeOK
    PROVE  /\ LayoutOK
           /\ step \in {"setup", "fields"} /\ review \in {"closed", "review", "sending", "sent"}
           /\ recipients \in Seq(RecipientRows) \ {<<>>} /\ Len(recipients) <= MaxRecipients
           /\ touched \in BOOLEAN /\ events \in 0 .. MaxEvents /\ MaxEvents \in Nat
           /\ Storable(template) /\ saves \subseteq Drawn
           /\ sends \subseteq Sends /\ answer \in Seq(Answers) /\ Len(answer) <= 1
<1>1. MaxEvents \in Nat
    BY PrepareAssumption, Zenon
<1> QED
    BY <1>1, Zenon DEF TypeOK, Drawn

LEMMA LayoutUnchanged ==
    ASSUME LayoutOK, UNCHANGED layout
    PROVE  LayoutOK'
<1>1. UNCHANGED <<fields, past, future>> /\ UNCHANGED <<clipboard, hand>>
    BY DEF layout
<1> QED
    BY <1>1, HandStays, BoxesStay, Zenon

\* Changing the recipients.
LEMMA RecipientsTypeOK ==
    ASSUME TypeOK, NEW rows \in Seq(RecipientRows) \ {<<>>}, Len(rows) <= MaxRecipients,
           ChangeRecipients(rows)
    PROVE  TypeOK'
<1>1. /\ recipients' = rows /\ events < MaxEvents /\ events' = events + 1
      /\ UNCHANGED <<layout, step, review, touched, calls>>
    BY Zenon DEF ChangeRecipients, Counted
<1>2. events' \in 0 .. MaxEvents
    BY <1>1, TypeParts
<1>3. LayoutOK'
    BY <1>1, TypeParts, LayoutUnchanged, Zenon
<1>4. UNCHANGED <<step, review, touched, template, saves, sends, answer>>
    BY <1>1 DEF calls
<1> QED
    BY <1>1, <1>2, <1>3, <1>4, TypeParts DEF TypeOK, Drawn

LEMMA SetupTypeOK ==
    ASSUME TypeOK
    PROVE  /\ \A i \in Rows1, email \in Addresses : SetEmail(i, email) => TypeOK'
           /\ \A i \in Rows1, role \in {"signer", "cc"} : SetRole(i, role) => TypeOK'
           /\ AddRecipient => TypeOK'
           /\ \A i \in Rows1 : RemoveRecipient(i) => TypeOK'
<1>1. /\ recipients \in Seq(RecipientRows) /\ Len(recipients) \in 1 .. MaxRecipients
      /\ DOMAIN recipients = Rows1 /\ MaxRecipients \in Nat /\ Rows1 = 1 .. Len(recipients)
      /\ \A i \in Rows1 : recipients[i] \in RecipientRows
    <2>1. MaxRecipients \in Nat
        BY PrepareAssumption, Zenon
    <2> QED
        BY <2>1, RowFacts, Zenon DEF Rows1
<1>2. ASSUME NEW i \in Rows1, NEW r \in RecipientRows, ChangeRecipients([recipients EXCEPT ![i] = r])
      PROVE  TypeOK'
    <2> DEFINE rows == [recipients EXCEPT ![i] = r]
    <2>1. rows \in Seq(RecipientRows) /\ Len(rows) = Len(recipients)
        BY <1>1, ExceptSeq, Zenon
    <2>2. ChangeRecipients(rows)
        BY <1>2
    <2> HIDE DEF rows
    <2>3. rows # <<>> /\ Len(rows) <= MaxRecipients
        BY <1>1, <2>1
    <2> QED
        BY <2>1, <2>2, <2>3, RecipientsTypeOK, Zenon
<1>3. ASSUME NEW i \in Rows1, NEW email \in Addresses, SetEmail(i, email)
      PROVE  TypeOK'
    <2> DEFINE r == [recipients[i] EXCEPT !.email = email]
    <2>1. r \in RecipientRows
        BY <1>1 DEF RecipientRows
    <2>2. ChangeRecipients([recipients EXCEPT ![i] = r])
        BY <1>3, Zenon DEF SetEmail
    <2> QED
        BY <1>2, <2>1, <2>2, Zenon
<1>4. ASSUME NEW i \in Rows1, NEW role \in {"signer", "cc"}, SetRole(i, role)
      PROVE  TypeOK'
    <2> DEFINE r == [recipients[i] EXCEPT !.role = role]
    <2>1. r \in RecipientRows
        BY <1>1 DEF RecipientRows
    <2>2. ChangeRecipients([recipients EXCEPT ![i] = r])
        BY <1>4, Zenon DEF SetRole
    <2> QED
        BY <1>2, <2>1, <2>2, Zenon
<1>5. ASSUME AddRecipient
      PROVE  TypeOK'
    <2> DEFINE r == blankRecipient(Len(recipients) + 1)
               rows == Append(recipients, r)
    <2>1. r \in RecipientRows
        <3>1. Len(recipients) + 1 \in Nat
            BY <1>1
        <3> QED
            BY <3>1, BlankRow, Zenon
    <2>2. Len(recipients) < MaxRecipients /\ ChangeRecipients(rows)
        BY <1>5, Zenon DEF AddRecipient
    <2> HIDE DEF r
    <2>3. rows \in Seq(RecipientRows) /\ Len(rows) = Len(recipients) + 1 /\ rows # <<>>
        BY <1>1, <2>1, AppendProperties
    <2> HIDE DEF rows
    <2>4. Len(rows) <= MaxRecipients
        BY <1>1, <2>2, <2>3
    <2> QED
        BY <2>2, <2>3, <2>4, RecipientsTypeOK, Zenon
<1>6. ASSUME NEW i \in Rows1, RemoveRecipient(i)
      PROVE  TypeOK'
    <2> DEFINE rows == RemoveAt(recipients, i)
               front == SubSeq(recipients, 1, i - 1)
               back == SubSeq(recipients, i + 1, Len(recipients))
    <2>1. Len(recipients) > 1 /\ ChangeRecipients(rows)
        BY <1>6, Zenon DEF RemoveRecipient
    <2>2. i \in 1 .. Len(recipients) /\ Len(recipients) \in Nat /\ i - 1 \in Int /\ i + 1 \in Int
        BY <1>1
    <2>3. front \in Seq(RecipientRows) /\ Len(front) = i - 1
        <3>1. \A j \in 1 .. i - 1 : recipients[j] \in RecipientRows
            BY <1>1, <2>2
        <3>2. /\ front \in Seq(RecipientRows)
              /\ Len(front) = IF 1 <= i - 1 THEN i - 1 - 1 + 1 ELSE 0
            BY <2>2, <3>1, SubSeqProperties
        <3> HIDE DEF front
        <3> QED
            BY <2>2, <3>2
    <2>4. back \in Seq(RecipientRows) /\ Len(back) = Len(recipients) - i
        <3>1. \A j \in i + 1 .. Len(recipients) : recipients[j] \in RecipientRows
            BY <1>1, <2>2
        <3>2. /\ back \in Seq(RecipientRows)
              /\ Len(back) = IF i + 1 <= Len(recipients) THEN Len(recipients) - (i + 1) + 1 ELSE 0
            BY <2>2, <3>1, SubSeqProperties
        <3> HIDE DEF back
        <3> QED
            BY <2>2, <3>2
    <2>5. rows = front \o back
        BY Zenon DEF RemoveAt
    <2> HIDE DEF rows, front, back
    <2>6. rows \in Seq(RecipientRows) /\ Len(rows) = Len(front) + Len(back)
        BY <2>3, <2>4, <2>5, ConcatProperties, Zenon
    <2>7. rows # <<>> /\ Len(rows) <= MaxRecipients
        BY <1>1, <2>1, <2>2, <2>3, <2>4, <2>6
    <2> QED
        BY <2>1, <2>6, <2>7, RecipientsTypeOK, Zenon
<1> QED
    BY <1>3, <1>4, <1>5, <1>6, Zenon

\* The steps that leave the recipients alone: what the others have to show.
LEMMA OtherTypeOK ==
    ASSUME TypeOK, UNCHANGED recipients, LayoutOK',
           step' \in {"setup", "fields"}, review' \in {"closed", "review", "sending", "sent"},
           touched' \in BOOLEAN, events' \in 0 .. MaxEvents,
           Storable(template'), saves' \subseteq Drawn, sends' \subseteq Sends,
           answer' \in Seq(Answers), Len(answer') <= 1
    PROVE  TypeOK'
BY TypeParts, Zenon DEF TypeOK, Drawn

LEMMA CountedFacts ==
    ASSUME TypeOK
    PROVE  /\ Counted => events' \in 0 .. MaxEvents
           /\ UNCHANGED events => events' \in 0 .. MaxEvents
<1>1. events \in 0 .. MaxEvents /\ MaxEvents \in Nat
    BY TypeParts, Zenon
<1> QED
    BY <1>1 DEF Counted

LEMMA StepTypeOK ==
    ASSUME TypeOK, GoToFields \/ GoToSetup \/ EditLayout \/ Drag \/ Release \/ OpenReview
    PROVE  TypeOK'
<1>1. ASSUME UNCHANGED <<template, saves, sends, answer>>
      PROVE  /\ Storable(template') /\ saves' \subseteq Drawn /\ sends' \subseteq Sends
             /\ answer' \in Seq(Answers) /\ Len(answer') <= 1
    BY <1>1, TypeParts
<1>2. CASE GoToFields \/ GoToSetup
    <2>1. UNCHANGED <<layout, recipients, review, touched, calls, events>> /\ step' \in {"setup", "fields"}
        BY <1>2, Zenon DEF GoToFields, GoToSetup
    <2>2. LayoutOK'
        BY <2>1, TypeParts, LayoutUnchanged, Zenon
    <2>3. UNCHANGED <<template, saves, sends, answer>> /\ events' \in 0 .. MaxEvents
        BY <2>1, TypeParts, CountedFacts, Zenon DEF calls
    <2>4. review' \in {"closed", "review", "sending", "sent"} /\ touched' \in BOOLEAN
        BY <2>1, TypeParts
    <2> QED
        BY <1>1, <2>1, <2>2, <2>3, <2>4, OtherTypeOK
<1>3. CASE EditLayout \/ Drag
    <2>1. LayoutOK'
        <3>1. CASE EditLayout
            BY <3>1, PointingKeepsLayout, MenuKeepsLayout, KeyboardKeepsLayout, Zenon DEF EditLayout
        <3>2. CASE Drag
            BY <3>2, MovesKeepLayout, Zenon DEF Drag
        <3> QED
            BY <1>3, <3>1, <3>2, Zenon
    <2>2. /\ touched' = (touched \/ Behind)
          /\ UNCHANGED <<people, review, calls>> /\ (Counted \/ UNCHANGED events)
        <3>1. CASE EditLayout
            BY <3>1, Zenon DEF EditLayout
        <3>2. CASE Drag
            <4>1. touched' = (touched \/ Behind) /\ UNCHANGED <<people, review, calls, events>>
                BY <3>2, Zenon DEF Drag
            <4> HIDE DEF Behind
            <4> QED
                BY <4>1
        <3> QED
            BY <1>3, <3>1, <3>2, Zenon
    <2>3. UNCHANGED <<step, recipients, template, saves, sends, answer>> /\ events' \in 0 .. MaxEvents
        BY <2>2, CountedFacts, Zenon DEF calls, people
    <2>4. touched' \in BOOLEAN
        BY <2>2, TypeParts, Zenon
    <2>5. review' \in {"closed", "review", "sending", "sent"} /\ step' \in {"setup", "fields"}
        BY <2>2, <2>3, TypeParts
    <2> QED
        BY <1>1, <2>1, <2>3, <2>4, <2>5, OtherTypeOK
<1>4. CASE OpenReview
    <2>1. /\ CopyFieldsToEverySigner(SignerKeys) /\ Counted
          /\ review' = "review" /\ touched' = FALSE /\ answer' = <<>>
          /\ UNCHANGED <<people, template, saves, sends>>
        BY <1>4, Zenon DEF OpenReview
    <2>2. LayoutOK'
        BY <2>1, PointingKeepsLayout, Zenon DEF Pointing
    <2>3. UNCHANGED <<step, recipients, template, saves, sends>> /\ events' \in 0 .. MaxEvents
        BY <2>1, CountedFacts, Zenon DEF people
    <2>4. answer' \in Seq(Answers) /\ Len(answer') <= 1
        <3>1. answer' = <<>>
            BY <2>1, Zenon
        <3> QED
            BY <3>1
    <2>5. Storable(template') /\ saves' \subseteq Drawn /\ sends' \subseteq Sends
        BY <2>3, TypeParts
    <2>6. step' \in {"setup", "fields"}
        BY <2>3, TypeParts
    <2>7. review' \in {"closed", "review", "sending", "sent"} /\ touched' \in BOOLEAN
        BY <2>1
    <2> QED
        BY <2>2, <2>3, <2>4, <2>5, <2>6, <2>7, OtherTypeOK, Zenon
<1>5. CASE Release
    <2>1. EndGesture /\ UNCHANGED <<people, review, touched, calls, events>>
        BY <1>5, Zenon DEF Release
    <2>2. LayoutOK'
        BY <2>1, ReleaseKeepsLayout, Zenon
    <2>3. UNCHANGED <<step, recipients, template, saves, sends, answer>> /\ events' \in 0 .. MaxEvents
        BY <2>1, CountedFacts, Zenon DEF calls, people
    <2>4. /\ review' \in {"closed", "review", "sending", "sent"} /\ step' \in {"setup", "fields"}
          /\ touched' \in BOOLEAN
        BY <2>1, <2>3, TypeParts
    <2> QED
        BY <1>1, <2>2, <2>3, <2>4, OtherTypeOK
<1> QED
    BY <1>2, <1>3, <1>4, <1>5, Zenon

\* What is sent of the rows: those with an address.
LEMMA FilledFacts ==
    ASSUME TypeOK
    PROVE  /\ Filled(recipients) \in Seq(RecipientRows)
           /\ \A n \in DOMAIN Filled(recipients) : \E i \in Rows1 :
                Filled(recipients)[n] = recipients[i] /\ recipients[i].email # ""
           /\ \A i \in Rows1 : recipients[i].email # "" =>
                \E n \in DOMAIN Filled(recipients) : Filled(recipients)[n] = recipients[i]
<1> DEFINE I == {i \in DOMAIN recipients : recipients[i].email # ""}
           o == Only(recipients, I)
<1>1. recipients \in Seq(RecipientRows) /\ DOMAIN recipients = Rows1
    BY RowFacts, Zenon
<1>2. I \in SUBSET DOMAIN recipients /\ \A i \in I : i \in Rows1 /\ recipients[i].email # ""
    BY <1>1, Zenon
<1>3. \A i \in Rows1 : recipients[i].email # "" => i \in I
    BY <1>1, Zenon
<1>4. Filled(recipients) = o
    BY Zenon DEF Filled
<1> HIDE DEF I
<1>5. /\ o \in Seq(RecipientRows)
      /\ \A n \in DOMAIN o : \E i \in I : o[n] = recipients[i]
      /\ \A i \in I : \E n \in DOMAIN o : o[n] = recipients[i]
    BY <1>1, <1>2, OnlyFacts, Zenon
<1> HIDE DEF o
<1>6. \A n \in DOMAIN o : \E i \in Rows1 : o[n] = recipients[i] /\ recipients[i].email # ""
    BY <1>2, <1>5, Zenon
<1>7. \A i \in Rows1 : recipients[i].email # "" => \E n \in DOMAIN o : o[n] = recipients[i]
    BY <1>3, <1>5, Zenon
<1> QED
    BY <1>4, <1>5, <1>6, <1>7, Zenon

\* A send as it is built.
NewSend == [stage |-> FirstCall, boxes |-> fields, people |-> Filled(recipients), watched |-> TRUE,
            unready |-> ~SetupReady(recipients), touched |-> touched, disturbed |-> FALSE]

LEMMA NewSendFacts ==
    ASSUME TypeOK
    PROVE  /\ NewSend \in Sends
           /\ NewSend.stage = "saving" /\ NewSend.boxes = fields
           /\ NewSend.people = Filled(recipients) /\ NewSend.watched
           /\ NewSend.unready = ~SetupReady(recipients) /\ NewSend.touched = touched
           /\ ~NewSend.disturbed
<1>1. fields \in Drawn /\ touched \in BOOLEAN
    BY DrawnFacts, TypeParts, Zenon
<1>2. PICK people0 \in Seq(RecipientRows) : people0 = Filled(recipients)
    BY FilledFacts, Zenon
<1>3. PICK unready \in BOOLEAN : unready = ~SetupReady(recipients)
    BY Zenon
<1> DEFINE s == [stage |-> "saving", boxes |-> fields, people |-> people0, watched |-> TRUE,
                 unready |-> unready, touched |-> touched, disturbed |-> FALSE]
<1>4. NewSend = s
    BY <1>2, <1>3, Zenon DEF NewSend, FirstCall
<1>5. s \in Sends
    BY <1>1 DEF Sends, Drawn
<1>6. /\ s.stage = "saving" /\ s.boxes = fields /\ s.people = people0 /\ s.watched = TRUE
      /\ s.unready = unready /\ s.touched = touched /\ s.disturbed = FALSE
    BY Zenon
<1> HIDE DEF s
<1> QED
    BY <1>2, <1>3, <1>4, <1>5, <1>6, Zenon

-----------------------------------------------------------------------------
(* Sends and their answers.                                                *)

\* What has been answered stays as it was answered, or is forgotten.
LEMMA AnswersStay ==
    ASSUME EnvelopeSound, RefusalsExplained, UNCHANGED answer \/ answer' = <<>>
    PROVE  EnvelopeSound' /\ RefusalsExplained'
<1>1. CASE UNCHANGED answer
    BY <1>1 DEF EnvelopeSound, RefusalsExplained
<1>2. CASE answer' = <<>>
    <2>1. ToSet(answer') = {}
        BY <1>2 DEF ToSet
    <2> QED
        BY <2>1, Zenon DEF EnvelopeSound, RefusalsExplained
<1> QED
    BY <1>1, <1>2

\* The sends, after a step that may change each of them but nothing of what is
\* sent or who watches: at most who watches it ends, or it is disturbed, or its
\* save has landed.
Follows(t, s) ==
    /\ t.boxes = s.boxes /\ t.people = s.people
    /\ t.unready = s.unready /\ t.touched = s.touched
    /\ t.watched => s.watched

LEMMA CarefulFollows ==
    ASSUME NEW s, NEW t, Careful(s), Follows(t, s)
    PROVE  Careful(t)
BY Zenon DEF Careful, Follows

\* Nothing of the sends, the template, the review or the answer changes.
LEMMA NothingSent ==
    ASSUME SendsInStep, EnvelopeSound, RefusalsExplained, UNCHANGED <<template, sends, answer, review>>
    PROVE  SendsInStep' /\ EnvelopeSound' /\ RefusalsExplained'
<1>1. UNCHANGED template /\ UNCHANGED sends /\ UNCHANGED answer /\ UNCHANGED review
    OBVIOUS
<1>2. SendsInStep'
    BY <1>1, Zenon DEF SendsInStep
<1> QED
    BY <1>1, <1>2, AnswersStay, Zenon

\* Another layout is stored: every send between its two calls is disturbed.
LEMMA DisturbedInStep ==
    ASSUME TypeOK, SendsInStep
    PROVE  /\ \A t \in Disturbed : ~(t.stage = "posting" /\ ~t.disturbed)
           /\ \A t \in Disturbed : t.watched => review = "sending"
           /\ \A t, u \in Disturbed : t.watched /\ u.watched => t = u
           /\ \A t \in Disturbed : Careful(t)
           /\ \A t \in Disturbed, s \in sends :
                t.watched /\ s.watched /\ s.stage = "saving" => t = s
<1>1. ASSUME NEW s \in sends
      PROVE  /\ [s EXCEPT !.disturbed = TRUE].disturbed
             /\ Follows([s EXCEPT !.disturbed = TRUE], s)
             /\ Follows(s, s)
    <2>1. s \in Sends
        BY TypeParts
    <2> DEFINE t == [s EXCEPT !.disturbed = TRUE]
    <2>2. /\ t.disturbed = TRUE /\ t.boxes = s.boxes /\ t.people = s.people
          /\ t.unready = s.unready /\ t.touched = s.touched /\ t.watched = s.watched
        BY <2>1 DEF Sends
    <2> HIDE DEF t
    <2>3. t.disturbed /\ Follows(t, s) /\ Follows(s, s)
        BY <2>2, Zenon DEF Follows
    <2> QED
        BY <2>3, Zenon DEF t
<1>2. ASSUME NEW t \in Disturbed
      PROVE  \E s \in sends :
                /\ Follows(t, s)
                /\ \/ s.stage # "posting" /\ t = s
                   \/ s.stage = "posting" /\ t = [s EXCEPT !.disturbed = TRUE] /\ t.disturbed
    <2>1. PICK s \in sends : \/ s.stage # "posting" /\ t = s
                             \/ s.stage = "posting" /\ t = [s EXCEPT !.disturbed = TRUE]
        BY DisturbedFacts, Zenon
    <2> QED
        BY <1>1, <2>1, Zenon
<1>3. ASSUME NEW t \in Disturbed
      PROVE  ~(t.stage = "posting" /\ ~t.disturbed)
    BY <1>2, Zenon
<1>4. ASSUME NEW t \in Disturbed
      PROVE  (t.watched => review = "sending") /\ Careful(t)
    <2>1. PICK s \in sends : Follows(t, s)
        BY <1>2, Zenon
    <2>2. Careful(s) /\ (s.watched => review = "sending")
        BY Zenon DEF SendsInStep
    <2>3. Careful(t)
        BY <2>1, <2>2, CarefulFollows, Zenon
    <2> QED
        BY <2>1, <2>2, <2>3, Zenon DEF Follows
<1>5. ASSUME NEW t \in Disturbed, NEW u \in Disturbed, t.watched, u.watched
      PROVE  t = u
    <2>1. PICK s \in sends : /\ Follows(t, s)
                             /\ \/ s.stage # "posting" /\ t = s
                                \/ s.stage = "posting" /\ t = [s EXCEPT !.disturbed = TRUE]
        BY <1>2, Zenon
    <2>2. PICK r \in sends : /\ Follows(u, r)
                             /\ \/ r.stage # "posting" /\ u = r
                                \/ r.stage = "posting" /\ u = [r EXCEPT !.disturbed = TRUE]
        BY <1>2, Zenon
    <2>3. s = r
        BY <1>5, <2>1, <2>2, Zenon DEF Follows, SendsInStep
    <2> QED
        BY <2>1, <2>2, <2>3, Zenon
<1>6. ASSUME NEW t \in Disturbed, NEW s \in sends, t.watched, s.watched, s.stage = "saving"
      PROVE  t = s
    <2>1. PICK r \in sends : /\ Follows(t, r)
                             /\ \/ r.stage # "posting" /\ t = r
                                \/ r.stage = "posting" /\ t = [r EXCEPT !.disturbed = TRUE]
        BY <1>2, Zenon
    <2>2. s = r
        BY <1>6, <2>1, Zenon DEF Follows, SendsInStep
    <2>3. "saving" # "posting"
        OBVIOUS
    <2> QED
        BY <1>6, <2>1, <2>2, <2>3, Zenon
<1> QED
    BY <1>3, <1>4, <1>5, <1>6, Zenon

LEMMA InvParts ==
    ASSUME IInv
    PROVE  TypeOK /\ SendsInStep /\ ReviewInStep /\ EnvelopeSound /\ RefusalsExplained
BY Zenon DEF IInv

\* What the calls leave alone: everything on screen.
LEMMA CallsTypeOK ==
    ASSUME TypeOK, UNCHANGED <<layout, people, touched>>,
           Counted \/ UNCHANGED events, review' \in {"closed", "review", "sending", "sent"},
           Storable(template'), saves' \subseteq Drawn, sends' \subseteq Sends,
           answer' \in Seq(Answers), Len(answer') <= 1
    PROVE  TypeOK'
<1>1. UNCHANGED <<step, recipients, touched>>
    BY DEF people
<1>2. LayoutOK'
    BY TypeParts, LayoutUnchanged, Zenon
<1>3. events' \in 0 .. MaxEvents
    BY CountedFacts, Zenon
<1>4. step' \in {"setup", "fields"} /\ touched' \in BOOLEAN
    BY <1>1, TypeParts
<1> QED
    BY <1>1, <1>2, <1>3, <1>4, OtherTypeOK, Zenon

\* The review is where it was, or the sends that were watched are not any more.
LEMMA ReviewStays ==
    ASSUME ReviewInStep, UNCHANGED <<layout, people, touched>>,
           review' \in {"review", "sending"} => review \in {"review", "sending"}
    PROVE  ReviewInStep'
<1>1. UNCHANGED fields /\ UNCHANGED recipients /\ UNCHANGED touched
    BY DEF layout, people
<1>2. CASE review' \in {"review", "sending"} /\ ~touched'
    <2>1. review \in {"review", "sending"} /\ ~touched
        BY <1>1, <1>2
    <2>2. fields # <<>> /\ Tagged(recipients, fields)
        BY <2>1, Zenon DEF ReviewInStep
    <2> QED
        BY <1>1, <2>2, Zenon DEF ReviewInStep
<1> QED
    BY <1>2, Zenon DEF ReviewInStep

LEMMA SavesKeepInv ==
    ASSUME IInv
    PROVE  /\ SaveFromMenu => IInv'
           /\ \A boxes \in saves : LateSaveLands(boxes) => IInv'
           /\ \A boxes \in Foreign : ColleagueSaves(boxes) => IInv'
<1>1. /\ TypeOK /\ SendsInStep /\ ReviewInStep /\ EnvelopeSound /\ RefusalsExplained
      /\ fields \in Drawn
    BY InvParts, TypeParts, DrawnFacts, Zenon
<1>2. ASSUME SaveFromMenu
      PROVE  IInv'
    <2>1. /\ saves' = saves \cup {fields} /\ Counted
          /\ UNCHANGED <<layout, people, review, touched, template, sends, answer>>
        BY <1>2, Zenon DEF SaveFromMenu
    <2>2. /\ UNCHANGED <<layout, people, touched>> /\ UNCHANGED <<template, sends, answer, review>>
          /\ UNCHANGED review
        BY <2>1
    <2>3. saves' \subseteq Drawn
        BY <1>1, <2>1, TypeParts
    <2>4. /\ Storable(template') /\ sends' \subseteq Sends /\ answer' \in Seq(Answers)
          /\ Len(answer') <= 1 /\ review' \in {"closed", "review", "sending", "sent"}
        BY <1>1, <2>2, TypeParts
    <2>5. TypeOK'
        BY <1>1, <2>1, <2>2, <2>3, <2>4, CallsTypeOK, Zenon
    <2>6. ReviewInStep'
        BY <1>1, <2>2, ReviewStays, Zenon
    <2> QED
        BY <1>1, <2>2, <2>5, <2>6, NothingSent, Zenon DEF IInv
<1>3. ASSUME NEW boxes, Storable(boxes), template' = boxes, sends' = Disturbed,
             UNCHANGED <<layout, people, review, touched, answer>>,
             saves' \subseteq saves, Counted \/ UNCHANGED events
      PROVE  IInv'
    <2>1. /\ UNCHANGED <<layout, people, touched>> /\ UNCHANGED answer /\ UNCHANGED review
        BY <1>3
    <2>2. saves' \subseteq Drawn /\ sends' \subseteq Sends /\ Storable(template')
        BY <1>1, <1>3, TypeParts, DisturbedFacts, Zenon
    <2>3. /\ answer' \in Seq(Answers) /\ Len(answer') <= 1
          /\ review' \in {"closed", "review", "sending", "sent"}
        BY <1>1, <2>1, TypeParts
    <2>4. TypeOK'
        BY <1>1, <1>3, <2>1, <2>2, <2>3, CallsTypeOK, Zenon
    <2>5. SendsInStep'
        BY <1>1, <1>3, <2>1, DisturbedInStep, Zenon DEF SendsInStep
    <2>6. ReviewInStep'
        BY <1>1, <2>1, ReviewStays, Zenon
    <2>7. EnvelopeSound' /\ RefusalsExplained'
        BY <1>1, <2>1, AnswersStay, Zenon
    <2> QED
        BY <2>4, <2>5, <2>6, <2>7, Zenon DEF IInv
<1>4. ASSUME NEW boxes \in saves, LateSaveLands(boxes)
      PROVE  IInv'
    <2>1. /\ saves' = saves \ {boxes}
          /\ UNCHANGED <<layout, people, review, touched, answer, events>>
        BY <1>4, Zenon DEF LateSaveLands
    <2>2. /\ UNCHANGED <<layout, people, review, touched, answer>> /\ UNCHANGED events
          /\ UNCHANGED <<layout, people, touched>> /\ UNCHANGED answer /\ UNCHANGED review
          /\ saves' \subseteq saves
        BY <2>1
    <2>3. CASE Storable(boxes)
        <3>1. template' = boxes /\ sends' = Disturbed
            BY <1>4, <2>3, Zenon DEF LateSaveLands
        <3> QED
            BY <1>3, <2>2, <2>3, <3>1, Zenon
    <2>4. CASE ~Storable(boxes)
        <3>1. UNCHANGED <<template, sends>>
            BY <1>4, <2>4, Zenon DEF LateSaveLands
        <3>2. UNCHANGED <<template, sends, answer, review>>
            BY <2>2, <3>1
        <3>3. saves' \subseteq Drawn
            BY <1>1, <2>2, TypeParts, Zenon
        <3>4. /\ Storable(template') /\ sends' \subseteq Sends /\ answer' \in Seq(Answers)
              /\ Len(answer') <= 1 /\ review' \in {"closed", "review", "sending", "sent"}
            BY <1>1, <3>2, TypeParts
        <3>5. TypeOK'
            BY <1>1, <2>2, <3>3, <3>4, CallsTypeOK, Zenon
        <3>6. ReviewInStep'
            BY <1>1, <2>2, ReviewStays, Zenon
        <3> QED
            BY <1>1, <3>2, <3>5, <3>6, NothingSent, Zenon DEF IInv
    <2> QED
        BY <2>3, <2>4, Zenon
<1>5. ASSUME NEW boxes \in Foreign, ColleagueSaves(boxes)
      PROVE  IInv'
    <2>1. Storable(boxes)
        BY PrepareAssumption, Zenon
    <2>2. /\ Counted /\ template' = boxes /\ sends' = Disturbed
          /\ UNCHANGED <<layout, people, review, touched, saves, answer>>
        BY <1>5, Zenon DEF ColleagueSaves
    <2>3. /\ UNCHANGED <<layout, people, review, touched, answer>>
          /\ saves' \subseteq saves
        BY <2>2
    <2> QED
        BY <1>3, <2>1, <2>2, <2>3, Zenon
<1> QED
    BY <1>2, <1>4, <1>5, Zenon

\* The recipients, the steps and the edits.
LEMMA ScreenKeepsInv ==
    ASSUME IInv
    PROVE  /\ \A i \in Rows1, email \in Addresses : SetEmail(i, email) => IInv'
           /\ \A i \in Rows1, role \in {"signer", "cc"} : SetRole(i, role) => IInv'
           /\ AddRecipient => IInv'
           /\ \A i \in Rows1 : RemoveRecipient(i) => IInv'
           /\ GoToFields \/ GoToSetup \/ Release => IInv'
           /\ EditLayout \/ Drag => IInv'
<1>1. TypeOK /\ SendsInStep /\ ReviewInStep /\ EnvelopeSound /\ RefusalsExplained
    BY InvParts, Zenon
<1>2. ASSUME NEW rows, ChangeRecipients(rows), TypeOK'
      PROVE  IInv'
    <2>1. review = "closed" /\ UNCHANGED <<layout, step, review, touched, calls>>
        BY <1>2, Zenon DEF ChangeRecipients
    <2>2. UNCHANGED <<template, sends, answer, review>>
        BY <2>1 DEF calls
    <2>3. review' = "closed"
        BY <2>1
    <2>4. ReviewInStep'
        BY <2>3 DEF ReviewInStep
    <2> QED
        BY <1>1, <1>2, <2>2, <2>4, NothingSent, Zenon DEF IInv
<1>3. ASSUME NEW i \in Rows1, NEW email \in Addresses, SetEmail(i, email)
      PROVE  IInv'
    BY <1>1, <1>2, <1>3, SetupTypeOK, Zenon DEF SetEmail
<1>4. ASSUME NEW i \in Rows1, NEW role \in {"signer", "cc"}, SetRole(i, role)
      PROVE  IInv'
    BY <1>1, <1>2, <1>4, SetupTypeOK, Zenon DEF SetRole
<1>5. ASSUME AddRecipient
      PROVE  IInv'
    BY <1>1, <1>2, <1>5, SetupTypeOK, Zenon DEF AddRecipient
<1>6. ASSUME NEW i \in Rows1, RemoveRecipient(i)
      PROVE  IInv'
    BY <1>1, <1>2, <1>6, SetupTypeOK, Zenon DEF RemoveRecipient
<1>7. ASSUME GoToFields \/ GoToSetup \/ Release
      PROVE  IInv'
    <2>1. UNCHANGED fields /\ UNCHANGED recipients /\ UNCHANGED <<review, touched, calls>>
        <3>1. CASE GoToFields \/ GoToSetup
            <4>1. UNCHANGED <<layout, recipients, review, touched, calls, events>>
                BY <3>1, Zenon DEF GoToFields, GoToSetup
            <4> QED
                BY <4>1 DEF layout
        <3>2. CASE Release
            <4>1. /\ UNCHANGED <<fields, past, future, clipboard, slipped>>
                  /\ UNCHANGED <<people, review, touched, calls, events>>
                BY <3>2, Zenon DEF Release, EndGesture
            <4> QED
                BY <4>1 DEF people
        <3> QED
            BY <1>7, <3>1, <3>2, Zenon
    <2>2. UNCHANGED <<template, sends, answer, review>>
        BY <2>1 DEF calls
    <2>3. TypeOK'
        BY <1>1, <1>7, StepTypeOK, Zenon
    <2>4. UNCHANGED fields /\ UNCHANGED recipients /\ UNCHANGED touched /\ UNCHANGED review
        BY <2>1
    <2>5. ReviewInStep'
        BY <1>1, <2>4, Zenon DEF ReviewInStep
    <2> QED
        BY <1>1, <2>2, <2>3, <2>5, NothingSent, Zenon DEF IInv
<1>8. ASSUME EditLayout \/ Drag
      PROVE  IInv'
    <2>1. /\ touched' = (touched \/ (review # "closed" /\ fields' # fields))
          /\ UNCHANGED people /\ UNCHANGED review /\ UNCHANGED calls
        <3>1. CASE EditLayout
            BY <3>1, Zenon DEF EditLayout, Behind
        <3>2. CASE Drag
            BY <3>2, Zenon DEF Drag, Behind
        <3> QED
            BY <1>8, <3>1, <3>2, Zenon
    <2>2. UNCHANGED <<template, sends, answer, review>> /\ UNCHANGED recipients /\ UNCHANGED review
        BY <2>1 DEF calls, people
    <2>3. TypeOK'
        BY <1>1, <1>8, StepTypeOK, Zenon
    <2>4. ReviewInStep'
        <3>1. "closed" # "review" /\ "closed" # "sending"
            OBVIOUS
        <3>2. CASE review' \in {"review", "sending"} /\ ~touched'
            <4>1. review \in {"review", "sending"} /\ review # "closed"
                BY <2>2, <3>1, <3>2
            <4>2. ~touched /\ fields' = fields
                BY <2>1, <3>2, <4>1, Zenon
            <4>3. fields # <<>> /\ Tagged(recipients, fields)
                BY <1>1, <4>1, <4>2, Zenon DEF ReviewInStep
            <4> QED
                BY <2>2, <4>2, <4>3, Zenon DEF ReviewInStep
        <3> QED
            BY <3>2, Zenon DEF ReviewInStep
    <2> QED
        BY <1>1, <2>2, <2>3, <2>4, NothingSent, Zenon DEF IInv
<1> QED
    BY <1>3, <1>4, <1>5, <1>6, <1>7, <1>8, Zenon

LEMMA ReviewKeepsInv ==
    ASSUME IInv
    PROVE  /\ OpenReview => IInv'
           /\ KeepEditing => IInv'
<1>1. /\ TypeOK /\ SendsInStep /\ ReviewInStep /\ EnvelopeSound /\ RefusalsExplained
      /\ LayoutOK /\ sends \subseteq Sends
    BY InvParts, TypeParts, Zenon
<1>2. ASSUME OpenReview
      PROVE  IInv'
    <2>1. /\ review = "closed" /\ fields # <<>> /\ CopyFieldsToEverySigner(SignerKeys)
          /\ review' = "review" /\ touched' = FALSE /\ answer' = <<>>
          /\ UNCHANGED <<people, template, saves, sends>>
        BY <1>2, Zenon DEF OpenReview, CanSend
    <2>2. UNCHANGED template /\ UNCHANGED sends /\ UNCHANGED recipients
        BY <2>1 DEF people
    <2>3. TypeOK'
        BY <1>1, <1>2, StepTypeOK, Zenon
    <2>4. SendsInStep'
        <3>1. "closed" # "sending"
            OBVIOUS
        <3>2. \A s \in sends : ~s.watched
            BY <1>1, <2>1, <3>1, Zenon DEF SendsInStep
        <3> QED
            BY <1>1, <2>2, <3>2, Zenon DEF SendsInStep
    <2>5. fields' = fields \o AllCopies(SignerKeys)
        BY <2>1, Zenon DEF CopyFieldsToEverySigner, Commit
    <2>6. /\ fields' # <<>>
          /\ \A n \in DOMAIN SignerKeys : SignerKeys[n] \in KeysOf(fields')
        <3>1. SignerKeys \in Seq(Nat)
            BY <1>1, RowFacts, Zenon
        <3> QED
            BY <1>1, <2>1, <2>5, <3>1, CopiesFacts, Zenon
    <2>7. Tagged(recipients, fields')
        <3>1. DOMAIN recipients = Rows1
            BY <1>1, RowFacts, Zenon
        <3>2. \A i \in Rows1 : recipients[i].role = "signer" =>
                \E n \in DOMAIN SignerKeys : SignerKeys[n] = recipients[i].key
            BY <1>1, RowFacts, Zenon
        <3>3. \A i \in DOMAIN recipients : recipients[i].role = "signer" =>
                recipients[i].key \in KeysOf(fields')
            BY <2>6, <3>1, <3>2, Zenon
        <3> QED
            BY <3>3, Zenon DEF Tagged
    <2>8. ReviewInStep'
        BY <2>2, <2>6, <2>7, Zenon DEF ReviewInStep
    <2>9. EnvelopeSound' /\ RefusalsExplained'
        BY <1>1, <2>1, AnswersStay, Zenon
    <2> QED
        BY <2>3, <2>4, <2>8, <2>9, Zenon DEF IInv
<1>3. ASSUME KeepEditing
      PROVE  IInv'
    <2>1. /\ review' = "closed" /\ touched' = FALSE /\ answer' = <<>>
          /\ sends' = {[s EXCEPT !.watched = FALSE] : s \in sends}
          /\ UNCHANGED <<layout, people, template, saves, events>>
        BY <1>3, Zenon DEF KeepEditing
    <2>2. ASSUME NEW t \in sends'
          PROVE  /\ t \in Sends /\ ~t.watched /\ Careful(t)
                 /\ t.stage = "posting" /\ ~t.disturbed => template' = t.boxes
        <3>1. PICK s \in sends : t = [s EXCEPT !.watched = FALSE]
            BY <2>1, Zenon
        <3>2. s \in Sends
            BY <1>1
        <3>3. /\ t.watched = FALSE /\ t.boxes = s.boxes /\ t.people = s.people
              /\ t.unready = s.unready /\ t.touched = s.touched
              /\ t.stage = s.stage /\ t.disturbed = s.disturbed
            BY <3>1, <3>2 DEF Sends
        <3>4. t \in Sends
            BY <3>1, <3>2, SendFacts, Zenon
        <3>5. Careful(s) /\ (s.stage = "posting" /\ ~s.disturbed => template = s.boxes)
            BY <1>1, Zenon DEF SendsInStep
        <3>6. Careful(t)
            BY <3>3, <3>5, Zenon DEF Careful
        <3>7. template' = template
            BY <2>1
        <3> QED
            BY <3>3, <3>4, <3>5, <3>6, <3>7, Zenon
    <2>3. SendsInStep'
        BY <2>2, Zenon DEF SendsInStep
    <2>4. TypeOK'
        <3>1. UNCHANGED <<step, recipients, template, saves, events>> /\ UNCHANGED layout
            BY <2>1 DEF people
        <3>2. LayoutOK'
            BY <1>1, <3>1, LayoutUnchanged, Zenon
        <3>3. sends' \subseteq Sends
            BY <2>2, Zenon
        <3>4. answer' \in Seq(Answers) /\ Len(answer') <= 1
            <4>1. answer' = <<>>
                BY <2>1, Zenon
            <4> QED
                BY <4>1
        <3>5. step' \in {"setup", "fields"} /\ Storable(template') /\ saves' \subseteq Drawn
            BY <1>1, <3>1, TypeParts
        <3>6. touched' \in BOOLEAN /\ review' \in {"closed", "review", "sending", "sent"}
            BY <2>1
        <3>7. events' \in 0 .. MaxEvents
            BY <1>1, <3>1, CountedFacts, Zenon
        <3> QED
            BY <1>1, <3>1, <3>2, <3>3, <3>4, <3>5, <3>6, <3>7, OtherTypeOK, Zenon
    <2>5. ReviewInStep'
        <3>1. review' \notin {"review", "sending"}
            BY <2>1
        <3> QED
            BY <3>1, Zenon DEF ReviewInStep
    <2>6. EnvelopeSound' /\ RefusalsExplained'
        BY <1>1, <2>1, AnswersStay, Zenon
    <2> QED
        BY <2>3, <2>4, <2>5, <2>6, Zenon DEF IInv
<1> QED
    BY <1>2, <1>3, Zenon

\* "Send now": a careful sender's send, as it is built.
LEMMA SendNowKeepsInv ==
    ASSUME IInv, SendNow
    PROVE  IInv'
<1>1. /\ TypeOK /\ SendsInStep /\ ReviewInStep /\ EnvelopeSound /\ RefusalsExplained
      /\ sends \subseteq Sends
    BY InvParts, TypeParts, Zenon
<1>2. /\ review = "review" /\ review' = "sending" /\ answer' = <<>>
      /\ sends' = sends \cup {NewSend}
      /\ UNCHANGED <<layout, people, touched, template, saves, events>>
    BY Zenon DEF SendNow, NewSend
<1>3. /\ UNCHANGED <<layout, people, touched>> /\ UNCHANGED template /\ UNCHANGED saves
      /\ UNCHANGED events
    BY <1>2
<1>4. /\ NewSend \in Sends /\ NewSend.stage = "saving" /\ NewSend.boxes = fields
      /\ NewSend.people = Filled(recipients) /\ NewSend.watched
      /\ NewSend.unready = ~SetupReady(recipients) /\ NewSend.touched = touched
      /\ ~NewSend.disturbed
    BY <1>1, NewSendFacts, Zenon
<1>5. TypeOK'
    <2>1. sends' \subseteq Sends
        BY <1>1, <1>2, <1>4, Zenon
    <2>2. answer' \in Seq(Answers) /\ Len(answer') <= 1
        <3>1. answer' = <<>>
            BY <1>2, Zenon
        <3> QED
            BY <3>1
    <2>3. Storable(template') /\ saves' \subseteq Drawn
        BY <1>1, <1>3, TypeParts
    <2>4. review' \in {"closed", "review", "sending", "sent"}
        BY <1>2
    <2> QED
        BY <1>1, <1>3, <2>1, <2>2, <2>3, <2>4, CallsTypeOK, Zenon
<1>6. Careful(NewSend)
    <2> DEFINE rows == Filled(recipients)
    <2>1. /\ rows \in Seq(RecipientRows) /\ DOMAIN rows = 1 .. Len(rows)
          /\ \A n \in DOMAIN rows : \E i \in Rows1 : rows[n] = recipients[i]
          /\ \A i \in Rows1 : recipients[i].email # "" => \E n \in DOMAIN rows : rows[n] = recipients[i]
        <3>1. /\ rows \in Seq(RecipientRows)
              /\ \A n \in DOMAIN rows : \E i \in Rows1 : rows[n] = recipients[i]
              /\ \A i \in Rows1 : recipients[i].email # "" => \E n \in DOMAIN rows : rows[n] = recipients[i]
            BY <1>1, FilledFacts, Zenon
        <3>2. rows \in Seq(RecipientRows)
            BY <3>1, Zenon
        <3> HIDE DEF rows
        <3>3. DOMAIN rows = 1 .. Len(rows)
            BY <3>2
        <3> QED
            BY <3>1, <3>3, Zenon
    <2> HIDE DEF rows
    <2>2. DOMAIN recipients = Rows1
        BY <1>1, RowFacts, Zenon
    <2>3. ASSUME ~touched
          PROVE  fields # <<>> /\ Tagged(rows, fields)
        <3>1. review \in {"review", "sending"}
            BY <1>2
        <3>2. fields # <<>> /\ Tagged(recipients, fields)
            BY <1>1, <2>3, <3>1, Zenon DEF ReviewInStep
        <3>3. \A n \in DOMAIN rows : rows[n].role = "signer" => rows[n].key \in KeysOf(fields)
            BY <2>1, <2>2, <3>2, Zenon DEF Tagged
        <3> QED
            BY <3>2, <3>3, Zenon DEF Tagged
    <2>4. ASSUME SetupReady(recipients)
          PROVE  Odd(rows) \/ Addressed(rows)
        <3>1. /\ \E i \in Rows1 : recipients[i].role = "signer" /\ IsComplete(recipients[i])
              /\ \A i \in Rows1 : IsComplete(recipients[i])
              /\ Distinct(rows)
            BY <2>4, Zenon DEF SetupReady, Rows1, rows
        <3>2. \A i \in Rows1 : recipients[i].email # ""
            BY <3>1, Zenon DEF IsComplete
        <3>3. \E n \in DOMAIN rows : rows[n].role = "signer"
            BY <2>1, <3>1, <3>2, Zenon
        <3>4. \A n \in DOMAIN rows : IsComplete(rows[n])
            BY <2>1, <3>1, Zenon
        <3>5. Odd(rows) \/ \A n \in DOMAIN rows : IsEmail(rows[n])
            BY <3>4, Zenon DEF Odd, IsEmail
        <3> QED
            BY <3>1, <3>3, <3>5, Zenon DEF Addressed
    <2>5. NewSend.people = rows
        BY <1>4, Zenon DEF rows
    <2>6. ~NewSend.touched => NewSend.boxes # <<>> /\ Tagged(NewSend.people, NewSend.boxes)
        BY <1>4, <2>3, <2>5, Zenon
    <2>7. ~NewSend.unready => Odd(NewSend.people) \/ Addressed(NewSend.people)
        BY <1>4, <2>4, <2>5, Zenon
    <2> QED
        BY <2>6, <2>7, Zenon DEF Careful
<1>7. SendsInStep'
    <2>1. "review" # "sending" /\ "saving" # "posting"
        OBVIOUS
    <2>2. \A s \in sends : ~s.watched
        BY <1>1, <1>2, <2>1, Zenon DEF SendsInStep
    <2>3. \A s \in sends' : s \in sends \/ s = NewSend
        BY <1>2, Zenon
    <2>4. \A s \in sends' : s.stage = "posting" /\ ~s.disturbed => template' = s.boxes
        BY <1>1, <1>3, <1>4, <2>1, <2>3, Zenon DEF SendsInStep
    <2>5. \A s, t \in sends' : s.watched /\ t.watched => s = t
        BY <2>2, <2>3, Zenon
    <2>6. \A s \in sends' : Careful(s)
        BY <1>1, <1>6, <2>3, Zenon DEF SendsInStep
    <2> QED
        BY <1>2, <2>4, <2>5, <2>6, Zenon DEF SendsInStep
<1>8. ReviewInStep'
    <2>1. review \in {"review", "sending"}
        BY <1>2
    <2> QED
        BY <1>1, <1>3, <2>1, ReviewStays, Zenon
<1>9. EnvelopeSound' /\ RefusalsExplained'
    BY <1>1, <1>2, AnswersStay, Zenon
<1> QED
    BY <1>5, <1>7, <1>8, <1>9, Zenon DEF IInv

\* One send is over: the others are what they were, and the review is its own
\* concern only if it was watched.
LEMMA OverInStep ==
    ASSUME TypeOK, SendsInStep, NEW s \in sends, NEW outcome,
           outcome \in {"review", "sent"}, review' = ReviewAfter(s, outcome)
    PROVE  /\ \A t \in Over(s) : t \in sends /\ t # s
           /\ \A t \in sends : t # s /\ t.watched => review' = "sending"
           /\ review' \in {"closed", "review", "sending", "sent"}
           /\ review' \in {"review", "sending"} => review \in {"review", "sending"}
<1>1. \A t \in Over(s) : t \in sends /\ t # s
    BY Zenon DEF Over
<1>2. CASE s.watched
    <2>1. review' = outcome /\ review = "sending"
        BY <1>2, Zenon DEF ReviewAfter, SendsInStep
    <2>2. \A t \in sends : t # s => ~t.watched
        BY <1>2, Zenon DEF SendsInStep
    <2>3. review \in {"review", "sending"} /\ review' \in {"closed", "review", "sending", "sent"}
        BY <2>1
    <2> QED
        BY <1>1, <2>2, <2>3, Zenon
<1>3. CASE ~s.watched
    <2>1. review' = review
        BY <1>3, Zenon DEF ReviewAfter
    <2>2. \A t \in sends : t.watched => review' = "sending"
        BY <2>1, Zenon DEF SendsInStep
    <2>3. review' \in {"closed", "review", "sending", "sent"}
        BY <2>1, TypeParts
    <2> QED
        BY <1>1, <2>1, <2>2, <2>3, Zenon
<1> QED
    BY <1>2, <1>3, Zenon

\* The save of a send lands: the template is what it sends.
LEMMA SaveLandsKeepsInv ==
    ASSUME IInv, NEW s \in sends, SaveLands(s)
    PROVE  IInv'
<1>1. /\ TypeOK /\ SendsInStep /\ ReviewInStep /\ EnvelopeSound /\ RefusalsExplained
      /\ sends \subseteq Sends
    BY InvParts, TypeParts, Zenon
<1>2. /\ s.stage = "saving" /\ Storable(s.boxes) /\ template' = s.boxes
      /\ sends' = {IF t = s THEN [s EXCEPT !.stage = "posting"]
                   ELSE IF t.stage = "posting" THEN [t EXCEPT !.disturbed = TRUE] ELSE t : t \in sends}
      /\ UNCHANGED <<layout, people, review, touched, saves, answer, events>>
    BY Zenon DEF SaveLands
<1>3. /\ UNCHANGED <<layout, people, touched>> /\ UNCHANGED review /\ UNCHANGED saves
      /\ UNCHANGED answer /\ UNCHANGED events
    BY <1>2
<1> DEFINE landed == [s EXCEPT !.stage = "posting"]
<1>4. landed \in Sends /\ landed.boxes = s.boxes /\ Follows(landed, s)
    <2>1. s \in Sends
        BY <1>1
    <2>2. /\ landed.boxes = s.boxes /\ landed.people = s.people
          /\ landed.unready = s.unready /\ landed.touched = s.touched /\ landed.watched = s.watched
        BY <2>1 DEF Sends
    <2>3. landed \in Sends
        BY <2>1, SendFacts, Zenon
    <2> HIDE DEF landed
    <2> QED
        BY <2>2, <2>3, Zenon DEF Follows
<1>5. ASSUME NEW t \in sends
      PROVE  /\ [t EXCEPT !.disturbed = TRUE] \in Sends /\ [t EXCEPT !.disturbed = TRUE].disturbed
             /\ Follows([t EXCEPT !.disturbed = TRUE], t)
             /\ t \in Sends /\ Follows(t, t)
    <2>1. t \in Sends
        BY <1>1
    <2> DEFINE l == [t EXCEPT !.disturbed = TRUE]
    <2>2. /\ l.disturbed = TRUE /\ l.boxes = t.boxes /\ l.people = t.people
          /\ l.unready = t.unready /\ l.touched = t.touched /\ l.watched = t.watched
        BY <2>1 DEF Sends
    <2>3. l \in Sends
        BY <2>1, SendFacts, Zenon
    <2> HIDE DEF l
    <2>4. l \in Sends /\ l.disturbed /\ Follows(l, t) /\ t \in Sends /\ Follows(t, t)
        BY <2>1, <2>2, <2>3, Zenon DEF Follows
    <2> QED
        BY <2>4, Zenon DEF l
<1>6. ASSUME NEW u \in sends'
      PROVE  \E t \in sends :
                /\ u \in Sends /\ Follows(u, t)
                /\ \/ t = s /\ u = landed
                   \/ t # s /\ t.stage = "posting" /\ u = [t EXCEPT !.disturbed = TRUE] /\ u.disturbed
                   \/ t # s /\ t.stage # "posting" /\ u = t
    <2>1. PICK t \in sends : u = IF t = s THEN [s EXCEPT !.stage = "posting"]
                                 ELSE IF t.stage = "posting" THEN [t EXCEPT !.disturbed = TRUE] ELSE t
        BY <1>2, Zenon
    <2> HIDE DEF landed
    <2>2. \/ t = s /\ u = landed
          \/ t # s /\ t.stage = "posting" /\ u = [t EXCEPT !.disturbed = TRUE]
          \/ t # s /\ t.stage # "posting" /\ u = t
        BY <2>1, Zenon DEF landed
    <2>3. CASE t = s /\ u = landed
        BY <1>4, <2>3, Zenon
    <2>4. CASE t # s /\ t.stage = "posting" /\ u = [t EXCEPT !.disturbed = TRUE]
        BY <1>5, <2>4, Zenon
    <2>5. CASE t # s /\ t.stage # "posting" /\ u = t
        BY <1>5, <2>5, Zenon
    <2> QED
        BY <2>2, <2>3, <2>4, <2>5, Zenon
<1> HIDE DEF landed
<1>7. ASSUME NEW u \in sends'
      PROVE  /\ u \in Sends /\ Careful(u)
             /\ u.stage = "posting" /\ ~u.disturbed => template' = u.boxes
             /\ u.watched => review' = "sending"
    <2>1. PICK t \in sends :
            /\ u \in Sends /\ Follows(u, t)
            /\ \/ t = s /\ u = landed
               \/ t # s /\ t.stage = "posting" /\ u.disturbed
               \/ t # s /\ t.stage # "posting" /\ u = t
        BY <1>6, Zenon
    <2>2. u \in Sends /\ Follows(u, t)
        BY <2>1, Zenon
    <2>3. Careful(t) /\ (t.watched => review = "sending")
        BY <1>1, Zenon DEF SendsInStep
    <2>4. Careful(u)
        BY <2>2, <2>3, CarefulFollows, Zenon
    <2>5. u.stage = "posting" /\ ~u.disturbed => template' = u.boxes
        BY <1>2, <1>4, <1>5, <2>1, Zenon
    <2>6. u.watched => review' = "sending"
        BY <1>3, <2>2, <2>3, Zenon DEF Follows
    <2> QED
        BY <2>2, <2>4, <2>5, <2>6, Zenon
<1>8. ASSUME NEW u \in sends', NEW v \in sends', u.watched, v.watched
      PROVE  u = v
    <2>1. PICK t \in sends :
            /\ Follows(u, t)
            /\ \/ t = s /\ u = landed
               \/ t # s /\ t.stage = "posting" /\ u = [t EXCEPT !.disturbed = TRUE]
               \/ t # s /\ t.stage # "posting" /\ u = t
        BY <1>6, Zenon
    <2>2. PICK r \in sends :
            /\ Follows(v, r)
            /\ \/ r = s /\ v = landed
               \/ r # s /\ r.stage = "posting" /\ v = [r EXCEPT !.disturbed = TRUE]
               \/ r # s /\ r.stage # "posting" /\ v = r
        BY <1>6, Zenon
    <2>3. t.watched /\ r.watched
        BY <1>8, <2>1, <2>2, Zenon DEF Follows
    <2>4. t = r
        BY <1>1, <2>3, Zenon DEF SendsInStep
    <2>5. CASE t = s
        <3>1. u = landed /\ v = landed
            BY <2>1, <2>2, <2>4, <2>5, Zenon
        <3> QED
            BY <3>1, Zenon
    <2>6. CASE t # s /\ t.stage = "posting"
        <3>1. u = [t EXCEPT !.disturbed = TRUE]
            BY <2>1, <2>6, Zenon
        <3>2. v = [r EXCEPT !.disturbed = TRUE]
            BY <2>2, <2>4, <2>6, Zenon
        <3> QED
            BY <2>4, <3>1, <3>2, Zenon
    <2>7. CASE t # s /\ t.stage # "posting"
        <3>1. u = t /\ v = r
            BY <2>1, <2>2, <2>4, <2>7, Zenon
        <3> QED
            BY <2>4, <3>1, Zenon
    <2> QED
        BY <2>5, <2>6, <2>7, Zenon
<1>9. SendsInStep'
    BY <1>7, <1>8, Zenon DEF SendsInStep
<1>10. TypeOK'
    <2>1. sends' \subseteq Sends
        BY <1>7, Zenon
    <2>2. Storable(template')
        BY <1>2, Zenon
    <2>3. /\ saves' \subseteq Drawn /\ answer' \in Seq(Answers) /\ Len(answer') <= 1
          /\ review' \in {"closed", "review", "sending", "sent"}
        BY <1>1, <1>3, TypeParts
    <2> QED
        BY <1>1, <1>3, <2>1, <2>2, <2>3, CallsTypeOK, Zenon
<1>11. ReviewInStep'
    BY <1>1, <1>3, ReviewStays, Zenon
<1>12. EnvelopeSound' /\ RefusalsExplained'
    BY <1>1, <1>3, AnswersStay, Zenon
<1> QED
    BY <1>9, <1>10, <1>11, <1>12, Zenon DEF IInv

LEMMA SaveFailsKeepsInv ==
    ASSUME IInv, NEW s \in sends, SaveFails(s)
    PROVE  IInv'
<1>1. /\ TypeOK /\ SendsInStep /\ ReviewInStep /\ EnvelopeSound /\ RefusalsExplained
      /\ sends \subseteq Sends
    BY InvParts, TypeParts, Zenon
<1>2. /\ s.stage = "saving" /\ Counted
      /\ template' = template \/ (template' = s.boxes /\ Storable(s.boxes))
      /\ template' = template => sends' = Over(s)
      /\ template' # template => sends' = Disturbed \ {s}
      /\ review' = ReviewAfter(s, "review")
      /\ UNCHANGED <<layout, people, touched, saves, answer>>
    BY Zenon DEF SaveFails
<1>3. /\ UNCHANGED <<layout, people, touched>> /\ UNCHANGED saves /\ UNCHANGED answer
    BY <1>2
<1>4. /\ \A t \in Over(s) : t \in sends /\ t # s
      /\ \A t \in sends : t # s /\ t.watched => review' = "sending"
      /\ review' \in {"closed", "review", "sending", "sent"}
      /\ review' \in {"review", "sending"} => review \in {"review", "sending"}
    <2>1. "review" \in {"review", "sent"}
        OBVIOUS
    <2> QED
        BY <1>1, <1>2, <2>1, OverInStep, Zenon
<1>5. SendsInStep' /\ sends' \subseteq Sends
    <2>1. CASE template' = template
        <3>1. sends' \subseteq sends /\ \A t \in sends' : t # s
            BY <1>2, <1>4, <2>1, Zenon
        <3>2. SendsInStep'
            BY <1>1, <1>4, <2>1, <3>1, Zenon DEF SendsInStep
        <3> QED
            BY <1>1, <3>1, <3>2, Zenon
    <2>2. CASE template' # template
        <3>1. \A t \in sends' : t \in Disturbed /\ t # s
            BY <1>2, <2>2, Zenon
        <3>2. \A t \in sends' : t.watched => review' = "sending"
            <4>1. CASE s.watched
                BY <1>1, <1>2, <3>1, <4>1, DisturbedInStep, Zenon
            <4>2. CASE ~s.watched
                <5>1. review' = review
                    BY <1>2, <4>2, Zenon DEF ReviewAfter
                <5> QED
                    BY <1>1, <3>1, <5>1, DisturbedInStep, Zenon
            <4> QED
                BY <4>1, <4>2, Zenon
        <3>3. \A t, u \in sends' : t.watched /\ u.watched => t = u
            BY <1>1, <3>1, DisturbedInStep, Zenon
        <3>4. \A t \in sends' : Careful(t) /\ ~(t.stage = "posting" /\ ~t.disturbed)
            BY <1>1, <3>1, DisturbedInStep, Zenon
        <3>5. SendsInStep'
            BY <3>2, <3>3, <3>4, Zenon DEF SendsInStep
        <3>6. sends' \subseteq Sends
            BY <1>1, <3>1, DisturbedFacts, Zenon
        <3> QED
            BY <3>5, <3>6, Zenon
    <2> QED
        BY <2>1, <2>2, Zenon
<1>6. TypeOK'
    <2>1. Storable(template)
        BY <1>1, TypeParts, Zenon
    <2>2. Storable(template')
        BY <1>2, <2>1, Zenon
    <2>3. saves' \subseteq Drawn /\ answer' \in Seq(Answers) /\ Len(answer') <= 1
        BY <1>1, <1>3, TypeParts
    <2> QED
        BY <1>1, <1>2, <1>3, <1>4, <1>5, <2>2, <2>3, CallsTypeOK, Zenon
<1>7. ReviewInStep'
    BY <1>1, <1>3, <1>4, ReviewStays, Zenon
<1>8. EnvelopeSound' /\ RefusalsExplained'
    BY <1>1, <1>3, AnswersStay, Zenon
<1> QED
    BY <1>5, <1>6, <1>7, <1>8, Zenon DEF IInv

\* What the API makes of a send: an envelope of what was on the screen unless it
\* was disturbed, a refusal with a cause.
LEMMA AnsweredFacts ==
    ASSUME IInv, NEW s \in sends, NEW accepted \in BOOLEAN, answer' = Verdict(s, accepted),
           \/ s.stage = "posting" /\ accepted = Accepted(s)
           \/ ~accepted /\ ~Storable(s.boxes)
    PROVE  EnvelopeSound' /\ RefusalsExplained'
<1>1. TypeOK /\ SendsInStep /\ s \in Sends
    BY InvParts, TypeParts, Zenon
<1> DEFINE a == [accepted |-> accepted, people |-> s.people, boxes |-> template,
                 sent |-> s.boxes, unready |-> s.unready, touched |-> s.touched,
                 disturbed |-> s.disturbed]
<1>2. answer' = <<a>>
    BY Zenon DEF Verdict
<1>3. /\ a.accepted = accepted /\ a.people = s.people /\ a.boxes = template
      /\ a.sent = s.boxes /\ a.unready = s.unready /\ a.touched = s.touched
      /\ a.disturbed = s.disturbed
    BY Zenon
<1> HIDE DEF a
<1>4. ToSet(answer') = {a}
    <2>1. \A x : DOMAIN <<x>> = {1} /\ <<x>>[1] = x
        OBVIOUS
    <2>2. DOMAIN answer' = {1} /\ answer'[1] = a
        BY <1>2, <2>1, Zenon
    <2>3. ToSet(answer') = {answer'[i] : i \in DOMAIN answer'}
        BY Zenon DEF ToSet
    <2> QED
        BY <2>2, <2>3
<1>5. s.people \in Seq(RecipientRows) /\ DOMAIN s.people = 1 .. Len(s.people)
    <2>1. s.people \in Seq(RecipientRows)
        BY <1>1, SendFacts, Zenon
    <2> QED
        BY <2>1
<1>6. ASSUME s.stage = "posting"
      PROVE  ~s.disturbed => template = s.boxes
    BY <1>1, <1>6, Zenon DEF SendsInStep
<1>7. ASSUME a.accepted
      PROVE  /\ ~a.disturbed => a.boxes = a.sent
             /\ \A i \in 1 .. Len(a.people) :
                    a.people[i].role = "signer" => a.people[i].key \in KeysOf(a.boxes)
    <2>1. s.stage = "posting" /\ Accepted(s)
        BY <1>3, <1>7, Zenon
    <2> QED
        BY <1>3, <1>6, <2>1, Zenon DEF Accepted, SignersAreTagged
<1>8. ASSUME ~a.unready, ~a.touched, ~a.disturbed, Storable(a.sent), ~Odd(a.people)
      PROVE  a.accepted
    <2>1. s.stage = "posting" /\ accepted = Accepted(s)
        BY <1>3, <1>8, Zenon
    <2>2. template = s.boxes
        BY <1>3, <1>6, <1>8, <2>1, Zenon
    <2>3. Careful(s) /\ ~s.touched /\ ~s.unready /\ ~Odd(s.people)
        BY <1>1, <1>3, <1>8, Zenon DEF SendsInStep
    <2>4. s.boxes # <<>> /\ Tagged(s.people, s.boxes) /\ Addressed(s.people)
        BY <2>3, Zenon DEF Careful
    <2>5. SignersAreTagged(s)
        BY <1>5, <2>2, <2>4, Zenon DEF SignersAreTagged, Tagged
    <2>6. Accepted(s)
        BY <1>5, <2>2, <2>4, <2>5, Zenon DEF Accepted, Addressed
    <2> QED
        BY <1>3, <2>1, <2>6, Zenon
<1>9. EnvelopeSound'
    BY <1>4, <1>7, Zenon DEF EnvelopeSound
<1>10. RefusalsExplained'
    <2>1. Odd(a.people) => \E i \in 1 .. Len(a.people) : a.people[i].email \in Unmailable
        BY <1>3, <1>5, Zenon DEF Odd
    <2>2. \/ a.accepted
          \/ a.unready \/ a.touched \/ a.disturbed
          \/ \E i \in 1 .. Len(a.people) : a.people[i].email \in Unmailable
          \/ ~Storable(a.sent)
        BY <1>8, <2>1, Zenon
    <2> QED
        BY <1>4, <2>2, Zenon DEF RefusalsExplained
<1> QED
    BY <1>9, <1>10, Zenon

\* One send is over, with the answer it got, if any.
LEMMA OverKeepsInv ==
    ASSUME IInv, NEW s \in sends, NEW outcome \in {"review", "sent"},
           sends' = Over(s), review' = ReviewAfter(s, outcome), Counted \/ UNCHANGED events,
           UNCHANGED <<layout, people, touched>>, UNCHANGED template, UNCHANGED saves,
           answer' \in Seq(Answers), Len(answer') <= 1, EnvelopeSound', RefusalsExplained'
    PROVE  IInv'
<1>1. /\ TypeOK /\ SendsInStep /\ ReviewInStep /\ sends \subseteq Sends
    BY InvParts, TypeParts, Zenon
<1>2. /\ \A t \in Over(s) : t \in sends /\ t # s
      /\ \A t \in sends : t # s /\ t.watched => review' = "sending"
      /\ review' \in {"closed", "review", "sending", "sent"}
      /\ review' \in {"review", "sending"} => review \in {"review", "sending"}
    BY <1>1, OverInStep, Zenon
<1>3. sends' \subseteq sends /\ \A t \in sends' : t # s
    BY <1>2, Zenon
<1>4. SendsInStep'
    BY <1>1, <1>2, <1>3, Zenon DEF SendsInStep
<1>5. TypeOK'
    <2>1. sends' \subseteq Sends
        BY <1>1, <1>3, Zenon
    <2>2. Storable(template') /\ saves' \subseteq Drawn
        BY <1>1, TypeParts
    <2> QED
        BY <1>1, <1>2, <2>1, <2>2, CallsTypeOK, Zenon
<1>6. ReviewInStep'
    BY <1>1, <1>2, ReviewStays, Zenon
<1> QED
    BY <1>4, <1>5, <1>6, Zenon DEF IInv

LEMMA PostKeepsInv ==
    ASSUME IInv, NEW s \in sends, Post(s) \/ PostLost(s)
    PROVE  IInv'
<1>1. TypeOK /\ EnvelopeSound /\ RefusalsExplained
    BY InvParts, Zenon
<1>2. PICK accepted \in BOOLEAN : accepted = Accepted(s)
    BY Zenon DEF Accepted
<1>3. PICK outcome \in {"review", "sent"} : review' = ReviewAfter(s, outcome)
    <2>1. "review" \in {"review", "sent"} /\ "sent" \in {"review", "sent"}
        OBVIOUS
    <2>2. CASE Post(s)
        BY <2>1, <2>2, Zenon DEF Post
    <2>3. CASE PostLost(s)
        BY <2>1, <2>3, Zenon DEF PostLost
    <2> QED
        BY <2>2, <2>3, Zenon
<1>4. /\ s.stage = "posting" /\ sends' = Over(s) /\ answer' \in {<<>>, Verdict(s, accepted)}
      /\ Counted \/ UNCHANGED events
      /\ UNCHANGED <<layout, people, touched>> /\ UNCHANGED template /\ UNCHANGED saves
    <2>1. CASE Post(s)
        <3>1. /\ s.stage = "posting" /\ sends' = Over(s) /\ answer' = Verdict(s, accepted)
              /\ UNCHANGED <<layout, people, touched, template, saves, events>>
            BY <1>2, <2>1, Zenon DEF Post
        <3> QED
            BY <3>1
    <2>2. CASE PostLost(s)
        <3>1. /\ s.stage = "posting" /\ sends' = Over(s) /\ answer' \in {<<>>, Verdict(s, accepted)}
              /\ Counted /\ UNCHANGED <<layout, people, touched, template, saves>>
            BY <1>2, <2>2, Zenon DEF PostLost
        <3> QED
            BY <3>1
    <2> QED
        BY <2>1, <2>2, Zenon
<1>5. /\ answer' \in Seq(Answers) /\ Len(answer') <= 1
      /\ EnvelopeSound' /\ RefusalsExplained'
    <2>1. CASE answer' = <<>>
        <3>1. answer' \in Seq(Answers) /\ Len(answer') <= 1
            BY <2>1
        <3> QED
            BY <1>1, <2>1, <3>1, AnswersStay, Zenon
    <2>2. CASE answer' = Verdict(s, accepted)
        <3>1. answer' \in Seq(Answers) /\ Len(answer') = 1
            BY <1>1, <2>2, VerdictType, Zenon
        <3>2. Len(answer') <= 1
            BY <3>1
        <3> QED
            BY <1>2, <1>4, <2>2, <3>1, <3>2, AnsweredFacts, Zenon
    <2> QED
        BY <1>4, <2>1, <2>2, Zenon
<1> QED
    BY <1>3, <1>4, <1>5, OverKeepsInv, Zenon

\* The layout of a send is not one the contract takes: a refusal with a cause.
LEMMA SaveRefusedKeepsInv ==
    ASSUME IInv, NEW s \in sends, SaveRefused(s)
    PROVE  IInv'
<1>1. TypeOK
    BY InvParts, Zenon
<1>2. /\ ~Storable(s.boxes) /\ sends' = Over(s) /\ answer' = Verdict(s, FALSE)
      /\ review' = ReviewAfter(s, "review")
      /\ UNCHANGED <<layout, people, touched, template, saves, events>>
    BY Zenon DEF SaveRefused
<1>3. /\ UNCHANGED <<layout, people, touched>> /\ UNCHANGED template /\ UNCHANGED saves
      /\ UNCHANGED events /\ "review" \in {"review", "sent"}
    BY <1>2
<1>4. answer' \in Seq(Answers) /\ Len(answer') <= 1
    <2>1. answer' \in Seq(Answers) /\ Len(answer') = 1
        BY <1>1, <1>2, VerdictType, Zenon
    <2> QED
        BY <2>1
<1>5. EnvelopeSound' /\ RefusalsExplained'
    BY <1>2, AnsweredFacts, Zenon
<1> QED
    BY <1>2, <1>3, <1>4, <1>5, OverKeepsInv, Zenon

-----------------------------------------------------------------------------
(* Undo and redo walk one line of versions.                                *)

Line == past \o <<fields>> \o future
At == Len(past) + 1

\* l is the versions of p, then the one on screen, then the versions of u.
IsLine(l, p, f, u) ==
    /\ Len(p) \in Nat /\ Len(u) \in Nat
    /\ l \in Seq(Drawn) /\ Len(l) = Len(p) + 1 + Len(u)
    /\ \A i \in 1 .. Len(p) : l[i] = p[i]
    /\ l[Len(p) + 1] = f
    /\ \A i \in 1 .. Len(u) : l[Len(p) + 1 + i] = u[i]

LEMMA LineFacts ==
    ASSUME NEW p \in Seq(Drawn), NEW f \in Drawn, NEW u \in Seq(Drawn), NEW l, l = p \o <<f>> \o u
    PROVE  IsLine(l, p, f, u)
<1>1. Len(p) \in Nat /\ Len(u) \in Nat
    OBVIOUS
<1>2. PICK m \in Seq(Drawn) : m = <<f>> /\ Len(m) = 1 /\ m[1] = f
    <2>1. <<f>> \in Seq(Drawn)
        OBVIOUS
    <2>2. Len(<<f>>) = 1 /\ <<f>>[1] = f
        OBVIOUS
    <2> QED
        BY <2>1, <2>2, Zenon
<1>3. PICK k \in Seq(Drawn) :
        /\ k = p \o m /\ Len(k) = Len(p) + Len(m)
        /\ \A i \in 1 .. Len(p) + Len(m) : k[i] = IF i <= Len(p) THEN p[i] ELSE m[i - Len(p)]
    <2>1. /\ p \o m \in Seq(Drawn) /\ Len(p \o m) = Len(p) + Len(m)
          /\ \A i \in 1 .. Len(p) + Len(m) : (p \o m)[i] = IF i <= Len(p) THEN p[i] ELSE m[i - Len(p)]
        BY ConcatProperties, Zenon
    <2> QED
        BY <2>1, Zenon
<1>4. /\ k \o u \in Seq(Drawn) /\ Len(k \o u) = Len(k) + Len(u)
      /\ \A i \in 1 .. Len(k) + Len(u) : (k \o u)[i] = IF i <= Len(k) THEN k[i] ELSE u[i - Len(k)]
    BY ConcatProperties, Zenon
<1>5. l = k \o u
    BY <1>2, <1>3, Zenon
<1>6. /\ l \in Seq(Drawn) /\ Len(l) = Len(k) + Len(u)
      /\ \A i \in 1 .. Len(k) + Len(u) : l[i] = IF i <= Len(k) THEN k[i] ELSE u[i - Len(k)]
    BY <1>4, <1>5, Zenon
<1>7. Len(k) = Len(p) + 1
    BY <1>2, <1>3
<1>8. ASSUME NEW i \in 1 .. Len(p)
      PROVE  l[i] = p[i]
    <2>1. i \in 1 .. Len(k) + Len(u) /\ i <= Len(k) /\ i \in 1 .. Len(p) + Len(m) /\ i <= Len(p)
        BY <1>1, <1>2, <1>7
    <2> QED
        BY <1>3, <1>6, <2>1, Zenon
<1>9. l[Len(p) + 1] = f
    <2> DEFINE i == Len(p) + 1
    <2>1. /\ i \in 1 .. Len(k) + Len(u) /\ i <= Len(k) /\ i \in 1 .. Len(p) + Len(m)
          /\ ~(i <= Len(p)) /\ i - Len(p) = 1
        BY <1>1, <1>2, <1>7
    <2> HIDE DEF i
    <2>2. l[i] = k[i] /\ k[i] = m[i - Len(p)]
        BY <1>3, <1>6, <2>1, Zenon
    <2> QED
        BY <1>2, <2>1, <2>2, Zenon DEF i
<1>10. ASSUME NEW j \in 1 .. Len(u)
       PROVE  l[Len(p) + 1 + j] = u[j]
    <2> DEFINE i == Len(p) + 1 + j
    <2>1. i \in 1 .. Len(k) + Len(u) /\ ~(i <= Len(k)) /\ i - Len(k) = j
        BY <1>1, <1>7
    <2> HIDE DEF i
    <2>2. l[i] = u[i - Len(k)]
        BY <1>6, <2>1, Zenon
    <2> QED
        BY <2>1, <2>2, Zenon DEF i
<1>11. Len(l) = Len(p) + 1 + Len(u)
    BY <1>1, <1>6, <1>7
<1> QED
    BY <1>1, <1>6, <1>8, <1>9, <1>10, <1>11, Zenon DEF IsLine

\* The line before a step and after it.
LEMMA LinesFacts ==
    ASSUME LayoutOK, LayoutOK'
    PROVE  IsLine(Line, past, fields, future) /\ IsLine(Line', past', fields', future')
<1>1. fields \in Drawn /\ past \in Seq(Drawn) /\ future \in Seq(Drawn)
    BY DrawnFacts, Zenon
<1>2. fields' \in Drawn /\ past' \in Seq(Drawn) /\ future' \in Seq(Drawn)
    BY DrawnNext, Zenon
<1>3. Line = past \o <<fields>> \o future /\ Line' = past' \o <<fields'>> \o future'
    BY Zenon DEF Line
<1>4. IsLine(Line, past, fields, future)
    BY <1>1, <1>3, LineFacts, Zenon
<1>5. IsLine(Line', past', fields', future')
    BY <1>2, <1>3, LineFacts, Zenon
<1> QED
    BY <1>4, <1>5, Zenon

\* A stretch of a list.
LEMMA StretchFacts ==
    ASSUME NEW s \in Seq(Drawn), NEW m \in Nat \ {0}, NEW n \in Nat, m <= n, n <= Len(s)
    PROVE  /\ SubSeq(s, m, n) \in Seq(Drawn) /\ Len(SubSeq(s, m, n)) = n - m + 1
           /\ \A i \in 1 .. n - m + 1 : SubSeq(s, m, n)[i] = s[m + i - 1]
<1>1. \A i \in m .. n : s[i] \in Drawn
    OBVIOUS
<1>2. m \in Int /\ n \in Int
    OBVIOUS
<1> QED
    BY <1>1, <1>2, SubSeqProperties

\* Edits, undo and redo, and dragging, seen on the line.
LEMMA CommitIsEdit ==
    ASSUME LayoutOK, LayoutOK', NEW next, Commit(next)
    PROVE  \E oldest \in 1 .. At :
                /\ Line' = Append(SubSeq(Line, oldest, At), Line'[At'])
                /\ Len(Line') <= HISTORY_LIMIT + 1 + 1
                /\ oldest = 1 \/ Len(Line') = HISTORY_LIMIT + 1 + 1
                /\ At' = Len(Line')
<1> DEFINE P == Len(past)
           from == Larger(1, P - HISTORY_LIMIT + 1)
           kept == SubSeq(past, from, P)
           older == SubSeq(Line, from, P + 1)
<1>1. P \in Nat /\ HISTORY_LIMIT \in Nat \ {0} /\ past \in Seq(Drawn)
    BY LayoutAssumption, DrawnFacts
<1>2. /\ from \in 1 .. P + 1 /\ P - from + 1 <= HISTORY_LIMIT
      /\ from = 1 \/ P - from + 1 = HISTORY_LIMIT
    <2> HIDE DEF P
    <2> QED
        BY <1>1 DEF Larger
<1> HIDE DEF from
<1>3. fields' = next /\ past' = Append(kept, fields) /\ future' = <<>>
    BY Zenon DEF Commit, ForgetsFuture, LatestOf, from
<1>4. /\ kept \in Seq(Drawn) /\ Len(kept) = P - from + 1
      /\ \A i \in 1 .. P - from + 1 : kept[i] = past[from + i - 1]
    <2>1. \A i \in from .. P : past[i] \in Drawn
        BY <1>1, <1>2
    <2>2. from \in Int /\ P \in Int
        BY <1>1, <1>2
    <2>3. /\ kept \in Seq(Drawn) /\ Len(kept) = IF from <= P THEN P - from + 1 ELSE 0
          /\ \A i \in 1 .. P - from + 1 : kept[i] = past[from + i - 1]
        BY <2>1, <2>2, SubSeqProperties
    <2> HIDE DEF kept, P
    <2> QED
        BY <1>1, <1>2, <2>3
<1>5. /\ P \in Nat /\ Line \in Seq(Drawn) /\ Len(Line) >= P + 1
      /\ \A i \in 1 .. P : Line[i] = past[i]
      /\ Line[P + 1] = fields
    <2>1. /\ Len(future) \in Nat /\ P \in Nat /\ Line \in Seq(Drawn)
          /\ Len(Line) = P + 1 + Len(future)
          /\ \A i \in 1 .. P : Line[i] = past[i]
          /\ Line[P + 1] = fields
        BY LinesFacts, Zenon DEF IsLine
    <2> QED
        BY <2>1
<1> HIDE DEF P
<1>6. /\ older \in Seq(Drawn) /\ Len(older) = P - from + 2
      /\ \A i \in 1 .. P - from + 2 : older[i] = Line[from + i - 1]
    <2> DEFINE top == P + 1
    <2>1. from \in Nat \ {0} /\ top \in Nat /\ from <= top /\ top <= Len(Line)
        BY <1>1, <1>2, <1>5
    <2>2. top - from + 1 = P - from + 2
        BY <1>1, <1>2
    <2> HIDE DEF top
    <2>3. /\ SubSeq(Line, from, top) \in Seq(Drawn)
          /\ Len(SubSeq(Line, from, top)) = top - from + 1
          /\ \A i \in 1 .. top - from + 1 : SubSeq(Line, from, top)[i] = Line[from + i - 1]
        BY <1>5, <2>1, StretchFacts, Zenon
    <2> QED
        BY <2>2, <2>3, Zenon DEF top
<1> HIDE DEF kept, older
<1>7. /\ fields \in Drawn /\ fields' \in Drawn
    BY DrawnFacts, DrawnNext, Zenon
<1>8. /\ Len(past') = P - from + 2
      /\ \A i \in 1 .. P - from + 1 : past'[i] = past[from + i - 1]
      /\ past'[P - from + 2] = fields
    <2>1. /\ Len(Append(kept, fields)) = Len(kept) + 1
          /\ \A i \in 1 .. Len(kept) : Append(kept, fields)[i] = kept[i]
          /\ Append(kept, fields)[Len(kept) + 1] = fields
        BY <1>4, <1>7, AppendProperties
    <2>2. /\ Len(past') = Len(kept) + 1
          /\ \A i \in 1 .. Len(kept) : past'[i] = kept[i]
          /\ past'[Len(kept) + 1] = fields
        BY <1>3, <2>1, Zenon
    <2>3. P - from + 1 + 1 = P - from + 2
        BY <1>1, <1>2
    <2> QED
        BY <1>4, <2>2, <2>3, Zenon
<1>9. /\ Line' \in Seq(Drawn) /\ Len(Line') = P - from + 3
      /\ \A i \in 1 .. P - from + 2 : Line'[i] = past'[i]
      /\ Line'[P - from + 3] = fields'
    <2>1. /\ Line' \in Seq(Drawn) /\ Len(Line') = Len(past') + 1 + Len(future')
          /\ \A i \in 1 .. Len(past') : Line'[i] = past'[i]
          /\ Line'[Len(past') + 1] = fields'
        BY LinesFacts, Zenon DEF IsLine
    <2>2. Len(future') = 0
        BY <1>3
    <2>3. P - from + 2 + 1 = P - from + 3 /\ P - from + 2 + 1 + 0 = P - from + 3
        BY <1>1, <1>2
    <2> QED
        BY <1>8, <2>1, <2>2, <2>3, Zenon
<1> DEFINE newer == Append(older, fields')
<1>10. /\ newer \in Seq(Drawn) /\ Len(newer) = P - from + 3
       /\ \A i \in 1 .. P - from + 2 : newer[i] = Line[from + i - 1]
       /\ newer[P - from + 3] = fields'
    <2>1. /\ newer \in Seq(Drawn) /\ Len(newer) = Len(older) + 1
          /\ \A i \in 1 .. Len(older) : newer[i] = older[i]
          /\ newer[Len(older) + 1] = fields'
        BY <1>6, <1>7, AppendProperties
    <2>2. P - from + 2 + 1 = P - from + 3
        BY <1>1, <1>2
    <2> HIDE DEF newer
    <2> QED
        BY <1>6, <2>1, <2>2, Zenon
<1> HIDE DEF newer
<1>11. ASSUME NEW i \in 1 .. P - from + 3
       PROVE  Line'[i] = newer[i]
    <2>1. CASE i \in 1 .. P - from + 1
        <3>1. i \in 1 .. P - from + 2 /\ from + i - 1 \in 1 .. P
            BY <1>1, <1>2, <2>1
        <3>2. Line'[i] = past[from + i - 1]
            BY <1>8, <1>9, <2>1, <3>1, Zenon
        <3>3. newer[i] = past[from + i - 1]
            BY <1>5, <1>10, <3>1, Zenon
        <3> QED
            BY <3>2, <3>3, Zenon
    <2>2. CASE i = P - from + 2
        <3>1. i \in 1 .. P - from + 2 /\ from + i - 1 = P + 1
            BY <1>1, <1>2, <2>2
        <3>2. Line'[i] = fields
            BY <1>8, <1>9, <2>2, <3>1, Zenon
        <3>3. newer[i] = fields
            BY <1>5, <1>10, <3>1, Zenon
        <3> QED
            BY <3>2, <3>3, Zenon
    <2>3. CASE i = P - from + 3
        BY <1>9, <1>10, <2>3, Zenon
    <2> QED
        BY <1>1, <1>2, <2>1, <2>2, <2>3
<1>12. Line' = newer
    <2>1. Len(Line') = Len(newer) /\ \A i \in 1 .. Len(Line') : Line'[i] = newer[i]
        BY <1>9, <1>10, <1>11, Zenon
    <2> QED
        BY <1>9, <1>10, <2>1, SeqEqual, Zenon
<1>13. /\ At = P + 1 /\ At' = Len(Line') /\ Line'[At'] = fields'
    <2>1. At' = Len(past') + 1 /\ At = P + 1
        BY Zenon DEF At, P
    <2>2. At' = P - from + 3
        BY <1>1, <1>2, <1>8, <2>1
    <2> QED
        BY <1>9, <2>1, <2>2, Zenon
<1>14. /\ Len(Line') <= HISTORY_LIMIT + 1 + 1
       /\ from = 1 \/ Len(Line') = HISTORY_LIMIT + 1 + 1
    BY <1>1, <1>2, <1>9
<1>15. from \in 1 .. At /\ Line' = Append(SubSeq(Line, from, At), Line'[At'])
    BY <1>2, <1>12, <1>13, Zenon DEF newer, older
<1> QED
    BY <1>13, <1>14, <1>15, Zenon

\* The versions of a line whose screen is one back from another's.
OneBack(p, f, u, pb, fb, ub) ==
    /\ Len(p) = Len(pb) + 1 /\ Len(ub) = Len(u) + 1
    /\ \A i \in 1 .. Len(pb) : pb[i] = p[i]
    /\ fb = p[Len(p)]
    /\ ub[1] = f
    /\ \A i \in 1 .. Len(u) : ub[i + 1] = u[i]

LEMMA SameLine ==
    ASSUME NEW p, NEW f, NEW u, NEW l, IsLine(l, p, f, u),
           NEW pb, NEW fb, NEW ub, NEW lb, IsLine(lb, pb, fb, ub),
           OneBack(p, f, u, pb, fb, ub)
    PROVE  l = lb
<1>1. PICK P \in Nat, F \in Nat :
        /\ Len(pb) = P /\ Len(p) = P + 1 /\ Len(u) = F /\ Len(ub) = F + 1
        /\ l \in Seq(Drawn) /\ Len(l) = P + 1 + 1 + F
        /\ lb \in Seq(Drawn) /\ Len(lb) = P + 1 + (F + 1)
    <2>1. /\ Len(pb) \in Nat /\ Len(u) \in Nat /\ Len(p) = Len(pb) + 1 /\ Len(ub) = Len(u) + 1
          /\ l \in Seq(Drawn) /\ Len(l) = Len(p) + 1 + Len(u)
          /\ lb \in Seq(Drawn) /\ Len(lb) = Len(pb) + 1 + Len(ub)
        BY Zenon DEF IsLine, OneBack
    <2> QED
        BY <2>1, Zenon
<1>2. /\ \A i \in 1 .. P + 1 : l[i] = p[i]
      /\ l[P + 1 + 1] = f
      /\ \A i \in 1 .. F : l[P + 1 + 1 + i] = u[i]
    BY <1>1, Zenon DEF IsLine
<1>3. /\ \A i \in 1 .. P : lb[i] = pb[i]
      /\ lb[P + 1] = fb
      /\ \A i \in 1 .. F + 1 : lb[P + 1 + i] = ub[i]
    BY <1>1, Zenon DEF IsLine
<1>4. /\ \A i \in 1 .. P : pb[i] = p[i]
      /\ fb = p[P + 1]
      /\ ub[1] = f
      /\ \A i \in 1 .. F : ub[i + 1] = u[i]
    BY <1>1, Zenon DEF OneBack
<1>5. Len(l) = P + F + 2 /\ Len(lb) = P + F + 2
    BY <1>1
<1>6. ASSUME NEW i \in 1 .. P + F + 2
      PROVE  l[i] = lb[i]
    <2>1. CASE i \in 1 .. P
        <3>1. i \in 1 .. P + 1
            BY <2>1
        <3> QED
            BY <1>2, <1>3, <1>4, <2>1, <3>1, Zenon
    <2>2. CASE i = P + 1
        <3>1. i \in 1 .. P + 1
            BY <2>2
        <3> QED
            BY <1>2, <1>3, <1>4, <2>2, <3>1, Zenon
    <2>3. CASE i = P + 1 + 1
        <3>1. 1 \in 1 .. F + 1
            OBVIOUS
        <3> QED
            BY <1>2, <1>3, <1>4, <2>3, <3>1, Zenon
    <2>4. CASE i > P + 2
        <3>1. PICK j \in 1 .. F : i = P + 1 + 1 + j
            <4>1. i - P - 2 \in 1 .. F /\ i = P + 1 + 1 + (i - P - 2)
                BY <2>4
            <4> QED
                BY <4>1, Zenon
        <3>2. j + 1 \in 1 .. F + 1 /\ i = P + 1 + (j + 1)
            BY <3>1
        <3>3. l[i] = u[j]
            BY <1>2, <3>1, Zenon
        <3>4. lb[i] = ub[j + 1]
            BY <1>3, <3>2, Zenon
        <3> QED
            BY <1>4, <3>3, <3>4, Zenon
    <2> QED
        BY <2>1, <2>2, <2>3, <2>4
<1> QED
    <2>1. Len(l) = Len(lb) /\ \A i \in 1 .. Len(l) : l[i] = lb[i]
        BY <1>5, <1>6, Zenon
    <2> QED
        BY <1>1, <2>1, SeqEqual, Zenon

LEMMA UndoIsBack ==
    ASSUME LayoutOK, LayoutOK', Undo
    PROVE  At > 1 /\ At' = At - 1 /\ Line' = Line
<1>1. /\ past \in Seq(Drawn) /\ past # <<>> /\ future \in Seq(Drawn) /\ fields \in Drawn
      /\ past' = Front(past) /\ fields' = Last(past) /\ future' = <<fields>> \o future
    BY DrawnFacts, Zenon DEF Undo
<1>2. /\ Len(past) = Len(past') + 1
      /\ Len(past') \in Nat
      /\ \A i \in 1 .. Len(past') : past'[i] = past[i]
      /\ fields' = past[Len(past)]
    <2>1. PICK P \in Nat : Len(past) = P + 1
        <3>1. Len(past) - 1 \in Nat /\ Len(past) = (Len(past) - 1) + 1
            BY <1>1
        <3> QED
            BY <3>1, Zenon
    <2>2. P <= Len(past) /\ 1 <= P + 1 /\ 1 \in Nat \ {0} /\ Len(past) - 1 = P /\ P - 1 + 1 = P
        BY <2>1
    <2>3. past' = SubSeq(past, 1, P) /\ fields' = past[Len(past)]
        BY <1>1, <2>2, Zenon DEF Front, Last
    <2>4. /\ Len(SubSeq(past, 1, P)) = P
          /\ \A i \in 1 .. P : SubSeq(past, 1, P)[i] = past[i]
        BY <1>1, <2>2, SubSeqProperties
    <2> QED
        BY <2>1, <2>3, <2>4, Zenon
<1>3. /\ Len(future') = Len(future) + 1
      /\ future'[1] = fields
      /\ \A i \in 1 .. Len(future) : future'[i + 1] = future[i]
    <2>1. <<fields>> \in Seq(Drawn) /\ Len(<<fields>>) = 1 /\ <<fields>>[1] = fields
        BY <1>1
    <2>2. PICK m \in Seq(Drawn) : m = <<fields>> /\ Len(m) = 1 /\ m[1] = fields
        BY <2>1, Zenon
    <2>3. /\ Len(m \o future) = Len(m) + Len(future)
          /\ \A i \in 1 .. Len(m) + Len(future) :
                (m \o future)[i] = IF i <= Len(m) THEN m[i] ELSE future[i - Len(m)]
        BY <1>1, ConcatProperties, Zenon
    <2>4. future' = m \o future
        BY <1>1, <2>2, Zenon
    <2>5. PICK F \in Nat : F = Len(future)
        BY <1>1
    <2>6. /\ Len(future') = 1 + F
          /\ \A i \in 1 .. 1 + F : future'[i] = IF i <= 1 THEN fields ELSE future[i - 1]
        <3>1. /\ Len(future') = 1 + F
              /\ \A i \in 1 .. 1 + F : future'[i] = IF i <= 1 THEN m[i] ELSE future[i - 1]
            BY <2>2, <2>3, <2>4, <2>5, Zenon
        <3>2. \A i \in 1 .. 1 + F : i <= 1 => i = 1
            BY <2>5
        <3> QED
            BY <2>2, <3>1, <3>2, Zenon
    <2>7. 1 \in 1 .. 1 + F /\ 1 <= 1 /\ 1 + F = F + 1
        BY <2>5
    <2>8. \A i \in 1 .. F : i + 1 \in 1 .. 1 + F /\ ~(i + 1 <= 1) /\ (i + 1) - 1 = i
        BY <2>5
    <2>9. future'[1] = fields
        BY <2>6, <2>7, Zenon
    <2>10. ASSUME NEW i \in 1 .. F
           PROVE  future'[i + 1] = future[i]
        <3>1. future'[i + 1] = future[(i + 1) - 1]
            BY <2>6, <2>8, Zenon
        <3> QED
            BY <2>8, <3>1, Zenon
    <2> QED
        BY <2>5, <2>6, <2>7, <2>9, <2>10, Zenon
<1>4. OneBack(past, fields, future, past', fields', future')
    BY <1>2, <1>3, Zenon DEF OneBack
<1>5. Line = Line'
    BY <1>4, LinesFacts, SameLine, Zenon
<1>6. At = Len(past) + 1 /\ At' = Len(past') + 1
    BY Zenon DEF At
<1>7. At > 1 /\ At' = At - 1
    BY <1>2, <1>6
<1> QED
    BY <1>5, <1>7, Zenon

LEMMA RedoIsForth ==
    ASSUME LayoutOK, LayoutOK', Redo
    PROVE  At < Len(Line) /\ At' = At + 1 /\ Line' = Line
<1>1. /\ future \in Seq(Drawn) /\ future # <<>> /\ past \in Seq(Drawn) /\ fields \in Drawn
      /\ fields' = Head(future) /\ future' = Tail(future) /\ past' = Append(past, fields)
    BY DrawnFacts, Zenon DEF Redo
<1>2. /\ Len(future) = Len(future') + 1 /\ Len(future') \in Nat
      /\ future[1] = fields'
      /\ \A i \in 1 .. Len(future') : future[i + 1] = future'[i]
    BY <1>1
<1>3. /\ Len(past') = Len(past) + 1 /\ Len(past) \in Nat
      /\ \A i \in 1 .. Len(past) : past[i] = past'[i]
      /\ fields = past'[Len(past')]
    <2>1. /\ Len(Append(past, fields)) = Len(past) + 1 /\ Len(past) \in Nat
          /\ \A i \in 1 .. Len(past) : Append(past, fields)[i] = past[i]
          /\ Append(past, fields)[Len(past) + 1] = fields
        BY <1>1, AppendProperties
    <2> QED
        BY <1>1, <2>1, Zenon
<1>4. OneBack(past', fields', future', past, fields, future)
    BY <1>2, <1>3, Zenon DEF OneBack
<1>5. Line' = Line
    BY <1>4, LinesFacts, SameLine, Zenon
<1>6. /\ At = Len(past) + 1 /\ At' = Len(past') + 1
      /\ Len(Line) = Len(past) + 1 + Len(future)
    BY LinesFacts, Zenon DEF At, IsLine
<1>7. At < Len(Line) /\ At' = At + 1
    BY <1>2, <1>3, <1>6
<1> QED
    BY <1>5, <1>7, Zenon

\* Dragging or resizing a box.
LEMMA DragIsDrag ==
    ASSUME LayoutOK, LayoutOK', UNCHANGED <<past, future>>
    PROVE  Line' = [Line EXCEPT ![At] = Line'[At']] /\ At' = At
<1>1. past' = past /\ future' = future
    BY Zenon
<1>2. At = Len(past) + 1 /\ At' = At
    BY <1>1, Zenon DEF At
<1>3. PICK P \in Nat, F \in Nat :
        /\ Len(past) = P /\ Len(future) = F /\ At = P + 1
        /\ Line \in Seq(Drawn) /\ Len(Line) = P + 1 + F
        /\ Line' \in Seq(Drawn) /\ Len(Line') = P + 1 + F
        /\ \A i \in 1 .. P : Line[i] = past[i]
        /\ \A i \in 1 .. P : Line'[i] = past[i]
        /\ \A i \in 1 .. F : Line[P + 1 + i] = future[i]
        /\ \A i \in 1 .. F : Line'[P + 1 + i] = future[i]
    <2>1. /\ Len(past) \in Nat /\ Len(future) \in Nat
          /\ Line \in Seq(Drawn) /\ Len(Line) = Len(past) + 1 + Len(future)
          /\ Line' \in Seq(Drawn) /\ Len(Line') = Len(past) + 1 + Len(future)
          /\ \A i \in 1 .. Len(past) : Line[i] = past[i]
          /\ \A i \in 1 .. Len(past) : Line'[i] = past[i]
          /\ \A i \in 1 .. Len(future) : Line[Len(past) + 1 + i] = future[i]
          /\ \A i \in 1 .. Len(future) : Line'[Len(past) + 1 + i] = future[i]
        BY <1>1, LinesFacts, Zenon DEF IsLine
    <2> QED
        BY <1>2, <2>1, Zenon
<1>4. ASSUME NEW i \in 1 .. P + 1 + F, i # P + 1
      PROVE  Line'[i] = Line[i]
    <2>1. CASE i \in 1 .. P
        BY <1>3, <2>1, Zenon
    <2>2. CASE i > P + 1
        <3>1. PICK j \in 1 .. F : i = P + 1 + j
            <4>1. i - P - 1 \in 1 .. F /\ i = P + 1 + (i - P - 1)
                BY <2>2
            <4> QED
                BY <4>1, Zenon
        <3> QED
            BY <1>3, <3>1, Zenon
    <2> QED
        BY <1>4, <2>1, <2>2
<1>5. PICK l, m : l = Line /\ m = Line'
    BY Zenon
<1>6. m = [l EXCEPT ![P + 1] = m[P + 1]]
    <2>1. /\ l \in Seq(Drawn) /\ Len(l) = P + 1 + F /\ m \in Seq(Drawn) /\ Len(m) = P + 1 + F
          /\ \A i \in 1 .. P + 1 + F : i # P + 1 => m[i] = l[i]
        BY <1>3, <1>4, <1>5, Zenon
    <2> QED
        BY <2>1
<1>7. Line' = [Line EXCEPT ![At] = Line'[At']]
    <2>1. At' = P + 1
        BY <1>2, <1>3, Zenon
    <2>2. m[P + 1] = Line'[At']
        BY <1>5, <2>1, Zenon
    <2> QED
        BY <1>3, <1>5, <1>6, <2>2, Zenon
<1> QED
    BY <1>2, <1>7, Zenon

\* What a step does to the line of versions.
OnLine ==
    \/ At > 1 /\ At' = At - 1 /\ Line' = Line
    \/ At < Len(Line) /\ At' = At + 1 /\ Line' = Line
    \/ \E oldest \in 1 .. At :
            /\ Line' = Append(SubSeq(Line, oldest, At), Line'[At'])
            /\ Len(Line') <= HISTORY_LIMIT + 1 + 1
            /\ oldest = 1 \/ Len(Line') = HISTORY_LIMIT + 1 + 1
            /\ At' = Len(Line')
    \/ Line' = [Line EXCEPT ![At] = Line'[At']] /\ At' = At
    \/ Line' = Line /\ At' = At

LEMMA CommitOnLine ==
    ASSUME LayoutOK, LayoutOK', NEW next, Commit(next)
    PROVE  OnLine
BY CommitIsEdit, Zenon DEF OnLine

LEMMA RestOnLine ==
    ASSUME UNCHANGED <<fields, past, future>>
    PROVE  OnLine
<1>1. fields' = fields /\ past' = past /\ future' = future
    BY Zenon
<1>2. Line' = Line /\ At' = At
    BY <1>1, Zenon DEF Line, At
<1> QED
    BY <1>2, Zenon DEF OnLine

LEMMA CopiesOnLine ==
    ASSUME LayoutOK, LayoutOK', CopyFieldsToEverySigner(SignerKeys)
    PROVE  OnLine
<1>1. CASE fields = <<>>
    <2>1. UNCHANGED <<fields, past, future>>
        BY <1>1, Zenon DEF CopyFieldsToEverySigner
    <2> QED
        BY <2>1, RestOnLine, Zenon
<1>2. CASE fields # <<>>
    <2>1. Commit(fields \o AllCopies(SignerKeys))
        BY <1>2, Zenon DEF CopyFieldsToEverySigner
    <2> QED
        BY <2>1, CommitOnLine, Zenon
<1> QED
    BY <1>1, <1>2, Zenon

LEMMA EditOnLine ==
    ASSUME LayoutOK, LayoutOK', EditLayout
    PROVE  OnLine
<1>1. CASE Pointing
    <2>1. ASSUME NEW i \in Rows1, NEW row \in Pointed, AddField(recipients[i].key, row)
          PROVE  OnLine
        BY <2>1, CommitOnLine, Zenon DEF AddField
    <2>2. ASSUME NEW b \in ToSet(fields), NEW byCorner \in BOOLEAN, StartGesture(b, byCorner)
          PROVE  OnLine
        <3>1. UNCHANGED <<fields, past, future, clipboard, slipped>>
            BY <2>2, Zenon DEF StartGesture
        <3>2. UNCHANGED <<fields, past, future>>
            BY <3>1
        <3> QED
            BY <3>2, RestOnLine, Zenon
    <2>3. ASSUME NEW b \in ToSet(fields), NEW i \in Rows1, Reassign(b, recipients[i].key)
          PROVE  OnLine
        <3>1. \E next : Commit(next)
            BY <2>3, Zenon DEF Reassign
        <3> QED
            BY <3>1, CommitOnLine, Zenon
    <2>4. ASSUME NEW b \in ToSet(fields), NEW blank \in BOOLEAN, EditOptions(b, blank)
          PROVE  OnLine
        <3>1. \E next : Commit(next)
            BY <2>4, Zenon DEF EditOptions
        <3> QED
            BY <3>1, CommitOnLine, Zenon
    <2> QED
        BY <1>1, <2>1, <2>2, <2>3, <2>4, CopiesOnLine, Zenon DEF Pointing
<1>2. CASE Menu
    <2>1. \E next : Commit(next)
        BY <1>2, Zenon DEF Menu, MakeEveryRequired, ClearFieldsOf, RemoveAll
    <2> QED
        BY <2>1, CommitOnLine, Zenon
<1>3. CASE Keyboard
    <2>1. CASE Undo
        BY <2>1, UndoIsBack, Zenon DEF OnLine
    <2>2. CASE Redo
        BY <2>2, RedoIsForth, Zenon DEF OnLine
    <2>3. CASE \E b \in ToSet(fields) : CopySelected(b)
        <3>1. UNCHANGED <<fields, past, future, hand>>
            BY <2>3, Zenon DEF CopySelected
        <3>2. UNCHANGED <<fields, past, future>>
            BY <3>1
        <3> QED
            BY <3>2, RestOnLine, Zenon
    <2>4. CASE Paste
        <3>1. \E next : Commit(next)
            BY <2>4, Zenon DEF Paste
        <3> QED
            BY <3>1, CommitOnLine, Zenon
    <2>5. CASE \E b \in ToSet(fields) : DeleteSelected(b)
        <3>1. \E next : Commit(next)
            BY <2>5, Zenon DEF DeleteSelected
        <3> QED
            BY <3>1, CommitOnLine, Zenon
    <2> QED
        BY <1>3, <2>1, <2>2, <2>3, <2>4, <2>5, Zenon DEF Keyboard
<1> QED
    BY <1>1, <1>2, <1>3, Zenon DEF EditLayout

LEMMA StepOnLine ==
    ASSUME LayoutOK, LayoutOK', [Next]_vars
    PROVE  OnLine
<1>1. CASE EditLayout
    BY <1>1, EditOnLine, Zenon
<1>2. CASE OpenReview
    BY <1>2, CopiesOnLine, Zenon DEF OpenReview
<1>3. CASE UNCHANGED layout
    <2>1. UNCHANGED <<fields, past, future>>
        BY <1>3 DEF layout
    <2> QED
        BY <2>1, RestOnLine, Zenon
<1>4. CASE Drag
    <2>1. UNCHANGED <<past, future, clipboard, held, resizing>>
        BY <1>4, Zenon DEF Drag, PointerMoves
    <2>2. UNCHANGED <<past, future>>
        BY <2>1
    <2> QED
        BY <2>2, DragIsDrag, Zenon DEF OnLine
<1>5. CASE Release
    <2>1. UNCHANGED <<fields, past, future, clipboard, slipped>>
        BY <1>5, Zenon DEF Release, EndGesture
    <2>2. UNCHANGED <<fields, past, future>>
        BY <2>1
    <2> QED
        BY <2>2, RestOnLine, Zenon
<1>6. EditLayout \/ Drag \/ Release \/ OpenReview \/ UNCHANGED layout
    <2>1. CASE UNCHANGED vars
        BY <2>1, Zenon DEF vars
    <2>2. CASE Next
        <3>1. /\ \A i \in Rows1, email \in Addresses : SetEmail(i, email) => UNCHANGED layout
              /\ \A i \in Rows1, role \in {"signer", "cc"} : SetRole(i, role) => UNCHANGED layout
              /\ AddRecipient => UNCHANGED layout
              /\ \A i \in Rows1 : RemoveRecipient(i) => UNCHANGED layout
            BY Zenon DEF SetEmail, SetRole, AddRecipient, RemoveRecipient, ChangeRecipients
        <3>2. GoToFields \/ GoToSetup \/ SaveFromMenu \/ KeepEditing \/ SendNow => UNCHANGED layout
            BY Zenon DEF GoToFields, GoToSetup, SaveFromMenu, KeepEditing, SendNow
        <3>3. /\ \A boxes \in saves : LateSaveLands(boxes) => UNCHANGED layout
              /\ \A boxes \in Foreign : ColleagueSaves(boxes) => UNCHANGED layout
            BY Zenon DEF LateSaveLands, ColleagueSaves
        <3>4. \A s \in sends :
                SaveLands(s) \/ SaveFails(s) \/ SaveRefused(s) \/ Post(s) \/ PostLost(s)
                    => UNCHANGED layout
            BY Zenon DEF SaveLands, SaveFails, SaveRefused, Post, PostLost
        <3> QED
            BY <2>2, <3>1, <3>2, <3>3, <3>4, Zenon DEF Next
    <2> QED
        BY <2>1, <2>2
<1> QED
    BY <1>1, <1>2, <1>3, <1>4, <1>5, <1>6, Zenon

LEMMA LineInit == Init => Timeline!Init
<1> SUFFICES ASSUME Init
             PROVE  Timeline!Init
    OBVIOUS
<1>1. LayoutOK
    BY InitTypeOK, Zenon DEF TypeOK
<1>2. past = <<>> /\ future = <<>>
    BY Zenon DEF Init, LayoutInit
<1>3. Len(past) = 0 /\ Len(future) = 0
    BY <1>2
<1>4. fields \in Drawn /\ past \in Seq(Drawn) /\ future \in Seq(Drawn)
    BY <1>1, DrawnFacts, Zenon
<1>5. Len(past \o <<fields>> \o future) = Len(past) + 1 + Len(future)
    <2>1. IsLine(past \o <<fields>> \o future, past, fields, future)
        BY <1>4, LineFacts, Zenon
    <2> QED
        BY <2>1, Zenon DEF IsLine
<1> QED
    BY <1>3, <1>5 DEF Timeline!Init

LEMMA LineStep ==
    ASSUME OnLine
    PROVE  [Timeline!Next]_(Timeline!vars)
<1>1. /\ Line = past \o <<fields>> \o future /\ At = Len(past) + 1
      /\ Line' = (past \o <<fields>> \o future)' /\ At' = (Len(past) + 1)'
    BY Zenon DEF Line, At
<1>2. CASE At > 1 /\ At' = At - 1 /\ Line' = Line
    BY <1>1, <1>2, Zenon DEF Timeline!Next, Timeline!Back
<1>3. CASE At < Len(Line) /\ At' = At + 1 /\ Line' = Line
    BY <1>1, <1>3, Zenon DEF Timeline!Next, Timeline!Forth
<1>4. CASE \E oldest \in 1 .. At :
                /\ Line' = Append(SubSeq(Line, oldest, At), Line'[At'])
                /\ Len(Line') <= HISTORY_LIMIT + 1 + 1
                /\ oldest = 1 \/ Len(Line') = HISTORY_LIMIT + 1 + 1
                /\ At' = Len(Line')
    BY <1>1, <1>4, Zenon DEF Timeline!Next, Timeline!Edit
<1>5. CASE Line' = [Line EXCEPT ![At] = Line'[At']] /\ At' = At
    BY <1>1, <1>5, Zenon DEF Timeline!Next, Timeline!Drag
<1>6. CASE Line' = Line /\ At' = At
    BY <1>1, <1>6, Zenon DEF Timeline!vars
<1> QED
    BY <1>2, <1>3, <1>4, <1>5, <1>6, Zenon DEF OnLine

-----------------------------------------------------------------------------
(* The theorems.                                                           *)

LEMMA InitIInv == Init => IInv
<1> SUFFICES ASSUME Init
             PROVE  IInv
    OBVIOUS
<1>1. TypeOK
    BY InitTypeOK, Zenon
<1>2. review = "closed" /\ sends = {} /\ answer = <<>>
    BY Zenon DEF Init
<1>3. SendsInStep
    BY <1>2, Zenon DEF SendsInStep
<1>4. ReviewInStep
    <2>1. review \notin {"review", "sending"}
        BY <1>2
    <2> QED
        BY <2>1, Zenon DEF ReviewInStep
<1>5. EnvelopeSound /\ RefusalsExplained
    <2>1. ToSet(answer) = {}
        BY <1>2 DEF ToSet
    <2> QED
        BY <2>1, Zenon DEF EnvelopeSound, RefusalsExplained
<1> QED
    BY <1>1, <1>3, <1>4, <1>5, Zenon DEF IInv

\* Preparing and sending: the invariant the theorems below rest on (editor.tsx,
\* send-review.tsx, signature-requests.service.ts:56-82).
THEOREM Invariance == Spec => []IInv
<1>1. IInv /\ [Next]_vars => IInv'
    <2> SUFFICES ASSUME IInv, [Next]_vars
                 PROVE  IInv'
        OBVIOUS
    <2>1. CASE Next
        <3>1. \A s \in sends : Post(s) \/ PostLost(s) => IInv'
            BY PostKeepsInv, Zenon
        <3>2. \A s \in sends : SaveLands(s) => IInv'
            BY SaveLandsKeepsInv, Zenon
        <3>3. \A s \in sends : SaveFails(s) \/ SaveRefused(s) => IInv'
            BY SaveFailsKeepsInv, SaveRefusedKeepsInv, Zenon
        <3>4. /\ \A i \in Rows1, email \in Addresses : SetEmail(i, email) => IInv'
              /\ \A i \in Rows1, role \in {"signer", "cc"} : SetRole(i, role) => IInv'
              /\ AddRecipient => IInv'
              /\ \A i \in Rows1 : RemoveRecipient(i) => IInv'
              /\ GoToFields \/ GoToSetup \/ Release => IInv'
              /\ EditLayout \/ Drag => IInv'
            BY ScreenKeepsInv, Zenon
        <3>5. /\ SaveFromMenu => IInv'
              /\ \A boxes \in saves : LateSaveLands(boxes) => IInv'
              /\ \A boxes \in Foreign : ColleagueSaves(boxes) => IInv'
            BY SavesKeepInv, Zenon
        <3>6. OpenReview \/ KeepEditing \/ SendNow => IInv'
            BY ReviewKeepsInv, SendNowKeepsInv, Zenon
        <3> QED
            BY <2>1, <3>1, <3>2, <3>3, <3>4, <3>5, <3>6, Zenon DEF Next
    <2>2. CASE UNCHANGED vars
        <3>1. UNCHANGED <<layout, people, review, touched, template, saves, sends, answer, events>>
            BY <2>2 DEF vars, calls
        <3>2. TypeOK /\ SendsInStep /\ ReviewInStep /\ EnvelopeSound /\ RefusalsExplained
            BY InvParts, Zenon
        <3>3. /\ UNCHANGED <<layout, people, touched>> /\ UNCHANGED <<template, sends, answer, review>>
              /\ UNCHANGED events /\ UNCHANGED review
            BY <3>1
        <3>4. /\ review' \in {"closed", "review", "sending", "sent"}
              /\ Storable(template') /\ saves' \subseteq Drawn /\ sends' \subseteq Sends
              /\ answer' \in Seq(Answers) /\ Len(answer') <= 1
            BY <3>1, <3>2, TypeParts
        <3>5. TypeOK'
            BY <3>2, <3>3, <3>4, CallsTypeOK, Zenon
        <3>6. ReviewInStep'
            BY <3>2, <3>3, ReviewStays, Zenon
        <3> QED
            BY <3>2, <3>3, <3>5, <3>6, NothingSent, Zenon DEF IInv
    <2> QED
        BY <2>1, <2>2
<1> QED
    BY <1>1, InitIInv, PTL DEF Spec

\* Every box on screen, in the history, pasted, saved or sent has an identity of
\* its own; none leaves the page, whatever is edited, undone or pasted while a
\* pointer holds it, before a move meets another box than the one the pointer
\* took hold of; and whatever the API keeps is on the page in any case
\* (editor.tsx:270-272, pdf-page.tsx:137-152, contracts/src/index.ts:664-685).
THEOREM TypeCorrect == Spec => []TypeOK
<1>1. IInv => TypeOK
    BY Zenon DEF IInv
<1> QED
    BY <1>1, Invariance, PTL

\* An envelope is what was on the screen unless another save came between, and
\* every signer on it has a box of their own (editor.tsx:307,
\* signature-requests.service.ts:56-82).
THEOREM EnvelopesAreSound == Spec => []EnvelopeSound
<1>1. IInv => EnvelopeSound
    BY Zenon DEF IInv
<1> QED
    BY <1>1, Invariance, PTL

\* A careful sender whom nobody interferes with is refused only for an address
\* the editor passes and the API does not, or for a layout with a box off the
\* page or a blank option (recipients.ts:48-50, contracts/src/index.ts:287 and
\* 664-685, signature-requests.service.ts:57-59).
THEOREM RefusalsHaveCauses == Spec => []RefusalsExplained
<1>1. IInv => RefusalsExplained
    BY Zenon DEF IInv
<1> QED
    BY <1>1, Invariance, PTL

\* Undo and redo walk one line of versions: an edit forgets what was undone and
\* the oldest versions when the line is full, and no other step loses or changes
\* one (editor.tsx:90-150).
THEOREM UndoWalksOneLine == Spec => KeepsTimeline
<1>1. Init => Timeline!Init
    BY LineInit, Zenon
<1>2. IInv /\ IInv' /\ [Next]_vars => [Timeline!Next]_(Timeline!vars)
    <2> SUFFICES ASSUME IInv, IInv', [Next]_vars
                 PROVE  [Timeline!Next]_(Timeline!vars)
        OBVIOUS
    <2>1. LayoutOK /\ LayoutOK'
        BY Zenon DEF IInv, TypeOK
    <2>2. OnLine
        BY <2>1, StepOnLine, Zenon
    <2> QED
        BY <2>2, LineStep, Zenon
<1> QED
    BY <1>1, <1>2, Invariance, PTL DEF Spec, KeepsTimeline, Timeline!Spec

=============================================================================
