----------------------------- MODULE JobFormProofs -----------------------------
(***************************************************************************)
(* The mapping table of the form for any rows, types, parameters and order *)
(* of events: its types, that what it posts is what it shows but for the   *)
(* Required boxes, who may type where, what the code editor writes to, and *)
(* that it is the owner's list.                                            *)
(***************************************************************************)
EXTENDS JobForm, FiniteSetTheorems, SequenceTheorems, TLAPS

-----------------------------------------------------------------------------
(* Sequences *)

\* A sequence without its element at i.
LEMMA RemoveAtIsShorter ==
    ASSUME NEW S, NEW s \in Seq(S), NEW i \in 1 .. Len(s)
    PROVE  /\ RemoveAt(s, i) \in Seq(S)
           /\ Len(RemoveAt(s, i)) = Len(s) - 1
           /\ \A p \in 1 .. Len(s) - 1 : RemoveAt(s, i)[p] = IF p < i THEN s[p] ELSE s[p + 1]
<1> DEFINE left == SubSeq(s, 1, i - 1)
           right == SubSeq(s, i + 1, Len(s))
<1>1. left \in Seq(S) /\ Len(left) = i - 1 /\ \A p \in 1 .. i - 1 : left[p] = s[p]
    <2>1. \A p \in 1 .. i - 1 : s[p] \in S
        BY ElementOfSeq
    <2> QED
        BY <2>1, SubSeqProperties
<1>2. right \in Seq(S) /\ Len(right) = Len(s) - i /\ \A p \in 1 .. Len(s) - i : right[p] = s[i + p]
    <2>1. \A p \in i + 1 .. Len(s) : s[p] \in S
        BY ElementOfSeq
    <2> QED
        BY <2>1, SubSeqProperties
<1>3. RemoveAt(s, i) = left \o right
    BY DEF RemoveAt
<1> HIDE DEF left, right
<1>4. /\ left \o right \in Seq(S) /\ Len(left \o right) = Len(left) + Len(right)
      /\ \A p \in 1 .. Len(left) + Len(right) :
            (left \o right)[p] = IF p <= Len(left) THEN left[p] ELSE right[p - Len(left)]
    BY <1>1, <1>2, ConcatProperties, Zenon
<1> QED
    BY <1>1, <1>2, <1>3, <1>4

\* A sequence with e put before its element at i.
LEMMA InsertAtIsLonger ==
    ASSUME NEW S, NEW s \in Seq(S), NEW i \in 1 .. Len(s) + 1, NEW e \in S
    PROVE  /\ InsertAt(s, i, e) \in Seq(S)
           /\ Len(InsertAt(s, i, e)) = Len(s) + 1
           /\ \A p \in 1 .. Len(s) + 1 :
                 InsertAt(s, i, e)[p] = IF p < i THEN s[p] ELSE IF p = i THEN e ELSE s[p - 1]
<1> DEFINE left == SubSeq(s, 1, i - 1)
           right == SubSeq(s, i, Len(s))
           front == left \o <<e>>
<1>1. left \in Seq(S) /\ Len(left) = i - 1 /\ \A p \in 1 .. i - 1 : left[p] = s[p]
    <2>1. \A p \in 1 .. i - 1 : s[p] \in S
        BY ElementOfSeq
    <2> QED
        BY <2>1, SubSeqProperties
<1>2. /\ right \in Seq(S) /\ Len(right) = Len(s) - i + 1
      /\ \A p \in 1 .. Len(s) - i + 1 : right[p] = s[i + p - 1]
    <2>1. \A p \in i .. Len(s) : s[p] \in S
        BY ElementOfSeq
    <2> QED
        BY <2>1, SubSeqProperties
<1>3. InsertAt(s, i, e) = front \o right
    BY DEF InsertAt
<1> HIDE DEF left, right
<1>4. /\ front \in Seq(S) /\ Len(front) = i
      /\ \A p \in 1 .. i : front[p] = IF p < i THEN s[p] ELSE e
    <2>1. <<e>> \in Seq(S) /\ Len(<<e>>) = 1 /\ <<e>>[1] = e
        OBVIOUS
    <2> QED
        BY <1>1, <2>1, ConcatProperties
<1> HIDE DEF front
<1>5. /\ front \o right \in Seq(S) /\ Len(front \o right) = Len(front) + Len(right)
      /\ \A p \in 1 .. Len(front) + Len(right) :
            (front \o right)[p] = IF p <= Len(front) THEN front[p] ELSE right[p - Len(front)]
    BY <1>2, <1>4, ConcatProperties, Zenon
<1> QED
    BY <1>2, <1>3, <1>4, <1>5

\* The element at p of four sequences one after the other.
OfFour(a, b, c, d, p) ==
    IF p <= Len(a) THEN a[p]
    ELSE IF p <= Len(a) + Len(b) THEN b[p - Len(a)]
    ELSE IF p <= Len(a) + Len(b) + Len(c) THEN c[p - Len(a) - Len(b)]
    ELSE d[p - Len(a) - Len(b) - Len(c)]

\* Four sequences one after the other.
LEMMA FourInARow ==
    ASSUME NEW S, NEW a \in Seq(S), NEW b \in Seq(S), NEW c \in Seq(S), NEW d \in Seq(S)
    PROVE  /\ a \o b \o c \o d \in Seq(S)
           /\ Len(a \o b \o c \o d) = Len(a) + Len(b) + Len(c) + Len(d)
           /\ \A p \in 1 .. Len(a) + Len(b) + Len(c) + Len(d) :
                 (a \o b \o c \o d)[p] = OfFour(a, b, c, d, p)
<1> DEFINE ab == a \o b
           abc == ab \o c
<1>0. /\ Len(a) \in Nat /\ Len(b) \in Nat /\ Len(c) \in Nat /\ Len(d) \in Nat
    BY LenProperties
<1>1. /\ ab \in Seq(S) /\ Len(ab) = Len(a) + Len(b)
      /\ \A p \in 1 .. Len(a) + Len(b) : ab[p] = IF p <= Len(a) THEN a[p] ELSE b[p - Len(a)]
    BY ConcatProperties, Zenon
<1> HIDE DEF ab
<1>2. /\ abc \in Seq(S) /\ Len(abc) = Len(ab) + Len(c)
      /\ \A p \in 1 .. Len(ab) + Len(c) : abc[p] = IF p <= Len(ab) THEN ab[p] ELSE c[p - Len(ab)]
    <2>1. ab \in Seq(S)
        BY <1>1
    <2> QED
        BY <2>1, ConcatProperties, Zenon
<1> HIDE DEF abc
<1>3. /\ abc \o d \in Seq(S) /\ Len(abc \o d) = Len(abc) + Len(d)
      /\ \A p \in 1 .. Len(abc) + Len(d) :
            (abc \o d)[p] = IF p <= Len(abc) THEN abc[p] ELSE d[p - Len(abc)]
    <2>1. abc \in Seq(S)
        BY <1>2
    <2> QED
        BY <2>1, ConcatProperties, Zenon
<1>4. a \o b \o c \o d = abc \o d
    BY DEF abc, ab
<1> QED
    BY <1>0, <1>1, <1>2, <1>3, <1>4 DEF OfFour

\* What DOM's insertBefore does: one element gets another place, those in between
\* move up or down by one.
LEMMA InsertBeforeMoves ==
    ASSUME NEW S, NEW s \in Seq(S), NEW i \in 1 .. Len(s), NEW k \in 1 .. Len(s) + 1
    PROVE  LET to == IF i < k THEN k - 1 ELSE k
           IN  /\ InsertBefore(s, i, k) \in Seq(S)
               /\ Len(InsertBefore(s, i, k)) = Len(s)
               /\ \A p \in 1 .. Len(s) :
                     InsertBefore(s, i, k)[p] =
                         IF p = to THEN s[i]
                         ELSE IF i <= p /\ p < to THEN s[p + 1]
                         ELSE IF to < p /\ p <= i THEN s[p - 1]
                         ELSE s[p]
<1>0. Len(s) \in Nat /\ \A p \in 1 .. Len(s) : s[p] \in S
    BY ElementOfSeq, LenProperties
<1> DEFINE e == <<s[i]>>
<1>1. e \in Seq(S) /\ Len(e) = 1 /\ e[1] = s[i]
    BY <1>0
<1>2. ASSUME NEW m \in Int, NEW n \in Int, 1 <= m, n <= Len(s), m <= n + 1
      PROVE  /\ SubSeq(s, m, n) \in Seq(S)
             /\ Len(SubSeq(s, m, n)) = n - m + 1
             /\ \A p \in 1 .. n - m + 1 : SubSeq(s, m, n)[p] = s[m + p - 1]
    <2>1. \A p \in m .. n : s[p] \in S
        BY <1>0, <1>2
    <2>2. /\ SubSeq(s, m, n) \in Seq(S)
          /\ Len(SubSeq(s, m, n)) = IF m <= n THEN n - m + 1 ELSE 0
          /\ \A p \in 1 .. n - m + 1 : SubSeq(s, m, n)[p] = s[m + p - 1]
        BY <2>1, SubSeqProperties
    <2> QED
        BY <1>2, <2>2
<1>3. CASE i < k
    <2> DEFINE a == SubSeq(s, 1, i - 1)
               b == SubSeq(s, i + 1, k - 1)
               d == SubSeq(s, k, Len(s))
               moved == a \o b \o e \o d
    <2>1. a \in Seq(S) /\ Len(a) = i - 1 /\ \A p \in 1 .. i - 1 : a[p] = s[p]
        BY <1>0, <1>2
    <2>2. b \in Seq(S) /\ Len(b) = k - i - 1 /\ \A p \in 1 .. k - i - 1 : b[p] = s[i + p]
        BY <1>0, <1>2, <1>3
    <2>3. d \in Seq(S) /\ Len(d) = Len(s) - k + 1 /\ \A p \in 1 .. Len(s) - k + 1 : d[p] = s[k + p - 1]
        BY <1>0, <1>2
    <2>4. InsertBefore(s, i, k) = moved
        BY <1>3 DEF InsertBefore
    <2> HIDE DEF a, b, d, e
    <2>5. /\ moved \in Seq(S)
          /\ Len(moved) = Len(a) + Len(b) + Len(e) + Len(d)
          /\ \A p \in 1 .. Len(a) + Len(b) + Len(e) + Len(d) :
                moved[p] = OfFour(a, b, e, d, p)
        <3>1. a \in Seq(S) /\ b \in Seq(S) /\ d \in Seq(S) /\ e \in Seq(S)
            BY <1>1, <2>1, <2>2, <2>3
        <3> QED
            BY <3>1, FourInARow
    <2> HIDE DEF moved
    <2>6. Len(moved) = Len(s)
        <3>1. Len(moved) = Len(a) + Len(b) + Len(e) + Len(d)
            BY <2>5
        <3>2. Len(a) \in Nat /\ Len(b) \in Nat /\ Len(d) \in Nat /\ i \in Int /\ k \in Int
            BY <1>0, <2>1, <2>2, <2>3, LenProperties
        <3> QED
            BY <1>0, <1>1, <1>3, <2>1, <2>2, <2>3, <3>1, <3>2
    <2>7. ASSUME NEW p \in 1 .. Len(s)
          PROVE  moved[p] = IF p = k - 1 THEN s[i]
                            ELSE IF i <= p /\ p < k - 1 THEN s[p + 1] ELSE s[p]
        <3>1. moved[p] = OfFour(a, b, e, d, p)
            BY <2>5, <2>6
        <3>2. CASE p < i
            BY <1>0, <1>3, <2>1, <3>1, <3>2 DEF OfFour
        <3>3. CASE i <= p /\ p < k - 1
            BY <1>0, <1>3, <2>1, <2>2, <3>1, <3>3 DEF OfFour
        <3>4. CASE p = k - 1
            BY <1>0, <1>1, <1>3, <2>1, <2>2, <3>1, <3>4 DEF OfFour
        <3>5. CASE k <= p
            BY <1>0, <1>1, <1>3, <2>1, <2>2, <2>3, <3>1, <3>5 DEF OfFour
        <3> QED
            BY <1>0, <1>3, <3>2, <3>3, <3>4, <3>5
    <2> QED
        BY <1>0, <1>3, <2>4, <2>5, <2>6, <2>7
<1>4. CASE k <= i
    <2> DEFINE a == SubSeq(s, 1, k - 1)
               b == SubSeq(s, k, i - 1)
               d == SubSeq(s, i + 1, Len(s))
               moved == a \o e \o b \o d
    <2>1. a \in Seq(S) /\ Len(a) = k - 1 /\ \A p \in 1 .. k - 1 : a[p] = s[p]
        BY <1>0, <1>2
    <2>2. b \in Seq(S) /\ Len(b) = i - k /\ \A p \in 1 .. i - k : b[p] = s[k + p - 1]
        BY <1>0, <1>2, <1>4
    <2>3. d \in Seq(S) /\ Len(d) = Len(s) - i /\ \A p \in 1 .. Len(s) - i : d[p] = s[i + p]
        BY <1>0, <1>2
    <2>4. InsertBefore(s, i, k) = moved
        <3>1. i \in Int /\ k \in Int /\ ~ (i < k)
            BY <1>0, <1>4
        <3> QED
            BY <3>1, Zenon DEF InsertBefore
    <2> HIDE DEF a, b, d, e
    <2>5. /\ moved \in Seq(S)
          /\ Len(moved) = Len(a) + Len(e) + Len(b) + Len(d)
          /\ \A p \in 1 .. Len(a) + Len(e) + Len(b) + Len(d) :
                moved[p] = OfFour(a, e, b, d, p)
        <3>1. a \in Seq(S) /\ b \in Seq(S) /\ d \in Seq(S) /\ e \in Seq(S)
            BY <1>1, <2>1, <2>2, <2>3
        <3> QED
            BY <3>1, FourInARow
    <2> HIDE DEF moved
    <2>6. Len(moved) = Len(s)
        <3>1. Len(moved) = Len(a) + Len(e) + Len(b) + Len(d)
            BY <2>5
        <3>2. Len(a) \in Nat /\ Len(b) \in Nat /\ Len(d) \in Nat /\ i \in Int /\ k \in Int
            BY <1>0, <2>1, <2>2, <2>3, LenProperties
        <3> QED
            BY <1>0, <1>1, <1>4, <2>1, <2>2, <2>3, <3>1, <3>2
    <2>7. ASSUME NEW p \in 1 .. Len(s)
          PROVE  moved[p] = IF p = k THEN s[i] ELSE IF k < p /\ p <= i THEN s[p - 1] ELSE s[p]
        <3>1. moved[p] = OfFour(a, e, b, d, p)
            BY <2>5, <2>6
        <3>2. CASE p < k
            BY <1>0, <1>4, <2>1, <3>1, <3>2 DEF OfFour
        <3>3. CASE p = k
            BY <1>0, <1>1, <1>4, <2>1, <3>1, <3>3 DEF OfFour
        <3>4. CASE k < p /\ p <= i
            BY <1>0, <1>1, <1>4, <2>1, <2>2, <3>1, <3>4 DEF OfFour
        <3>5. CASE i < p
            BY <1>0, <1>1, <1>4, <2>1, <2>2, <2>3, <3>1, <3>5 DEF OfFour
        <3> QED
            BY <1>0, <1>4, <3>2, <3>3, <3>4, <3>5
    <2> QED
        BY <1>0, <1>4, <2>4, <2>5, <2>6, <2>7
<1> QED
    BY <1>0, <1>3, <1>4

-----------------------------------------------------------------------------
(* What the script does to the rows *)

Distinct(s) == \A i, j \in DOMAIN s : s[i].node = s[j].node => i = j
Indexed(s) == \A i \in DOMAIN s : s[i].index = i - 1 /\ s[i].order = i - 1
ItemsOf(s) == [i \in DOMAIN s |-> Item(s[i])]
Accessible(s) ==
    \A i \in DOMAIN s : s[i].button = IsCustom(s[i]) /\ s[i].readOnly = IsCustom(s[i])

\* setRowIndexing numbers the rows and leaves the rest of them alone.
LEMMA IndexingNumbers ==
    ASSUME NEW s \in Seq(Row)
    PROVE  /\ SetRowIndexing(s) \in Seq(Row)
           /\ DOMAIN SetRowIndexing(s) = DOMAIN s
           /\ Len(SetRowIndexing(s)) = Len(s)
           /\ Indexed(SetRowIndexing(s))
           /\ \A i \in DOMAIN s :
                 /\ SetRowIndexing(s)[i].node = s[i].node
                 /\ SetRowIndexing(s)[i].type = s[i].type
                 /\ SetRowIndexing(s)[i].parameter = s[i].parameter
                 /\ SetRowIndexing(s)[i].isRequired = s[i].isRequired
                 /\ SetRowIndexing(s)[i].button = s[i].button
                 /\ SetRowIndexing(s)[i].readOnly = s[i].readOnly
<1>1. Len(s) \in Nat /\ DOMAIN s = 1 .. Len(s) /\ \A i \in 1 .. Len(s) : s[i] \in Row
    BY ElementOfSeq, LenProperties
<1> DEFINE numbered(i) == [s[i] EXCEPT !.index = i - 1, !.order = i - 1]
<1>0. \A i \in 1 .. Len(s) : i - 1 \in Nat
    BY <1>1
<1>2. \A i \in 1 .. Len(s) :
         /\ numbered(i) \in Row
         /\ numbered(i).index = i - 1 /\ numbered(i).order = i - 1
         /\ numbered(i).node = s[i].node /\ numbered(i).type = s[i].type
         /\ numbered(i).parameter = s[i].parameter
         /\ numbered(i).isRequired = s[i].isRequired
         /\ numbered(i).button = s[i].button /\ numbered(i).readOnly = s[i].readOnly
    BY <1>0, <1>1 DEF Row
<1>3. SetRowIndexing(s) = [i \in 1 .. Len(s) |-> numbered(i)]
    BY <1>1 DEF SetRowIndexing
<1> HIDE DEF numbered
<1>4. SetRowIndexing(s) \in Seq(Row) /\ DOMAIN SetRowIndexing(s) = 1 .. Len(s)
    BY <1>1, <1>2, <1>3, IsASeq
<1>5. Len(SetRowIndexing(s)) = Len(s)
    BY <1>1, <1>4, LenProperties
<1>6. \A i \in 1 .. Len(s) : SetRowIndexing(s)[i] = numbered(i)
    BY <1>3
<1>7. Indexed(SetRowIndexing(s))
    BY <1>2, <1>4, <1>6 DEF Indexed
<1> QED
    BY <1>1, <1>2, <1>4, <1>5, <1>6, <1>7

\* checkCustomExpressionSelection sets what follows from the types, and no more.
LEMMA SelectionOpens ==
    ASSUME NEW s \in Seq(Row)
    PROVE  /\ SetAccess(s) \in Seq(Row)
           /\ DOMAIN SetAccess(s) = DOMAIN s
           /\ Len(SetAccess(s)) = Len(s)
           /\ Accessible(SetAccess(s))
           /\ \A i \in DOMAIN s :
                 /\ SetAccess(s)[i].node = s[i].node
                 /\ SetAccess(s)[i].type = s[i].type
                 /\ SetAccess(s)[i].parameter = s[i].parameter
                 /\ SetAccess(s)[i].isRequired = s[i].isRequired
                 /\ SetAccess(s)[i].index = s[i].index
                 /\ SetAccess(s)[i].order = s[i].order
<1>1. Len(s) \in Nat /\ DOMAIN s = 1 .. Len(s) /\ \A i \in 1 .. Len(s) : s[i] \in Row
    BY ElementOfSeq, LenProperties
<1> DEFINE open(i) == [s[i] EXCEPT !.button = IsCustom(s[i]), !.readOnly = IsCustom(s[i])]
<1>2. \A i \in 1 .. Len(s) : IsCustom(s[i]) \in BOOLEAN
    BY DEF IsCustom
<1>3. \A i \in 1 .. Len(s) :
         /\ open(i) \in Row
         /\ open(i).node = s[i].node /\ open(i).type = s[i].type
         /\ open(i).parameter = s[i].parameter
         /\ open(i).isRequired = s[i].isRequired
         /\ open(i).index = s[i].index /\ open(i).order = s[i].order
         /\ open(i).button = IsCustom(s[i]) /\ open(i).readOnly = IsCustom(s[i])
    BY <1>1, <1>2 DEF Row
<1>4. SetAccess(s) = [i \in 1 .. Len(s) |-> open(i)]
    BY <1>1 DEF SetAccess
<1> HIDE DEF open
<1>5. SetAccess(s) \in Seq(Row) /\ DOMAIN SetAccess(s) = 1 .. Len(s)
    BY <1>1, <1>3, <1>4, IsASeq
<1>6. Len(SetAccess(s)) = Len(s)
    BY <1>1, <1>5, LenProperties
<1>7. \A i \in 1 .. Len(s) : SetAccess(s)[i] = open(i)
    BY <1>4
<1>8. \A i \in 1 .. Len(s) : IsCustom(SetAccess(s)[i]) = IsCustom(s[i])
    BY <1>3, <1>7 DEF IsCustom
<1>9. Accessible(SetAccess(s))
    BY <1>3, <1>5, <1>7, <1>8 DEF Accessible
<1> QED
    BY <1>1, <1>3, <1>5, <1>6, <1>7, <1>9

\* What a POST leaves of a row.
LEMMA PostedItem ==
    ASSUME NEW m
    PROVE  Posted(Item(m)) = [type |-> m.type, parameter |-> m.parameter, isRequired |-> FALSE]
<1>1. \A f : [Item(m) EXCEPT !.isRequired = f]
             = [type |-> m.type, parameter |-> m.parameter, isRequired |-> f]
    BY DEF Item
<1> QED
    BY <1>1, Zenon DEF Posted

\* The model binder finds the rows of an indexed table, all of them and in order; of
\* their boxes it hears the hidden FALSE.
MappingsOf(s) ==
    [i \in DOMAIN s |-> [order |-> s[i].order, type |-> s[i].type, parameter |-> s[i].parameter,
                         isRequired |-> FALSE]]

LEMMA BindReadsRows ==
    ASSUME NEW s \in Seq(Row), Indexed(s)
    PROVE  /\ Bind(s) = MappingsOf(s)
           /\ Bind(s) \in Seq(Mapping)
           /\ Len(Bind(s)) = Len(s)
           /\ \A i \in 1 .. Len(s) :
                 /\ Bind(s)[i].order = i - 1
                 /\ Item(Bind(s)[i]) = Posted(Item(s[i]))
<1>1. Len(s) \in Nat /\ DOMAIN s = 1 .. Len(s) /\ \A i \in 1 .. Len(s) : s[i] \in Row
    BY ElementOfSeq, LenProperties
<1>2. \A k \in Nat : HasIndex(s, k) <=> k < Len(s)
    <2>1. ASSUME NEW k \in Nat, k < Len(s)
          PROVE  HasIndex(s, k)
        <3>1. k + 1 \in DOMAIN s /\ s[k + 1].index = k
            BY <1>1, <2>1 DEF Indexed
        <3> QED
            BY <3>1 DEF HasIndex
    <2>2. ASSUME NEW k \in Nat, HasIndex(s, k)
          PROVE  k < Len(s)
        BY <1>1, <2>2 DEF HasIndex, Indexed
    <2> QED
        BY <2>1, <2>2
<1>3. BoundLength(s) = Len(s)
    <2> DEFINE Holds(n) == ~ HasIndex(s, n) /\ \A k \in 0 .. n - 1 : HasIndex(s, k)
    <2>1. Len(s) \in 0 .. Len(s) /\ Holds(Len(s))
        BY <1>1, <1>2
    <2>2. ASSUME NEW n \in 0 .. Len(s), Holds(n)
          PROVE  n = Len(s)
        <3>1. n \in Nat /\ ~ HasIndex(s, n)
            BY <1>1, <2>2
        <3>2. ~ (n < Len(s))
            BY <1>2, <3>1
        <3>3. n <= Len(s) /\ Len(s) \in Nat
            BY <1>1
        <3> QED
            BY <3>1, <3>2, <3>3
    <2> HIDE DEF Holds
    <2> DEFINE c == CHOOSE n \in 0 .. Len(s) : Holds(n)
    <2>3. c \in 0 .. Len(s) /\ Holds(c)
        BY <2>1, Zenon
    <2> HIDE DEF c
    <2>4. c = Len(s)
        BY <2>2, <2>3
    <2> QED
        BY <2>4, Zenon DEF BoundLength, Holds, c
<1>4. \A k \in 1 .. Len(s) : FirstWith(s, k - 1) = k
    <2> SUFFICES ASSUME NEW k \in 1 .. Len(s)
                 PROVE  FirstWith(s, k - 1) = k
        OBVIOUS
    <2> DEFINE Holds(i) == s[i].index = k - 1 /\ \A j \in DOMAIN s : s[j].index = k - 1 => i <= j
    <2>1. k \in DOMAIN s /\ Holds(k)
        BY <1>1 DEF Indexed
    <2>2. \A i \in DOMAIN s : Holds(i) => i = k
        BY <1>1 DEF Indexed
    <2> HIDE DEF Holds
    <2>3. (CHOOSE i \in DOMAIN s : Holds(i)) = k
        BY <2>1, <2>2
    <2> QED
        BY <2>3 DEF FirstWith, Holds
<1> DEFINE mapping(i) == [order |-> s[i].order, type |-> s[i].type, parameter |-> s[i].parameter,
                          isRequired |-> FALSE]
<1>a. \A row : Head(RequiredInputs(row)) = FALSE
    <2>1. \A x, y : Head(<<x, y>>) = x /\ Head(<<x>>) = x
        OBVIOUS
    <2> QED
        BY <2>1, Zenon DEF RequiredInputs
<1>5. Bind(s) = [k \in 1 .. Len(s) |-> mapping(k)]
    BY <1>3, <1>4, <1>a DEF Bind
<1>6. \A i \in 1 .. Len(s) :
         mapping(i) \in Mapping /\ mapping(i).order = i - 1 /\ Item(mapping(i)) = Posted(Item(s[i]))
    <2> SUFFICES ASSUME NEW i \in 1 .. Len(s)
                 PROVE  /\ mapping(i) \in Mapping /\ mapping(i).order = i - 1
                        /\ Item(mapping(i)) = Posted(Item(s[i]))
        OBVIOUS
    <2>1. mapping(i) \in Mapping /\ mapping(i).order = i - 1
        BY <1>1 DEF Row, Mapping, Indexed
    <2>2. /\ mapping(i).type = s[i].type /\ mapping(i).parameter = s[i].parameter
          /\ mapping(i).isRequired = FALSE
        OBVIOUS
    <2> HIDE DEF mapping
    <2> QED
        BY <2>1, <2>2, PostedItem, Zenon DEF Item
<1>7. MappingsOf(s) = [k \in 1 .. Len(s) |-> mapping(k)]
    BY <1>1 DEF MappingsOf
<1> HIDE DEF mapping
<1>8. Bind(s) \in Seq(Mapping) /\ DOMAIN Bind(s) = 1 .. Len(s)
    BY <1>1, <1>5, <1>6, IsASeq
<1>9. Len(Bind(s)) = Len(s)
    BY <1>1, <1>8, LenProperties
<1> QED
    BY <1>5, <1>6, <1>7, <1>8, <1>9

\* Sorting by Order what has the orders 0, 1, ... already changes nothing.
LEMMA SortedStays ==
    ASSUME NEW b \in Seq(Mapping), \A i \in 1 .. Len(b) : b[i].order = i - 1
    PROVE  OrderBy(b) = b
<1>1. Len(b) \in Nat /\ DOMAIN b = 1 .. Len(b)
    BY LenProperties
<1>2. \A i \in 1 .. Len(b) : Rank(b, i) = i
    <2> SUFFICES ASSUME NEW i \in 1 .. Len(b)
                 PROVE  Rank(b, i) = i
        OBVIOUS
    <2>1. {j \in DOMAIN b : b[j].order < b[i].order \/ (b[j].order = b[i].order /\ j <= i)} = 1 .. i
        BY <1>1
    <2>2. Cardinality(1 .. i) = i
        BY <1>1, FS_Interval
    <2> QED
        BY <2>1, <2>2 DEF Rank
<1> DEFINE pick(p) == CHOOSE i \in DOMAIN b : Rank(b, i) = p
<1>3. ASSUME NEW p \in 1 .. Len(b)
      PROVE  pick(p) = p
    <2>1. p \in DOMAIN b /\ Rank(b, p) = p
        BY <1>1, <1>2
    <2>2. pick(p) \in DOMAIN b /\ Rank(b, pick(p)) = p
        BY <2>1, Zenon
    <2> QED
        BY <1>1, <1>2, <2>2
<1>4. OrderBy(b) = [p \in 1 .. Len(b) |-> b[p]]
    <2>1. OrderBy(b) = [p \in DOMAIN b |-> b[pick(p)]]
        BY DEF OrderBy
    <2> HIDE DEF pick
    <2> QED
        BY <1>1, <1>3, <2>1
<1>5. b = [p \in 1 .. Len(b) |-> b[p]]
    BY <1>1
<1> QED
    BY <1>4, <1>5

-----------------------------------------------------------------------------
(* Tables *)

TableOK(s) == s \in Seq(Row) /\ Distinct(s) /\ Indexed(s) /\ s # <<>>

SameRow(r, q) ==
    /\ r.node = q.node /\ r.type = q.type
    /\ r.parameter = q.parameter /\ r.isRequired = q.isRequired
    /\ r.button = q.button /\ r.readOnly = q.readOnly

\* The elements of a sequence of rows are rows.
LEMMA RowsAreRows ==
    ASSUME NEW s \in Seq(Row)
    PROVE  Len(s) \in Nat /\ DOMAIN s = 1 .. Len(s) /\ \A i \in 1 .. Len(s) : s[i] \in Row
BY ElementOfSeq, LenProperties

\* Rows that are indexed make a table.
LEMMA IndexingMakesTable ==
    ASSUME NEW s \in Seq(Row), Distinct(s), s # <<>>
    PROVE  /\ TableOK(SetRowIndexing(s))
           /\ DOMAIN SetRowIndexing(s) = DOMAIN s
           /\ \A i \in DOMAIN s : SameRow(SetRowIndexing(s)[i], s[i])
<1> DEFINE t == SetRowIndexing(s)
<1>1. /\ t \in Seq(Row) /\ DOMAIN t = DOMAIN s /\ Len(t) = Len(s) /\ Indexed(t)
      /\ \A i \in DOMAIN s : SameRow(t[i], s[i])
    BY IndexingNumbers DEF SameRow
<1> HIDE DEF t
<1>2. Distinct(t)
    BY <1>1 DEF Distinct, SameRow
<1>3. t # <<>>
    BY <1>1, EmptySeq
<1> QED
    BY <1>1, <1>2, <1>3 DEF TableOK, t

\* A table stays one when access to its rows is set, and access follows the types.
LEMMA SelectionKeepsTable ==
    ASSUME NEW s, TableOK(s), CheckCustomExpressionSelection(s)
    PROVE  /\ TableOK(rows')
           /\ AccessFollowsType'
           /\ DOMAIN rows' = DOMAIN s
           /\ \A i \in DOMAIN s :
                 /\ rows'[i].node = s[i].node
                 /\ rows'[i].type = s[i].type
                 /\ rows'[i].parameter = s[i].parameter
                 /\ rows'[i].isRequired = s[i].isRequired
<1>1. s \in Seq(Row)
    BY DEF TableOK
<1>2. /\ rows' \in Seq(Row) /\ DOMAIN rows' = DOMAIN s /\ Len(rows') = Len(s)
      /\ Accessible(rows')
      /\ \A i \in DOMAIN s :
            /\ rows'[i].node = s[i].node
            /\ rows'[i].type = s[i].type
            /\ rows'[i].parameter = s[i].parameter
            /\ rows'[i].isRequired = s[i].isRequired
            /\ rows'[i].index = s[i].index
            /\ rows'[i].order = s[i].order
    BY <1>1, SelectionOpens DEF CheckCustomExpressionSelection
<1>3. Distinct(rows') /\ Indexed(rows')
    BY <1>2 DEF TableOK, Distinct, Indexed
<1>4. rows' # <<>>
    BY <1>1, <1>2, EmptySeq DEF TableOK
<1>5. \A i \in DOMAIN s : IsCustom(rows'[i]) = IsCustom(s[i])
    BY <1>2 DEF IsCustom
<1>6. help' = (\E i \in DOMAIN s : IsCustom(s[i]))
    BY DEF CheckCustomExpressionSelection
<1>7. help' = (\E i \in DOMAIN rows' : IsCustom(rows'[i]))
    BY <1>2, <1>5, <1>6, Zenon
<1>8. AccessFollowsType'
    BY <1>2, <1>7 DEF AccessFollowsType, Accessible
<1> QED
    BY <1>2, <1>3, <1>4, <1>8 DEF TableOK

\* A row of a new page or from the template.
LEMMA FreshRow ==
    ASSUME NEW node \in Nodes, NEW index \in Nat, NEW m \in Mapping
    PROVE  /\ Fresh(node, index, m) \in Row
           /\ Fresh(node, index, m).node = node
           /\ Fresh(node, index, m).type = m.type
           /\ Fresh(node, index, m).parameter = m.parameter
           /\ Fresh(node, index, m).isRequired = m.isRequired
           /\ Fresh(node, index, m).button = FALSE
           /\ Fresh(node, index, m).readOnly = FALSE
BY DEF Fresh, Row, Mapping

LEMMA BlankIsMapping == BlankMapping \in Mapping
BY TypesAssumption, BlankAssumption DEF BlankMapping, Mapping

\* Add Mapping leaves the rows that are there and puts a blank one below.
LEMMA AddingAppends ==
    ASSUME NEW s \in Seq(Row), Distinct(s), NEW node \in Nodes \ NodesOf(s)
    PROVE  LET t == AddMappingRow(s, node)
           IN  /\ TableOK(t)
               /\ Len(t) = Len(s) + 1
               /\ \A i \in 1 .. Len(s) : SameRow(t[i], s[i])
               /\ t[Len(s) + 1].node = node
               /\ t[Len(s) + 1].type = None
               /\ t[Len(s) + 1].parameter = Blank
               /\ t[Len(s) + 1].isRequired = FALSE
               /\ t[Len(s) + 1].button = FALSE
               /\ t[Len(s) + 1].readOnly = FALSE
<1>1. Len(s) \in Nat /\ DOMAIN s = 1 .. Len(s)
    BY RowsAreRows
<1> DEFINE new == Fresh(node, Len(s), BlankMapping)
           u == Append(s, new)
           t == SetRowIndexing(u)
<1>2. /\ new \in Row /\ new.node = node /\ new.type = None /\ new.parameter = Blank
      /\ new.isRequired = FALSE
      /\ new.button = FALSE /\ new.readOnly = FALSE
    <2>1. node \in Nodes /\ Len(s) \in Nat
        BY <1>1
    <2>2. /\ new \in Row /\ new.node = node
          /\ new.type = BlankMapping.type /\ new.parameter = BlankMapping.parameter
          /\ new.isRequired = BlankMapping.isRequired
          /\ new.button = FALSE /\ new.readOnly = FALSE
        BY <2>1, BlankIsMapping DEF Fresh, Row, Mapping
    <2>3. /\ BlankMapping.type = None /\ BlankMapping.parameter = Blank
          /\ BlankMapping.isRequired = FALSE
        BY DEF BlankMapping
    <2> QED
        BY <2>2, <2>3
<1> HIDE DEF new
<1>3. /\ u \in Seq(Row) /\ u # <<>> /\ Len(u) = Len(s) + 1
      /\ \A i \in 1 .. Len(s) : u[i] = s[i]
      /\ u[Len(s) + 1] = new
    BY <1>2, AppendProperties
<1> HIDE DEF u
<1>4. DOMAIN u = 1 .. Len(s) + 1
    BY <1>3, RowsAreRows
<1>5. \A i \in 1 .. Len(s) : s[i].node # node
    BY <1>1 DEF NodesOf
<1>6. Distinct(u)
    BY <1>1, <1>2, <1>3, <1>4, <1>5 DEF Distinct
<1>7. /\ TableOK(t) /\ DOMAIN t = DOMAIN u
      /\ \A i \in DOMAIN u : SameRow(t[i], u[i])
    BY <1>3, <1>6, IndexingMakesTable
<1>8. AddMappingRow(s, node) = t
    BY DEF AddMappingRow, t, u, new
<1> HIDE DEF t
<1>9. Len(t) = Len(s) + 1
    <2>1. t \in Seq(Row)
        BY <1>7 DEF TableOK
    <2> QED
        BY <1>1, <1>4, <1>7, <2>1, RowsAreRows
<1>10. \A i \in 1 .. Len(s) : SameRow(t[i], s[i])
    BY <1>1, <1>3, <1>4, <1>7
<1>11. SameRow(t[Len(s) + 1], new)
    BY <1>1, <1>3, <1>4, <1>7
<1> QED
    BY <1>2, <1>7, <1>8, <1>9, <1>10, <1>11 DEF SameRow

\* A row that is removed leaves the others as they were.
LEMMA RemovingKeepsRows ==
    ASSUME NEW s \in Seq(Row), Distinct(s), NEW i \in 1 .. Len(s), Len(s) # 1
    PROVE  RemoveAt(s, i) \in Seq(Row) /\ Distinct(RemoveAt(s, i)) /\ RemoveAt(s, i) # <<>>
<1> DEFINE t == RemoveAt(s, i)
<1>1. Len(s) \in Nat /\ DOMAIN s = 1 .. Len(s)
    BY RowsAreRows
<1>2. /\ t \in Seq(Row) /\ Len(t) = Len(s) - 1
      /\ \A p \in 1 .. Len(s) - 1 : t[p] = IF p < i THEN s[p] ELSE s[p + 1]
    BY RemoveAtIsShorter
<1> HIDE DEF t
<1>3. DOMAIN t = 1 .. Len(s) - 1
    BY <1>2, RowsAreRows
<1>4. Distinct(t)
    <2> SUFFICES ASSUME NEW p \in 1 .. Len(s) - 1, NEW q \in 1 .. Len(s) - 1, t[p].node = t[q].node
                 PROVE  p = q
        BY <1>3 DEF Distinct
    <2> DEFINE from(r) == IF r < i THEN r ELSE r + 1
    <2>1. from(p) \in DOMAIN s /\ from(q) \in DOMAIN s /\ t[p] = s[from(p)] /\ t[q] = s[from(q)]
        BY <1>1, <1>2
    <2>2. from(p) = from(q)
        <3> HIDE DEF from
        <3> QED
            BY <2>1 DEF Distinct
    <2> QED
        BY <1>1, <2>2
<1>5. t # <<>>
    BY <1>1, <1>2, EmptySeq
<1> QED
    BY <1>2, <1>4, <1>5 DEF t

\* Where the row at p was before the one at source was dropped on the one at target.
Before(source, target, p) ==
    IF p = target THEN source
    ELSE IF source <= p /\ p < target THEN p + 1
    ELSE IF target < p /\ p <= source THEN p - 1
    ELSE p

\* And where the row at q is after it.
After(source, target, q) ==
    IF q = source THEN target
    ELSE IF source < q /\ q <= target THEN q - 1
    ELSE IF target <= q /\ q < source THEN q + 1
    ELSE q

\* The two are inverse to each other.
LEMMA DropPermutes ==
    ASSUME NEW n \in Nat, NEW source \in 1 .. n, NEW target \in 1 .. n, NEW p \in 1 .. n
    PROVE  /\ Before(source, target, p) \in 1 .. n
           /\ After(source, target, p) \in 1 .. n
           /\ After(source, target, Before(source, target, p)) = p
           /\ Before(source, target, After(source, target, p)) = p
BY DEF Before, After

\* A dropped row takes the place of the one it is dropped on.
LEMMA PlaceMoves ==
    ASSUME NEW source \in 1 .. Len(rows), NEW target \in 1 .. Len(rows), source # target,
           rows \in Seq(Row)
    PROVE  /\ Place(source, target) \in Seq(Row)
           /\ Len(Place(source, target)) = Len(rows)
           /\ \A p \in 1 .. Len(rows) : Place(source, target)[p] = rows[Before(source, target, p)]
<1>1. Len(rows) \in Nat
    BY RowsAreRows
<1>2. CASE source < target
    <2>1. target + 1 \in 1 .. Len(rows) + 1 /\ source < target + 1 /\ target + 1 - 1 = target
        BY <1>1, <1>2
    <2>2. /\ InsertBefore(rows, source, target + 1) \in Seq(Row)
          /\ Len(InsertBefore(rows, source, target + 1)) = Len(rows)
          /\ \A p \in 1 .. Len(rows) :
                InsertBefore(rows, source, target + 1)[p] =
                    IF p = target THEN rows[source]
                    ELSE IF source <= p /\ p < target THEN rows[p + 1]
                    ELSE IF target < p /\ p <= source THEN rows[p - 1]
                    ELSE rows[p]
        <3> DEFINE k == target + 1
        <3>1. k \in 1 .. Len(rows) + 1 /\ source < k /\ k - 1 = target
            BY <2>1
        <3> HIDE DEF k
        <3> QED
            BY <3>1, InsertBeforeMoves DEF k
    <2>3. Place(source, target) = InsertBefore(rows, source, target + 1)
        BY <1>2 DEF Place
    <2> QED
        BY <2>2, <2>3 DEF Before
<1>3. CASE target < source
    <2>1. target \in 1 .. Len(rows) + 1 /\ ~ (source < target)
        BY <1>1, <1>3
    <2>2. /\ InsertBefore(rows, source, target) \in Seq(Row)
          /\ Len(InsertBefore(rows, source, target)) = Len(rows)
          /\ \A p \in 1 .. Len(rows) :
                InsertBefore(rows, source, target)[p] =
                    IF p = target THEN rows[source]
                    ELSE IF source <= p /\ p < target THEN rows[p + 1]
                    ELSE IF target < p /\ p <= source THEN rows[p - 1]
                    ELSE rows[p]
        BY <2>1, InsertBeforeMoves
    <2>3. Place(source, target) = InsertBefore(rows, source, target)
        BY <2>1 DEF Place
    <2> QED
        BY <2>2, <2>3 DEF Before
<1> QED
    BY <1>1, <1>2, <1>3

\* A drop leaves a table with the same rows at other places.
LEMMA DropKeepsTable ==
    ASSUME TableOK(rows), NEW source \in DOMAIN rows, NEW target \in DOMAIN rows, source # target,
           rows' = SetRowIndexing(Place(source, target))
    PROVE  /\ TableOK(rows')
           /\ DOMAIN rows' = DOMAIN rows
           /\ \A p \in DOMAIN rows : SameRow(rows'[p], rows[Before(source, target, p)])
<1> DEFINE s == Place(source, target)
<1>1. /\ rows \in Seq(Row) /\ Distinct(rows) /\ rows # <<>>
      /\ Len(rows) \in Nat /\ DOMAIN rows = 1 .. Len(rows)
    BY RowsAreRows DEF TableOK
<1>2. /\ s \in Seq(Row) /\ Len(s) = Len(rows)
      /\ \A p \in 1 .. Len(rows) : s[p] = rows[Before(source, target, p)]
    BY <1>1, PlaceMoves
<1> HIDE DEF s
<1>3. DOMAIN s = 1 .. Len(rows)
    BY <1>2, RowsAreRows
<1>4. Distinct(s)
    <2> SUFFICES ASSUME NEW p \in 1 .. Len(rows), NEW q \in 1 .. Len(rows), s[p].node = s[q].node
                 PROVE  p = q
        BY <1>3 DEF Distinct
    <2>1. Before(source, target, p) \in DOMAIN rows /\ Before(source, target, q) \in DOMAIN rows
        BY <1>1, DropPermutes
    <2>2. Before(source, target, p) = Before(source, target, q)
        BY <1>1, <1>2, <2>1 DEF Distinct
    <2> QED
        BY <1>1, <2>2, DropPermutes
<1>5. s # <<>>
    BY <1>1, <1>2, EmptySeq
<1>6. /\ TableOK(SetRowIndexing(s))
      /\ DOMAIN SetRowIndexing(s) = DOMAIN s
      /\ \A i \in DOMAIN s : SameRow(SetRowIndexing(s)[i], s[i])
    BY <1>2, <1>4, <1>5, IndexingMakesTable
<1>7. rows' = SetRowIndexing(s)
    BY DEF s
<1> QED
    BY <1>1, <1>2, <1>3, <1>6, <1>7

\* Access follows the types also when rows changed places.
LEMMA AccessMovesAlong ==
    ASSUME AccessFollowsType, help' = help,
           \A p \in DOMAIN rows' : \E q \in DOMAIN rows : SameRow(rows'[p], rows[q]),
           \A q \in DOMAIN rows : \E p \in DOMAIN rows' : SameRow(rows'[p], rows[q])
    PROVE  AccessFollowsType'
<1>1. \A p \in DOMAIN rows', q \in DOMAIN rows :
         SameRow(rows'[p], rows[q]) => IsCustom(rows'[p]) = IsCustom(rows[q])
    BY DEF SameRow, IsCustom
<1>2. \A p \in DOMAIN rows' :
         rows'[p].button = IsCustom(rows'[p]) /\ rows'[p].readOnly = IsCustom(rows'[p])
    BY <1>1 DEF SameRow, AccessFollowsType
<1>3. (\E p \in DOMAIN rows' : IsCustom(rows'[p])) <=> (\E q \in DOMAIN rows : IsCustom(rows[q]))
    BY <1>1
<1> QED
    BY <1>2, <1>3 DEF AccessFollowsType

\* What a page shows: its mappings, or one blank row.
ShownFor(mappings) == IF mappings = <<>> THEN <<BlankMapping>> ELSE mappings

\* A new page is a table of what it was given.
LEMMA ShowMakesTable ==
    ASSUME NEW mappings \in Seq(Mapping), NEW nodes,
           \A i \in DOMAIN ShownFor(mappings) : nodes[i] \in Nodes,
           \A i, j \in DOMAIN ShownFor(mappings) : nodes[i] = nodes[j] => i = j,
           Show(mappings, nodes)
    PROVE  /\ TableOK(rows') /\ AccessFollowsType' /\ page' = "form"
           /\ DOMAIN rows' = DOMAIN ShownFor(mappings)
           /\ \A i \in DOMAIN ShownFor(mappings) : Item(rows'[i]) = Item(ShownFor(mappings)[i])
<1> DEFINE shown == ShownFor(mappings)
           fresh(i) == Fresh(nodes[i], i - 1, shown[i])
           s == [i \in DOMAIN shown |-> fresh(i)]
           t == SetRowIndexing(s)
<1>1. shown \in Seq(Mapping) /\ shown # <<>>
    BY BlankIsMapping DEF ShownFor
<1>2. CheckCustomExpressionSelection(t) /\ page' = "form"
    BY DEF Show, ShownFor
<1> HIDE DEF shown
<1>3. Len(shown) \in Nat /\ DOMAIN shown = 1 .. Len(shown) /\ \A i \in 1 .. Len(shown) : shown[i] \in Mapping
    BY <1>1, ElementOfSeq, LenProperties
<1>4. \A i \in 1 .. Len(shown) : nodes[i] \in Nodes /\ i - 1 \in Nat
    BY <1>3 DEF shown
<1>5. \A i \in 1 .. Len(shown) :
         /\ fresh(i) \in Row /\ fresh(i).node = nodes[i]
         /\ fresh(i).type = shown[i].type /\ fresh(i).parameter = shown[i].parameter
         /\ fresh(i).isRequired = shown[i].isRequired
    BY <1>3, <1>4 DEF Fresh, Row, Mapping
<1> HIDE DEF fresh
<1>6. /\ s \in Seq(Row) /\ DOMAIN s = 1 .. Len(shown) /\ Len(s) = Len(shown)
      /\ \A i \in 1 .. Len(shown) : s[i] = fresh(i)
    BY <1>3, <1>5, IsASeq, LenProperties
<1> HIDE DEF s
<1>7. Distinct(s)
    BY <1>3, <1>5, <1>6 DEF Distinct, shown
<1>8. s # <<>>
    BY <1>1, <1>6, EmptySeq
<1>9. /\ TableOK(t) /\ DOMAIN t = DOMAIN s
      /\ \A i \in DOMAIN s : SameRow(t[i], s[i])
    BY <1>6, <1>7, <1>8, IndexingMakesTable
<1> HIDE DEF t
<1>10. /\ TableOK(rows') /\ AccessFollowsType' /\ DOMAIN rows' = DOMAIN t
       /\ \A i \in DOMAIN t :
             /\ rows'[i].type = t[i].type
             /\ rows'[i].parameter = t[i].parameter
             /\ rows'[i].isRequired = t[i].isRequired
    BY <1>2, <1>9, SelectionKeepsTable
<1>11. \A i \in 1 .. Len(shown) : Item(rows'[i]) = Item(shown[i])
    BY <1>5, <1>6, <1>9, <1>10 DEF SameRow, Item
<1> QED
    BY <1>2, <1>3, <1>6, <1>9, <1>10, <1>11 DEF shown

-----------------------------------------------------------------------------
(* The inductive invariant *)

RowsInv ==
    /\ TableOK(rows)
    /\ help \in BOOLEAN
    /\ drag \in {"none", "over", "dropped"}
    /\ dragSource \in Nodes \cup {NoNode}
    /\ AccessFollowsType
    /\ DropsWhatIsDragged

EditorTypes ==
    /\ monacoEditorReady \in BOOLEAN
    /\ onMonacoReady \in Texts \cup {NoClosure}
    /\ editorInstance \in Texts \cup {NoEditor}
    /\ currentInputTarget \in Nodes \cup {NoNode}
    /\ modal \in BOOLEAN
    /\ asked \in Nodes \cup {NoNode}
    /\ opened \in [code : Texts, from : Nodes \cup {NoNode}, late : BOOLEAN]

\* Before Monaco is there no editor is, and a closure that waits is that of the
\* last click.
EditorWaits ==
    /\ ~ monacoEditorReady => editorInstance = NoEditor /\ ~ modal
    /\ ~ monacoEditorReady /\ onMonacoReady # NoClosure => asked # NoNode
    /\ asked # NoNode => ~ monacoEditorReady /\ onMonacoReady # NoClosure /\ asked = currentInputTarget
    /\ modal => editorInstance # NoEditor /\ page = "form"

\* While an editor that opened at once is shown nothing else writes to its row.
EditorCovers ==
    modal /\ ~ opened.late =>
        \A i \in DOMAIN rows : rows[i].node = currentInputTarget => rows[i].parameter = opened.code

EditorInv == EditorTypes /\ EditorWaits /\ EditorShowsTarget /\ EditorCovers

ServerInv == page \in {"form", "left"} /\ stored \in Seq(Mapping)

IInv == RowsInv /\ EditorInv /\ ServerInv

\* The editor is not concerned by what happens under no editor.
LEMMA EditorUntouched ==
    ASSUME EditorInv, UNCHANGED monacoVars, ~ modal
    PROVE  EditorInv'
BY DEF EditorInv, EditorTypes, EditorWaits, EditorShowsTarget, EditorCovers, monacoVars

\* A page that opens has no editor.
LEMMA EditorStarts ==
    ASSUME ScriptStarts
    PROVE  EditorInv'
BY BlankAssumption, NodesAssumption
DEF ScriptStarts, EditorInv, EditorTypes, EditorWaits, EditorShowsTarget, EditorCovers, NotOpened

LEMMA InitInv == Init => IInv
<1> SUFFICES ASSUME Init
             PROVE  IInv
    OBVIOUS
<1>1. PICK node \in Nodes : rows = <<Fresh(node, 0, BlankMapping)>>
    BY DEF Init
<1> DEFINE new == Fresh(node, 0, BlankMapping)
<1>2. /\ new \in Row /\ new.index = 0 /\ new.order = 0 /\ new.type = None
      /\ new.button = FALSE /\ new.readOnly = FALSE
    BY BlankIsMapping DEF Fresh, Row, Mapping, BlankMapping
<1>3. rows = <<new>>
    BY <1>1
<1> HIDE DEF new
<1>4. TableOK(rows)
    BY <1>2, <1>3 DEF TableOK, Distinct, Indexed
<1>5. AccessFollowsType
    <2>1. IsCustom(new) = FALSE
        BY <1>2, TypesAssumption DEF IsCustom
    <2>2. DOMAIN rows = {1} /\ rows[1] = new
        BY <1>3
    <2>3. help = FALSE
        BY DEF Init
    <2>4. (\E i \in DOMAIN rows : IsCustom(rows[i])) = FALSE
        BY <2>1, <2>2
    <2>5. \A i \in DOMAIN rows : rows[i] = new
        BY <2>2
    <2>6. new.button = IsCustom(new) /\ new.readOnly = IsCustom(new)
        BY <1>2, <2>1, Zenon
    <2> QED
        BY <2>3, <2>4, <2>5, <2>6, Zenon DEF AccessFollowsType
<1>6. RowsInv
    BY <1>4, <1>5 DEF Init, RowsInv, DropsWhatIsDragged
<1>7. EditorInv
    BY BlankAssumption, NodesAssumption
    DEF Init, EditorInv, EditorTypes, EditorWaits, EditorShowsTarget, EditorCovers, NotOpened
<1>8. ServerInv
    BY DEF Init, ServerInv
<1> QED
    BY <1>6, <1>7, <1>8 DEF IInv

LEMMA OpenPageInv ==
    ASSUME IInv, OpenPage
    PROVE  IInv'
<1>1. PICK nodes \in [1 .. (IF stored = <<>> THEN 1 ELSE Len(stored)) -> Nodes] :
         /\ \A i, j \in DOMAIN nodes : nodes[i] = nodes[j] => i = j
         /\ Show(stored, nodes)
    BY DEF OpenPage
<1>2. stored \in Seq(Mapping)
    BY DEF IInv, ServerInv
<1>3. DOMAIN ShownFor(stored) = 1 .. (IF stored = <<>> THEN 1 ELSE Len(stored))
    <2>1. DOMAIN <<BlankMapping>> = 1 .. 1
        OBVIOUS
    <2>2. DOMAIN stored = 1 .. Len(stored)
        BY <1>2, LenProperties
    <2> QED
        BY <2>1, <2>2, Zenon DEF ShownFor
<1>4. TableOK(rows') /\ AccessFollowsType' /\ page' = "form"
    BY <1>1, <1>2, <1>3, ShowMakesTable
<1>5. ScriptStarts /\ stored' = stored
    BY DEF OpenPage
<1>6. help' \in BOOLEAN
    BY <1>4 DEF AccessFollowsType
<1>7. RowsInv'
    BY <1>4, <1>5, <1>6 DEF RowsInv, ScriptStarts, DropsWhatIsDragged
<1> QED
    BY <1>2, <1>4, <1>5, <1>7, EditorStarts DEF IInv, ServerInv

LEMMA ClickAddInv ==
    ASSUME IInv, ClickAdd
    PROVE  IInv'
<1>1. PICK node \in Unused(rows) : rows' = AddMappingRow(rows, node)
    BY DEF ClickAdd
<1>2. rows \in Seq(Row) /\ Distinct(rows) /\ Len(rows) \in Nat /\ DOMAIN rows = 1 .. Len(rows)
    BY RowsAreRows DEF IInv, RowsInv, TableOK
<1>3. node \in Nodes \ NodesOf(rows)
    BY DEF Unused
<1>4. /\ TableOK(rows') /\ Len(rows') = Len(rows) + 1
      /\ \A i \in 1 .. Len(rows) : SameRow(rows'[i], rows[i])
      /\ rows'[Len(rows) + 1].type = None
      /\ rows'[Len(rows) + 1].button = FALSE
      /\ rows'[Len(rows) + 1].readOnly = FALSE
    BY <1>1, <1>2, <1>3, AddingAppends
<1>5. DOMAIN rows' = 1 .. Len(rows) + 1
    <2>1. rows' \in Seq(Row)
        BY <1>4 DEF TableOK
    <2> QED
        BY <1>4, <2>1, LenProperties
<1>6. UNCHANGED <<help, drag, dragSource, page, stored>> /\ UNCHANGED monacoVars /\ ~ modal /\ drag = "none"
    BY DEF ClickAdd, AtForm, dragVars, elsewhere, serverVars
<1>7. AccessFollowsType'
    <2>1. IsCustom(rows'[Len(rows) + 1]) = FALSE
        BY <1>4, TypesAssumption DEF IsCustom
    <2>2. /\ rows'[Len(rows) + 1].button = IsCustom(rows'[Len(rows) + 1])
          /\ rows'[Len(rows) + 1].readOnly = IsCustom(rows'[Len(rows) + 1])
        BY <1>4, <2>1, Zenon
    <2>3. \A i \in 1 .. Len(rows) : IsCustom(rows'[i]) = IsCustom(rows[i])
        BY <1>4 DEF SameRow, IsCustom
    <2>4. \A i \in 1 .. Len(rows) :
             rows'[i].button = IsCustom(rows'[i]) /\ rows'[i].readOnly = IsCustom(rows'[i])
        BY <1>2, <1>4, <2>3 DEF SameRow, IInv, RowsInv, AccessFollowsType
    <2>5. \A i \in DOMAIN rows' : i \in 1 .. Len(rows) \/ i = Len(rows) + 1
        BY <1>2, <1>5
    <2>6. \A i \in DOMAIN rows' :
             rows'[i].button = IsCustom(rows'[i]) /\ rows'[i].readOnly = IsCustom(rows'[i])
        BY <2>4, <2>5, <2>2, Zenon
    <2>7. help = (\E i \in DOMAIN rows : IsCustom(rows[i]))
        BY DEF IInv, RowsInv, AccessFollowsType
    <2>8. \A i \in 1 .. Len(rows) : i \in DOMAIN rows'
        BY <1>2, <1>5
    <2>9. (\E i \in DOMAIN rows' : IsCustom(rows'[i])) <=> (\E i \in DOMAIN rows : IsCustom(rows[i]))
        BY <1>2, <2>1, <2>3, <2>5, <2>8
    <2> QED
        BY <1>6, <2>6, <2>7, <2>9 DEF AccessFollowsType
<1>8. RowsInv'
    BY <1>4, <1>6, <1>7 DEF IInv, RowsInv, DropsWhatIsDragged
<1> QED
    BY <1>6, <1>8, EditorUntouched DEF IInv, ServerInv

LEMMA ClickRemoveInv ==
    ASSUME IInv, NEW i \in DOMAIN rows, ClickRemove(i)
    PROVE  IInv'
<1>1. PICK node \in Unused(rows) :
         CheckCustomExpressionSelection(SetRowIndexing(
             IF Len(rows) = 1 THEN AddMappingRow(<<>>, node) ELSE RemoveAt(rows, i)))
    BY DEF ClickRemove
<1> DEFINE left == IF Len(rows) = 1 THEN AddMappingRow(<<>>, node) ELSE RemoveAt(rows, i)
<1>2. left \in Seq(Row) /\ Distinct(left) /\ left # <<>>
    <2>1. CASE Len(rows) = 1
        <3>1. <<>> \in Seq(Row) /\ Distinct(<<>>)
            BY DEF Distinct
        <3>2. node \in Nodes \ NodesOf(<<>>)
            BY DEF Unused, NodesOf
        <3>3. TableOK(AddMappingRow(<<>>, node))
            BY <3>1, <3>2, AddingAppends
        <3> QED
            BY <2>1, <3>3 DEF TableOK
    <2>2. CASE Len(rows) # 1
        <3>1. rows \in Seq(Row) /\ Distinct(rows) /\ i \in 1 .. Len(rows)
            BY RowsAreRows DEF IInv, RowsInv, TableOK
        <3> QED
            BY <2>2, <3>1, RemovingKeepsRows
    <2> QED
        BY <2>1, <2>2
<1>3. CheckCustomExpressionSelection(SetRowIndexing(left))
    BY <1>1
<1> HIDE DEF left
<1>4. TableOK(SetRowIndexing(left))
    BY <1>2, IndexingMakesTable
<1>5. TableOK(rows') /\ AccessFollowsType'
    BY <1>3, <1>4, SelectionKeepsTable
<1>6. UNCHANGED <<drag, dragSource, page, stored>> /\ UNCHANGED monacoVars /\ ~ modal /\ drag = "none"
    BY DEF ClickRemove, AtForm, dragVars, elsewhere, serverVars
<1>7. RowsInv'
    <2>1. help' \in BOOLEAN
        BY <1>5 DEF AccessFollowsType
    <2> QED
        BY <1>5, <1>6, <2>1 DEF IInv, RowsInv, DropsWhatIsDragged
<1> QED
    BY <1>6, <1>7, EditorUntouched DEF IInv, ServerInv

\* A row with another type or parameter is a row, and the table still a table.
LEMMA ChangeKeepsTable ==
    ASSUME TableOK(rows), NEW i \in DOMAIN rows, NEW row \in Row,
           row.node = rows[i].node, row.index = rows[i].index, row.order = rows[i].order
    PROVE  TableOK([rows EXCEPT ![i] = row])
<1>1. rows \in Seq(Row) /\ Len(rows) \in Nat /\ DOMAIN rows = 1 .. Len(rows) /\ rows # <<>>
    BY RowsAreRows DEF TableOK
<1> DEFINE s == [rows EXCEPT ![i] = row]
<1>2. s \in Seq(Row) /\ DOMAIN s = 1 .. Len(rows) /\ Len(s) = Len(rows)
    BY <1>1, ExceptSeq
<1>3. \A k \in 1 .. Len(rows) : s[k] = IF k = i THEN row ELSE rows[k]
    BY <1>1
<1> HIDE DEF s
<1>4. \A k \in 1 .. Len(rows) :
         s[k].node = rows[k].node /\ s[k].index = rows[k].index /\ s[k].order = rows[k].order
    BY <1>3
<1>5. Distinct(s) /\ Indexed(s)
    BY <1>1, <1>2, <1>4 DEF TableOK, Distinct, Indexed
<1>6. s # <<>>
    BY <1>1, <1>2, EmptySeq
<1> QED
    BY <1>2, <1>5, <1>6 DEF TableOK, s

LEMMA ChangeTypeInv ==
    ASSUME IInv, NEW i \in DOMAIN rows, ChangeType(i)
    PROVE  IInv'
<1>1. PICK t \in Types : CheckCustomExpressionSelection([rows EXCEPT ![i].type = t])
    BY DEF ChangeType
<1>2. rows[i] \in Row
    BY RowsAreRows DEF IInv, RowsInv, TableOK
<1> DEFINE row == [rows[i] EXCEPT !.type = t]
<1>3. /\ row \in Row /\ row.node = rows[i].node
      /\ row.index = rows[i].index /\ row.order = rows[i].order
    BY <1>2 DEF Row
<1> HIDE DEF row
<1>4. TableOK([rows EXCEPT ![i] = row])
    BY <1>3, ChangeKeepsTable DEF IInv, RowsInv
<1>5. CheckCustomExpressionSelection([rows EXCEPT ![i] = row])
    BY <1>1 DEF row
<1>6. TableOK(rows') /\ AccessFollowsType'
    BY <1>4, <1>5, SelectionKeepsTable
<1>7. UNCHANGED <<drag, dragSource, page, stored>> /\ UNCHANGED monacoVars /\ ~ modal /\ drag = "none"
    BY DEF ChangeType, AtForm, dragVars, elsewhere, serverVars
<1>8. RowsInv'
    <2>1. help' \in BOOLEAN
        BY <1>6 DEF AccessFollowsType
    <2> QED
        BY <1>6, <1>7, <2>1 DEF IInv, RowsInv, DropsWhatIsDragged
<1> QED
    BY <1>7, <1>8, EditorUntouched DEF IInv, ServerInv

\* A new text or tick in a row changes nothing that access depends on.
LEMMA ParameterKeepsAccess ==
    ASSUME AccessFollowsType, help' = help, DOMAIN rows' = DOMAIN rows,
           \A k \in DOMAIN rows :
              /\ rows'[k].type = rows[k].type
              /\ rows'[k].button = rows[k].button
              /\ rows'[k].readOnly = rows[k].readOnly
    PROVE  AccessFollowsType'
<1>1. \A k \in DOMAIN rows : IsCustom(rows'[k]) = IsCustom(rows[k])
    BY DEF IsCustom
<1>2. (\E k \in DOMAIN rows : IsCustom(rows'[k])) <=> (\E k \in DOMAIN rows : IsCustom(rows[k]))
    BY <1>1
<1> QED
    BY <1>1, <1>2 DEF AccessFollowsType

LEMMA TypeParameterInv ==
    ASSUME IInv, NEW i \in DOMAIN rows, TypeParameter(i)
    PROVE  IInv'
<1>1. PICK p \in Texts : rows' = [rows EXCEPT ![i].parameter = p]
    BY DEF TypeParameter
<1>2. /\ rows \in Seq(Row) /\ Len(rows) \in Nat /\ DOMAIN rows = 1 .. Len(rows)
      /\ \A k \in 1 .. Len(rows) : rows[k] \in Row
    BY RowsAreRows DEF IInv, RowsInv, TableOK
<1> DEFINE row == [rows[i] EXCEPT !.parameter = p]
<1>3. /\ row \in Row /\ row.node = rows[i].node /\ row.type = rows[i].type
      /\ row.index = rows[i].index /\ row.order = rows[i].order
      /\ row.button = rows[i].button /\ row.readOnly = rows[i].readOnly
    BY <1>2 DEF Row
<1>4. rows' = [rows EXCEPT ![i] = row]
    BY <1>1
<1> HIDE DEF row
<1>5. TableOK(rows')
    BY <1>3, <1>4, ChangeKeepsTable DEF IInv, RowsInv
<1>6. UNCHANGED <<help, drag, dragSource, page, stored>> /\ UNCHANGED monacoVars /\ ~ modal /\ drag = "none"
    BY DEF TypeParameter, AtForm, dragVars, elsewhere, serverVars
<1>7. DOMAIN rows' = DOMAIN rows /\ \A k \in DOMAIN rows :
         /\ rows'[k].type = rows[k].type
         /\ rows'[k].button = rows[k].button
         /\ rows'[k].readOnly = rows[k].readOnly
    BY <1>3, <1>4
<1>8. AccessFollowsType'
    BY <1>6, <1>7, ParameterKeepsAccess DEF IInv, RowsInv
<1>9. RowsInv'
    BY <1>5, <1>6, <1>8 DEF IInv, RowsInv, DropsWhatIsDragged
<1> QED
    BY <1>6, <1>9, EditorUntouched DEF IInv, ServerInv

LEMMA TickRequiredInv ==
    ASSUME IInv, NEW i \in DOMAIN rows, TickRequired(i)
    PROVE  IInv'
<1>1. rows' = [rows EXCEPT ![i].isRequired = ~ rows[i].isRequired]
    BY DEF TickRequired
<1>2. /\ rows \in Seq(Row) /\ Len(rows) \in Nat /\ DOMAIN rows = 1 .. Len(rows)
      /\ \A k \in 1 .. Len(rows) : rows[k] \in Row
    BY RowsAreRows DEF IInv, RowsInv, TableOK
<1> DEFINE row == [rows[i] EXCEPT !.isRequired = ~ rows[i].isRequired]
<1>3. /\ row \in Row /\ row.node = rows[i].node /\ row.type = rows[i].type
      /\ row.index = rows[i].index /\ row.order = rows[i].order
      /\ row.button = rows[i].button /\ row.readOnly = rows[i].readOnly
    BY <1>2 DEF Row
<1>4. rows' = [rows EXCEPT ![i] = row]
    BY <1>1
<1> HIDE DEF row
<1>5. TableOK(rows')
    BY <1>3, <1>4, ChangeKeepsTable DEF IInv, RowsInv
<1>6. UNCHANGED <<help, drag, dragSource, page, stored>> /\ UNCHANGED monacoVars /\ ~ modal /\ drag = "none"
    BY DEF TickRequired, AtForm, dragVars, elsewhere, serverVars
<1>7. DOMAIN rows' = DOMAIN rows /\ \A k \in DOMAIN rows :
         /\ rows'[k].type = rows[k].type
         /\ rows'[k].button = rows[k].button
         /\ rows'[k].readOnly = rows[k].readOnly
    BY <1>3, <1>4
<1>8. AccessFollowsType'
    BY <1>6, <1>7, ParameterKeepsAccess DEF IInv, RowsInv
<1>9. RowsInv'
    BY <1>5, <1>6, <1>8 DEF IInv, RowsInv, DropsWhatIsDragged
<1> QED
    BY <1>6, <1>9, EditorUntouched DEF IInv, ServerInv

LEMMA DragStartInv ==
    ASSUME IInv, NEW i \in DOMAIN rows, DragStart(i)
    PROVE  IInv'
<1>1. /\ UNCHANGED <<rows, help, page, stored>> /\ UNCHANGED monacoVars /\ ~ modal
      /\ drag' = "over" /\ dragSource' = rows[i].node
    BY DEF DragStart, AtForm, elsewhere, serverVars
<1>2. rows[i].node \in Nodes
    BY RowsAreRows DEF IInv, RowsInv, TableOK, Row
<1>3. RowsInv'
    BY <1>1, <1>2 DEF IInv, RowsInv, AccessFollowsType, DropsWhatIsDragged
<1> QED
    BY <1>1, <1>3, EditorUntouched DEF IInv, ServerInv

\* What a drop does, while rows are dragged and while something else is.
LEMMA DropCases ==
    ASSUME IInv, NEW i \in DOMAIN rows, Drop(i)
    PROVE  \/ UNCHANGED rows
           \/ \E source \in DOMAIN rows :
                 /\ source # i /\ rows[source].node = dragSource
                 /\ rows' = SetRowIndexing(Place(source, i))
<1>1. CASE dragSource \in {NoNode, rows[i].node}
    BY <1>1 DEF Drop
<1>2. CASE dragSource \notin {NoNode, rows[i].node}
    <2>1. PICK source \in DOMAIN rows :
             rows[source].node = dragSource /\ rows' = SetRowIndexing(Place(source, i))
        BY <1>2 DEF Drop
    <2>2. source # i
        BY <1>2, <2>1
    <2> QED
        BY <2>1, <2>2
<1> QED
    BY <1>1, <1>2

LEMMA DropInv ==
    ASSUME IInv, NEW i \in DOMAIN rows, Drop(i)
    PROVE  IInv'
<1>1. /\ UNCHANGED <<help, dragSource, page, stored>> /\ UNCHANGED monacoVars /\ ~ modal
      /\ drag' = IF drag = "over" THEN "dropped" ELSE drag
    BY DEF Drop, elsewhere, serverVars
<1>2. /\ TableOK(rows') /\ AccessFollowsType'
      /\ \A q \in DOMAIN rows : \E p \in DOMAIN rows' : SameRow(rows'[p], rows[q])
    <2>1. CASE UNCHANGED rows
        BY <1>1, <2>1 DEF IInv, RowsInv, AccessFollowsType, SameRow
    <2>2. CASE \E source \in DOMAIN rows :
                  /\ source # i /\ rows[source].node = dragSource
                  /\ rows' = SetRowIndexing(Place(source, i))
        <3>1. PICK source \in DOMAIN rows : source # i /\ rows' = SetRowIndexing(Place(source, i))
            BY <2>2
        <3>2. TableOK(rows) /\ rows \in Seq(Row) /\ Len(rows) \in Nat /\ DOMAIN rows = 1 .. Len(rows)
            BY RowsAreRows DEF IInv, RowsInv, TableOK
        <3>3. /\ TableOK(rows') /\ DOMAIN rows' = DOMAIN rows
              /\ \A p \in DOMAIN rows : SameRow(rows'[p], rows[Before(source, i, p)])
            BY <3>1, <3>2, DropKeepsTable
        <3>4. \A p \in DOMAIN rows :
                 /\ Before(source, i, p) \in DOMAIN rows
                 /\ After(source, i, p) \in DOMAIN rows
                 /\ Before(source, i, After(source, i, p)) = p
            BY <3>2, DropPermutes
        <3>5. \A p \in DOMAIN rows' : \E q \in DOMAIN rows : SameRow(rows'[p], rows[q])
            BY <3>3, <3>4
        <3>6. \A q \in DOMAIN rows : \E p \in DOMAIN rows' : SameRow(rows'[p], rows[q])
            BY <3>3, <3>4
        <3>7. AccessFollowsType'
            BY <1>1, <3>5, <3>6, AccessMovesAlong DEF IInv, RowsInv
        <3> QED
            BY <3>3, <3>6, <3>7
    <2> QED
        BY <2>1, <2>2, DropCases
<1>3. DropsWhatIsDragged'
    <2>1. CASE drag = "none"
        BY <1>1, <2>1 DEF IInv, RowsInv, DropsWhatIsDragged
    <2>2. CASE drag # "none"
        <3>1. PICK q \in DOMAIN rows : rows[q].node = dragSource
            BY <2>2 DEF IInv, RowsInv, DropsWhatIsDragged
        <3>2. PICK p \in DOMAIN rows' : SameRow(rows'[p], rows[q])
            BY <1>2
        <3>3. rows'[p].node = dragSource'
            BY <1>1, <3>1, <3>2 DEF SameRow
        <3>4. drag' # "none"
            BY <1>1, <2>2
        <3> QED
            BY <3>3, <3>4 DEF DropsWhatIsDragged
    <2> QED
        BY <2>1, <2>2
<1>4. RowsInv'
    BY <1>1, <1>2, <1>3 DEF IInv, RowsInv
<1> QED
    BY <1>1, <1>4, EditorUntouched DEF IInv, ServerInv

\* Indexing once more a table that is indexed.
LEMMA IndexingAgain ==
    ASSUME RowsInv, rows' = SetRowIndexing(rows), help' = help
    PROVE  /\ TableOK(rows') /\ AccessFollowsType' /\ DOMAIN rows' = DOMAIN rows
           /\ \A k \in DOMAIN rows : SameRow(rows'[k], rows[k])
<1>1. rows \in Seq(Row) /\ Distinct(rows) /\ rows # <<>>
    BY DEF RowsInv, TableOK
<1>2. /\ TableOK(rows') /\ DOMAIN rows' = DOMAIN rows
      /\ \A k \in DOMAIN rows : SameRow(rows'[k], rows[k])
    BY <1>1, IndexingMakesTable
<1>3. AccessFollowsType'
    BY <1>2, AccessMovesAlong DEF RowsInv
<1> QED
    BY <1>2, <1>3

LEMMA DragEndInv ==
    ASSUME IInv, DragEnd
    PROVE  IInv'
<1>1. /\ UNCHANGED <<help, page, stored>> /\ UNCHANGED monacoVars
      /\ drag' = "none" /\ dragSource' = NoNode /\ rows' = SetRowIndexing(rows)
    BY DEF DragEnd, elsewhere, serverVars
<1>2. /\ TableOK(rows') /\ AccessFollowsType' /\ DOMAIN rows' = DOMAIN rows
      /\ \A k \in DOMAIN rows : SameRow(rows'[k], rows[k])
    BY <1>1, IndexingAgain DEF IInv
<1>3. RowsInv'
    BY <1>1, <1>2 DEF IInv, RowsInv, DropsWhatIsDragged
<1>4. EditorCovers'
    BY <1>1, <1>2 DEF IInv, EditorInv, EditorCovers, SameRow, monacoVars
<1>5. EditorInv'
    BY <1>1, <1>4 DEF IInv, EditorInv, EditorTypes, EditorWaits, EditorShowsTarget, monacoVars
<1> QED
    BY <1>1, <1>3, <1>5 DEF IInv, ServerInv

LEMMA OpenEditorInv ==
    ASSUME IInv, NEW i \in DOMAIN rows, OpenEditor(i)
    PROVE  IInv'
<1>1. /\ UNCHANGED <<rows, help, drag, dragSource, monacoEditorReady, page, stored>>
      /\ ~ modal /\ page = "form" /\ currentInputTarget' = rows[i].node
    BY DEF OpenEditor, AtForm, dragVars, serverVars
<1>2. rows[i].node \in Nodes /\ rows[i].parameter \in Texts
    BY RowsAreRows DEF IInv, RowsInv, TableOK, Row
<1>3. Distinct(rows)
    BY DEF IInv, RowsInv, TableOK
<1>4. RowsInv'
    BY <1>1 DEF IInv, RowsInv, AccessFollowsType, DropsWhatIsDragged
<1>5. EditorInv'
    <2>1. CASE editorInstance # NoEditor \/ monacoEditorReady
        <3>1. /\ editorInstance' = rows[i].parameter /\ modal' = TRUE
              /\ opened' = [code |-> rows[i].parameter, from |-> rows[i].node, late |-> FALSE]
              /\ UNCHANGED <<onMonacoReady, asked>>
            BY <2>1 DEF OpenEditor, ShowEditor
        <3>2. monacoEditorReady
            BY <2>1 DEF IInv, EditorInv, EditorWaits
        <3>3. EditorTypes'
            BY <1>1, <1>2, <3>1 DEF IInv, EditorInv, EditorTypes
        <3>4. EditorWaits' /\ EditorShowsTarget'
            BY <1>1, <1>2, <3>1, <3>2, NothingAssumption
            DEF IInv, EditorInv, EditorWaits, EditorShowsTarget
        <3>5. EditorCovers'
            BY <1>1, <1>3, <3>1 DEF EditorCovers, Distinct
        <3> QED
            BY <3>3, <3>4, <3>5 DEF EditorInv
    <2>2. CASE ~ (editorInstance # NoEditor \/ monacoEditorReady)
        <3>1. /\ onMonacoReady' = rows[i].parameter /\ asked' = rows[i].node
              /\ UNCHANGED <<editorInstance, modal, opened>>
            BY <2>2 DEF OpenEditor, KeepForMonaco
        <3>2. EditorTypes'
            BY <1>1, <1>2, <3>1 DEF IInv, EditorInv, EditorTypes
        <3>3. EditorWaits' /\ EditorShowsTarget' /\ EditorCovers'
            BY <1>1, <1>2, <2>2, <3>1, NothingAssumption, NodesAssumption
            DEF IInv, EditorInv, EditorWaits, EditorShowsTarget, EditorCovers
        <3> QED
            BY <3>2, <3>3 DEF EditorInv
    <2> QED
        BY <2>1, <2>2
<1> QED
    BY <1>1, <1>4, <1>5 DEF IInv, ServerInv

LEMMA MonacoLoadsInv ==
    ASSUME IInv, MonacoLoads
    PROVE  IInv'
<1>1. /\ UNCHANGED <<rows, help, drag, dragSource, onMonacoReady, currentInputTarget, page, stored>>
      /\ ~ monacoEditorReady /\ monacoEditorReady' = TRUE /\ asked' = NoNode /\ page = "form"
    BY DEF MonacoLoads, dragVars, serverVars
<1>2. RowsInv'
    BY <1>1 DEF IInv, RowsInv, AccessFollowsType, DropsWhatIsDragged
<1>3. EditorInv'
    <2>1. CASE onMonacoReady = NoClosure
        <3>1. UNCHANGED <<editorInstance, modal, opened>>
            BY <2>1 DEF MonacoLoads
        <3> QED
            BY <1>1, <3>1
            DEF IInv, EditorInv, EditorTypes, EditorWaits, EditorShowsTarget, EditorCovers
    <2>2. CASE onMonacoReady # NoClosure
        <3>1. /\ editorInstance' = onMonacoReady /\ modal' = TRUE
              /\ opened' = [code |-> onMonacoReady, from |-> asked, late |-> TRUE]
            BY <2>2 DEF MonacoLoads, ShowEditor
        <3>2. onMonacoReady \in Texts /\ asked = currentInputTarget
            BY <1>1, <2>2 DEF IInv, EditorInv, EditorTypes, EditorWaits
        <3>3. EditorTypes'
            BY <1>1, <3>1, <3>2 DEF IInv, EditorInv, EditorTypes
        <3>4. EditorWaits' /\ EditorShowsTarget' /\ EditorCovers'
            BY <1>1, <3>1, <3>2, NothingAssumption DEF EditorWaits, EditorShowsTarget, EditorCovers
        <3> QED
            BY <3>3, <3>4 DEF EditorInv
    <2> QED
        BY <2>1, <2>2
<1> QED
    BY <1>1, <1>2, <1>3 DEF IInv, ServerInv

LEMMA EditCodeInv ==
    ASSUME IInv, EditCode
    PROVE  IInv'
<1>1. /\ UNCHANGED <<rows, help, drag, dragSource, monacoEditorReady, onMonacoReady, currentInputTarget,
                     modal, asked, opened, page, stored>>
      /\ editorInstance' \in Texts
    BY DEF EditCode, dragVars, serverVars
<1>2. RowsInv'
    BY <1>1 DEF IInv, RowsInv, AccessFollowsType, DropsWhatIsDragged
<1>3. modal
    BY DEF EditCode
<1>4. EditorInv'
    BY <1>1, <1>3, NothingAssumption
    DEF IInv, EditorInv, EditorTypes, EditorWaits, EditorShowsTarget, EditorCovers
<1> QED
    BY <1>1, <1>2, <1>4 DEF IInv, ServerInv

\* An editor that is closed stays where it is.
LEMMA CloseKeepsEditor ==
    ASSUME IInv, modal, CloseEditor
    PROVE  EditorInv' /\ ServerInv' /\ UNCHANGED <<help, drag, dragSource>>
BY BlankAssumption
DEF IInv, EditorInv, EditorTypes, EditorWaits, EditorShowsTarget, EditorCovers, ServerInv,
    CloseEditor, NotOpened, dragVars, serverVars

LEMMA SaveCodeInv ==
    ASSUME IInv, SaveCode
    PROVE  IInv'
<1>1. EditorInv' /\ ServerInv' /\ UNCHANGED <<help, drag, dragSource>>
    BY CloseKeepsEditor DEF SaveCode
<1>2. rows \in Seq(Row) /\ Len(rows) \in Nat /\ DOMAIN rows = 1 .. Len(rows) /\ rows # <<>>
    BY RowsAreRows DEF IInv, RowsInv, TableOK
<1>3. \A k \in 1 .. Len(rows) : rows[k] \in Row
    BY <1>2, RowsAreRows
<1> DEFINE row(k) == IF rows[k].node = currentInputTarget
                     THEN [rows[k] EXCEPT !.parameter = editorInstance]
                     ELSE rows[k]
<1>4. editorInstance \in Texts
    BY DEF SaveCode, IInv, EditorInv, EditorTypes, EditorWaits
<1>5. \A k \in 1 .. Len(rows) :
         /\ row(k) \in Row
         /\ row(k).node = rows[k].node /\ row(k).type = rows[k].type
         /\ row(k).index = rows[k].index /\ row(k).order = rows[k].order
         /\ row(k).button = rows[k].button /\ row(k).readOnly = rows[k].readOnly
    BY <1>3, <1>4 DEF Row
<1>6. rows' = [k \in 1 .. Len(rows) |-> row(k)]
    BY <1>2 DEF SaveCode
<1> HIDE DEF row
<1>7. rows' \in Seq(Row) /\ DOMAIN rows' = DOMAIN rows /\ \A k \in 1 .. Len(rows) : rows'[k] = row(k)
    BY <1>2, <1>5, <1>6, IsASeq
<1>8. TableOK(rows')
    <2>1. Distinct(rows') /\ Indexed(rows')
        BY <1>2, <1>5, <1>7 DEF IInv, RowsInv, TableOK, Distinct, Indexed
    <2>2. rows' # <<>>
        BY <1>2, <1>7, EmptySeq
    <2> QED
        BY <1>7, <2>1, <2>2 DEF TableOK
<1>9. \A k \in DOMAIN rows :
         /\ rows'[k].node = rows[k].node
         /\ rows'[k].type = rows[k].type
         /\ rows'[k].button = rows[k].button
         /\ rows'[k].readOnly = rows[k].readOnly
    BY <1>2, <1>5, <1>7
<1>10. AccessFollowsType'
    BY <1>1, <1>7, <1>9, ParameterKeepsAccess DEF IInv, RowsInv
<1>11. DropsWhatIsDragged'
    BY <1>1, <1>7, <1>9 DEF IInv, RowsInv, DropsWhatIsDragged
<1>12. RowsInv'
    BY <1>1, <1>8, <1>10, <1>11 DEF IInv, RowsInv
<1> QED
    BY <1>1, <1>12 DEF IInv

LEMMA DismissEditorInv ==
    ASSUME IInv, DismissEditor
    PROVE  IInv'
<1>1. EditorInv' /\ ServerInv' /\ UNCHANGED <<rows, help, drag, dragSource>>
    BY CloseKeepsEditor DEF DismissEditor
<1>2. RowsInv'
    BY <1>1 DEF IInv, RowsInv, AccessFollowsType, DropsWhatIsDragged
<1> QED
    BY <1>1, <1>2 DEF IInv

\* What a save stores: the rows as they are shown, in their order.
LEMMA StoresWhatIsShown ==
    ASSUME NEW s \in Seq(Row), Indexed(s)
    PROVE  /\ OrderBy(Bind(s)) = Bind(s)
           /\ BuildDomainMappings(Bind(s)) \in Seq(Mapping)
           /\ DOMAIN BuildDomainMappings(Bind(s)) = DOMAIN s
           /\ \A i \in DOMAIN s : BuildDomainMappings(Bind(s))[i] = Kept(Bind(s)[i])
<1> DEFINE b == Bind(s)
           kept(i) == Kept(b[i])
<1>1. b \in Seq(Mapping) /\ Len(b) = Len(s) /\ \A i \in 1 .. Len(s) : b[i].order = i - 1
    BY BindReadsRows
<1>2. Len(s) \in Nat /\ DOMAIN s = 1 .. Len(s)
    BY RowsAreRows
<1> HIDE DEF b
<1>3. OrderBy(b) = b
    BY <1>1, SortedStays
<1>4. DOMAIN b = 1 .. Len(s) /\ \A i \in 1 .. Len(s) : b[i] \in Mapping
    BY <1>1, ElementOfSeq, LenProperties
<1>5. \A i \in 1 .. Len(s) : kept(i) \in Mapping
    BY <1>4, BlankAssumption DEF Kept, Mapping
<1>6. BuildDomainMappings(b) = [i \in 1 .. Len(s) |-> kept(i)]
    BY <1>3, <1>4 DEF BuildDomainMappings
<1> HIDE DEF kept
<1>7. BuildDomainMappings(b) \in Seq(Mapping) /\ DOMAIN BuildDomainMappings(b) = 1 .. Len(s)
    BY <1>2, <1>5, <1>6, IsASeq
<1>8. \A i \in 1 .. Len(s) : BuildDomainMappings(b)[i] = kept(i)
    BY <1>6
<1> QED
    BY <1>2, <1>3, <1>7, <1>8 DEF b, kept

LEMMA AcceptInv ==
    ASSUME IInv, Accept
    PROVE  IInv'
<1>1. /\ rows' = SetRowIndexing(rows) /\ help' = help /\ ScriptStarts /\ page' = "left"
      /\ stored' = BuildDomainMappings(Bind(SetRowIndexing(rows)))
    BY DEF Accept
<1>2. TableOK(rows') /\ AccessFollowsType'
    BY <1>1, IndexingAgain DEF IInv
<1>3. stored' \in Seq(Mapping)
    BY <1>1, <1>2, StoresWhatIsShown DEF TableOK
<1>4. RowsInv'
    BY <1>1, <1>2 DEF IInv, RowsInv, ScriptStarts, DropsWhatIsDragged
<1> QED
    BY <1>1, <1>3, <1>4, EditorStarts DEF IInv, ServerInv

LEMMA RefuseInv ==
    ASSUME IInv, Refuse
    PROVE  IInv'
<1> DEFINE s == SetRowIndexing(rows)
           nodes == [i \in DOMAIN rows |-> rows[i].node]
<1>1. Show(Bind(s), nodes) /\ ScriptStarts /\ stored' = stored
    BY DEF Refuse
<1>2. rows \in Seq(Row) /\ Distinct(rows) /\ DOMAIN rows = 1 .. Len(rows) /\ rows # <<>> /\ Len(rows) \in Nat
    BY RowsAreRows DEF IInv, RowsInv, TableOK
<1>3. s \in Seq(Row) /\ Indexed(s) /\ Len(s) = Len(rows)
    BY <1>2, IndexingNumbers
<1>4. Bind(s) \in Seq(Mapping) /\ Len(Bind(s)) = Len(rows)
    BY <1>3, BindReadsRows
<1> HIDE DEF s
<1>5. Bind(s) # <<>> /\ DOMAIN Bind(s) = DOMAIN rows
    BY <1>2, <1>4, EmptySeq, LenProperties
<1>6. ShownFor(Bind(s)) = Bind(s)
    BY <1>5 DEF ShownFor
<1>7. \A i \in DOMAIN rows : nodes[i] \in Nodes
    BY <1>2, RowsAreRows DEF Row
<1>8. \A i, j \in DOMAIN rows : nodes[i] = nodes[j] => i = j
    BY <1>2 DEF Distinct
<1> HIDE DEF nodes
<1>9. TableOK(rows') /\ AccessFollowsType' /\ page' = "form"
    BY <1>1, <1>4, <1>5, <1>6, <1>7, <1>8, ShowMakesTable
<1>10. RowsInv'
    <2>1. help' \in BOOLEAN
        BY <1>9 DEF AccessFollowsType
    <2> QED
        BY <1>1, <1>9, <2>1 DEF RowsInv, ScriptStarts, DropsWhatIsDragged
<1> QED
    BY <1>1, <1>9, <1>10, EditorStarts DEF IInv, ServerInv

LEMMA StutterInv ==
    ASSUME IInv, UNCHANGED vars
    PROVE  IInv'
<1>1. RowsInv'
    BY DEF IInv, RowsInv, AccessFollowsType, DropsWhatIsDragged, vars, dragVars
<1>2. EditorInv'
    BY DEF IInv, EditorInv, EditorTypes, EditorWaits, EditorShowsTarget, EditorCovers, vars, monacoVars,
        serverVars
<1> QED
    BY <1>1, <1>2 DEF IInv, ServerInv, vars, serverVars

LEMMA NextInv == IInv /\ [Next]_vars => IInv'
<1> SUFFICES ASSUME IInv, [Next]_vars
             PROVE  IInv'
    OBVIOUS
<1>1. ASSUME NEW i \in DOMAIN rows, OnRow(i)
      PROVE  IInv'
    <2>1. CASE ClickRemove(i)
        BY <2>1, ClickRemoveInv
    <2>2. CASE ChangeType(i)
        BY <2>2, ChangeTypeInv
    <2>3. CASE TypeParameter(i)
        BY <2>3, TypeParameterInv
    <2>4. CASE DragStart(i)
        BY <2>4, DragStartInv
    <2>5. CASE Drop(i)
        BY <2>5, DropInv
    <2>6. CASE OpenEditor(i)
        BY <2>6, OpenEditorInv
    <2>7. CASE TickRequired(i)
        BY <2>7, TickRequiredInv
    <2> QED
        BY <1>1, <2>1, <2>2, <2>3, <2>4, <2>5, <2>6, <2>7 DEF OnRow
<1> QED
    BY <1>1, StutterInv, OpenPageInv, ClickAddInv, DragEndInv, MonacoLoadsInv, EditCodeInv, SaveCodeInv,
       DismissEditorInv, AcceptInv, RefuseInv
    DEF Next

LEMMA SpecInv == Spec => []IInv
BY InitInv, NextInv, PTL DEF Spec

-----------------------------------------------------------------------------
(* The properties *)

\* The types of the form's state, and that no two rows are the same one.
THEOREM TypeCorrect == Spec => []TypeOK
<1>1. IInv => TypeOK
    BY DEF IInv, RowsInv, TableOK, Distinct, EditorInv, EditorTypes, ServerInv, TypeOK
<1> QED
    BY <1>1, SpecInv, PTL

\* Whatever has been added, removed and dragged, the inputs would post the rows that
\* are shown, all of them and in their order, each with its type and parameter, and
\* each as not required whatever its box says.
THEOREM PostsWhatIsShown == Spec => []PostedIsShown
<1>1. ASSUME IInv
      PROVE  PostedIsShown
    <2>1. rows \in Seq(Row) /\ Indexed(rows) /\ Len(rows) \in Nat /\ DOMAIN rows = 1 .. Len(rows)
        BY <1>1, RowsAreRows DEF IInv, RowsInv, TableOK
    <2> DEFINE posted == OrderBy(Bind(rows))
    <2>2. posted = Bind(rows)
        BY <2>1, StoresWhatIsShown
    <2>3. posted \in Seq(Mapping) /\ Len(posted) = Len(rows)
          /\ \A i \in 1 .. Len(rows) : Item(posted[i]) = Posted(Item(rows[i]))
        BY <2>1, <2>2, BindReadsRows
    <2> HIDE DEF posted
    <2>4. DOMAIN posted = 1 .. Len(rows)
        BY <2>3, LenProperties
    <2>5. [i \in DOMAIN posted |-> Item(posted[i])] = [i \in DOMAIN rows |-> Posted(Item(rows[i]))]
        BY <2>1, <2>3, <2>4
    <2>6. [i \in DOMAIN rows |-> Posted(Shown[i])] = [i \in DOMAIN rows |-> Posted(Item(rows[i]))]
        BY DEF Shown
    <2> QED
        BY <2>5, <2>6 DEF PostedIsShown, posted
<1> QED
    BY <1>1, SpecInv, PTL

\* The table never runs out of rows, so a form always posts a mapping.
THEOREM AlwaysARow == Spec => []NeverEmpty
<1>1. IInv => NeverEmpty
    BY DEF IInv, RowsInv, TableOK, NeverEmpty
<1> QED
    BY <1>1, SpecInv, PTL

\* The guide, the buttons and the closed inputs are always those of the types selected.
THEOREM AccessCorrect == Spec => []AccessFollowsType
<1>1. IInv => AccessFollowsType
    BY DEF IInv, RowsInv
<1> QED
    BY <1>1, SpecInv, PTL

\* No drop moves a row that is not being dragged.
THEOREM DragCorrect == Spec => []DropsWhatIsDragged
<1>1. IInv => DropsWhatIsDragged
    BY DEF IInv, RowsInv
<1> QED
    BY <1>1, SpecInv, PTL

\* The editor shows the code of the row it will write to.
THEOREM EditorCorrect == Spec => []EditorShowsTarget
<1>1. IInv => EditorShowsTarget
    BY DEF IInv, EditorInv
<1> QED
    BY <1>1, SpecInv, PTL

\* A click on { } is answered at once or waits for Monaco.
THEOREM ClicksAreKept == Spec => []NoClickIsLost
<1>1. IInv => NoClickIsLost
    BY DEF IInv, EditorInv, EditorWaits, NoClickIsLost
<1> QED
    BY <1>1, SpecInv, PTL

\* What the code editor replaces its owner has seen, unless it opened late.
THEOREM SavesOverWhatWasSeen == Spec => SaveReplacesWhatWasSeen
<1>1. IInv /\ [Next]_vars =>
          [\A i \in DOMAIN rows :
              (SaveCode /\ ~ opened.late /\ rows[i].node = currentInputTarget)
              => rows[i].parameter = opened.code]_vars
    BY DEF IInv, EditorInv, EditorCovers, SaveCode
<1> QED
    BY <1>1, SpecInv, PTL DEF Spec, SaveReplacesWhatWasSeen

\* A dropped row takes the place of the one it is dropped on.
LEMMA DropStep ==
    ASSUME IInv, NEW i \in DOMAIN rows, drag = "over", Drop(i)
    PROVE  rows'[i].node = dragSource
<1>1. rows \in Seq(Row) /\ Len(rows) \in Nat /\ DOMAIN rows = 1 .. Len(rows)
    BY RowsAreRows DEF IInv, RowsInv, TableOK
<1>2. CASE dragSource \in {NoNode, rows[i].node}
    <2>1. UNCHANGED rows
        BY <1>2 DEF Drop
    <2>2. PICK q \in DOMAIN rows : rows[q].node = dragSource
        BY DEF IInv, RowsInv, DropsWhatIsDragged
    <2>3. rows[q].node \in Nodes
        BY <1>1, RowsAreRows DEF Row
    <2> QED
        BY <1>2, <2>1, <2>2, <2>3, NodesAssumption
<1>3. CASE dragSource \notin {NoNode, rows[i].node}
    <2>1. PICK source \in DOMAIN rows :
             rows[source].node = dragSource /\ rows' = SetRowIndexing(Place(source, i))
        BY <1>3 DEF Drop
    <2>2. source # i
        BY <1>3, <2>1
    <2>3. \A p \in DOMAIN rows : SameRow(rows'[p], rows[Before(source, i, p)])
        BY <2>1, <2>2, DropKeepsTable DEF IInv, RowsInv
    <2>4. Before(source, i, i) = source
        BY DEF Before
    <2> QED
        BY <2>1, <2>3, <2>4 DEF SameRow
<1> QED
    BY <1>2, <1>3

THEOREM DropsTakePlaces == Spec => DropTakesThePlace
<1>1. IInv /\ [Next]_vars =>
          [\A i \in DOMAIN rows : (drag = "over" /\ Drop(i)) => rows'[i].node = dragSource]_vars
    BY DropStep
<1> QED
    BY <1>1, SpecInv, PTL DEF Spec, DropTakesThePlace

-----------------------------------------------------------------------------
(* The table is the owner's list *)

SavedItems == [i \in DOMAIN stored |-> Item(stored[i])]

ListItems == [type : Types, parameter : Texts, isRequired : BOOLEAN]

\* The list that a table shows has its rows, as many and in their order.
LEMMA ShownIsList ==
    ASSUME TableOK(rows)
    PROVE  /\ Shown \in Seq(ListItems) /\ Len(Shown) = Len(rows) /\ DOMAIN Shown = 1 .. Len(rows)
           /\ Len(rows) \in Nat /\ DOMAIN rows = 1 .. Len(rows)
           /\ \A i \in 1 .. Len(rows) : Shown[i] = Item(rows[i])
<1>1. /\ Len(rows) \in Nat /\ DOMAIN rows = 1 .. Len(rows)
      /\ \A i \in 1 .. Len(rows) : rows[i] \in Row
    BY RowsAreRows DEF TableOK
<1> DEFINE item(i) == Item(rows[i])
<1>2. \A i \in 1 .. Len(rows) : item(i) \in ListItems
    BY <1>1 DEF Item, Row, ListItems
<1>3. Shown = [i \in 1 .. Len(rows) |-> item(i)]
    BY <1>1 DEF Shown
<1> HIDE DEF item
<1>4. Shown \in Seq(ListItems) /\ DOMAIN Shown = 1 .. Len(rows)
    BY <1>1, <1>2, <1>3, IsASeq
<1>5. Len(Shown) = Len(rows)
    BY <1>1, <1>4, LenProperties
<1>6. \A i \in 1 .. Len(rows) : Shown[i] = item(i)
    BY <1>3
<1> QED
    BY <1>1, <1>4, <1>5, <1>6 DEF item

\* The same of the table after a step.
LEMMA ShownNextIsList ==
    ASSUME TableOK(rows')
    PROVE  /\ Shown' \in Seq(ListItems) /\ Len(Shown') = Len(rows') /\ DOMAIN Shown' = 1 .. Len(rows')
           /\ Len(rows') \in Nat /\ DOMAIN rows' = 1 .. Len(rows')
           /\ \A i \in 1 .. Len(rows') : Shown'[i] = Item(rows'[i])
<1>1. /\ Len(rows') \in Nat /\ DOMAIN rows' = 1 .. Len(rows')
      /\ \A i \in 1 .. Len(rows') : rows'[i] \in Row
    BY RowsAreRows DEF TableOK
<1> DEFINE item(i) == Item(rows'[i])
<1>2. \A i \in 1 .. Len(rows') : item(i) \in ListItems
    BY <1>1 DEF Item, Row, ListItems
<1>3. Shown' = [i \in 1 .. Len(rows') |-> item(i)]
    BY <1>1 DEF Shown
<1> HIDE DEF item
<1>4. Shown' \in Seq(ListItems) /\ DOMAIN Shown' = 1 .. Len(rows')
    BY <1>1, <1>2, <1>3, IsASeq
<1>5. Len(Shown') = Len(rows')
    BY <1>1, <1>4, LenProperties
<1>6. \A i \in 1 .. Len(rows') : Shown'[i] = item(i)
    BY <1>3
<1> QED
    BY <1>1, <1>4, <1>5, <1>6 DEF item

\* A step that shows the same rows is none for the list.
LEMMA SameShown ==
    ASSUME DOMAIN rows' = DOMAIN rows, \A i \in DOMAIN rows : Item(rows'[i]) = Item(rows[i])
    PROVE  Shown' = Shown
BY DEF Shown

\* Two lists with the same rows are the same.
LEMMA SameList ==
    ASSUME TableOK(rows'), NEW list \in Seq(ListItems), Len(list) = Len(rows'),
           \A p \in 1 .. Len(rows') : list[p] = Item(rows'[p])
    PROVE  Shown' = list
<1>1. /\ Shown' \in Seq(ListItems) /\ Len(Shown') = Len(rows') /\ Len(rows') \in Nat
      /\ \A p \in 1 .. Len(rows') : Shown'[p] = Item(rows'[p])
    BY ShownNextIsList
<1>2. DOMAIN Shown' = 1 .. Len(rows') /\ DOMAIN list = 1 .. Len(rows')
    BY <1>1, LenProperties
<1>3. Shown' = [p \in DOMAIN Shown' |-> Shown'[p]] /\ list = [p \in DOMAIN list |-> list[p]]
    BY <1>1
<1> QED
    BY <1>1, <1>2, <1>3

\* Add Mapping.
LEMMA AddStep ==
    ASSUME IInv, ClickAdd
    PROVE  Table!AddRow
<1>1. PICK node \in Unused(rows) : rows' = AddMappingRow(rows, node)
    BY DEF ClickAdd
<1>2. TableOK(rows) /\ rows \in Seq(Row) /\ Distinct(rows)
    BY DEF IInv, RowsInv, TableOK
<1>3. node \in Nodes \ NodesOf(rows)
    BY DEF Unused
<1>4. /\ TableOK(rows') /\ Len(rows') = Len(rows) + 1
      /\ \A i \in 1 .. Len(rows) : SameRow(rows'[i], rows[i])
      /\ rows'[Len(rows) + 1].type = None
      /\ rows'[Len(rows) + 1].parameter = Blank
      /\ rows'[Len(rows) + 1].isRequired = FALSE
    BY <1>1, <1>2, <1>3, AddingAppends
<1> DEFINE blank == [type |-> None, parameter |-> Blank, isRequired |-> FALSE]
           list == Append(Shown, blank)
<1>5. /\ Shown \in Seq(ListItems) /\ Len(Shown) = Len(rows) /\ Len(rows) \in Nat
      /\ \A i \in 1 .. Len(rows) : Shown[i] = Item(rows[i])
    BY <1>2, ShownIsList
<1>6. blank \in ListItems
    BY TypesAssumption, BlankAssumption DEF ListItems
<1>7. Item(rows'[Len(rows) + 1]) = blank
    BY <1>4 DEF Item
<1> HIDE DEF blank
<1>8. /\ list \in Seq(ListItems) /\ Len(list) = Len(rows) + 1
      /\ \A i \in 1 .. Len(rows) : list[i] = Shown[i]
      /\ list[Len(rows) + 1] = blank
    BY <1>5, <1>6, AppendProperties
<1> HIDE DEF list
<1>9. \A i \in 1 .. Len(rows) : Item(rows'[i]) = Item(rows[i])
    BY <1>4 DEF SameRow, Item
<1>10. \A p \in 1 .. Len(rows') : list[p] = Item(rows'[p])
    BY <1>4, <1>5, <1>7, <1>8, <1>9
<1>11. Shown' = list
    BY <1>4, <1>8, <1>10, SameList
<1>12. page = "form" /\ UNCHANGED <<SavedItems, page>>
    BY DEF ClickAdd, AtForm, elsewhere, serverVars, SavedItems
<1> QED
    BY <1>11, <1>12 DEF Table!AddRow, Table!Edited, Table!BlankItem, SavedItems, list, blank

\* The button that removes a row.
LEMMA RemoveStep ==
    ASSUME IInv, NEW i \in DOMAIN rows, ClickRemove(i)
    PROVE  Table!RemoveRow(i) /\ i \in DOMAIN Shown
<1>1. PICK node \in Unused(rows) :
         CheckCustomExpressionSelection(SetRowIndexing(
             IF Len(rows) = 1 THEN AddMappingRow(<<>>, node) ELSE RemoveAt(rows, i)))
    BY DEF ClickRemove
<1>2. TableOK(rows) /\ rows \in Seq(Row) /\ Distinct(rows)
    BY DEF IInv, RowsInv, TableOK
<1>3. /\ Shown \in Seq(ListItems) /\ Len(Shown) = Len(rows) /\ Len(rows) \in Nat
      /\ DOMAIN rows = 1 .. Len(rows) /\ DOMAIN Shown = 1 .. Len(rows)
      /\ \A k \in 1 .. Len(rows) : Shown[k] = Item(rows[k])
    BY <1>2, ShownIsList
<1>4. page = "form" /\ UNCHANGED <<SavedItems, page>>
    BY DEF ClickRemove, AtForm, elsewhere, serverVars, SavedItems
<1>5. CASE Len(rows) = 1
    <2> DEFINE left == AddMappingRow(<<>>, node)
               blank == [type |-> None, parameter |-> Blank, isRequired |-> FALSE]
               list == <<blank>>
    <2>1. <<>> \in Seq(Row) /\ Distinct(<<>>) /\ node \in Nodes \ NodesOf(<<>>) /\ Len(<<>>) = 0
        BY DEF Distinct, Unused, NodesOf
    <2>2. /\ TableOK(left) /\ Len(left) = 1
          /\ left[1].type = None /\ left[1].parameter = Blank /\ left[1].isRequired = FALSE
        <3> DEFINE empty == <<>>
        <3>1. /\ empty \in Seq(Row) /\ Distinct(empty) /\ node \in Nodes \ NodesOf(empty)
              /\ Len(empty) + 1 = 1 /\ left = AddMappingRow(empty, node)
            BY <2>1
        <3> HIDE DEF empty, left
        <3>2. /\ TableOK(AddMappingRow(empty, node))
              /\ Len(AddMappingRow(empty, node)) = Len(empty) + 1
              /\ AddMappingRow(empty, node)[Len(empty) + 1].type = None
              /\ AddMappingRow(empty, node)[Len(empty) + 1].parameter = Blank
              /\ AddMappingRow(empty, node)[Len(empty) + 1].isRequired = FALSE
            BY <3>1, AddingAppends
        <3> QED
            BY <3>1, <3>2
    <2>3. CheckCustomExpressionSelection(SetRowIndexing(left))
        BY <1>1, <1>5
    <2> HIDE DEF left
    <2>4. left \in Seq(Row) /\ Distinct(left) /\ left # <<>> /\ DOMAIN left = 1 .. 1
        BY <2>2, LenProperties DEF TableOK
    <2>5. /\ TableOK(SetRowIndexing(left)) /\ DOMAIN SetRowIndexing(left) = 1 .. 1
          /\ SameRow(SetRowIndexing(left)[1], left[1])
        BY <2>4, IndexingMakesTable
    <2>6. /\ TableOK(rows') /\ DOMAIN rows' = 1 .. 1
          /\ rows'[1].type = None /\ rows'[1].parameter = Blank /\ rows'[1].isRequired = FALSE
        BY <2>2, <2>3, <2>5, SelectionKeepsTable DEF SameRow
    <2>7. rows' \in Seq(Row) /\ Len(rows') = 1
        BY <2>6, LenProperties DEF TableOK
    <2>8. list \in Seq(ListItems) /\ Len(list) = 1 /\ list[1] = blank
        BY TypesAssumption, BlankAssumption DEF ListItems
    <2>9. \A p \in 1 .. Len(rows') : list[p] = Item(rows'[p])
        <3>1. Item(rows'[1]) = blank
            BY <2>6, Zenon DEF Item
        <3> HIDE DEF blank, list
        <3> QED
            BY <2>7, <2>8, <3>1
    <2> HIDE DEF list
    <2>10. Shown' = list
        BY <2>6, <2>7, <2>8, <2>9, SameList
    <2> QED
        BY <1>3, <1>4, <1>5, <2>10 DEF Table!RemoveRow, Table!Edited, Table!BlankItem, SavedItems, list
<1>6. CASE Len(rows) # 1
    <2> DEFINE left == RemoveAt(rows, i)
               list == RemoveAt(Shown, i)
    <2>1. /\ left \in Seq(Row) /\ Distinct(left) /\ left # <<>>
        BY <1>2, <1>3, <1>6, RemovingKeepsRows
    <2>2. /\ Len(left) = Len(rows) - 1
          /\ \A p \in 1 .. Len(rows) - 1 : left[p] = IF p < i THEN rows[p] ELSE rows[p + 1]
        BY <1>2, <1>3, RemoveAtIsShorter
    <2>3. i \in 1 .. Len(Shown)
        BY <1>3
    <2>4. /\ list \in Seq(ListItems) /\ Len(list) = Len(Shown) - 1
          /\ \A p \in 1 .. Len(Shown) - 1 : list[p] = IF p < i THEN Shown[p] ELSE Shown[p + 1]
        BY <1>3, <2>3, RemoveAtIsShorter
    <2>5. CheckCustomExpressionSelection(SetRowIndexing(left))
        BY <1>1, <1>6
    <2> HIDE DEF left, list
    <2>6. DOMAIN left = 1 .. Len(rows) - 1
        BY <2>1, <2>2, LenProperties
    <2>7. /\ TableOK(SetRowIndexing(left)) /\ DOMAIN SetRowIndexing(left) = 1 .. Len(rows) - 1
          /\ \A p \in 1 .. Len(rows) - 1 : SameRow(SetRowIndexing(left)[p], left[p])
        BY <2>1, <2>6, IndexingMakesTable
    <2>8. /\ TableOK(rows') /\ DOMAIN rows' = 1 .. Len(rows) - 1
          /\ \A p \in 1 .. Len(rows) - 1 :
                /\ rows'[p].type = left[p].type
                /\ rows'[p].parameter = left[p].parameter
                /\ rows'[p].isRequired = left[p].isRequired
        BY <2>5, <2>7, SelectionKeepsTable DEF SameRow
    <2>9. Len(rows') = Len(rows) - 1
        <3>1. Len(rows') \in Nat /\ DOMAIN rows' = 1 .. Len(rows')
            BY <2>8, ShownNextIsList
        <3>2. Len(rows) - 1 \in Nat
            BY <1>3
        <3> QED
            BY <2>8, <3>1, <3>2
    <2>10. \A p \in 1 .. Len(rows) - 1 : Item(rows'[p]) = Item(left[p])
        BY <2>8 DEF Item
    <2>11. \A p \in 1 .. Len(rows') : list[p] = Item(rows'[p])
        BY <1>3, <2>2, <2>4, <2>9, <2>10
    <2>12. Shown' = list
        BY <1>3, <2>4, <2>8, <2>9, <2>11, SameList
    <2> QED
        BY <1>3, <1>4, <1>6, <2>12 DEF Table!RemoveRow, Table!Edited, SavedItems, list, Table!RemoveAt, RemoveAt
<1> QED
    BY <1>5, <1>6

\* A change to the row at i, of its type or its parameter.
LEMMA ChangeStep ==
    ASSUME TableOK(rows), TableOK(rows'), NEW i \in DOMAIN rows, NEW item \in ListItems,
           DOMAIN rows' = DOMAIN rows, Item(rows'[i]) = item,
           \A k \in DOMAIN rows : k # i => Item(rows'[k]) = Item(rows[k])
    PROVE  Shown' = [Shown EXCEPT ![i] = item] /\ i \in DOMAIN Shown /\ Shown[i] = Item(rows[i])
<1>1. /\ Shown \in Seq(ListItems) /\ Len(Shown) = Len(rows) /\ DOMAIN Shown = 1 .. Len(rows)
      /\ Len(rows) \in Nat /\ DOMAIN rows = 1 .. Len(rows)
      /\ \A k \in 1 .. Len(rows) : Shown[k] = Item(rows[k])
    BY ShownIsList
<1> DEFINE list == [Shown EXCEPT ![i] = item]
<1>2. list \in Seq(ListItems) /\ Len(list) = Len(rows)
    BY <1>1, ExceptSeq
<1>3. \A k \in 1 .. Len(rows) : list[k] = IF k = i THEN item ELSE Shown[k]
    BY <1>1
<1> HIDE DEF list
<1>4. Len(rows') = Len(rows)
    BY <1>1, ShownNextIsList
<1>5. \A k \in 1 .. Len(rows') : list[k] = Item(rows'[k])
    BY <1>1, <1>3, <1>4
<1>6. Shown' = list
    BY <1>2, <1>4, <1>5, SameList
<1> QED
    BY <1>1, <1>6 DEF list

LEMMA TypeStep ==
    ASSUME IInv, NEW i \in DOMAIN rows, ChangeType(i)
    PROVE  Table!ChangeType(i) /\ i \in DOMAIN Shown
<1>1. PICK t \in Types : CheckCustomExpressionSelection([rows EXCEPT ![i].type = t])
    BY DEF ChangeType
<1>2. TableOK(rows) /\ rows \in Seq(Row) /\ DOMAIN rows = 1 .. Len(rows) /\ rows[i] \in Row
    BY RowsAreRows DEF IInv, RowsInv, TableOK
<1> DEFINE row == [rows[i] EXCEPT !.type = t]
           s == [rows EXCEPT ![i] = row]
           item == [Item(rows[i]) EXCEPT !.type = t]
<1>3. /\ row \in Row /\ row.node = rows[i].node
      /\ row.index = rows[i].index /\ row.order = rows[i].order
      /\ Item(row) = item /\ item \in ListItems
    <2>1. /\ row \in Row /\ row.node = rows[i].node /\ row.type = t
          /\ row.index = rows[i].index /\ row.order = rows[i].order
          /\ row.parameter = rows[i].parameter
          /\ row.isRequired = rows[i].isRequired
        BY <1>2 DEF Row
    <2>2. item = [type |-> t, parameter |-> rows[i].parameter, isRequired |-> rows[i].isRequired]
        BY DEF Item
    <2>3. item \in ListItems
        BY <1>2, <2>2 DEF Row, ListItems
    <2> HIDE DEF row, item
    <2> QED
        BY <2>1, <2>2, <2>3 DEF Item
<1>4. CheckCustomExpressionSelection(s)
    BY <1>1
<1> HIDE DEF row, item
<1>5. DOMAIN s = DOMAIN rows /\ s[i] = row /\ \A k \in DOMAIN rows : k # i => s[k] = rows[k]
    OBVIOUS
<1>6. TableOK(s)
    BY <1>2, <1>3, ChangeKeepsTable
<1> HIDE DEF s
<1>7. /\ TableOK(rows') /\ DOMAIN rows' = DOMAIN rows
      /\ \A k \in DOMAIN rows :
            /\ rows'[k].type = s[k].type
            /\ rows'[k].parameter = s[k].parameter
            /\ rows'[k].isRequired = s[k].isRequired
    BY <1>4, <1>5, <1>6, SelectionKeepsTable
<1>8. \A k \in DOMAIN rows : Item(rows'[k]) = Item(s[k])
    BY <1>7 DEF Item
<1>9. /\ Item(rows'[i]) = item
      /\ \A k \in DOMAIN rows : k # i => Item(rows'[k]) = Item(rows[k])
    BY <1>3, <1>5, <1>8
<1>10. Shown' = [Shown EXCEPT ![i] = item] /\ i \in DOMAIN Shown /\ Shown[i] = Item(rows[i])
    BY <1>2, <1>3, <1>7, <1>9, ChangeStep
<1>11. Shown' = [Shown EXCEPT ![i].type = t]
    BY <1>10 DEF item
<1>12. page = "form" /\ UNCHANGED <<SavedItems, page>>
    BY DEF ChangeType, AtForm, elsewhere, serverVars, SavedItems
<1> QED
    BY <1>10, <1>11, <1>12 DEF Table!ChangeType, Table!Edited, SavedItems

LEMMA ParameterStep ==
    ASSUME IInv, NEW i \in DOMAIN rows, TypeParameter(i)
    PROVE  Table!ChangeParameter(i) /\ i \in DOMAIN Shown
<1>1. PICK p \in Texts : rows' = [rows EXCEPT ![i].parameter = p]
    BY DEF TypeParameter
<1>2. TableOK(rows) /\ rows \in Seq(Row) /\ DOMAIN rows = 1 .. Len(rows) /\ rows[i] \in Row
    BY RowsAreRows DEF IInv, RowsInv, TableOK
<1>3. TableOK(rows')
    BY TypeParameterInv DEF IInv, RowsInv
<1> DEFINE row == [rows[i] EXCEPT !.parameter = p]
           item == [Item(rows[i]) EXCEPT !.parameter = p]
<1>4. Item(row) = item /\ item \in ListItems
    BY <1>2 DEF Row, Item, ListItems
<1>5. DOMAIN rows' = DOMAIN rows /\ rows'[i] = row /\ \A k \in DOMAIN rows : k # i => rows'[k] = rows[k]
    BY <1>1
<1> HIDE DEF row, item
<1>6. Shown' = [Shown EXCEPT ![i] = item] /\ i \in DOMAIN Shown /\ Shown[i] = Item(rows[i])
    BY <1>2, <1>3, <1>4, <1>5, ChangeStep
<1>7. Shown' = [Shown EXCEPT ![i].parameter = p]
    BY <1>6 DEF item
<1>8. page = "form" /\ UNCHANGED <<SavedItems, page>>
    BY DEF TypeParameter, AtForm, elsewhere, serverVars, SavedItems
<1> QED
    BY <1>6, <1>7, <1>8 DEF Table!ChangeParameter, Table!Edited, SavedItems

LEMMA TickStep ==
    ASSUME IInv, NEW i \in DOMAIN rows, TickRequired(i)
    PROVE  Table!ChangeRequired(i) /\ i \in DOMAIN Shown
<1>1. rows' = [rows EXCEPT ![i].isRequired = ~ rows[i].isRequired]
    BY DEF TickRequired
<1>2. TableOK(rows) /\ rows \in Seq(Row) /\ DOMAIN rows = 1 .. Len(rows) /\ rows[i] \in Row
    BY RowsAreRows DEF IInv, RowsInv, TableOK
<1>3. TableOK(rows')
    BY TickRequiredInv DEF IInv, RowsInv
<1> DEFINE tick == ~ rows[i].isRequired
           row == [rows[i] EXCEPT !.isRequired = tick]
           item == [Item(rows[i]) EXCEPT !.isRequired = tick]
<1>4. Item(row) = item /\ item \in ListItems
    <2>1. tick \in BOOLEAN
        OBVIOUS
    <2> HIDE DEF tick
    <2> QED
        BY <1>2, <2>1 DEF Row, Item, ListItems
<1>5. DOMAIN rows' = DOMAIN rows /\ rows'[i] = row /\ \A k \in DOMAIN rows : k # i => rows'[k] = rows[k]
    BY <1>1
<1> HIDE DEF row, item
<1>6. Shown' = [Shown EXCEPT ![i] = item] /\ i \in DOMAIN Shown /\ Shown[i] = Item(rows[i])
    BY <1>2, <1>3, <1>4, <1>5, ChangeStep
<1>7. Item(rows[i]).isRequired = rows[i].isRequired
    BY DEF Item
<1>8. Shown' = [Shown EXCEPT ![i].isRequired = ~ Shown[i].isRequired]
    BY <1>6, <1>7 DEF item, tick
<1>9. page = "form" /\ UNCHANGED <<SavedItems, page>>
    BY DEF TickRequired, AtForm, elsewhere, serverVars, SavedItems
<1> QED
    BY <1>6, <1>8, <1>9 DEF Table!ChangeRequired, Table!Edited, SavedItems

\* A row of the list that takes another place there.
LEMMA MovingInList ==
    ASSUME NEW S, NEW list \in Seq(S), NEW source \in 1 .. Len(list), NEW target \in 1 .. Len(list)
    PROVE  /\ InsertAt(RemoveAt(list, source), target, list[source]) \in Seq(S)
           /\ Len(InsertAt(RemoveAt(list, source), target, list[source])) = Len(list)
           /\ \A p \in 1 .. Len(list) :
                 InsertAt(RemoveAt(list, source), target, list[source])[p]
                 = list[Before(source, target, p)]
<1> DEFINE rest == RemoveAt(list, source)
           e == list[source]
           moved == InsertAt(rest, target, e)
<1>1. Len(list) \in Nat
    BY LenProperties
<1>2. /\ rest \in Seq(S) /\ Len(rest) = Len(list) - 1
      /\ \A p \in 1 .. Len(list) - 1 : rest[p] = IF p < source THEN list[p] ELSE list[p + 1]
    BY RemoveAtIsShorter
<1>3. e \in S
    BY <1>1, ElementOfSeq
<1> HIDE DEF rest
<1>4. target \in 1 .. Len(rest) + 1
    BY <1>1, <1>2
<1>5. /\ moved \in Seq(S) /\ Len(moved) = Len(rest) + 1
      /\ \A p \in 1 .. Len(rest) + 1 :
            moved[p] = IF p < target THEN rest[p] ELSE IF p = target THEN e ELSE rest[p - 1]
    <2>1. rest \in Seq(S) /\ e \in S /\ target \in 1 .. Len(rest) + 1
        BY <1>2, <1>3, <1>4
    <2> HIDE DEF e
    <2>2. InsertAt(rest, target, e) \in Seq(S)
        BY <2>1, InsertAtIsLonger
    <2>3. Len(InsertAt(rest, target, e)) = Len(rest) + 1
        BY <2>1, InsertAtIsLonger
    <2>4. ASSUME NEW p \in 1 .. Len(rest) + 1
          PROVE  InsertAt(rest, target, e)[p] =
                    IF p < target THEN rest[p] ELSE IF p = target THEN e ELSE rest[p - 1]
        BY <2>1, InsertAtIsLonger
    <2> QED
        BY <2>2, <2>3, <2>4
<1> HIDE DEF moved
<1>6. Len(moved) = Len(list)
    BY <1>1, <1>2, <1>5
<1>7. ASSUME NEW p \in 1 .. Len(list)
      PROVE  moved[p] = list[Before(source, target, p)]
    <2>1. moved[p] = IF p < target THEN rest[p] ELSE IF p = target THEN e ELSE rest[p - 1]
        BY <1>1, <1>2, <1>5
    <2>2. CASE p < target
        BY <1>1, <1>2, <2>1, <2>2 DEF Before
    <2>3. CASE p = target
        BY <1>1, <2>1, <2>3 DEF Before
    <2>4. CASE target < p
        BY <1>1, <1>2, <2>1, <2>4 DEF Before
    <2> QED
        BY <1>1, <2>2, <2>3, <2>4
<1> QED
    BY <1>5, <1>6, <1>7 DEF moved, rest

\* A drop moves a row of the list, or none.
LEMMA MoveStep ==
    ASSUME IInv, NEW i \in DOMAIN rows, Drop(i)
    PROVE  \/ Shown' = Shown
           \/ i \in DOMAIN Shown /\ \E source \in DOMAIN Shown : Table!MoveRow(source, i)
<1>1. TableOK(rows)
    BY DEF IInv, RowsInv
<1>2. /\ Shown \in Seq(ListItems) /\ Len(Shown) = Len(rows) /\ DOMAIN Shown = 1 .. Len(rows)
      /\ Len(rows) \in Nat /\ DOMAIN rows = 1 .. Len(rows)
      /\ \A k \in 1 .. Len(rows) : Shown[k] = Item(rows[k])
    BY <1>1, ShownIsList
<1>3. CASE UNCHANGED rows
    BY <1>3 DEF Shown
<1>4. ASSUME NEW source \in DOMAIN rows, source # i, rows' = SetRowIndexing(Place(source, i))
      PROVE  i \in DOMAIN Shown /\ source \in DOMAIN Shown /\ Table!MoveRow(source, i)
    <2>1. /\ TableOK(rows') /\ DOMAIN rows' = DOMAIN rows
          /\ \A p \in DOMAIN rows : SameRow(rows'[p], rows[Before(source, i, p)])
        BY <1>1, <1>4, DropKeepsTable
    <2> DEFINE list == InsertAt(RemoveAt(Shown, source), i, Shown[source])
    <2>2. source \in 1 .. Len(Shown) /\ i \in 1 .. Len(Shown)
        BY <1>2
    <2>3. /\ list \in Seq(ListItems) /\ Len(list) = Len(Shown)
          /\ \A p \in 1 .. Len(Shown) : list[p] = Shown[Before(source, i, p)]
        BY <1>2, <2>2, MovingInList
    <2> HIDE DEF list
    <2>4. Len(rows') = Len(rows)
        BY <1>2, <2>1, ShownNextIsList
    <2>5. \A p \in 1 .. Len(rows) : Before(source, i, p) \in 1 .. Len(rows)
        BY <1>2, DropPermutes
    <2>6. \A p \in 1 .. Len(rows) : Item(rows'[p]) = Item(rows[Before(source, i, p)])
        BY <1>2, <2>1 DEF SameRow, Item
    <2>7. \A p \in 1 .. Len(rows') : list[p] = Item(rows'[p])
        BY <1>2, <2>3, <2>4, <2>5, <2>6
    <2>8. Shown' = list
        BY <1>2, <2>1, <2>3, <2>4, <2>7, SameList
    <2>9. page = "form" /\ UNCHANGED <<SavedItems, page>>
        BY DEF Drop, elsewhere, serverVars, SavedItems
    <2> QED
        BY <1>2, <2>8, <2>9
        DEF Table!MoveRow, Table!Edited, SavedItems, list, Table!InsertAt, Table!RemoveAt, InsertAt, RemoveAt
<1> QED
    BY <1>2, <1>3, <1>4, DropCases

\* The code that is saved is the parameter of the editor's row, if it is still there.
LEMMA CodeStep ==
    ASSUME IInv, SaveCode
    PROVE  \/ Shown' = Shown
           \/ \E i \in DOMAIN Shown : Table!ChangeParameter(i)
<1>1. /\ TableOK(rows) /\ Distinct(rows) /\ Len(rows) \in Nat /\ DOMAIN rows = 1 .. Len(rows)
      /\ \A k \in 1 .. Len(rows) : rows[k] \in Row
    BY RowsAreRows DEF IInv, RowsInv, TableOK
<1>2. TableOK(rows')
    BY SaveCodeInv DEF IInv, RowsInv
<1>3. editorInstance \in Texts /\ page = "form" /\ UNCHANGED <<SavedItems, page>>
    <2>1. modal /\ UNCHANGED <<page, stored>>
        BY DEF SaveCode, CloseEditor, serverVars
    <2>2. editorInstance \in Texts
        BY <2>1 DEF IInv, EditorInv, EditorTypes, EditorWaits
    <2>3. page = "form"
        BY <2>1 DEF IInv, EditorInv, EditorWaits
    <2> QED
        BY <2>1, <2>2, <2>3 DEF SavedItems
<1>4. /\ DOMAIN rows' = DOMAIN rows
      /\ \A k \in DOMAIN rows :
            rows'[k] = IF rows[k].node = currentInputTarget
                       THEN [rows[k] EXCEPT !.parameter = editorInstance]
                       ELSE rows[k]
    BY <1>1 DEF SaveCode
<1>5. CASE \E i \in DOMAIN rows : rows[i].node = currentInputTarget
    <2>1. PICK i \in DOMAIN rows : rows[i].node = currentInputTarget
        BY <1>5
    <2>2. \A k \in DOMAIN rows : k # i => rows[k].node # currentInputTarget
        BY <1>1, <2>1 DEF Distinct
    <2> DEFINE item == [Item(rows[i]) EXCEPT !.parameter = editorInstance]
    <2>3. Item(rows'[i]) = item /\ item \in ListItems
        BY <1>1, <1>3, <1>4, <2>1 DEF Row, Item, ListItems
    <2>4. \A k \in DOMAIN rows : k # i => Item(rows'[k]) = Item(rows[k])
        BY <1>4, <2>2
    <2> HIDE DEF item
    <2>5. Shown' = [Shown EXCEPT ![i] = item] /\ i \in DOMAIN Shown /\ Shown[i] = Item(rows[i])
        BY <1>1, <1>2, <1>4, <2>3, <2>4, ChangeStep
    <2>6. Shown' = [Shown EXCEPT ![i].parameter = editorInstance]
        BY <2>5 DEF item
    <2> QED
        BY <1>3, <2>5, <2>6 DEF Table!ChangeParameter, Table!Edited, SavedItems
<1>6. CASE ~ \E i \in DOMAIN rows : rows[i].node = currentInputTarget
    <2>1. \A k \in DOMAIN rows : rows'[k] = rows[k]
        BY <1>4, <1>6
    <2> QED
        BY <1>4, <2>1 DEF Shown
<1> QED
    BY <1>5, <1>6

\* Submit, when the server accepts it.
LEMMA SaveStep ==
    ASSUME IInv, Accept
    PROVE  Table!Save
<1> DEFINE mappings == BuildDomainMappings(Bind(rows'))
<1>1. /\ AtForm /\ rows' = SetRowIndexing(rows) /\ page' = "left" /\ help' = help
      /\ stored' = mappings
      /\ ModelStateIsValid(Bind(rows'))
      /\ \A i \in DOMAIN mappings : HasItsParameter(mappings[i])
    BY DEF Accept
<1>2. TableOK(rows) /\ DOMAIN rows = 1 .. Len(rows)
    BY RowsAreRows DEF IInv, RowsInv, TableOK
<1>3. /\ TableOK(rows') /\ DOMAIN rows' = DOMAIN rows
      /\ \A k \in DOMAIN rows : SameRow(rows'[k], rows[k])
    BY <1>1, IndexingAgain DEF IInv
<1>4. rows' \in Seq(Row) /\ Indexed(rows')
    BY <1>3 DEF TableOK
<1>5. /\ DOMAIN mappings = DOMAIN rows'
      /\ \A i \in DOMAIN rows' : mappings[i] = Kept(Bind(rows')[i])
    BY <1>4, StoresWhatIsShown
<1>6. \A i \in DOMAIN rows' : Item(Bind(rows')[i]) = Posted(Item(rows'[i]))
    BY <1>2, <1>3, <1>4, BindReadsRows, ShownNextIsList
<1>7. \A i \in DOMAIN rows : Item(rows'[i]) = Item(rows[i])
    BY <1>3 DEF SameRow, Item
<1> HIDE DEF mappings
<1>8. DOMAIN Shown = DOMAIN rows /\ \A i \in DOMAIN rows : Shown[i] = Item(rows[i])
    BY DEF Shown
<1>9. \A i \in DOMAIN rows : Item(Bind(rows')[i]) = Posted(Shown[i])
    BY <1>3, <1>6, <1>7, <1>8
<1>10. DOMAIN Bind(rows') = DOMAIN rows
    <2>1. Bind(rows') \in Seq(Mapping) /\ Len(Bind(rows')) = Len(rows')
        BY <1>4, BindReadsRows
    <2>2. DOMAIN rows' = 1 .. Len(rows')
        BY <1>3, ShownNextIsList
    <2> QED
        BY <1>3, <2>1, <2>2, LenProperties
<1>11. ASSUME NEW i \in DOMAIN rows
       PROVE  /\ Item(mappings[i]) = Table!Posted(Shown[i])
              /\ Shown[i].type # None
              /\ Shown[i].type \in NeedParameter => Shown[i].parameter # Blank
    <2> DEFINE m == Bind(rows')[i]
    <2>1. Item(m) = Posted(Shown[i]) /\ mappings[i] = Kept(m)
        BY <1>3, <1>5, <1>9
    <2>2. HasItsParameter(mappings[i])
        BY <1>1, <1>3, <1>5
    <2>3. m.type # None
        BY <1>1, <1>10 DEF ModelStateIsValid
    <2> HIDE DEF m
    <2>4. mappings[i] = m
        BY <2>1, <2>3 DEF Kept
    <2>5. m.type = Shown[i].type /\ m.parameter = Shown[i].parameter
        <3>1. Shown[i] = Item(rows[i])
            BY <1>8
        <3>2. Posted(Shown[i]).type = Shown[i].type /\ Posted(Shown[i]).parameter = Shown[i].parameter
            BY <3>1 DEF Posted, Item
        <3>3. Item(m).type = m.type /\ Item(m).parameter = m.parameter
            BY DEF Item
        <3> QED
            BY <2>1, <3>2, <3>3
    <2> QED
        BY <2>1, <2>2, <2>3, <2>4, <2>5 DEF HasItsParameter, Posted, Table!Posted
<1>12. SavedItems' = [i \in DOMAIN Shown |-> Table!Posted(Shown[i])]
    BY <1>1, <1>3, <1>5, <1>8, <1>11 DEF SavedItems
<1>13. Shown' = Shown
    BY <1>3, <1>7, SameShown
<1>14. page = "form"
    BY <1>1 DEF AtForm
<1> QED
    BY <1>1, <1>8, <1>11, <1>12, <1>13, <1>14 DEF Table!Save, Table!PostedList, SavedItems

\* A page that opens shows the mappings of the job.
LEMMA OpenStep ==
    ASSUME IInv, OpenPage
    PROVE  Table!Open
<1>1. PICK nodes \in [1 .. (IF stored = <<>> THEN 1 ELSE Len(stored)) -> Nodes] :
         /\ \A i, j \in DOMAIN nodes : nodes[i] = nodes[j] => i = j
         /\ Show(stored, nodes)
    BY DEF OpenPage
<1>2. stored \in Seq(Mapping) /\ DOMAIN stored = 1 .. Len(stored) /\ stored' = stored
    BY LenProperties DEF IInv, ServerInv, OpenPage
<1>3. DOMAIN ShownFor(stored) = 1 .. (IF stored = <<>> THEN 1 ELSE Len(stored))
    <2>1. DOMAIN <<BlankMapping>> = 1 .. 1
        OBVIOUS
    <2> QED
        BY <1>2, <2>1, Zenon DEF ShownFor
<1>4. /\ page' = "form" /\ DOMAIN rows' = DOMAIN ShownFor(stored)
      /\ \A i \in DOMAIN ShownFor(stored) : Item(rows'[i]) = Item(ShownFor(stored)[i])
    BY <1>1, <1>2, <1>3, ShowMakesTable
<1>5. Shown' = [i \in DOMAIN ShownFor(stored) |-> Item(ShownFor(stored)[i])]
    BY <1>4 DEF Shown
<1>6. CASE stored = <<>>
    <2> DEFINE blank == [type |-> None, parameter |-> Blank, isRequired |-> FALSE]
    <2>1. Item(BlankMapping) = blank
        BY DEF Item, BlankMapping
    <2> HIDE DEF blank
    <2>2. ShownFor(stored) = <<BlankMapping>>
        BY <1>6 DEF ShownFor
    <2>3. [i \in DOMAIN <<BlankMapping>> |-> Item(<<BlankMapping>>[i])] = <<Item(BlankMapping)>>
        OBVIOUS
    <2>4. Shown' = <<blank>>
        BY <1>5, <2>1, <2>2, <2>3
    <2>5. SavedItems = <<>>
        BY <1>6 DEF SavedItems
    <2> QED
        BY <1>2, <1>4, <2>4, <2>5 DEF Table!Open, Table!Opened, Table!BlankItem, SavedItems, blank
<1>7. CASE stored # <<>>
    <2>1. Shown' = SavedItems
        BY <1>5, <1>7 DEF ShownFor, SavedItems
    <2>2. SavedItems # <<>>
        <3>1. Len(stored) # 0 /\ Len(stored) \in Nat
            BY <1>2, <1>7, EmptySeq, LenProperties
        <3>2. 1 \in DOMAIN SavedItems
            BY <1>2, <3>1 DEF SavedItems
        <3> QED
            BY <3>2
    <2> QED
        BY <1>2, <1>4, <2>1, <2>2 DEF Table!Open, Table!Opened, SavedItems
<1> QED
    BY <1>6, <1>7

\* A refused form shows again what was posted.
LEMMA RefuseStep ==
    ASSUME IInv, Refuse
    PROVE  Table!Refused
<1> DEFINE s == SetRowIndexing(rows)
           nodes == [i \in DOMAIN rows |-> rows[i].node]
<1>1. Show(Bind(s), nodes) /\ page = "form" /\ stored' = stored
    BY DEF Refuse, AtForm
<1>2. rows \in Seq(Row) /\ Distinct(rows) /\ DOMAIN rows = 1 .. Len(rows) /\ rows # <<>> /\ Len(rows) \in Nat
    BY RowsAreRows DEF IInv, RowsInv, TableOK
<1>3. /\ s \in Seq(Row) /\ Indexed(s) /\ Len(s) = Len(rows)
      /\ \A i \in DOMAIN rows :
            /\ s[i].type = rows[i].type
            /\ s[i].parameter = rows[i].parameter
            /\ s[i].isRequired = rows[i].isRequired
    BY <1>2, IndexingNumbers
<1> HIDE DEF s
<1>4. /\ Bind(s) \in Seq(Mapping) /\ Len(Bind(s)) = Len(rows)
      /\ \A i \in 1 .. Len(rows) : Item(Bind(s)[i]) = Posted(Item(s[i]))
    BY <1>3, BindReadsRows
<1>5. Bind(s) # <<>> /\ DOMAIN Bind(s) = DOMAIN rows
    BY <1>2, <1>4, EmptySeq, LenProperties
<1>6. ShownFor(Bind(s)) = Bind(s)
    BY <1>5 DEF ShownFor
<1>7. \A i \in DOMAIN rows : nodes[i] \in Nodes
    BY <1>2, RowsAreRows DEF Row
<1>8. \A i, j \in DOMAIN rows : nodes[i] = nodes[j] => i = j
    BY <1>2 DEF Distinct
<1> HIDE DEF nodes
<1>9. /\ page' = "form" /\ DOMAIN rows' = DOMAIN rows
      /\ \A i \in DOMAIN rows : Item(rows'[i]) = Item(Bind(s)[i])
    BY <1>1, <1>4, <1>5, <1>6, <1>7, <1>8, ShowMakesTable
<1>10. \A i \in DOMAIN rows : Item(s[i]) = Item(rows[i])
    BY <1>3 DEF Item
<1>11. \A i \in DOMAIN rows : Item(rows'[i]) = Posted(Item(rows[i]))
    BY <1>2, <1>4, <1>9, <1>10
<1>12. Shown' = [i \in DOMAIN Shown |-> Table!Posted(Shown[i])]
    BY <1>9, <1>11 DEF Shown, Posted, Table!Posted
<1> QED
    BY <1>1, <1>9, <1>12 DEF Table!Refused, Table!Edited, Table!PostedList

LEMMA ListInit == Init => Table!Init
<1> SUFFICES ASSUME Init
             PROVE  Table!Init
    OBVIOUS
<1>1. PICK node \in Nodes : rows = <<Fresh(node, 0, BlankMapping)>>
    BY DEF Init
<1> DEFINE new == Fresh(node, 0, BlankMapping)
           blank == [type |-> None, parameter |-> Blank, isRequired |-> FALSE]
<1>2. Item(new) = blank
    BY DEF Item, Fresh, BlankMapping
<1>3. rows = <<new>>
    BY <1>1
<1> HIDE DEF new, blank
<1>4. Shown = <<blank>>
    BY <1>2, <1>3 DEF Shown
<1>5. stored = <<>> /\ page = "form"
    BY DEF Init
<1>6. SavedItems = <<>>
    BY <1>5 DEF SavedItems
<1> QED
    BY <1>4, <1>5, <1>6 DEF Table!Init, Table!BlankItem, SavedItems, blank

\* Nothing changes for the list.
Unseen == Shown' = Shown /\ page' = page /\ stored' = stored

LEMMA ListNext == IInv /\ [Next]_vars => [Table!Next]_(Table!vars)
<1> SUFFICES ASSUME IInv, [Next]_vars
             PROVE  Table!Next \/ Unseen
    BY DEF Unseen, Table!vars
<1>1. CASE OpenPage
    BY <1>1, OpenStep DEF Table!Next
<1>2. CASE ClickAdd
    BY <1>2, AddStep DEF Table!Next
<1>3. CASE DragEnd
    <2>1. rows' = SetRowIndexing(rows) /\ help' = help /\ UNCHANGED <<page, stored>>
        BY <1>3 DEF DragEnd, elsewhere, serverVars
    <2>2. DOMAIN rows' = DOMAIN rows /\ \A k \in DOMAIN rows : SameRow(rows'[k], rows[k])
        BY <2>1, IndexingAgain DEF IInv
    <2>3. \A k \in DOMAIN rows : Item(rows'[k]) = Item(rows[k])
        BY <2>2 DEF SameRow, Item
    <2> QED
        BY <2>1, <2>2, <2>3, SameShown DEF Unseen
<1>4. CASE MonacoLoads \/ EditCode \/ DismissEditor \/ UNCHANGED vars
    BY <1>4 DEF MonacoLoads, EditCode, DismissEditor, CloseEditor, serverVars, vars, Unseen, Shown
<1>5. CASE SaveCode
    <2>1. UNCHANGED <<page, stored>>
        BY <1>5 DEF SaveCode, CloseEditor, serverVars
    <2> QED
        BY <1>5, <2>1, CodeStep DEF Table!Next, Unseen
<1>6. CASE Accept
    BY <1>6, SaveStep DEF Table!Next
<1>7. CASE Refuse
    BY <1>7, RefuseStep DEF Table!Next
<1>8. ASSUME NEW i \in DOMAIN rows, OnRow(i)
      PROVE  Table!Next \/ Unseen
    <2>1. CASE ClickRemove(i)
        BY <2>1, RemoveStep DEF Table!Next
    <2>2. CASE ChangeType(i)
        BY <2>2, TypeStep DEF Table!Next
    <2>3. CASE TypeParameter(i)
        BY <2>3, ParameterStep DEF Table!Next
    <2>4. CASE DragStart(i)
        BY <2>4 DEF DragStart, elsewhere, serverVars, Unseen, Shown
    <2>5. CASE Drop(i)
        <3>1. UNCHANGED <<page, stored>>
            BY <2>5 DEF Drop, elsewhere, serverVars
        <3> QED
            BY <2>5, <3>1, MoveStep DEF Table!Next, Unseen
    <2>6. CASE OpenEditor(i)
        BY <2>6 DEF OpenEditor, serverVars, Unseen, Shown
    <2>7. CASE TickRequired(i)
        BY <2>7, TickStep DEF Table!Next
    <2> QED
        BY <1>8, <2>1, <2>2, <2>3, <2>4, <2>5, <2>6, <2>7 DEF OnRow
<1> QED
    BY <1>1, <1>2, <1>3, <1>4, <1>5, <1>6, <1>7, <1>8 DEF Next

\* The table with its indices, its dragging and its editor is the owner's list: no
\* handler loses, doubles or reorders a mapping, and a save, of a table without a row
\* of no type, stores the types and parameters that are shown, none of them required.
THEOREM TableIsList == Spec => ImplementsTable
BY ListInit, ListNext, SpecInv, PTL DEF Spec, ImplementsTable, Table!Spec
=============================================================================
