---------------------------- MODULE ClientProofs ----------------------------
(***************************************************************************)
(* Proofs about the session manager but for its hosts: the strip of tabs,  *)
(* the editing of a text, the sessions in the tabs, a launch from the      *)
(* command line, and the command line that is built for ssh. Each part has *)
(* an inductive invariant of its own, and its theorems at its end; the     *)
(* command line has a walk by cossh and one by ssh that keep step.         *)
(*                                                                         *)
(* What the parts compute they compute with functions that are recursive   *)
(* on the naturals. Such a function exists, and has a property for every   *)
(* argument, because there is no least argument without: LeastNat takes    *)
(* the place of induction.                                                 *)
(***************************************************************************)
EXTENDS TabStrip, TextEdit, TabSessions, DirectLaunch, SshArgs, SequenceTheorems,
        FiniteSetTheorems, WellFoundedInduction, TLAPS

-----------------------------------------------------------------------------
\* The least-number principle, for a set: what every induction below rests on.
LEMMA LeastNat ==
    ASSUME NEW S \in SUBSET Nat, S # {}
    PROVE  \E m \in S : \A n \in S : m <= n
<1>1. PICK m \in S : \A n \in S : <<n, m>> \notin OpToRel(<, Nat)
    BY NatLessThanWellFounded, WFMin, Zenon
<1>2. ASSUME NEW n \in Nat, NEW k \in Nat, <<n, k>> \notin OpToRel(<, Nat)
      PROVE  k <= n
    BY <1>2 DEF OpToRel
<1> QED
    BY <1>1, <1>2

-----------------------------------------------------------------------------
(* TabStrip: numbers *)

\* Least is the least element.
LEMMA LeastIs ==
    ASSUME NEW S \in SUBSET Nat, S # {}
    PROVE  Least(S) \in S /\ \A n \in S : Least(S) <= n
    BY LeastNat DEF Least

\* Greatest is the greatest element of a set with a bound.
LEMMA GreatestIs ==
    ASSUME NEW S \in SUBSET Nat, S # {}, NEW bound \in Nat, \A n \in S : n <= bound
    PROVE  Greatest(S) \in S /\ \A n \in S : n <= Greatest(S)
<1> DEFINE Below == {bound - n : n \in S}
<1>1. Below \in SUBSET Nat /\ Below # {}
    <2>1. \A n \in S : bound - n \in Nat
        OBVIOUS
    <2> QED
        BY <2>1, Zenon
<1>2. PICK m \in Below : \A n \in Below : m <= n
    BY <1>1, LeastNat
<1>3. PICK g \in S : m = bound - g
    BY <1>2
<1>4. \A n \in S : n <= g
    <2> TAKE n \in S
    <2>1. m <= bound - n
        BY <1>2
    <2>2. n \in Nat /\ g \in Nat /\ bound - g <= bound - n
        BY <1>3, <2>1
    <2> QED
        BY <2>2
<1> QED
    BY <1>3, <1>4 DEF Greatest

-----------------------------------------------------------------------------
(* TabStrip: where tabs start *)

Starting(f, ws, n) == f = [k \in 1..(n + 1) |-> IF k = 1 THEN 0 ELSE f[k - 1] + ws[k - 1]]

LEMMA StartingExists ==
    ASSUME NEW ws, NEW n \in Nat
    PROVE  \E f : Starting(f, ws, n)
<1> DEFINE S == {m \in Nat : ~ \E f : Starting(f, ws, m)}
<1> SUFFICES ASSUME S # {} PROVE FALSE
    OBVIOUS
<1>1. PICK m \in S : \A k \in S : m <= k
    BY LeastNat
<1>2. m # 0
    <2> DEFINE g == [k \in 1..1 |-> 0]
    <2>1. Starting(g, ws, 0)
        BY DEF Starting
    <2> QED
        BY <2>1
<1>3. m - 1 \in Nat /\ m - 1 \notin S
    BY <1>1, <1>2
<1>4. PICK f : Starting(f, ws, m - 1)
    BY <1>3
<1> DEFINE g == [k \in 1..(m + 1) |-> IF k = m + 1 THEN f[m] + ws[m] ELSE f[k]]
<1>5. Starting(g, ws, m)
    BY <1>2, <1>4 DEF Starting
<1> QED
    BY <1>5

\* Starts grow by the widths.
LEMMA Starts ==
    ASSUME NEW ws \in Seq(TabWidths)
    PROVE  /\ StartsOf(ws)[1] = 0
           /\ \A k \in 1..Len(ws) : StartsOf(ws)[k + 1] = StartsOf(ws)[k] + ws[k]
<1>1. \E f : Starting(f, ws, Len(ws))
    BY StartingExists, LenProperties
<1>2. Starting(StartsOf(ws), ws, Len(ws))
    BY <1>1 DEF StartsOf, Starting
<1> QED
    BY <1>2, LenProperties DEF Starting

LEMMA StartTypes ==
    ASSUME NEW ws \in Seq(TabWidths)
    PROVE  \A k \in 1..(Len(ws) + 1) : StartsOf(ws)[k] \in Nat
<1> DEFINE S == {k \in 1..(Len(ws) + 1) : StartsOf(ws)[k] \notin Nat}
<1> SUFFICES ASSUME S # {} PROVE FALSE
    OBVIOUS
<1>1. Len(ws) \in Nat /\ \A k \in 1..Len(ws) : ws[k] \in Nat
    BY TabWidthsAssumption, LenProperties, ElementOfSeq
<1>2. PICK k \in S : \A j \in S : k <= j
    <2>1. \A k \in S : k \in Nat
        BY <1>1
    <2> HIDE DEF S
    <2> QED
        BY <2>1, LeastNat
<1>3. k # 1
    BY Starts
<1>4. k - 1 \in 1..Len(ws) /\ StartsOf(ws)[k - 1] \in Nat
    BY <1>1, <1>2, <1>3
<1>5. StartsOf(ws)[k] = StartsOf(ws)[k - 1] + ws[k - 1]
    <2>1. StartsOf(ws)[k - 1 + 1] = StartsOf(ws)[k - 1] + ws[k - 1]
        BY <1>4, Starts
    <2> QED
        BY <2>1, <1>1
<1> QED
    BY <1>1, <1>2, <1>4, <1>5

LEMMA StartsGrow ==
    ASSUME NEW ws \in Seq(TabWidths), NEW i \in 1..(Len(ws) + 1), NEW j \in 1..(Len(ws) + 1), i < j
    PROVE  StartsOf(ws)[i] + ws[i] <= StartsOf(ws)[j]
<1> DEFINE S == {k \in (i + 1)..(Len(ws) + 1) : StartsOf(ws)[k] < StartsOf(ws)[i] + ws[i]}
<1>1. Len(ws) \in Nat /\ \A k \in 1..Len(ws) : ws[k] \in Nat
    BY TabWidthsAssumption, LenProperties, ElementOfSeq
<1>2. \A k \in 1..(Len(ws) + 1) : StartsOf(ws)[k] \in Nat
    BY StartTypes
<1> SUFFICES ASSUME S # {} PROVE FALSE
    BY <1>1, <1>2
<1>3. PICK k \in S : \A l \in S : k <= l
    <2>1. \A k \in S : k \in Nat
        BY <1>1
    <2> HIDE DEF S
    <2> QED
        BY <2>1, LeastNat
<1>4. k - 1 \in 1..Len(ws) /\ StartsOf(ws)[k - 1 + 1] = StartsOf(ws)[k - 1] + ws[k - 1]
    BY <1>1, <1>3, Starts
<1>5. ws[i] \in Nat /\ ws[k - 1] \in Nat /\ StartsOf(ws)[i] \in Nat /\ StartsOf(ws)[k - 1] \in Nat
    BY <1>1, <1>2, <1>4
<1>6. StartsOf(ws)[k] = StartsOf(ws)[k - 1] + ws[k - 1]
    BY <1>1, <1>3, <1>4
<1>7. StartsOf(ws)[k] < StartsOf(ws)[i] + ws[i]
    BY <1>3
<1>8. CASE k = i + 1
    BY <1>5, <1>6, <1>7, <1>8
<1>9. CASE k # i + 1
    <2>1. k - 1 \in (i + 1)..(Len(ws) + 1) /\ k - 1 \notin S
        BY <1>1, <1>3, <1>9
    <2>2. ~(StartsOf(ws)[k - 1] < StartsOf(ws)[i] + ws[i])
        BY <2>1, Zenon
    <2> QED
        BY <1>5, <1>6, <1>7, <2>2, SMTT(30)
<1> QED
    BY <1>8, <1>9

-----------------------------------------------------------------------------
(* TabStrip: the viewport *)

Offsets(ws) == {StartsOf(ws)[i] : i \in DOMAIN ws}
Final(ws, w) == FinalRight(ws, StartsOf(ws), w)

LEMMA OffsetTypes ==
    ASSUME NEW ws \in Seq(TabWidths), ws # <<>>
    PROVE  /\ Len(ws) \in Nat \ {0} /\ DOMAIN ws = 1..Len(ws)
           /\ \A k \in 1..Len(ws) : ws[k] \in Nat /\ ws[k] > 2
           /\ Offsets(ws) \in SUBSET Nat /\ 0 \in Offsets(ws)
           /\ \A s \in Offsets(ws) : s <= StartsOf(ws)[Len(ws) + 1]
           /\ \A k \in 1..Len(ws) : StartsOf(ws)[k] \in Nat /\ StartsOf(ws)[k] \in Offsets(ws)
           /\ StartsOf(ws)[Len(ws) + 1] \in Nat
<1>1. Len(ws) \in Nat \ {0} /\ DOMAIN ws = 1..Len(ws)
    BY LenProperties, EmptySeq
<1>2. \A k \in 1..Len(ws) : ws[k] \in Nat /\ ws[k] > 2
    <2>1. \A k \in 1..Len(ws) : ws[k] \in TabWidths
        BY ElementOfSeq
    <2>2. \A w \in TabWidths : w \in Nat /\ w > 2
        BY TabWidthsAssumption
    <2> QED
        BY <2>1, <2>2
<1>3. \A k \in 1..(Len(ws) + 1) : StartsOf(ws)[k] \in Nat
    BY StartTypes
<1>4. StartsOf(ws)[1] = 0
    BY Starts
<1>5. \A k \in 1..Len(ws) : StartsOf(ws)[k] <= StartsOf(ws)[Len(ws) + 1]
    <2> TAKE k \in 1..Len(ws)
    <2>1. StartsOf(ws)[k] + ws[k] <= StartsOf(ws)[Len(ws) + 1]
        BY <1>1, StartsGrow
    <2>2. StartsOf(ws)[k] \in Nat /\ StartsOf(ws)[Len(ws) + 1] \in Nat /\ ws[k] \in Nat
        BY <1>1, <1>2, <1>3
    <2> QED
        BY <2>1, <2>2
<1>6. Offsets(ws) \in SUBSET Nat /\ 0 \in Offsets(ws)
    <2>1. \A s \in Offsets(ws) : s \in Nat
        BY <1>1, <1>3 DEF Offsets
    <2>3. Offsets(ws) \subseteq Nat
        BY <2>1, Zenon
    <2>2. 1 \in DOMAIN ws
        BY <1>1
    <2> QED
        BY <1>4, <2>3, <2>2, Zenon DEF Offsets
<1>7. \A s \in Offsets(ws) : s <= StartsOf(ws)[Len(ws) + 1]
    BY <1>1, <1>5 DEF Offsets
<1>8. \A k \in 1..Len(ws) : StartsOf(ws)[k] \in Nat /\ StartsOf(ws)[k] \in Offsets(ws)
    BY <1>1, <1>3 DEF Offsets
<1> QED
    BY <1>1, <1>2, <1>3, <1>6, <1>7, <1>8

\* The last scroll position begins a tab; from it the rest fits beside the left marker, or is
\* one tab that is wider.
LEMMA FinalIs ==
    ASSUME NEW ws \in Seq(TabWidths), ws # <<>>, NEW w \in Nat
    PROVE  /\ Final(ws, w) \in Offsets(ws)
           /\ \A k \in 1..Len(ws) :
                 \/ ws[k] >= w
                 \/ StartsOf(ws)[k] + ws[k] <= Final(ws, w) + w - 1
                 \/ Final(ws, w) = 0 /\ StartsOf(ws)[k] + ws[k] <= w
<1> DEFINE total == StartsOf(ws)[Len(ws) + 1]
           last == StartsOf(ws)[Len(ws)]
           fitting == {s \in Offsets(ws) : s >= total - (w - 1)}
           ends == fitting \cup {last}
<1>1. /\ Len(ws) \in Nat \ {0} /\ total \in Nat /\ last \in Nat /\ last \in Offsets(ws)
      /\ Offsets(ws) \in SUBSET Nat /\ 0 \in Offsets(ws)
    <2>1. Len(ws) \in 1..Len(ws)
        BY OffsetTypes
    <2> QED
        BY <2>1, OffsetTypes
<1>2. \A k \in 1..Len(ws) :
         /\ StartsOf(ws)[k] \in Nat /\ ws[k] \in Nat
         /\ StartsOf(ws)[k] + ws[k] <= total
         /\ k # Len(ws) => StartsOf(ws)[k] + ws[k] <= last
    <2> TAKE k \in 1..Len(ws)
    <2>1. StartsOf(ws)[k] + ws[k] <= total
        BY <1>1, StartsGrow
    <2>2. k # Len(ws) => StartsOf(ws)[k] + ws[k] <= last
        BY <1>1, StartsGrow
    <2> QED
        BY <2>1, <2>2, OffsetTypes
<1>3. CASE total <= w
    <2>1. Final(ws, w) = 0
        BY <1>3 DEF Final, FinalRight
    <2>2. ASSUME NEW k \in 1..Len(ws) PROVE StartsOf(ws)[k] + ws[k] <= w
        BY <1>1, <1>2, <1>3
    <2> QED
        BY <1>1, <2>1, <2>2
<1>4. CASE ~(total <= w)
    <2>1. Final(ws, w) = Least(ends)
        BY <1>4 DEF Final, FinalRight, Offsets
    <2>2. ends \in SUBSET Nat /\ ends # {}
        BY <1>1
    <2>3. Least(ends) \in ends
        BY <2>2, LeastIs
    <2>4. Least(ends) \in Offsets(ws) /\ Least(ends) \in Nat
        BY <1>1, <2>3
    <2>5. CASE Least(ends) >= total - (w - 1)
        <3>1. ASSUME NEW k \in 1..Len(ws) PROVE StartsOf(ws)[k] + ws[k] <= Least(ends) + w - 1
            BY <1>1, <1>2, <2>4, <2>5
        <3> QED
            BY <2>1, <2>4, <3>1
    <2>6. CASE ~(Least(ends) >= total - (w - 1))
        <3>1. Least(ends) = last
            BY <2>3, <2>6
        <3>2. ws[Len(ws)] >= w
            <4>1. total = last + ws[Len(ws)]
                BY <1>1, Starts
            <4> QED
                BY <1>1, <1>2, <2>6, <3>1, <4>1
        <3>3. ASSUME NEW k \in 1..Len(ws), k # Len(ws), ~(ws[k] >= w)
              PROVE  StartsOf(ws)[k] + ws[k] <= last + w - 1
            BY <1>1, <1>2, <3>3
        <3> QED
            BY <2>1, <2>4, <3>1, <3>2, <3>3
    <2> QED
        BY <2>5, <2>6
<1> QED
    BY <1>3, <1>4

\* What the arithmetic of the viewport returns.
LEMMA MetricsIs ==
    ASSUME NEW ws \in Seq(TabWidths), ws # <<>>, NEW raw \in Nat, NEW w \in Nat
    PROVE  LET m == Metrics(ws, raw, w)
           IN  /\ m.offset \in Offsets(ws) /\ m.offset \in Nat
               /\ m.offset <= raw /\ m.offset <= Final(ws, w)
               /\ \A s \in Offsets(ws) : s <= raw /\ s <= Final(ws, w) => s <= m.offset
               /\ m.earlier = {s \in Offsets(ws) : s < m.offset}
               /\ m.later = {s \in Offsets(ws) : s > m.offset /\ s <= Final(ws, w)}
               /\ m.left = IF m.earlier = {} THEN 0 ELSE 1
               /\ m.right = IF m.later = {} THEN 0 ELSE 1
               /\ m.room = IF w <= m.left + m.right THEN 0 ELSE w - m.left - m.right
<1> DEFINE near == {s \in Offsets(ws) : s <= raw /\ s <= Final(ws, w)}
           m == Metrics(ws, raw, w)
<1>1. Offsets(ws) \in SUBSET Nat /\ 0 \in Offsets(ws)
    BY OffsetTypes
<1>2. Final(ws, w) \in Nat
    BY <1>1, FinalIs
<1>3. near \in SUBSET Nat /\ near # {}
    <2>1. 0 \in near
        BY <1>1, <1>2
    <2> QED
        BY <1>1, <2>1
<1>4. Greatest(near) \in near /\ \A s \in near : s <= Greatest(near)
    BY <1>3, GreatestIs
<1>5. m = [offset |-> Greatest(near),
           earlier |-> {s \in Offsets(ws) : s < Greatest(near)},
           later |-> {s \in Offsets(ws) : s > Greatest(near) /\ s <= Final(ws, w)},
           left |-> m.left, right |-> m.right, room |-> m.room]
    BY DEF Metrics, Offsets, Final
<1>6. /\ m.left = IF m.earlier = {} THEN 0 ELSE 1
      /\ m.right = IF m.later = {} THEN 0 ELSE 1
      /\ m.room = IF w <= m.left + m.right THEN 0 ELSE w - m.left - m.right
    BY DEF Metrics
<1>7. m.offset = Greatest(near) /\ m.earlier = {s \in Offsets(ws) : s < m.offset}
      /\ m.later = {s \in Offsets(ws) : s > m.offset /\ s <= Final(ws, w)}
    BY <1>5
<1> HIDE DEF m
<1>8. m.offset \in near /\ \A s \in near : s <= m.offset
    BY <1>4, <1>7
<1>9. /\ m.offset \in Offsets(ws) /\ m.offset \in Nat
      /\ m.offset <= raw /\ m.offset <= Final(ws, w)
      /\ \A s \in Offsets(ws) : s <= raw /\ s <= Final(ws, w) => s <= m.offset
    BY <1>1, <1>8
<1> QED
    BY <1>6, <1>7, <1>9 DEF m

\* A strip that is scrolled to the beginning of a tab, not past the last such place.
Snapped(ws, o, w) == o \in Offsets(ws) /\ o <= Final(ws, w)

LEMMA SnappedStays ==
    ASSUME NEW ws \in Seq(TabWidths), ws # <<>>, NEW w \in Nat, NEW o, Snapped(ws, o, w)
    PROVE  o \in Nat /\ Metrics(ws, o, w).offset = o
<1>1. o \in Nat
    BY OffsetTypes DEF Snapped
<1>2. Metrics(ws, o, w).offset \in Nat /\ Metrics(ws, o, w).offset <= o
      /\ \A s \in Offsets(ws) : s <= o /\ s <= Final(ws, w) => s <= Metrics(ws, o, w).offset
    BY <1>1, MetricsIs
<1> QED
    BY <1>1, <1>2 DEF Snapped

\* The tab lies between the markers.
ShownAt(ws, sel, o, w) ==
    /\ o <= StartsOf(ws)[sel]
    /\ StartsOf(ws)[sel + 1] <= o + Metrics(ws, o, w).room

\* ensure_tab_visible shows the tab whole unless it is as wide as the bar between two markers.
LEMMA FollowingShows ==
    ASSUME NEW ws \in Seq(TabWidths), ws # <<>>, NEW sel \in 1..Len(ws), NEW from \in Nat,
           NEW w \in Nat, w > 0
    PROVE  /\ Snapped(ws, Following(ws, sel, from, w), w)
           /\ ws[sel] < w - 2 => ShownAt(ws, sel, Following(ws, sel, from, w), w)
<1> DEFINE m == Metrics(ws, from, w)
           start == StartsOf(ws)[sel]
           final == Final(ws, w)
           stops == {s \in {m.offset} \cup m.later : Settled(Metrics(ws, s, w), start, ws[sel])}
           r == Following(ws, sel, from, w)
<1>1. /\ Offsets(ws) \in SUBSET Nat /\ start \in Nat /\ start \in Offsets(ws)
      /\ ws[sel] \in Nat /\ ws[sel] > 2
    BY OffsetTypes
<1>2. /\ final \in Offsets(ws) /\ final \in Nat
      /\ \/ ws[sel] >= w
         \/ start + ws[sel] <= final + w - 1
         \/ final = 0 /\ start + ws[sel] <= w
    BY <1>1, FinalIs
<1>3. StartsOf(ws)[sel + 1] = start + ws[sel]
    BY Starts
<1>4. /\ m.offset \in Offsets(ws) /\ m.offset \in Nat /\ m.offset <= final
      /\ m.later = {s \in Offsets(ws) : s > m.offset /\ s <= final}
    BY MetricsIs
<1>5. \A s \in {m.offset} \cup m.later : Snapped(ws, s, w)
    BY <1>4 DEF Snapped
<1>6. \A s \in Offsets(ws) : m.offset <= s /\ s <= final => s \in {m.offset} \cup m.later
    BY <1>1, <1>4
<1>7. r = IF start < m.offset THEN start ELSE Least(stops)
    BY DEF Following
<1>8. ASSUME NEW s, Snapped(ws, s, w)
      PROVE  /\ s \in Nat /\ s \in Offsets(ws) /\ s <= final
             /\ Metrics(ws, s, w).offset = s
             /\ Metrics(ws, s, w).room \in Nat
             /\ w >= 2 => Metrics(ws, s, w).room >= w - 2
             /\ s = final => Metrics(ws, s, w).later = {}
             /\ s = final /\ w > 0 => Metrics(ws, s, w).room >= w - 1
             /\ s = final /\ s = 0 => Metrics(ws, s, w).room = w
             /\ s # final => Metrics(ws, s, w).later # {}
    <2> DEFINE n == Metrics(ws, s, w)
    <2>1. s \in Nat /\ n.offset = s
        BY <1>8, SnappedStays
    <2>2. s \in Offsets(ws) /\ s <= final
        BY <1>8 DEF Snapped
    <2>3. /\ n.earlier = {t \in Offsets(ws) : t < s}
          /\ n.later = {t \in Offsets(ws) : t > s /\ t <= final}
          /\ n.left = IF n.earlier = {} THEN 0 ELSE 1
          /\ n.right = IF n.later = {} THEN 0 ELSE 1
          /\ n.room = IF w <= n.left + n.right THEN 0 ELSE w - n.left - n.right
        BY <2>1, MetricsIs
    <2> HIDE DEF n
    <2>4. n.room \in Nat /\ (w >= 2 => n.room >= w - 2)
        BY <2>3
    <2>5. s = final => n.later = {}
        BY <1>1, <1>2, <2>3
    <2>6. s # final => n.later # {}
        <3>1. s # final => final \in n.later
            BY <1>2, <2>1, <2>2, <2>3
        <3> QED
            BY <3>1
    <2>7. s = final => n.right = 0
        BY <2>3, <2>5
    <2>8. s = final => n.room >= w - 1
        BY <2>3, <2>7
    <2>9. s = 0 => n.left = 0
        <3>1. s = 0 => n.earlier = {}
            BY <1>1, <2>3
        <3> QED
            BY <3>1, <2>3
    <2>10. s = final /\ s = 0 => n.room = w
        BY <2>3, <2>7, <2>9
    <2> QED
        BY <2>1, <2>2, <2>4, <2>5, <2>6, <2>8, <2>10 DEF n
<1> HIDE DEF m, stops, start, final, r
<1>9. ASSUME NEW s, Snapped(ws, s, w), s <= start, ws[sel] < w - 2,
             Settled(Metrics(ws, s, w), start, ws[sel])
      PROVE  ShownAt(ws, sel, s, w)
    <2> DEFINE n == Metrics(ws, s, w)
    <2>1. n.room \in Nat /\ n.room >= w - 2 /\ s \in Nat
        BY <1>1, <1>8, <1>9
    <2>2. n.offset = s /\ (s # final => n.later # {})
        BY <1>8, <1>9
    <2>3. s = final => n.room >= w - 1
        BY <1>8, <1>9
    <2>4. s = final /\ s = 0 => n.room = w
        BY <1>8, <1>9
    <2> HIDE DEF n
    <2>5. start + ws[sel] <= s + n.room \/ s = final
        <3>1. n.room # 0 /\ ~(ws[sel] >= n.room)
            BY <1>1, <1>9, <2>1
        <3> QED
            BY <1>9, <2>2, <3>1 DEF Settled, n
    <2>6. start + ws[sel] <= s + n.room
        BY <1>1, <1>2, <1>9, <2>1, <2>3, <2>4, <2>5
    <2> QED
        BY <1>3, <1>9, <2>6 DEF ShownAt, start, n
<1>10. CASE start < m.offset
    <2>1. r = start /\ Snapped(ws, start, w)
        BY <1>1, <1>2, <1>4, <1>7, <1>10 DEF Snapped, final
    <2>2. ws[sel] < w - 2 => ShownAt(ws, sel, start, w)
        <3> SUFFICES ASSUME ws[sel] < w - 2 PROVE ShownAt(ws, sel, start, w)
            OBVIOUS
        <3>1. Metrics(ws, start, w).room \in Nat /\ Metrics(ws, start, w).room >= w - 2
            BY <1>1, <1>8, <2>1
        <3> QED
            BY <1>1, <1>3, <3>1 DEF ShownAt, start
    <2> QED
        BY <2>1, <2>2 DEF r
<1>11. CASE ~(start < m.offset)
    <2>1. final \in stops
        <3>1. final \in {m.offset} \cup m.later
            BY <1>2, <1>4, <1>6
        <3>2. Metrics(ws, final, w).later = {}
            BY <1>5, <1>8, <3>1
        <3> QED
            BY <3>1, <3>2 DEF stops, Settled
    <2>2. stops \in SUBSET Nat
        BY <1>1, <1>4 DEF stops
    <2>3. Least(stops) \in stops /\ \A s \in stops : Least(stops) <= s
        BY <2>1, <2>2, LeastIs
    <2>4. r = Least(stops) /\ r \in Nat
        BY <1>7, <1>11, <2>2, <2>3
    <2>5. Snapped(ws, r, w) /\ Settled(Metrics(ws, r, w), start, ws[sel])
        BY <1>5, <2>3, <2>4 DEF stops
    <2>6. ASSUME ws[sel] < w - 2
          PROVE  r <= start
        <3>1. CASE start <= final
            <4>1. start \in {m.offset} \cup m.later
                BY <1>1, <1>4, <1>6, <1>11, <3>1
            <4>2. Snapped(ws, start, w)
                BY <1>5, <4>1
            <4>3. Metrics(ws, start, w).offset = start /\ Metrics(ws, start, w).room \in Nat
                  /\ Metrics(ws, start, w).room >= w - 2
                BY <1>1, <1>8, <2>6, <4>2
            <4>4. Settled(Metrics(ws, start, w), start, ws[sel])
                BY <1>1, <2>6, <4>3 DEF Settled
            <4>5. start \in stops
                BY <4>1, <4>4 DEF stops
            <4> QED
                BY <2>3, <2>4, <4>5
        <3>2. CASE ~(start <= final)
            <4>1. r <= final
                BY <1>8, <2>5
            <4> QED
                BY <1>1, <1>2, <2>4, <3>2, <4>1
        <3> QED
            BY <3>1, <3>2
    <2>7. ws[sel] < w - 2 => ShownAt(ws, sel, r, w)
        BY <1>9, <2>5, <2>6
    <2> QED
        BY <2>5, <2>7 DEF r
<1> QED
    BY <1>10, <1>11

-----------------------------------------------------------------------------
(* TabStrip: the invariant *)

\* A strip that follows its selection is scrolled to the beginning of a tab, before the last such
\* place: then the renderer's own correction leaves it where it is, and what ensure_tab_visible
\* made of it is what is drawn.
StripInv ==
    /\ StripTypeOK
    /\ strip = <<>> => current = 1
    /\ drift = {} => barWidth > 0 /\ (strip # <<>> => Snapped(strip, offset, barWidth))
    /\ SelectedTabShown

LEMMA BarTypes == StripTypeOK => barWidth \in Nat
    BY BarWidthsAssumption DEF StripTypeOK

\* Whatever the tabs and the selection have become: the strip that follows keeps the invariant.
LEMMA EnsureKeeps ==
    ASSUME StripInv, strip' \in Seq(TabWidths), Len(strip') <= MaxStrip,
           current' \in Nat \ {0}, IF strip' = <<>> THEN current' = 1 ELSE current' <= Len(strip'),
           Ensure(strip', current', offset), UNCHANGED barWidth, grabbed' \in 0..MaxStrip,
           editing' \in Seq(BOOLEAN), Len(editing') = Len(strip')
    PROVE  StripInv'
<1> DEFINE r == Following(strip', current', offset, barWidth)
<1>1. /\ offset \in Nat /\ barWidth \in Nat /\ offset' = r
      /\ drift' = (IF barWidth > 0 THEN {} ELSE drift) /\ drift' \subseteq Changes
      /\ barWidth' = barWidth /\ barWidth \in BarWidths \cup {0}
      /\ drift = {} => barWidth > 0
    BY BarTypes DEF StripInv, StripTypeOK, Ensure
<1>2. CASE strip' = <<>>
    <2>1. r = 0
        BY <1>2 DEF Following
    <2> QED
        BY <1>1, <1>2, <2>1 DEF StripInv, StripTypeOK, SelectedTabShown, CurrentShown
<1>3. CASE strip' # <<>> /\ barWidth = 0
    <2>1. r = offset
        BY <1>3 DEF Following
    <2> QED
        BY <1>1, <1>3, <2>1 DEF StripInv, StripTypeOK, SelectedTabShown, CurrentShown
<1>4. CASE strip' # <<>> /\ barWidth > 0
    <2>1. current' \in 1..Len(strip')
        BY <1>4, LenProperties
    <2>2. /\ Snapped(strip', r, barWidth)
          /\ strip'[current'] < barWidth - 2 => ShownAt(strip', current', r, barWidth)
        BY <1>1, <1>4, <2>1, FollowingShows
    <2>3. r \in Nat
        BY <1>1, <1>4, <2>2, SnappedStays
    <2>4. StripTypeOK'
        BY <1>1, <2>3 DEF StripTypeOK
    <2>5. SelectedTabShown'
        BY <1>1, <2>2 DEF SelectedTabShown, CurrentShown, ShownAt
    <2> QED
        BY <1>1, <1>4, <2>2, <2>4, <2>5 DEF StripInv
<1> QED
    BY <1>1, <1>2, <1>3, <1>4

\* A strip that has not followed the last change owes nothing.
LEMMA UnfollowedKeeps ==
    ASSUME StripTypeOK', drift' # {}, strip' = <<>> => current' = 1
    PROVE  StripInv'
    BY DEF StripInv, SelectedTabShown

\* What a column of the bar holds.
LEMMA HitTypes ==
    ASSUME StripInv, NEW hit \in Hits
    PROVE  /\ strip # <<>>
           /\ hit.on \in {"title", "close"} => hit.tab \in 1..Len(strip)
           /\ hit.on = "earlier" => Metrics(strip, offset, barWidth).earlier # {}
           /\ hit.on = "later" => Metrics(strip, offset, barWidth).later # {}
<1> DEFINE m == Metrics(strip, offset, barWidth)
<1>1. strip # <<>> /\ strip \in Seq(TabWidths) /\ offset \in Nat /\ barWidth \in Nat
    BY BarTypes DEF Hits, StripInv, StripTypeOK
<1>2. PICK c \in 0..(barWidth - 1) : hit = HitTest(strip, offset, barWidth, c)
    BY <1>1 DEF Hits
<1>3. m.left = (IF m.earlier = {} THEN 0 ELSE 1) /\ m.right = (IF m.later = {} THEN 0 ELSE 1)
    BY <1>1, MetricsIs
<1>4. CASE m.left = 1 /\ c = 0
    BY <1>1, <1>2, <1>3, <1>4 DEF HitTest
<1>5. CASE ~(m.left = 1 /\ c = 0) /\ m.right = 1 /\ c = barWidth - 1
    BY <1>1, <1>2, <1>3, <1>5, SMTT(30) DEF HitTest
<1>6. CASE ~(m.left = 1 /\ c = 0) /\ ~(m.right = 1 /\ c = barWidth - 1)
    <2>1. hit.on \in {"title", "close", "nothing"}
          /\ (hit.on # "nothing" => hit.tab \in DOMAIN strip)
        BY <1>2, <1>6 DEF HitTest
    <2> QED
        BY <1>1, <2>1, OffsetTypes
<1> QED
    BY <1>4, <1>5, <1>6

LEMMA StripInvInit == StripInit => StripInv
<1> SUFFICES ASSUME StripInit PROVE StripInv
    OBVIOUS
<1>1. strip = <<>> /\ strip \in Seq(TabWidths) /\ Len(strip) = 0
    BY EmptySeq DEF StripInit
<1> QED
    <2>1. editing \in Seq(BOOLEAN) /\ Len(editing) = 0
        BY EmptySeq DEF StripInit
    <2>2. StripTypeOK
        BY <1>1, <2>1, MaxStripAssumption DEF StripInit, StripTypeOK, Changes
    <2> QED
        BY <1>1, <2>2 DEF StripInit, StripInv, SelectedTabShown

LEMMA EditingGrows ==
    ASSUME NEW e \in BOOLEAN, editing \in Seq(BOOLEAN), editing' = Append(editing, e)
    PROVE  editing' \in Seq(BOOLEAN) /\ Len(editing') = Len(editing) + 1
    BY AppendProperties

LEMMA PushKept ==
    ASSUME StripInv, NEW w \in TabWidths, PushTab(w) PROVE StripInv'
<1>1. strip' \in Seq(TabWidths) /\ Len(strip') = Len(strip) + 1 /\ Len(strip) \in Nat
    BY AppendProperties, LenProperties DEF StripInv, StripTypeOK, PushTab
<1>2. /\ offset' = offset /\ barWidth' = barWidth /\ grabbed' = grabbed
      /\ drift' = drift \cup {"push"} /\ current' = Len(strip) + 1 /\ Len(strip) < MaxStrip
    BY DEF PushTab
<1>3. StripTypeOK'
    <2>1. editing' \in Seq(BOOLEAN) /\ Len(editing') = Len(strip')
        BY <1>1, EditingGrows DEF StripInv, StripTypeOK, PushTab
    <2> QED
        BY <1>1, <1>2, <2>1, MaxStripAssumption DEF StripInv, StripTypeOK, Changes
<1>4. strip' # <<>>
    BY <1>1, EmptySeq
<1> QED
    BY <1>2, <1>3, <1>4, UnfollowedKeeps

LEMMA EditorTabKept ==
    ASSUME StripInv, NEW w \in TabWidths, NEW edit \in BOOLEAN, OpenEditorTab(w, edit)
    PROVE  StripInv'
<1>1. strip' \in Seq(TabWidths) /\ Len(strip') = Len(strip) + 1 /\ Len(strip) \in Nat
    BY AppendProperties, LenProperties DEF StripInv, StripTypeOK, OpenEditorTab
<1>2. Len(strip') <= MaxStrip /\ current' \in Nat \ {0} /\ current' <= Len(strip') /\ strip' # <<>>
    <2>1. Len(strip) < MaxStrip /\ current' = Len(strip) + 1
        BY DEF OpenEditorTab
    <2> QED
        BY <1>1, <2>1, EmptySeq, MaxStripAssumption
<1>3. Ensure(strip', current', offset) /\ UNCHANGED barWidth /\ grabbed' \in 0..MaxStrip
    BY DEF OpenEditorTab, StripInv, StripTypeOK
<1>4. editing' \in Seq(BOOLEAN) /\ Len(editing') = Len(strip')
    BY <1>1, EditingGrows DEF StripInv, StripTypeOK, OpenEditorTab
<1> QED
    BY <1>1, <1>2, <1>3, <1>4, EnsureKeeps

\* A title that is typed changes one width, and the strip has not followed it.
LEMMA RetitleKept ==
    ASSUME StripInv, NEW w \in TabWidths, RetitleTab(w) PROVE StripInv'
<1>1. /\ strip' \in Seq(TabWidths) /\ Len(strip') = Len(strip)
      /\ strip # <<>> /\ Len(strip) \in Nat /\ current \in 1..Len(strip)
    BY LenProperties, ExceptSeq DEF StripInv, StripTypeOK, RetitleTab
<1>2. strip' # <<>>
    BY <1>1, EmptySeq DEF StripInv, StripTypeOK
<1>3. UNCHANGED <<current, offset, barWidth, grabbed, editing>> /\ drift' = drift \cup {"title"}
    BY DEF RetitleTab
<1>4. StripTypeOK'
    BY <1>1, <1>2, <1>3 DEF StripInv, StripTypeOK, Changes
<1> QED
    BY <1>2, <1>3, <1>4, UnfollowedKeeps

LEMMA FocusKept ==
    ASSUME StripInv, NEW i \in 1..Len(strip), FocusTab(i) PROVE StripInv'
<1>1. /\ strip' = strip /\ current' = i /\ UNCHANGED barWidth /\ grabbed' \in 0..MaxStrip
      /\ Ensure(strip', current', offset) /\ editing' \in Seq(BOOLEAN)
      /\ Len(editing') = Len(strip')
    BY DEF FocusTab, StripInv, StripTypeOK
<1>2. strip' \in Seq(TabWidths) /\ Len(strip') <= MaxStrip /\ Len(strip) \in Nat
    BY <1>1, LenProperties DEF StripInv, StripTypeOK
<1>3. current' \in Nat \ {0} /\ current' <= Len(strip') /\ strip' # <<>>
    BY <1>1, <1>2, EmptySeq
<1> QED
    BY <1>1, <1>2, <1>3, EnsureKeeps

\* Taking a tab out and putting it back leaves as many.
LEMMA MovedTypes ==
    ASSUME NEW T, NEW ws \in Seq(T), NEW from \in 1..Len(ws), NEW to \in 1..Len(ws)
    PROVE  /\ RemoveAt(ws, from) \in Seq(T)
           /\ Len(RemoveAt(ws, from)) = Len(ws) - 1
           /\ InsertAt(RemoveAt(ws, from), to, ws[from]) \in Seq(T)
           /\ Len(InsertAt(RemoveAt(ws, from), to, ws[from])) = Len(ws)
<1> DEFINE a == SubSeq(ws, 1, from - 1)
           b == SubSeq(ws, from + 1, Len(ws))
           r == RemoveAt(ws, from)
           c == SubSeq(r, 1, to - 1)
           d == SubSeq(r, to, Len(r))
           e == <<ws[from]>>
<1>1. Len(ws) \in Nat /\ \A i \in 1..Len(ws) : ws[i] \in T
    BY LenProperties, ElementOfSeq
<1>2. a \in Seq(T) /\ Len(a) = from - 1
    BY <1>1, SubSeqProperties
<1>3. b \in Seq(T) /\ Len(b) = Len(ws) - from
    BY <1>1, SubSeqProperties
<1>4. r \in Seq(T) /\ Len(r) = Len(ws) - 1
    <2> HIDE DEF a, b
    <2>1. r = a \o b
        BY DEF RemoveAt, a, b
    <2>2. a \o b \in Seq(T) /\ Len(a \o b) = Len(a) + Len(b)
        BY <1>2, <1>3, ConcatProperties
    <2> QED
        BY <1>1, <1>2, <1>3, <2>1, <2>2
<1>5. \A i \in 1..Len(r) : r[i] \in T
    BY <1>4, ElementOfSeq
<1> HIDE DEF r
<1>6. c \in Seq(T) /\ Len(c) = to - 1
    BY <1>1, <1>4, <1>5, SubSeqProperties
<1>7. d \in Seq(T) /\ Len(d) = Len(ws) - to
    BY <1>1, <1>4, <1>5, SubSeqProperties
<1>8. e \in Seq(T) /\ Len(e) = 1
    BY <1>1
<1> HIDE DEF c, d, e
<1>9. c \o e \in Seq(T) /\ Len(c \o e) = Len(c) + Len(e)
    BY <1>6, <1>8, ConcatProperties
<1>10. (c \o e) \o d \in Seq(T) /\ Len((c \o e) \o d) = Len(c \o e) + Len(d)
    BY <1>7, <1>9, ConcatProperties
<1>11. Len((c \o e) \o d) = Len(ws)
    BY <1>1, <1>6, <1>7, <1>8, <1>9, <1>10
<1> QED
    BY <1>4, <1>10, <1>11 DEF InsertAt, r, c, d, e

LEMMA MovedKept ==
    ASSUME StripInv, NEW from \in 1..Len(strip), NEW to \in 1..Len(strip), Moved(from, to),
           UNCHANGED barWidth, grabbed' \in 0..MaxStrip
    PROVE  StripInv'
<1>1. strip \in Seq(TabWidths) /\ Len(strip) \in Nat /\ Len(strip) <= MaxStrip
    BY LenProperties DEF StripInv, StripTypeOK
<1>2. strip' \in Seq(TabWidths) /\ Len(strip') = Len(strip)
    BY <1>1, MovedTypes DEF Moved
<1>3. strip # <<>> /\ current \in 1..Len(strip)
    <2>1. strip # <<>>
        BY <1>1, EmptySeq
    <2> QED
        BY <1>1, <2>1 DEF StripInv, StripTypeOK
<1>4. current' \in 1..Len(strip)
    BY <1>1, <1>3 DEF Moved
<1>5. Ensure(strip', current', offset)
    BY DEF Moved
<1>7. editing' \in Seq(BOOLEAN) /\ Len(editing') = Len(strip')
    <2>1. editing \in Seq(BOOLEAN) /\ Len(editing) = Len(strip)
        BY DEF StripInv, StripTypeOK
    <2>2. \A T : editing \in Seq(T) =>
            /\ InsertAt(RemoveAt(editing, from), to, editing[from]) \in Seq(T)
            /\ Len(InsertAt(RemoveAt(editing, from), to, editing[from])) = Len(editing)
        BY <2>1, MovedTypes
    <2>3. editing' = InsertAt(RemoveAt(editing, from), to, editing[from])
        BY DEF Moved
    <2> QED
        BY <1>2, <2>1, <2>2, <2>3
<1>6. current' \in Nat \ {0} /\ current' <= Len(strip') /\ strip' # <<>> /\ Len(strip') <= MaxStrip
    BY <1>1, <1>2, <1>4, EmptySeq
<1> QED
    BY <1>2, <1>5, <1>6, <1>7, EnsureKeeps

LEMMA CloseTabKept ==
    ASSUME StripInv, strip # <<>>, NEW i \in 1..Len(strip), NEW emptied \in Nat,
           CloseStripTab(i, emptied)
    PROVE  StripInv'
<1> DEFINE left == RemoveAt(strip, i)
           sel == IF i > Len(left) /\ i > 1 THEN i - 1 ELSE i
<1>1. strip \in Seq(TabWidths) /\ Len(strip) \in Nat \ {0} /\ Len(strip) <= MaxStrip
    BY LenProperties, EmptySeq DEF StripInv, StripTypeOK
<1>2. left \in Seq(TabWidths) /\ Len(left) = Len(strip) - 1
    BY <1>1, MovedTypes
<1>3. strip' = left /\ barWidth' = barWidth /\ grabbed' = 0
      /\ current' = IF left = <<>> THEN 1 ELSE sel
    BY DEF CloseStripTab
<1>6. editing' \in Seq(BOOLEAN) /\ Len(editing') = Len(left)
    <2>1. editing \in Seq(BOOLEAN) /\ Len(editing) = Len(strip)
        BY DEF StripInv, StripTypeOK
    <2>2. \A T : editing \in Seq(T) =>
            RemoveAt(editing, i) \in Seq(T) /\ Len(RemoveAt(editing, i)) = Len(editing) - 1
        BY <2>1, MovedTypes
    <2>3. editing' = RemoveAt(editing, i)
        BY DEF CloseStripTab
    <2> QED
        BY <1>2, <2>1, <2>2, <2>3
<1>4. CASE left = <<>>
    <2>1. offset' = emptied /\ drift' = drift
        BY <1>4 DEF CloseStripTab
    <2> QED
        BY <1>1, <1>2, <1>3, <1>4, <1>6, <2>1, MaxStripAssumption
           DEF StripInv, StripTypeOK, SelectedTabShown, CurrentShown
<1>5. CASE left # <<>>
    <2>1. Ensure(left, sel, offset)
        BY <1>5 DEF CloseStripTab
    <2>2. Len(left) \in Nat \ {0}
        BY <1>2, <1>5, EmptySeq
    <2>3. sel \in 1..Len(left)
        BY <1>1, <1>2, <2>2
    <2>4. current' = sel
        BY <1>3, <1>5
    <2> HIDE DEF left, sel
    <2>5. Ensure(strip', current', offset)
        BY <1>3, <2>1, <2>4
    <2>6. current' \in Nat \ {0} /\ current' <= Len(strip')
        BY <1>3, <2>2, <2>3, <2>4
    <2>7. strip' \in Seq(TabWidths) /\ Len(strip') <= MaxStrip /\ UNCHANGED barWidth
          /\ grabbed' \in 0..MaxStrip
        BY <1>1, <1>2, <1>3, MaxStripAssumption
    <2> QED
        BY <1>3, <1>5, <1>6, <2>5, <2>6, <2>7, EnsureKeeps
<1> QED
    BY <1>4, <1>5

LEMMA ScrollKept ==
    ASSUME StripInv, NEW hit \in Hits, hit.on \in {"earlier", "later"}, ScrollTo(hit.on),
           grabbed' \in 0..MaxStrip
    PROVE  StripInv'
<1> DEFINE m == Metrics(strip, offset, barWidth)
<1>1. strip # <<>> /\ strip \in Seq(TabWidths) /\ offset \in Nat /\ barWidth \in Nat
    BY HitTypes, BarTypes DEF StripInv, StripTypeOK
<1>2. Offsets(strip) \in SUBSET Nat
    BY <1>1, OffsetTypes
<1>3. m.offset \in Nat
    BY <1>1, MetricsIs
<1>6. m.earlier = {s \in Offsets(strip) : s < m.offset}
    BY <1>1, MetricsIs
<1>7. m.later = {s \in Offsets(strip) : s > m.offset /\ s <= Final(strip, barWidth)}
    BY <1>1, MetricsIs
<1> HIDE DEF m
<1>4. CASE hit.on = "earlier"
    <2>1. m.earlier # {} /\ m.earlier \in SUBSET Nat /\ \A s \in m.earlier : s <= m.offset
        BY <1>2, <1>3, <1>6, <1>4, HitTypes DEF m
    <2>2. Greatest(m.earlier) \in Nat
        BY <1>3, <2>1, GreatestIs
    <2>3. offset' \in Nat
        BY <1>4, <2>2 DEF ScrollTo, m
    <2>4. StripTypeOK'
        BY <2>3 DEF ScrollTo, StripInv, StripTypeOK, Changes
    <2> QED
        BY <1>1, <2>4, UnfollowedKeeps DEF ScrollTo
<1>5. CASE hit.on = "later"
    <2>1. m.later # {} /\ m.later \in SUBSET Nat
        BY <1>2, <1>3, <1>7, <1>5, HitTypes DEF m
    <2>2. Least(m.later) \in Nat
        BY <2>1, LeastIs
    <2>3. offset' \in Nat
        BY <1>5, <2>2 DEF ScrollTo, m
    <2>4. StripTypeOK'
        BY <2>3 DEF ScrollTo, StripInv, StripTypeOK, Changes
    <2> QED
        BY <1>1, <2>4, UnfollowedKeeps DEF ScrollTo
<1> QED
    BY <1>4, <1>5

\* A frame of the same width leaves a strip that has followed where it is.
LEMMA DrawKept ==
    ASSUME StripInv, NEW w \in BarWidths, DrawBar(w) PROVE StripInv'
<1>1. /\ strip' = strip /\ current' = current /\ barWidth' = w /\ w \in Nat /\ offset \in Nat
      /\ strip \in Seq(TabWidths) /\ grabbed' = grabbed /\ editing' = editing
      /\ drift' = (IF w = barWidth THEN drift ELSE drift \cup {"width"})
      /\ offset' = Normalize(strip, offset, w)
    BY BarWidthsAssumption DEF DrawBar, StripInv, StripTypeOK
<1>2. offset' \in Nat
    <2>1. CASE strip = <<>> \/ w = 0
        BY <1>1, <2>1 DEF Normalize
    <2>2. CASE ~(strip = <<>> \/ w = 0)
        BY <1>1, <2>2, MetricsIs DEF Normalize
    <2> QED
        BY <2>1, <2>2
<1>3. StripTypeOK'
    BY <1>1, <1>2 DEF StripInv, StripTypeOK, Changes
<1>4. CASE drift' # {}
    BY <1>1, <1>3, <1>4, UnfollowedKeeps DEF StripInv
<1>5. CASE drift' = {} /\ strip # <<>>
    <2>1. w = barWidth /\ w > 0 /\ Snapped(strip, offset, w)
        BY <1>1, <1>5 DEF StripInv
    <2>2. offset' = offset
        BY <1>1, <1>5, <2>1, SnappedStays DEF Normalize
    <2>3. UNCHANGED stripVars
        BY <1>1, <1>5, <2>1, <2>2 DEF stripVars
    <2> QED
        BY <1>3, <2>3 DEF StripInv, SelectedTabShown, CurrentShown, stripVars
<1>6. CASE drift' = {} /\ strip = <<>>
    BY <1>1, <1>3, <1>6 DEF StripInv, SelectedTabShown, CurrentShown
<1> QED
    BY <1>4, <1>5, <1>6

LEMMA ClickKept ==
    ASSUME StripInv, NEW hit \in Hits,
           ClickMarker(hit) \/ ClickMark(hit) \/ ClickTitle(hit) \/ ClickBlank(hit) \/ DragOver(hit)
    PROVE  StripInv'
<1>1. /\ strip # <<>> /\ strip \in Seq(TabWidths) /\ Len(strip) \in Nat /\ Len(strip) <= MaxStrip
      /\ 0 \in 0..MaxStrip /\ current \in 1..Len(strip) /\ grabbed \in 0..MaxStrip
      /\ editing \in Seq(BOOLEAN) /\ Len(editing) = Len(strip)
    BY HitTypes, LenProperties, MaxStripAssumption DEF StripInv, StripTypeOK
<1>2. hit.on \in {"title", "close"} => hit.tab \in 1..Len(strip) /\ hit.tab \in 0..MaxStrip
    BY <1>1, HitTypes, MaxStripAssumption
<1>3. CASE ClickMarker(hit)
    BY <1>1, <1>3, ScrollKept DEF ClickMarker
<1>4. CASE ClickMark(hit)
    BY <1>1, <1>2, <1>4, CloseTabKept DEF ClickMark
<1>5. CASE ClickTitle(hit)
    <2>1. /\ strip' = strip /\ current' = hit.tab /\ grabbed' = hit.tab /\ barWidth' = barWidth
          /\ Ensure(strip', current', offset) /\ hit.tab \in 1..Len(strip) /\ hit.tab \in 0..MaxStrip
          /\ editing' = editing
        BY <1>2, <1>5 DEF ClickTitle
    <2>2. current' \in Nat \ {0} /\ current' <= Len(strip')
        BY <1>1, <2>1
    <2> QED
        BY <1>1, <2>1, <2>2, EnsureKeeps
<1>6. CASE ClickBlank(hit)
    <2>1. /\ strip' = strip /\ current' = current /\ grabbed' = 0 /\ barWidth' = barWidth
          /\ Ensure(strip', current', offset) /\ editing' = editing
        BY <1>6 DEF ClickBlank
    <2>2. current' \in Nat \ {0} /\ current' <= Len(strip')
        BY <1>1, <2>1
    <2> QED
        BY <1>1, <2>1, <2>2, EnsureKeeps
<1>7. CASE DragOver(hit)
    <2>1. CASE hit.on \in {"title", "close"}
        <3>1. grabbed \in 1..Len(strip) /\ Moved(grabbed, hit.tab)
              /\ grabbed' = hit.tab /\ UNCHANGED barWidth
            BY <1>1, <1>7, <2>1 DEF DragOver
        <3> QED
            BY <1>2, <2>1, <3>1, MovedKept
    <2>2. CASE hit.on \in {"earlier", "later"}
        BY <1>1, <1>7, <2>2, ScrollKept DEF DragOver
    <2> QED
        BY <1>7, <2>1, <2>2 DEF DragOver
<1> QED
    BY <1>3, <1>4, <1>5, <1>6, <1>7

LEMMA StripInvNext == StripInv /\ [StripNext]_stripVars => StripInv'
<1> SUFFICES ASSUME StripInv, [StripNext]_stripVars PROVE StripInv'
    OBVIOUS
<1>1. /\ strip \in Seq(TabWidths) /\ Len(strip) \in Nat /\ DOMAIN strip = 1..Len(strip)
      /\ current \in Nat \ {0} /\ (IF strip = <<>> THEN current = 1 ELSE current \in 1..Len(strip))
      /\ grabbed \in 0..MaxStrip /\ offset \in Nat
    BY LenProperties DEF StripInv, StripTypeOK
<1>2. ASSUME NEW w \in TabWidths, NEW edit \in BOOLEAN,
             PushTab(w) \/ RetitleTab(w) \/ OpenEditorTab(w, edit)
      PROVE  StripInv'
    BY <1>2, PushKept, RetitleKept, EditorTabKept
<1>3. ASSUME NEW i \in DOMAIN strip, FocusTab(i) PROVE StripInv'
    BY <1>1, <1>3, FocusKept
<1>4. CASE StepLeft \/ StepRight
    <2>1. PICK i \in 1..Len(strip) : FocusTab(i)
        <3>1. CASE strip = <<>>
            BY <1>1, <1>4, <3>1 DEF StepLeft, StepRight
        <3>2. CASE strip # <<>>
            BY <1>1, <1>4, <3>2 DEF StepLeft, StepRight
        <3> QED
            BY <3>1, <3>2
    <2> QED
        BY <2>1, FocusKept
<1>5. CASE MoveLeft \/ MoveRight
    <2>1. PICK to \in 1..Len(strip) : current \in 1..Len(strip) /\ Moved(current, to)
        <3>1. CASE strip = <<>>
            BY <1>1, <1>5, <3>1 DEF MoveLeft, MoveRight
        <3>2. CASE strip # <<>>
            BY <1>1, <1>5, <3>2 DEF MoveLeft, MoveRight
        <3> QED
            BY <3>1, <3>2
    <2>2. UNCHANGED barWidth /\ grabbed' \in 0..MaxStrip
        BY <1>1, <1>5 DEF MoveLeft, MoveRight
    <2> QED
        BY <2>1, <2>2, MovedKept
<1>6. CASE CloseCurrent
    BY <1>1, <1>6, CloseTabKept DEF CloseCurrent
<1>7. ASSUME NEW hit \in Hits,
             ClickMarker(hit) \/ ClickMark(hit) \/ ClickTitle(hit) \/ ClickBlank(hit) \/ DragOver(hit)
      PROVE  StripInv'
    BY <1>7, ClickKept
<1>8. CASE Release
    BY <1>1, <1>8, EnsureKeeps, MaxStripAssumption DEF Release, StripInv, StripTypeOK
<1>9. ASSUME NEW w \in BarWidths, DrawBar(w) PROVE StripInv'
    BY <1>9, DrawKept
<1>10. CASE UNCHANGED stripVars
    BY <1>10 DEF StripInv, StripTypeOK, SelectedTabShown, CurrentShown, stripVars
<1> QED
    BY <1>2, <1>3, <1>4, <1>5, <1>6, <1>7, <1>8, <1>9, <1>10 DEF StripNext

LEMMA StripInvariant == StripSpec => []StripInv
    BY StripInvInit, StripInvNext, PTL DEF StripSpec

\* Types of the strip (terminal_tabs/): tabs of known widths, a selection among them.
THEOREM StripTypeCorrect == StripSpec => []StripTypeOK
<1>1. StripInv => StripTypeOK
    BY DEF StripInv
<1> QED
    BY <1>1, StripInvariant, PTL

\* While the strip follows its selection, the selected tab is on the screen whenever it fits
\* (ensure_tab_visible), for any number of tabs, any widths of tabs and of the bar, and whatever
\* is opened, closed, dragged, scrolled or clicked.
THEOREM SelectedTabIsShown == StripSpec => []SelectedTabShown
<1>1. StripInv => SelectedTabShown
    BY DEF StripInv
<1> QED
    BY <1>1, StripInvariant, PTL

-----------------------------------------------------------------------------
(* TextEdit: pieces of a text *)

\* A text is cut anywhere and joined again.
LEMMA CutJoins ==
    ASSUME NEW S, NEW t \in Seq(S), NEW lo \in 0..Len(t), NEW hi \in lo..Len(t)
    PROVE  /\ SubSeq(t, 1, lo) \in Seq(S) /\ Len(SubSeq(t, 1, lo)) = lo
           /\ SubSeq(t, lo + 1, hi) \in Seq(S) /\ Len(SubSeq(t, lo + 1, hi)) = hi - lo
           /\ SubSeq(t, hi + 1, Len(t)) \in Seq(S) /\ Len(SubSeq(t, hi + 1, Len(t))) = Len(t) - hi
           /\ SubSeq(t, 1, lo) \o SubSeq(t, lo + 1, Len(t)) = t
           /\ SubSeq(t, 1, lo) \o SubSeq(t, lo + 1, hi) = SubSeq(t, 1, hi)
<1>1. Len(t) \in Nat /\ \A i \in 1..Len(t) : t[i] \in S
    BY LenProperties, ElementOfSeq
<1>2. SubSeq(t, 1, lo) \in Seq(S) /\ Len(SubSeq(t, 1, lo)) = lo
    BY <1>1, SubSeqProperties
<1>3. SubSeq(t, lo + 1, hi) \in Seq(S) /\ Len(SubSeq(t, lo + 1, hi)) = hi - lo
    BY <1>1, SubSeqProperties
<1>4. SubSeq(t, hi + 1, Len(t)) \in Seq(S) /\ Len(SubSeq(t, hi + 1, Len(t))) = Len(t) - hi
    BY <1>1, SubSeqProperties
<1>5. SubSeq(t, 1, lo) \o SubSeq(t, lo + 1, hi) = SubSeq(t, 1, hi)
    <2>1. lo \in (1 - 1)..Len(t) /\ hi \in lo..Len(t) /\ 1 \in 1..(Len(t) + 1)
        BY <1>1
    <2> QED
        BY <2>1, ConcatAdjacentSubSeq
<1>6. SubSeq(t, 1, lo) \o SubSeq(t, lo + 1, Len(t)) = t
    <2>1. lo \in (1 - 1)..Len(t) /\ Len(t) \in lo..Len(t) /\ 1 \in 1..(Len(t) + 1)
        BY <1>1
    <2>2. SubSeq(t, 1, lo) \o SubSeq(t, lo + 1, Len(t)) = SubSeq(t, 1, Len(t))
        BY <2>1, ConcatAdjacentSubSeq
    <2> QED
        BY <2>2, SubSeqFull
<1> QED
    BY <1>2, <1>3, <1>4, <1>5, <1>6

\* What was joined is cut where it was joined.
LEMMA JoinCuts ==
    ASSUME NEW S, NEW b \in Seq(S), NEW e \in Seq(S)
    PROVE  /\ b \o e \in Seq(S) /\ Len(b \o e) = Len(b) + Len(e)
           /\ SubSeq(b \o e, 1, Len(b)) = b
           /\ SubSeq(b \o e, Len(b) + 1, Len(b \o e)) = e
<1> DEFINE t == b \o e
<1>1. Len(b) \in Nat /\ Len(e) \in Nat
    BY LenProperties
<1>2. /\ t \in Seq(S) /\ Len(t) = Len(b) + Len(e)
      /\ \A i \in 1..(Len(b) + Len(e)) : t[i] = IF i <= Len(b) THEN b[i] ELSE e[i - Len(b)]
    BY ConcatProperties
<1> HIDE DEF t
<1>3. \A i \in 1..Len(t) : t[i] \in S
    BY <1>2, ElementOfSeq
<1>4. /\ SubSeq(t, 1, Len(b)) \in Seq(S) /\ Len(SubSeq(t, 1, Len(b))) = Len(b)
      /\ \A i \in 1..Len(b) : SubSeq(t, 1, Len(b))[i] = b[i]
    BY <1>1, <1>2, <1>3, SubSeqProperties
<1>5. SubSeq(t, 1, Len(b)) = b
    BY <1>4, SeqEqual
<1>6. /\ SubSeq(t, Len(b) + 1, Len(t)) \in Seq(S) /\ Len(SubSeq(t, Len(b) + 1, Len(t))) = Len(e)
      /\ \A i \in 1..Len(e) : SubSeq(t, Len(b) + 1, Len(t))[i] = t[Len(b) + i]
    BY <1>1, <1>2, <1>3, SubSeqProperties
<1>7. \A i \in 1..Len(e) : SubSeq(t, Len(b) + 1, Len(t))[i] = e[i]
    <2> TAKE i \in 1..Len(e)
    <2> DEFINE j == Len(b) + i
    <2>1. j \in 1..(Len(b) + Len(e)) /\ ~(j <= Len(b)) /\ j - Len(b) = i
        BY <1>1
    <2> HIDE DEF j
    <2>2. t[j] = e[i]
        BY <1>2, <2>1
    <2> QED
        BY <1>6, <2>2 DEF j
<1>8. SubSeq(t, Len(b) + 1, Len(t)) = e
    BY <1>6, <1>7, SeqEqual
<1> QED
    BY <1>2, <1>5, <1>8 DEF t

-----------------------------------------------------------------------------
(* TextEdit: a line, seen as the text before, in and behind the selection *)

InText(f) ==
    /\ f \in Line /\ f.cursor <= Len(f.text)
    /\ \/ f.sel = {}
       \/ \E a, b \in 0..Len(f.text) : f.sel = {<<a, b>>}

LEMMA Fields ==
    ASSUME NEW f \in Line, NEW n, NEW sel
    PROVE  [f EXCEPT !.cursor = n, !.sel = sel] = [text |-> f.text, cursor |-> n, sel |-> sel]
<1> DEFINE g == [f EXCEPT !.cursor = n]
<1>1. g = [text |-> f.text, cursor |-> n, sel |-> f.sel]
    BY DEF Line
<1> HIDE DEF g
<1>2. [g EXCEPT !.sel = sel] = [text |-> f.text, cursor |-> n, sel |-> sel]
    BY <1>1
<1> QED
    BY <1>2, Zenon DEF g

LEMMA TextAndCursor ==
    ASSUME NEW f \in Line, NEW t
    PROVE  [f EXCEPT !.text = t, !.cursor = @ - 1] =
              [text |-> t, cursor |-> f.cursor - 1, sel |-> f.sel]
<1> DEFINE g == [f EXCEPT !.text = t]
<1>1. g = [text |-> t, cursor |-> f.cursor, sel |-> f.sel]
    BY DEF Line
<1> HIDE DEF g
<1>2. [g EXCEPT !.cursor = f.cursor - 1] = [text |-> t, cursor |-> f.cursor - 1, sel |-> f.sel]
    BY <1>1
<1>3. g.cursor = f.cursor
    BY <1>1
<1> QED
    BY <1>2, <1>3, Zenon DEF g

LEMMA ShortOfLast ==
    ASSUME NEW b \in Seq(Chars)
    PROVE  ButLast(b) \in Seq(Chars) /\ Len(ButLast(b)) = IF b = <<>> THEN 0 ELSE Len(b) - 1
<1>1. Len(b) \in Nat /\ \A i \in 1..Len(b) : b[i] \in Chars
    BY LenProperties, ElementOfSeq
<1>2. b = <<>> => Len(b) = 0
    BY EmptySeq
<1>3. b # <<>> => Len(b) \in Nat \ {0}
    BY EmptySeq
<1>4. /\ SubSeq(b, 1, Len(b) - 1) \in Seq(Chars)
      /\ Len(SubSeq(b, 1, Len(b) - 1)) = IF 1 <= Len(b) - 1 THEN Len(b) - 1 - 1 + 1 ELSE 0
    BY <1>1, SubSeqProperties
<1> QED
    BY <1>1, <1>2, <1>3, <1>4 DEF ButLast

LEMMA AtIs ==
    ASSUME NEW f \in Line, NEW n
    PROVE  At(f, n) = [text |-> f.text, cursor |-> n, sel |-> {}]
    BY Fields, Zenon DEF At

\* The three texts of a line.
Viewed(f, b, c, e) ==
    /\ b \in Seq(Chars) /\ c \in Seq(Chars) /\ e \in Seq(Chars)
    /\ f.text = (b \o c) \o e
    /\ Len(f.text) = Len(b) + Len(c) + Len(e)
    /\ \/ Normalized(f) = {} /\ c = <<>> /\ f.cursor = Len(b)
       \/ Normalized(f) = {<<Len(b), Len(b) + Len(c)>>} /\ c # <<>>

\* A line whose text was cut, or grew, at the cursor.
JoinedLine(b, e) == [text |-> b \o e, cursor |-> Len(b), sel |-> {}]

LEMMA NoSelection ==
    ASSUME NEW f, f.sel = {} PROVE Normalized(f) = {}
    BY DEF Normalized

LEMMA NormalizedIs ==
    ASSUME NEW f, NEW a \in 0..Len(f.text), NEW b \in 0..Len(f.text), Len(f.text) \in Nat,
           f.sel = {<<a, b>>}
    PROVE  /\ a = b => Normalized(f) = {}
           /\ a < b => Normalized(f) = {<<a, b>>}
           /\ b < a => Normalized(f) = {<<b, a>>}
<1>1. Lower(a, Len(f.text)) = a /\ Lower(b, Len(f.text)) = b
    BY DEF Lower
<1>2. Normalized(f) = {p \in {IF a < b THEN <<a, b>> ELSE <<b, a>>} : p[1] # p[2]}
    BY <1>1 DEF Normalized
<1> QED
    BY <1>2

\* A line that lies within its text has such a view.
LEMMA ViewExists ==
    ASSUME NEW f, InText(f)
    PROVE  \E b, c, e \in Seq(Chars) :
              Viewed(f, b, c, e) /\ Zipper(f) = Split(b, c, e)
<1>1. f.text \in Seq(Chars) /\ Len(f.text) \in Nat /\ f.cursor \in 0..Len(f.text)
    BY LenProperties DEF InText, Line
<1>2. ASSUME NEW lo \in 0..Len(f.text), NEW hi \in lo..Len(f.text),
             \/ Normalized(f) = {} /\ hi = lo /\ f.cursor = lo
             \/ Normalized(f) = {<<lo, hi>>} /\ lo # hi
      PROVE  \E b, c, e \in Seq(Chars) : Viewed(f, b, c, e) /\ Zipper(f) = Split(b, c, e)
    <2> DEFINE b == SubSeq(f.text, 1, lo)
               c == SubSeq(f.text, lo + 1, hi)
               e == SubSeq(f.text, hi + 1, Len(f.text))
    <2>1. /\ b \in Seq(Chars) /\ c \in Seq(Chars) /\ e \in Seq(Chars)
          /\ Len(b) = lo /\ Len(c) = hi - lo /\ Len(e) = Len(f.text) - hi
          /\ b \o c = SubSeq(f.text, 1, hi)
        BY <1>1, CutJoins
    <2>2. hi \in 0..Len(f.text) /\ Len(f.text) \in hi..Len(f.text)
        BY <1>1
    <2>3. SubSeq(f.text, 1, hi) \o e = f.text
        BY <1>1, <2>2, CutJoins
    <2>4. Zipper(f) = Split(b, c, e)
        <3> DEFINE p == IF Normalized(f) = {} THEN <<f.cursor, f.cursor>>
                        ELSE CHOOSE q \in Normalized(f) : TRUE
        <3>1. p[1] = lo /\ p[2] = hi
            <4>1. CASE Normalized(f) = {}
                BY <1>2, <4>1
            <4>2. CASE Normalized(f) # {}
                <5>1. Normalized(f) = {<<lo, hi>>}
                    BY <1>2, <4>2
                <5>2. (CHOOSE q \in Normalized(f) : TRUE) \in Normalized(f)
                    BY <4>2
                <5>3. p = <<lo, hi>>
                    BY <4>2, <5>1, <5>2
                <5> QED
                    BY <5>3
            <4> QED
                BY <4>1, <4>2
        <3> QED
            BY <3>1 DEF Zipper, Split, Upto, From
    <2>5. Len(b) + Len(c) = hi
        BY <2>1
    <2>6. c = <<>> <=> hi = lo
        <3>1. Len(c) = 0 => c = <<>>
            BY <2>1, EmptySeq, LenProperties
        <3>2. c = <<>> => Len(c) = 0
            BY EmptySeq
        <3>3. Len(c) = 0 <=> hi = lo
            BY <2>1
        <3> QED
            BY <3>1, <3>2, <3>3, Zenon
    <2> HIDE DEF b, c, e
    <2>7. Viewed(f, b, c, e)
        BY <1>1, <1>2, <2>1, <2>3, <2>5, <2>6 DEF Viewed
    <2> QED
        BY <2>1, <2>4, <2>7
<1>3. CASE f.sel = {}
    BY <1>1, <1>2, <1>3, NoSelection
<1>4. CASE f.sel # {}
    <2>1. PICK a \in 0..Len(f.text), b \in 0..Len(f.text) : f.sel = {<<a, b>>}
        BY <1>4 DEF InText
    <2>2. CASE a = b
        BY <1>1, <1>2, <2>1, <2>2, NormalizedIs
    <2>3. CASE a < b
        <3>1. b \in a..Len(f.text) /\ a # b /\ Normalized(f) = {<<a, b>>}
            BY <1>1, <2>1, <2>3, NormalizedIs
        <3> QED
            BY <1>2, <3>1
    <2>4. CASE b < a
        <3>1. Normalized(f) = {<<b, a>>}
            <4>1. Len(f.text) \in Nat
                BY <1>1
            <4> QED
                BY <2>1, <2>4, <4>1, NormalizedIs
        <3>2. a \in b..Len(f.text) /\ a # b
            BY <2>1, <2>4
        <3> QED
            BY <1>2, <3>1, <3>2
    <2> QED
        BY <2>2, <2>3, <2>4
<1> QED
    BY <1>3, <1>4

\* A cursor without selection splits the text where it stands.
LEMMA ZipperAt ==
    ASSUME NEW f, f \in Line, NEW n \in 0..Len(f.text)
    PROVE  /\ InText(At(f, n)) /\ At(f, n).text = f.text
           /\ Zipper(At(f, n)) =
                 Split(SubSeq(f.text, 1, n), <<>>, SubSeq(f.text, n + 1, Len(f.text)))
<1>1. Len(f.text) \in Nat
    BY LenProperties DEF Line
<1>2. /\ At(f, n) \in Line /\ At(f, n).text = f.text /\ At(f, n).cursor = n /\ At(f, n).sel = {}
    BY <1>1, AtIs DEF Line
<1>3. Normalized(At(f, n)) = {}
    BY <1>2, NoSelection
<1>4. SubSeq(f.text, n + 1, n) = <<>>
    BY SubSeqEmpty
<1>5. Zipper(At(f, n)) = Split(SubSeq(f.text, 1, n), <<>>, SubSeq(f.text, n + 1, Len(f.text)))
    BY <1>2, <1>3, <1>4 DEF Zipper, Split, Upto, From
<1> QED
    BY <1>1, <1>2, <1>5 DEF InText

LEMMA ZipperJoined ==
    ASSUME NEW b \in Seq(Chars), NEW e \in Seq(Chars)
    PROVE  /\ InText(JoinedLine(b, e)) /\ Len(JoinedLine(b, e).text) = Len(b) + Len(e)
           /\ Zipper(JoinedLine(b, e)) = Split(b, <<>>, e)
<1> DEFINE f == JoinedLine(b, e)
<1>1. /\ b \o e \in Seq(Chars) /\ Len(b \o e) = Len(b) + Len(e) /\ Len(b) \in Nat /\ Len(e) \in Nat
      /\ SubSeq(b \o e, 1, Len(b)) = b /\ SubSeq(b \o e, Len(b) + 1, Len(b \o e)) = e
    BY JoinCuts, LenProperties
<1>2. f.text = b \o e /\ f.cursor = Len(b) /\ f.sel = {} /\ f \in Line
    BY <1>1 DEF JoinedLine, Line
<1> HIDE DEF f
<1>3. Normalized(f) = {}
    BY <1>2, NoSelection
<1>4. SubSeq(b \o e, Len(b) + 1, Len(b)) = <<>>
    BY <1>1, SubSeqEmpty
<1>5. Zipper(f) = Split(b, <<>>, e)
    BY <1>1, <1>2, <1>3, <1>4 DEF Zipper, Split, Upto, From
<1> QED
    BY <1>1, <1>2, <1>5 DEF InText, f

-----------------------------------------------------------------------------
(* TextEdit: what the keys make of a line *)

LEMMA DeleteIs ==
    ASSUME NEW f \in Line, NEW b, NEW c, NEW e, Viewed(f, b, c, e)
    PROVE  /\ c # <<>> => DeleteSelection(f) = JoinedLine(b, e)
           /\ f.cursor = Len(b) => (c = <<>> => DeleteSelection(f) = JoinedLine(b, e))
           /\ c = <<>> => f.cursor = Len(b) /\ f.text = b \o e /\ b \o c = b
<1>1. /\ b \in Seq(Chars) /\ c \in Seq(Chars) /\ e \in Seq(Chars) /\ f.text = (b \o c) \o e
      /\ Len(b) \in Nat /\ Len(c) \in Nat /\ Len(e) \in Nat
      /\ Len(f.text) = Len(b) + Len(c) + Len(e)
    BY LenProperties DEF Viewed
<1>2. b \o c \in Seq(Chars) /\ Len(b \o c) = Len(b) + Len(c)
    BY <1>1, ConcatProperties
<1>3. c = <<>> => f.cursor = Len(b) /\ b \o c = b /\ f.text = b \o e /\ Normalized(f) = {}
    BY <1>1, ConcatEmptySeq DEF Viewed
<1>4. ASSUME c # <<>> PROVE DeleteSelection(f) = JoinedLine(b, e)
    <2>1. Normalized(f) = {<<Len(b), Len(b) + Len(c)>>}
        BY <1>4 DEF Viewed
    <2> DEFINE p == CHOOSE q \in Normalized(f) : TRUE
    <2>2. p = <<Len(b), Len(b) + Len(c)>>
        BY <2>1
    <2> HIDE DEF p
    <2>3. p[1] = Len(b) /\ p[2] = Len(b) + Len(c)
        BY <2>2
    <2>4. From(f, p[2]) = e
        BY <1>1, <1>2, <2>3, JoinCuts DEF From
    <2>5. Upto(f, p[1]) = b
        <3>1. c \o e \in Seq(Chars) /\ f.text = b \o (c \o e)
            BY <1>1, ConcatAssociative, ConcatProperties
        <3> QED
            BY <1>1, <2>3, <3>1, JoinCuts DEF Upto
    <2>6. DeleteSelection(f) = [text |-> Upto(f, p[1]) \o From(f, p[2]), cursor |-> p[1], sel |-> {}]
        BY <2>1, Zenon DEF DeleteSelection, p
    <2> QED
        BY <2>3, <2>4, <2>5, <2>6 DEF JoinedLine
<1>5. ASSUME c = <<>> PROVE DeleteSelection(f) = JoinedLine(b, e)
    BY <1>3, <1>5 DEF DeleteSelection, JoinedLine, Line
<1> QED
    BY <1>3, <1>4, <1>5

\* The parts before and behind a position near the cursor.
LEMMA Parts ==
    ASSUME NEW f, NEW b \in Seq(Chars), NEW e \in Seq(Chars), f.text = b \o e
    PROVE  /\ Upto(f, Len(b)) = b /\ From(f, Len(b)) = e
           /\ b # <<>> => Upto(f, Len(b) - 1) = ButLast(b)
           /\ e # <<>> => From(f, Len(b) + 1) = Tail(e)
<1>1. /\ Len(b) \in Nat /\ Len(e) \in Nat /\ b \o e \in Seq(Chars) /\ Len(b \o e) = Len(b) + Len(e)
      /\ SubSeq(b \o e, 1, Len(b)) = b /\ SubSeq(b \o e, Len(b) + 1, Len(b \o e)) = e
    BY JoinCuts, LenProperties
<1>2. ASSUME b # <<>> PROVE Upto(f, Len(b) - 1) = ButLast(b)
    <2>1. Len(b) \in Nat \ {0}
        BY <1>2, EmptySeq
    <2>2. CASE Len(b) = 1
        BY <2>2, SubSeqEmpty DEF Upto, ButLast
    <2>3. CASE Len(b) # 1
        <3>1. \A n \in Nat \ {0} : n # 1 => 1 \in 1..n /\ n - 1 \in 1..n
            OBVIOUS
        <3>2. 1 \in 1..Len(b) /\ Len(b) - 1 \in 1..Len(b)
            BY <2>1, <2>3, <3>1, Zenon
        <3> QED
            BY <3>2, SubSeqOfConcat1 DEF Upto, ButLast
    <2> QED
        BY <2>2, <2>3
<1>3. ASSUME e # <<>> PROVE From(f, Len(b) + 1) = Tail(e)
    <2>1. Len(e) \in Nat \ {0} /\ Tail(e) = SubSeq(e, 2, Len(e))
        BY <1>3, EmptySeq, TailIsSubSeq
    <2>2. CASE Len(e) = 1
        <3>1. Len(b) + 1 + 1 \in Int /\ Len(b \o e) \in Int /\ Len(b \o e) < Len(b) + 1 + 1
            BY <1>1, <2>2
        <3> QED
            BY <2>1, <2>2, <3>1, SubSeqEmpty DEF From
    <2>3. CASE Len(e) # 1
        <3>1. /\ Len(b) + 1 + 1 \in Len(b) + 1 .. Len(b) + Len(e)
              /\ Len(b \o e) \in Len(b) + 1 .. Len(b) + Len(e)
              /\ Len(b) + 1 + 1 - Len(b) = 2 /\ Len(b \o e) - Len(b) = Len(e)
            BY <1>1, <2>1, <2>3
        <3> QED
            BY <2>1, <3>1, SubSeqOfConcat2 DEF From
    <2> QED
        BY <2>1, <2>2, <2>3
<1> QED
    BY <1>1, <1>2, <1>3 DEF Upto, From

\* Typing a character puts it where the selection was.
LEMMA TypedIs ==
    ASSUME NEW f \in Line, NEW ch \in Chars, NEW b, NEW c, NEW e, Viewed(f, b, c, e)
    PROVE  InsertChar(f, ch) = JoinedLine(b \o <<ch>>, e)
<1> DEFINE g == DeleteSelection(f)
<1>1. b \in Seq(Chars) /\ e \in Seq(Chars) /\ Len(b) \in Nat /\ Len(e) \in Nat
    BY LenProperties DEF Viewed
<1>2. g = JoinedLine(b, e)
    BY DeleteIs
<1>3. g.text = b \o e /\ g.cursor = Len(b)
    BY <1>2 DEF JoinedLine
<1> HIDE DEF g
<1>4. Len(g.text) = Len(b) + Len(e)
    BY <1>1, <1>3, JoinCuts
<1>5. Clamped(g) = Len(b)
    BY <1>1, <1>3, <1>4 DEF Clamped, Lower
<1>6. Upto(g, Len(b)) = b /\ From(g, Len(b)) = e
    BY <1>1, <1>3, Parts
<1>7. Len(b \o <<ch>>) = Len(b) + 1
    BY <1>1, ConcatProperties
<1> QED
    BY <1>5, <1>6, <1>7 DEF InsertChar, JoinedLine, g

\* What is pressed on a password, and on any other line.
LEMMA Secretly ==
    ASSUME NEW f, NEW key, secret PROVE Pressed(f, key) = PasswordKey(f, key)
    BY Zenon DEF Pressed

LEMMA Openly ==
    ASSUME NEW f, ~secret
    PROVE  /\ Pressed(f, "left") = MoveCursorLeft(f) /\ Pressed(f, "right") = MoveCursorRight(f)
           /\ Pressed(f, "home") = At(f, 0) /\ Pressed(f, "end") = At(f, Len(f.text))
           /\ Pressed(f, "all") = SelectAll(f)
           /\ Pressed(f, "back") = Backspace(f) /\ Pressed(f, "delete") = DeleteChar(f)
    BY DEF Pressed

Going(f, b, c, key) ==
    CASE key = "left" -> IF c # <<>> THEN Len(b) ELSE IF Len(b) > 0 THEN Len(b) - 1 ELSE 0
      [] key = "right" -> IF c # <<>> THEN Len(b) + Len(c) ELSE Lower(Len(b) + 1, Len(f.text))
      [] key = "home" -> 0
      [] OTHER -> Len(f.text)

Everything(f) == [text |-> f.text, cursor |-> Len(f.text), sel |-> {<<0, Len(f.text)>>}]

LEMMA PasswordIs ==
    ASSUME NEW f \in Line, NEW b, NEW e, Viewed(f, b, <<>>, e), f.sel = {}
    PROVE  /\ \A key \in {"left", "right", "home", "end", "all"} :
                 PasswordKey(f, key) = At(f, Going(f, b, <<>>, key))
           /\ PasswordKey(f, "back") = JoinedLine(ButLast(b), e)
           /\ PasswordKey(f, "delete") = JoinedLine(b, IF e = <<>> THEN <<>> ELSE Tail(e))
<1>1. /\ b \in Seq(Chars) /\ e \in Seq(Chars) /\ Len(b) \in Nat /\ Len(e) \in Nat
      /\ f.cursor = Len(b) /\ f.text = b \o e /\ Len(f.text) = Len(b) + Len(e)
    <2>1. Len(f.text) = Len(b) + Len(<<>>) + Len(e) /\ b \in Seq(Chars) /\ e \in Seq(Chars)
        BY DEF Viewed
    <2>2. Len(<<>>) = 0
        BY EmptySeq
    <2>3. f.cursor = Len(b) /\ f.text = b \o e
        BY DeleteIs
    <2> QED
        BY <2>1, <2>2, <2>3, LenProperties
<1>2. \A key \in {"left", "right", "home", "end", "all"} :
         PasswordKey(f, key) = At(f, Going(f, b, <<>>, key))
    <2>1. /\ PasswordKey(f, "left") = At(f, Going(f, b, <<>>, "left"))
          /\ PasswordKey(f, "right") = At(f, Going(f, b, <<>>, "right"))
          /\ PasswordKey(f, "home") = At(f, Going(f, b, <<>>, "home"))
          /\ PasswordKey(f, "end") = At(f, Going(f, b, <<>>, "end"))
          /\ PasswordKey(f, "all") = At(f, Going(f, b, <<>>, "all"))
        BY <1>1 DEF PasswordKey, Going
    <2> QED
        BY <2>1, Zenon
<1>3. PasswordKey(f, "back") = JoinedLine(ButLast(b), e)
    <2>1. CASE b = <<>>
        <3>1. PasswordKey(f, "back") = f /\ ButLast(b) = <<>>
            BY <1>1, <2>1, EmptySeq, SubSeqEmpty DEF PasswordKey, ButLast
        <3> QED
            BY <1>1, <2>1, <3>1 DEF JoinedLine, Line
    <2>2. CASE b # <<>>
        <3>1. Len(b) \in Nat \ {0}
            BY <1>1, <2>2, EmptySeq
        <3>2. f.cursor > 0
            BY <1>1, <3>1
        <3>3. PasswordKey(f, "back") =
                 [f EXCEPT !.text = Upto(f, f.cursor - 1) \o From(f, f.cursor), !.cursor = @ - 1]
            BY <3>2, Zenon DEF PasswordKey
        <3>4. PasswordKey(f, "back") =
                 [text |-> Upto(f, f.cursor - 1) \o From(f, f.cursor), cursor |-> f.cursor - 1,
                  sel |-> f.sel]
            BY <3>3, TextAndCursor, Zenon
        <3>5. Upto(f, f.cursor - 1) = ButLast(b) /\ From(f, f.cursor) = e
            <4>1. b \in Seq(Chars) /\ e \in Seq(Chars) /\ f.text = b \o e
                BY <1>1, Zenon
            <4>2. Upto(f, Len(b) - 1) = ButLast(b) /\ From(f, Len(b)) = e
                BY <2>2, <4>1, Parts
            <4> QED
                BY <1>1, <4>2, Zenon
        <3>6. Len(ButLast(b)) = f.cursor - 1
            BY <1>1, <2>2, ShortOfLast
        <3> QED
            BY <3>4, <3>5, <3>6 DEF JoinedLine
    <2> QED
        BY <2>1, <2>2
<1>4. PasswordKey(f, "delete") = JoinedLine(b, IF e = <<>> THEN <<>> ELSE Tail(e))
    <2>1. CASE e = <<>>
        <3>1. PasswordKey(f, "delete") = f
            BY <1>1, <2>1, EmptySeq DEF PasswordKey
        <3> QED
            BY <1>1, <2>1, <3>1 DEF JoinedLine, Line
    <2>2. CASE e # <<>>
        <3>1. f.cursor < Len(f.text)
            BY <1>1, <2>2, EmptySeq
        <3>2. PasswordKey(f, "delete") = [f EXCEPT !.text = Upto(f, f.cursor) \o From(f, f.cursor + 1)]
            BY <3>1, Zenon DEF PasswordKey
        <3>3. Upto(f, f.cursor) = b /\ From(f, f.cursor + 1) = Tail(e)
            <4>1. b \in Seq(Chars) /\ e \in Seq(Chars) /\ f.text = b \o e
                BY <1>1, Zenon
            <4>2. Upto(f, Len(b)) = b /\ From(f, Len(b) + 1) = Tail(e)
                BY <2>2, <4>1, Parts
            <4> QED
                BY <1>1, <4>2, Zenon
        <3> QED
            BY <1>1, <2>2, <3>2, <3>3 DEF JoinedLine, Line
    <2> QED
        BY <2>1, <2>2
<1> QED
    BY <1>2, <1>3, <1>4

\* The same of any other line.
LEMMA FieldIs ==
    ASSUME NEW f \in Line, NEW b, NEW c, NEW e, Viewed(f, b, c, e)
    PROVE  /\ MoveCursorLeft(f) = At(f, Going(f, b, c, "left"))
           /\ MoveCursorRight(f) = At(f, Going(f, b, c, "right"))
           /\ SelectAll(f) = IF f.text = <<>> THEN At(f, Len(f.text)) ELSE Everything(f)
           /\ Backspace(f) = JoinedLine(IF c = <<>> THEN ButLast(b) ELSE b, e)
           /\ DeleteChar(f) = JoinedLine(b, IF c # <<>> THEN e ELSE IF e = <<>> THEN <<>> ELSE Tail(e))
<1>1. /\ b \in Seq(Chars) /\ c \in Seq(Chars) /\ e \in Seq(Chars)
      /\ Len(b) \in Nat /\ Len(c) \in Nat /\ Len(e) \in Nat
      /\ Len(f.text) = Len(b) + Len(c) + Len(e)
    BY LenProperties DEF Viewed
<1>2. SelectAll(f) = IF f.text = <<>> THEN At(f, Len(f.text)) ELSE Everything(f)
    <2>1. f.text = <<>> => Len(f.text) = 0
        BY EmptySeq
    <2>2. [f EXCEPT !.cursor = Len(f.text), !.sel = {<<0, Len(f.text)>>}] = Everything(f)
        BY Fields, Zenon DEF Everything
    <2> QED
        BY <2>1, <2>2, Zenon DEF SelectAll
<1>3. CASE c # <<>>
    <2> DEFINE p == CHOOSE q \in Normalized(f) : TRUE
    <2>1. Normalized(f) = {<<Len(b), Len(b) + Len(c)>>}
        BY <1>3 DEF Viewed
    <2>2. Normalized(f) # {} /\ p[1] = Len(b) /\ p[2] = Len(b) + Len(c)
        <3>1. Normalized(f) # {} /\ p = <<Len(b), Len(b) + Len(c)>>
            BY <2>1
        <3> HIDE DEF p
        <3> QED
            BY <3>1
    <2>3. MoveCursorLeft(f) = At(f, p[1]) /\ MoveCursorRight(f) = At(f, p[2])
        BY <2>2, Zenon DEF MoveCursorLeft, MoveCursorRight
    <2>4. Backspace(f) = DeleteSelection(f) /\ DeleteChar(f) = DeleteSelection(f)
        BY <2>2, Zenon DEF Backspace, DeleteChar
    <2>5. DeleteSelection(f) = JoinedLine(b, e)
        BY <1>3, DeleteIs
    <2>6. Going(f, b, c, "left") = Len(b) /\ Going(f, b, c, "right") = Len(b) + Len(c)
        BY <1>3 DEF Going
    <2> QED
        BY <1>2, <1>3, <2>2, <2>3, <2>4, <2>5, <2>6, Zenon
<1>4. CASE c = <<>>
    <2>1. /\ f.cursor = Len(b) /\ f.text = b \o e /\ Len(f.text) = Len(b) + Len(e)
        BY <1>1, <1>4, DeleteIs, EmptySeq
    <2>2. Normalized(f) = {}
        BY <1>4 DEF Viewed
    <2>3. Clamped(f) = Len(b)
        BY <1>1, <2>1 DEF Clamped, Lower
    <2>4. MoveCursorLeft(f) = At(f, Going(f, b, c, "left"))
        BY <1>1, <1>4, <2>2, <2>3 DEF MoveCursorLeft, Going
    <2>5. MoveCursorRight(f) = At(f, Going(f, b, c, "right"))
        BY <1>1, <1>4, <2>2, <2>3 DEF MoveCursorRight, Going
    <2>6. Backspace(f) = JoinedLine(ButLast(b), e)
        <3>1. CASE b = <<>>
            <4>1. Backspace(f) = At(f, 0) /\ ButLast(b) = <<>>
                BY <2>2, <2>3, <3>1, EmptySeq, SubSeqEmpty DEF Backspace, ButLast
            <4> QED
                BY <2>1, <3>1, <4>1, AtIs, EmptySeq DEF JoinedLine
        <3>2. CASE b # <<>>
            <4>1. Len(b) # 0
                BY <1>1, <3>2, EmptySeq
            <4>2. Backspace(f) = [text |-> Upto(f, Len(b) - 1) \o From(f, Len(b)),
                                  cursor |-> Len(b) - 1, sel |-> {}]
                BY <2>2, <2>3, <4>1, Zenon DEF Backspace
            <4>3. Len(ButLast(b)) = Len(b) - 1
                BY <1>1, <3>2, ShortOfLast
            <4>4. Upto(f, Len(b) - 1) = ButLast(b) /\ From(f, Len(b)) = e
                <5>1. b \in Seq(Chars) /\ e \in Seq(Chars) /\ f.text = b \o e
                    BY <1>1, <2>1, Zenon
                <5> QED
                    BY <3>2, <5>1, Parts
            <4> QED
                BY <4>2, <4>3, <4>4, Zenon DEF JoinedLine
        <3> QED
            BY <3>1, <3>2
    <2>7. DeleteChar(f) = JoinedLine(b, IF e = <<>> THEN <<>> ELSE Tail(e))
        <3>1. CASE e = <<>>
            <4>1. DeleteChar(f) = At(f, Len(b))
                <5>1. Len(b) = Len(f.text)
                    BY <1>1, <2>1, <3>1, EmptySeq
                <5> QED
                    BY <2>2, <2>3, <5>1, Zenon DEF DeleteChar
            <4> QED
                BY <2>1, <3>1, <4>1, AtIs DEF JoinedLine
        <3>2. CASE e # <<>>
            <4>1. Len(b) # Len(f.text)
                BY <1>1, <2>1, <3>2, EmptySeq
            <4>2. DeleteChar(f) = [text |-> Upto(f, Len(b)) \o From(f, Len(b) + 1),
                                   cursor |-> Len(b), sel |-> {}]
                BY <2>2, <2>3, <4>1, Zenon DEF DeleteChar
            <4> QED
                BY <1>1, <2>1, <3>2, <4>2, Parts DEF JoinedLine
        <3> QED
            BY <3>1, <3>2
    <2> QED
        BY <1>2, <1>4, <2>4, <2>5, <2>6, <2>7, Zenon
<1> QED
    BY <1>3, <1>4

-----------------------------------------------------------------------------
(* TextEdit: the reference *)

Standing(t, n) == Split(SubSeq(t, 1, n), <<>>, SubSeq(t, n + 1, Len(t)))

LEMMA StandingEnds ==
    ASSUME NEW t \in Seq(Chars)
    PROVE  Standing(t, 0) = Split(<<>>, <<>>, t) /\ Standing(t, Len(t)) = Split(t, <<>>, <<>>)
<1>1. Len(t) \in Nat /\ SubSeq(t, 1, Len(t)) = t
    BY LenProperties, SubSeqFull
<1>2. SubSeq(t, 1, 0) = <<>> /\ SubSeq(t, Len(t) + 1, Len(t)) = <<>>
    BY <1>1, SubSeqEmpty
<1>3. Standing(t, 0) = Split(<<>>, <<>>, t)
    <2>1. 0 + 1 = 1
        OBVIOUS
    <2>2. SubSeq(t, 0 + 1, Len(t)) = t
        BY <1>1, <2>1
    <2> QED
        BY <1>2, <2>2, Zenon DEF Standing
<1>4. Standing(t, Len(t)) = Split(t, <<>>, <<>>)
    BY <1>1, <1>2, Zenon DEF Standing
<1> QED
    BY <1>3, <1>4

LEMMA ExpectedIs ==
    ASSUME NEW f \in Line, NEW b, NEW c, NEW e, Viewed(f, b, c, e)
    PROVE  /\ \A key \in {"left", "right", "home", "end"} :
                 Expected(Split(b, c, e), key) = Standing(f.text, Going(f, b, c, key))
           /\ Expected(Split(b, c, e), "all") =
                 IF secret THEN Standing(f.text, Len(f.text)) ELSE Split(<<>>, f.text, <<>>)
           /\ Expected(Split(b, c, e), "back") = Split(IF c = <<>> THEN ButLast(b) ELSE b, <<>>, e)
           /\ Expected(Split(b, c, e), "delete") =
                 Split(b, <<>>, IF c # <<>> THEN e ELSE IF e = <<>> THEN <<>> ELSE Tail(e))
<1> DEFINE z == Split(b, c, e)
<1>1. /\ b \in Seq(Chars) /\ c \in Seq(Chars) /\ e \in Seq(Chars) /\ f.text \in Seq(Chars)
      /\ Len(b) \in Nat /\ Len(c) \in Nat /\ Len(e) \in Nat /\ Len(f.text) \in Nat
      /\ Len(f.text) = Len(b) + Len(c) + Len(e) /\ b \o c \o e = f.text
    BY LenProperties DEF Viewed, Line
<1>2. z.before = b /\ z.chosen = c /\ z.behind = e
    BY DEF Split
<1>3. Len(b \o c) = Len(b) + Len(c)
    BY <1>1, ConcatProperties
<1>4. c = <<>> <=> Len(c) = 0
    BY <1>1, EmptySeq
<1> HIDE DEF z
<1>5. Expected(z, "home") = Standing(f.text, Going(f, b, c, "home"))
    BY <1>1, <1>2, StandingEnds DEF Expected, Going
<1>6. Expected(z, "end") = Standing(f.text, Going(f, b, c, "end"))
    BY <1>1, <1>2, StandingEnds DEF Expected, Going
<1>7. Expected(z, "all") =
         IF secret THEN Standing(f.text, Len(f.text)) ELSE Split(<<>>, f.text, <<>>)
    <2>1. Expected(z, "all") =
             IF secret THEN Split(f.text, <<>>, <<>>) ELSE Split(<<>>, f.text, <<>>)
        BY <1>1, <1>2 DEF Expected
    <2>2. Standing(f.text, Len(f.text)) = Split(f.text, <<>>, <<>>)
        BY <1>1, StandingEnds
    <2> QED
        BY <2>1, <2>2, Zenon
<1>8. Expected(z, "back") = Split(IF c = <<>> THEN ButLast(b) ELSE b, <<>>, e)
    <2>1. CASE c = <<>>
        BY <1>2, <2>1 DEF Expected
    <2>2. CASE c # <<>>
        BY <1>2, <2>2, Zenon DEF Expected
    <2> QED
        BY <2>1, <2>2
<1>9. Expected(z, "delete") =
         Split(b, <<>>, IF c # <<>> THEN e ELSE IF e = <<>> THEN <<>> ELSE Tail(e))
    <2>1. CASE c = <<>>
        BY <1>2, <2>1 DEF Expected
    <2>2. CASE c # <<>>
        BY <1>2, <2>2, Zenon DEF Expected
    <2> QED
        BY <2>1, <2>2
<1>10. Expected(z, "right") = Standing(f.text, Going(f, b, c, "right"))
    <2> DEFINE n == Lower(Len(z.before \o z.chosen) + (IF z.chosen = <<>> THEN 1 ELSE 0), Len(f.text))
    <2>1. n = Going(f, b, c, "right")
        <3>1. n = Lower(Len(b) + Len(c) + (IF c = <<>> THEN 1 ELSE 0), Len(f.text))
            BY <1>2, <1>3, Zenon
        <3>2. CASE c = <<>>
            <4>1. Len(b) + Len(c) + (IF c = <<>> THEN 1 ELSE 0) = Len(b) + 1
                BY <1>1, <1>4, <3>2
            <4>2. Going(f, b, c, "right") = Lower(Len(b) + 1, Len(f.text))
                BY <3>2 DEF Going
            <4> QED
                BY <3>1, <4>1, <4>2, Zenon
        <3>3. CASE c # <<>>
            <4>1. Len(b) + Len(c) + (IF c = <<>> THEN 1 ELSE 0) = Len(b) + Len(c)
                BY <1>1, <3>3
            <4>2. Going(f, b, c, "right") = Len(b) + Len(c)
                BY <3>3 DEF Going
            <4>3. Lower(Len(b) + Len(c), Len(f.text)) = Len(b) + Len(c)
                <5>1. Len(b) + Len(c) <= Len(f.text) /\ Len(b) + Len(c) \in Nat
                    BY <1>1
                <5>2. \A i, j \in Nat : i <= j => Lower(i, j) = i
                    BY DEF Lower
                <5> QED
                    BY <1>1, <5>1, <5>2, Zenon
            <4> QED
                BY <3>1, <4>1, <4>2, <4>3, Zenon
        <3> QED
            BY <3>2, <3>3
    <2>2. Expected(z, "right") =
             Split(SubSeq(f.text, 1, n), <<>>, SubSeq(f.text, n + 1, Len(f.text)))
        BY <1>1, <1>2, Zenon DEF Expected
    <2> QED
        BY <2>1, <2>2, Zenon DEF Standing
<1>11. Expected(z, "left") = Standing(f.text, Going(f, b, c, "left"))
    <2> DEFINE n == Len(z.before) - (IF z.chosen = <<>> THEN 1 ELSE 0)
    <2>1. Expected(z, "left") =
             IF n < 0 THEN z
             ELSE Split(SubSeq(f.text, 1, n), <<>>, SubSeq(f.text, n + 1, Len(f.text)))
        BY <1>1, <1>2, Zenon DEF Expected
    <2>2. CASE n < 0
        <3>1. c = <<>> /\ Len(b) = 0 /\ Going(f, b, c, "left") = 0
            BY <1>1, <1>2, <2>2 DEF Going
        <3>2. b = <<>>
            BY <1>1, <3>1, EmptySeq
        <3>3. e = f.text
            BY <1>1, <3>1, <3>2, ConcatEmptySeq, EmptySeq
        <3>4. Standing(f.text, 0) = Split(<<>>, <<>>, f.text)
            BY <1>1, StandingEnds
        <3> QED
            BY <2>1, <2>2, <3>1, <3>2, <3>3, <3>4, Zenon DEF z
    <2>3. CASE ~(n < 0)
        <3>1. n = Going(f, b, c, "left")
            BY <1>1, <1>2, <2>3 DEF Going
        <3> QED
            BY <2>1, <2>3, <3>1, Zenon DEF Standing
    <2> QED
        BY <2>2, <2>3
<1> QED
    BY <1>5, <1>6, <1>7, <1>8, <1>9, <1>10, <1>11, Zenon DEF z

LEMMA EverythingIs ==
    ASSUME NEW f \in Line, f.text # <<>>
    PROVE  InText(Everything(f)) /\ Zipper(Everything(f)) = Split(<<>>, f.text, <<>>)
<1> DEFINE g == Everything(f)
           len == Len(f.text)
<1>1. f.text \in Seq(Chars) /\ len \in Nat \ {0} /\ SubSeq(f.text, 1, len) = f.text
    BY EmptySeq, SubSeqFull DEF Line
<1>2. g.text = f.text /\ g.cursor = len /\ g.sel = {<<0, len>>} /\ g \in Line
    BY <1>1 DEF Everything, Line
<1> HIDE DEF g
<1>3. InText(g)
    BY <1>1, <1>2 DEF InText
<1>4. Normalized(g) = {<<0, len>>}
    <2>1. 0 \in 0..Len(g.text) /\ len \in 0..Len(g.text) /\ Len(g.text) \in Nat /\ 0 < len
        BY <1>1, <1>2
    <2> QED
        BY <1>2, <2>1, NormalizedIs
<1> DEFINE p == CHOOSE q \in Normalized(g) : TRUE
<1>5. Normalized(g) # {} /\ p = <<0, len>>
    BY <1>4
<1> HIDE DEF p
<1>6. p[1] = 0 /\ p[2] = len
    BY <1>5
<1>7. SubSeq(f.text, 1, 0) = <<>> /\ SubSeq(f.text, len + 1, len) = <<>> /\ 0 + 1 = 1
    BY <1>1, SubSeqEmpty
<1>8. Zipper(g) = [before |-> SubSeq(g.text, 1, p[1]), chosen |-> SubSeq(g.text, p[1] + 1, p[2]),
                   behind |-> SubSeq(g.text, p[2] + 1, Len(g.text))]
    BY <1>5, Zenon DEF Zipper, Upto, From, p
<1>9. Zipper(g) = [before |-> <<>>, chosen |-> f.text, behind |-> <<>>]
    BY <1>1, <1>2, <1>6, <1>7, <1>8
<1> QED
    BY <1>3, <1>9 DEF Split, g

LEMMA GoingTypes ==
    ASSUME NEW f, NEW b, NEW c, NEW e, NEW key, Viewed(f, b, c, e)
    PROVE  Going(f, b, c, key) \in 0..Len(f.text)
<1>1. Len(b) \in Nat /\ Len(c) \in Nat /\ Len(e) \in Nat /\ Len(f.text) = Len(b) + Len(c) + Len(e)
    BY LenProperties DEF Viewed
<1> QED
    BY <1>1 DEF Going, Lower

-----------------------------------------------------------------------------
(* TextEdit: every line the forms can have is within its text, and a password has no selection. *)

LineOK(f) == InText(f) /\ (secret => f.sel = {})

LEMMA PressedAs ==
    ASSUME NEW f, LineOK(f), secret \in BOOLEAN, NEW key \in Keys
    PROVE  /\ LineOK(Pressed(f, key)) /\ Len(Pressed(f, key).text) <= Len(f.text)
           /\ Zipper(Pressed(f, key)) = Expected(Zipper(f), key)
<1>1. f \in Line /\ InText(f) /\ f.text \in Seq(Chars) /\ Len(f.text) \in Nat
    BY LenProperties DEF LineOK, InText, Line
<1>2. PICK b, c, e \in Seq(Chars) : Viewed(f, b, c, e) /\ Zipper(f) = Split(b, c, e)
    BY <1>1, ViewExists
<1>3. /\ Len(b) \in Nat /\ Len(c) \in Nat /\ Len(e) \in Nat
      /\ Len(f.text) = Len(b) + Len(c) + Len(e)
    BY <1>2, LenProperties DEF Viewed
<1>4. secret => c = <<>> /\ f.sel = {} /\ Viewed(f, b, <<>>, e)
    <2>1. f.sel = {} => Normalized(f) = {}
        BY NoSelection
    <2>2. Normalized(f) = {} => c = <<>>
        BY <1>2 DEF Viewed
    <2>3. c = <<>> => Viewed(f, b, <<>>, e)
        BY <1>2, Zenon
    <2> QED
        BY <2>1, <2>2, <2>3, Zenon DEF LineOK
<1>5b. f \in Line /\ Viewed(f, b, c, e)
    BY <1>1, <1>2
<1> DEFINE z == Zipper(f)
\* A key that moves the cursor
<1>5. ASSUME NEW n \in 0..Len(f.text), Pressed(f, key) = At(f, n),
             Expected(z, key) = Standing(f.text, n)
      PROVE  /\ LineOK(Pressed(f, key)) /\ Len(Pressed(f, key).text) <= Len(f.text)
             /\ Zipper(Pressed(f, key)) = Expected(z, key)
    <2>1. /\ InText(At(f, n)) /\ At(f, n).text = f.text /\ Zipper(At(f, n)) = Standing(f.text, n)
        BY <1>1, ZipperAt DEF Standing
    <2>2. At(f, n).sel = {}
        BY <1>1, AtIs
    <2>3. Len(f.text) <= Len(f.text)
        BY <1>1
    <2> QED
        BY <1>5, <2>1, <2>2, <2>3, Zenon DEF LineOK
\* A key that takes a piece out of the text
<1>6. ASSUME NEW bb \in Seq(Chars), NEW ee \in Seq(Chars), Pressed(f, key) = JoinedLine(bb, ee),
             Len(bb) + Len(ee) <= Len(f.text), Expected(z, key) = Split(bb, <<>>, ee)
      PROVE  /\ LineOK(Pressed(f, key)) /\ Len(Pressed(f, key).text) <= Len(f.text)
             /\ Zipper(Pressed(f, key)) = Expected(z, key)
    <2>1. JoinedLine(bb, ee).sel = {}
        BY DEF JoinedLine
    <2> QED
        BY <1>6, <2>1, ZipperJoined, Zenon DEF LineOK
<1>7. CASE key \in {"left", "right", "home", "end"}
    <2>1. Expected(z, key) = Standing(f.text, Going(f, b, c, key))
        <3>1. Expected(Split(b, c, e), key) = Standing(f.text, Going(f, b, c, key))
            BY <1>5b, <1>7, ExpectedIs, SMT
        <3> QED
            BY <1>2, <3>1, Zenon
    <2>2. Going(f, b, c, key) \in 0..Len(f.text)
        BY <1>2, GoingTypes
    <2>3. Pressed(f, key) = At(f, Going(f, b, c, key))
        <3>1. CASE secret
            <4>1. PasswordKey(f, key) = At(f, Going(f, b, <<>>, key))
                BY <1>1, <1>2, <1>4, <1>7, <3>1, PasswordIs, Zenon
            <4> QED
                BY <1>4, <3>1, <4>1, Secretly, Zenon
        <3>2. CASE ~secret
            <4>1. Going(f, b, c, "home") = 0 /\ Going(f, b, c, "end") = Len(f.text)
                BY DEF Going
            <4>2. MoveCursorLeft(f) = At(f, Going(f, b, c, "left"))
                  /\ MoveCursorRight(f) = At(f, Going(f, b, c, "right"))
                BY <1>5b, FieldIs, SMT
            <4> QED
                BY <1>7, <3>2, <4>1, <4>2, Openly, Zenon
        <3> QED
            BY <3>1, <3>2
    <2> QED
        BY <1>5, <2>1, <2>2, <2>3, Zenon
<1>8. CASE key = "all"
    <2>1. Expected(z, "all") =
             IF secret THEN Standing(f.text, Len(f.text)) ELSE Split(<<>>, f.text, <<>>)
        <3>1. Expected(Split(b, c, e), "all") =
                 IF secret THEN Standing(f.text, Len(f.text)) ELSE Split(<<>>, f.text, <<>>)
            BY <1>5b, ExpectedIs, SMT
        <3> QED
            BY <1>2, <3>1, Zenon
    <2>2. Len(f.text) \in 0..Len(f.text)
        BY <1>1
    <2>3. CASE secret
        <3>1. PasswordKey(f, "all") = At(f, Going(f, b, <<>>, "all"))
            BY <1>1, <1>2, <1>4, <2>3, PasswordIs, Zenon
        <3>2. Going(f, b, <<>>, "all") = Len(f.text)
            BY DEF Going
        <3> QED
            BY <1>5, <1>8, <2>1, <2>2, <2>3, <3>1, <3>2, Secretly, Zenon
    <2>4. CASE ~secret /\ f.text = <<>>
        <3>1. Pressed(f, "all") = At(f, Len(f.text))
            BY <1>1, <1>2, <2>4, Openly, FieldIs, Zenon
        <3>2. Standing(f.text, Len(f.text)) = Split(<<>>, f.text, <<>>)
            BY <1>1, <2>4, StandingEnds, Zenon
        <3> QED
            BY <1>5, <1>8, <2>1, <2>2, <2>4, <3>1, <3>2, Zenon
    <2>5. CASE ~secret /\ f.text # <<>>
        <3>1. Pressed(f, "all") = Everything(f)
            BY <1>1, <1>2, <2>5, Openly, FieldIs, Zenon
        <3>2. InText(Everything(f)) /\ Zipper(Everything(f)) = Split(<<>>, f.text, <<>>)
            BY <1>1, <2>5, EverythingIs
        <3>3. Everything(f).text = f.text /\ Len(f.text) <= Len(f.text)
            BY <1>1 DEF Everything
        <3> QED
            BY <1>8, <2>1, <2>5, <3>1, <3>2, <3>3, Zenon DEF LineOK
    <2> QED
        BY <2>3, <2>4, <2>5
<1>9. CASE key = "back"
    <2> DEFINE bb == IF c = <<>> THEN ButLast(b) ELSE b
    <2>1. bb \in Seq(Chars) /\ Len(bb) + Len(e) <= Len(f.text)
        BY <1>2, <1>3, ShortOfLast
    <2>2. Expected(z, key) = Split(bb, <<>>, e)
        <3>1. Expected(Split(b, c, e), "back") = Split(bb, <<>>, e)
            BY <1>5b, ExpectedIs, SMT
        <3> QED
            BY <1>2, <1>9, <3>1, Zenon
    <2>3. Pressed(f, key) = JoinedLine(bb, e)
        <3>1. CASE secret
            <4>1. PasswordKey(f, "back") = JoinedLine(ButLast(b), e)
                BY <1>4, <1>5b, <3>1, PasswordIs, SMT
            <4> QED
                BY <1>4, <1>9, <3>1, <4>1, Secretly, Zenon
        <3>2. CASE ~secret
            <4>1. Backspace(f) = JoinedLine(bb, e)
                BY <1>5b, FieldIs, SMT
            <4> QED
                BY <1>9, <3>2, <4>1, Openly, Zenon
        <3> QED
            BY <3>1, <3>2
    <2> QED
        BY <1>2, <1>6, <2>1, <2>2, <2>3, Zenon
<1>10. CASE key = "delete"
    <2> DEFINE ee == IF c # <<>> THEN e ELSE IF e = <<>> THEN <<>> ELSE Tail(e)
    <2>1. ee \in Seq(Chars) /\ Len(b) + Len(ee) <= Len(f.text)
        <3>1. e = <<>> => Len(e) = 0
            BY EmptySeq
        <3>2. e # <<>> => Tail(e) \in Seq(Chars) /\ Len(Tail(e)) = Len(e) - 1
            BY <1>2, HeadTailProperties
        <3> QED
            BY <1>2, <1>3, <3>1, <3>2, EmptySeq
    <2>2. Expected(z, key) = Split(b, <<>>, ee)
        <3>1. Expected(Split(b, c, e), "delete") = Split(b, <<>>, ee)
            BY <1>5b, ExpectedIs, SMT
        <3> QED
            BY <1>2, <1>10, <3>1, Zenon
    <2>3. Pressed(f, key) = JoinedLine(b, ee)
        <3>1. CASE secret
            <4>1. PasswordKey(f, "delete") = JoinedLine(b, IF e = <<>> THEN <<>> ELSE Tail(e))
                BY <1>4, <1>5b, <3>1, PasswordIs, SMT
            <4> QED
                BY <1>4, <1>10, <3>1, <4>1, Secretly, Zenon
        <3>2. CASE ~secret
            <4>1. DeleteChar(f) = JoinedLine(b, ee)
                BY <1>5b, FieldIs, SMT
            <4> QED
                BY <1>10, <3>2, <4>1, Openly, Zenon
        <3> QED
            BY <3>1, <3>2
    <2> QED
        BY <1>2, <1>6, <2>1, <2>2, <2>3, Zenon
<1> QED
    BY <1>7, <1>8, <1>9, <1>10 DEF Keys

LEMMA TypedAs ==
    ASSUME NEW f, LineOK(f), NEW ch \in Chars
    PROVE  /\ LineOK(InsertChar(f, ch))
           /\ Len(InsertChar(f, ch).text) = Len(DeleteSelection(f).text) + 1
           /\ Zipper(InsertChar(f, ch)) =
                 Split(Zipper(f).before \o <<ch>>, <<>>, Zipper(f).behind)
<1>1. f \in Line /\ InText(f)
    BY DEF LineOK, InText
<1>2. PICK b, c, e \in Seq(Chars) : Viewed(f, b, c, e) /\ Zipper(f) = Split(b, c, e)
    BY <1>1, ViewExists
<1>3. InsertChar(f, ch) = JoinedLine(b \o <<ch>>, e)
    BY <1>1, <1>2, TypedIs
<1>4. b \o <<ch>> \in Seq(Chars) /\ Len(b \o <<ch>>) = Len(b) + 1 /\ Len(b) \in Nat /\ Len(e) \in Nat
    <2>1. <<ch>> \in Seq(Chars) /\ Len(<<ch>>) = 1
        OBVIOUS
    <2> QED
        BY <1>2, <2>1, ConcatProperties, LenProperties
<1>5. /\ InText(JoinedLine(b \o <<ch>>, e)) /\ Zipper(JoinedLine(b \o <<ch>>, e)) = Split(b \o <<ch>>, <<>>, e)
      /\ Len(JoinedLine(b \o <<ch>>, e).text) = Len(b \o <<ch>>) + Len(e)
    BY <1>2, <1>4, ZipperJoined
<1>6. JoinedLine(b \o <<ch>>, e).sel = {}
    BY DEF JoinedLine
<1>7. Zipper(f).before = b /\ Zipper(f).behind = e
    BY <1>2 DEF Split
<1>8. DeleteSelection(f) = JoinedLine(b, e)
    BY <1>1, <1>2, DeleteIs
<1>9. Len(DeleteSelection(f).text) = Len(b) + Len(e)
    BY <1>2, <1>8, ZipperJoined
<1>10. Len(InsertChar(f, ch).text) = Len(DeleteSelection(f).text) + 1
    BY <1>3, <1>4, <1>5, <1>9
<1> QED
    BY <1>3, <1>5, <1>6, <1>7, <1>10, Zenon DEF LineOK

\* The cursor, the selection and the anchor of the mouse lie in the text, and a password has no
\* selection.
TextInv ==
    /\ TextTypeOK /\ LineOK(line)
    /\ anchor \subseteq 0..Len(line.text)
    /\ secret => anchor = {}

LEMMA TextInvInit == TextInit => TextInv
<1> SUFFICES ASSUME TextInit PROVE TextInv
    OBVIOUS
<1>1. /\ line = [text |-> <<>>, cursor |-> 0, sel |-> {}] /\ anchor = {}
      /\ <<>> \in Seq(Chars) /\ Len(<<>>) = 0
    BY EmptySeq DEF TextInit
<1>2. secret \in BOOLEAN
    BY Zenon DEF TextInit
<1>3. line \in Line /\ Len(line.text) = 0 /\ line.cursor = 0 /\ line.sel = {}
    BY <1>1 DEF Line
<1>4. InText(line)
    BY <1>3 DEF InText
<1> QED
    BY <1>1, <1>2, <1>3, <1>4, MaxTextAssumption DEF TextInv, TextTypeOK, LineOK

\* A line of the same length or shorter, without a selection of the mouse.
LEMMA LineChanged ==
    ASSUME TextInv, LineOK(line'), Len(line'.text) <= MaxText, anchor' \subseteq 0..Len(line'.text),
           secret => anchor' = {}, UNCHANGED secret
    PROVE  TextInv'
<1>1. line' \in Line /\ Len(line'.text) \in Nat
    BY LenProperties DEF LineOK, InText, Line
<1>2. anchor' \subseteq 0..MaxText
    BY <1>1, MaxTextAssumption
<1>3. (secret' <=> secret) /\ secret' \in BOOLEAN
    BY Zenon DEF TextInv, TextTypeOK
<1>4. TextTypeOK'
    BY <1>1, <1>2, <1>3, Zenon DEF TextTypeOK
<1>5. LineOK(line)'
    <2>1. InText(line')
        BY DEF LineOK
    <2>2. secret => line'.sel = {}
        BY Zenon DEF LineOK
    <2> QED
        BY <1>3, <2>1, <2>2, Zenon DEF LineOK, InText
<1>6. (secret => anchor = {})'
    BY <1>3, Zenon
<1>7. (anchor \subseteq 0..Len(line.text))'
    OBVIOUS
<1> QED
    BY <1>4, <1>5, <1>6, <1>7, Zenon DEF TextInv

LEMMA MouseKept ==
    ASSUME TextInv, NEW column \in 0..(MaxText + 1), MouseDown(column) \/ MouseDrag(column)
    PROVE  TextInv'
<1>1. /\ line \in Line /\ Len(line.text) \in Nat /\ Len(line.text) <= MaxText
      /\ column \in Nat /\ anchor \subseteq 0..Len(line.text)
    BY LenProperties, MaxTextAssumption DEF TextInv, TextTypeOK, Line
<1>2. Lower(column, Len(line.text)) \in 0..Len(line.text) /\ Len(line.text) \in 0..Len(line.text)
    BY <1>1 DEF Lower
<1>3. secret \in BOOLEAN
    BY DEF TextInv, TextTypeOK
<1>4. CASE MouseDown(column)
    <2> DEFINE n == IF secret THEN Len(line.text) ELSE Lower(column, Len(line.text))
    <2>1. n \in 0..Len(line.text)
        BY <1>2
    <2>2. line' = At(line, n) /\ UNCHANGED secret
        BY <1>4, Zenon DEF MouseDown
    <2> HIDE DEF n
    <2>3. InText(line') /\ line'.text = line.text
        BY <1>1, <2>1, <2>2, ZipperAt
    <2>4. line'.sel = {}
        BY <1>1, <2>2, AtIs
    <2>5. anchor' = IF secret THEN {} ELSE {Lower(column, Len(line.text))}
        BY <1>4 DEF MouseDown
    <2>6. anchor' \subseteq 0..Len(line'.text)
        BY <1>2, <2>3, <2>5
    <2>7. LineOK(line') /\ (secret => anchor' = {})
        BY <2>3, <2>4, <2>5, Zenon DEF LineOK
    <2> QED
        BY <1>1, <2>2, <2>3, <2>6, <2>7, LineChanged
<1>5. CASE MouseDrag(column)
    <2> DEFINE c == Lower(column, Len(line.text))
    <2>1. PICK a \in anchor :
             line' = [line EXCEPT !.cursor = c, !.sel = IF c = a THEN {} ELSE {<<a, c>>}]
        BY <1>5 DEF MouseDrag
    <2>2. UNCHANGED <<anchor, secret>>
        BY <1>5, Zenon DEF MouseDrag
    <2>3. ~secret
        BY <2>1, Zenon DEF TextInv
    <2>4. line' = [text |-> line.text, cursor |-> c, sel |-> IF c = a THEN {} ELSE {<<a, c>>}]
        BY <1>1, <2>1, Fields, Zenon
    <2>5. c \in 0..Len(line.text) /\ a \in 0..Len(line.text) /\ c \in Nat /\ a \in Nat
          /\ line.text \in Seq(Chars)
        BY <1>1, <1>2 DEF Line
    <2> HIDE DEF c
    <2>6. line' \in Line /\ line'.text = line.text /\ line'.cursor = c
          /\ line'.sel = IF c = a THEN {} ELSE {<<a, c>>}
        BY <2>4, <2>5 DEF Line
    <2>7. InText(line')
        BY <1>1, <2>5, <2>6 DEF InText
    <2>8. LineOK(line')
        BY <2>3, <2>7, Zenon DEF LineOK
    <2> QED
        BY <1>1, <2>2, <2>3, <2>6, <2>8, LineChanged
<1> QED
    BY <1>4, <1>5

LEMMA TextInvNext == TextInv /\ [TextNext]_textVars => TextInv'
<1> SUFFICES ASSUME TextInv, [TextNext]_textVars PROVE TextInv'
    OBVIOUS
<1>1. LineOK(line) /\ secret \in BOOLEAN /\ Len(line.text) <= MaxText /\ Len(line.text) \in Nat
    BY LenProperties DEF TextInv, TextTypeOK, Line
<1>2. ASSUME NEW key \in Keys, Press(key) PROVE TextInv'
    <2>1. line' = Pressed(line, key) /\ anchor' = {} /\ UNCHANGED secret
        BY <1>2, Zenon DEF Press
    <2>2. LineOK(line') /\ Len(line'.text) <= Len(line.text)
        BY <1>1, <2>1, PressedAs, Zenon
    <2>3. Len(line'.text) \in Nat
        BY <2>2, LenProperties DEF LineOK, InText, Line
    <2>4. Len(line'.text) <= MaxText
        BY <1>1, <2>2, <2>3, MaxTextAssumption
    <2> QED
        BY <2>1, <2>2, <2>4, LineChanged
<1>3. ASSUME NEW ch \in Chars, TypeChar(ch) PROVE TextInv'
    <2>1. /\ line' = InsertChar(line, ch) /\ anchor' = {} /\ UNCHANGED secret
          /\ Len(DeleteSelection(line).text) < MaxText
        BY <1>3, Zenon DEF TypeChar
    <2>2. LineOK(line') /\ Len(line'.text) = Len(DeleteSelection(line).text) + 1
        BY <1>1, <2>1, TypedAs, Zenon
    <2>3. Len(line'.text) \in Nat
        BY <2>2, LenProperties DEF LineOK, InText, Line
    <2>4. Len(DeleteSelection(line).text) \in Nat
        <3>1. PICK b, c, e \in Seq(Chars) : Viewed(line, b, c, e)
            BY <1>1, ViewExists DEF LineOK
        <3>2. DeleteSelection(line) = JoinedLine(b, e)
            BY <1>1, <3>1, DeleteIs DEF LineOK, InText
        <3> QED
            BY <3>1, <3>2, ZipperJoined, LenProperties
    <2>5. Len(line'.text) <= MaxText
        BY <2>1, <2>2, <2>4, MaxTextAssumption
    <2> QED
        BY <2>1, <2>2, <2>5, LineChanged
<1>4. ASSUME NEW column \in 0..(MaxText + 1), MouseDown(column) \/ MouseDrag(column) PROVE TextInv'
    BY <1>4, MouseKept
<1>5. CASE MouseUp
    <2>1. anchor' = {} /\ line' = line /\ secret' = secret
        BY <1>5 DEF MouseUp
    <2> QED
        BY <1>1, <2>1, LineChanged
<1>6. CASE UNCHANGED textVars
    <2>1. anchor' = anchor /\ line' = line /\ secret' = secret
        BY <1>6 DEF textVars
    <2> QED
        BY <1>1, <2>1, LineChanged DEF TextInv
<1> QED
    BY <1>2, <1>3, <1>4, <1>5, <1>6 DEF TextNext

LEMMA TextInvariant == TextSpec => []TextInv
    BY TextInvInit, TextInvNext, PTL DEF TextSpec

\* Types of a line that is edited, and of the anchor of the mouse.
THEOREM TextTypeCorrect == TextSpec => []TextTypeOK
<1>1. TextInv => TextTypeOK
    BY DEF TextInv
<1> QED
    BY <1>1, TextInvariant, PTL

\* Every key makes of every line that the forms can have, of any length and in any letters, what
\* the reference makes of the text before, in and behind the selection (tui/state/input.rs and
\* its callers): no key loses a letter, none reaches past an end.
THEOREM TextIsEditedLikeReference == TextSpec => []EditsLikeReference
<1>1. TextInv => EditsLikeReference
    <2> SUFFICES ASSUME TextInv PROVE EditsLikeReference
        OBVIOUS
    <2>1. LineOK(line) /\ secret \in BOOLEAN
        BY DEF TextInv, TextTypeOK
    <2>2. \A key \in Keys : Zipper(Pressed(line, key)) = Expected(Zipper(line), key)
        BY <2>1, PressedAs, Zenon
    <2>3. \A ch \in Chars :
             Zipper(InsertChar(line, ch)) =
                 Split(Zipper(line).before \o <<ch>>, <<>>, Zipper(line).behind)
        BY <2>1, TypedAs, Zenon
    <2> QED
        BY <2>2, <2>3 DEF EditsLikeReference
<1> QED
    BY <1>1, TextInvariant, PTL

-----------------------------------------------------------------------------
(* TabSessions: what is open, and what it is about *)

\* A session is over when its streams have ended or its input failed, not before, and it used
\* the vault with leave only.
SoundSession ==
    {s \in Session : /\ s.exited => s.failed \/ s.streams = 0
                     /\ ~s.exited => s.streams # 0
                     /\ s.vault => s.granted}
SoundTab == [terminal : BOOLEAN, host : HostType, session : SUBSET SoundSession]

TabsSound ==
    /\ tabs \in Seq(SoundTab) /\ Len(tabs) <= MaxTabs
    /\ selected \in Nat \ {0} /\ (tabs # <<>> => selected <= Len(tabs))
    /\ onManager \in BOOLEAN
    /\ lost \subseteq {TRUE}

Prompt == [action : Action, attempts : 0..(MaxAttempts - 1), back : BOOLEAN]
Credentials == [action : Action, res : Resolution]

ModalTypes ==
    /\ unlock \subseteq Prompt /\ rdp \subseteq Credentials
    /\ status \in BOOLEAN /\ quick \in BOOLEAN /\ dialogs \subseteq {"menu", "dialog"}
    /\ ended \in BOOLEAN

\* What a launch that waits for a prompt is about is still there, and in front.
ActionSound(a) ==
    a.do = "reconnect" =>
        /\ IsTerminal(a.index) /\ a.asker = {tabs[a.index]} /\ CanReconnect(a.index)
        /\ InTab
HostOf(a) == IF a.do = "open" THEN a.host ELSE tabs[a.index].host
Consents(res, host) == (res.entry \/ (host.entry /\ ~res.disabled)) => res.granted

PromptsSound == \A p \in unlock \cup rdp : ActionSound(p.action)
CredentialsSound ==
    \A p \in rdp : p.action.do # "unlock" /\ Consents(p.res, HostOf(p.action))

SessionsInv == TabsSound /\ ModalTypes /\ OneModal /\ PromptsSound /\ CredentialsSound

Modals == {"menu", "dialog", "unlock", "rdp", "status", "quick"}
Quiet == unlock = {} /\ rdp = {} /\ ~status /\ ~quick /\ dialogs = {}

-----------------------------------------------------------------------------
(* TabSessions: who gets the input *)

LEMMA FirstOfOne ==
    ASSUME NEW order, NEW n \in Nat, DOMAIN order = 1..n, NEW open, NEW otherwise, \A l, m \in open : l = m,
           \A j, k \in DOMAIN order : order[j] = order[k] => j = k
    PROVE  \/ FirstOf(order, open, otherwise) \in open
           \/ /\ FirstOf(order, open, otherwise) = otherwise
              /\ \A k \in DOMAIN order : order[k] \notin open
<1>1. CASE \E k \in DOMAIN order : order[k] \in open
    <2>1. PICK k \in DOMAIN order : order[k] \in open
        BY <1>1
    <2>2. \A j \in 1..(k - 1) : order[j] \notin open
        <3>2. ASSUME NEW j \in 1..(k - 1) PROVE order[j] \notin open
            <4>1. j \in DOMAIN order /\ j # k
                OBVIOUS
            <4> QED
                BY <2>1, <4>1
        <3> QED
            BY <3>2
    <2> QED
        BY <1>1, <2>1, <2>2 DEF FirstOf
<1>2. CASE ~ \E k \in DOMAIN order : order[k] \in open
    BY <1>2 DEF FirstOf
<1> QED
    BY <1>1, <1>2

LEMMA Routed ==
    ASSUME OneModal, dialogs \subseteq {"menu", "dialog"}
    PROVE  /\ KeyTo \in OpenModals
              \/ (OpenModals = {} /\ KeyTo = IF InTab THEN "tab" ELSE "manager")
           /\ MouseTo \in OpenModals \/ (OpenModals = {} /\ MouseTo = "view")
<1>1. OpenModals \subseteq Modals /\ \A m, n \in OpenModals : m = n
    BY DEF OpenModals, OneModal, Modals
<1>2. KeyTo \in OpenModals \/ (OpenModals = {} /\ KeyTo = IF InTab THEN "tab" ELSE "manager")
    <2> DEFINE order == <<"menu", "dialog", "unlock", "rdp", "status", "quick">>
    <2>1. DOMAIN order = 1..6
        OBVIOUS
    <2>2. \A j, k \in DOMAIN order : order[j] = order[k] => j = k
        OBVIOUS
    <2>3. \A m \in Modals : \E k \in DOMAIN order : order[k] = m
        BY DEF Modals
    <2> HIDE DEF order
    <2> DEFINE other == IF InTab THEN "tab" ELSE "manager"
    <2>4. KeyTo = FirstOf(order, OpenModals, other)
        BY DEF KeyTo, order
    <2> HIDE DEF other
    <2>5. \/ FirstOf(order, OpenModals, other) \in OpenModals
          \/ /\ FirstOf(order, OpenModals, other) = other
             /\ \A k \in DOMAIN order : order[k] \notin OpenModals
        BY <1>1, <2>1, <2>2, FirstOfOne
    <2> QED
        BY <1>1, <2>3, <2>4, <2>5 DEF other
<1>3. MouseTo \in OpenModals \/ (OpenModals = {} /\ MouseTo = "view")
    <2> DEFINE order == <<"rdp", "unlock", "status", "quick", "menu", "dialog">>
    <2>1. DOMAIN order = 1..6
        OBVIOUS
    <2>2. \A j, k \in DOMAIN order : order[j] = order[k] => j = k
        OBVIOUS
    <2>3. \A m \in Modals : \E k \in DOMAIN order : order[k] = m
        BY DEF Modals
    <2>4. MouseTo = FirstOf(order, OpenModals, "view")
        BY DEF MouseTo
    <2> HIDE DEF order
    <2>5. \/ FirstOf(order, OpenModals, "view") \in OpenModals
          \/ /\ FirstOf(order, OpenModals, "view") = "view"
             /\ \A k \in DOMAIN order : order[k] \notin OpenModals
        BY <1>1, <2>1, <2>2, FirstOfOne
    <2> QED
        BY <1>1, <2>3, <2>4, <2>5
<1> QED
    BY <1>2, <1>3

\* A modal that gets input is the only one.
LEMMA InputAlone ==
    ASSUME SessionsInv, NEW m \in Modals, Input(m)
    PROVE  OpenModals = {m}
<1>1. m \in OpenModals
    BY Routed DEF Input, SessionsInv, ModalTypes, Modals
<1> QED
    BY <1>1 DEF SessionsInv, OneModal

\* Without modal input everything is closed.
LEMMA InputQuiet ==
    ASSUME SessionsInv, Keyboard("manager") \/ Keyboard("tab") \/ Mouse
    PROVE  /\ Quiet
           /\ Keyboard("tab") => InTab
<1>1. "manager" \notin OpenModals /\ "tab" \notin OpenModals /\ "view" \notin OpenModals
    BY DEF OpenModals, SessionsInv, ModalTypes
<1>2. OpenModals = {} /\ (Keyboard("tab") => InTab)
    BY <1>1, Routed DEF Keyboard, Mouse, SessionsInv, ModalTypes
<1>3. Quiet
    BY <1>2 DEF OpenModals, Quiet
<1> QED
    BY <1>2, <1>3

LEMMA OnlyOneGetsIt ==
    ASSUME SessionsInv
    PROVE  /\ Input("unlock") => rdp = {} /\ ~status /\ ~quick /\ dialogs = {}
           /\ Input("rdp") => unlock = {} /\ ~status /\ ~quick /\ dialogs = {}
           /\ Input("status") => unlock = {} /\ rdp = {} /\ ~quick /\ dialogs = {}
           /\ Input("quick") => unlock = {} /\ rdp = {} /\ ~status /\ dialogs = {}
           /\ \A d \in {"menu", "dialog"} : Input(d) =>
                 unlock = {} /\ rdp = {} /\ ~status /\ ~quick /\ dialogs = {d}
<1>1. dialogs \subseteq {"menu", "dialog"}
    BY DEF SessionsInv, ModalTypes
<1>2. \A m \in Modals : Input(m) => OpenModals = {m}
    BY InputAlone
<1>3. ASSUME NEW m \in Modals, OpenModals = {m}
      PROVE  /\ m # "unlock" => unlock = {}
             /\ m # "rdp" => rdp = {}
             /\ m # "status" => ~status
             /\ m # "quick" => ~quick
             /\ m \notin {"menu", "dialog"} => dialogs = {}
             /\ m \in {"menu", "dialog"} => dialogs = {m}
    BY <1>1, <1>3 DEF OpenModals, Modals
<1> QED
    BY <1>2, <1>3 DEF Modals

-----------------------------------------------------------------------------
(* TabSessions: the initial state, and steps after which no prompt is open *)

LEMMA TabTypes ==
    /\ SoundSession \subseteq Session
    /\ \A t \in SoundTab : t \in Tab
    /\ AnyHost \in HostType /\ Editor \in SoundTab
    /\ \A t \in SoundTab : [t EXCEPT !.session = {}] \in SoundTab
<1>1. SoundSession \subseteq Session
    BY DEF SoundSession
<1>2. \A t \in SoundTab : t \in Tab
    BY <1>1 DEF SoundTab, Tab
<1>3. AnyHost \in HostType
    BY DEF AnyHost, HostType
<1>4. Editor \in SoundTab
    BY <1>3 DEF Editor, SoundTab
<1>5. \A t \in SoundTab : [t EXCEPT !.session = {}] \in SoundTab
    BY DEF SoundTab
<1> QED
    BY <1>1, <1>2, <1>3, <1>4, <1>5

LEMMA TabOf ==
    ASSUME TabsSound
    PROVE  /\ Len(tabs) \in Nat /\ DOMAIN tabs = 1..Len(tabs)
           /\ \A i \in DOMAIN tabs : tabs[i] \in SoundTab
           /\ tabs = <<>> <=> Len(tabs) = 0
<1>1. tabs \in Seq(SoundTab)
    BY DEF TabsSound
<1>2. Len(tabs) \in Nat /\ DOMAIN tabs = 1..Len(tabs)
    BY <1>1, LenProperties
<1>3. \A i \in DOMAIN tabs : tabs[i] \in SoundTab
    BY <1>1, <1>2, ElementOfSeq
<1>4. tabs = <<>> <=> Len(tabs) = 0
    BY <1>1, EmptySeq
<1> QED
    BY <1>2, <1>3, <1>4

LEMMA SessionsInvInit == SessionsInit => SessionsInv
<1> SUFFICES ASSUME SessionsInit PROVE SessionsInv
    OBVIOUS
<1>1. TabsSound
    <2>1. tabs \in Seq(SoundTab) /\ Len(tabs) = 0
        BY EmptySeq DEF SessionsInit
    <2> QED
        BY <2>1, TabBoundsAssumption DEF SessionsInit, TabsSound
<1>2. ModalTypes /\ OneModal /\ PromptsSound /\ CredentialsSound
    BY DEF SessionsInit, ModalTypes, OneModal, OpenModals, PromptsSound, CredentialsSound
<1> QED
    BY <1>1, <1>2 DEF SessionsInv

LEMMA NoPrompts ==
    ASSUME TabsSound', unlock' = {}, rdp' = {}, status' \in BOOLEAN, quick' \in BOOLEAN,
           dialogs' \subseteq {"menu", "dialog"}, ended' \in BOOLEAN, OneModal'
    PROVE  SessionsInv'
    BY DEF SessionsInv, ModalTypes, PromptsSound, CredentialsSound

\* Nothing but perhaps one modal without a launch behind it.
LEMMA OneOpen ==
    ASSUME NEW m, OpenModals' \subseteq {m}
    PROVE  OneModal'
    BY DEF OneModal

\* The tabs stay, and so does what a prompt says of them.
LEMMA TabsKept ==
    ASSUME SessionsInv, UNCHANGED tabVars
    PROVE  /\ TabsSound'
           /\ \A a : ActionSound(a) => ActionSound(a)'
           /\ \A a : HostOf(a)' = HostOf(a)
<1> USE DEF tabVars
<1>1. TabsSound'
    BY DEF SessionsInv, TabsSound
<1>2. \A a : ActionSound(a) => ActionSound(a)'
    BY DEF ActionSound, IsTerminal, CanReconnect, InTab
<1>3. \A a : HostOf(a)' = HostOf(a)
    BY DEF HostOf
<1> QED
    BY <1>1, <1>2, <1>3

-----------------------------------------------------------------------------
(* TabSessions: what the tabs show after a launch *)

LEMMA SessionsSpawned ==
    ASSUME NEW host \in HostType, NEW res \in Resolution, NEW manual \in BOOLEAN,
           Consents(res, host), NEW session \in Spawned(host, res, manual)
    PROVE  session \in SUBSET SoundSession
<1> DEFINE keyed == ~manual /\ (res.entry \/ (host.entry /\ ~res.disabled))
<1>1. /\ keyed \in BOOLEAN /\ (keyed /\ res.granted) \in BOOLEAN
      /\ keyed => keyed /\ res.granted
    BY DEF Consents, Resolution
<1>2. CASE session = {}
    BY <1>2
<1>3. ASSUME NEW n \in {1, 2}, session = {[exited |-> FALSE, streams |-> n, failed |-> FALSE,
                                         vault |-> keyed, granted |-> keyed /\ res.granted]}
      PROVE  session \in SUBSET SoundSession
    <2> HIDE DEF keyed
    <2> DEFINE granted == keyed /\ res.granted
    <2>1. granted \in BOOLEAN /\ (keyed => granted)
        BY <1>1
    <2> HIDE DEF granted
    <2>2. [exited |-> FALSE, streams |-> n, failed |-> FALSE, vault |-> keyed,
           granted |-> granted] \in SoundSession
        BY <1>1, <2>1 DEF SoundSession, Session
    <2> QED
        BY <1>3, <2>2 DEF granted
<1>4. session = {} \/ \E n \in {1, 2} :
          session = {[exited |-> FALSE, streams |-> n, failed |-> FALSE, vault |-> keyed,
                      granted |-> keyed /\ res.granted]}
    BY DEF Spawned
<1> QED
    BY <1>2, <1>3, <1>4

\* A session that is replaced is over.
LEMMA LostIsOver ==
    ASSUME TabsSound, NEW i \in DOMAIN tabs, CanReconnect(i)
    PROVE  lost \cup {s.failed \/ s.streams = 0 : s \in tabs[i].session} \subseteq {TRUE}
<1>1. ASSUME NEW s \in tabs[i].session PROVE (s.failed \/ s.streams = 0) = TRUE
    BY <1>1, TabOf DEF CanReconnect, SoundTab, SoundSession
<1> QED
    BY <1>1 DEF TabsSound

LEMMA Shown ==
    ASSUME TabsSound, NEW a, ActionSound(a), a.do \in {"open", "reconnect"},
           NEW host \in HostType, NEW session \in SUBSET SoundSession, Show(a, host, session)
    PROVE  TabsSound' /\ quick' \in {quick, FALSE}
<1>1. CASE a.do = "open"
    <2> DEFINE t == [terminal |-> TRUE, host |-> host, session |-> session]
    <2>1. t \in SoundTab
        BY DEF SoundTab
    <2>2. PushHostTab(host, session)
        BY <1>1 DEF Show
    <2> HIDE DEF t
    <2>3. /\ tabs' = Append(tabs, t) /\ Len(tabs) < MaxTabs /\ selected' = Len(tabs) + 1
          /\ onManager' = FALSE /\ quick' = FALSE /\ lost' = lost
        BY <2>2 DEF PushHostTab, t
    <2>4. tabs' \in Seq(SoundTab) /\ Len(tabs') = Len(tabs) + 1
        BY <2>1, <2>3, AppendProperties DEF TabsSound
    <2>5. /\ Len(tabs') <= MaxTabs /\ selected' \in Nat \ {0} /\ selected' <= Len(tabs')
        <3>1. Len(tabs) \in Nat /\ MaxTabs \in Nat
            BY TabOf, TabBoundsAssumption
        <3> QED
            BY <2>3, <2>4, <3>1
    <2>6. lost' \subseteq {TRUE} /\ onManager' \in BOOLEAN /\ quick' \in {quick, FALSE}
        BY <2>3 DEF TabsSound
    <2> QED
        BY <2>4, <2>5, <2>6, Zenon DEF TabsSound
<1>2. CASE a.do = "reconnect"
    <2> DEFINE i == a.index
    <2>1. SetSession(i, host, session) /\ i \in DOMAIN tabs /\ CanReconnect(i)
        BY <1>2 DEF Show, ActionSound, IsTerminal
    <2> HIDE DEF i
    <2> DEFINE t == [tabs[i] EXCEPT !.session = session, !.host = IF session = {} THEN @ ELSE host]
    <2>2. t \in SoundTab
        BY <2>1, TabOf DEF SoundTab
    <2>3. tabs' = [tabs EXCEPT ![i] = t]
        BY <2>1 DEF SetSession
    <2> HIDE DEF t
    <2>4. tabs' \in Seq(SoundTab) /\ Len(tabs') = Len(tabs)
        BY <2>1, <2>2, <2>3, TabOf, ExceptSeq DEF TabsSound
    <2>5. lost' \subseteq {TRUE}
        BY <2>1, LostIsOver DEF SetSession
    <2>6. UNCHANGED <<selected, onManager, quick>>
        BY <2>1 DEF SetSession
    <2>7. tabs' # <<>> => tabs # <<>>
        BY <2>4, TabOf, EmptySeq
    <2> QED
        BY <2>4, <2>5, <2>6, <2>7 DEF TabsSound
<1> QED
    BY <1>1, <1>2

LEMMA Launched ==
    ASSUME TabsSound, NEW a, ActionSound(a), a.do \in {"open", "reconnect"},
           NEW host \in HostType, NEW res \in Resolution, NEW manual \in BOOLEAN,
           Consents(res, host), ProfileFails(a, host) \/ Launch(a, host, res, manual)
    PROVE  TabsSound' /\ quick' \in {quick, FALSE}
<1>1. PICK session \in SUBSET SoundSession : Show(a, host, session)
    BY SessionsSpawned DEF ProfileFails, Launch
<1> QED
    BY <1>1, Shown

LEMMA ActionHost ==
    ASSUME TabsSound, NEW a \in Action, ActionSound(a), a.do # "unlock"
    PROVE  HostOf(a) \in HostType /\ a.do \in {"open", "reconnect"}
<1>1. a.do \in {"open", "reconnect"} /\ a.host \in HostType
    BY DEF Action
<1>2. a.do = "reconnect" => tabs[a.index] \in SoundTab
    BY TabOf DEF ActionSound, IsTerminal
<1> QED
    BY <1>1, <1>2 DEF HostOf, SoundTab

-----------------------------------------------------------------------------
(* TabSessions: a launch goes on, waits for credentials, or waits for the vault *)

\* A prompt for the launch of a is open, and it alone.
LEMMA UnlockAsks ==
    ASSUME SessionsInv, NEW p \in Prompt, unlock' = {p}, ActionSound(p.action),
           UNCHANGED tabVars, rdp' = {}, status' = FALSE, quick' = FALSE, dialogs' = {},
           ended' = ended
    PROVE  SessionsInv'
<1>1. TabsSound' /\ ActionSound(p.action)'
    BY TabsKept
<1>2. ModalTypes'
    BY DEF ModalTypes, SessionsInv
<1>3. PromptsSound' /\ CredentialsSound'
    BY <1>1 DEF PromptsSound, CredentialsSound
<1>4. OneModal'
    <2>1. OpenModals' \subseteq {"unlock"}
        BY DEF OpenModals
    <2> QED
        BY <2>1, OneOpen
<1> QED
    BY <1>1, <1>2, <1>3, <1>4 DEF SessionsInv

LEMMA CredentialsAsk ==
    ASSUME SessionsInv, NEW p \in Credentials, rdp' = {p}, ActionSound(p.action), p.action.do # "unlock",
           Consents(p.res, HostOf(p.action)),
           UNCHANGED tabVars, unlock' = {}, status' = FALSE, quick' = FALSE, dialogs' = {},
           ended' = ended
    PROVE  SessionsInv'
<1>1. TabsSound' /\ ActionSound(p.action)' /\ HostOf(p.action)' = HostOf(p.action)
    BY TabsKept
<1>2. ModalTypes'
    BY DEF ModalTypes, SessionsInv
<1>3. Consents(p.res, HostOf(p.action))'
    BY <1>1 DEF Consents
<1>4. PromptsSound' /\ CredentialsSound'
    BY <1>1, <1>3 DEF PromptsSound, CredentialsSound
<1>5. OneModal'
    <2>1. OpenModals' \subseteq {"rdp"}
        BY DEF OpenModals
    <2> QED
        BY <2>1, OneOpen
<1> QED
    BY <1>1, <1>2, <1>4, <1>5 DEF SessionsInv

\* The launch is over, and no modal but perhaps quick connect is open.
LEMMA LaunchOver ==
    ASSUME SessionsInv, TabsSound', quick' \in {quick, FALSE}, unlock' = {}, rdp' = {}, ~status',
           status' \in BOOLEAN, dialogs' = {}, ended' = ended
    PROVE  SessionsInv'
<1>1. OpenModals' \subseteq {"quick"}
    BY DEF OpenModals
<1>2. quick' \in BOOLEAN /\ ended' \in BOOLEAN
    BY DEF SessionsInv, ModalTypes
<1> QED
    BY <1>1, <1>2, OneOpen, NoPrompts

LEMMA Proceeded ==
    ASSUME SessionsInv, NEW a \in Action, ActionSound(a), a.do # "unlock", NEW host, host = HostOf(a),
           NEW res \in Resolution, Consents(res, host), Proceed(a, host, res, {}),
           rdp = {}, ~status, dialogs' = {}, ended' = ended
    PROVE  SessionsInv'
<1>1. host \in HostType /\ a.do \in {"open", "reconnect"} /\ TabsSound /\ status \in BOOLEAN
    BY ActionHost DEF SessionsInv, ModalTypes
<1>2. CASE NeedsCredentials(host, res)
    <2> DEFINE p == [action |-> a, res |-> res]
    <2>1. p \in Credentials /\ p.action = a /\ p.res = res
        BY DEF Credentials
    <2>2. /\ rdp' = {p} /\ unlock' = {} /\ status' = FALSE /\ quick' = FALSE
          /\ UNCHANGED tabVars
        BY <1>2 DEF Proceed
    <2> HIDE DEF p
    <2> QED
        BY <2>1, <2>2, CredentialsAsk
<1>3. CASE ~NeedsCredentials(host, res)
    <2>1. Launch(a, host, res, FALSE) /\ unlock' = {} /\ rdp' = rdp /\ status' = status
        BY <1>3 DEF Proceed
    <2>2. TabsSound' /\ quick' \in {quick, FALSE}
        BY <1>1, <2>1, Launched
    <2> QED
        BY <1>1, <2>1, <2>2, LaunchOver
<1> QED
    BY <1>2, <1>3

LEMMA LaunchResolved ==
    ASSUME SessionsInv, NEW a \in Action, ActionSound(a), a.do # "unlock", NEW host, host = HostOf(a),
           Resolve(a, host), unlock = {}, rdp = {}, ~status, dialogs' = {}, ended' = ended
    PROVE  SessionsInv'
<1>1. host \in HostType /\ a.do \in {"open", "reconnect"} /\ TabsSound /\ status \in BOOLEAN
    BY ActionHost DEF SessionsInv, ModalTypes
<1>2. ASSUME ProfileFails(a, host), UNCHANGED <<unlock, rdp, status>> PROVE SessionsInv'
    <2>1. TabsSound' /\ quick' \in {quick, FALSE}
        BY <1>1, <1>2, Shown DEF ProfileFails
    <2> QED
        BY <1>1, <1>2, <2>1, LaunchOver
<1>3. ASSUME NEW answer \in Answers(host) \ {"locked"},
             Proceed(a, host, [entry |-> answer = "open", disabled |-> answer \in {"off", "unusable"},
                               granted |-> answer = "open"], unlock)
      PROVE  SessionsInv'
    <2> DEFINE res == [entry |-> answer = "open", disabled |-> answer \in {"off", "unusable"},
                       granted |-> answer = "open"]
    <2>1. res \in Resolution
        BY DEF Resolution
    <2>2. /\ answer \in {"off", "unusable", "open"} \/ ~host.entry
        BY DEF Answers
    <2>3. Consents(res, host)
        BY <2>2 DEF Consents
    <2> HIDE DEF res
    <2>4. Proceed(a, host, res, {})
        BY <1>3 DEF res
    <2> QED
        BY <2>1, <2>3, <2>4, Proceeded
<1>4. ASSUME unlock' = {[action |-> a, attempts |-> 0, back |-> FALSE]}, status' = FALSE,
             quick' = FALSE, UNCHANGED <<tabVars, rdp>>
      PROVE  SessionsInv'
    <2> DEFINE p == [action |-> a, attempts |-> 0, back |-> FALSE]
    <2>1. 0 \in 0..(MaxAttempts - 1)
        BY TabBoundsAssumption
    <2>2. p \in Prompt /\ p.action = a
        BY <2>1, Zenon DEF Prompt
    <2>3. unlock' = {p} /\ rdp' = {} /\ UNCHANGED tabVars
        BY <1>4
    <2> HIDE DEF p
    <2> QED
        BY <1>4, <2>2, <2>3, UnlockAsks
<1> QED
    BY <1>2, <1>3, <1>4 DEF Resolve

\* ... for a host of the browser, and for the selected tab.
LEMMA OpeningSound ==
    ASSUME NEW host \in HostType
    PROVE  /\ Opening(host) \in Action /\ Opening(host).do = "open" /\ HostOf(Opening(host)) = host
           /\ ActionSound(Opening(host))
<1>1. 0 \in 0..MaxTabs
    BY TabBoundsAssumption
<1>2. Opening(host) \in Action
    BY <1>1, Zenon DEF Opening, Action
<1> QED
    BY <1>2 DEF Opening, HostOf, ActionSound

LEMMA ReconnectingSound ==
    ASSUME TabsSound, InTab, IsTerminal(selected), CanReconnect(selected)
    PROVE  /\ Reconnecting(selected) \in Action /\ Reconnecting(selected).do = "reconnect"
           /\ HostOf(Reconnecting(selected)) = tabs[selected].host
           /\ ActionSound(Reconnecting(selected))
<1>1. selected \in DOMAIN tabs /\ tabs[selected] \in Tab
    BY TabOf, TabTypes DEF IsTerminal
<1>2. selected \in 0..MaxTabs
    BY <1>1, TabOf, TabBoundsAssumption DEF TabsSound
<1>3. Reconnecting(selected) \in Action
    BY <1>1, <1>2, TabTypes, Zenon DEF Reconnecting, Action
<1> QED
    BY <1>3 DEF Reconnecting, HostOf, ActionSound

-----------------------------------------------------------------------------
(* TabSessions: launches *)

LEMMA ConnectKept ==
    ASSUME SessionsInv, NEW host \in Hosts, Connect(host) \/ ConnectFromMenu(host)
    PROVE  SessionsInv'
<1>1. unlock = {} /\ rdp = {} /\ ~status /\ dialogs' = {} /\ ended' = ended
    <2>1. CASE Connect(host)
        BY <2>1, InputQuiet DEF Connect, Quiet
    <2>2. CASE ConnectFromMenu(host)
        <3>1. Input("menu")
            BY <2>2 DEF ConnectFromMenu
        <3>2. unlock = {} /\ rdp = {} /\ ~status /\ dialogs = {"menu"}
            BY <3>1, OnlyOneGetsIt
        <3> QED
            BY <2>2, <3>2 DEF ConnectFromMenu
    <2> QED
        BY <2>1, <2>2
<1>2. Resolve(Opening(host), host)
    BY DEF Connect, ConnectFromMenu
<1>3. host \in HostType
    BY HostsAssumption
<1> QED
    BY <1>1, <1>2, <1>3, OpeningSound, LaunchResolved

LEMMA QuickKept ==
    ASSUME SessionsInv, NEW isRdp \in BOOLEAN, SubmitQuick(isRdp)
    PROVE  SessionsInv'
<1> DEFINE host == [rdp |-> isRdp, entry |-> FALSE, user |-> isRdp]
<1>1. unlock = {} /\ rdp = {} /\ ~status /\ dialogs' = {} /\ ended' = ended
    <2>1. Input("quick")
        BY DEF SubmitQuick
    <2> QED
        BY <2>1, OnlyOneGetsIt DEF SubmitQuick
<1>2. host \in HostType /\ host.entry = FALSE
    BY DEF HostType
<1>3. CASE isRdp
    <2> DEFINE res == [entry |-> FALSE, disabled |-> TRUE, granted |-> FALSE]
    <2>1. PICK manual \in BOOLEAN : Launch(Opening(host), host, res, manual)
        BY <1>3 DEF SubmitQuick
    <2>2. UNCHANGED <<unlock, rdp, status>>
        BY <1>3 DEF SubmitQuick
    <2>3. res \in Resolution /\ Consents(res, host)
        BY DEF Resolution, Consents
    <2> HIDE DEF res, host
    <2>4. TabsSound' /\ quick' \in {quick, FALSE}
        BY <1>2, <2>1, <2>3, OpeningSound, Launched DEF SessionsInv
    <2> QED
        BY <1>1, <2>2, <2>4, LaunchOver DEF SessionsInv, ModalTypes
<1>4. CASE ~isRdp
    <2>1. Resolve(Opening(host), host)
        BY <1>4 DEF SubmitQuick
    <2> HIDE DEF host
    <2> QED
        BY <1>1, <1>2, <2>1, OpeningSound, LaunchResolved
<1> QED
    BY <1>3, <1>4

LEMMA ReconnectKept == ASSUME SessionsInv, Reconnect PROVE SessionsInv'
<1>1. Quiet /\ InTab /\ IsTerminal(selected) /\ CanReconnect(selected)
      /\ dialogs' = dialogs /\ ended' = ended
    BY InputQuiet DEF Reconnect
<1>2. Resolve(Reconnecting(selected), tabs[selected].host)
    BY DEF Reconnect
<1>3. TabsSound
    BY DEF SessionsInv
<1> QED
    BY <1>1, <1>2, <1>3, ReconnectingSound, LaunchResolved DEF Quiet

-----------------------------------------------------------------------------
(* TabSessions: the tabs themselves *)

\* Nothing is open, and the tabs move.
LEMMA TabsMove ==
    ASSUME SessionsInv, Quiet, TabsSound', UNCHANGED <<modalVars, ended>>
    PROVE  SessionsInv'
<1> QED
    BY LaunchOver DEF Quiet, SessionsInv, ModalTypes, modalVars

LEMMA SeqOps ==
    ASSUME NEW S, NEW q \in Seq(S), NEW i \in 1..Len(q)
    PROVE  /\ RemoveAt(q, i) \in Seq(S) /\ Len(RemoveAt(q, i)) = Len(q) - 1
           /\ \A j \in 1..Len(q), e \in S :
                 /\ InsertAt(RemoveAt(q, i), j, e) \in Seq(S)
                 /\ Len(InsertAt(RemoveAt(q, i), j, e)) = Len(q)
<1>1. Len(q) \in Nat /\ \A k \in 1..Len(q) : q[k] \in S
    BY LenProperties, ElementOfSeq
<1>2. /\ SubSeq(q, 1, i - 1) \in Seq(S) /\ Len(SubSeq(q, 1, i - 1)) = i - 1
      /\ SubSeq(q, i + 1, Len(q)) \in Seq(S) /\ Len(SubSeq(q, i + 1, Len(q))) = Len(q) - i
    <2>1. /\ SubSeq(q, 1, i - 1) \in Seq(S)
          /\ Len(SubSeq(q, 1, i - 1)) = IF 1 <= i - 1 THEN (i - 1) - 1 + 1 ELSE 0
        BY <1>1, SubSeqProperties
    <2>2. /\ SubSeq(q, i + 1, Len(q)) \in Seq(S)
          /\ Len(SubSeq(q, i + 1, Len(q))) = IF i + 1 <= Len(q) THEN Len(q) - (i + 1) + 1 ELSE 0
        BY <1>1, SubSeqProperties
    <2> QED
        BY <1>1, <2>1, <2>2
<1> DEFINE r == RemoveAt(q, i)
<1>3. r \in Seq(S) /\ Len(r) = Len(q) - 1
    <2> DEFINE a == SubSeq(q, 1, i - 1)
               b == SubSeq(q, i + 1, Len(q))
    <2>1. r = a \o b
        BY DEF RemoveAt
    <2>2. a \in Seq(S) /\ b \in Seq(S) /\ Len(a) = i - 1 /\ Len(b) = Len(q) - i
        BY <1>2
    <2> HIDE DEF a, b, r
    <2>3. a \o b \in Seq(S) /\ Len(a \o b) = Len(a) + Len(b)
        BY <2>2, ConcatProperties
    <2> QED
        BY <1>1, <2>1, <2>2, <2>3
<1> HIDE DEF r
<1>4. ASSUME NEW j \in 1..Len(q), NEW e \in S
      PROVE  InsertAt(r, j, e) \in Seq(S) /\ Len(InsertAt(r, j, e)) = Len(q)
    <2>1. Len(r) \in Nat /\ \A k \in 1..Len(r) : r[k] \in S
        BY <1>3, LenProperties, ElementOfSeq
    <2>2. /\ SubSeq(r, 1, j - 1) \in Seq(S)
          /\ Len(SubSeq(r, 1, j - 1)) = IF 1 <= j - 1 THEN (j - 1) - 1 + 1 ELSE 0
        <3>1. \A k \in 1..(j - 1) : r[k] \in S
            BY <1>1, <1>3, <2>1
        <3> QED
            BY <1>1, <3>1, SubSeqProperties
    <2>3. /\ SubSeq(r, j, Len(r)) \in Seq(S)
          /\ Len(SubSeq(r, j, Len(r))) = IF j <= Len(r) THEN Len(r) - j + 1 ELSE 0
        <3>1. \A k \in j..Len(r) : r[k] \in S
            BY <1>1, <1>3, <2>1
        <3> QED
            BY <2>1, <3>1, SubSeqProperties
    <2>4. <<e>> \in Seq(S) /\ Len(<<e>>) = 1
        OBVIOUS
    <2> DEFINE u == SubSeq(r, 1, j - 1) \o <<e>>
    <2>5. u \in Seq(S) /\ Len(u) = j
        BY <2>2, <2>4, ConcatProperties
    <2> HIDE DEF u
    <2>6. /\ u \o SubSeq(r, j, Len(r)) \in Seq(S)
          /\ Len(u \o SubSeq(r, j, Len(r))) = Len(u) + Len(SubSeq(r, j, Len(r)))
        BY <2>3, <2>5, ConcatProperties
    <2>7. InsertAt(r, j, e) = u \o SubSeq(r, j, Len(r))
        BY DEF InsertAt, u
    <2> DEFINE v == SubSeq(r, j, Len(r))
    <2>8. Len(v) = (IF j <= Len(r) THEN Len(r) - j + 1 ELSE 0) /\ Len(u \o v) = Len(u) + Len(v)
        BY <2>3, <2>6
    <2> HIDE DEF v
    <2>9. Len(u \o v) = Len(q)
        BY <1>1, <1>3, <2>5, <2>8
    <2> QED
        BY <2>6, <2>7, <2>9 DEF v
<1> QED
    BY <1>3, <1>4 DEF r

LEMMA CloseKept ==
    ASSUME SessionsInv, NEW i \in DOMAIN tabs, Quiet, CloseTab(i)
    PROVE  SessionsInv'
<1>1. TabsSound /\ i \in 1..Len(tabs) /\ Len(tabs) \in Nat
    BY TabOf DEF SessionsInv
<1>2. tabs' \in Seq(SoundTab) /\ Len(tabs') = Len(tabs) - 1
    BY <1>1, SeqOps DEF CloseTab, TabsSound
<1>3. selected' = (IF i = Len(tabs) /\ i > 1 THEN i - 1 ELSE i)
    BY DEF CloseTab
<1>4. tabs' # <<>> => Len(tabs') # 0
    BY <1>2, EmptySeq
<1>5. selected' \in Nat \ {0} /\ (tabs' # <<>> => selected' <= Len(tabs'))
    BY <1>1, <1>2, <1>3, <1>4
<1>6. Len(tabs') <= MaxTabs
    BY <1>1, <1>2, TabBoundsAssumption DEF TabsSound
<1>7. onManager' \in BOOLEAN /\ lost' \subseteq {TRUE}
    BY <1>1 DEF CloseTab, TabsSound
<1>8. TabsSound'
    BY <1>2, <1>5, <1>6, <1>7, Zenon DEF TabsSound
<1>9. dialogs' = {} /\ UNCHANGED <<unlock, rdp, status, quick, ended>>
    BY DEF CloseTab, Quiet
<1> QED
    BY <1>8, <1>9, LaunchOver DEF Quiet, SessionsInv, ModalTypes

LEMMA MoveKept ==
    ASSUME SessionsInv, NEW from \in DOMAIN tabs, NEW to \in DOMAIN tabs, MoveTab(from, to)
    PROVE  SessionsInv'
<1>1. Quiet
    BY InputQuiet DEF MoveTab
<1>2. TabsSound /\ from \in 1..Len(tabs) /\ to \in 1..Len(tabs) /\ Len(tabs) \in Nat
      /\ tabs[from] \in SoundTab
    BY TabOf DEF SessionsInv
<1>3. tabs' \in Seq(SoundTab) /\ Len(tabs') = Len(tabs)
    BY <1>2, SeqOps DEF MoveTab, TabsSound
<1>4. selected \in Nat \ {0} /\ selected <= Len(tabs)
    BY <1>2, TabOf DEF TabsSound
<1>5. selected' = CASE selected = from -> to
                     [] from < selected /\ to >= selected -> selected - 1
                     [] from > selected /\ to <= selected -> selected + 1
                     [] OTHER -> selected
    BY DEF MoveTab
<1>6. selected' \in Nat \ {0} /\ selected' <= Len(tabs')
    BY <1>2, <1>3, <1>4, <1>5
<1>7. onManager' \in BOOLEAN /\ lost' \subseteq {TRUE} /\ Len(tabs') <= MaxTabs
    BY <1>2, <1>3 DEF MoveTab, TabsSound
<1>8. TabsSound'
    BY <1>3, <1>6, <1>7, Zenon DEF TabsSound
<1>9. UNCHANGED <<modalVars, ended>>
    BY DEF MoveTab
<1> QED
    BY <1>1, <1>8, <1>9, TabsMove

LEMMA SelectKept ==
    ASSUME SessionsInv, (\E i \in DOMAIN tabs : SelectTab(i)) \/ \E manager \in BOOLEAN : Focus(manager)
    PROVE  SessionsInv'
<1>1. Quiet
    BY InputQuiet DEF SelectTab, Focus
<1>2. UNCHANGED <<tabs, lost, modalVars, ended>> /\ onManager' \in BOOLEAN
      /\ (selected' = selected \/ selected' \in DOMAIN tabs)
    BY DEF SelectTab, Focus
<1>3. \A i \in DOMAIN tabs : i \in Nat \ {0} /\ i <= Len(tabs)
    BY TabOf DEF SessionsInv
<1>4. TabsSound'
    BY <1>2, <1>3 DEF SessionsInv, TabsSound
<1> QED
    BY <1>1, <1>2, <1>4, TabsMove

LEMMA WriteKept == ASSUME SessionsInv, WriteFails PROVE SessionsInv'
<1>1. Quiet /\ IsTerminal(selected)
    BY InputQuiet DEF WriteFails
<1>2. PICK s \in tabs[selected].session :
          tabs' = [tabs EXCEPT ![selected].session = {[s EXCEPT !.exited = TRUE, !.failed = TRUE]}]
    BY DEF WriteFails
<1> DEFINE t == [tabs[selected] EXCEPT !.session = {[s EXCEPT !.exited = TRUE, !.failed = TRUE]}]
<1>3. TabsSound /\ selected \in DOMAIN tabs /\ tabs[selected] \in SoundTab
    BY <1>1, TabOf DEF SessionsInv, IsTerminal
<1>4. s \in SoundSession
    BY <1>3 DEF SoundTab
<1>5. [s EXCEPT !.exited = TRUE, !.failed = TRUE] \in SoundSession
    BY <1>4 DEF SoundSession, Session
<1>6. t \in SoundTab
    BY <1>3, <1>5 DEF SoundTab
<1>7. tabs' = [tabs EXCEPT ![selected] = t]
    BY <1>2
<1> HIDE DEF t
<1>8. tabs' \in Seq(SoundTab) /\ Len(tabs') = Len(tabs) /\ tabs # <<>>
    BY <1>3, <1>6, <1>7, TabOf, ExceptSeq DEF TabsSound
<1>9. UNCHANGED <<selected, onManager, lost, modalVars, ended>>
    BY DEF WriteFails
<1>10. TabsSound'
    BY <1>3, <1>8, <1>9 DEF TabsSound
<1> QED
    BY <1>1, <1>9, <1>10, TabsMove

LEMMA EditorKept == ASSUME SessionsInv, OpenEditor PROVE SessionsInv'
<1>1. unlock = {} /\ rdp = {} /\ ~status
    <2>1. CASE Keyboard("manager")
        BY <2>1, InputQuiet DEF Quiet
    <2>2. CASE Input("menu")
        BY <2>2, OnlyOneGetsIt
    <2> QED
        BY <2>1, <2>2 DEF OpenEditor
<1>2. dialogs' = {} /\ quick' = FALSE /\ onManager' = FALSE /\ UNCHANGED <<lost, unlock, rdp, status, ended>>
    BY DEF OpenEditor
<1>3. /\ tabs' \in Seq(SoundTab) /\ Len(tabs') <= MaxTabs
      /\ selected' \in Nat \ {0} /\ selected' <= Len(tabs')
    <2>1. TabsSound /\ Len(tabs) \in Nat /\ \A i \in DOMAIN tabs : i \in Nat \ {0} /\ i <= Len(tabs)
        BY TabOf DEF SessionsInv
    <2>2. CASE Len(tabs) < MaxTabs /\ tabs' = Append(tabs, Editor) /\ selected' = Len(tabs) + 1
        <3>1. tabs' \in Seq(SoundTab) /\ Len(tabs') = Len(tabs) + 1
            BY <2>1, <2>2, TabTypes, AppendProperties DEF TabsSound
        <3> QED
            BY <2>1, <2>2, <3>1, TabBoundsAssumption
    <2>3. CASE (\E i \in DOMAIN tabs : ~tabs[i].terminal /\ selected' = i) /\ UNCHANGED tabs
        BY <2>1, <2>3 DEF TabsSound
    <2> QED
        BY <2>2, <2>3 DEF OpenEditor
<1>4. TabsSound'
    BY <1>2, <1>3 DEF SessionsInv, TabsSound
<1> QED
    BY <1>1, <1>2, <1>4, LaunchOver DEF SessionsInv, ModalTypes

-----------------------------------------------------------------------------
(* TabSessions: the prompts *)

LEMMA StatusShown ==
    ASSUME SessionsInv, ShowStatus, rdp = {}, dialogs' = {}, ended' = ended
    PROVE  SessionsInv'
<1>1. status' = TRUE /\ unlock' = {} /\ quick' = FALSE /\ rdp' = {} /\ UNCHANGED tabVars
    BY DEF ShowStatus
<1>2. TabsSound' /\ ended' \in BOOLEAN
    BY <1>1, TabsKept DEF SessionsInv, ModalTypes
<1>3. OpenModals' \subseteq {"status"}
    BY <1>1 DEF OpenModals
<1> QED
    BY <1>1, <1>2, <1>3, OneOpen, NoPrompts

\* The action goes on with the vault, or without.
LEMMA CompleteKept ==
    ASSUME SessionsInv, NEW p \in unlock, rdp = {}, ~status, dialogs' = {}, ended' = ended,
           NEW entry \in BOOLEAN, NEW cancelled \in BOOLEAN, NEW granted \in BOOLEAN,
           entry => granted, ~cancelled => granted,
           Complete(p.action, entry, cancelled, granted)
    PROVE  SessionsInv'
<1> DEFINE a == p.action
<1>1. a \in Action /\ ActionSound(a) /\ TabsSound /\ status \in BOOLEAN
    BY DEF SessionsInv, ModalTypes, Prompt, PromptsSound
<1> HIDE DEF a
<1>2. ASSUME unlock' = {}, UNCHANGED <<tabVars, rdp, status, quick>> PROVE SessionsInv'
    <2>1. TabsSound'
        BY <1>2, TabsKept
    <2> QED
        BY <1>1, <1>2, <2>1, LaunchOver
<1>3. CASE a.do = "unlock"
    BY <1>2, <1>3 DEF Complete, a
<1>4. CASE a.do # "unlock"
    <2>1. ~(a.do = "reconnect" /\ ~IsTerminal(a.index))
        BY <1>1 DEF ActionSound
    <2> DEFINE host == HostOf(a)
               res == [entry |-> entry, disabled |-> cancelled, granted |-> granted]
    <2>2. host \in HostType /\ a.do \in {"open", "reconnect"}
        BY <1>1, <1>4, ActionHost
    <2>3. res \in Resolution /\ Consents(res, host)
        BY DEF Resolution, Consents
    <2>4. \/ ProfileFails(a, host) /\ unlock' = {} /\ UNCHANGED <<rdp, status>>
          \/ Proceed(a, host, res, {})
        BY <1>4, <2>1 DEF Complete, HostOf, a
    <2> HIDE DEF host, res
    <2>5. CASE ProfileFails(a, host) /\ unlock' = {} /\ UNCHANGED <<rdp, status>>
        <3>1. TabsSound' /\ quick' \in {quick, FALSE}
            BY <1>1, <2>2, <2>5, Shown DEF ProfileFails
        <3> QED
            BY <1>1, <2>5, <3>1, LaunchOver
    <2>6. CASE Proceed(a, host, res, {})
        BY <1>1, <1>4, <2>3, <2>6, Proceeded DEF host
    <2> QED
        BY <2>4, <2>5, <2>6
<1> QED
    BY <1>3, <1>4

LEMMA RefusedKept ==
    ASSUME SessionsInv, NEW p \in unlock, rdp = {}, ~status, dialogs' = {}, ended' = ended, Refused(p)
    PROVE  SessionsInv'
<1>1. CASE p.back
    BY <1>1, StatusShown DEF Refused
<1>2. CASE ~p.back
    BY <1>2, CompleteKept DEF Refused
<1> QED
    BY <1>1, <1>2

LEMMA UnlockKept ==
    ASSUME SessionsInv, CancelUnlock \/ UnlockSucceeds \/ WrongPassword \/ UnlockFails
    PROVE  SessionsInv'
<1>1. Input("unlock") /\ dialogs' = dialogs /\ ended' = ended
    BY DEF CancelUnlock, UnlockSucceeds, WrongPassword, UnlockFails
<1>2. rdp = {} /\ ~status /\ ~quick /\ dialogs' = {} /\ ended' = ended
    BY <1>1, OnlyOneGetsIt
<1>3. ASSUME NEW p \in unlock, Refused(p) PROVE SessionsInv'
    BY <1>2, <1>3, RefusedKept
<1>4. CASE UnlockSucceeds
    <2>1. PICK p \in unlock : IF p.back THEN ShowStatus ELSE Complete(p.action, TRUE, FALSE, TRUE)
        BY <1>4 DEF UnlockSucceeds
    <2> QED
        BY <1>2, <2>1, StatusShown, CompleteKept
<1>5. CASE WrongPassword
    <2>1. PICK p \in unlock : IF p.attempts + 1 < MaxAttempts
                              THEN /\ unlock' = {[p EXCEPT !.attempts = @ + 1]}
                                   /\ UNCHANGED <<tabVars, rdp, status, quick>>
                              ELSE Refused(p)
        BY <1>5 DEF WrongPassword
    <2>2. CASE p.attempts + 1 < MaxAttempts
        <3> DEFINE q == [p EXCEPT !.attempts = @ + 1]
        <3>1. p \in Prompt /\ ActionSound(p.action)
            BY DEF SessionsInv, ModalTypes, PromptsSound
        <3>2. p.attempts + 1 \in 0..(MaxAttempts - 1)
            BY <2>2, <3>1, TabBoundsAssumption DEF Prompt
        <3>3. q \in Prompt /\ q.action = p.action
            BY <3>1, <3>2 DEF Prompt
        <3>4. unlock' = {q} /\ rdp' = {} /\ status' = FALSE /\ quick' = FALSE /\ UNCHANGED tabVars
            BY <1>2, <2>1, <2>2 DEF SessionsInv, ModalTypes
        <3> HIDE DEF q
        <3> QED
            BY <1>2, <3>1, <3>3, <3>4, UnlockAsks
    <2>3. CASE ~(p.attempts + 1 < MaxAttempts)
        BY <1>3, <2>1, <2>3
    <2> QED
        BY <2>2, <2>3
<1> QED
    BY <1>3, <1>4, <1>5 DEF CancelUnlock, UnlockFails

LEMMA RdpKept ==
    ASSUME SessionsInv, CancelRdp \/ \E manual \in BOOLEAN : SubmitRdp(manual)
    PROVE  SessionsInv'
<1>1. Input("rdp") /\ rdp' = {} /\ UNCHANGED <<unlock, status, dialogs, ended>>
    BY DEF CancelRdp, SubmitRdp
<1>2. unlock' = {} /\ status' = FALSE /\ dialogs' = {} /\ ended' = ended /\ ~status
    BY <1>1, OnlyOneGetsIt DEF SessionsInv, ModalTypes
<1>3. ASSUME TabsSound', quick' \in {quick, FALSE} PROVE SessionsInv'
    BY <1>1, <1>2, <1>3, LaunchOver
<1>4. CASE CancelRdp
    BY <1>3, <1>4, TabsKept DEF CancelRdp
<1>5. ASSUME NEW manual \in BOOLEAN, SubmitRdp(manual) PROVE SessionsInv'
    <2>1. PICK modal \in rdp :
              LET action == modal.action
                  res == IF manual THEN [entry |-> FALSE, disabled |-> TRUE, granted |-> FALSE]
                         ELSE modal.res
              IN  IF action.do = "reconnect" /\ ~IsTerminal(action.index)
                  THEN UNCHANGED <<tabVars, quick>>
                  ELSE LET base == IF action.do = "open" THEN action.host
                                   ELSE tabs[action.index].host
                           host == [base EXCEPT !.user = TRUE]
                       IN  ProfileFails(action, host) \/ Launch(action, host, res, manual)
        BY <1>5 DEF SubmitRdp
    <2> DEFINE a == modal.action
               res == IF manual THEN [entry |-> FALSE, disabled |-> TRUE, granted |-> FALSE]
                      ELSE modal.res
               host == [HostOf(a) EXCEPT !.user = TRUE]
    <2>2. /\ a \in Action /\ ActionSound(a) /\ a.do # "unlock" /\ TabsSound
          /\ modal.res \in Resolution /\ Consents(modal.res, HostOf(a))
        BY DEF SessionsInv, ModalTypes, PromptsSound, CredentialsSound, Credentials
    <2>3. HostOf(a) \in HostType /\ a.do \in {"open", "reconnect"}
        BY <2>2, ActionHost
    <2>4. host \in HostType /\ host.entry = HostOf(a).entry
        BY <2>3 DEF HostType
    <2>5. \/ UNCHANGED <<tabVars, quick>>
          \/ ProfileFails(a, host) \/ Launch(a, host, res, manual)
        BY <2>1 DEF HostOf
    <2>6. res \in Resolution /\ (~manual => res = modal.res)
          /\ (manual => res = [entry |-> FALSE, disabled |-> TRUE, granted |-> FALSE])
        BY <2>2 DEF Resolution
    <2> HIDE DEF a, res, host
    <2>7. Consents(res, host)
        <3>1. CASE manual
            BY <2>6, <3>1 DEF Consents
        <3>2. CASE ~manual
            BY <2>2, <2>4, <2>6, <3>2 DEF Consents
        <3> QED
            BY <3>1, <3>2
    <2>8. TabsSound' /\ quick' \in {quick, FALSE}
        BY <2>2, <2>3, <2>4, <2>5, <2>6, <2>7, TabsKept, Launched
    <2> QED
        BY <1>3, <2>8
<1> QED
    BY <1>4, <1>5

\* The prompt that nobody's launch waits for.
LEMMA ManualSound ==
    ASSUME NEW back \in BOOLEAN
    PROVE  /\ [action |-> Manual, attempts |-> 0, back |-> back] \in Prompt
           /\ ActionSound(Manual)
<1>1. 0 \in 0..MaxTabs /\ 0 \in 0..(MaxAttempts - 1)
    BY TabBoundsAssumption
<1>2. Manual \in Action
    BY <1>1, TabTypes, Zenon DEF Manual, Action
<1> QED
    BY <1>1, <1>2, Zenon DEF Prompt, Manual, ActionSound

LEMMA VaultAsked == ASSUME SessionsInv, AskVault \/ UnlockFromStatus PROVE SessionsInv'
<1>1. /\ unlock = {} /\ rdp = {} /\ dialogs' = {} /\ ended' = ended
    <2>1. CASE AskVault
        BY <2>1, InputQuiet DEF AskVault, Quiet
    <2>2. CASE UnlockFromStatus
        BY <2>2, OnlyOneGetsIt DEF UnlockFromStatus
    <2> QED
        BY <2>1, <2>2
<1>2. CASE ShowStatus
    BY <1>1, <1>2, StatusShown
<1>3. ASSUME NEW back \in BOOLEAN, unlock' = {[action |-> Manual, attempts |-> 0, back |-> back]},
             status' = FALSE, quick' = FALSE, UNCHANGED <<tabVars, rdp>>
      PROVE  SessionsInv'
    <2> DEFINE p == [action |-> Manual, attempts |-> 0, back |-> back]
    <2>1. p \in Prompt /\ ActionSound(p.action) /\ unlock' = {p} /\ rdp' = {} /\ UNCHANGED tabVars
        BY <1>1, <1>3, ManualSound
    <2> HIDE DEF p
    <2> QED
        BY <1>1, <1>3, <2>1, UnlockAsks
<1> QED
    BY <1>2, <1>3 DEF AskVault, UnlockFromStatus

\* Modals without a launch behind them.
LEMMA OthersKept ==
    ASSUME SessionsInv, CloseStatus \/ OpenQuick \/ CloseQuick \/ OpenMenu \/ OpenDialog \/ CloseDialog
    PROVE  SessionsInv'
<1>1. ModalTypes /\ TabsSound
    BY DEF SessionsInv
<1>2. unlock = {} /\ rdp = {} /\ UNCHANGED <<unlock, rdp, ended>>
    <2>1. CASE CloseStatus \/ CloseQuick
        BY <2>1, OnlyOneGetsIt DEF CloseStatus, CloseQuick
    <2>2. CASE OpenQuick \/ OpenMenu
        BY <2>2, InputQuiet DEF OpenQuick, OpenMenu, Quiet
    <2>3. CASE OpenDialog
        BY <2>3, OnlyOneGetsIt, InputQuiet DEF OpenDialog, Quiet
    <2>4. CASE CloseDialog
        BY <2>4, <1>1, OnlyOneGetsIt DEF CloseDialog, ModalTypes
    <2> QED
        BY <2>1, <2>2, <2>3, <2>4
<1>3. TabsSound'
    BY <1>1 DEF TabsSound, CloseStatus, OpenQuick, CloseQuick, OpenMenu, OpenDialog, CloseDialog, tabVars
<1>4. status' \in BOOLEAN /\ quick' \in BOOLEAN /\ dialogs' \subseteq {"menu", "dialog"}
    BY <1>1 DEF ModalTypes, CloseStatus, OpenQuick, CloseQuick, OpenMenu, OpenDialog, CloseDialog
<1>5. \E m : OpenModals' \subseteq {m}
    <2>1. CASE CloseStatus
        <3>1. OpenModals' \subseteq {"none"}
            BY <1>2, <2>1, OnlyOneGetsIt DEF CloseStatus, OpenModals
        <3> QED
            BY <3>1
    <2>2. CASE OpenQuick \/ CloseQuick
        <3>1. ~status /\ dialogs = {}
            BY <2>2, OnlyOneGetsIt, InputQuiet DEF OpenQuick, CloseQuick, Quiet
        <3>2. OpenModals' \subseteq {"quick"}
            BY <1>2, <2>2, <3>1 DEF OpenQuick, CloseQuick, OpenModals
        <3> QED
            BY <3>2
    <2>3. CASE OpenMenu
        <3>1. ~status /\ ~quick /\ dialogs = {}
            BY <2>3, InputQuiet DEF OpenMenu, Quiet
        <3>2. OpenModals' \subseteq {"menu"}
            BY <1>2, <2>3, <3>1 DEF OpenMenu, OpenModals
        <3> QED
            BY <3>2
    <2>4. CASE OpenDialog
        <3>1. ~status /\ ~quick /\ dialogs \subseteq {"menu"}
            BY <2>4, OnlyOneGetsIt, InputQuiet DEF OpenDialog, Quiet
        <3>2. OpenModals' \subseteq {"dialog"}
            BY <1>2, <2>4, <3>1 DEF OpenDialog, OpenModals
        <3> QED
            BY <3>2
    <2>5. CASE CloseDialog
        <3>1. PICK d \in dialogs : Input(d) /\ dialogs' = dialogs \ {d} /\ UNCHANGED <<status, quick>>
            BY <2>5 DEF CloseDialog
        <3>2. ~status /\ ~quick /\ dialogs = {d}
            BY <1>1, <3>1, OnlyOneGetsIt DEF ModalTypes
        <3>3. OpenModals' \subseteq {"none"}
            BY <1>2, <3>1, <3>2 DEF OpenModals
        <3> QED
            BY <3>3
    <2> QED
        BY <2>1, <2>2, <2>3, <2>4, <2>5
<1>6. ended' \in BOOLEAN /\ OneModal'
    BY <1>1, <1>2, <1>5, OneOpen DEF ModalTypes
<1> QED
    BY <1>2, <1>3, <1>4, <1>6, NoPrompts

-----------------------------------------------------------------------------
(* TabSessions: processes, and the end *)

\* The modals stay, and the tabs that prompts are about.
LEMMA PromptsStay ==
    ASSUME SessionsInv, TabsSound', UNCHANGED modalVars, ended' \in BOOLEAN,
           \A p \in unlock \cup rdp : p.action.do = "reconnect" =>
               /\ p.action.index \in DOMAIN tabs' /\ tabs'[p.action.index] = tabs[p.action.index]
               /\ InTab'
    PROVE  SessionsInv'
<1>1. unlock' = unlock /\ rdp' = rdp /\ OpenModals' = OpenModals
    BY DEF modalVars, OpenModals
<1>2. ModalTypes' /\ OneModal'
    BY <1>1 DEF SessionsInv, ModalTypes, OneModal, modalVars
<1>3. ASSUME NEW p \in unlock \cup rdp PROVE ActionSound(p.action)'
    <2>1. ActionSound(p.action)
        BY DEF SessionsInv, PromptsSound
    <2> QED
        BY <2>1 DEF ActionSound, IsTerminal, CanReconnect
<1>4. ASSUME NEW p \in rdp
      PROVE  p.action.do # "unlock" /\ Consents(p.res, HostOf(p.action))'
    <2>1. p.action.do # "unlock" /\ Consents(p.res, HostOf(p.action)) /\ p.action \in Action
        BY DEF SessionsInv, ModalTypes, CredentialsSound, Credentials
    <2>2. p.action.do = "open" \/ p.action.do = "reconnect"
        BY <2>1 DEF Action
    <2>3. HostOf(p.action)' = HostOf(p.action)
        BY <2>2 DEF HostOf
    <2> QED
        BY <2>1, <2>3 DEF Consents
<1>5. PromptsSound' /\ CredentialsSound'
    BY <1>1, <1>3, <1>4 DEF PromptsSound, CredentialsSound
<1> QED
    BY <1>2, <1>5 DEF SessionsInv

LEMMA StreamKept ==
    ASSUME SessionsInv, NEW i \in DOMAIN tabs, StreamCloses(i)
    PROVE  SessionsInv'
<1>1. PICK s \in tabs[i].session :
          /\ ~s.exited
          /\ tabs' = [tabs EXCEPT ![i].session =
                         {[s EXCEPT !.streams = @ - 1, !.exited = (s.streams = 1)]}]
          /\ UNCHANGED <<selected, onManager, lost, modalVars, ended>>
    BY DEF StreamCloses
<1>2. TabsSound /\ tabs[i] \in SoundTab /\ s \in SoundSession
    BY TabOf DEF SessionsInv, SoundTab
<1> DEFINE r == [s EXCEPT !.streams = @ - 1, !.exited = (s.streams = 1)]
           t == [tabs[i] EXCEPT !.session = {r}]
<1>3. r \in SoundSession
    <2>1. s.streams \in 1..2
        BY <1>1, <1>2 DEF SoundSession, Session
    <2>2. s.streams - 1 \in 0..2 /\ (s.streams = 1 <=> s.streams - 1 = 0)
        BY <2>1
    <2> DEFINE n == s.streams - 1
               over == s.streams = 1
    <2>3. n \in 0..2 /\ over \in BOOLEAN /\ (over <=> n = 0) /\ r = [s EXCEPT !.streams = n, !.exited = over]
        BY <2>2
    <2> HIDE DEF n, over, r
    <2> QED
        BY <1>2, <2>3 DEF SoundSession, Session
<1> HIDE DEF r
<1>4. t \in SoundTab
    BY <1>2, <1>3 DEF SoundTab
<1>5. tabs' = [tabs EXCEPT ![i] = t]
    BY <1>1 DEF r
<1> HIDE DEF t
<1>6. tabs' \in Seq(SoundTab) /\ Len(tabs') = Len(tabs) /\ DOMAIN tabs' = DOMAIN tabs
    BY <1>2, <1>4, <1>5, TabOf, ExceptSeq DEF TabsSound
<1>7. tabs' # <<>> /\ tabs # <<>>
    BY <1>6, TabOf, EmptySeq, <1>2
<1>8. TabsSound'
    BY <1>1, <1>2, <1>6, <1>7 DEF TabsSound
<1>9. ASSUME NEW p \in unlock \cup rdp, p.action.do = "reconnect"
      PROVE  /\ p.action.index \in DOMAIN tabs' /\ tabs'[p.action.index] = tabs[p.action.index]
             /\ InTab'
    <2>1. ActionSound(p.action)
        BY DEF SessionsInv, PromptsSound
    <2>2. p.action.index \in DOMAIN tabs /\ CanReconnect(p.action.index) /\ InTab
        BY <1>9, <2>1 DEF ActionSound, IsTerminal
    <2>3. p.action.index # i
        BY <1>1, <2>2 DEF CanReconnect
    <2> QED
        BY <1>1, <1>5, <1>6, <1>7, <2>2, <2>3 DEF InTab
<1> QED
    BY <1>1, <1>8, <1>9, PromptsStay DEF SessionsInv, ModalTypes

LEMMA QuitKept == ASSUME SessionsInv, Quit PROVE SessionsInv'
<1>1. TabsSound /\ Len(tabs) \in Nat /\ DOMAIN tabs = 1..Len(tabs)
      /\ \A i \in DOMAIN tabs : tabs[i] \in SoundTab
    BY TabOf DEF SessionsInv
<1>2. /\ tabs' = [i \in DOMAIN tabs |-> [tabs[i] EXCEPT !.session = {}]]
      /\ lost' = lost \cup UNION {{s.failed \/ s.streams = 0 : s \in {x \in tabs[i].session : x.exited}} :
                                  i \in DOMAIN tabs}
      /\ ended' = TRUE /\ ~InTab /\ UNCHANGED <<selected, onManager, modalVars>>
    BY DEF Quit
<1>3. tabs' \in Seq(SoundTab) /\ Len(tabs') = Len(tabs)
    <2>1. tabs' \in [1..Len(tabs) -> SoundTab]
        BY <1>1, <1>2, TabTypes
    <2>2. tabs' \in Seq(SoundTab)
        BY <1>1, <2>1, SeqDef
    <2>3. DOMAIN tabs' = 1..Len(tabs) /\ DOMAIN tabs' = 1..Len(tabs') /\ Len(tabs') \in Nat
        BY <2>1, <2>2, LenProperties
    <2> QED
        BY <1>1, <2>2, <2>3
<1>4. lost' \subseteq {TRUE}
    <2>1. ASSUME NEW i \in DOMAIN tabs, NEW s \in tabs[i].session, s.exited
          PROVE  (s.failed \/ s.streams = 0) = TRUE
        BY <1>1, <2>1 DEF SoundTab, SoundSession
    <2>2. lost \subseteq {TRUE}
        BY <1>1 DEF TabsSound
    <2> QED
        BY <1>2, <2>1, <2>2, Zenon
<1>5. tabs' # <<>> => tabs # <<>>
    BY <1>1, <1>3, TabOf, EmptySeq
<1>6. TabsSound'
    BY <1>1, <1>2, <1>3, <1>4, <1>5 DEF TabsSound
<1>7. ASSUME NEW p \in unlock \cup rdp PROVE p.action.do # "reconnect"
    BY <1>2 DEF SessionsInv, PromptsSound, ActionSound
<1> QED
    BY <1>2, <1>6, <1>7, PromptsStay

-----------------------------------------------------------------------------
LEMMA SessionsInvNext == SessionsInv /\ [SessionsNext]_sessionsVars => SessionsInv'
<1> SUFFICES ASSUME SessionsInv, [SessionsNext]_sessionsVars PROVE SessionsInv'
    OBVIOUS
<1>1. CASE SessionsNext
    <2>1. ASSUME NEW i \in DOMAIN tabs, ClickClose(i) PROVE SessionsInv'
        BY <2>1, InputQuiet, CloseKept DEF ClickClose
    <2>2. CASE CloseSelected
        <3>1. Quiet /\ InTab /\ CloseTab(selected)
            BY <2>2, InputQuiet DEF CloseSelected
        <3>2. selected \in DOMAIN tabs
            BY <3>1, TabOf DEF SessionsInv, TabsSound, InTab
        <3> QED
            BY <3>1, <3>2, CloseKept
    <2> QED
        BY <1>1, <2>1, <2>2, ConnectKept, QuickKept, ReconnectKept, WriteKept, EditorKept, SelectKept,
           StreamKept, MoveKept, UnlockKept, RdpKept, VaultAsked, OthersKept, QuitKept DEF SessionsNext
<1>2. CASE UNCHANGED sessionsVars
    <2>1. UNCHANGED <<tabVars, modalVars, ended>>
        BY <1>2 DEF sessionsVars, tabVars, modalVars
    <2>2. TabsSound' /\ ended' \in BOOLEAN
        BY <2>1, TabsKept DEF SessionsInv, ModalTypes
    <2>3. ASSUME NEW p \in unlock \cup rdp, p.action.do = "reconnect"
          PROVE  p.action.index \in DOMAIN tabs' /\ tabs'[p.action.index] = tabs[p.action.index] /\ InTab'
        BY <2>1, <2>3 DEF SessionsInv, PromptsSound, ActionSound, IsTerminal, InTab, tabVars
    <2> QED
        BY <2>1, <2>2, <2>3, PromptsStay
<1> QED
    BY <1>1, <1>2

LEMMA SessionsInvariant == SessionsSpec => []SessionsInv
    BY SessionsInvInit, SessionsInvNext, PTL DEF SessionsSpec

-----------------------------------------------------------------------------
\* Types of the tabs and the modals, with the selection inside the tabs after every move, close
\* and reconnect.
THEOREM SessionsTypeCorrect == SessionsSpec => []SessionsTypeOK
<1>1. ASSUME SessionsInv PROVE SessionsTypeOK
    <2>1. TabsSound /\ ModalTypes
        BY <1>1 DEF SessionsInv
    <2>2. tabs \in Seq(Tab)
        BY <2>1, TabTypes, SeqMonotonic DEF TabsSound
    <2>3. lost \subseteq BOOLEAN
        BY <2>1 DEF TabsSound
    <2> QED
        BY <2>1, <2>2, <2>3, Zenon DEF SessionsTypeOK, TabsSound, ModalTypes, Prompt, Credentials
<1> QED
    BY <1>1, SessionsInvariant, PTL

\* Keys (input.rs:114) and mouse (mouse.rs:26) always find the same modal.
THEOREM OneModalIsOpen == SessionsSpec => []OneModal
<1>1. SessionsInv => OneModal
    BY DEF SessionsInv
<1> QED
    BY <1>1, SessionsInvariant, PTL

\* The index a prompt keeps (state/vault.rs:37, state/rdp_prompt.rs) is of the tab that asked.
THEOREM PromptsStayWithTheirTab == SessionsSpec => []PromptsKeepTheirTab
<1>1. SessionsInv => PromptsKeepTheirTab
    BY DEF SessionsInv, PromptsSound, ActionSound, PromptsKeepTheirTab
<1> QED
    BY <1>1, SessionsInvariant, PTL

\* No reconnect and no end of the manager drops a session that is not over (launch.rs:274).
THEOREM SessionsEndFirst == SessionsSpec => []NoLiveSessionDropped
<1>1. SessionsInv => NoLiveSessionDropped
    BY DEF SessionsInv, TabsSound, NoLiveSessionDropped
<1> QED
    BY <1>1, SessionsInvariant, PTL

\* Through every chain of prompts, a launch uses the vault only when it was found open for it.
THEOREM VaultByConsent == SessionsSpec => []VaultUsedByConsent
<1>1. SessionsInv => VaultUsedByConsent
    BY TabOf DEF SessionsInv, SoundTab, SoundSession, VaultUsedByConsent
<1> QED
    BY <1>1, SessionsInvariant, PTL

-----------------------------------------------------------------------------
(* DirectLaunch: the invariant of a launch *)

LaunchPlaces ==
    {"begin", "user", "autologin", "query", "prompt", "again", "token", "secret", "done"}
AgentCalls == {"query", "prompt", "again", "token", "secret"}

Outcomes == [end : {"none", "started", "error"}, password : BOOLEAN, notice : BOOLEAN]

LaunchTypeOK ==
    /\ launch \in LaunchKind
    /\ due \in LaunchPlaces /\ prompts \in 0..3
    /\ vault \in {"none", "locked", "unlocked"}
    /\ stored \in BOOLEAN /\ leased \in BOOLEAN
    /\ changes \in 0..MaxChanges
    /\ asked \subseteq {"user", "master password"}
    /\ outcome \in Outcomes

CallsForTheVault == due \in AgentCalls => launch.autologin /\ launch.entry
PromptsAtTerminal ==
    /\ due \in {"prompt", "again"} => launch.stdin
    /\ "master password" \in asked => launch.stdin
PendingUntilDone == due # "done" => outcome = Pending

\* How a launch may come out.
OutcomeSound(o) ==
    /\ (o.end = "started" /\ ~o.password /\ launch.autologin /\ launch.entry) =>
          o.notice /\ launch.stdin /\ ~(launch.rdp /\ launch.explicit)
    /\ o.password => launch.autologin /\ launch.entry

LaunchInv == LaunchTypeOK /\ CallsForTheVault /\ PromptsAtTerminal /\ PendingUntilDone /\ OutcomeSound(outcome)

-----------------------------------------------------------------------------
LEMMA ResultTypes ==
    /\ Pending \in Outcomes /\ NotStarted \in Outcomes
    /\ \A p, n \in BOOLEAN : Started(p, n) \in Outcomes
    /\ OutcomeSound(Pending) /\ OutcomeSound(NotStarted)
    BY DEF Pending, NotStarted, Started, Outcomes, OutcomeSound

\* An error after a prompt, or any error but "unlock failed", comes out soundly.
LEMMA FailureIsSound ==
    ASSUME LaunchTypeOK, NEW error, error = "unlock failed" => launch.stdin
    PROVE  Failure(error) \in Outcomes /\ OutcomeSound(Failure(error))
<1>1. launch.stdin \in BOOLEAN /\ launch.stderr \in BOOLEAN /\ launch.rdp \in BOOLEAN
      /\ launch.explicit \in BOOLEAN
    BY DEF LaunchTypeOK, LaunchKind
<1>2. Failure(error) \in {NotStarted, Started(FALSE, TRUE)}
    BY DEF Failure
<1>3. ASSUME Failure(error) = Started(FALSE, TRUE)
      PROVE  launch.stdin /\ ~(launch.rdp /\ launch.explicit)
    <2>1. Started(FALSE, TRUE).end # NotStarted.end
        BY DEF Started, NotStarted
    <2>2. Started(FALSE, TRUE) # NotStarted
        BY <2>1
    <2> QED
        BY <1>1, <1>3, <2>2 DEF Failure, Prompting
<1>4. OutcomeSound(Started(FALSE, TRUE)) <=> (launch.autologin /\ launch.entry =>
            launch.stdin /\ ~(launch.rdp /\ launch.explicit))
    BY DEF OutcomeSound, Started
<1> QED
    BY <1>2, <1>3, <1>4, ResultTypes

LEMMA LaunchInvInit == LaunchInit => LaunchInv
<1> SUFFICES ASSUME LaunchInit PROVE LaunchInv
    OBVIOUS
<1>1. launch \in LaunchKind /\ stored \in BOOLEAN
    BY DEF LaunchInit
<1>2. due = "begin" /\ prompts = 0 /\ changes = 0 /\ asked = {} /\ leased = FALSE /\ outcome = Pending
      /\ vault \in {"none", "locked", "unlocked"}
    BY DEF LaunchInit
<1>a. 0 \in 0..3 /\ 0 \in 0..MaxChanges
    BY ChangesAssumption
<1>b. due \in LaunchPlaces /\ leased \in BOOLEAN /\ asked \subseteq {"user", "master password"}
    BY <1>2 DEF LaunchPlaces
<1>3. LaunchTypeOK
    BY <1>1, <1>2, <1>a, <1>b, ResultTypes, Zenon DEF LaunchTypeOK
<1>4. CallsForTheVault /\ PromptsAtTerminal /\ PendingUntilDone
    BY <1>2 DEF AgentCalls, CallsForTheVault, PromptsAtTerminal, PendingUntilDone
<1> QED
    BY <1>2, <1>3, <1>4, ResultTypes DEF LaunchInv

\* A step of the launch that only goes on.
LEMMA GoesOn ==
    ASSUME LaunchInv, NEW next \in LaunchPlaces \ {"done"}, due # "done", Goes(next), UNCHANGED launch,
           next \in AgentCalls => launch.autologin /\ launch.entry,
           next \in {"prompt", "again"} => launch.stdin,
           prompts' \in 0..3, vault' \in {"none", "locked", "unlocked"},
           leased' \in BOOLEAN, UNCHANGED <<stored, changes>>,
           asked' \subseteq {"user", "master password"},
           "master password" \in asked' => launch.stdin
    PROVE  LaunchInv'
    BY DEF LaunchInv, LaunchTypeOK, Goes, CallsForTheVault, PromptsAtTerminal, PendingUntilDone,
       OutcomeSound, AgentCalls

\* A step that ends it.
LEMMA EndsIt ==
    ASSUME LaunchInv, NEW result \in Outcomes, OutcomeSound(result), Ends(result), UNCHANGED launch,
           prompts' \in 0..3, vault' \in {"none", "locked", "unlocked"},
           leased' \in BOOLEAN, UNCHANGED <<stored, changes>>,
           asked' \subseteq {"user", "master password"},
           "master password" \in asked' => launch.stdin
    PROVE  LaunchInv'
    BY DEF LaunchInv, LaunchTypeOK, Ends, CallsForTheVault, PromptsAtTerminal, PendingUntilDone,
       OutcomeSound, AgentCalls, LaunchPlaces

LEMMA FailsIt ==
    ASSUME LaunchInv, NEW error, Fails(error), error = "unlock failed" => launch.stdin,
           UNCHANGED launch, prompts' \in 0..3, vault' \in {"none", "locked", "unlocked"},
           leased' \in BOOLEAN, UNCHANGED <<stored, changes>>,
           asked' \subseteq {"user", "master password"},
           "master password" \in asked' => launch.stdin
    PROVE  LaunchInv'
    BY FailureIsSound, EndsIt DEF LaunchInv, Fails

-----------------------------------------------------------------------------
LEMMA StartKept ==
    ASSUME LaunchInv, Begin \/ Autologin \/ \E empty \in BOOLEAN : AnswerUser(empty)
    PROVE  LaunchInv'
<1> USE DEF Ours, Silent
<1>0. /\ prompts \in 0..3 /\ vault \in {"none", "locked", "unlocked"} /\ leased \in BOOLEAN
      /\ asked \subseteq {"user", "master password"} /\ ("master password" \in asked => launch.stdin)
    BY DEF LaunchInv, LaunchTypeOK, PromptsAtTerminal
<1>1. \A p \in {"user", "autologin"} : p \in LaunchPlaces \ {"done"} /\ p \notin AgentCalls
    BY DEF LaunchPlaces, AgentCalls
<1>2. CASE Begin
    <2>1. Ends(NotStarted) \/ Goes("user") \/ Goes("autologin")
        BY <1>2 DEF Begin
    <2>2. due # "done" /\ UNCHANGED <<launch, vault, stored, leased, changes, prompts, asked>>
        BY <1>2 DEF Begin
    <2> QED
        BY <1>0, <1>1, <2>1, <2>2, ResultTypes, EndsIt, GoesOn
<1>3. CASE Autologin
    <2>1. due # "done" /\ UNCHANGED <<launch, vault, stored, leased, changes, prompts, asked>>
        BY <1>3 DEF Autologin
    <2>2. CASE launch.autologin /\ launch.entry
        <3>1. Goes("query") /\ "query" \in LaunchPlaces \ {"done"}
            BY <1>3, <2>2 DEF Autologin, LaunchPlaces
        <3> QED
            BY <1>0, <2>1, <2>2, <3>1, GoesOn
    <2>3. CASE ~(launch.autologin /\ launch.entry)
        <3>1. Ends(Started(FALSE, FALSE))
            BY <1>3, <2>3 DEF Autologin
        <3>2. OutcomeSound(Started(FALSE, FALSE))
            BY <2>3 DEF OutcomeSound, Started
        <3> QED
            BY <1>0, <2>1, <3>1, <3>2, ResultTypes, EndsIt
    <2> QED
        BY <2>2, <2>3
<1>4. ASSUME NEW empty \in BOOLEAN, AnswerUser(empty) PROVE LaunchInv'
    <2>1. Ends(NotStarted) \/ Goes("autologin")
        BY <1>4 DEF AnswerUser
    <2>2. due # "done" /\ UNCHANGED <<launch, vault, stored, leased, changes, prompts>>
          /\ asked' = asked \cup {"user"}
        BY <1>4 DEF AnswerUser
    <2> QED
        BY <1>0, <1>1, <2>1, <2>2, ResultTypes, EndsIt, GoesOn
<1> QED
    BY <1>2, <1>3, <1>4

\* The calls to the agent.
LEMMA CallsKept ==
    ASSUME LaunchInv, Query \/ CallFails \/ Again \/ AskToken \/ \E fits \in BOOLEAN : AskSecret(fits)
    PROVE  LaunchInv'
<1> USE DEF Ours, Silent
<1>0. /\ prompts \in 0..3 /\ vault \in {"none", "locked", "unlocked"} /\ leased \in BOOLEAN
      /\ stored \in BOOLEAN
      /\ asked \subseteq {"user", "master password"} /\ ("master password" \in asked => launch.stdin)
    BY DEF LaunchInv, LaunchTypeOK, PromptsAtTerminal
<1>1. due \in AgentCalls /\ due # "done" /\ launch.autologin /\ launch.entry
    BY DEF LaunchInv, CallsForTheVault, AgentCalls, Query, CallFails, Again, AskToken, AskSecret
<1>2. \A p \in {"prompt", "token", "secret"} : p \in LaunchPlaces \ {"done"}
    BY DEF LaunchPlaces
<1>3. UNCHANGED <<launch, vault, stored, changes, asked>>
    BY DEF Query, CallFails, Again, AskToken, AskSecret
<1>4. CASE Query
    <2>0. leased' = leased /\ (prompts' = prompts \/ prompts' = 1)
        BY <1>4 DEF Query
    <2>a. 1 \in 0..3
        OBVIOUS
    <2>1. leased' \in BOOLEAN /\ prompts' \in 0..3
        BY <1>0, <2>0, <2>a, Zenon
    <2>2. \/ Fails("not initialized") \/ Fails("not found") \/ Fails("no terminal")
          \/ Goes("token") \/ (Goes("prompt") /\ launch.stdin)
        BY <1>0, <1>4 DEF Query
    <2> QED
        BY <1>0, <1>1, <1>2, <1>3, <2>1, <2>2, FailsIt, GoesOn
<1>5. CASE CallFails
    <2>1. UNCHANGED <<leased, prompts>>
        BY <1>5 DEF CallFails
    <2>2. Fails("query") \/ (Fails("unlock failed") /\ launch.stdin)
        BY <1>5 DEF CallFails, LaunchInv, PromptsAtTerminal
    <2> QED
        BY <1>0, <1>1, <1>3, <2>1, <2>2, FailsIt
<1>6. CASE Again
    <2>1. UNCHANGED <<leased, prompts>> /\ launch.stdin
        BY <1>6 DEF Again, LaunchInv, PromptsAtTerminal
    <2>2. Fails("unlock failed") \/ Fails("not found") \/ Goes("token")
        BY <1>6 DEF Again
    <2> QED
        BY <1>0, <1>1, <1>2, <1>3, <2>1, <2>2, FailsIt, GoesOn
<1>7. ASSUME Ends(Started(TRUE, FALSE)), UNCHANGED prompts, leased' \in BOOLEAN PROVE LaunchInv'
    <2>1. OutcomeSound(Started(TRUE, FALSE))
        BY <1>1 DEF OutcomeSound, Started
    <2> QED
        BY <1>0, <1>3, <1>7, <2>1, ResultTypes, EndsIt
<1>8. CASE AskToken
    <2>1. leased' \in BOOLEAN /\ UNCHANGED prompts
        BY <1>0, <1>8 DEF AskToken
    <2>2. Fails("token") \/ Goes("secret") \/ Ends(Started(TRUE, FALSE))
        BY <1>8 DEF AskToken
    <2> QED
        BY <1>0, <1>1, <1>2, <1>3, <1>7, <2>1, <2>2, FailsIt, GoesOn
<1>9. ASSUME NEW fits \in BOOLEAN, AskSecret(fits) PROVE LaunchInv'
    <2>1. UNCHANGED <<leased, prompts>>
        BY <1>9 DEF AskSecret
    <2>2. Fails("secret") \/ Ends(Started(TRUE, FALSE))
        BY <1>9 DEF AskSecret
    <2> QED
        BY <1>0, <1>3, <1>7, <2>1, <2>2, FailsIt
<1> QED
    BY <1>4, <1>5, <1>6, <1>8, <1>9

\* The prompts for the master password.
LEMMA PromptsKept ==
    ASSUME LaunchInv, AnswerPassword \/ WrongMaster \/ GivesUp
    PROVE  LaunchInv'
<1> USE DEF Ours
<1>0. /\ prompts \in 0..3 /\ vault \in {"none", "locked", "unlocked"} /\ leased \in BOOLEAN
      /\ asked \subseteq {"user", "master password"}
    BY DEF LaunchInv, LaunchTypeOK
<1>1. due # "done" /\ launch.stdin /\ launch.autologin /\ launch.entry
    BY DEF LaunchInv, CallsForTheVault, PromptsAtTerminal, AgentCalls, AnswerPassword, WrongMaster, GivesUp
<1>2. "prompt" \in LaunchPlaces \ {"done"} /\ "again" \in LaunchPlaces \ {"done"}
    BY DEF LaunchPlaces
<1>3. UNCHANGED <<launch, stored, leased, changes>> /\ asked' = asked \cup {"master password"}
    BY DEF AnswerPassword, WrongMaster, GivesUp
<1>4. prompts' \in 0..3 /\ vault' \in {"none", "locked", "unlocked"}
    <2>1. CASE AnswerPassword
        BY <1>0, <2>1 DEF AnswerPassword
    <2>2. CASE WrongMaster
        <3>1. vault' = vault /\ (prompts' = prompts \/ (prompts # 3 /\ prompts' = prompts + 1))
            BY <2>2 DEF WrongMaster
        <3>2. prompts \in 0..3
            BY <1>0
        <3>3. prompts' \in 0..3
            BY <3>1, <3>2
        <3> QED
            BY <1>0, <3>1, <3>3, Zenon
    <2>3. CASE GivesUp
        BY <1>0, <2>3 DEF GivesUp
    <2> QED
        BY <2>1, <2>2, <2>3
<1>5. Fails("unlock failed") \/ Goes("again") \/ Goes("prompt")
    BY DEF AnswerPassword, WrongMaster, GivesUp
<1> QED
    BY <1>0, <1>1, <1>2, <1>3, <1>4, <1>5, FailsIt, GoesOn

LEMMA VaultChangesKept == ASSUME LaunchInv, SessionChanges \/ EntryChanges PROVE LaunchInv'
<1>a. Change
    BY DEF SessionChanges, EntryChanges
<1>b. changes' \in 0..MaxChanges
    <2>1. changes \in 0..MaxChanges /\ changes < MaxChanges /\ changes' = changes + 1
        BY <1>a DEF Change, LaunchInv, LaunchTypeOK
    <2> QED
        BY <2>1, ChangesAssumption
<1>1. UNCHANGED <<launch, due, prompts, asked, outcome>>
    BY <1>a DEF Change
<1>2. vault' \in {"none", "locked", "unlocked"} /\ stored' \in BOOLEAN /\ leased' \in BOOLEAN
    BY DEF SessionChanges, EntryChanges, LaunchInv, LaunchTypeOK
<1> QED
    BY <1>b, <1>1, <1>2 DEF LaunchInv, LaunchTypeOK, CallsForTheVault, PromptsAtTerminal, PendingUntilDone,
       OutcomeSound

LEMMA LaunchInvNext == LaunchInv /\ [LaunchNext]_launchVars => LaunchInv'
<1> SUFFICES ASSUME LaunchInv, [LaunchNext]_launchVars PROVE LaunchInv'
    OBVIOUS
<1>1. CASE LaunchNext
    BY <1>1, StartKept, CallsKept, PromptsKept, VaultChangesKept DEF LaunchNext
<1>2. CASE UNCHANGED launchVars
    BY <1>2 DEF launchVars, LaunchInv, LaunchTypeOK, CallsForTheVault, PromptsAtTerminal,
       PendingUntilDone, OutcomeSound
<1> QED
    BY <1>1, <1>2

LEMMA LaunchInvariant == LaunchSpec => []LaunchInv
    BY LaunchInvInit, LaunchInvNext, PTL DEF LaunchSpec

-----------------------------------------------------------------------------
\* Types of a launch: no more than three prompts, and no more changes than the bound.
THEOREM LaunchTypeCorrect == LaunchSpec => []LaunchTypeOK
<1>1. LaunchInv => LaunchTypeOK
    BY DEF LaunchInv
<1> QED
    BY <1>1, LaunchInvariant, PTL

\* A launch that was to use the vault's password (ssh_builder.rs, rdp_builder.rs) starts with it,
\* or says at a terminal that it will ask for another, or fails, whatever others do to the vault.
THEOREM FallbackIsTold == LaunchSpec => []NoSilentFallback
<1>1. ASSUME LaunchInv PROVE NoSilentFallback
    <2>0. prompts \in 0..3
        BY <1>1, Zenon DEF LaunchInv, LaunchTypeOK
    <2>1. prompts <= 3
        BY <2>0
    <2>2. OutcomeSound(outcome) /\ ("master password" \in asked => launch.stdin)
        BY <1>1 DEF LaunchInv, PromptsAtTerminal
    <2> QED
        BY <2>1, <2>2 DEF OutcomeSound, NoSilentFallback
<1> QED
    BY <1>1, LaunchInvariant, PTL

-----------------------------------------------------------------------------
(* Lists: filtering a list *)

Taking(f, s, keep, n) ==
    f = [k \in 0..n |->
            IF k = 0 THEN <<>>
            ELSE IF s[k] \in keep THEN Append(f[k - 1], s[k]) ELSE f[k - 1]]

\* Filtering a list is a function of how far one has come.
LEMMA TakingExists ==
    ASSUME NEW s, NEW keep, NEW n \in Nat
    PROVE  \E f : Taking(f, s, keep, n)
<1> DEFINE S == {m \in Nat : ~ \E f : Taking(f, s, keep, m)}
<1> SUFFICES ASSUME S # {} PROVE FALSE
    OBVIOUS
<1>1. PICK m \in S : \A k \in S : m <= k
    BY LeastNat
<1>2. m # 0
    <2> DEFINE g == [k \in 0..0 |-> <<>>]
    <2>1. Taking(g, s, keep, 0)
        BY DEF Taking
    <2> QED
        BY <2>1
<1>3. m - 1 \in Nat /\ m - 1 \notin S
    BY <1>1, <1>2
<1>4. PICK f : Taking(f, s, keep, m - 1)
    BY <1>3
<1> DEFINE last == IF s[m] \in keep THEN Append(f[m - 1], s[m]) ELSE f[m - 1]
           g == [k \in 0..m |-> IF k = m THEN last ELSE f[k]]
<1>5. Taking(g, s, keep, m)
    <2>1. m \in Nat
        BY <1>1
    <2> HIDE DEF last
    <2>2. \A k \in 0..(m - 1) : g[k] = f[k]
        BY <1>3, <2>1
    <2>3. g[m] = last
        BY <2>1
    <2>4. \A k \in 1..m : k - 1 \in 0..(m - 1) /\ k - 1 \in 0..m
        BY <2>1
    <2>5. last = IF s[m] \in keep THEN Append(g[m - 1], s[m]) ELSE g[m - 1]
        BY <1>3, <2>1, <2>2 DEF last
    <2>6. ASSUME NEW k \in 0..m
          PROVE  g[k] = IF k = 0 THEN <<>>
                        ELSE IF s[k] \in keep THEN Append(g[k - 1], s[k]) ELSE g[k - 1]
        <3>1. CASE k = m
            BY <1>2, <2>3, <2>5, <3>1
        <3>2. CASE k # m
            <4>1. k \in 0..(m - 1)
                BY <2>1, <3>2
            <4>2. f[k] = IF k = 0 THEN <<>>
                         ELSE IF s[k] \in keep THEN Append(f[k - 1], s[k]) ELSE f[k - 1]
                BY <1>4, <4>1 DEF Taking
            <4>3. k # 0 => g[k - 1] = f[k - 1]
                BY <2>1, <2>2, <4>1
            <4>4. g[k] = f[k]
                BY <2>2, <4>1
            <4> HIDE DEF g
            <4> QED
                BY <4>2, <4>3, <4>4
        <3> QED
            BY <3>1, <3>2
    <2>7. g = [k \in 0..m |-> g[k]]
        OBVIOUS
    <2> HIDE DEF g
    <2> QED
        BY <2>6, <2>7 DEF Taking
<1> QED
    BY <1>1, <1>5

LEMMA AppendRange ==
    ASSUME NEW S, NEW t \in Seq(S), NEW e \in S
    PROVE  Append(t, e) \in Seq(S) /\ Range(Append(t, e)) = Range(t) \cup {e}
<1> DEFINE u == Append(t, e)
<1>1. /\ u \in Seq(S) /\ Len(u) = Len(t) + 1 /\ Len(t) \in Nat
      /\ \A i \in 1..Len(t) : u[i] = t[i]
      /\ u[Len(t) + 1] = e
    BY AppendProperties, LenProperties
<1> HIDE DEF u
<1>2. DOMAIN u = 1..(Len(t) + 1) /\ DOMAIN t = 1..Len(t)
    BY <1>1, LenProperties
<1>3. Range(u) = Range(t) \cup {e}
    BY <1>1, <1>2 DEF Range
<1> QED
    BY <1>1, <1>3 DEF u

\* What is kept is a list, of exactly the items that were to be kept.
LEMMA FilteredIs ==
    ASSUME NEW S, NEW s \in Seq(S), NEW keep
    PROVE  Filtered(s, keep) \in Seq(S) /\ Range(Filtered(s, keep)) = Range(s) \cap keep
<1> DEFINE n == Len(s)
<1>1. n \in Nat /\ \A i \in 1..n : s[i] \in S
    BY LenProperties, ElementOfSeq
<1> DEFINE f == CHOOSE g : Taking(g, s, keep, n)
           OK(k) == f[k] \in Seq(S) /\ Range(f[k]) = {s[i] : i \in {j \in 1..k : s[j] \in keep}}
<1>2. Taking(f, s, keep, n)
    <2>1. \E g : Taking(g, s, keep, n)
        BY <1>1, TakingExists
    <2> QED
        BY <2>1, Zenon
<1>3. Filtered(s, keep) = f[n]
    BY Zenon DEF Filtered, Taking
<1> HIDE DEF f
<1>4. /\ f[0] = <<>>
      /\ \A k \in 1..n : f[k] = IF s[k] \in keep THEN Append(f[k - 1], s[k]) ELSE f[k - 1]
    <2>1. ASSUME NEW k \in 0..n
          PROVE  f[k] = IF k = 0 THEN <<>>
                        ELSE IF s[k] \in keep THEN Append(f[k - 1], s[k]) ELSE f[k - 1]
        BY <1>2 DEF Taking
    <2>2. 0 \in 0..n /\ \A k \in 1..n : k \in 0..n /\ k # 0
        BY <1>1
    <2> HIDE DEF n
    <2> QED
        BY <2>1, <2>2
<1>5. OK(0)
    <2>1. <<>> \in Seq(S) /\ Range(<<>>) = {}
        BY EmptySeq DEF Range
    <2>2. {j \in 1..0 : s[j] \in keep} = {}
        OBVIOUS
    <2> QED
        BY <1>4, <2>1, <2>2
<1>6. ASSUME NEW k \in 1..n, OK(k - 1) PROVE OK(k)
    <2>1. k \in Nat /\ s[k] \in S /\ f[k - 1] \in Seq(S)
        BY <1>1, <1>6
    <2> DEFINE kept(m) == {j \in 1..m : s[j] \in keep}
    <2>2. CASE s[k] \in keep
        <3>1. f[k] = Append(f[k - 1], s[k])
            BY <1>4, <2>2
        <3>2. f[k] \in Seq(S) /\ Range(f[k]) = Range(f[k - 1]) \cup {s[k]}
            BY <2>1, <3>1, AppendRange
        <3>3. kept(k) = kept(k - 1) \cup {k}
            BY <2>1, <2>2
        <3> HIDE DEF kept
        <3>4. {s[i] : i \in kept(k)} = {s[i] : i \in kept(k - 1)} \cup {s[k]}
            BY <3>3
        <3> QED
            BY <1>6, <3>2, <3>4 DEF kept
    <2>3. CASE s[k] \notin keep
        <3>1. f[k] = f[k - 1]
            BY <1>4, <2>3
        <3>2. kept(k) = kept(k - 1)
            BY <2>1, <2>3
        <3> QED
            BY <1>6, <3>1, <3>2, Zenon
    <2> QED
        BY <2>2, <2>3
<1>7. \A k \in 0..n : OK(k)
    <2> DEFINE Bad == {k \in 0..n : ~OK(k)}
    <2> SUFFICES ASSUME Bad # {} PROVE FALSE
        BY Zenon
    <2>1. PICK k \in Bad : \A j \in Bad : k <= j
        <3>1. \A k \in Bad : k \in Nat
            BY <1>1
        <3> HIDE DEF Bad
        <3> QED
            BY <3>1, LeastNat
    <2>2. k \in 1..n /\ k - 1 \in 0..n /\ k - 1 \notin Bad
        <3>1. k \in 0..n /\ k # 0
            BY <1>5, <2>1, Zenon
        <3>2. k \in 1..n /\ k - 1 \in 0..n /\ ~(k <= k - 1)
            BY <1>1, <3>1
        <3> QED
            BY <2>1, <3>2, Zenon
    <2>3. OK(k - 1)
        BY <2>2, Zenon
    <2>4. OK(k)
        BY <1>6, <2>2, <2>3, Zenon
    <2> QED
        BY <2>1, <2>4, Zenon
<1>8. OK(n)
    <2>1. n \in 0..n
        BY <1>1
    <2> QED
        BY <1>7, <2>1, Zenon
<1>9. {s[i] : i \in {j \in 1..n : s[j] \in keep}} = Range(s) \cap keep
    <2>1. DOMAIN s = 1..n
        BY LenProperties
    <2> QED
        BY <2>1 DEF Range
<1> QED
    BY <1>3, <1>8, <1>9, Zenon

-----------------------------------------------------------------------------
(* Lists: lists, joined *)

Flattening(f, ss, n) == f = [i \in 1..n |-> IF i = 1 THEN ss[i] ELSE f[i - 1] \o ss[i]]

LEMMA FlatteningExists ==
    ASSUME NEW ss, NEW n \in Nat
    PROVE  \E f : Flattening(f, ss, n)
<1> DEFINE S == {m \in Nat : ~ \E f : Flattening(f, ss, m)}
<1> SUFFICES ASSUME S # {} PROVE FALSE
    OBVIOUS
<1>1. PICK m \in S : \A k \in S : m <= k
    BY LeastNat
<1>2. m # 0
    <2> DEFINE g == [i \in 1..0 |-> ss]
    <2>1. Flattening(g, ss, 0)
        BY DEF Flattening
    <2> QED
        BY <2>1
<1>3. m \in Nat /\ m - 1 \in Nat /\ m - 1 \notin S
    BY <1>1, <1>2
<1>4. PICK f : Flattening(f, ss, m - 1)
    BY <1>3
<1> DEFINE last == IF m = 1 THEN ss[m] ELSE f[m - 1] \o ss[m]
           g == [i \in 1..m |-> IF i = m THEN last ELSE f[i]]
<1>5. Flattening(g, ss, m)
    <2> HIDE DEF last
    <2>1. \A i \in 1..(m - 1) : g[i] = f[i]
        BY <1>3
    <2>2. g[m] = last
        BY <1>2, <1>3
    <2>3. last = IF m = 1 THEN ss[m] ELSE g[m - 1] \o ss[m]
        <3>1. CASE m = 1
            BY <3>1 DEF last
        <3>2. CASE m # 1
            <4>1. m - 1 \in 1..(m - 1)
                BY <1>2, <1>3, <3>2
            <4> QED
                BY <2>1, <3>2, <4>1 DEF last
        <3> QED
            BY <3>1, <3>2
    <2>4. ASSUME NEW i \in 1..m PROVE g[i] = IF i = 1 THEN ss[i] ELSE g[i - 1] \o ss[i]
        <3>1. CASE i = m
            BY <2>2, <2>3, <3>1
        <3>2. CASE i # m
            <4>1. i \in 1..(m - 1)
                BY <1>3, <3>2
            <4>2. f[i] = IF i = 1 THEN ss[i] ELSE f[i - 1] \o ss[i]
                BY <1>4, <4>1 DEF Flattening
            <4>3. i # 1 => i - 1 \in 1..(m - 1)
                BY <1>3, <4>1
            <4>4. g[i] = f[i] /\ (i # 1 => g[i - 1] = f[i - 1])
                BY <2>1, <4>1, <4>3
            <4> HIDE DEF g
            <4> QED
                BY <4>2, <4>4
        <3> QED
            BY <3>1, <3>2
    <2>5. g = [i \in 1..m |-> g[i]]
        OBVIOUS
    <2> HIDE DEF g
    <2> QED
        BY <2>4, <2>5 DEF Flattening
<1> QED
    BY <1>1, <1>5

LEMMA ConcatRange ==
    ASSUME NEW S, NEW s \in Seq(S), NEW t \in Seq(S)
    PROVE  s \o t \in Seq(S) /\ Range(s \o t) = Range(s) \cup Range(t)
<1> DEFINE u == s \o t
<1>1. /\ u \in Seq(S) /\ Len(u) = Len(s) + Len(t) /\ Len(s) \in Nat /\ Len(t) \in Nat
      /\ \A i \in 1..(Len(s) + Len(t)) : u[i] = IF i <= Len(s) THEN s[i] ELSE t[i - Len(s)]
    BY ConcatProperties, LenProperties
<1> HIDE DEF u
<1>2. /\ DOMAIN u = 1..(Len(s) + Len(t)) /\ DOMAIN s = 1..Len(s) /\ DOMAIN t = 1..Len(t)
    BY <1>1, LenProperties
<1>3. \A i \in 1..Len(s) : i \in DOMAIN u /\ u[i] = s[i]
    BY <1>1, <1>2
<1>4. \A i \in 1..Len(t) : i + Len(s) \in DOMAIN u /\ u[i + Len(s)] = t[i]
    <2> TAKE i \in 1..Len(t)
    <2> DEFINE j == i + Len(s)
    <2>1. j \in 1..(Len(s) + Len(t)) /\ ~(j <= Len(s)) /\ j - Len(s) = i
        BY <1>1
    <2> HIDE DEF j
    <2>2. u[j] = t[j - Len(s)]
        BY <1>1, <2>1
    <2>3. u[j] = t[i] /\ j \in DOMAIN u
        BY <1>2, <2>1, <2>2
    <2> QED
        BY <2>3 DEF j
<1>5. \A i \in DOMAIN u : u[i] \in Range(s) \cup Range(t)
    <2> TAKE i \in DOMAIN u
    <2>1. CASE i <= Len(s)
        <3>1. i \in DOMAIN s /\ u[i] = s[i]
            BY <1>1, <1>2, <2>1
        <3> QED
            BY <3>1 DEF Range
    <2>2. CASE ~(i <= Len(s))
        <3>1. i - Len(s) \in DOMAIN t /\ u[i] = t[i - Len(s)]
            BY <1>1, <1>2, <2>2
        <3> QED
            BY <3>1 DEF Range
    <2> QED
        BY <2>1, <2>2
<1>6. Range(u) \subseteq Range(s) \cup Range(t)
    BY <1>5 DEF Range
<1>7. Range(s) \subseteq Range(u)
    BY <1>2, <1>3 DEF Range
<1>8. Range(t) \subseteq Range(u)
    BY <1>2, <1>4 DEF Range
<1>9. Range(u) = Range(s) \cup Range(t)
    BY <1>6, <1>7, <1>8
<1> QED
    BY <1>1, <1>9 DEF u

\* Lists that are joined hold what each of them holds.
LEMMA FlattenIs ==
    ASSUME NEW S, NEW n \in Nat \ {0}, NEW ss \in [1..n -> Seq(S)], Len(ss) = n
    PROVE  /\ FlattenSeq(ss) \in Seq(S)
           /\ Range(FlattenSeq(ss)) = UNION {Range(ss[i]) : i \in 1..n}
<1> DEFINE f == CHOOSE g : Flattening(g, ss, n)
           OK(k) == f[k] \in Seq(S) /\ Range(f[k]) = UNION {Range(ss[i]) : i \in 1..k}
<1>1. Flattening(f, ss, n)
    <2>1. \E g : Flattening(g, ss, n)
        BY FlatteningExists
    <2> QED
        BY <2>1, Zenon
<1>2. FlattenSeq(ss) = f[n]
    BY DEF FlattenSeq, Flattening
<1> HIDE DEF f
<1>3. \A i \in 1..n : f[i] = IF i = 1 THEN ss[i] ELSE f[i - 1] \o ss[i]
    BY <1>1 DEF Flattening
<1>4. \A i \in 1..n : ss[i] \in Seq(S)
    OBVIOUS
<1>5. OK(1)
    <2>1. f[1] = ss[1] /\ 1 \in 1..n
        BY <1>3
    <2>2. UNION {Range(ss[i]) : i \in 1..1} = Range(ss[1])
        OBVIOUS
    <2> QED
        BY <1>4, <2>1, <2>2
<1>6. ASSUME NEW k \in 2..n, OK(k - 1) PROVE OK(k)
    <2>0. k \in 1..n /\ k # 1
        OBVIOUS
    <2>1. f[k] = f[k - 1] \o ss[k] /\ k \in 1..n
        BY <1>3, <2>0, Zenon
    <2>2. f[k] \in Seq(S) /\ Range(f[k]) = Range(f[k - 1]) \cup Range(ss[k])
        BY <1>4, <1>6, <2>1, ConcatRange
    <2>3. 1..k = (1..(k - 1)) \cup {k}
        OBVIOUS
    <2>4. UNION {Range(ss[i]) : i \in 1..k} = (UNION {Range(ss[i]) : i \in 1..(k - 1)}) \cup Range(ss[k])
        <3> DEFINE A == 1..(k - 1)
        <3> HIDE DEF A
        <3>1. UNION {Range(ss[i]) : i \in A \cup {k}} = (UNION {Range(ss[i]) : i \in A}) \cup Range(ss[k])
            BY Zenon
        <3> QED
            BY <2>3, <3>1, Zenon DEF A
    <2> QED
        BY <1>6, <2>2, <2>4
<1>7. \A k \in 1..n : OK(k)
    <2> DEFINE Bad == {k \in 1..n : ~OK(k)}
    <2> SUFFICES ASSUME Bad # {} PROVE FALSE
        BY Zenon
    <2>1. PICK k \in Bad : \A j \in Bad : k <= j
        <3>1. \A k \in Bad : k \in Nat
            OBVIOUS
        <3> HIDE DEF Bad
        <3> QED
            BY <3>1, LeastNat
    <2>2. k \in 2..n /\ k - 1 \in 1..n /\ k - 1 \notin Bad
        <3>1. k \in 1..n /\ k # 1
            BY <1>5, <2>1, Zenon
        <3>2. k \in 2..n /\ k - 1 \in 1..n /\ ~(k <= k - 1)
            BY <3>1
        <3> QED
            BY <2>1, <3>2, Zenon
    <2>3. OK(k - 1)
        BY <2>2, Zenon
    <2>4. OK(k)
        BY <1>6, <2>2, <2>3, Zenon
    <2> QED
        BY <2>1, <2>4, Zenon
<1>8. OK(n)
    <2>1. n \in 1..n
        OBVIOUS
    <2> QED
        BY <1>7, <2>1, Zenon
<1> QED
    BY <1>2, <1>8, Zenon

\* What holds at first and stays holds at the end: the induction on such a list of values.
LEMMA Holds ==
    ASSUME NEW n \in Nat, NEW H \in SUBSET (0..n), 0 \in H,
           \A k \in 1..n : k - 1 \in H => k \in H
    PROVE  H = 0..n
<1> DEFINE S == (0..n) \ H
<1> SUFFICES ASSUME S # {} PROVE FALSE
    OBVIOUS
<1>0. S \in SUBSET Nat
    OBVIOUS
<1>1. PICK m \in S : \A k \in S : m <= k
    BY <1>0, LeastNat
<1>2. m \in 1..n /\ m - 1 \in 0..n /\ m - 1 \notin S
    BY <1>1
<1> QED
    BY <1>1, <1>2

-----------------------------------------------------------------------------
(* Lists: what is kept of lists that are joined *)

Filters(f, s, keep, n) ==
    /\ f[0] = <<>> /\ f[n] = Filtered(s, keep)
    /\ \A k \in 1..n : f[k] = IF s[k] \in keep THEN Append(f[k - 1], s[k]) ELSE f[k - 1]

\* A list is filtered item by item.
LEMMA FilteredBy ==
    ASSUME NEW S, NEW s \in Seq(S), NEW keep
    PROVE  \E f \in [0..Len(s) -> Seq(S)] : Filters(f, s, keep, Len(s))
<1> DEFINE n == Len(s)
<1>1. n \in Nat /\ \A i \in 1..n : s[i] \in S
    BY LenProperties, ElementOfSeq
<1> DEFINE f == CHOOSE g : Taking(g, s, keep, n)
<1>2. Taking(f, s, keep, n)
    <2>1. \E g : Taking(g, s, keep, n)
        BY <1>1, TakingExists
    <2> QED
        BY <2>1, Zenon
<1>3. Filtered(s, keep) = f[n]
    BY Zenon DEF Filtered, Taking
<1> HIDE DEF f
<1>4. /\ f[0] = <<>>
      /\ \A k \in 1..n : f[k] = IF s[k] \in keep THEN Append(f[k - 1], s[k]) ELSE f[k - 1]
    <2>1. ASSUME NEW k \in 0..n
          PROVE  f[k] = IF k = 0 THEN <<>>
                        ELSE IF s[k] \in keep THEN Append(f[k - 1], s[k]) ELSE f[k - 1]
        BY <1>2 DEF Taking
    <2>2. 0 \in 0..n /\ \A k \in 1..n : k \in 0..n /\ k # 0
        BY <1>1
    <2> HIDE DEF n
    <2> QED
        BY <2>1, <2>2
<1>5. DOMAIN f = 0..n /\ f = [k \in 0..n |-> f[k]]
    BY <1>2, Zenon DEF Taking
<1> HIDE DEF n
<1> DEFINE H == {k \in 0..n : f[k] \in Seq(S)}
<1>6. 0 \in H
    <2>1. <<>> \in Seq(S)
        BY EmptySeq
    <2>2. 0 \in 0..n
        BY <1>1
    <2> QED
        BY <1>4, <2>1, <2>2
<1>7. \A k \in 1..n : k - 1 \in H => k \in H
    <2> TAKE k \in 1..n
    <2> HAVE k - 1 \in H
    <2>1. f[k - 1] \in Seq(S) /\ s[k] \in S
        BY <1>1
    <2>2. Append(f[k - 1], s[k]) \in Seq(S)
        BY <2>1, AppendProperties
    <2>3. f[k] = Append(f[k - 1], s[k]) \/ f[k] = f[k - 1]
        BY <1>4
    <2>4. k \in 0..n
        BY <1>1
    <2> QED
        BY <2>1, <2>2, <2>3, <2>4
<1>8. H = 0..n
    <2>1. H \in SUBSET (0..n)
        OBVIOUS
    <2> HIDE DEF H
    <2> QED
        BY <1>1, <1>6, <1>7, <2>1, Holds
<1>9. f \in [0..n -> Seq(S)]
    BY <1>5, <1>8
<1> QED
    BY <1>3, <1>4, <1>9 DEF n, Filters

\* u is s and then t.
Joins(u, s, t) == u = s \o t

LEMMA JoinsAppend ==
    ASSUME NEW S, NEW s \in Seq(S), NEW t \in Seq(S), NEW e \in S, NEW u, Joins(u, s, t)
    PROVE  Joins(Append(u, e), s, Append(t, e))
<1>1. Append(s \o t, e) = s \o Append(t, e)
    OBVIOUS
<1> QED
    BY <1>1 DEF Joins

\* What is kept of two lists that are joined is joined of what is kept of each.
LEMMA FilteredConcat ==
    ASSUME NEW S, NEW s \in Seq(S), NEW t \in Seq(S), NEW keep
    PROVE  Filtered(s \o t, keep) = Filtered(s, keep) \o Filtered(t, keep)
<1> DEFINE u == s \o t
           n == Len(s)
           m == Len(t)
<1>1. /\ n \in Nat /\ m \in Nat /\ u \in Seq(S) /\ Len(u) = n + m
      /\ \A i \in 1..n : u[i] = s[i]
      /\ \A i \in 1..m : u[n + i] = t[i]
    <2>1. /\ n \in Nat /\ m \in Nat /\ u \in Seq(S) /\ Len(u) = n + m
          /\ \A i \in 1..(n + m) : u[i] = IF i <= n THEN s[i] ELSE t[i - n]
        BY ConcatProperties, LenProperties
    <2> HIDE DEF u, n, m
    <2>2. \A i \in 1..n : u[i] = s[i]
        BY <2>1
    <2>3. ASSUME NEW i \in 1..m PROVE u[n + i] = t[i]
        <3>1. n + i \in 1..(n + m) /\ ~(n + i <= n) /\ n + i - n = i
            BY <2>1
        <3> QED
            BY <2>1, <3>1
    <2> QED
        BY <2>1, <2>2, <2>3
<1>2. \A i \in 1..m : t[i] \in S
    BY ElementOfSeq
<1>3. PICK fs \in [0..n -> Seq(S)] : Filters(fs, s, keep, n)
    BY FilteredBy, Zenon
<1>4. PICK ft \in [0..m -> Seq(S)] : Filters(ft, t, keep, m)
    BY FilteredBy, Zenon
<1>5. PICK fu \in [0..(n + m) -> Seq(S)] : Filters(fu, u, keep, n + m)
    <2>1. \E f \in [0..Len(u) -> Seq(S)] : Filters(f, u, keep, Len(u))
        BY <1>1, FilteredBy, Zenon
    <2> QED
        BY <1>1, <2>1, Zenon
<1> HIDE DEF u, n, m
<1> DEFINE A == {k \in 0..n : fu[k] = fs[k]}
<1>6. A = 0..n
    <2>1. 0 \in A
        BY <1>1, <1>3, <1>5 DEF Filters
    <2>2. \A k \in 1..n : k - 1 \in A => k \in A
        <3> TAKE k \in 1..n
        <3> HAVE k - 1 \in A
        <3>1. k \in 1..(n + m) /\ u[k] = s[k] /\ fu[k - 1] = fs[k - 1]
            BY <1>1
        <3>2. fu[k] = IF u[k] \in keep THEN Append(fu[k - 1], u[k]) ELSE fu[k - 1]
            BY <1>5, <3>1 DEF Filters
        <3>3. fs[k] = IF s[k] \in keep THEN Append(fs[k - 1], s[k]) ELSE fs[k - 1]
            BY <1>3 DEF Filters
        <3> QED
            BY <3>1, <3>2, <3>3
    <2>3. A \in SUBSET (0..n)
        OBVIOUS
    <2> HIDE DEF A
    <2> QED
        BY <1>1, <2>1, <2>2, <2>3, Holds
<1> DEFINE B == {k \in 0..m : Joins(fu[n + k], fs[n], ft[k])}
<1>7. B = 0..m
    <2>1. 0 \in B
        <3>1. fu[n] = fs[n]
            <4>1. n \in A
                <5> HIDE DEF A
                <5> QED
                    BY <1>1, <1>6
            <4> QED
                BY <4>1
        <3>2. fs[n] \o <<>> = fs[n]
            BY <1>1, <1>3, ConcatEmptySeq
        <3> QED
            <4>1. ft[0] = <<>> /\ n + 0 = n /\ 0 \in 0..m
                BY <1>1, <1>4 DEF Filters
            <4> DEFINE e == <<>>
            <4> HIDE DEF e
            <4>2. ft[0] = e /\ fs[n] \o e = fs[n]
                BY <3>2, <4>1 DEF e
            <4> QED
                BY <3>1, <4>1, <4>2 DEF Joins
    <2>2. \A k \in 1..m : k - 1 \in B => k \in B
        <3> TAKE k \in 1..m
        <3> HAVE k - 1 \in B
        <3>1. n + k \in 1..(n + m) /\ u[n + k] = t[k] /\ n + k - 1 = n + (k - 1)
            BY <1>1
        <3>2. fu[n + k] = IF u[n + k] \in keep THEN Append(fu[n + (k - 1)], u[n + k])
                          ELSE fu[n + (k - 1)]
            <4> DEFINE j == n + k
            <4>1. j \in 1..(n + m) /\ j - 1 = n + (k - 1)
                BY <1>1, <3>1
            <4> HIDE DEF j
            <4>2. fu[j] = IF u[j] \in keep THEN Append(fu[j - 1], u[j]) ELSE fu[j - 1]
                BY <1>5, <4>1, Zenon DEF Filters
            <4>3. fu[j] = IF u[j] \in keep THEN Append(fu[n + (k - 1)], u[j]) ELSE fu[n + (k - 1)]
                BY <4>1, <4>2, Zenon
            <4> QED
                BY <4>3, Zenon DEF j
        <3>3. ft[k] = IF t[k] \in keep THEN Append(ft[k - 1], t[k]) ELSE ft[k - 1]
            BY <1>4 DEF Filters
        <3>4. Joins(fu[n + (k - 1)], fs[n], ft[k - 1])
            OBVIOUS
        <3>5. Joins(Append(fu[n + (k - 1)], t[k]), fs[n], Append(ft[k - 1], t[k]))
            <4>1. fs[n] \in Seq(S) /\ ft[k - 1] \in Seq(S) /\ t[k] \in S
                BY <1>1, <1>2, <1>3, <1>4
            <4> QED
                BY <3>4, <4>1, JoinsAppend, Zenon
        <3>6. Joins(fu[n + k], fs[n], ft[k])
            BY <3>1, <3>2, <3>3, <3>4, <3>5, Zenon
        <3>7. k \in 0..m
            BY <1>1
        <3> QED
            BY <3>6, <3>7
    <2>3. B \in SUBSET (0..m)
        OBVIOUS
    <2> HIDE DEF B
    <2> QED
        BY <1>1, <2>1, <2>2, <2>3, Holds
<1>8. fu[n + m] = fs[n] \o ft[m]
    <2>1. m \in B
        <3> HIDE DEF B
        <3> QED
            BY <1>1, <1>7
    <2> QED
        BY <2>1 DEF Joins
<1> QED
    BY <1>3, <1>4, <1>5, <1>8 DEF u, Filters

LEMMA FilteredJoin ==
    ASSUME NEW S, NEW s \in Seq(S), NEW t \in Seq(S), NEW keep, NEW u, Joins(u, s, t)
    PROVE  Joins(Filtered(u, keep), Filtered(s, keep), Filtered(t, keep))
    BY FilteredConcat DEF Joins

\* Nothing is kept where nothing is to be kept, and all where all is.
LEMMA FilteredNone ==
    ASSUME NEW S, NEW s \in Seq(S), NEW keep
    PROVE  Filtered(s, keep) = <<>> <=> \A i \in DOMAIN s : s[i] \notin keep
<1> DEFINE F == Filtered(s, keep)
<1>1. F \in Seq(S) /\ Range(F) = Range(s) \cap keep
    BY FilteredIs
<1> HIDE DEF F
<1>2. F = <<>> <=> Range(F) = {}
    <2>1. DOMAIN F = 1..Len(F) /\ Len(F) \in Nat /\ (F = <<>> <=> Len(F) = 0)
        BY <1>1, EmptySeq, LenProperties
    <2>2. F # <<>> => F[1] \in Range(F)
        <3>1. F # <<>> => 1 \in DOMAIN F
            BY <2>1
        <3> QED
            BY <3>1 DEF Range
    <2>3. F = <<>> => Range(F) = {}
        BY <2>1 DEF Range
    <2> QED
        BY <2>2, <2>3
<1>3. (Range(s) \cap keep = {}) <=> \A i \in DOMAIN s : s[i] \notin keep
    BY Zenon DEF Range
<1> QED
    BY <1>1, <1>2, <1>3 DEF F

LEMMA FilteredAll ==
    ASSUME NEW S, NEW s \in Seq(S), NEW keep, \A i \in DOMAIN s : s[i] \in keep
    PROVE  Filtered(s, keep) = s
<1> DEFINE n == Len(s)
<1>1. n \in Nat /\ DOMAIN s = 1..n /\ \A i \in 1..n : s[i] \in S /\ s[i] \in keep
    BY LenProperties, ElementOfSeq
<1>2. PICK f \in [0..n -> Seq(S)] : Filters(f, s, keep, n)
    BY FilteredBy, Zenon
<1> HIDE DEF n
<1> DEFINE H == {k \in 0..n : Len(f[k]) = k /\ \A i \in 1..k : f[k][i] = s[i]}
<1>3. 0 \in H
    BY <1>1, <1>2 DEF Filters
<1>4. \A k \in 1..n : k - 1 \in H => k \in H
    <2> TAKE k \in 1..n
    <2> HAVE k - 1 \in H
    <2> DEFINE t == f[k - 1]
    <2>1. /\ t \in Seq(S) /\ s[k] \in S /\ s[k] \in keep /\ Len(t) = k - 1
          /\ \A i \in 1..(k - 1) : t[i] = s[i]
        BY <1>1
    <2>2. f[k] = Append(t, s[k])
        BY <1>2, <2>1 DEF Filters
    <2> HIDE DEF t
    <2>3. /\ Len(Append(t, s[k])) = k
          /\ \A i \in 1..(k - 1) : Append(t, s[k])[i] = t[i]
          /\ Append(t, s[k])[k] = s[k]
        BY <2>1, AppendProperties
    <2>4. \A i \in 1..k : f[k][i] = s[i]
        BY <2>1, <2>2, <2>3
    <2>5. k \in 0..n /\ Len(f[k]) = k
        BY <2>2, <2>3
    <2> QED
        BY <2>4, <2>5
<1>5. H = 0..n
    <2>1. H \in SUBSET (0..n)
        OBVIOUS
    <2> HIDE DEF H
    <2> QED
        BY <1>1, <1>3, <1>4, <2>1, Holds
<1>6. f[n] \in Seq(S) /\ Len(f[n]) = n /\ \A i \in 1..n : f[n][i] = s[i]
    <2>1. n \in H
        <3> HIDE DEF H
        <3> QED
            BY <1>1, <1>5
    <2> QED
        BY <1>1, <2>1
<1>7. f[n] = s
    BY <1>6, SeqEqual DEF n
<1> QED
    BY <1>2, <1>7 DEF Filters

-----------------------------------------------------------------------------
\* Only the list at j has something that is kept, if there is one.
OnlyFrom(ss, n, keep, j, X) == \A i \in 1..n : Filtered(ss[i], keep) = IF i = j THEN X ELSE <<>>
KeptOf(ss, n, keep, j, X) == Filtered(FlattenSeq(ss), keep) = IF j \in 1..n THEN X ELSE <<>>

\* Of lists that are joined, all of one and nothing of the others.
LEMMA FlattenFilter ==
    ASSUME NEW S, NEW n \in Nat \ {0}, NEW ss \in [1..n -> Seq(S)], Len(ss) = n, NEW keep,
           NEW X \in Seq(S), NEW j \in Nat,
           OnlyFrom(ss, n, keep, j, X)
    PROVE  KeptOf(ss, n, keep, j, X)
<1> USE DEF OnlyFrom
<1> DEFINE f == CHOOSE g : Flattening(g, ss, n)
           OK(k) == f[k] \in Seq(S) /\ Filtered(f[k], keep) = IF j \in 1..k THEN X ELSE <<>>
<1>1. Flattening(f, ss, n)
    <2>1. \E g : Flattening(g, ss, n)
        BY FlatteningExists
    <2> QED
        BY <2>1, Zenon
<1>2. FlattenSeq(ss) = f[n]
    BY DEF FlattenSeq, Flattening
<1> HIDE DEF f
<1>3. \A i \in 1..n : f[i] = IF i = 1 THEN ss[i] ELSE f[i - 1] \o ss[i]
    BY <1>1 DEF Flattening
<1>4. \A i \in 1..n : ss[i] \in Seq(S)
    OBVIOUS
<1>5. OK(1)
    <2>1. f[1] = ss[1] /\ 1 \in 1..n
        BY <1>3
    <2>2. (1 = j) <=> (j \in 1..1)
        OBVIOUS
    <2>3. Filtered(ss[1], keep) = IF 1 = j THEN X ELSE <<>>
        BY <2>1
    <2> QED
        BY <1>4, <2>1, <2>2, <2>3, Zenon
<1>6. ASSUME NEW k \in 2..n, OK(k - 1) PROVE OK(k)
    <2>0. k \in 1..n /\ k # 1
        OBVIOUS
    <2>1. f[k] = f[k - 1] \o ss[k]
        BY <1>3, <2>0, Zenon
    <2>2. f[k - 1] \in Seq(S) /\ ss[k] \in Seq(S)
        BY <1>4, <1>6, <2>0, Zenon
    <2>3. f[k] \in Seq(S)
        BY <2>1, <2>2, ConcatProperties
    <2>4. Filtered(f[k], keep) = Filtered(f[k - 1], keep) \o Filtered(ss[k], keep)
        <3>1. Joins(f[k], f[k - 1], ss[k])
            BY <2>1, Zenon DEF Joins
        <3>2. Joins(Filtered(f[k], keep), Filtered(f[k - 1], keep), Filtered(ss[k], keep))
            BY <2>2, <3>1, FilteredJoin, Zenon
        <3> QED
            BY <3>2, Zenon DEF Joins
    <2> DEFINE a == Filtered(f[k - 1], keep)
               b == Filtered(ss[k], keep)
               e == <<>>
    <2>5. a = (IF j \in 1..(k - 1) THEN X ELSE e) /\ b = (IF k = j THEN X ELSE e)
        BY <1>6, <2>0, Zenon
    <2>6. e \o e = e /\ X \o e = X /\ e \o X = X
        BY ConcatEmptySeq, EmptySeq
    <2> HIDE DEF a, b, e
    <2>7. a \o b = IF j \in 1..k THEN X ELSE e
        <3>1. CASE j \in 1..(k - 1)
            <4>1. a = X /\ b = e /\ j \in 1..k
                BY <2>5, <3>1
            <4> QED
                BY <2>6, <4>1
        <3>2. CASE j = k
            <4>1. a = e /\ b = X /\ j \in 1..k
                BY <2>5, <3>2
            <4> QED
                BY <2>6, <4>1
        <3>3. CASE j \notin 1..(k - 1) /\ j # k
            <4>1. a = e /\ b = e /\ j \notin 1..k
                BY <2>5, <3>3
            <4> QED
                BY <2>6, <4>1
        <3> QED
            BY <3>1, <3>2, <3>3
    <2> QED
        BY <2>3, <2>4, <2>7, Zenon DEF a, b, e
<1>7. \A k \in 1..n : OK(k)
    <2> DEFINE H == {0} \cup {k \in 1..n : OK(k)}
    <2>1. H \in SUBSET (0..n) /\ 0 \in H
        OBVIOUS
    <2>2. \A k \in 1..n : k - 1 \in H => k \in H
        <3> TAKE k \in 1..n
        <3> HAVE k - 1 \in H
        <3>1. CASE k = 1
            BY <1>5, <3>1, Zenon
        <3>2. CASE k # 1
            <4>1. k \in 2..n /\ k - 1 # 0
                BY <3>2
            <4>2. OK(k - 1)
                BY <4>1, Zenon
            <4> QED
                BY <1>6, <4>1, <4>2, Zenon
        <3> QED
            BY <3>1, <3>2
    <2> HIDE DEF OK
    <2>3. H = 0..n
        <3> HIDE DEF H
        <3> QED
            BY <2>1, <2>2, Holds
    <2>4. \A k \in 1..n : k \in 0..n /\ k # 0
        OBVIOUS
    <2> QED
        BY <2>3, <2>4, Zenon
<1>8. OK(n)
    <2>1. n \in 1..n
        OBVIOUS
    <2> QED
        BY <1>7, <2>1, Zenon
<1> QED
    BY <1>2, <1>8, Zenon DEF KeptOf

\* A finite set can be listed, each of its elements once.
LEMMA ListOfSet ==
    ASSUME NEW S, IsFiniteSet(S)
    PROVE  /\ SetToSeq(S) \in Seq(S)
           /\ Range(SetToSeq(S)) = S
           /\ \A i, j \in DOMAIN SetToSeq(S) : SetToSeq(S)[i] = SetToSeq(S)[j] => i = j
<1> DEFINE n == Cardinality(S)
           f == SetToSeq(S)
<1>1. n \in Nat /\ ExistsBijection(1..n, S)
    BY FS_CardinalityType
<1>2. \E g \in [1..n -> S] : IsInjective(g)
    BY <1>1 DEF ExistsBijection, Bijection, Injection, IsInjective
<1>3. f \in [1..n -> S] /\ IsInjective(f)
    BY <1>2, Zenon DEF SetToSeq
<1> HIDE DEF f
<1>4. f \in Injection(1..n, S)
    BY <1>3 DEF Injection, IsInjective
<1>5. Cardinality(1..n) = n /\ IsFiniteSet(1..n)
    BY <1>1, FS_Interval
<1>6. f \in Surjection(1..n, S)
    BY <1>4, <1>5, FS_Injection
<1>7. Range(f) = S
    BY <1>3, <1>6 DEF Surjection, Range
<1>8. f \in Seq(S)
    BY <1>1, <1>3, SeqDef
<1>9. \A i, j \in DOMAIN f : f[i] = f[j] => i = j
    BY <1>3 DEF IsInjective
<1> QED
    BY <1>7, <1>8, <1>9 DEF f

\* The texts that a command line and the inventory are made of: STRING, for which the provers
\* do not have it that it holds a text that is written out.
Words ==
    STRING \cup {SwitchKeys[l] : l \in DOMAIN SwitchKeys} \cup {ValueKeys[l] : l \in DOMAIN ValueKeys}
    \cup {MainKeys[k] : k \in DOMAIN MainKeys} \cup {"", "user"}

\* What the tables of letters and of options say.
LEMMA SwitchesSay == \A l \in DOMAIN SwitchKeys : SwitchKeys[l] \in Words \ {""} /\ l \notin Separate
<1>1. DOMAIN SwitchKeys =
          {"A", "a", "C", "f", "g", "M", "N", "s", "n", "q", "v", "T", "t", "X", "x", "Y"}
    BY DEF SwitchKeys
<1>2. /\ SwitchKeys["A"] = "forwardagent" /\ SwitchKeys["a"] = "forwardagent"
      /\ SwitchKeys["C"] = "compression" /\ SwitchKeys["f"] = "forkafterauthentication"
      /\ SwitchKeys["g"] = "gatewayports" /\ SwitchKeys["M"] = "controlmaster"
      /\ SwitchKeys["N"] = "sessiontype" /\ SwitchKeys["s"] = "sessiontype"
      /\ SwitchKeys["n"] = "stdinnull" /\ SwitchKeys["q"] = "loglevel"
      /\ SwitchKeys["v"] = "loglevel" /\ SwitchKeys["T"] = "requesttty"
      /\ SwitchKeys["t"] = "requesttty" /\ SwitchKeys["X"] = "forwardx11"
      /\ SwitchKeys["x"] = "forwardx11" /\ SwitchKeys["Y"] = "forwardx11trusted"
    BY DEF SwitchKeys
<1>3. ASSUME NEW l \in DOMAIN SwitchKeys PROVE SwitchKeys[l] \in Words \ {""}
    <2>1. SwitchKeys[l] \in
              {"forwardagent", "compression", "forkafterauthentication", "gatewayports",
               "controlmaster", "sessiontype", "stdinnull", "loglevel", "requesttty",
               "forwardx11", "forwardx11trusted"}
        BY <1>1, <1>2
    <2>2. SwitchKeys[l] # ""
        BY <2>1
    <2> QED
        BY <2>2 DEF Words
<1>4. DOMAIN SwitchKeys \cap Separate = {}
    BY <1>1 DEF Separate
<1> QED
    BY <1>3, <1>4

LEMMA ValuesSay == \A l \in DOMAIN ValueKeys : ValueKeys[l] \in Words \ {""} /\ l \in Separate
<1>1. DOMAIN ValueKeys =
          {"l", "p", "P", "i", "J", "b", "B", "c", "D", "I", "L", "m", "R", "S", "w"}
    BY DEF ValueKeys
<1>2. /\ ValueKeys["l"] = "user" /\ ValueKeys["p"] = "port" /\ ValueKeys["P"] = "tag"
      /\ ValueKeys["i"] = "identityfile" /\ ValueKeys["J"] = "proxyjump"
      /\ ValueKeys["b"] = "bindaddress" /\ ValueKeys["B"] = "bindinterface"
      /\ ValueKeys["c"] = "ciphers" /\ ValueKeys["D"] = "dynamicforward"
      /\ ValueKeys["I"] = "pkcs11provider" /\ ValueKeys["L"] = "localforward"
      /\ ValueKeys["m"] = "macs" /\ ValueKeys["R"] = "remoteforward"
      /\ ValueKeys["S"] = "controlpath" /\ ValueKeys["w"] = "tunnel"
    BY DEF ValueKeys
<1>3. ASSUME NEW l \in DOMAIN ValueKeys PROVE ValueKeys[l] \in Words \ {""}
    <2>1. ValueKeys[l] \in
              {"user", "port", "tag", "identityfile", "proxyjump", "bindaddress",
               "bindinterface", "ciphers", "dynamicforward", "pkcs11provider", "localforward",
               "macs", "remoteforward", "controlpath", "tunnel"}
        BY <1>1, <1>2
    <2>2. ValueKeys[l] # ""
        BY <2>1
    <2> QED
        BY <2>2 DEF Words
<1>4. DOMAIN ValueKeys \subseteq Separate
    BY <1>1 DEF Separate
<1> QED
    BY <1>3, <1>4

LEMMA OwnFlags ==
    \A key \in DOMAIN OwnFlag :
        OwnFlag[key] \in DOMAIN ValueKeys /\ OwnFlag[key] # "o" /\ ValueKeys[OwnFlag[key]] = key
<1>1. DOMAIN OwnFlag = {"user", "port", "identityfile", "localforward", "remoteforward"}
    BY DEF OwnFlag
<1>2. /\ OwnFlag["user"] = "l" /\ OwnFlag["port"] = "p" /\ OwnFlag["identityfile"] = "i"
      /\ OwnFlag["localforward"] = "L" /\ OwnFlag["remoteforward"] = "R"
    BY DEF OwnFlag
<1>3. /\ ValueKeys["l"] = "user" /\ ValueKeys["p"] = "port" /\ ValueKeys["i"] = "identityfile"
      /\ ValueKeys["L"] = "localforward" /\ ValueKeys["R"] = "remoteforward"
      /\ {"l", "p", "i", "L", "R"} \subseteq DOMAIN ValueKeys
    BY DEF ValueKeys
<1> QED
    BY <1>1, <1>2, <1>3

LEMMA LetterVIsSwitch == "v" \notin Separate /\ "v" # "o" /\ "v" \notin DOMAIN ValueKeys
    BY DEF Separate, ValueKeys

LEMMA LetterOIsApart == "o" \in Separate /\ "o" \notin DOMAIN ValueKeys /\ "" \notin Separate
    BY DEF Separate, ValueKeys

LEMMA MainKeysDiffer ==
    /\ MainKeys \in Seq(Words) /\ Len(MainKeys) = 9
    /\ \A i, j \in DOMAIN MainKeys : MainKeys[i] = MainKeys[j] => i = j
<1>1. /\ MainKeys[1] = "user" /\ MainKeys[2] = "port" /\ MainKeys[3] = "identityfile"
      /\ MainKeys[4] = "proxyjump" /\ MainKeys[5] = "proxycommand" /\ MainKeys[6] = "forwardagent"
      /\ MainKeys[7] = "identitiesonly" /\ MainKeys[8] = "localforward"
      /\ MainKeys[9] = "remoteforward"
    BY DEF MainKeys
<1>2. Len(MainKeys) = 9 /\ DOMAIN MainKeys = 1..9
    BY DEF MainKeys
<1>3. \A k \in 1..9 : MainKeys[k] \in Words
    BY <1>2 DEF Words
<1>4. MainKeys \in Seq(Words)
    <2>1. {"user", "port", "identityfile", "proxyjump", "proxycommand",
           "forwardagent", "identitiesonly", "localforward", "remoteforward"} \subseteq Words
        BY <1>1, <1>3
    <2> QED
        BY <2>1 DEF MainKeys
<1>5. \A i, j \in 1..9 : MainKeys[i] = MainKeys[j] => i = j
    BY <1>1
<1> QED
    BY <1>2, <1>4, <1>5

-----------------------------------------------------------------------------
(* SshArgs: what one token says *)

\* An option that is read, with its value; a token; the options among those that are read.
KeyValue == Words \X STRING
TokenType == [flags : Seq(STRING), text : STRING, key : STRING, equals : BOOLEAN, user : STRING]
KeysIn(got) == {p[1] : p \in Range(got)}

LEMMA KeysOfJoin ==
    ASSUME NEW s \in Seq(KeyValue), NEW t \in Seq(KeyValue)
    PROVE  s \o t \in Seq(KeyValue) /\ KeysIn(s \o t) = KeysIn(s) \cup KeysIn(t)
<1>1. s \o t \in Seq(KeyValue) /\ Range(s \o t) = Range(s) \cup Range(t)
    BY ConcatRange
<1> QED
    BY <1>1, Zenon DEF KeysIn

LEMMA KeysOfAppend ==
    ASSUME NEW s \in Seq(KeyValue), NEW k \in Words, NEW v \in STRING
    PROVE  Append(s, <<k, v>>) \in Seq(KeyValue) /\ KeysIn(Append(s, <<k, v>>)) = KeysIn(s) \cup {k}
<1> DEFINE e == <<k, v>>
<1>1. e \in KeyValue /\ e[1] = k
    BY DEF KeyValue
<1> HIDE DEF e
<1>2. Append(s, e) \in Seq(KeyValue) /\ Range(Append(s, e)) = Range(s) \cup {e}
    BY <1>1, AppendRange
<1>3. KeysIn(Append(s, e)) = KeysIn(s) \cup {e[1]}
    BY <1>2, Zenon DEF KeysIn
<1> QED
    BY <1>1, <1>2, <1>3 DEF e

\* The switches before a letter, the letter, and the first that takes a value.
Before(a, k) == Filtered(SubSeq(a.flags, 1, k - 1), DOMAIN SwitchKeys)
AsPairs(letters) == [s \in DOMAIN letters |-> <<SwitchKeys[letters[s]], letters[s]>>]
LetterAt(a, k) == IF k > Len(a.flags) THEN "" ELSE a.flags[k]
LettersTo(a, k) ==
    [switches |-> AsPairs(Before(a, k)), letter |-> LetterAt(a, k),
     here |-> k < Len(a.flags) \/ a.text # ""]
FirstValued(a) ==
    LET valued == {k \in DOMAIN a.flags : a.flags[k] \in Separate}
    IN  IF valued = {} THEN Len(a.flags) + 1
        ELSE CHOOSE v \in valued : \A w \in valued : v <= w

\* A flag's letters, up to one of them: those before it, and it.
LEMMA LettersUpTo == ASSUME NEW a PROVE Letters(a) = LettersTo(a, FirstValued(a))
    BY DEF Letters, LettersTo, LetterAt, AsPairs, Before, FirstValued

LEMMA LettersAre ==
    ASSUME NEW a, NEW k, k = FirstValued(a)
    PROVE  /\ Letters(a).switches = AsPairs(Before(a, k)) /\ Letters(a).letter = LetterAt(a, k)
           /\ Letters(a).here = (k < Len(a.flags) \/ a.text # "")
    BY LettersUpTo DEF LettersTo

\* The switches among some letters, as options.
LEMMA SwitchPairs ==
    ASSUME NEW fl \in Seq(STRING), NEW sw, sw = AsPairs(Filtered(fl, DOMAIN SwitchKeys))
    PROVE  /\ sw \in Seq(KeyValue)
           /\ KeysIn(sw) = {SwitchKeys[l] : l \in Range(fl) \cap DOMAIN SwitchKeys}
           /\ fl = <<>> => sw = <<>>
<1> DEFINE all == Filtered(fl, DOMAIN SwitchKeys)
<1>1. all \in Seq(STRING) /\ Range(all) = Range(fl) \cap DOMAIN SwitchKeys
    BY FilteredIs
<1>0. sw = [s \in DOMAIN all |-> <<SwitchKeys[all[s]], all[s]>>]
    BY DEF AsPairs
<1> HIDE DEF all
<1>2. \A s \in DOMAIN all : /\ sw[s] = <<SwitchKeys[all[s]], all[s]>> /\ sw[s] \in KeyValue
                            /\ sw[s][1] = SwitchKeys[all[s]]
    <2> TAKE s \in DOMAIN all
    <2>1. all[s] \in DOMAIN SwitchKeys
        BY <1>1 DEF Range
    <2>2. all[s] \in STRING
        BY <1>1, LenProperties
    <2>3. SwitchKeys[all[s]] \in Words
        BY <2>1, SwitchesSay
    <2>4. sw[s] = <<SwitchKeys[all[s]], all[s]>>
        BY <1>0
    <2> DEFINE x == SwitchKeys[all[s]]
               y == all[s]
    <2> HIDE DEF x, y
    <2>5. x \in Words /\ y \in STRING
        BY <2>2, <2>3 DEF x, y
    <2>6. <<x, y>> \in KeyValue /\ <<x, y>>[1] = x
        BY <2>5 DEF KeyValue
    <2>7. sw[s] = <<x, y>>
        BY <2>4 DEF x, y
    <2> QED
        BY <2>4, <2>6, <2>7, Zenon DEF x
<1>3. DOMAIN all = 1..Len(all) /\ Len(all) \in Nat /\ DOMAIN sw = DOMAIN all
    BY <1>0, <1>1, LenProperties
<1>4. sw \in [1..Len(all) -> KeyValue]
    BY <1>0, <1>2, <1>3
<1>5. sw \in Seq(KeyValue)
    BY <1>3, <1>4, SeqDef
<1>6. KeysIn(sw) = {SwitchKeys[l] : l \in Range(all)}
    <2>1. \A p \in Range(sw) : \E l \in Range(all) : p[1] = SwitchKeys[l]
        BY <1>2, <1>3 DEF Range
    <2>2. \A l \in Range(all) : \E p \in Range(sw) : p[1] = SwitchKeys[l]
        BY <1>2, <1>3 DEF Range
    <2> QED
        BY <2>1, <2>2 DEF KeysIn
<1>7. fl = <<>> => sw = <<>>
    <2> HAVE fl = <<>>
    <2>1. Range(all) = {}
        BY <1>1 DEF Range
    <2>2. DOMAIN sw = {}
        <3>1. \A i \in DOMAIN all : all[i] \in Range(all)
            BY DEF Range
        <3> QED
            BY <1>3, <2>1, <3>1
    <2>3. DOMAIN sw = 1..Len(sw) /\ Len(sw) \in Nat /\ (sw # <<>> => Len(sw) \in Nat \ {0})
        BY <1>5, LenProperties, EmptySeq
    <2> QED
        BY <2>2, <2>3
<1> QED
    BY <1>1, <1>5, <1>6, <1>7

\* A letter that takes a value stands alone.
LEMMA ValuedLetters ==
    ASSUME NEW S, NEW a, a.flags \in Seq(S), Recognised(a),
           NEW k \in DOMAIN a.flags, a.flags[k] \in Separate
    PROVE  /\ a.flags = <<a.flags[1]>> /\ Len(a.flags) = 1 /\ a.flags[1] \in Separate
           /\ Letters(a).switches = <<>> /\ Letters(a).letter = a.flags[1]
           /\ Letters(a).here = (a.text # "")
           /\ a.text # "" => a.flags[1] \in DOMAIN ValueKeys \cup {"o"}
<1> DEFINE fl == a.flags
<1>1. fl \in Seq(S) /\ DOMAIN fl = 1..Len(fl) /\ Len(fl) = 1
    BY LenProperties DEF Recognised
<1>2. k = 1 /\ fl[1] \in Separate
    BY <1>1
<1>3. fl = <<fl[1]>>
    BY <1>1
<1>4. FirstValued(a) = 1
    <2> DEFINE valued == {w \in DOMAIN fl : fl[w] \in Separate}
    <2>1. valued = {1}
        BY <1>1, <1>2
    <2>2. FirstValued(a) = CHOOSE v \in valued : \A w \in valued : v <= w
        BY <2>1 DEF FirstValued
    <2> HIDE DEF valued
    <2> QED
        BY <2>1, <2>2
<1>5. AsPairs(Before(a, 1)) = <<>>
    <2> DEFINE none == SubSeq(fl, 1, 1 - 1)
    <2>1. none = <<>> /\ none \in Seq(STRING)
        BY SubSeqEmpty, EmptySeq
    <2>2. Before(a, 1) = Filtered(none, DOMAIN SwitchKeys)
        BY DEF Before
    <2> HIDE DEF none
    <2>3. AsPairs(Filtered(none, DOMAIN SwitchKeys)) = <<>>
        BY <2>1, SwitchPairs, Zenon
    <2> QED
        BY <2>2, <2>3, Zenon
<1>7. /\ Letters(a).switches = AsPairs(Before(a, 1)) /\ Letters(a).letter = LetterAt(a, 1)
      /\ Letters(a).here = (1 < Len(fl) \/ a.text # "")
    BY <1>4, LettersAre, Zenon
<1>8. LetterAt(a, 1) = fl[1] /\ (1 < Len(fl)) = FALSE
    BY <1>1 DEF LetterAt
<1>9. a.text # "" => fl[1] \in DOMAIN ValueKeys \cup {"o"}
    BY <1>2 DEF Recognised
<1> QED
    BY <1>1, <1>2, <1>3, <1>5, <1>7, <1>8, <1>9

\* The others are switches, each of which is an option or none.
LEMMA SwitchLetters ==
    ASSUME NEW a \in TokenType, \A k \in DOMAIN a.flags : a.flags[k] \notin Separate
    PROVE  /\ Letters(a).letter = ""
           /\ Letters(a).switches \in Seq(KeyValue)
           /\ KeysIn(Letters(a).switches) = Switches(a)
<1> DEFINE fl == a.flags
           sw == AsPairs(Filtered(fl, DOMAIN SwitchKeys))
<1>1. fl \in Seq(STRING) /\ Len(fl) \in Nat
    BY LenProperties DEF TokenType
<1>2. FirstValued(a) = Len(fl) + 1
    BY DEF FirstValued
<1> DEFINE k == Len(fl) + 1
<1>3. k > Len(fl) /\ k - 1 = Len(fl)
    BY <1>1
<1>4. SubSeq(fl, 1, Len(fl)) = fl
    BY <1>1, SubSeqFull
<1> HIDE DEF k
<1>5. Letters(a).switches = AsPairs(Before(a, k)) /\ Letters(a).letter = LetterAt(a, k)
    BY <1>2, LettersAre, Zenon DEF k
<1>6. LetterAt(a, k) = "" /\ AsPairs(Before(a, k)) = sw
    <2>1. SubSeq(fl, 1, k - 1) = fl
        BY <1>3, <1>4
    <2> QED
        BY <1>3, <2>1, Zenon DEF LetterAt, Before
<1>7. sw \in Seq(KeyValue) /\ KeysIn(sw) = {SwitchKeys[l] : l \in Range(fl) \cap DOMAIN SwitchKeys}
    <2> HIDE DEF fl
    <2> QED
        BY <1>1, SwitchPairs
<1> QED
    BY <1>5, <1>6, <1>7 DEF Switches

-----------------------------------------------------------------------------
(* SshArgs: a line is read, and inspected, token by token *)

\* What ssh knows, and what cossh knows, of the arguments so far.
State(wants, got, host, late, command) ==
    [wants |-> wants, got |-> got, host |-> host, late |-> late, command |-> command]
NoneRead == [wants |-> "", got |-> <<>>, host |-> 0, late |-> FALSE, command |-> 0]
NoneSeen == [skip |-> FALSE, at |-> 0, keys |-> {}]

\* The two walks, as functions of how far they have come.
ReadAlong(f, args, n) ==
    f = [i \in 0..n |-> IF i = 0 THEN NoneRead ELSE Reads(f[i - 1], i, args[i])]
InspectedAlong(f, args, n) ==
    f = [i \in 0..n |-> IF i = 0 THEN NoneSeen ELSE Inspects(args, i, f[i - 1])]

LEMMA ReadAlongExists ==
    ASSUME NEW args, NEW n \in Nat
    PROVE  \E f : ReadAlong(f, args, n)
<1> DEFINE S == {m \in Nat : ~ \E f : ReadAlong(f, args, m)}
<1> SUFFICES ASSUME S # {} PROVE FALSE
    OBVIOUS
<1>1. PICK m \in S : \A k \in S : m <= k
    BY LeastNat
<1>2. m # 0
    <2> DEFINE g == [k \in 0..0 |-> NoneRead]
    <2>1. ReadAlong(g, args, 0)
        BY DEF ReadAlong
    <2> QED
        BY <2>1
<1>3. m \in Nat /\ m - 1 \in Nat /\ m - 1 \notin S
    BY <1>1, <1>2
<1>4. PICK f : ReadAlong(f, args, m - 1)
    BY <1>3
<1> DEFINE last == Reads(f[m - 1], m, args[m])
           g == [k \in 0..m |-> IF k = m THEN last ELSE f[k]]
<1>5. ReadAlong(g, args, m)
    <2> HIDE DEF last
    <2>1. \A k \in 0..(m - 1) : g[k] = f[k]
        BY <1>3
    <2>2. g[m] = last
        BY <1>3
    <2>3. last = Reads(g[m - 1], m, args[m])
        <3>1. m - 1 \in 0..(m - 1)
            BY <1>3
        <3>2. g[m - 1] = f[m - 1]
            BY <2>1, <3>1
        <3> QED
            BY <3>2 DEF last
    <2>4. ASSUME NEW k \in 0..m PROVE g[k] = IF k = 0 THEN NoneRead ELSE Reads(g[k - 1], k, args[k])
        <3>1. CASE k = m
            BY <1>2, <2>2, <2>3, <3>1
        <3>2. CASE k # m
            <4>1. k \in 0..(m - 1)
                BY <1>3, <3>2
            <4>2. f[k] = IF k = 0 THEN NoneRead ELSE Reads(f[k - 1], k, args[k])
                BY <1>4, <4>1 DEF ReadAlong
            <4>3. k # 0 => g[k - 1] = f[k - 1]
                BY <1>3, <2>1, <4>1
            <4>4. g[k] = f[k]
                BY <2>1, <4>1
            <4> HIDE DEF g
            <4> QED
                BY <4>2, <4>3, <4>4
        <3> QED
            BY <3>1, <3>2
    <2>5. g = [k \in 0..m |-> g[k]]
        OBVIOUS
    <2> HIDE DEF g
    <2> QED
        BY <2>4, <2>5 DEF ReadAlong
<1> QED
    BY <1>1, <1>5

\* Each walk goes token by token.
LEMMA ReadingBySteps ==
    ASSUME NEW args, Len(args) \in Nat
    PROVE  \E f : /\ f[0] = NoneRead /\ f[Len(args)] = Reading(args)
                 /\ \A k \in 1..Len(args) : f[k] = Reads(f[k - 1], k, args[k])
<1> DEFINE n == Len(args)
           f == CHOOSE g : ReadAlong(g, args, n)
<1>1. ReadAlong(f, args, n)
    <2>1. \E g : ReadAlong(g, args, n)
        BY ReadAlongExists
    <2> QED
        BY <2>1, Zenon
<1>2. Reading(args) = f[n]
    BY Zenon DEF Reading, ReadAlong, NoneRead
<1> HIDE DEF f
<1>3. \A k \in 0..n : f[k] = IF k = 0 THEN NoneRead ELSE Reads(f[k - 1], k, args[k])
    BY <1>1 DEF ReadAlong
<1>4. 0 \in 0..n /\ \A k \in 1..n : k \in 0..n /\ k # 0
    OBVIOUS
<1> HIDE DEF n
<1>5. f[0] = NoneRead /\ \A k \in 1..n : f[k] = Reads(f[k - 1], k, args[k])
    BY <1>3, <1>4
<1> QED
    BY <1>2, <1>5 DEF n

LEMMA InspectedAlongExists ==
    ASSUME NEW args, NEW n \in Nat
    PROVE  \E f : InspectedAlong(f, args, n)
<1> DEFINE S == {m \in Nat : ~ \E f : InspectedAlong(f, args, m)}
<1> SUFFICES ASSUME S # {} PROVE FALSE
    OBVIOUS
<1>1. PICK m \in S : \A k \in S : m <= k
    BY LeastNat
<1>2. m # 0
    <2> DEFINE g == [k \in 0..0 |-> NoneSeen]
    <2>1. InspectedAlong(g, args, 0)
        BY DEF InspectedAlong
    <2> QED
        BY <2>1
<1>3. m \in Nat /\ m - 1 \in Nat /\ m - 1 \notin S
    BY <1>1, <1>2
<1>4. PICK f : InspectedAlong(f, args, m - 1)
    BY <1>3
<1> DEFINE last == Inspects(args, m, f[m - 1])
           g == [k \in 0..m |-> IF k = m THEN last ELSE f[k]]
<1>5. InspectedAlong(g, args, m)
    <2> HIDE DEF last
    <2>1. \A k \in 0..(m - 1) : g[k] = f[k]
        BY <1>3
    <2>2. g[m] = last
        BY <1>3
    <2>3. last = Inspects(args, m, g[m - 1])
        <3>1. m - 1 \in 0..(m - 1)
            BY <1>3
        <3>2. g[m - 1] = f[m - 1]
            BY <2>1, <3>1
        <3> QED
            BY <3>2 DEF last
    <2>4. ASSUME NEW k \in 0..m PROVE g[k] = IF k = 0 THEN NoneSeen ELSE Inspects(args, k, g[k - 1])
        <3>1. CASE k = m
            BY <1>2, <2>2, <2>3, <3>1
        <3>2. CASE k # m
            <4>1. k \in 0..(m - 1)
                BY <1>3, <3>2
            <4>2. f[k] = IF k = 0 THEN NoneSeen ELSE Inspects(args, k, f[k - 1])
                BY <1>4, <4>1 DEF InspectedAlong
            <4>3. k # 0 => g[k - 1] = f[k - 1]
                BY <1>3, <2>1, <4>1
            <4>4. g[k] = f[k]
                BY <2>1, <4>1
            <4> HIDE DEF g
            <4> QED
                BY <4>2, <4>3, <4>4
        <3> QED
            BY <3>1, <3>2
    <2>5. g = [k \in 0..m |-> g[k]]
        OBVIOUS
    <2> HIDE DEF g
    <2> QED
        BY <2>4, <2>5 DEF InspectedAlong
<1> QED
    BY <1>1, <1>5

LEMMA InspectionBySteps ==
    ASSUME NEW args, Len(args) \in Nat
    PROVE  \E f : /\ f[0] = NoneSeen /\ f[Len(args)] = Inspection(args)
                 /\ \A k \in 1..Len(args) : f[k] = Inspects(args, k, f[k - 1])
<1> DEFINE n == Len(args)
           f == CHOOSE g : InspectedAlong(g, args, n)
<1>1. InspectedAlong(f, args, n)
    <2>1. \E g : InspectedAlong(g, args, n)
        BY InspectedAlongExists
    <2> QED
        BY <2>1, Zenon
<1>2. Inspection(args) = f[n]
    BY Zenon DEF Inspection, InspectedAlong, NoneSeen
<1> HIDE DEF f
<1>3. \A k \in 0..n : f[k] = IF k = 0 THEN NoneSeen ELSE Inspects(args, k, f[k - 1])
    BY <1>1 DEF InspectedAlong
<1>4. 0 \in 0..n /\ \A k \in 1..n : k \in 0..n /\ k # 0
    OBVIOUS
<1> HIDE DEF n
<1>5. f[0] = NoneSeen /\ \A k \in 1..n : f[k] = Inspects(args, k, f[k - 1])
    BY <1>3, <1>4
<1> QED
    BY <1>2, <1>5 DEF n

-----------------------------------------------------------------------------
(* SshArgs: what ssh reads in one token *)

\* What a token adds: a destination its user, a flag its switches and the value with it.
WithUser(got, a) == IF a.user = "" THEN got ELSE Append(got, <<"user", a.user>>)
Attached(a) ==
    IF Letters(a).letter # "" /\ Letters(a).here THEN << <<OptionOf(Letters(a).letter, a), a.text>> >>
    ELSE <<>>

\* A token takes what is read from one state to the next; the letter that waits for the next.
ReadsAs(r, i, a, next) == Reads(r, i, a) = next
LateThen(late, host) == late \/ host # 0
StillWants(a) == IF Letters(a).here THEN "" ELSE Letters(a).letter
FlagGot(got, a) == got \o Letters(a).switches \o Attached(a)

LEMMA FlagGotIs ==
    ASSUME NEW g \in Seq(KeyValue), NEW a,
           Letters(a).switches \in Seq(KeyValue), Attached(a) \in Seq(KeyValue)
    PROVE  /\ FlagGot(g, a) \in Seq(KeyValue)
           /\ KeysIn(FlagGot(g, a)) = KeysIn(g) \cup KeysIn(Letters(a).switches) \cup KeysIn(Attached(a))
           /\ Letters(a).switches = <<>> /\ Attached(a) = <<>> => FlagGot(g, a) = g
<1> DEFINE both == g \o Letters(a).switches
<1>1. both \in Seq(KeyValue) /\ KeysIn(both) = KeysIn(g) \cup KeysIn(Letters(a).switches)
    BY KeysOfJoin
<1> HIDE DEF both
<1>2. /\ both \o Attached(a) \in Seq(KeyValue)
      /\ KeysIn(both \o Attached(a)) = KeysIn(both) \cup KeysIn(Attached(a))
    BY <1>1, KeysOfJoin
<1>3. g \o <<>> = g
    BY ConcatEmptySeq
<1> QED
    BY <1>1, <1>2, <1>3, Zenon DEF FlagGot, both

\* A value is read, whatever it looks like.
LEMMA ReadsValue ==
    ASSUME NEW w, w # "", NEW g, NEW h, NEW l, NEW i, NEW a
    PROVE  ReadsAs(State(w, g, h, l, 0), i, a, State("", Append(g, <<OptionOf(w, a), a.text>>), h, l, 0))
<1> DEFINE r == State(w, g, h, l, 0)
           pair == <<OptionOf(w, a), a.text>>
<1>1. r.command = 0 /\ r.wants = w
    BY DEF State
<1>2. Reads(r, i, a) = [r EXCEPT !.wants = "", !.got = Append(@, pair)]
    <2>1. Reads(r, i, a) = [r EXCEPT !.wants = "", !.got = Append(@, <<OptionOf(r.wants, a), a.text>>)]
        <3> HIDE DEF r
        <3> QED
            BY <1>1 DEF Reads
    <2> QED
        BY <1>1, <2>1
<1> HIDE DEF pair
<1>3. [r EXCEPT !.wants = "", !.got = Append(@, pair)] = State("", Append(g, pair), h, l, 0)
    <2> DEFINE s == [r EXCEPT !.wants = "", !.got = Append(@, pair)]
    <2>1. r = [wants |-> w, got |-> g, host |-> h, late |-> l, command |-> 0]
        BY DEF State
    <2>2. s = [r EXCEPT !.wants = "", !.got = Append(@, pair)]
        OBVIOUS
    <2> HIDE DEF r, s
    <2>3. s = State("", Append(g, pair), h, l, 0)
        BY <2>1, <2>2 DEF State
    <2> QED
        BY <2>3 DEF s
<1> QED
    BY <1>2, <1>3 DEF pair, ReadsAs

\* A flag is read, which may leave a letter without its value.
LEMMA ReadsFlag ==
    ASSUME NEW g, NEW h, NEW l \in BOOLEAN, NEW i, NEW a, IsFlag(a)
    PROVE  ReadsAs(State("", g, h, l, 0), i, a,
                   State(StillWants(a), FlagGot(g, a), h, LateThen(l, h), 0))
<1> DEFINE r == State("", g, h, l, 0)
           p == Letters(a)
           value == Attached(a)
           w == IF p.here THEN "" ELSE p.letter
<1>1. r.command = 0 /\ r.wants = "" /\ r.host = h /\ r.late = l
    BY DEF State
<1>2. Reads(r, i, a) = [r EXCEPT !.got = @ \o p.switches \o value, !.wants = w, !.late = @ \/ r.host # 0]
    <2> HIDE DEF r
    <2> QED
        BY <1>1 DEF Reads, Attached
<1>5. g \o p.switches \o value = FlagGot(g, a)
    BY DEF FlagGot
<1> HIDE DEF value, w, p
<1>3. Reads(r, i, a) = [r EXCEPT !.got = @ \o p.switches \o value, !.wants = w, !.late = @ \/ h # 0]
    <2> HIDE DEF r
    <2> QED
        BY <1>1, <1>2
<1>4. [r EXCEPT !.got = @ \o p.switches \o value, !.wants = w, !.late = @ \/ h # 0]
      = State(w, g \o p.switches \o value, h, (l \/ h # 0), 0)
    <2> DEFINE s == [r EXCEPT !.got = @ \o p.switches \o value, !.wants = w, !.late = @ \/ h # 0]
    <2>1. r = [wants |-> "", got |-> g, host |-> h, late |-> l, command |-> 0]
        BY DEF State
    <2>2. s = [r EXCEPT !.got = @ \o p.switches \o value, !.wants = w, !.late = @ \/ h # 0]
        OBVIOUS
    <2> HIDE DEF r, s
    <2>3. s = State(w, g \o p.switches \o value, h, (l \/ h # 0), 0)
        BY <2>1, <2>2 DEF State
    <2> QED
        BY <2>3 DEF s
<1> QED
    BY <1>3, <1>4, <1>5, Zenon DEF w, p, LateThen, StillWants, ReadsAs

\* The first word is the destination.
LEMMA ReadsHost ==
    ASSUME NEW g, NEW l, NEW i, NEW a, ~IsFlag(a)
    PROVE  ReadsAs(State("", g, 0, l, 0), i, a, State("", WithUser(g, a), i, l, 0))
<1> DEFINE r == State("", g, 0, l, 0)
<1>1. r.command = 0 /\ r.wants = "" /\ r.host = 0 /\ r.got = g
    BY DEF State
<1>2. Reads(r, i, a) = [r EXCEPT !.host = i, !.got = WithUser(g, a)]
    <2> HIDE DEF r
    <2> QED
        BY <1>1 DEF Reads, WithUser
<1>3. [r EXCEPT !.host = i, !.got = WithUser(g, a)] = State("", WithUser(g, a), i, l, 0)
    <2> DEFINE s == [r EXCEPT !.host = i, !.got = WithUser(g, a)]
    <2>1. r = [wants |-> "", got |-> g, host |-> 0, late |-> l, command |-> 0]
        BY DEF State
    <2>2. s = [r EXCEPT !.host = i, !.got = WithUser(g, a)]
        OBVIOUS
    <2> HIDE DEF r, s
    <2>3. s = State("", WithUser(g, a), i, l, 0)
        BY <2>1, <2>2 DEF State
    <2> QED
        BY <2>3 DEF s
<1> QED
    BY <1>2, <1>3 DEF ReadsAs

\* The second is the command.
LEMMA ReadsCommand ==
    ASSUME NEW g, NEW h, h # 0, NEW l, NEW i, NEW a, ~IsFlag(a)
    PROVE  ReadsAs(State("", g, h, l, 0), i, a, State("", g, h, l, i))
<1> DEFINE r == State("", g, h, l, 0)
<1>1. r.command = 0 /\ r.wants = "" /\ r.host = h
    BY DEF State
<1>2. Reads(r, i, a) = [r EXCEPT !.command = i]
    <2> HIDE DEF r
    <2> QED
        BY <1>1 DEF Reads
<1>3. [r EXCEPT !.command = i] = State("", g, h, l, i)
    <2> DEFINE s == [r EXCEPT !.command = i]
    <2>1. r = [wants |-> "", got |-> g, host |-> h, late |-> l, command |-> 0]
        BY DEF State
    <2>2. s = [r EXCEPT !.command = i]
        OBVIOUS
    <2> HIDE DEF r, s
    <2>3. s = State("", g, h, l, i)
        BY <2>1, <2>2 DEF State
    <2> QED
        BY <2>3 DEF s
<1> QED
    BY <1>2, <1>3 DEF ReadsAs

\* After it nothing more is read.
LEMMA ReadsNoMore ==
    ASSUME NEW r, r.command # 0, NEW i, NEW a
    PROVE  ReadsAs(r, i, a, r)
    BY DEF Reads, ReadsAs

-----------------------------------------------------------------------------
(* SshArgs: what is read in a flag is what is recorded of it *)

LEMMA KeyOfTypes == ASSUME NEW w, NEW a \in TokenType PROVE OptionOf(w, a) \in Words
<1>1. a.key \in Words /\ "" \in Words
    BY DEF TokenType, Words
<1>2. w \in DOMAIN ValueKeys => ValueKeys[w] \in Words
    BY ValuesSay
<1> QED
    BY <1>1, <1>2 DEF OptionOf

LEMMA NoKeys == KeysIn(<<>>) = {}
    BY DEF KeysIn, Range

\* What cossh knows of the options that ssh has read: no others, and all that add up.
Known(keys, read) == keys \subseteq read \ {""} /\ read \cap Cumulative \subseteq keys

LEMMA KnownJoins ==
    ASSUME NEW k1, NEW r1, Known(k1, r1), NEW k2, NEW r2, Known(k2, r2)
    PROVE  Known(k1 \cup k2, r1 \cup r2)
    BY DEF Known

LEMMA AllKnown == ASSUME NEW read PROVE Known(read \ {""}, read)
<1>1. "" \notin Cumulative
    BY DEF Cumulative
<1> QED
    BY <1>1 DEF Known

\* What cossh notes of a flag is known of what ssh reads in it, with the value that follows it.
FlagSays(args, k, g, w, g2) ==
    /\ g2 \in Seq(KeyValue)
    /\ TakesNext(args[k]) =>
         /\ w \in Separate /\ g2 = g
         /\ k < Len(args) /\ Recognised(args[k + 1]) =>
              Known(Recorded(args, k), {OptionOf(w, args[k + 1])})
    /\ ~TakesNext(args[k]) =>
         w = "" /\ \E new : KeysIn(g2) = KeysIn(g) \cup new /\ Known(Recorded(args, k), new)

\* The option that an -o names, or none where its key stands before a blank and it does not add up.
LEMMA NotedIs ==
    ASSUME NEW a, Recognised(a)
    PROVE  Known(Noted(a), {a.key})
<1>1. CASE a.equals
    <2>1. Noted(a) = {a.key} \ {""}
        BY <1>1 DEF Noted
    <2> QED
        BY <2>1, AllKnown
<1>2. CASE ~a.equals
    <2>1. Noted(a) = {} /\ a.key \notin Cumulative
        BY <1>2 DEF Noted, Recognised
    <2> QED
        BY <2>1 DEF Known
<1> QED
    BY <1>1, <1>2

\* What is recorded of a letter that takes a value.
LEMMA RecordedOfValued ==
    ASSUME NEW args, NEW k, NEW a, a = args[k], a \in TokenType, NEW c, c = a.flags[1], c \in Separate,
           a.flags = <<c>>, Recognised(a)
    PROVE  /\ TakesNext(a) <=> a.text = ""
           /\ TakesNext(a) /\ k < Len(args) /\ Recognised(args[k + 1]) =>
                Known(Recorded(args, k), {OptionOf(c, args[k + 1])})
           /\ ~TakesNext(a) /\ c \in DOMAIN ValueKeys \cup {"o"} => Known(Recorded(args, k), {OptionOf(c, a)})
<1>1. TakesNext(a) <=> a.text = ""
    <2>1. Len(a.flags) = 1
        OBVIOUS
    <2> QED
        BY <2>1 DEF TakesNext, Alone
<1>2. CASE c = "o"
    <2>1. Recorded(args, k) = IF TakesNext(a)
                              THEN IF k < Len(args) THEN Noted(args[k + 1]) ELSE {}
                              ELSE Noted(a)
        <3>1. CASE TakesNext(a)
            BY <1>2, <3>1, LetterOIsApart DEF Recorded
        <3>2. CASE ~TakesNext(a)
            BY <1>2, <3>2, LetterOIsApart DEF Recorded
        <3> QED
            BY <3>1, <3>2
    <2>2. \A b : OptionOf(c, b) = b.key
        BY <1>2 DEF OptionOf
    <2>3. TakesNext(a) /\ k < Len(args) /\ Recognised(args[k + 1]) =>
            Known(Recorded(args, k), {OptionOf(c, args[k + 1])})
        <3> SUFFICES ASSUME TakesNext(a), k < Len(args), Recognised(args[k + 1])
                     PROVE  Known(Recorded(args, k), {OptionOf(c, args[k + 1])})
            OBVIOUS
        <3>1. Recorded(args, k) = Noted(args[k + 1])
            BY <2>1, Zenon
        <3>2. Known(Noted(args[k + 1]), {args[k + 1].key})
            BY NotedIs, Zenon
        <3> QED
            BY <2>2, <3>1, <3>2, Zenon
    <2>4. ~TakesNext(a) => Known(Recorded(args, k), {OptionOf(c, a)})
        <3>1. Known(Noted(a), {a.key})
            BY NotedIs, Zenon
        <3> QED
            BY <2>1, <2>2, <3>1, Zenon
    <2> QED
        BY <1>1, <2>3, <2>4
<1>3. CASE c # "o" /\ c \in DOMAIN ValueKeys
    <2>1. Recorded(args, k) = {ValueKeys[c]}
        <3>1. c # "v"
            BY LetterVIsSwitch
        <3> QED
            BY <1>3, <3>1, Zenon DEF Recorded
    <2>2. ValueKeys[c] # "" /\ \A b : OptionOf(c, b) = ValueKeys[c]
        BY <1>3, ValuesSay DEF OptionOf
    <2>3. {ValueKeys[c]} \ {""} = {ValueKeys[c]}
        BY <2>2
    <2>4. Known({ValueKeys[c]}, {ValueKeys[c]})
        BY <2>3, AllKnown
    <2> QED
        BY <1>1, <2>1, <2>2, <2>4, Zenon
<1>4. CASE c # "o" /\ c \notin DOMAIN ValueKeys
    <2>1. Recorded(args, k) = Switches(a)
        <3>1. c # "v"
            BY LetterVIsSwitch
        <3> QED
            BY <1>4, <3>1, Zenon DEF Recorded
    <2>2. Switches(a) = {}
        <3>1. Range(a.flags) = {c}
            <4>1. DOMAIN <<c>> = {1} /\ <<c>>[1] = c
                OBVIOUS
            <4> QED
                BY <4>1 DEF Range
        <3>2. c \notin DOMAIN SwitchKeys
            BY SwitchesSay
        <3> QED
            BY <3>1, <3>2 DEF Switches
    <2>3. \A b : OptionOf(c, b) = ""
        BY <1>4 DEF OptionOf
    <2>4. Known({}, {""})
        <3>1. {""} \ {""} = {}
            OBVIOUS
        <3> QED
            BY <3>1, AllKnown, Zenon
    <2> QED
        BY <1>1, <1>4, <2>1, <2>2, <2>3, <2>4, Zenon
<1> QED
    BY <1>2, <1>3, <1>4

\* So it is, for every form that is recognised.
LEMMA FlagRead ==
    ASSUME NEW args, NEW k, args[k] \in TokenType, Recognised(args[k]), IsFlag(args[k]),
           NEW g \in Seq(KeyValue), NEW h, NEW l \in BOOLEAN
    PROVE  \E w, g2 : /\ ReadsAs(State("", g, h, l, 0), k, args[k], State(w, g2, h, LateThen(l, h), 0))
                      /\ FlagSays(args, k, g, w, g2)
<1> DEFINE a == args[k]
           c == a.flags[1]
           p == Letters(a)
           w == StillWants(a)
           g2 == FlagGot(g, a)
<1>1. ReadsAs(State("", g, h, l, 0), k, a, State(w, g2, h, LateThen(l, h), 0))
    BY ReadsFlag, Zenon
<1>2. a.flags \in Seq(STRING) /\ a.flags # <<>> /\ DOMAIN a.flags = 1..Len(a.flags) /\ Len(a.flags) \in Nat
    BY LenProperties DEF TokenType, IsFlag
<1>3. 1 \in DOMAIN a.flags
    BY <1>2, EmptySeq
<1>4. <<>> \in Seq(KeyValue) /\ g \o <<>> = g
    BY ConcatEmptySeq, EmptySeq
<1>5. CASE \E m \in DOMAIN a.flags : a.flags[m] \in Separate
    <2>1. /\ a.flags = <<c>> /\ Len(a.flags) = 1 /\ c \in Separate
          /\ p.switches = <<>> /\ p.letter = c /\ p.here = (a.text # "")
          /\ a.text # "" => c \in DOMAIN ValueKeys \cup {"o"}
        BY <1>2, <1>5, ValuedLetters
    <2>2. /\ TakesNext(a) <=> a.text = ""
          /\ TakesNext(a) /\ k < Len(args) /\ Recognised(args[k + 1]) =>
               Known(Recorded(args, k), {OptionOf(c, args[k + 1])})
          /\ ~TakesNext(a) /\ c \in DOMAIN ValueKeys \cup {"o"} => Known(Recorded(args, k), {OptionOf(c, a)})
        BY <2>1, RecordedOfValued, Zenon
    <2>3. CASE a.text = ""
        <3>1. w = c /\ Attached(a) = <<>>
            BY <2>1, <2>3 DEF Attached, StillWants
        <3>2. g2 = g
            BY <1>4, <2>1, <3>1, FlagGotIs, Zenon
        <3>3. FlagSays(args, k, g, w, g2)
            BY <2>1, <2>2, <2>3, <3>1, <3>2, Zenon DEF FlagSays
        <3> QED
            BY <1>1, <3>3
    <2>4. CASE a.text # ""
        <3> DEFINE key == OptionOf(c, a)
        <3>1. w = "" /\ Attached(a) = << <<key, a.text>> >>
            BY <2>1, <2>4, LetterOIsApart DEF Attached, StillWants
        <3>2. key \in Words /\ a.text \in STRING
            BY KeyOfTypes DEF TokenType
        <3> HIDE DEF key
        <3>3. << <<key, a.text>> >> \in Seq(KeyValue) /\ KeysIn(<< <<key, a.text>> >>) = {key}
            <4> DEFINE e == <<key, a.text>>
            <4>1. e \in KeyValue /\ e[1] = key
                BY <3>2 DEF KeyValue
            <4> HIDE DEF e
            <4>2. Range(<<e>>) = {e} /\ <<e>> \in Seq(KeyValue)
                <5>1. DOMAIN <<e>> = {1} /\ <<e>>[1] = e
                    OBVIOUS
                <5> QED
                    BY <4>1, <5>1 DEF Range
            <4>3. KeysIn(<<e>>) = {key}
                BY <4>1, <4>2 DEF KeysIn
            <4> QED
                BY <4>2, <4>3 DEF e
        <3>4. g2 \in Seq(KeyValue) /\ KeysIn(g2) = KeysIn(g) \cup {key}
            <4>1. KeysIn(p.switches) = {}
                BY <2>1, NoKeys
            <4>2. /\ g2 \in Seq(KeyValue)
                  /\ KeysIn(g2) = KeysIn(g) \cup KeysIn(p.switches) \cup KeysIn(Attached(a))
                <5>1. p.switches \in Seq(KeyValue) /\ Attached(a) \in Seq(KeyValue)
                    BY <1>4, <2>1, <3>1, <3>3
                <5> QED
                    BY <5>1, FlagGotIs, Zenon
            <4> QED
                BY <3>1, <3>3, <4>1, <4>2
        <3>5. Known(Recorded(args, k), {key}) /\ ~TakesNext(a)
            BY <2>1, <2>2, <2>4 DEF key
        <3>7. FlagSays(args, k, g, w, g2)
            BY <3>1, <3>4, <3>5, Zenon DEF FlagSays
        <3> QED
            BY <1>1, <3>7
    <2> QED
        BY <2>3, <2>4
<1>6. CASE \A m \in DOMAIN a.flags : a.flags[m] \notin Separate
    <2>1. p.letter = "" /\ p.switches \in Seq(KeyValue) /\ KeysIn(p.switches) = Switches(a)
        BY <1>6, SwitchLetters
    <2>2. c \notin Separate /\ c # "o" /\ c \notin DOMAIN ValueKeys /\ ~TakesNext(a)
        BY <1>3, <1>6, LetterOIsApart, ValuesSay DEF TakesNext
    <2>3. w = "" /\ Attached(a) = <<>>
        BY <2>1 DEF Attached, StillWants
    <2>4. Known(Recorded(args, k), Switches(a))
        <3>1. Recorded(args, k) = IF c = "v" /\ Alone(a) THEN {} ELSE Switches(a)
            <4>1. CASE c = "v" /\ Alone(a)
                BY <2>2, <4>1, LetterVIsSwitch, Zenon DEF Recorded
            <4>2. CASE ~(c = "v" /\ Alone(a))
                BY <2>2, <4>2, Zenon DEF Recorded
            <4> QED
                BY <4>1, <4>2
        <3>2. "" \notin Switches(a)
            BY SwitchesSay DEF Switches
        <3>3. c = "v" /\ Alone(a) => Switches(a) \cap Cumulative = {}
            <4> SUFFICES ASSUME c = "v", Alone(a) PROVE Switches(a) \cap Cumulative = {}
                OBVIOUS
            <4>1. Range(a.flags) = {"v"}
                <5>1. Len(a.flags) = 1
                    BY DEF Alone
                <5>2. DOMAIN a.flags = 1..1 /\ a.flags[1] = "v"
                    BY <1>2, <5>1, Zenon
                <5> QED
                    BY <5>2 DEF Range
            <4>2. \A x \in Switches(a) : x = SwitchKeys["v"]
                BY <4>1 DEF Switches
            <4>3. SwitchKeys["v"] \notin Cumulative
                BY DEF SwitchKeys, Cumulative
            <4> QED
                BY <4>2, <4>3
        <3>4. Switches(a) \ {""} = Switches(a)
            BY <3>2
        <3>5. Known(Switches(a), Switches(a))
            BY <3>4, AllKnown, Zenon
        <3>6. c = "v" /\ Alone(a) => Known({}, Switches(a))
            BY <3>3 DEF Known
        <3> QED
            BY <3>1, <3>5, <3>6, Zenon
    <2>6. g2 \in Seq(KeyValue) /\ KeysIn(g2) = KeysIn(g) \cup Switches(a)
        <3>1. KeysIn(Attached(a)) = {}
            BY <2>3, NoKeys
        <3>2. /\ g2 \in Seq(KeyValue)
              /\ KeysIn(g2) = KeysIn(g) \cup KeysIn(p.switches) \cup KeysIn(Attached(a))
            <4>1. Attached(a) \in Seq(KeyValue)
                BY <1>4, <2>3
            <4> QED
                BY <2>1, <4>1, FlagGotIs, Zenon
        <3> QED
            BY <2>1, <3>1, <3>2
    <2>7. FlagSays(args, k, g, w, g2)
        BY <2>2, <2>3, <2>4, <2>6, Zenon DEF FlagSays
    <2> QED
        BY <1>1, <2>7
<1> QED
    BY <1>5, <1>6

\* What cossh notes of a token.
Seen(skip, at, keys) == [skip |-> skip, at |-> at, keys |-> keys]
InspectsAs(args, i, seen, next) == Inspects(args, i, seen) = next

LEMMA InspectsValue ==
    ASSUME NEW args, NEW i, NEW keys
    PROVE  InspectsAs(args, i, Seen(TRUE, 0, keys), Seen(FALSE, 0, keys))
    BY DEF Inspects, InspectsAs, Seen

LEMMA InspectsFlag ==
    ASSUME NEW args, NEW i, NEW keys, IsFlag(args[i])
    PROVE  InspectsAs(args, i, Seen(FALSE, 0, keys),
                      Seen(TakesNext(args[i]), 0, keys \cup Recorded(args, i)))
    BY DEF Inspects, InspectsAs, Seen

LEMMA InspectsHost ==
    ASSUME NEW args, NEW i, NEW keys, ~IsFlag(args[i])
    PROVE  InspectsAs(args, i, Seen(FALSE, 0, keys), Seen(FALSE, i, keys))
    BY DEF Inspects, InspectsAs, Seen

LEMMA InspectsNoMore ==
    ASSUME NEW args, NEW i, NEW seen, seen.at # 0
    PROVE  InspectsAs(args, i, seen, seen)
    BY DEF Inspects, InspectsAs

-----------------------------------------------------------------------------
(* SshArgs: what is read up to the destination is what is known of it *)

\* Before the destination: an option that waits for its value is known by the token to come.
Ahead(args, k, r, s) ==
    \E w, g, skip, keys :
        /\ r = State(w, g, 0, FALSE, 0) /\ s = Seen(skip, 0, keys)
        /\ g \in Seq(KeyValue) /\ skip \in BOOLEAN
        /\ skip => /\ w \in Separate
                   /\ k < Len(args) /\ Recognised(args[k + 1]) =>
                        Known(keys, KeysIn(g) \cup {OptionOf(w, args[k + 1])})
        /\ ~skip => w = "" /\ Known(keys, KeysIn(g))

\* After it nothing more is noted; ssh goes on to the command, or to an option that comes late.
Beyond(args, k, r, s, f) ==
    \E h \in 1..k, g \in Seq(KeyValue) :
        /\ f[h - 1] = State("", g, 0, FALSE, 0) /\ ~IsFlag(args[h])
        /\ s = Seen(FALSE, h, s.keys) /\ Known(s.keys, KeysIn(g))
        /\ \/ \E w, g2, c : r = State(w, g2, h, TRUE, c)
           \/ r = State("", WithUser(g, args[h]), h, FALSE, 0) /\ k = h
           \/ r = State("", WithUser(g, args[h]), h, FALSE, h + 1) /\ k > h /\ ~IsFlag(args[h + 1])

\* An option after the destination stays late.
LEMMA LateStays ==
    ASSUME NEW w, NEW g, NEW h, h # 0, NEW c, NEW i, NEW a
    PROVE  \E w2, g2, c2 : ReadsAs(State(w, g, h, TRUE, c), i, a, State(w2, g2, h, TRUE, c2))
<1>1. CASE c # 0
    <2>1. State(w, g, h, TRUE, c).command # 0
        BY <1>1 DEF State
    <2> QED
        BY <2>1, ReadsNoMore
<1>2. CASE c = 0 /\ w # ""
    BY <1>2, ReadsValue
<1>3. CASE c = 0 /\ w = "" /\ IsFlag(a)
    <2>1. ReadsAs(State("", g, h, TRUE, 0), i, a,
                  State(StillWants(a), FlagGot(g, a), h, LateThen(TRUE, h), 0))
        BY <1>3, ReadsFlag, Zenon
    <2>2. LateThen(TRUE, h) = TRUE
        BY DEF LateThen
    <2> QED
        BY <1>3, <2>1, <2>2, Zenon
<1>4. CASE c = 0 /\ w = "" /\ ~IsFlag(a)
    BY <1>4, ReadsCommand
<1> QED
    BY <1>1, <1>2, <1>3, <1>4

\* A token before the destination leaves the two in agreement, or is the destination.
LEMMA AheadStep ==
    ASSUME NEW args \in Seq(TokenType), NEW k \in 1..Len(args), Recognised(args[k]), NEW f, NEW r, NEW s,
           Ahead(args, k - 1, f[k - 1], s), NEW r2, ReadsAs(f[k - 1], k, args[k], r2),
           NEW s2, InspectsAs(args, k, s, s2)
    PROVE  Ahead(args, k, r2, s2) \/ Beyond(args, k, r2, s2, f)
<1> DEFINE a == args[k]
<1>1. a \in TokenType /\ k - 1 < Len(args) /\ k - 1 + 1 = k /\ Len(args) \in Nat
    BY ElementOfSeq, LenProperties
<1>2. PICK w, g, skip, keys :
        /\ f[k - 1] = State(w, g, 0, FALSE, 0) /\ s = Seen(skip, 0, keys)
        /\ g \in Seq(KeyValue) /\ skip \in BOOLEAN
        /\ skip => /\ w \in Separate
                   /\ k - 1 < Len(args) /\ Recognised(args[k - 1 + 1]) =>
                        Known(keys, KeysIn(g) \cup {OptionOf(w, args[k - 1 + 1])})
        /\ ~skip => w = "" /\ Known(keys, KeysIn(g))
    BY DEF Ahead
<1>3. CASE skip
    <2>1. w # "" /\ Known(keys, KeysIn(g) \cup {OptionOf(w, a)})
        BY <1>1, <1>2, <1>3, LetterOIsApart
    <2> DEFINE g2 == Append(g, <<OptionOf(w, a), a.text>>)
    <2>2. g2 \in Seq(KeyValue) /\ KeysIn(g2) = KeysIn(g) \cup {OptionOf(w, a)}
        <3>1. OptionOf(w, a) \in Words /\ a.text \in STRING
            BY <1>1, KeyOfTypes DEF TokenType
        <3> QED
            BY <1>2, <3>1, KeysOfAppend
    <2>3. ReadsAs(State(w, g, 0, FALSE, 0), k, a, State("", g2, 0, FALSE, 0))
        BY <2>1, ReadsValue, Zenon
    <2>4. InspectsAs(args, k, Seen(TRUE, 0, keys), Seen(FALSE, 0, keys))
        BY InspectsValue, Zenon
    <2>5. r2 = State("", g2, 0, FALSE, 0)
        BY <1>2, <2>3, Zenon DEF ReadsAs
    <2>6. skip = TRUE
        BY <1>2, <1>3
    <2>7. s2 = Seen(FALSE, 0, keys)
        BY <1>2, <2>4, <2>6, Zenon DEF InspectsAs
    <2>8. Known(keys, KeysIn(g2))
        BY <2>1, <2>2, Zenon
    <2> QED
        BY <1>2, <2>2, <2>5, <2>7, <2>8, Zenon DEF Ahead
<1>4. CASE ~skip /\ IsFlag(a)
    <2>1. w = "" /\ Known(keys, KeysIn(g)) /\ skip = FALSE
        BY <1>2, <1>4
    <2>2. PICK w2, g2 : /\ ReadsAs(State("", g, 0, FALSE, 0), k, a, State(w2, g2, 0, LateThen(FALSE, 0), 0))
                        /\ FlagSays(args, k, g, w2, g2)
        BY <1>1, <1>2, <1>4, FlagRead, Zenon
    <2>3. LateThen(FALSE, 0) = FALSE
        BY DEF LateThen
    <2>4. r2 = State(w2, g2, 0, FALSE, 0)
        BY <1>2, <2>1, <2>2, <2>3, Zenon DEF ReadsAs
    <2> DEFINE keys2 == keys \cup Recorded(args, k)
    <2>5. InspectsAs(args, k, Seen(FALSE, 0, keys), Seen(TakesNext(a), 0, keys2))
        BY <1>4, InspectsFlag, Zenon
    <2>6. s2 = Seen(TakesNext(a), 0, keys2)
        BY <1>2, <2>1, <2>5, Zenon DEF InspectsAs
    <2>7. g2 \in Seq(KeyValue)
        BY <2>2 DEF FlagSays
    <2>8. TakesNext(a) \in BOOLEAN
        BY DEF TakesNext, Alone
    <2>9. TakesNext(a) => /\ w2 \in Separate
                          /\ k < Len(args) /\ Recognised(args[k + 1]) =>
                               Known(keys2, KeysIn(g2) \cup {OptionOf(w2, args[k + 1])})
        <3> HAVE TakesNext(a)
        <3>1. /\ w2 \in Separate /\ g2 = g
              /\ k < Len(args) /\ Recognised(args[k + 1]) =>
                   Known(Recorded(args, k), {OptionOf(w2, args[k + 1])})
            BY <2>2, Zenon DEF FlagSays
        <3> SUFFICES ASSUME k < Len(args), Recognised(args[k + 1])
                     PROVE  Known(keys \cup Recorded(args, k), KeysIn(g) \cup {OptionOf(w2, args[k + 1])})
            BY <3>1, Zenon
        <3>2. Known(Recorded(args, k), {OptionOf(w2, args[k + 1])})
            BY <3>1, Zenon
        <3> QED
            BY <2>1, <3>2, KnownJoins, Zenon
    <2>10. ~TakesNext(a) => w2 = "" /\ Known(keys2, KeysIn(g2))
        <3> HAVE ~TakesNext(a)
        <3>1. w2 = "" /\ \E new : KeysIn(g2) = KeysIn(g) \cup new /\ Known(Recorded(args, k), new)
            BY <2>2, Zenon DEF FlagSays
        <3>2. PICK new : KeysIn(g2) = KeysIn(g) \cup new /\ Known(Recorded(args, k), new)
            BY <3>1, Zenon
        <3>3. Known(keys \cup Recorded(args, k), KeysIn(g) \cup new)
            BY <2>1, <3>2, KnownJoins, Zenon
        <3> QED
            BY <3>1, <3>2, <3>3, Zenon
    <2> HIDE DEF keys2
    <2> QED
        BY <2>4, <2>6, <2>7, <2>8, <2>9, <2>10, Zenon DEF Ahead
<1>5. CASE ~skip /\ ~IsFlag(a)
    <2>1. w = "" /\ Known(keys, KeysIn(g)) /\ skip = FALSE
        BY <1>2, <1>5
    <2>2. ReadsAs(State("", g, 0, FALSE, 0), k, a, State("", WithUser(g, a), k, FALSE, 0))
        BY <1>5, ReadsHost, Zenon
    <2>3. InspectsAs(args, k, Seen(FALSE, 0, keys), Seen(FALSE, k, keys))
        BY <1>5, InspectsHost, Zenon
    <2>4. r2 = State("", WithUser(g, a), k, FALSE, 0) /\ s2 = Seen(FALSE, k, keys)
        BY <1>2, <2>1, <2>2, <2>3, Zenon DEF ReadsAs, InspectsAs
    <2>5. k \in 1..k
        BY <1>1
    <2>6. f[k - 1] = State("", g, 0, FALSE, 0)
        BY <1>2, <2>1
    <2>7. s2.keys = keys
        BY <2>4 DEF Seen
    <2> QED
        BY <1>2, <1>5, <2>1, <2>4, <2>5, <2>6, <2>7, Zenon DEF Beyond
<1> QED
    BY <1>3, <1>4, <1>5

\* A token after it changes nothing of what cossh has noted.
LEMMA BeyondStep ==
    ASSUME NEW args \in Seq(TokenType), NEW k \in 1..Len(args), NEW f, NEW r, NEW s,
           Beyond(args, k - 1, r, s, f), NEW r2, ReadsAs(r, k, args[k], r2),
           NEW s2, InspectsAs(args, k, s, s2)
    PROVE  Beyond(args, k, r2, s2, f)
<1>1. PICK h \in 1..(k - 1), g \in Seq(KeyValue) :
        /\ f[h - 1] = State("", g, 0, FALSE, 0) /\ ~IsFlag(args[h])
        /\ s = Seen(FALSE, h, s.keys) /\ Known(s.keys, KeysIn(g))
        /\ \/ \E w, g2, c : r = State(w, g2, h, TRUE, c)
           \/ r = State("", WithUser(g, args[h]), h, FALSE, 0) /\ k - 1 = h
           \/ r = State("", WithUser(g, args[h]), h, FALSE, h + 1) /\ k - 1 > h /\ ~IsFlag(args[h + 1])
    BY Zenon DEF Beyond
<1>2. h \in 1..k /\ h # 0 /\ k > h /\ h \in Int /\ h + 1 # 0 /\ k \in Int
    OBVIOUS
<1>3. s2 = s
    <2>1. s.at # 0
        <3>1. Seen(FALSE, h, s.keys).at = h
            BY DEF Seen
        <3>2. s = Seen(FALSE, h, s.keys)
            BY <1>1, Zenon
        <3>3. s.at = h
            BY <3>1, <3>2, Zenon
        <3> QED
            BY <1>2, <3>3, Zenon
    <2>2. InspectsAs(args, k, s, s)
        BY <2>1, InspectsNoMore, Zenon
    <2> QED
        BY <2>2 DEF InspectsAs
<1>4. ASSUME NEW w, NEW g2, NEW c, r = State(w, g2, h, TRUE, c)
      PROVE  \E w2, g3, c2 : r2 = State(w2, g3, h, TRUE, c2)
    <2>1. PICK w2, g3, c2 : ReadsAs(State(w, g2, h, TRUE, c), k, args[k], State(w2, g3, h, TRUE, c2))
        BY <1>2, LateStays, Zenon
    <2>2. r2 = State(w2, g3, h, TRUE, c2)
        BY <1>4, <2>1, Zenon DEF ReadsAs
    <2> QED
        BY <2>2
<1> DEFINE u == WithUser(g, args[h])
<1>5. ASSUME r = State("", u, h, FALSE, 0), k - 1 = h
      PROVE  \/ \E w2, g3, c2 : r2 = State(w2, g3, h, TRUE, c2)
             \/ r2 = State("", u, h, FALSE, h + 1) /\ ~IsFlag(args[h + 1])
    <2>1. h + 1 = k
        <3>1. k \in Int /\ h \in Int /\ k - 1 = h
            BY <1>2, <1>5, Zenon
        <3> QED
            BY <3>1
    <2> HIDE DEF u
    <2>2. CASE IsFlag(args[k])
        <3>1. ReadsAs(State("", u, h, FALSE, 0), k, args[k],
                      State(StillWants(args[k]), FlagGot(u, args[k]), h, LateThen(FALSE, h), 0))
            BY <2>2, ReadsFlag, Zenon
        <3>2. LateThen(FALSE, h) = TRUE
            BY <1>2 DEF LateThen
        <3> QED
            BY <1>5, <3>1, <3>2, Zenon DEF ReadsAs
    <2>3. CASE ~IsFlag(args[k])
        <3>1. ReadsAs(State("", u, h, FALSE, 0), k, args[k], State("", u, h, FALSE, k))
            BY <1>2, <2>3, ReadsCommand, Zenon
        <3> QED
            BY <1>5, <2>1, <2>3, <3>1, Zenon DEF ReadsAs
    <2> QED
        BY <2>2, <2>3
<1>6. ASSUME r = State("", u, h, FALSE, h + 1)
      PROVE  r2 = r
    <2>1. r.command # 0
        BY <1>2, <1>6 DEF State
    <2>2. ReadsAs(r, k, args[k], r)
        BY <2>1, ReadsNoMore, Zenon
    <2> QED
        BY <2>2 DEF ReadsAs
<1>7. \/ \E w2, g3, c2 : r2 = State(w2, g3, h, TRUE, c2)
      \/ r2 = State("", u, h, FALSE, h + 1) /\ ~IsFlag(args[h + 1])
    BY <1>1, <1>4, <1>5, <1>6, Zenon
<1> HIDE DEF u
<1> QED
    BY <1>1, <1>2, <1>3, <1>7, Zenon DEF Beyond, u

\* How a line that is in order is read: up to the destination at h, and from it.
ReadBySteps(f, args) ==
    f[0] = NoneRead /\ \A k \in 1..Len(args) : f[k] = Reads(f[k - 1], k, args[k])

AtDestination(args, f, h, g) ==
    /\ ReadBySteps(f, args)
    /\ f[h - 1] = State("", g, 0, FALSE, 0) /\ ~IsFlag(args[h])
    /\ Inspection(args) = Seen(FALSE, h, Inspection(args).keys)
    /\ Known(Inspection(args).keys, KeysIn(g))
    /\ Reading(args) = State("", WithUser(g, args[h]), h, FALSE, IF h = Len(args) THEN 0 ELSE h + 1)
    /\ h < Len(args) => ~IsFlag(args[h + 1])

\* A line that is in order: its destination is the one that is found.
LEMMA DestinationIs ==
    ASSUME NEW args \in Seq(TokenType), \A k \in 1..Len(args) : Recognised(args[k]), InOrder(Reading(args))
    PROVE  \E f : \E h \in 1..Len(args), g \in Seq(KeyValue) : AtDestination(args, f, h, g)
<1> DEFINE n == Len(args)
<1>1. n \in Nat
    BY LenProperties
<1>2. PICK f : /\ f[0] = NoneRead /\ f[n] = Reading(args)
               /\ \A k \in 1..n : f[k] = Reads(f[k - 1], k, args[k])
    BY <1>1, ReadingBySteps, Zenon
<1>3. PICK s : /\ s[0] = NoneSeen /\ s[n] = Inspection(args)
               /\ \A k \in 1..n : s[k] = Inspects(args, k, s[k - 1])
    BY <1>1, InspectionBySteps, Zenon
<1> HIDE DEF n
<1> DEFINE H == {k \in 0..n : Ahead(args, k, f[k], s[k]) \/ Beyond(args, k, f[k], s[k], f)}
<1>4. 0 \in H
    <2>1. /\ NoneRead = State("", <<>>, 0, FALSE, 0) /\ NoneSeen = Seen(FALSE, 0, {})
        BY DEF NoneRead, NoneSeen, State, Seen
    <2>2. <<>> \in Seq(KeyValue) /\ Known({}, KeysIn(<<>>))
        BY EmptySeq, NoKeys DEF Known
    <2>3. FALSE \in BOOLEAN
        OBVIOUS
    <2>4. Ahead(args, 0, f[0], s[0])
        BY <1>2, <1>3, <2>1, <2>2, <2>3, Zenon DEF Ahead
    <2> QED
        BY <1>1, <2>4
<1>5. \A k \in 1..n : k - 1 \in H => k \in H
    <2> TAKE k \in 1..n
    <2> HAVE k - 1 \in H
    <2>1. k \in 1..Len(args) /\ Recognised(args[k])
        BY DEF n
    <2>2. ReadsAs(f[k - 1], k, args[k], f[k]) /\ InspectsAs(args, k, s[k - 1], s[k])
        BY <1>2, <1>3 DEF ReadsAs, InspectsAs
    <2>3. CASE Ahead(args, k - 1, f[k - 1], s[k - 1])
        <3>1. Ahead(args, k, f[k], s[k]) \/ Beyond(args, k, f[k], s[k], f)
            BY <2>1, <2>2, <2>3, AheadStep, Zenon
        <3> QED
            BY <1>1, <3>1
    <2>4. CASE Beyond(args, k - 1, f[k - 1], s[k - 1], f)
        <3>1. Beyond(args, k, f[k], s[k], f)
            BY <2>1, <2>2, <2>4, BeyondStep, Zenon
        <3> QED
            BY <1>1, <3>1
    <2> QED
        BY <2>3, <2>4
<1>6. n \in H
    <2>1. H \in SUBSET (0..n)
        OBVIOUS
    <2> HIDE DEF H
    <2>2. H = 0..n
        BY <1>1, <1>4, <1>5, <2>1, Holds
    <2> QED
        BY <1>1, <2>2
<1>7. ~Ahead(args, n, f[n], s[n])
    <2> SUFFICES ASSUME Ahead(args, n, f[n], s[n]) PROVE FALSE
        OBVIOUS
    <2>1. PICK w, g : f[n] = State(w, g, 0, FALSE, 0)
        BY Zenon DEF Ahead
    <2>2. f[n].host = 0
        BY <2>1 DEF State
    <2> QED
        BY <1>2, <2>2 DEF InOrder
<1>8. Beyond(args, n, f[n], s[n], f)
    BY <1>6, <1>7
<1>9. PICK h \in 1..n, g \in Seq(KeyValue) :
        /\ f[h - 1] = State("", g, 0, FALSE, 0) /\ ~IsFlag(args[h])
        /\ s[n] = Seen(FALSE, h, s[n].keys) /\ Known(s[n].keys, KeysIn(g))
        /\ \/ \E w, g2, c : f[n] = State(w, g2, h, TRUE, c)
           \/ f[n] = State("", WithUser(g, args[h]), h, FALSE, 0) /\ n = h
           \/ f[n] = State("", WithUser(g, args[h]), h, FALSE, h + 1) /\ n > h /\ ~IsFlag(args[h + 1])
    BY <1>8, Zenon DEF Beyond
<1>10. ~ \E w, g2, c : f[n] = State(w, g2, h, TRUE, c)
    <2> SUFFICES ASSUME NEW w, NEW g2, NEW c, f[n] = State(w, g2, h, TRUE, c) PROVE FALSE
        OBVIOUS
    <2>1. f[n].late = TRUE
        BY DEF State
    <2> QED
        BY <1>2, <2>1 DEF InOrder
<1>11. /\ Reading(args) = State("", WithUser(g, args[h]), h, FALSE, IF h = n THEN 0 ELSE h + 1)
       /\ h < n => ~IsFlag(args[h + 1])
    <2>1. (n > h) <=> (h < n)
        BY <1>1
    <2>2. n > h => h # n
        BY <1>1
    <2>3. n = h => ~(h < n)
        BY <1>1
    <2> QED
        BY <1>2, <1>9, <1>10, <2>1, <2>2, <2>3, Zenon
<1>12. ReadBySteps(f, args)
    BY <1>2 DEF ReadBySteps, n
<1> QED
    <2>1. AtDestination(args, f, h, g)
        BY <1>3, <1>9, <1>11, <1>12 DEF AtDestination, n
    <2> QED
        BY <2>1, Zenon DEF n

-----------------------------------------------------------------------------
(* SshArgs: what ssh reads in the options of the entry *)

\* The two tokens for an option of the entry.
OwnLetter(key) == IF key \in DOMAIN OwnFlag THEN OwnFlag[key] ELSE "o"
FlagToken(key) == Token(<<OwnLetter(key)>>, "", "", "")
ValueToken(key, value) == Token(<<>>, value, IF key \in DOMAIN OwnFlag THEN "" ELSE key, "")

LEMMA AsTokensAre ==
    ASSUME NEW pairs, Len(pairs) \in Nat
    PROVE  /\ AsTokens(pairs) = [n \in 1..2 * Len(pairs) |-> AsTokens(pairs)[n]]
           /\ \A j \in 1..Len(pairs) :
                /\ AsTokens(pairs)[2 * j - 1] = FlagToken(pairs[j][1])
                /\ AsTokens(pairs)[2 * j] = ValueToken(pairs[j][1], pairs[j][2])
<1> DEFINE T == AsTokens(pairs)
           TokenAt(n) == IF n % 2 = 1 THEN FlagToken(pairs[(n + 1) \div 2][1])
                    ELSE ValueToken(pairs[(n + 1) \div 2][1], pairs[(n + 1) \div 2][2])
<1>1. T = [n \in 1..2 * Len(pairs) |-> TokenAt(n)]
    BY Zenon DEF AsTokens, FlagToken, ValueToken, OwnLetter
<1> HIDE DEF T, TokenAt
<1>2. T = [n \in 1..2 * Len(pairs) |-> T[n]] /\ \A n \in 1..2 * Len(pairs) : T[n] = TokenAt(n)
    BY <1>1
<1>3. ASSUME NEW j \in 1..Len(pairs)
      PROVE  T[2 * j - 1] = FlagToken(pairs[j][1]) /\ T[2 * j] = ValueToken(pairs[j][1], pairs[j][2])
    <2> DEFINE a == 2 * j - 1
               b == 2 * j
    <2>1. /\ a \in 1..2 * Len(pairs) /\ a % 2 = 1 /\ (a + 1) \div 2 = j
          /\ b \in 1..2 * Len(pairs) /\ ~(b % 2 = 1) /\ (b + 1) \div 2 = j
        OBVIOUS
    <2> HIDE DEF a, b
    <2>2. T[a] = TokenAt(a) /\ T[b] = TokenAt(b)
        BY <1>2, <2>1, Zenon
    <2>3. TokenAt(a) = FlagToken(pairs[j][1])
        BY <2>1, Zenon DEF TokenAt
    <2>4. TokenAt(b) = ValueToken(pairs[j][1], pairs[j][2])
        BY <2>1, Zenon DEF TokenAt
    <2> QED
        <3>1. T[a] = FlagToken(pairs[j][1]) /\ T[b] = ValueToken(pairs[j][1], pairs[j][2])
            BY <2>2, <2>3, <2>4, Zenon
        <3> QED
            BY <3>1 DEF a, b
<1> QED
    BY <1>2, <1>3 DEF T

\* Each option of the entry is read as what it is.
LEMMA PairRead ==
    ASSUME NEW key, NEW value, NEW g \in Seq(KeyValue), NEW i, NEW j
    PROVE  \E w : /\ ReadsAs(State("", g, 0, FALSE, 0), i, FlagToken(key), State(w, g, 0, FALSE, 0))
                  /\ ReadsAs(State(w, g, 0, FALSE, 0), j, ValueToken(key, value),
                             State("", Append(g, <<key, value>>), 0, FALSE, 0))
<1> DEFINE c == OwnLetter(key)
           a == FlagToken(key)
           b == ValueToken(key, value)
<1>1. c \in Separate /\ c # "" /\ OptionOf(c, b) = key
    <2>1. CASE key \in DOMAIN OwnFlag
        <3>1. c = OwnFlag[key] /\ c \in DOMAIN ValueKeys /\ c # "o" /\ ValueKeys[c] = key
            BY <2>1, OwnFlags DEF OwnLetter
        <3>2. c \in Separate
            BY <3>1, ValuesSay
        <3>3. OptionOf(c, b) = key
            BY <3>1, Zenon DEF OptionOf
        <3> QED
            BY <3>2, <3>3, LetterOIsApart
    <2>2. CASE key \notin DOMAIN OwnFlag
        <3>1. c = "o" /\ b.key = key
            BY <2>2 DEF OwnLetter, ValueToken, Token
        <3>2. OptionOf(c, b) = key
            BY <3>1 DEF OptionOf
        <3> QED
            BY <3>1, <3>2, LetterOIsApart
    <2> QED
        BY <2>1, <2>2
<1>2. a.flags = <<c>> /\ a.text = "" /\ a.equals /\ b.text = value
    BY DEF FlagToken, ValueToken, Token
<1> HIDE DEF c, a, b
<1>3. a.flags \in Seq({c}) /\ DOMAIN a.flags = {1} /\ a.flags[1] = c
    <2>1. <<c>> \in Seq({c}) /\ DOMAIN <<c>> = {1} /\ <<c>>[1] = c
        OBVIOUS
    <2> QED
        BY <1>2, <2>1, Zenon
<1>4. Recognised(a) /\ IsFlag(a)
    <2>1. Len(<<c>>) = 1 /\ <<c>> # <<>>
        OBVIOUS
    <2>2. Len(a.flags) = 1 /\ a.flags # <<>>
        BY <1>2, <2>1, Zenon
    <2> QED
        BY <1>2, <2>2, Zenon DEF Recognised, IsFlag
<1>5. Letters(a).switches = <<>> /\ Letters(a).letter = c /\ Letters(a).here = (a.text # "")
    BY <1>1, <1>3, <1>4, ValuedLetters
<1>6. Letters(a).here = FALSE
    BY <1>2, <1>5
<1>7. StillWants(a) = c /\ Attached(a) = <<>>
    BY <1>5, <1>6 DEF StillWants, Attached
<1>8. FlagGot(g, a) = g
    <2>1. Letters(a).switches \in Seq(KeyValue) /\ Attached(a) \in Seq(KeyValue)
        BY <1>5, <1>7, EmptySeq
    <2> QED
        BY <1>5, <1>7, <2>1, FlagGotIs, Zenon
<1>9. ReadsAs(State("", g, 0, FALSE, 0), i, a, State(c, g, 0, FALSE, 0))
    <2>1. ReadsAs(State("", g, 0, FALSE, 0), i, a,
                  State(StillWants(a), FlagGot(g, a), 0, LateThen(FALSE, 0), 0))
        BY <1>4, ReadsFlag, Zenon
    <2>2. LateThen(FALSE, 0) = FALSE
        BY DEF LateThen
    <2> QED
        BY <1>7, <1>8, <2>1, <2>2, Zenon
<1>10. ReadsAs(State(c, g, 0, FALSE, 0), j, b, State("", Append(g, <<key, value>>), 0, FALSE, 0))
    <2>1. ReadsAs(State(c, g, 0, FALSE, 0), j, b,
                  State("", Append(g, <<OptionOf(c, b), b.text>>), 0, FALSE, 0))
        BY <1>1, ReadsValue, Zenon
    <2> QED
        BY <1>1, <1>2, <2>1, Zenon
<1> QED
    BY <1>9, <1>10, Zenon DEF a, b

\* The items of a list that is joined of two.
JoinedAs(u, s, t) ==
    /\ Len(u) = Len(s) + Len(t)
    /\ \A k \in 1..Len(s) : u[k] = s[k]
    /\ \A k \in 1..Len(t) : u[Len(s) + k] = t[k]

LEMMA JoinedIs ==
    ASSUME NEW S, NEW s \in Seq(S), NEW t \in Seq(S), NEW u, Joins(u, s, t)
    PROVE  u \in Seq(S) /\ JoinedAs(u, s, t)
<1> DEFINE n == Len(s)
           m == Len(t)
<1>1. n \in Nat /\ m \in Nat
    BY LenProperties
<1>2. /\ s \o t \in Seq(S) /\ Len(s \o t) = n + m
      /\ \A i \in 1..(n + m) : (s \o t)[i] = IF i <= n THEN s[i] ELSE t[i - n]
    BY ConcatProperties
<1>3. u = s \o t
    BY DEF Joins
<1> HIDE DEF n, m
<1>4. /\ u \in Seq(S) /\ Len(u) = n + m
      /\ \A i \in 1..(n + m) : u[i] = IF i <= n THEN s[i] ELSE t[i - n]
    BY <1>2, <1>3, Zenon
<1>5. \A i \in 1..n : u[i] = s[i]
    BY <1>1, <1>4
<1>6. ASSUME NEW i \in 1..m PROVE u[n + i] = t[i]
    <2> DEFINE j == n + i
    <2>1. j \in 1..(n + m) /\ ~(j <= n) /\ j - n = i
        BY <1>1
    <2> HIDE DEF j
    <2>2. u[j] = t[i]
        BY <1>4, <2>1
    <2> QED
        BY <2>2 DEF j
<1> QED
    BY <1>4, <1>5, <1>6 DEF n, m, JoinedAs

\* A line in which one token has given way to a list and another.
SplicedAs(B, args, h, T, d, H) ==
    /\ Len(B) = H + (Len(args) - h)
    /\ \A k \in 1..(h - 1) : B[k] = args[k]
    /\ \A k \in 1..Len(T) : B[h - 1 + k] = T[k]
    /\ B[H] = d
    /\ \A k \in 1..(Len(args) - h) : B[H + k] = args[h + k]
Splices(B, args, h, T, d) ==
    B = SubSeq(args, 1, h - 1) \o T \o <<d>> \o SubSeq(args, h + 1, Len(args))

LEMMA Spliced ==
    ASSUME NEW S, NEW args \in Seq(S), NEW h \in 1..Len(args), NEW T \in Seq(S), NEW d \in S,
           NEW B, Splices(B, args, h, T, d)
    PROVE  B \in Seq(S) /\ SplicedAs(B, args, h, T, d, h + Len(T))
<1> DEFINE n == Len(args)
           m == Len(T)
           p == SubSeq(args, 1, h - 1)
           s == SubSeq(args, h + 1, n)
           q == <<d>>
           pt == p \o T
           ptd == pt \o q
           a == h - 1
           c == n - h
           H == h + m
<1>1. /\ n \in Nat /\ m \in Nat /\ \A k \in 1..n : args[k] \in S
      /\ h \in Nat /\ a \in Nat /\ c \in Nat /\ h + 1 \in Int
    BY ElementOfSeq, LenProperties
<1>2. p \in Seq(S) /\ Len(p) = a /\ \A k \in 1..a : p[k] = args[k]
    <2>1. \A k \in 1..a : args[k] \in S
        BY <1>1
    <2>2. /\ p \in Seq(S) /\ Len(p) = IF 1 <= a THEN a - 1 + 1 ELSE 0
          /\ \A k \in 1..(a - 1 + 1) : p[k] = args[1 + k - 1]
        BY <1>1, <2>1, SubSeqProperties
    <2>3. (IF 1 <= a THEN a - 1 + 1 ELSE 0) = a /\ a - 1 + 1 = a /\ \A k \in 1..a : 1 + k - 1 = k
        BY <1>1
    <2> HIDE DEF p, a
    <2> QED
        BY <2>2, <2>3
<1>3. s \in Seq(S) /\ Len(s) = c /\ \A k \in 1..c : s[k] = args[h + k]
    <2>1. \A k \in (h + 1)..n : args[k] \in S
        <3>1. \A k \in (h + 1)..n : k \in 1..n
            BY <1>1
        <3> QED
            BY <1>1, <3>1
    <2>2. /\ s \in Seq(S) /\ Len(s) = IF h + 1 <= n THEN n - (h + 1) + 1 ELSE 0
          /\ \A k \in 1..(n - (h + 1) + 1) : s[k] = args[h + 1 + k - 1]
        BY <1>1, <2>1, SubSeqProperties
    <2>3. /\ (IF h + 1 <= n THEN n - (h + 1) + 1 ELSE 0) = c /\ n - (h + 1) + 1 = c
          /\ \A k \in 1..c : h + 1 + k - 1 = h + k
        BY <1>1
    <2> HIDE DEF s, c
    <2> QED
        BY <2>2, <2>3
<1>4. q \in Seq(S) /\ Len(q) = 1 /\ q[1] = d
    OBVIOUS
<1>5. Joins(pt, p, T) /\ Joins(ptd, pt, q) /\ Joins(B, ptd, s)
    BY DEF Joins, Splices
<1>6. h - 1 = a /\ n - h = c /\ a + m + 1 = H /\ H = h + Len(T)
    BY <1>1
<1>7. m = Len(T) /\ n = Len(args)
    OBVIOUS
<1>70. H \in Nat
    BY <1>1
<1> HIDE DEF p, s, q, pt, ptd, n, m, a, c, H
<1>8. /\ pt \in Seq(S) /\ Len(pt) = a + m
      /\ \A k \in 1..a : pt[k] = p[k]
      /\ \A k \in 1..m : pt[a + k] = T[k]
    <2>1. /\ pt \in Seq(S) /\ Len(pt) = Len(p) + Len(T)
          /\ \A k \in 1..Len(p) : pt[k] = p[k]
          /\ \A k \in 1..Len(T) : pt[Len(p) + k] = T[k]
        <3>1. pt \in Seq(S) /\ JoinedAs(pt, p, T)
            BY <1>2, <1>5, JoinedIs, Zenon
        <3> QED
            BY <3>1 DEF JoinedAs
    <2> QED
        BY <1>2, <1>7, <2>1, Zenon
<1>9. /\ ptd \in Seq(S) /\ Len(ptd) = H
      /\ \A k \in 1..(a + m) : ptd[k] = pt[k]
      /\ ptd[H] = d
    <2>1. /\ ptd \in Seq(S) /\ Len(ptd) = Len(pt) + Len(q)
          /\ \A k \in 1..Len(pt) : ptd[k] = pt[k]
          /\ \A k \in 1..Len(q) : ptd[Len(pt) + k] = q[k]
        <3>1. ptd \in Seq(S) /\ JoinedAs(ptd, pt, q)
            BY <1>4, <1>5, <1>8, JoinedIs, Zenon
        <3> QED
            BY <3>1 DEF JoinedAs
    <2>2. 1 \in 1..1
        OBVIOUS
    <2> QED
        BY <1>4, <1>6, <1>8, <2>1, <2>2
<1>10. /\ B \in Seq(S) /\ Len(B) = H + c
       /\ \A k \in 1..H : B[k] = ptd[k]
       /\ \A k \in 1..c : B[H + k] = s[k]
    <2>1. /\ B \in Seq(S) /\ Len(B) = Len(ptd) + Len(s)
          /\ \A k \in 1..Len(ptd) : B[k] = ptd[k]
          /\ \A k \in 1..Len(s) : B[Len(ptd) + k] = s[k]
        <3>1. B \in Seq(S) /\ JoinedAs(B, ptd, s)
            BY <1>3, <1>5, <1>9, JoinedIs, Zenon
        <3> QED
            BY <3>1 DEF JoinedAs
    <2> QED
        BY <1>3, <1>9, <2>1, Zenon
<1>11. ASSUME NEW k \in 1..a PROVE B[k] = args[k]
    <2>1. k \in 1..H /\ k \in 1..(a + m)
        BY <1>1, <1>6, <1>70
    <2> QED
        BY <1>2, <1>8, <1>9, <1>10, <2>1, Zenon
<1>12. ASSUME NEW k \in 1..m PROVE B[a + k] = T[k]
    <2>1. a + k \in 1..H /\ a + k \in 1..(a + m)
        BY <1>1, <1>6, <1>70
    <2> QED
        BY <1>8, <1>9, <1>10, <2>1, Zenon
<1>13. B[H] = d
    <2>1. H \in 1..H
        BY <1>1, <1>6, <1>70
    <2> QED
        BY <1>9, <1>10, <2>1, Zenon
<1>14. \A k \in 1..c : B[H + k] = args[h + k]
    BY <1>3, <1>10, Zenon
<1>15. SplicedAs(B, args, h, T, d, H)
    BY <1>6, <1>7, <1>10, <1>11, <1>12, <1>13, <1>14, Zenon DEF SplicedAs
<1> QED
    BY <1>6, <1>10, <1>15, Zenon

\* What follows the destination is as it was.
LEMMA TailIsKept ==
    ASSUME NEW S, NEW args \in Seq(S), NEW h \in 1..Len(args), NEW B \in Seq(S), NEW H \in Nat,
           NEW T, NEW d, SplicedAs(B, args, h, T, d, H)
    PROVE  SubSeq(B, H + 1, Len(B)) = SubSeq(args, h + 1, Len(args))
<1> DEFINE n == Len(args)
           l == Len(B)
           c == n - h
           x == SubSeq(B, H + 1, l)
           y == SubSeq(args, h + 1, n)
<1>1. /\ n \in Nat /\ l \in Nat /\ h \in Nat /\ c \in Nat /\ l = H + c /\ h + 1 \in Int /\ H + 1 \in Int
      /\ \A k \in 1..c : B[H + k] = args[h + k]
    <2>1. /\ n \in Nat /\ l \in Nat /\ l = H + c /\ h \in 1..n
          /\ \A k \in 1..c : B[H + k] = args[h + k]
        BY LenProperties DEF SplicedAs
    <2> HIDE DEF n, l
    <2> QED
        BY <2>1
<1>2. \A k \in (H + 1)..l : B[k] \in S
    <2>1. \A k \in (H + 1)..l : k \in 1..l
        BY <1>1
    <2> QED
        BY <2>1, ElementOfSeq
<1>3. \A k \in (h + 1)..n : args[k] \in S
    <2>1. \A k \in (h + 1)..n : k \in 1..n
        BY <1>1
    <2> QED
        BY <2>1, ElementOfSeq
<1>4. /\ x \in Seq(S) /\ Len(x) = IF H + 1 <= l THEN l - (H + 1) + 1 ELSE 0
      /\ \A k \in 1..(l - (H + 1) + 1) : x[k] = B[H + 1 + k - 1]
    BY <1>1, <1>2, SubSeqProperties
<1>5. /\ y \in Seq(S) /\ Len(y) = IF h + 1 <= n THEN n - (h + 1) + 1 ELSE 0
      /\ \A k \in 1..(n - (h + 1) + 1) : y[k] = args[h + 1 + k - 1]
    BY <1>1, <1>3, SubSeqProperties
<1>6. /\ (IF h + 1 <= n THEN n - (h + 1) + 1 ELSE 0) = c /\ n - (h + 1) + 1 = c
      /\ (IF H + 1 <= l THEN l - (H + 1) + 1 ELSE 0) = c /\ l - (H + 1) + 1 = c
      /\ \A k \in 1..c : h + 1 + k - 1 = h + k /\ H + 1 + k - 1 = H + k
    BY <1>1
<1> HIDE DEF x, y, c, n, l
<1>7. Len(x) = c /\ Len(y) = c /\ \A k \in 1..c : x[k] = y[k]
    BY <1>1, <1>4, <1>5, <1>6
<1>8. x = y
    BY <1>4, <1>5, <1>7, SeqEqual
<1> QED
    BY <1>8 DEF x, y, n, l

\* Before the destination, with the values read and the flag that wants one; and from it on.
Open(got) == State("", got, 0, FALSE, 0)
Wanting(wants, got) == State(wants, got, 0, FALSE, 0)
Closed(got, host, command) == State("", got, host, FALSE, command)

SameAt(f, fb, k) == fb[k] = f[k]

LEMMA StepRead ==
    ASSUME NEW f, NEW args, ReadBySteps(f, args), NEW k \in 1..Len(args)
    PROVE  ReadsAs(f[k - 1], k, args[k], f[k])
    BY Zenon DEF ReadBySteps, ReadsAs

\* Two lines that begin alike are read alike.
LEMMA ReadAlike ==
    ASSUME NEW f, NEW fb, NEW args, NEW B, ReadBySteps(f, args), ReadBySteps(fb, B),
           NEW a \in Nat, a <= Len(args), a <= Len(B), Len(args) \in Nat, Len(B) \in Nat,
           \A k \in 1..a : B[k] = args[k]
    PROVE  SameAt(f, fb, a)
<1> DEFINE A == {k \in 0..a : fb[k] = f[k]}
<1>1. 0 \in A
    BY DEF ReadBySteps
<1>2. \A k \in 1..a : k - 1 \in A => k \in A
    <2> TAKE k \in 1..a
    <2> HAVE k - 1 \in A
    <2>1. k \in 1..Len(B) /\ k \in 1..Len(args) /\ k \in 0..a
        OBVIOUS
    <2>2. fb[k - 1] = f[k - 1] /\ B[k] = args[k]
        OBVIOUS
    <2>3. ReadsAs(fb[k - 1], k, B[k], fb[k]) /\ ReadsAs(f[k - 1], k, args[k], f[k])
        BY <2>1, StepRead, Zenon
    <2>4. fb[k] = f[k]
        BY <2>2, <2>3, Zenon DEF ReadsAs
    <2> QED
        BY <2>1, <2>4
<1>3. A \in SUBSET (0..a)
    OBVIOUS
<1> HIDE DEF A
<1>4. A = 0..a
    BY <1>1, <1>2, <1>3, Holds
<1>5. a \in A
    BY <1>4
<1> QED
    BY <1>5 DEF A, SameAt

\* Some options are read after those in g.
OpenWith(fb, g, I, k) == \E G \in Seq(KeyValue) : Joins(G, g, I) /\ fb[k] = Open(G)

\* The options of the entry are read one after the other.
LEMMA OptionsRead ==
    ASSUME NEW B, Len(B) \in Nat, NEW fb, ReadBySteps(fb, B), NEW a \in Nat, NEW g \in Seq(KeyValue),
           fb[a] = Open(g),
           NEW I \in Seq(KeyValue), a + 2 * Len(I) <= Len(B),
           \A k \in 1..2 * Len(I) : B[a + k] = AsTokens(I)[k]
    PROVE  OpenWith(fb, g, I, a + 2 * Len(I))
<1> DEFINE m == Len(I)
           T == AsTokens(I)
           pre(j) == SubSeq(I, 1, j)
           J == {j \in 0..m : \E G \in Seq(KeyValue) : /\ Joins(G, g, pre(j))
                                                      /\ fb[a + 2 * j] = Open(G)}
<1>1. m \in Nat /\ \A j \in 1..m : I[j] \in KeyValue
    BY ElementOfSeq, LenProperties
<1>2. \A j \in 1..m : T[2 * j - 1] = FlagToken(I[j][1]) /\ T[2 * j] = ValueToken(I[j][1], I[j][2])
    BY <1>1, AsTokensAre
<1>3. \A j \in 0..m : pre(j) \in Seq(KeyValue)
    <2> TAKE j \in 0..m
    <2>1. \A i \in 1..j : I[i] \in KeyValue
        BY <1>1
    <2>2. j \in Int
        OBVIOUS
    <2> QED
        BY <2>1, <2>2, SubSeqProperties
<1>4. pre(0) = <<>> /\ \A j \in 1..m : pre(j) = Append(pre(j - 1), I[j])
    <2>1. pre(0) = <<>>
        BY SubSeqEmpty
    <2>2. ASSUME NEW j \in 1..m PROVE pre(j) = Append(pre(j - 1), I[j])
        <3>1. 1 \in 1..Len(I) /\ j \in 1..Len(I)
            BY <1>1 DEF m
        <3>2. SubSeq(I, 1, j) = SubSeq(I, 1, j - 1) \o <<I[j]>>
            BY <3>1, SubSeqRecursiveSecond
        <3>3. j - 1 \in 0..m /\ I[j] \in KeyValue
            BY <1>1
        <3>4. pre(j - 1) \in Seq(KeyValue)
            BY <1>3, <3>3
        <3>5. Append(pre(j - 1), I[j]) = pre(j - 1) \o <<I[j]>>
            BY <3>3, <3>4, AppendIsConcat
        <3> QED
            BY <3>2, <3>5
    <2> QED
        BY <2>1, <2>2
<1>5. pre(m) = I
    BY SubSeqFull
<1>6. /\ a + 2 * m <= Len(B) /\ \A k \in 1..2 * m : B[a + k] = T[k]
    OBVIOUS
<1> HIDE DEF pre, m, T
<1>10. 0 \in J
    <2>1. Joins(g, g, <<>>)
        BY ConcatEmptySeq DEF Joins
    <2>2. a + 2 * 0 = a /\ 0 \in 0..m
        BY <1>1
    <2>3. fb[a + 2 * 0] = Open(g)
        BY <2>2
    <2>4. Joins(g, g, pre(0))
        BY <1>4, <2>1, Zenon
    <2> QED
        BY <2>2, <2>3, <2>4
<1>11. \A j \in 1..m : j - 1 \in J => j \in J
    <2> TAKE j \in 1..m
    <2> HAVE j - 1 \in J
    <2>1. PICK G \in Seq(KeyValue) :
             Joins(G, g, pre(j - 1)) /\ fb[a + 2 * (j - 1)] = Open(G)
        BY Zenon
    <2> DEFINE x == a + (2 * j - 1)
               y == a + 2 * j
               key == I[j][1]
               value == I[j][2]
    <2>2. /\ x \in 1..Len(B) /\ y \in 1..Len(B) /\ x - 1 = a + 2 * (j - 1) /\ y - 1 = x
          /\ 2 * j - 1 \in 1..2 * m /\ 2 * j \in 1..2 * m /\ j \in 0..m /\ j - 1 \in 0..m
        BY <1>1, <1>6
    <2>3. B[x] = FlagToken(key) /\ B[y] = ValueToken(key, value)
        BY <1>2, <1>6, <2>2, Zenon
    <2>4. I[j] = <<key, value>> /\ I[j] \in KeyValue
        <3>1. I[j] \in KeyValue
            BY <1>1
        <3>2. \A e \in KeyValue : e = <<e[1], e[2]>>
            BY DEF KeyValue
        <3> QED
            BY <3>1, <3>2
    <2>12. y = a + 2 * j
        OBVIOUS
    <2> HIDE DEF x, y, key, value
    <2>5. PICK w : /\ ReadsAs(Open(G), x, FlagToken(key), Wanting(w, G))
                   /\ ReadsAs(Wanting(w, G), y, ValueToken(key, value),
                              Open(Append(G, <<key, value>>)))
        BY PairRead, Zenon DEF Open, Wanting
    <2>6. ReadsAs(fb[x - 1], x, B[x], fb[x]) /\ ReadsAs(fb[y - 1], y, B[y], fb[y])
        BY <2>2, StepRead, Zenon
    <2>7. fb[x] = Wanting(w, G)
        BY <2>1, <2>2, <2>3, <2>5, <2>6, Zenon DEF ReadsAs
    <2>8. fb[y] = Open(Append(G, <<key, value>>))
        BY <2>2, <2>3, <2>5, <2>6, <2>7, Zenon DEF ReadsAs
    <2>9. Append(G, I[j]) \in Seq(KeyValue)
        BY <2>4, AppendProperties
    <2>10. Joins(Append(G, I[j]), g, Append(pre(j - 1), I[j]))
        BY <1>3, <2>1, <2>2, <2>4, JoinsAppend, Zenon
    <2>11. Joins(Append(G, I[j]), g, pre(j))
        BY <1>4, <2>10, Zenon
    <2>13. fb[a + 2 * j] = Open(Append(G, I[j]))
        BY <2>4, <2>8, <2>12, Zenon
    <2> QED
        BY <2>2, <2>9, <2>11, <2>13, Zenon
<1>12. m \in J
    <2>1. J \in SUBSET (0..m)
        OBVIOUS
    <2> HIDE DEF J
    <2>2. J = 0..m
        BY <1>1, <1>10, <1>11, <2>1, Holds
    <2> QED
        BY <1>1, <2>2
<1>13. \E G \in Seq(KeyValue) : Joins(G, g, pre(m)) /\ fb[a + 2 * m] = Open(G)
    BY <1>12, Zenon
<1> QED
    BY <1>5, <1>13, Zenon DEF m, OpenWith

ClosedAt(fb, B, G, H) ==
    fb[Len(B)] = Closed(WithUser(G, B[H]), H, IF H = Len(B) THEN 0 ELSE H + 1)

\* From the destination on, with a command after it or with nothing.
LEMMA RestRead ==
    ASSUME NEW B, Len(B) \in Nat, NEW fb, ReadBySteps(fb, B), NEW H \in Nat, H # 0, H <= Len(B), NEW G,
           fb[H - 1] = Open(G), ~IsFlag(B[H]), H < Len(B) => ~IsFlag(B[H + 1])
    PROVE  ClosedAt(fb, B, G, H)
<1> DEFINE l == Len(B)
           last == Closed(WithUser(G, B[H]), H, 0)
           over == Closed(WithUser(G, B[H]), H, H + 1)
<1>1. l \in Nat /\ H \in 1..l
    OBVIOUS
<1>2. fb[H] = last
    <2>1. ReadsAs(fb[H - 1], H, B[H], fb[H])
        BY <1>1, StepRead, Zenon
    <2>2. ReadsAs(Open(G), H, B[H], Closed(WithUser(G, B[H]), H, 0))
        BY ReadsHost, Zenon DEF Open, Closed
    <2> QED
        BY <2>1, <2>2, Zenon DEF ReadsAs
<1>3. CASE H = l
    BY <1>2, <1>3, Zenon DEF ClosedAt
<1>4. CASE H # l
    <2> DEFINE i == H + 1
               r == l - i
               K == {k \in 0..r : fb[i + k] = over}
    <2>1. i \in 1..l /\ i - 1 = H /\ r \in Nat /\ i + 0 = i /\ i + r = l /\ H < l /\ i # 0
        BY <1>1, <1>4
    <2>2. ~IsFlag(B[i])
        BY <2>1
    <2>12. H # 0
        OBVIOUS
    <2>3. /\ \A k \in 1..r : k \in 0..r /\ k - 1 \in 0..r
          /\ \A k \in 1..r : \A j : j = i + k => j \in 1..l /\ j - 1 = i + (k - 1)
        BY <1>1, <1>4
    <2>31. 0 \in 0..r /\ r \in 0..r
        BY <2>1
    <2>32. \A x : fb[i + x] = over /\ x \in 0..r <=> x \in K
        OBVIOUS
    <2> HIDE DEF K, r
    <2>4. over = Closed(WithUser(G, B[H]), H, i)
        OBVIOUS
    <2>5. over.command # 0
        BY <2>1 DEF State, Closed
    <2> HIDE DEF i, over
    <2>6. fb[i] = over
        <3>1. ReadsAs(fb[i - 1], i, B[i], fb[i])
            BY <2>1, StepRead, Zenon
        <3>2. ReadsAs(last, i, B[i], over)
            BY <2>2, <2>4, <2>12, ReadsCommand, Zenon DEF Closed
        <3> QED
            BY <1>2, <2>1, <3>1, <3>2, Zenon DEF ReadsAs
    <2>7. 0 \in K
        BY <2>1, <2>6, <2>31, <2>32, Zenon
    <2>8. \A k \in 1..r : k - 1 \in K => k \in K
        <3> TAKE k \in 1..r
        <3> HAVE k - 1 \in K
        <3> DEFINE j == i + k
        <3>6. j = i + k
            OBVIOUS
        <3> HIDE DEF j
        <3>1. j \in 1..l /\ j - 1 = i + (k - 1)
            BY <2>3, <3>6, Zenon
        <3>3. fb[j - 1] = over
            BY <2>3, <2>32, <3>1, Zenon
        <3>2. ReadsAs(fb[j - 1], j, B[j], fb[j])
            BY <3>1, StepRead, Zenon
        <3>4. ReadsAs(over, j, B[j], over)
            BY <2>5, ReadsNoMore, Zenon
        <3>5. fb[j] = over
            BY <3>2, <3>3, <3>4, Zenon DEF ReadsAs
        <3> QED
            BY <2>3, <2>32, <3>5, <3>6, Zenon
    <2>9. K \in SUBSET (0..r)
        BY <2>32, Zenon
    <2>10. K = 0..r
        BY <2>1, <2>7, <2>8, <2>9, Holds
    <2>11. fb[l] = over
        BY <2>1, <2>10, <2>31, <2>32, Zenon
    <2> QED
        BY <1>4, <2>4, <2>11, Zenon DEF i, ClosedAt
<1> QED
    BY <1>3, <1>4

\* How the line that is built is read: the options I before the destination d at H.
ReadsBuilt(B, args, h, g, I, d, H) ==
    /\ \E G \in Seq(KeyValue) :
          /\ Joins(G, g, I)
          /\ Reading(B) = Closed(WithUser(G, d), H, IF h = Len(args) THEN 0 ELSE H + 1)
    /\ B[H] = d
    /\ SubSeq(B, H + 1, Len(B)) = SubSeq(args, h + 1, Len(args))

\* The options of the entry are read after those before the destination.
LEMMA BuiltReads ==
    ASSUME NEW S, NEW args \in Seq(S), NEW f, NEW h \in 1..Len(args), NEW g \in Seq(KeyValue),
           AtDestination(args, f, h, g),
           NEW I \in Seq(KeyValue), AsTokens(I) \in Seq(S), NEW d \in S, ~IsFlag(d),
           NEW B, Splices(B, args, h, AsTokens(I), d)
    PROVE  ReadsBuilt(B, args, h, g, I, d, h + 2 * Len(I))
<1> DEFINE n == Len(args)
           m == Len(I)
           T == AsTokens(I)
           H == h + 2 * m
           l == Len(B)
           a == h - 1
<1>1. n \in Nat /\ m \in Nat /\ h \in 1..n
    BY LenProperties
<1>2. Len(T) = 2 * m
    <2>1. T = [k \in 1..2 * m |-> T[k]]
        BY <1>1, AsTokensAre
    <2>2. DOMAIN T = 1..2 * m /\ DOMAIN T = 1..Len(T) /\ Len(T) \in Nat
        BY <2>1, LenProperties
    <2> HIDE DEF T, m
    <2> QED
        BY <1>1, <2>2
<1>3. B \in Seq(S) /\ SplicedAs(B, args, h, T, d, H)
    <2>1. B \in Seq(S) /\ SplicedAs(B, args, h, T, d, h + Len(T))
        BY Spliced, Zenon
    <2> QED
        BY <1>2, <2>1, Zenon
<1>4. l \in Nat
    BY <1>3, LenProperties
<1>5. /\ l = H + (n - h) /\ B[H] = d
      /\ \A k \in 1..a : B[k] = args[k]
      /\ \A k \in 1..2 * m : B[a + k] = T[k]
      /\ \A k \in 1..(n - h) : B[H + k] = args[h + k]
    <2> HIDE DEF T, m, H
    <2>1. Len(T) = 2 * m
        BY <1>2
    <2> QED
        BY <1>3, <2>1, Zenon DEF SplicedAs
<1>6. PICK fb : /\ fb[0] = NoneRead /\ fb[l] = Reading(B)
                /\ \A k \in 1..l : fb[k] = Reads(fb[k - 1], k, B[k])
    BY <1>4, ReadingBySteps, Zenon
<1>7. ReadBySteps(fb, B) /\ ReadBySteps(f, args)
    BY <1>6, Zenon DEF ReadBySteps, AtDestination
<1>8. T = AsTokens(I) /\ n = Len(args) /\ l = Len(B) /\ m = Len(I)
    OBVIOUS
<1>9. SubSeq(B, H + 1, l) = SubSeq(args, h + 1, n)
    <2>1. H \in Nat
        BY <1>1
    <2> HIDE DEF H
    <2> QED
        BY <1>3, <2>1, TailIsKept, Zenon
<1> HIDE DEF T, n, l, m
<1>10. /\ a \in Nat /\ a <= n /\ a <= l /\ a + 2 * m <= l
       /\ H \in Nat /\ H # 0 /\ H <= l /\ a + 2 * m = H - 1
       /\ (H < l <=> h < n) /\ (h < n => 1 \in 1..(n - h)) /\ (H = l <=> h = n)
    <2>1. a \in Nat /\ a <= n /\ H \in Nat /\ H # 0 /\ a + 2 * m = H - 1
        BY <1>1
    <2>2. h \in Nat /\ n \in Nat /\ h <= n /\ l = H + (n - h)
        BY <1>1, <1>5
    <2> HIDE DEF H
    <2>3. H <= l /\ (H < l <=> h < n) /\ (h < n => 1 \in 1..(n - h)) /\ (H = l <=> h = n)
        BY <2>1, <2>2
    <2>4. a <= l /\ a + 2 * m <= l
        BY <1>1, <2>1, <2>2
    <2> QED
        BY <2>1, <2>3, <2>4
<1>11. H = h + 2 * m
    OBVIOUS
<1> HIDE DEF a, H
<1>12. fb[a] = f[a]
    <2>1. SameAt(f, fb, a)
        BY <1>1, <1>4, <1>5, <1>7, <1>10, ReadAlike, Zenon DEF l, n
    <2> QED
        BY <2>1, Zenon DEF SameAt
<1>13. fb[a] = Open(g)
    BY <1>12, Zenon DEF AtDestination, Open, a
<1>14. \E G \in Seq(KeyValue) : Joins(G, g, I) /\ fb[a + 2 * m] = Open(G)
    <2>1. \A k \in 1..2 * Len(I) : B[a + k] = AsTokens(I)[k]
        BY <1>5, <1>8, Zenon
    <2>2. OpenWith(fb, g, I, a + 2 * Len(I))
        BY <1>4, <1>7, <1>10, <1>13, <2>1, OptionsRead, Zenon DEF l, m
    <2> QED
        BY <2>2, Zenon DEF OpenWith, m
<1>15. PICK G \in Seq(KeyValue) : Joins(G, g, I) /\ fb[H - 1] = Open(G)
    BY <1>10, <1>14, Zenon
<1>16. ~IsFlag(B[H])
    BY <1>5, Zenon
<1>17. H < l => ~IsFlag(B[H + 1])
    BY <1>5, <1>8, <1>10, Zenon DEF AtDestination
<1>18. fb[l] = Closed(WithUser(G, B[H]), H, IF H = l THEN 0 ELSE H + 1)
    <2>1. ClosedAt(fb, B, G, H)
        BY <1>4, <1>7, <1>10, <1>15, <1>16, <1>17, RestRead, Zenon DEF l
    <2> QED
        BY <2>1, Zenon DEF ClosedAt, l
<1>19. Reading(B) = Closed(WithUser(G, d), H, IF h = n THEN 0 ELSE H + 1)
    BY <1>5, <1>6, <1>10, <1>18, Zenon
<1>20. ReadsBuilt(B, args, h, g, I, d, H)
    BY <1>5, <1>8, <1>9, <1>15, <1>19, Zenon DEF ReadsBuilt
<1> QED
    BY <1>8, <1>11, <1>20, Zenon

-----------------------------------------------------------------------------
(* SshArgs: the options of an entry *)

\* The options in the order of injection; the pairs of one of them; what is kept for one.
AllKeys(host) == MainKeys \o SetToSeq(DOMAIN host.options \ Range(MainKeys))
PairsOf(host, key) == [v \in DOMAIN Values(host, key) |-> <<key, Values(host, key)[v]>>]
Unless(host, given, key) == IF key \in given THEN <<>> ELSE PairsOf(host, key)
With(key) == {key} \X STRING

\* The names of options, each once.
LEMMA AllKeysAre ==
    ASSUME NEW host \in Range(Book)
    PROVE  /\ AllKeys(host) \in Seq(Words) /\ Len(AllKeys(host)) \in Nat \ {0}
           /\ \A i, j \in 1..Len(AllKeys(host)) : AllKeys(host)[i] = AllKeys(host)[j] => i = j
           /\ DOMAIN host.options \subseteq {AllKeys(host)[i] : i \in 1..Len(AllKeys(host))}
<1> DEFINE D == DOMAIN host.options
           R == Range(MainKeys)
           O == D \ R
           o == SetToSeq(O)
           K == AllKeys(host)
<1>1. IsFiniteSet(D) /\ D \subseteq STRING
    BY ArgsAssumption
<1>2. IsFiniteSet(O)
    BY <1>1, FS_Difference
<1>3. o \in Seq(O) /\ Range(o) = O /\ \A i, j \in DOMAIN o : o[i] = o[j] => i = j
    <2> HIDE DEF O
    <2> QED
        BY <1>2, ListOfSet
<1>4. \A x \in O : x \in Words
    BY <1>1 DEF Words
<1>5. o \in Seq(Words)
    <2> HIDE DEF o, O
    <2>1. Len(o) \in Nat /\ o \in [1..Len(o) -> O] 
        BY <1>3, SeqDef, LenProperties
    <2>2. \A i \in 1..Len(o) : o[i] \in Words
        BY <1>4, <2>1
    <2>3. o = [i \in 1..Len(o) |-> o[i]]
        BY <2>1
    <2> QED
        BY <2>1, <2>2, <2>3, SeqDef
<1>6. Joins(K, MainKeys, o)
    BY DEF Joins, AllKeys
<1>7. R \cap O = {} /\ D \subseteq R \cup O
    OBVIOUS
<1> HIDE DEF D, R, O, o, K
<1>8. K \in Seq(Words) /\ JoinedAs(K, MainKeys, o)
    BY <1>5, <1>6, MainKeysDiffer, JoinedIs, Zenon
<1> DEFINE m == Len(o)
<1>9. /\ m \in Nat /\ Len(K) = 9 + m /\ DOMAIN o = 1..m /\ DOMAIN MainKeys = 1..9
      /\ \A i \in 1..9 : K[i] = MainKeys[i]
      /\ \A i \in 1..m : K[9 + i] = o[i]
    BY <1>5, <1>8, MainKeysDiffer, LenProperties DEF JoinedAs
<1>10. /\ \A i \in 1..9 : K[i] \in R
       /\ \A i \in 1..m : K[9 + i] \in O
    BY <1>3, <1>9 DEF R, Range
<1> HIDE DEF m
<1>11. ASSUME NEW i \in 1..Len(K), NEW j \in 1..Len(K), K[i] = K[j] PROVE i = j
    <2>1. /\ i \in 1..9 \/ i - 9 \in 1..m
          /\ j \in 1..9 \/ j - 9 \in 1..m
          /\ 9 + (i - 9) = i /\ 9 + (j - 9) = j
        BY <1>9
    <2>2. CASE i \in 1..9 /\ j \in 1..9
        BY <1>9, <1>11, <2>2, MainKeysDiffer
    <2>3. CASE i - 9 \in 1..m /\ j - 9 \in 1..m
        <3>1. o[i - 9] = K[i] /\ o[j - 9] = K[j]
            BY <1>9, <2>1, <2>3
        <3>2. i - 9 = j - 9
            BY <1>3, <1>9, <1>11, <2>3, <3>1
        <3> QED
            BY <3>2
    <2>4. CASE i \in 1..9 /\ j - 9 \in 1..m
        <3>1. K[i] \in R /\ K[9 + (j - 9)] \in O
            BY <1>10, <2>4, Zenon
        <3> QED
            BY <1>7, <1>11, <2>1, <3>1
    <2>5. CASE i - 9 \in 1..m /\ j \in 1..9
        <3>1. K[j] \in R /\ K[9 + (i - 9)] \in O
            BY <1>10, <2>5, Zenon
        <3> QED
            BY <1>7, <1>11, <2>1, <3>1
    <2> QED
        BY <2>1, <2>2, <2>3, <2>4, <2>5
<1>12. ASSUME NEW x \in D PROVE \E i \in 1..Len(K) : K[i] = x
    <2>1. CASE x \in R
        <3>1. PICK i \in 1..9 : MainKeys[i] = x
            BY <1>9, <2>1 DEF R, Range
        <3>2. i \in 1..Len(K) /\ K[i] = x
            BY <1>9, <3>1
        <3> QED
            BY <3>2
    <2>2. CASE x \in O
        <3>1. PICK i \in 1..m : o[i] = x
            BY <1>3, <1>9, <2>2 DEF Range
        <3>2. 9 + i \in 1..Len(K)
            BY <1>9
        <3>3. K[9 + i] = x
            BY <1>9, <3>1
        <3> QED
            BY <3>2, <3>3
    <2> QED
        BY <1>7, <2>1, <2>2
<1>13. Len(K) \in Nat \ {0}
    BY <1>9
<1> QED
    BY <1>8, <1>11, <1>12, <1>13 DEF K, D

LEMMA ValuesAre == ASSUME NEW host \in Range(Book), NEW key PROVE Values(host, key) \in Seq(STRING)
    BY ArgsAssumption, EmptySeq DEF Values

\* The pairs of one option.
PairsFor(pairs, values, key) == pairs = [v \in DOMAIN values |-> <<key, values[v]>>]
OnlyWith(pairs, key) == \A other : Filtered(pairs, With(other)) = IF other = key THEN pairs ELSE <<>>

LEMMA PairsAre ==
    ASSUME NEW values \in Seq(STRING), NEW key \in Words, NEW pairs, PairsFor(pairs, values, key)
    PROVE  pairs \in Seq(KeyValue) /\ OnlyWith(pairs, key)
<1>1. /\ Len(values) \in Nat /\ DOMAIN values = 1..Len(values)
      /\ \A v \in 1..Len(values) : values[v] \in STRING
    BY LenProperties, ElementOfSeq
<1>2. \A v \in 1..Len(values) : <<key, values[v]>> \in KeyValue
    BY <1>1 DEF KeyValue
<1>3. pairs \in Seq(KeyValue) /\ DOMAIN pairs = 1..Len(values)
    BY <1>1, <1>2 DEF PairsFor
<1>4. \A v \in DOMAIN pairs : pairs[v] \in With(key)
    BY <1>1, <1>3 DEF With, PairsFor
<1>5. \A other : other # key => \A v \in DOMAIN pairs : pairs[v] \notin With(other)
    BY <1>1, <1>3 DEF With, PairsFor
<1>6. Filtered(pairs, With(key)) = pairs
    BY <1>3, <1>4, FilteredAll, Zenon
<1>7. ASSUME NEW other, other # key PROVE Filtered(pairs, With(other)) = <<>>
    BY <1>3, <1>5, <1>7, FilteredNone, Zenon
<1> QED
    BY <1>3, <1>6, <1>7, Zenon DEF OnlyWith

InjectsAs(I, host, given, key) == Filtered(I, With(key)) = Unless(host, given, key)

\* Of each option what the entry says, unless it is given.
LEMMA InjectedIs ==
    ASSUME NEW host \in Range(Book), NEW given
    PROVE  /\ Injected(host, given) \in Seq(KeyValue)
           /\ \A key : InjectsAs(Injected(host, given), host, given, key)
<1> DEFINE keys == AllKeys(host)
           n == Len(keys)
           ss == [k \in DOMAIN keys |-> Unless(host, given, keys[k])]
           I == Injected(host, given)
<1>1. I = FlattenSeq(ss)
    BY DEF Injected, AllKeys, Unless, PairsOf
<1>2. /\ keys \in Seq(Words) /\ n \in Nat \ {0} /\ DOMAIN keys = 1..n
      /\ \A i, j \in 1..n : keys[i] = keys[j] => i = j
      /\ DOMAIN host.options \subseteq {keys[i] : i \in 1..n}
      /\ \A i \in 1..n : keys[i] \in Words
    BY AllKeysAre, LenProperties, ElementOfSeq
<1> HIDE DEF keys, n, I
<1>3. ASSUME NEW i \in 1..n
      PROVE  /\ Unless(host, given, keys[i]) \in Seq(KeyValue)
             /\ \A key : Filtered(Unless(host, given, keys[i]), With(key)) =
                           IF key = keys[i] THEN Unless(host, given, keys[i]) ELSE <<>>
    <2> DEFINE pairs == PairsOf(host, keys[i])
               e == <<>>
    <2>1. /\ pairs \in Seq(KeyValue)
          /\ \A key : Filtered(pairs, With(key)) = IF key = keys[i] THEN pairs ELSE <<>>
        <3>1. Values(host, keys[i]) \in Seq(STRING) /\ keys[i] \in Words
            BY <1>2, ValuesAre
        <3>2. PairsFor(pairs, Values(host, keys[i]), keys[i])
            BY Zenon DEF PairsFor, PairsOf
        <3> HIDE DEF pairs
        <3>3. pairs \in Seq(KeyValue) /\ OnlyWith(pairs, keys[i])
            BY <3>1, <3>2, PairsAre, Zenon
        <3> QED
            BY <3>3, Zenon DEF OnlyWith
    <2>2. e \in Seq(KeyValue) /\ DOMAIN e = {}
        BY EmptySeq
    <2>20. e = <<>>
        OBVIOUS
    <2> HIDE DEF e
    <2>3. ASSUME NEW keep PROVE Filtered(e, keep) = e
        <3>1. \A k \in DOMAIN e : e[k] \in keep
            BY <2>2
        <3> QED
            BY <2>2, <3>1, FilteredAll, Zenon
    <2> HIDE DEF pairs
    <2>4. Unless(host, given, keys[i]) = IF keys[i] \in given THEN e ELSE pairs
        BY <2>20 DEF Unless, pairs
    <2> QED
        BY <2>1, <2>2, <2>20, <2>3, <2>4, Zenon
<1>4. ss \in [1..n -> Seq(KeyValue)] /\ Len(ss) = n /\ \A i \in 1..n : ss[i] = Unless(host, given, keys[i])
    BY <1>2, <1>3
<1> HIDE DEF ss
<1>5. I \in Seq(KeyValue)
    BY <1>1, <1>2, <1>4, FlattenIs, Zenon
<1>6. ASSUME NEW key PROVE Filtered(I, With(key)) = Unless(host, given, key)
    <2>1. CASE \E j \in 1..n : keys[j] = key
        <3>1. PICK j \in 1..n : keys[j] = key
            BY <2>1
        <3> DEFINE X == ss[j]
        <3>2. X \in Seq(KeyValue) /\ j \in Nat
            BY <1>2, <1>4
        <3>3. ASSUME NEW i \in 1..n PROVE Filtered(ss[i], With(key)) = IF i = j THEN X ELSE <<>>
            <4>1. (key = keys[i]) <=> (i = j)
                BY <1>2, <3>1
            <4>2. ss[i] = Unless(host, given, keys[i])
                BY <1>4
            <4> QED
                BY <1>3, <4>1, <4>2, Zenon
        <3> HIDE DEF X
        <3>5. OnlyFrom(ss, n, With(key), j, X)
            BY <3>3, Zenon DEF OnlyFrom
        <3>6. KeptOf(ss, n, With(key), j, X)
            BY <1>2, <1>4, <3>2, <3>5, FlattenFilter, Zenon
        <3>4. Filtered(FlattenSeq(ss), With(key)) = IF j \in 1..n THEN X ELSE <<>>
            BY <3>6, Zenon DEF KeptOf
        <3> QED
            BY <1>1, <1>4, <3>1, <3>4, Zenon DEF X
    <2>2. CASE ~ \E j \in 1..n : keys[j] = key
        <3> DEFINE X == <<>>
        <3>1. X \in Seq(KeyValue) /\ 0 \in Nat /\ 0 \notin 1..n
            BY <1>2, EmptySeq
        <3>2. ASSUME NEW i \in 1..n PROVE Filtered(ss[i], With(key)) = IF i = 0 THEN X ELSE <<>>
            <4>1. key # keys[i]
                BY <2>2
            <4>2. ss[i] = Unless(host, given, keys[i])
                BY <1>4
            <4> QED
                BY <1>3, <4>1, <4>2, Zenon
        <3>3. X = <<>>
            OBVIOUS
        <3> HIDE DEF X
        <3>6. OnlyFrom(ss, n, With(key), 0, X)
            BY <3>2, Zenon DEF OnlyFrom
        <3>7. KeptOf(ss, n, With(key), 0, X)
            BY <1>2, <1>4, <3>1, <3>6, FlattenFilter, Zenon
        <3>4. Filtered(FlattenSeq(ss), With(key)) = IF 0 \in 1..n THEN X ELSE <<>>
            BY <3>7, Zenon DEF KeptOf
        <3>5. Unless(host, given, key) = <<>>
            <4>1. key \notin DOMAIN host.options
                BY <1>2, <2>2
            <4>2. Values(host, key) = <<>>
                BY <4>1 DEF Values
            <4>3. PairsOf(host, key) = <<>>
                BY <4>2 DEF PairsOf
            <4> QED
                BY <4>3 DEF Unless
        <3> QED
            BY <1>1, <3>1, <3>3, <3>4, <3>5, Zenon
    <2> QED
        BY <2>1, <2>2
<1> QED
    BY <1>5, <1>6, Zenon DEF InjectsAs, I

-----------------------------------------------------------------------------
(* SshArgs: what counts of what is read *)

\* Effective, as a function of what is read for one option.
Counted(all, key) ==
    LET values == [k \in DOMAIN all |-> all[k][2]]
    IN  IF key \in Cumulative \/ values = <<>> THEN values ELSE <<values[1]>>
\* What a list of values comes to, without those that a user gives.
Taken(values, key) == IF key \in Cumulative \/ values = <<>> THEN values ELSE <<values[1]>>
CountsAs(a, key, b) == Counted(a, key) = Counted(b, key)
CountsTo(all, key, values) == Counted(all, key) = Taken(values, key)

LEMMA EffectiveIs ==
    ASSUME NEW r, NEW key
    PROVE  Effective(r, key) = Counted(Filtered(r.got, With(key)), key)
    BY DEF Effective, Counted, With

LEMMA CountedNone ==
    ASSUME NEW all \in Seq(KeyValue), NEW key
    PROVE  Counted(all, key) = <<>> <=> all = <<>>
<1> DEFINE values == [k \in DOMAIN all |-> all[k][2]]
<1>1. /\ Len(all) \in Nat /\ DOMAIN all = 1..Len(all) /\ (all = <<>> <=> Len(all) = 0)
    BY LenProperties, EmptySeq
<1>2. values \in Seq({all[k][2] : k \in DOMAIN all}) /\ Len(values) = Len(all)
    BY <1>1
<1> HIDE DEF values
<1>3. values = <<>> <=> all = <<>>
    BY <1>1, <1>2, EmptySeq
<1>4. <<values[1]>> # <<>>
    OBVIOUS
<1>5. Counted(all, key) = IF key \in Cumulative \/ values = <<>> THEN values ELSE <<values[1]>>
    BY DEF Counted, values
<1>6. values = <<>> => Counted(all, key) = <<>>
    BY <1>5, Zenon
<1>7. values # <<>> => Counted(all, key) # <<>>
    BY <1>4, <1>5, Zenon
<1> QED
    BY <1>3, <1>6, <1>7, Zenon

\* Of an option that does not add up the first value counts.
LEMMA CountedFirst ==
    ASSUME NEW A \in Seq(KeyValue), NEW K \in Seq(KeyValue), NEW P \in Seq(KeyValue), Joins(A, K, P),
           K # <<>>, NEW key, key \notin Cumulative
    PROVE  CountsAs(A, key, K)
<1> DEFINE va == [k \in DOMAIN A |-> A[k][2]]
           vk == [k \in DOMAIN K |-> K[k][2]]
<1>1. Len(A) = Len(K) + Len(P) /\ \A k \in 1..Len(K) : A[k] = K[k]
    BY JoinedIs DEF JoinedAs
<1>2. Len(K) \in Nat \ {0} /\ Len(P) \in Nat
    BY LenProperties, EmptySeq
<1>3. DOMAIN A = 1..Len(A) /\ DOMAIN K = 1..Len(K) /\ 1 \in 1..Len(A) /\ 1 \in 1..Len(K)
    BY <1>1, <1>2, LenProperties
<1>4. va[1] = vk[1] /\ va # <<>> /\ vk # <<>>
    <2>1. va[1] = vk[1]
        BY <1>1, <1>3
    <2>2. 1 \in DOMAIN va /\ 1 \in DOMAIN vk /\ DOMAIN <<>> = {}
        BY <1>3
    <2> HIDE DEF va, vk
    <2> QED
        BY <2>1, <2>2
<1>5. /\ Counted(A, key) = IF key \in Cumulative \/ va = <<>> THEN va ELSE <<va[1]>>
      /\ Counted(K, key) = IF key \in Cumulative \/ vk = <<>> THEN vk ELSE <<vk[1]>>
    BY DEF Counted
<1> HIDE DEF va, vk
<1> QED
    BY <1>4, <1>5, Zenon DEF CountsAs

LEMMA CountedPairs ==
    ASSUME NEW values \in Seq(STRING), NEW key, NEW pairs, PairsFor(pairs, values, key)
    PROVE  CountsTo(pairs, key, values)
<1> DEFINE vp == [k \in DOMAIN pairs |-> pairs[k][2]]
<1>1. DOMAIN pairs = DOMAIN values /\ \A k \in DOMAIN values : pairs[k] = <<key, values[k]>>
    BY DEF PairsFor
<1>2. \A k \in DOMAIN values : pairs[k][2] = values[k]
    BY <1>1
<1>3. vp = [k \in DOMAIN values |-> values[k]]
    BY <1>1, <1>2
<1>4. values = [k \in DOMAIN values |-> values[k]]
    OBVIOUS
<1>5. vp = values
    BY <1>3, <1>4
<1>6. Counted(pairs, key) = IF key \in Cumulative \/ vp = <<>> THEN vp ELSE <<vp[1]>>
    BY DEF Counted
<1> HIDE DEF vp
<1> QED
    BY <1>5, <1>6, Zenon DEF CountsTo, Taken

LEMMA JoinsNothing ==
    ASSUME NEW S, NEW s \in Seq(S), NEW t \in Seq(S), NEW u, Joins(u, s, t)
    PROVE  (t = <<>> => u = s) /\ (s = <<>> => u = t)
<1>1. t = <<>> => u = s
    BY ConcatEmptySeq DEF Joins
<1>2. s = <<>> => u = t
    BY ConcatEmptySeq DEF Joins
<1> QED
    BY <1>1, <1>2

\* The user before the @ of a destination is an option like others.
UserPair(a) == WithUser(<<>>, a)
UserKeys(a) == IF a.user = "" THEN {} ELSE {"user"}

LEMMA WithUserIs ==
    ASSUME NEW g \in Seq(KeyValue), NEW a, a.user \in STRING
    PROVE  /\ UserPair(a) \in Seq(KeyValue) /\ KeysIn(UserPair(a)) = UserKeys(a)
           /\ WithUser(g, a) \in Seq(KeyValue) /\ Joins(WithUser(g, a), g, UserPair(a))
           /\ KeysIn(WithUser(g, a)) = KeysIn(g) \cup UserKeys(a)
<1> DEFINE e == <<>>
           p == <<"user", a.user>>
<1>1. e \in Seq(KeyValue) /\ KeysIn(e) = {} /\ Joins(g, g, e)
    <2>1. g \o <<>> = g
        BY ConcatEmptySeq
    <2> QED
        BY <2>1, EmptySeq, NoKeys DEF Joins
<1>2. "user" \in Words
    BY DEF Words
<1>3. p \in KeyValue
    BY <1>2 DEF KeyValue
<1>4. /\ Append(e, p) \in Seq(KeyValue) /\ Append(g, p) \in Seq(KeyValue)
      /\ KeysIn(Append(e, p)) = KeysIn(e) \cup {"user"} /\ KeysIn(Append(g, p)) = KeysIn(g) \cup {"user"}
    BY <1>1, <1>2, KeysOfAppend
<1>5. /\ WithUser(g, a) = IF a.user = "" THEN g ELSE Append(g, p)
      /\ UserPair(a) = IF a.user = "" THEN e ELSE Append(e, p)
    BY DEF WithUser, UserPair
<1> HIDE DEF e, p
<1>6. Joins(Append(g, p), g, Append(e, p))
    BY <1>1, <1>3, JoinsAppend, Zenon
<1>7. CASE a.user = ""
    <2>1. UserPair(a) = e /\ WithUser(g, a) = g /\ UserKeys(a) = {}
        BY <1>5, <1>7, Zenon DEF UserKeys
    <2>2. KeysIn(g) \cup {} = KeysIn(g)
        OBVIOUS
    <2> QED
        BY <1>1, <2>1, <2>2, Zenon
<1>8. CASE a.user # ""
    <2>1. UserPair(a) = Append(e, p) /\ WithUser(g, a) = Append(g, p) /\ UserKeys(a) = {"user"}
        BY <1>5, <1>8, Zenon DEF UserKeys
    <2>2. {} \cup {"user"} = {"user"}
        OBVIOUS
    <2> QED
        BY <1>1, <1>4, <1>6, <2>1, <2>2, Zenon
<1> QED
    BY <1>7, <1>8

\* What is kept of a list for a key: nothing where it is not among the keys.
LEMMA KeptWith ==
    ASSUME NEW g \in Seq(KeyValue), NEW key
    PROVE  /\ Filtered(g, With(key)) \in Seq(KeyValue)
           /\ Filtered(g, With(key)) = <<>> <=> key \notin KeysIn(g)
<1>1. Filtered(g, With(key)) \in Seq(KeyValue)
    BY FilteredIs
<1>2. Filtered(g, With(key)) = <<>> <=> \A i \in DOMAIN g : g[i] \notin With(key)
    BY FilteredNone
<1>3. \A i \in DOMAIN g : g[i] \in KeyValue
    BY ElementOfSeq, LenProperties
<1>4. \A i \in DOMAIN g : g[i] \in With(key) <=> g[i][1] = key
    BY <1>3 DEF With, KeyValue
<1>5. key \in KeysIn(g) <=> \E i \in DOMAIN g : g[i][1] = key
    BY Zenon DEF KeysIn, Range
<1> QED
    BY <1>1, <1>2, <1>4, <1>5, Zenon

\* What an option comes to where the entry's values stand behind the user's.
CountedOf(got, key) == Counted(Filtered(got, With(key)), key)
Prefers(full, mine, host, key) ==
    CountedOf(full, key) = IF CountedOf(mine, key) # <<>> THEN CountedOf(mine, key)
                           ELSE Taken(Values(host, key), key)

\* What is injected between the options of the user leaves those that are given as they are.
LEMMA UserFirst ==
    ASSUME NEW host \in Range(Book), NEW g \in Seq(KeyValue), NEW G \in Seq(KeyValue),
           NEW a, a.user \in STRING, NEW d, d.user = a.user, NEW keys, Known(keys, KeysIn(g)),
           Joins(G, g, Injected(host, keys \cup UserKeys(a))), NEW key
    PROVE  Prefers(WithUser(G, d), WithUser(g, a), host, key)
<1> DEFINE given == keys \cup UserKeys(a)
           I == Injected(host, given)
           mine == WithUser(g, a)
           full == WithUser(G, d)
           u == UserPair(a)
           Of(x) == Filtered(x, With(key))
           A == Of(full)
           M == Of(mine)
           X == Of(G)
           Kg == Of(g)
           Kp == Of(I)
           Ku == Of(u)
<1>1. /\ u \in Seq(KeyValue) /\ KeysIn(u) = UserKeys(a)
      /\ mine \in Seq(KeyValue) /\ Joins(mine, g, u) /\ KeysIn(mine) = KeysIn(g) \cup UserKeys(a)
    BY WithUserIs, Zenon
<1>2. full \in Seq(KeyValue) /\ Joins(full, G, u)
    <2>1. d.user \in STRING
        OBVIOUS
    <2>2. WithUser(G, d) \in Seq(KeyValue) /\ Joins(WithUser(G, d), G, UserPair(d))
        BY <2>1, WithUserIs, Zenon
    <2>3. UserPair(d) = UserPair(a)
        BY Zenon DEF UserPair, WithUser
    <2> QED
        BY <2>2, <2>3, Zenon
<1>3. I \in Seq(KeyValue) /\ InjectsAs(I, host, given, key) /\ Joins(G, g, I)
    BY InjectedIs, Zenon
<1>4. /\ given \subseteq KeysIn(mine) /\ UserKeys(a) \subseteq given
      /\ key \in KeysIn(g) /\ key \notin given => key \notin Cumulative
    BY <1>1 DEF Known
<1> HIDE DEF given, I, mine, full, u
<1>5. /\ Kg \in Seq(KeyValue) /\ (Kg = <<>> <=> key \notin KeysIn(g))
      /\ Kp \in Seq(KeyValue) /\ Ku \in Seq(KeyValue) /\ (Ku = <<>> <=> key \notin KeysIn(u))
      /\ X \in Seq(KeyValue) /\ A \in Seq(KeyValue)
      /\ M \in Seq(KeyValue) /\ (M = <<>> <=> key \notin KeysIn(mine))
    BY <1>1, <1>2, <1>3, KeptWith, Zenon
<1>6. Joins(A, X, Ku)
    BY <1>1, <1>2, FilteredJoin, Zenon
<1>7. Joins(X, Kg, Kp)
    BY <1>3, FilteredJoin, Zenon
<1>8. Joins(M, Kg, Ku)
    BY <1>1, FilteredJoin, Zenon
<1>9. Kp = Unless(host, given, key)
    BY <1>3, Zenon DEF InjectsAs
<1>10. /\ CountedOf(full, key) = Counted(A, key) /\ CountedOf(mine, key) = Counted(M, key)
    BY Zenon DEF CountedOf
<1> HIDE DEF A, M, X, Kg, Kp, Ku, Of
<1>11. (Counted(M, key) = <<>>) <=> (M = <<>>)
    BY <1>5, CountedNone, Zenon
<1>12. CASE key \in given
    <2>1. Kp = <<>>
        BY <1>9, <1>12, Zenon DEF Unless
    <2>2. X = Kg
        BY <1>5, <1>7, <2>1, JoinsNothing, Zenon
    <2>3. A = M
        BY <1>6, <1>8, <2>2, Zenon DEF Joins
    <2>4. M # <<>>
        BY <1>4, <1>5, <1>12
    <2>5. Counted(M, key) # <<>>
        BY <1>11, <2>4, Zenon
    <2> QED
        BY <1>10, <2>3, <2>5, Zenon DEF Prefers, full, mine
<1>13. CASE key \notin KeysIn(mine)
    <2>1. M = <<>> /\ key \notin given /\ Kg = <<>> /\ Ku = <<>>
        BY <1>1, <1>4, <1>5, <1>13
    <2>2. Kp = PairsOf(host, key)
        BY <1>9, <2>1, Zenon DEF Unless
    <2>3. X = Kp /\ A = X
        BY <1>5, <1>6, <1>7, <2>1, JoinsNothing, Zenon
    <2>4. CountsTo(PairsOf(host, key), key, Values(host, key))
        <3>1. PairsFor(PairsOf(host, key), Values(host, key), key)
            BY Zenon DEF PairsFor, PairsOf
        <3> QED
            BY <3>1, ValuesAre, CountedPairs, Zenon
    <2>5. Counted(A, key) = Taken(Values(host, key), key)
        BY <2>2, <2>3, <2>4, Zenon DEF CountsTo
    <2>6. ~(Counted(M, key) # <<>>)
        BY <1>11, <2>1, Zenon
    <2> QED
        BY <1>10, <2>5, <2>6, Zenon DEF Prefers, full, mine
<1>14. CASE key \in KeysIn(g) /\ key \notin given
    <2>1. key \notin KeysIn(u) /\ key \notin Cumulative
        BY <1>1, <1>4, <1>14
    <2>2. Ku = <<>> /\ Kg # <<>>
        BY <1>5, <1>14, <2>1
    <2>3. A = X /\ M = Kg
        BY <1>5, <1>6, <1>8, <2>2, JoinsNothing, Zenon
    <2>4. CountsAs(X, key, Kg)
        BY <1>5, <1>7, <2>1, <2>2, CountedFirst, Zenon
    <2>5. Counted(A, key) = Counted(M, key)
        BY <2>3, <2>4, Zenon DEF CountsAs
    <2>6. Counted(M, key) # <<>>
        BY <1>11, <2>2, <2>3, Zenon
    <2> QED
        BY <1>10, <2>5, <2>6, Zenon DEF Prefers, full, mine
<1>15. key \in given \/ key \notin KeysIn(mine) \/ (key \in KeysIn(g) /\ key \notin given)
    BY <1>1, <1>4
<1> QED
    BY <1>12, <1>13, <1>14, <1>15, Zenon

-----------------------------------------------------------------------------
(* SshArgs: the line that is built *)

\* A destination stands for one entry at most, which is one of the inventory.
LEMMA ResolvedIs ==
    ASSUME NEW x
    PROVE  /\ Resolved(x) \subseteq Range(Book)
           /\ \A a, b \in Resolved(x) : a = b
<1> DEFINE hosts == DOMAIN Book
           named == {h \in hosts : Book[h].name = x}
           there == {h \in hosts : Book[h].host = x}
           first == CHOOSE h \in named : \A other \in named : h <= other
           found == IF named # {} THEN {first} ELSE IF Cardinality(there) = 1 THEN there ELSE {}
<1>1. Book \in Seq(Range(Book))
    BY ArgsAssumption
<1>2. hosts = 1..Len(Book) /\ Len(Book) \in Nat /\ \A h \in hosts : Book[h] \in Range(Book)
    BY <1>1, LenProperties DEF Range
<1>3. named \in SUBSET Nat
    BY <1>2
<1>4. IsFiniteSet(there)
    <2>1. IsFiniteSet(hosts) /\ there \subseteq hosts
        BY <1>2, FS_Interval
    <2> HIDE DEF hosts, there
    <2> QED
        BY <2>1, FS_Subset
<1>5. named # {} => first \in named
    <2> SUFFICES ASSUME named # {} PROVE first \in named
        OBVIOUS
    <2> HIDE DEF named
    <2>1. \E h \in named : \A other \in named : h <= other
        BY <1>3, LeastNat, Zenon
    <2> QED
        BY <2>1, Zenon
<1>6. Resolved(x) = {Book[h] : h \in {g \in found : Book[g].protocol = "ssh"}}
    BY DEF Resolved
<1>7. named \subseteq hosts /\ there \subseteq hosts
    OBVIOUS
<1> HIDE DEF hosts, named, there, first
<1>8. \E h : found \subseteq {h}
    <2>1. CASE named # {}
        BY <2>1
    <2>2. CASE named = {} /\ Cardinality(there) = 1
        <3>1. \E h : there = {h}
            BY <1>4, <2>2, FS_Singleton
        <3> QED
            BY <2>2, <3>1
    <2>3. CASE named = {} /\ Cardinality(there) # 1
        BY <2>3
    <2> QED
        BY <2>1, <2>2, <2>3
<1>9. found \subseteq hosts
    BY <1>5, <1>7
<1> HIDE DEF found
<1>10. PICK h : found \subseteq {h}
    BY <1>8
<1>11. ASSUME NEW a \in Resolved(x) PROVE a \in Range(Book) /\ a = Book[h]
    <2>1. PICK i \in found : a = Book[i]
        BY <1>6
    <2>2. i = h /\ i \in hosts
        BY <1>9, <1>10
    <2> QED
        BY <1>2, <2>1, <2>2
<1>12. \A a, b \in Resolved(x) : a = b
    BY <1>11
<1> QED
    BY <1>11, <1>12

\* The destination that is built, and what the user has given before it.
HostToken(host, a) == Token(<<>>, host.host, "", a.user)
Given(keys, a) == keys \cup UserKeys(a)

LEMMA SeenIs ==
    ASSUME NEW seen, NEW x, NEW y, NEW z, seen = Seen(x, y, z)
    PROVE  seen.at = y /\ seen.keys = z
    BY DEF Seen

LEMMA ClosedIs ==
    ASSUME NEW r, NEW x, NEW y, NEW z, r = Closed(x, y, z)
    PROVE  r.got = x /\ r.host = y /\ r.command = z
    BY DEF Closed, State

\* The line is spliced at the destination.
LEMMA SynthesizedIs ==
    ASSUME NEW args, NEW h, NEW keys, Inspection(args) = Seen(FALSE, h, keys), NEW host
    PROVE  Splices(Synthesized(args, host), args, h, AsTokens(Injected(host, Given(keys, args[h]))),
                   HostToken(host, args[h]))
<1> DEFINE seen == Inspection(args)
<1>1. seen.at = h /\ seen.keys = keys
    BY SeenIs, Zenon
<1> DEFINE user == args[seen.at].user
           given == seen.keys \cup (IF user = "" THEN {} ELSE {"user"})
           I == AsTokens(Injected(host, given))
           d == Token(<<>>, host.host, "", user)
<1>2. Synthesized(args, host) =
          SubSeq(args, 1, seen.at - 1) \o I \o <<d>> \o SubSeq(args, seen.at + 1, Len(args))
    BY Zenon DEF Synthesized
<1> HIDE DEF seen
<1>3. user = args[h].user
    BY <1>1, Zenon
<1>4. given = Given(keys, args[h])
    BY <1>1, <1>3, Zenon DEF Given, UserKeys
<1>5. d = HostToken(host, args[h])
    BY <1>3, Zenon DEF HostToken
<1> HIDE DEF user, given
<1>6. I = AsTokens(Injected(host, Given(keys, args[h])))
    BY <1>4, Zenon
<1> HIDE DEF I, d
<1> QED
    BY <1>1, <1>2, <1>5, <1>6, Zenon DEF Splices

\* It is so for the one entry that the destination stands for, and untouched without one.
LEMMA BuiltIs ==
    ASSUME NEW args, NEW h \in Nat, h # 0, NEW keys, Inspection(args) = Seen(FALSE, h, keys),
           ~NonInteractive(args)
    PROVE  /\ Resolved(args[h].text) = {} => Built(args) = args
           /\ \A host \in Resolved(args[h].text) :
                Splices(Built(args), args, h, AsTokens(Injected(host, Given(keys, args[h]))),
                        HostToken(host, args[h]))
<1> DEFINE at == Inspection(args).at
           hosts == IF at = 0 \/ NonInteractive(args) THEN {} ELSE Resolved(args[at].text)
           all == Resolved(args[h].text)
<1>1. at = h
    BY SeenIs, Zenon
<1>2. Built(args) = IF hosts = {} THEN args ELSE Synthesized(args, CHOOSE host \in hosts : TRUE)
    BY Zenon DEF Built
<1> HIDE DEF at
<1>3. hosts = all
    BY <1>1, Zenon
<1> HIDE DEF hosts
<1>4. \A a, b \in all : a = b
    BY ResolvedIs, Zenon
<1> HIDE DEF all
<1>5. all = {} => Built(args) = args
    BY <1>2, <1>3, Zenon
<1>6. ASSUME NEW host \in all
      PROVE  Splices(Built(args), args, h, AsTokens(Injected(host, Given(keys, args[h]))),
                     HostToken(host, args[h]))
    <2>1. all # {} /\ (CHOOSE x \in all : TRUE) \in all
        BY <1>6, Zenon
    <2>2. (CHOOSE x \in all : TRUE) = host
        BY <1>4, <1>6, <2>1, Zenon
    <2>3. Built(args) = Synthesized(args, host)
        BY <1>2, <1>3, <2>1, <2>2, Zenon
    <2>4. Splices(Synthesized(args, host), args, h, AsTokens(Injected(host, Given(keys, args[h]))),
                  HostToken(host, args[h]))
        BY SynthesizedIs, Zenon
    <2> QED
        BY <2>3, <2>4, Zenon
<1> QED
    BY <1>5, <1>6, Zenon DEF all

-----------------------------------------------------------------------------
(* SshArgs: the options of the user win *)

\* What is promised of the destination at h, with the entry that it stands for.
WinsWith(args, h, host) ==
    LET built == Built(args)
        full == Reading(built)
    IN  /\ Command(built) = Command(args)
        /\ built[full.host].text = host.host
        /\ \A key : Prefers(full.got, Reading(args).got, host, key)

\* What is built is read as it is promised.
LEMMA Wins ==
    ASSUME NEW args \in Seq(TokenType), NEW f, NEW h \in 1..Len(args), NEW g \in Seq(KeyValue),
           AtDestination(args, f, h, g), ~NonInteractive(args), NEW host \in Resolved(args[h].text)
    PROVE  WinsWith(args, h, host)
<1> DEFINE a == args[h]
           d == HostToken(host, a)
           keys == Inspection(args).keys
           I == Injected(host, Given(keys, a))
           T == AsTokens(I)
           m == Len(I)
           H == h + 2 * m
           B == Built(args)
           S == Range(args) \cup {T[k] : k \in 1..2 * m} \cup {d}
<1>1. Len(args) \in Nat /\ h \in Nat /\ h # 0 /\ a \in TokenType
    BY LenProperties, ElementOfSeq
<1>2. host \in Range(Book)
    BY ResolvedIs
<1>3. I \in Seq(KeyValue) /\ m \in Nat
    BY <1>2, InjectedIs, LenProperties
<1>4. args \in Seq(S)
    <2>1. DOMAIN args = 1..Len(args) /\ args = [k \in 1..Len(args) |-> args[k]]
        BY LenProperties
    <2>2. \A k \in 1..Len(args) : args[k] \in S
        BY <2>1 DEF Range
    <2> HIDE DEF S
    <2> QED
        BY <1>1, <2>1, <2>2, SeqDef
<1>5. T \in Seq(S)
    <2>1. T = [k \in 1..2 * m |-> T[k]]
        BY <1>3, AsTokensAre
    <2>2. \A k \in 1..2 * m : T[k] \in S
        OBVIOUS
    <2>3. 2 * m \in Nat
        BY <1>3
    <2> HIDE DEF T, S, m
    <2> QED
        BY <2>1, <2>2, <2>3, SeqDef
<1>6. d \in S /\ ~IsFlag(d) /\ d.user = a.user /\ d.text = host.host
    BY DEF HostToken, Token, IsFlag
<1>7. a.user \in STRING
    BY <1>1 DEF TokenType
<1>8. Splices(B, args, h, T, d)
    <2>1. Inspection(args) = Seen(FALSE, h, keys)
        BY Zenon DEF AtDestination
    <2> QED
        BY <1>1, <2>1, BuiltIs, Zenon
<1>9. ReadsBuilt(B, args, h, g, I, d, H)
    <2> HIDE DEF S, d, B, I
    <2> QED
        BY <1>3, <1>4, <1>5, <1>6, <1>8, BuiltReads, Zenon
<1>10. PICK G \in Seq(KeyValue) :
         /\ Joins(G, g, I)
         /\ Reading(B) = Closed(WithUser(G, d), H, IF h = Len(args) THEN 0 ELSE H + 1)
    BY <1>9, Zenon DEF ReadsBuilt
<1>11. B[H] = d /\ SubSeq(B, H + 1, Len(B)) = SubSeq(args, h + 1, Len(args))
    BY <1>9, Zenon DEF ReadsBuilt
<1>12. Reading(args) = Closed(WithUser(g, a), h, IF h = Len(args) THEN 0 ELSE h + 1)
    BY Zenon DEF AtDestination, Closed
<1>14. H \in Nat /\ H + 1 # 0 /\ h + 1 # 0
    BY <1>1, <1>3
<1>15. \A key : Prefers(WithUser(G, d), WithUser(g, a), host, key)
    <2>1. Joins(G, g, Injected(host, keys \cup UserKeys(a)))
        BY <1>10, Zenon DEF Given
    <2>2. Known(keys, KeysIn(g))
        BY Zenon DEF AtDestination
    <2> HIDE DEF d, a, I, B, keys
    <2> QED
        BY <1>2, <1>6, <1>7, <2>1, <2>2, UserFirst, Zenon
<1> HIDE DEF d, I, T, m, H, B, S
<1>16. /\ Reading(B).got = WithUser(G, d) /\ Reading(B).host = H
       /\ Reading(B).command = (IF h = Len(args) THEN 0 ELSE H + 1)
    <2> DEFINE r == Reading(B)
               x == WithUser(G, d)
               z == IF h = Len(args) THEN 0 ELSE H + 1
    <2>1. r = Closed(x, H, z)
        BY <1>10
    <2> HIDE DEF r, x, z
    <2>2. r.got = x /\ r.host = H /\ r.command = z
        BY <2>1 DEF Closed, State
    <2> QED
        BY <2>2, Zenon DEF r, x, z
<1>17. /\ Reading(args).got = WithUser(g, a) /\ Reading(args).host = h
       /\ Reading(args).command = (IF h = Len(args) THEN 0 ELSE h + 1)
    BY <1>12, ClosedIs, Zenon
<1>18. Command(B) = Command(args)
    <2>1. CASE h = Len(args)
        <3>1. Reading(B).command = 0 /\ Reading(args).command = 0
            BY <1>16, <1>17, <2>1, Zenon
        <3> QED
            BY <3>1, Zenon DEF Command
    <2>2. CASE h # Len(args)
        <3>1. Reading(B).command = H + 1 /\ Reading(args).command = h + 1
            BY <1>16, <1>17, <2>2, Zenon
        <3>2. Command(B) = SubSeq(B, H + 1, Len(B)) /\ Command(args) = SubSeq(args, h + 1, Len(args))
            BY <1>14, <3>1, Zenon DEF Command
        <3> QED
            BY <1>11, <3>2, Zenon
    <2> QED
        BY <2>1, <2>2
<1>19. B[Reading(B).host].text = host.host
    <2>1. B[Reading(B).host] = d
        BY <1>11, <1>16, Zenon
    <2> QED
        BY <1>6, <2>1, Zenon
<1>20. \A key : Prefers(Reading(B).got, Reading(args).got, host, key)
    BY <1>15, <1>16, <1>17, Zenon
<1> QED
    BY <1>18, <1>19, <1>20, Zenon DEF WinsWith, B

\* The line consists of what may be typed.
TypedArgs == argv \in Seq(Tokens)

\* UserOptionsWin, for every inventory, every set of tokens and lines of every length: whatever is
\* typed in a form that inspect_ssh_args recognises, synthesize_ssh_args leaves what the user has
\* given as ssh reads it, adds the entry's values where there are none, and keeps the command.
THEOREM UserOptionsAlwaysWin == ArgsSpec => []UserOptionsWin
<1>1. ArgsInit => TypedArgs
    BY EmptySeq DEF ArgsInit, TypedArgs
<1>2. TypedArgs /\ [ArgsNext]_argv => TypedArgs'
    BY AppendProperties DEF ArgsNext, TypeArg, TypedArgs
<1>3. TypedArgs => UserOptionsWin
    <2> SUFFICES ASSUME TypedArgs, InOrder(Reading(argv)), ~NonInteractive(argv),
                        \A a \in Range(argv) : Recognised(a)
                 PROVE  /\ Command(Built(argv)) = Command(argv)
                        /\ \A host \in Resolved(argv[Reading(argv).host].text) :
                             /\ Built(argv)[Reading(Built(argv)).host].text = host.host
                             /\ \A key : Effective(Reading(Built(argv)), key) =
                               IF Effective(Reading(argv), key) # <<>> THEN Effective(Reading(argv), key)
                               ELSE IF key \in Cumulative \/ Values(host, key) = <<>>
                                    THEN Values(host, key) ELSE <<Values(host, key)[1]>>
        BY Zenon DEF UserOptionsWin, Plain
    <2>1. argv \in Seq(TokenType)
        <3>1. \A a \in Tokens : a \in TokenType
            BY ArgsAssumption DEF TokenType
        <3>2. /\ Len(argv) \in Nat /\ argv = [k \in 1..Len(argv) |-> argv[k]]
              /\ \A k \in 1..Len(argv) : argv[k] \in Tokens
            BY LenProperties, ElementOfSeq DEF TypedArgs
        <3> QED
            BY <3>1, <3>2, SeqDef
    <2>2. \A k \in 1..Len(argv) : Recognised(argv[k])
        <3>1. DOMAIN argv = 1..Len(argv)
            BY LenProperties DEF TypedArgs
        <3> QED
            BY <3>1 DEF Range
    <2>3. \E f : \E h \in 1..Len(argv), g \in Seq(KeyValue) : AtDestination(argv, f, h, g)
        BY <2>1, <2>2, DestinationIs, Zenon
    <2>4. PICK f : \E h \in 1..Len(argv), g \in Seq(KeyValue) : AtDestination(argv, f, h, g)
        BY <2>3, Zenon
    <2>5. PICK h \in 1..Len(argv), g \in Seq(KeyValue) : AtDestination(argv, f, h, g)
        BY <2>4, Zenon
    <2>6. Reading(argv).host = h /\ h \in Nat /\ h # 0
        <3>1. Reading(argv) = State("", WithUser(g, argv[h]), h, FALSE, IF h = Len(argv) THEN 0 ELSE h + 1)
            BY <2>5, Zenon DEF AtDestination
        <3>2. \A x, c : State("", x, h, FALSE, c).host = h
            BY DEF State
        <3>3. h \in Nat /\ h # 0
            OBVIOUS
        <3> QED
            BY <3>1, <3>2, <3>3, Zenon
    <2>7. \A host \in Resolved(argv[h].text) : WinsWith(argv, h, host)
        BY <2>1, <2>5, Wins, Zenon
    <2>8. Command(Built(argv)) = Command(argv)
        <3>1. CASE Resolved(argv[h].text) = {}
            <4>1. Inspection(argv) = Seen(FALSE, h, Inspection(argv).keys)
                BY <2>5, Zenon DEF AtDestination
            <4>2. Built(argv) = argv
                BY <2>6, <3>1, <4>1, BuiltIs, Zenon
            <4> QED
                BY <4>2, Zenon
        <3>2. CASE Resolved(argv[h].text) # {}
            BY <2>7, <3>2, Zenon DEF WinsWith
        <3> QED
            BY <3>1, <3>2
    <2>9. ASSUME NEW host \in Resolved(argv[h].text)
          PROVE  /\ Built(argv)[Reading(Built(argv)).host].text = host.host
                 /\ \A key : Prefers(Reading(Built(argv)).got, Reading(argv).got, host, key)
        BY <2>7, Zenon DEF WinsWith
    <2>10. \A r, key : CountedOf(r.got, key) = Effective(r, key)
        BY EffectiveIs, Zenon DEF CountedOf
    <2>11. ASSUME NEW host \in Resolved(argv[h].text), NEW key
           PROVE  Effective(Reading(Built(argv)), key) =
                    IF Effective(Reading(argv), key) # <<>> THEN Effective(Reading(argv), key)
                    ELSE IF key \in Cumulative \/ Values(host, key) = <<>> THEN Values(host, key)
                    ELSE <<Values(host, key)[1]>>
        BY <2>9, <2>10, Zenon DEF Prefers, Taken
    <2> QED
        BY <2>6, <2>8, <2>9, <2>11, Zenon
<1> QED
    BY <1>1, <1>2, <1>3, PTL DEF ArgsSpec
=============================================================================
